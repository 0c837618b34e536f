--------------------------- MODULE DataCodecProofs ---------------------------
(* Proofs about DataCodec, for every set of keys and values, whatever the   *)
(* values hold, and however often and in whatever order a row is updated.   *)
EXTENDS DataCodec, SequenceTheorems, FunctionTheorems, FiniteSetTheorems, WellFoundedInduction, TLAPS

(***************************************************************************)
(* Induction and recursion over the naturals, in the form the provers can   *)
(* use: about sets and functions, not about operators.                     *)
(***************************************************************************)

(* A nonempty set of naturals has a least element.                          *)
LEMMA Least ==
  ASSUME NEW T, T \subseteq Nat, NEW n \in T
  PROVE  \E m \in T : \A k \in T : m <= k
<1>1. PICK m \in T : \A k \in T : <<k, m>> \notin OpToRel(<, Nat)
  BY NatLessThanWellFounded, WFMin
<1>2. \A k \in T : ~(k < m)
  BY <1>1 DEF OpToRel
<1> QED
  BY <1>2

(* What holds of a number whenever it holds of all the smaller ones holds   *)
(* of all.                                                                 *)
LEMMA Inductive ==
  ASSUME NEW S, \A n \in Nat : (\A k \in 0..(n - 1) : k \in S) => n \in S
  PROVE  Nat \subseteq S
<1>1. SUFFICES ASSUME NEW n \in Nat, n \notin S
               PROVE  FALSE
  OBVIOUS
<1> DEFINE T == {k \in Nat : k \notin S}
<1>2. PICK m \in T : \A k \in T : m <= k
  <2>1. n \in T /\ T \subseteq Nat
    BY <1>1
  <2> HIDE DEF T
  <2> QED
    BY <2>1, Least
<1>3. m \in Nat /\ m \notin S /\ \A k \in 0..(m - 1) : k \in S
  BY <1>2
<1> QED
  BY <1>3

(* Two functions agree below n.                                             *)
Agree(f, g, n) == \A k \in 0..(n - 1) : f[k] = g[k]

(* step computes a value from the ones below it.                            *)
IsStep(step, A) ==
  /\ step \in [Nat -> [[Nat -> A] -> A]]
  /\ \A n \in Nat : \A f, g \in [Nat -> A] : Agree(f, g, n) => step[n][f] = step[n][g]

(* f follows step below n.                                                  *)
Follows(step, f, n) == \A k \in 0..(n - 1) : f[k] = step[k][f]

LEMMA FollowersAgree ==
  ASSUME NEW A, NEW step, IsStep(step, A), NEW f \in [Nat -> A], NEW g \in [Nat -> A],
         NEW n \in Nat, Follows(step, f, n), Follows(step, g, n)
  PROVE  Agree(f, g, n)
<1> DEFINE S == {k \in Nat : k < n => f[k] = g[k]}
<1>1. \A m \in Nat : (\A k \in 0..(m - 1) : k \in S) => m \in S
  <2>1. SUFFICES ASSUME NEW m \in Nat, \A k \in 0..(m - 1) : k \in S, m < n
                 PROVE  f[m] = g[m]
    OBVIOUS
  <2>2. Agree(f, g, m)
    BY <2>1 DEF Agree
  <2>3. step[m][f] = step[m][g]
    BY <2>2 DEF IsStep
  <2>4. f[m] = step[m][f] /\ g[m] = step[m][g]
    BY <2>1 DEF Follows
  <2> QED
    BY <2>3, <2>4
<1>2. Nat \subseteq S
  <2> HIDE DEF S
  <2> QED
    BY <1>1, Inductive
<1> QED
  BY <1>2 DEF Agree

(* A recursion over the naturals has a function that satisfies it.          *)
LEMMA Recursion ==
  ASSUME NEW A, NEW a \in A, NEW step, IsStep(step, A)
  PROVE  \E f \in [Nat -> A] : \A n \in Nat : f[n] = step[n][f]
<1> DEFINE S == {n \in Nat : \E f \in [Nat -> A] : Follows(step, f, n + 1)}
<1>1. \A n \in Nat : (\A k \in 0..(n - 1) : k \in S) => n \in S
  <2>1. SUFFICES ASSUME NEW n \in Nat, \A k \in 0..(n - 1) : k \in S
                 PROVE  \E f \in [Nat -> A] : Follows(step, f, n + 1)
    OBVIOUS
  <2>2. PICK f \in [Nat -> A] : Follows(step, f, n)
    <3>1. CASE n = 0
      <4> DEFINE g == [k \in Nat |-> a]
      <4>1. g \in [Nat -> A]
        OBVIOUS
      <4> HIDE DEF g
      <4>2. Follows(step, g, n)
        BY <3>1 DEF Follows
      <4> QED
        BY <4>1, <4>2
    <3>2. CASE n # 0
      <4>1. n - 1 \in S /\ (n - 1) + 1 = n
        BY <2>1, <3>2
      <4> QED
        BY <4>1
    <3> QED
      BY <3>1, <3>2
  <2> DEFINE g == [f EXCEPT ![n] = step[n][f]]
  <2>3. g \in [Nat -> A] /\ g[n] = step[n][f] /\ Agree(f, g, n)
    BY DEF Agree, IsStep
  <2>4. \A k \in 0..n : Agree(f, g, k)
    BY <2>3 DEF Agree
  <2> HIDE DEF g
  <2>5. \A k \in 0..n : step[k][f] = step[k][g]
    BY <2>3, <2>4 DEF IsStep
  <2>6. \A k \in 0..(n - 1) : g[k] = step[k][f]
    BY <2>2, <2>3 DEF Follows, Agree
  <2>7. Follows(step, g, n + 1)
    BY <2>3, <2>5, <2>6 DEF Follows
  <2> QED
    BY <2>3, <2>7
<1>2. \A n \in Nat : \E f \in [Nat -> A] : Follows(step, f, n + 1)
  <2>1. Nat \subseteq S
    <3> HIDE DEF S
    <3> QED
      BY <1>1, Inductive
  <2> QED
    BY <2>1
<1> DEFINE chosen(n) == CHOOSE f \in [Nat -> A] : Follows(step, f, n + 1)
           f == [n \in Nat |-> chosen(n)[n]]
<1>3. \A n \in Nat : chosen(n) \in [Nat -> A] /\ Follows(step, chosen(n), n + 1)
  BY <1>2
<1>4. f \in [Nat -> A] /\ \A n \in Nat : f[n] = chosen(n)[n]
  BY <1>3
<1> HIDE DEF chosen, f
<1>5. ASSUME NEW n \in Nat
      PROVE  f[n] = step[n][f]
  <2>1. ASSUME NEW k \in 0..n
        PROVE  chosen(k)[k] = chosen(n)[k]
    <3>1. Follows(step, chosen(k), k + 1) /\ Follows(step, chosen(n), k + 1)
      BY <1>3 DEF Follows
    <3>2. Agree(chosen(k), chosen(n), k + 1)
      <4>1. k + 1 \in Nat /\ chosen(k) \in [Nat -> A] /\ chosen(n) \in [Nat -> A]
        BY <1>3
      <4> QED
        BY <3>1, <4>1, FollowersAgree
    <3> QED
      BY <3>2 DEF Agree
  <2>2. Agree(f, chosen(n), n)
    BY <1>4, <2>1 DEF Agree
  <2>3. step[n][f] = step[n][chosen(n)]
    BY <1>3, <1>4, <2>2 DEF IsStep
  <2>4. chosen(n)[n] = step[n][chosen(n)]
    BY <1>3 DEF Follows
  <2> QED
    BY <1>4, <2>3, <2>4
<1> QED
  BY <1>4, <1>5

-----------------------------------------------------------------------------
(* Pieces of texts.                                                         *)

Texts == Seq(Chars)
Without(c) == {text \in Texts : \A i \in 1..Len(text) : text[i] # c}

LEMMA Separators == Eq \in Chars /\ Tab \in Chars /\ Eq # Tab
<1>1. Eq \in Chars /\ Tab \in Chars
  BY CharsAssumption
<1>2. Eq # Tab
  BY DEF Eq, Tab
<1> QED
  BY <1>1, <1>2

LEMMA TextsAre ==
  /\ \A text \in Texts : Len(text) \in Nat /\ DOMAIN text = 1..Len(text) /\ SubSeq(text, 1, Len(text)) = text
  /\ \A s, t \in Texts : (Len(s) = Len(t) /\ \A i \in 1..Len(s) : s[i] = t[i]) => s = t
<1>1. ASSUME NEW text \in Texts
      PROVE  Len(text) \in Nat /\ DOMAIN text = 1..Len(text) /\ SubSeq(text, 1, Len(text)) = text
  BY LenProperties, SubSeqFull DEF Texts
<1>2. ASSUME NEW s \in Texts, NEW t \in Texts, Len(s) = Len(t), \A i \in 1..Len(s) : s[i] = t[i]
      PROVE  s = t
  BY <1>2, SeqEqual DEF Texts
<1> QED
  BY <1>1, <1>2

LEMMA ConcatTexts ==
  ASSUME NEW s \in Texts, NEW t \in Texts
  PROVE  /\ s \o t \in Texts
         /\ Len(s \o t) = Len(s) + Len(t)
         /\ \A i \in 1..Len(s) : (s \o t)[i] = s[i]
         /\ \A i \in 1..Len(t) : (s \o t)[Len(s) + i] = t[i]
<1>1. /\ s \o t \in Texts
      /\ Len(s \o t) = Len(s) + Len(t)
      /\ \A i \in 1..(Len(s) + Len(t)) : (s \o t)[i] = IF i <= Len(s) THEN s[i] ELSE t[i - Len(s)]
  BY ConcatProperties DEF Texts
<1>2. Len(s) \in Nat /\ Len(t) \in Nat
  BY TextsAre
<1> HIDE DEF Texts
<1> QED
  BY <1>1, <1>2

LEMMA OneChar ==
  ASSUME NEW c \in Chars
  PROVE  <<c>> \in Texts /\ Len(<<c>>) = 1 /\ <<c>>[1] = c
BY DEF Texts

LEMMA Prefixed ==
  ASSUME NEW c \in Chars, NEW text \in Texts
  PROVE  /\ <<c>> \o text \in Texts
         /\ Len(<<c>> \o text) = 1 + Len(text)
         /\ (<<c>> \o text)[1] = c
         /\ \A i \in 1..Len(text) : (<<c>> \o text)[1 + i] = text[i]
<1> DEFINE one == <<c>>
<1>1. one \in Texts /\ Len(one) = 1 /\ one[1] = c
  BY OneChar
<1>2. 1 \in 1..Len(one)
  BY <1>1
<1> HIDE DEF one
<1>3. /\ one \o text \in Texts
      /\ Len(one \o text) = Len(one) + Len(text)
      /\ (one \o text)[1] = one[1]
      /\ \A i \in 1..Len(text) : (one \o text)[Len(one) + i] = text[i]
  BY <1>1, <1>2, ConcatTexts
<1>4. /\ one \o text \in Texts
      /\ Len(one \o text) = 1 + Len(text)
      /\ (one \o text)[1] = c
      /\ \A i \in 1..Len(text) : (one \o text)[1 + i] = text[i]
  BY <1>1, <1>3
<1> QED
  BY <1>4 DEF one

LEMMA PartsOfTexts ==
  ASSUME NEW text \in Texts, NEW m \in 1..(Len(text) + 1), NEW n \in (m - 1)..Len(text)
  PROVE  /\ SubSeq(text, m, n) \in Texts
         /\ Len(SubSeq(text, m, n)) = (n - m) + 1
         /\ \A i \in 1..((n - m) + 1) : SubSeq(text, m, n)[i] = text[(m + i) - 1]
<1>1. Len(text) \in Nat /\ m \in Int /\ n \in Int
  BY TextsAre
<1>2. \A i \in m..n : text[i] \in Chars
  BY <1>1, ElementOfSeq DEF Texts
<1>3. /\ SubSeq(text, m, n) \in Texts
      /\ Len(SubSeq(text, m, n)) = IF m <= n THEN (n - m) + 1 ELSE 0
      /\ \A i \in 1..((n - m) + 1) : SubSeq(text, m, n)[i] = text[(m + i) - 1]
  BY <1>1, <1>2, SubSeqProperties DEF Texts
<1> QED
  BY <1>1, <1>3

LEMMA WithoutIs ==
  ASSUME NEW c, NEW text
  PROVE  text \in Without(c) <=> text \in Texts /\ \A i \in 1..Len(text) : text[i] # c
BY DEF Without

(* What End chooses.                                                        *)
IsEnd(text, separator, start, end) ==
  /\ end \in (start + 1)..(Len(text) + 1)
  /\ end <= Len(text) => text[end] = separator
  /\ \A i \in (start + 1)..(end - 1) : text[i] # separator

LEMMA EndUnique ==
  ASSUME NEW text \in Texts, NEW separator, NEW start \in Nat,
         NEW end, IsEnd(text, separator, start, end)
  PROVE  End(text, separator, start) = end
<1>1. Len(text) \in Nat /\ DOMAIN text = 1..Len(text)
  BY TextsAre
<1>2. \A e \in (start + 1)..(Len(text) + 1) :
        IsEnd(text, separator, start, e) <=>
          /\ e \in DOMAIN text => text[e] = separator
          /\ \A i \in (start + 1)..(e - 1) : text[i] # separator
  BY <1>1 DEF IsEnd
<1>3. \A e \in (start + 1)..(Len(text) + 1) : IsEnd(text, separator, start, e) => e = end
  <2>1. SUFFICES ASSUME NEW e \in (start + 1)..(Len(text) + 1), IsEnd(text, separator, start, e), e # end
                 PROVE  FALSE
    OBVIOUS
  <2>2. e < end \/ end < e
    BY <1>1, <2>1 DEF IsEnd
  <2> QED
    BY <1>1, <2>1, <2>2 DEF IsEnd
<1>4. end \in (start + 1)..(Len(text) + 1)
  BY DEF IsEnd
<1> QED
  BY <1>2, <1>3, <1>4 DEF End

LEMMA EndExists ==
  ASSUME NEW text \in Texts, NEW separator, NEW start \in 0..Len(text)
  PROVE  IsEnd(text, separator, start, End(text, separator, start))
<1>1. Len(text) \in Nat
  BY TextsAre
<1> DEFINE T == {e \in (start + 1)..(Len(text) + 1) : e <= Len(text) => text[e] = separator}
<1>2. T \subseteq Nat /\ Len(text) + 1 \in T
  BY <1>1
<1>3. PICK end \in T : \A e \in T : end <= e
  <2> HIDE DEF T
  <2> QED
    BY <1>2, Least
<1>4. IsEnd(text, separator, start, end)
  BY <1>1, <1>3 DEF IsEnd
<1> QED
  BY <1>1, <1>4, EndUnique

(* The piece at the start of a text.                                        *)
LEMMA FirstPiece ==
  ASSUME NEW c \in Chars, NEW s \in Without(c), NEW t \in Texts
  PROVE  /\ Piece(s, c, 0) = s
         /\ End(s \o (<<c>> \o t), c, 0) = Len(s) + 1
         /\ Piece(s \o (<<c>> \o t), c, 0) = s
<1> DEFINE rest == <<c>> \o t
           text == s \o rest
<1>1. s \in Texts /\ \A i \in 1..Len(s) : s[i] # c
  BY WithoutIs
<1>2. Len(s) \in Nat /\ Len(t) \in Nat
  BY <1>1, TextsAre
<1>3. rest \in Texts /\ Len(rest) = 1 + Len(t) /\ rest[1] = c
  BY <1>2, Prefixed
<1> HIDE DEF rest
<1>4. /\ text \in Texts /\ Len(text) = Len(s) + (1 + Len(t))
      /\ \A i \in 1..Len(s) : text[i] = s[i]
      /\ text[Len(s) + 1] = c
  <2>1. 1 \in 1..Len(rest)
    BY <1>2, <1>3
  <2>2. /\ text \in Texts /\ Len(text) = Len(s) + Len(rest)
        /\ \A i \in 1..Len(s) : text[i] = s[i]
        /\ text[Len(s) + 1] = rest[1]
    BY <1>1, <1>3, <2>1, ConcatTexts
  <2> QED
    BY <1>3, <2>2
<1> HIDE DEF text
<1>5. IsEnd(s, c, 0, Len(s) + 1)
  BY <1>1, <1>2 DEF IsEnd
<1>6. IsEnd(text, c, 0, Len(s) + 1)
  BY <1>1, <1>2, <1>4 DEF IsEnd
<1>7. End(s, c, 0) = Len(s) + 1 /\ End(text, c, 0) = Len(s) + 1
  BY <1>1, <1>4, <1>5, <1>6, EndUnique
<1>8. SubSeq(s, 1, Len(s)) = s
  BY <1>1, TextsAre
<1>9. SubSeq(text, 1, Len(s)) = s
  <2> DEFINE part == SubSeq(text, 1, Len(s))
  <2>1. 1 \in 1..(Len(text) + 1) /\ Len(s) \in (1 - 1)..Len(text)
    BY <1>2, <1>4
  <2>2. /\ part \in Texts /\ Len(part) = (Len(s) - 1) + 1
        /\ \A i \in 1..((Len(s) - 1) + 1) : part[i] = text[(1 + i) - 1]
    BY <1>4, <2>1, PartsOfTexts
  <2> HIDE DEF part
  <2>3. Len(part) = Len(s) /\ \A i \in 1..Len(s) : part[i] = s[i]
    BY <1>2, <1>4, <2>2
  <2>4. part = s
    BY <1>1, <2>2, <2>3, TextsAre
  <2> QED
    BY <2>4 DEF part
<1>10. (Len(s) + 1) - 1 = Len(s) /\ 0 + 1 = 1
  BY <1>2
<1>11. Piece(s, c, 0) = s /\ Piece(text, c, 0) = s
  BY <1>7, <1>8, <1>9, <1>10 DEF Piece
<1> QED
  BY <1>7, <1>11 DEF text, rest

(* What BeforeEq returns.                                                   *)
LEMMA BeforeEqIs ==
  ASSUME NEW text \in Texts, NEW n \in 0..Len(text),
         \A i \in 1..n : text[i] # Eq,
         n < Len(text) => text[n + 1] = Eq
  PROVE  BeforeEq(text) = SubSeq(text, 1, n)
<1>1. Len(text) \in Nat
  BY TextsAre
<1>2. ASSUME NEW k \in 0..Len(text), \A i \in 1..k : text[i] # Eq, k < Len(text) => text[k + 1] = Eq
      PROVE  k = n
  <2>1. ~(k < n)
    <3>1. SUFFICES ASSUME k < n PROVE FALSE
      OBVIOUS
    <3>2. k + 1 \in 1..n /\ k < Len(text)
      BY <1>1, <3>1
    <3> QED
      BY <1>2, <3>2
  <2>2. ~(n < k)
    <3>1. SUFFICES ASSUME n < k PROVE FALSE
      OBVIOUS
    <3>2. n + 1 \in 1..k /\ n < Len(text)
      BY <1>1, <3>1
    <3> QED
      BY <1>2, <3>2
  <2> QED
    BY <2>1, <2>2
<1> QED
  BY <1>2 DEF BeforeEq

(* BeforeEq is the piece before the first "=".                              *)
LEMMA BeforeEqEnd ==
  ASSUME NEW text \in Texts
  PROVE  /\ End(text, Eq, 0) \in 1..(Len(text) + 1)
         /\ BeforeEq(text) = SubSeq(text, 1, End(text, Eq, 0) - 1)
<1> DEFINE end == End(text, Eq, 0)
<1>1. Len(text) \in Nat
  BY TextsAre
<1>2. IsEnd(text, Eq, 0, end)
  BY <1>1, EndExists
<1> HIDE DEF end
<1>3. /\ end \in 1..(Len(text) + 1) /\ end - 1 \in 0..Len(text)
      /\ \A i \in 1..(end - 1) : text[i] # Eq
      /\ end - 1 < Len(text) => text[(end - 1) + 1] = Eq
  BY <1>1, <1>2 DEF IsEnd
<1>4. BeforeEq(text) = SubSeq(text, 1, end - 1)
  BY <1>3, BeforeEqIs
<1> QED
  BY <1>3, <1>4 DEF end

LEMMA BeforeEqProperties ==
  ASSUME NEW text \in Texts
  PROVE  /\ BeforeEq(text) \in Without(Eq)
         /\ \A c : text \in Without(c) => BeforeEq(text) \in Without(c)
         /\ text \in Without(Eq) => BeforeEq(text) = text
<1> DEFINE end == End(text, Eq, 0)
           before == SubSeq(text, 1, end - 1)
<1>1. Len(text) \in Nat
  BY TextsAre
<1>2. IsEnd(text, Eq, 0, end)
  BY <1>1, EndExists
<1>3. BeforeEq(text) = before
  BY BeforeEqEnd
<1> HIDE DEF end
<1>4. /\ before \in Texts /\ Len(before) = end - 1 /\ end \in 1..(Len(text) + 1)
      /\ \A i \in 1..(end - 1) : before[i] = text[i]
  <2>1. end \in 1..(Len(text) + 1) /\ 1 \in 1..(Len(text) + 1) /\ end - 1 \in (1 - 1)..Len(text)
    BY <1>1, <1>2 DEF IsEnd
  <2>2. /\ before \in Texts /\ Len(before) = ((end - 1) - 1) + 1
        /\ \A i \in 1..(((end - 1) - 1) + 1) : before[i] = text[(1 + i) - 1]
    BY <2>1, PartsOfTexts
  <2> QED
    BY <1>1, <2>1, <2>2
<1>5. text \in Without(Eq) => before = text
  <2>1. SUFFICES ASSUME \A i \in 1..Len(text) : text[i] # Eq
                 PROVE  before = text
    BY WithoutIs
  <2>2. end = Len(text) + 1
    BY <1>1, <1>2, <2>1 DEF IsEnd
  <2>3. end - 1 = Len(text)
    BY <1>1, <2>2
  <2> QED
    BY <2>3, TextsAre
<1> HIDE DEF before
<1>6. before \in Without(Eq)
  <2>1. \A i \in 1..Len(before) : before[i] # Eq
    BY <1>2, <1>4 DEF IsEnd
  <2> QED
    BY <1>4, <2>1, WithoutIs
<1>7. ASSUME NEW c, text \in Without(c)
      PROVE  before \in Without(c)
  <2>1. \A i \in 1..Len(text) : text[i] # c
    BY <1>7, WithoutIs
  <2>2. \A i \in 1..Len(before) : before[i] # c
    BY <1>1, <1>4, <2>1
  <2> QED
    BY <1>4, <2>2, WithoutIs
<1> HIDE DEF before
<1> QED
  BY <1>3, <1>5, <1>6, <1>7

(* The value of an item is read up to its first "=".                        *)
LEMMA ItemReads ==
  ASSUME NEW key \in Without(Eq), NEW value \in Texts
  PROVE  LET item == key \o (<<Eq>> \o value)
         IN  /\ item \in Texts
             /\ IsPair(item)
             /\ KeyOf(item) = key
             /\ ValueOf(item) = BeforeEq(value)
<1> DEFINE rest == <<Eq>> \o value
           item == key \o rest
           end == End(value, Eq, 0)
<1>1. key \in Texts /\ Len(key) \in Nat /\ Len(value) \in Nat
  BY TextsAre, WithoutIs
<1>2. Eq \in Chars
  BY Separators
<1>3. /\ rest \in Texts /\ Len(rest) = 1 + Len(value) /\ rest[1] = Eq
      /\ \A i \in 1..Len(value) : rest[1 + i] = value[i]
  BY <1>2, Prefixed
<1>4. End(item, Eq, 0) = Len(key) + 1 /\ KeyOf(item) = key
  BY <1>2, FirstPiece DEF KeyOf
<1> HIDE DEF rest
<1>5. /\ item \in Texts /\ Len(item) = Len(key) + (1 + Len(value)) /\ DOMAIN item = 1..Len(item)
      /\ item[Len(key) + 1] = Eq
      /\ \A i \in 1..Len(value) : item[(Len(key) + 1) + i] = value[i]
  <2>1. 1 \in 1..Len(rest) /\ \A i \in 1..Len(value) : 1 + i \in 1..Len(rest)
    BY <1>1, <1>3
  <2>2. /\ item \in Texts /\ Len(item) = Len(key) + Len(rest)
        /\ item[Len(key) + 1] = rest[1]
        /\ \A i \in 1..Len(value) : item[Len(key) + (1 + i)] = rest[1 + i]
    BY <1>1, <1>3, <2>1, ConcatTexts
  <2>3. DOMAIN item = 1..Len(item)
    BY <2>2, TextsAre
  <2>4. \A i \in 1..Len(value) : Len(key) + (1 + i) = (Len(key) + 1) + i
    BY <1>1
  <2> HIDE DEF item
  <2> QED
    BY <1>3, <2>2, <2>3, <2>4
<1> HIDE DEF item
<1>6. IsPair(item)
  <2>1. Len(key) + 1 \in DOMAIN item
    BY <1>1, <1>5
  <2> QED
    BY <1>5, <2>1 DEF IsPair
<1>7. IsEnd(value, Eq, 0, end)
  BY <1>1, EndExists
<1>8. BeforeEq(value) = SubSeq(value, 1, end - 1) /\ end \in 1..(Len(value) + 1)
  BY BeforeEqEnd
<1> HIDE DEF end
<1>9. IsEnd(item, Eq, Len(key) + 1, (Len(key) + 1) + end)
  <2>1. \A i \in ((Len(key) + 1) + 1)..(((Len(key) + 1) + end) - 1) : item[i] # Eq
    <3>1. SUFFICES ASSUME NEW i \in ((Len(key) + 1) + 1)..(((Len(key) + 1) + end) - 1)
                   PROVE  item[i] # Eq
      OBVIOUS
    <3> DEFINE j == i - (Len(key) + 1)
    <3>2. j \in 1..Len(value) /\ j \in (0 + 1)..(end - 1) /\ (Len(key) + 1) + j = i
      BY <1>1, <1>8
    <3> HIDE DEF j
    <3> QED
      BY <1>5, <1>7, <3>2 DEF IsEnd
  <2>2. (Len(key) + 1) + end <= Len(item) => item[(Len(key) + 1) + end] = Eq
    BY <1>1, <1>5, <1>7, <1>8 DEF IsEnd
  <2> QED
    BY <1>1, <1>5, <1>8, <2>1, <2>2 DEF IsEnd
<1>10. End(item, Eq, Len(key) + 1) = (Len(key) + 1) + end
  BY <1>1, <1>5, <1>9, EndUnique
<1>11. SubSeq(item, (Len(key) + 1) + 1, ((Len(key) + 1) + end) - 1) = SubSeq(value, 1, end - 1)
  <2> DEFINE m == (Len(key) + 1) + 1
             n == ((Len(key) + 1) + end) - 1
             p == SubSeq(item, m, n)
             q == SubSeq(value, 1, end - 1)
  <2>1. m \in 1..(Len(item) + 1) /\ n \in (m - 1)..Len(item) /\ (n - m) + 1 = end - 1
    BY <1>1, <1>5, <1>8
  <2>2. 1 \in 1..(Len(value) + 1) /\ end - 1 \in (1 - 1)..Len(value)
    BY <1>1, <1>8
  <2>3. p \in Texts /\ Len(p) = (n - m) + 1 /\ \A i \in 1..((n - m) + 1) : p[i] = item[(m + i) - 1]
    <3> HIDE DEF m, n
    <3> QED
      BY <1>5, <2>1, PartsOfTexts
  <2>4. q \in Texts /\ Len(q) = ((end - 1) - 1) + 1 /\ \A i \in 1..(((end - 1) - 1) + 1) : q[i] = value[(1 + i) - 1]
    BY <2>2, PartsOfTexts
  <2>5. \A i \in 1..(end - 1) : (m + i) - 1 = (Len(key) + 1) + i /\ (1 + i) - 1 = i /\ i \in 1..Len(value)
    BY <1>1, <1>8
  <2> HIDE DEF m, n, p, q
  <2>6. Len(p) = end - 1 /\ Len(q) = end - 1
    BY <1>8, <2>1, <2>3, <2>4
  <2>7. \A i \in 1..(end - 1) : p[i] = value[i]
    <3>1. \A i \in 1..(end - 1) : p[i] = item[(m + i) - 1]
      BY <2>1, <2>3
    <3>2. \A i \in 1..(end - 1) : item[(m + i) - 1] = value[i]
      BY <1>5, <2>5
    <3> QED
      BY <3>1, <3>2
  <2>8. \A i \in 1..(end - 1) : q[i] = value[i]
    BY <1>8, <2>4, <2>5
  <2>9. p = q
    BY <2>3, <2>4, <2>6, <2>7, <2>8, TextsAre
  <2> QED
    BY <2>9 DEF m, n, p, q
<1>12. ValueOf(item) = BeforeEq(value)
  BY <1>4, <1>8, <1>10, <1>11 DEF ValueOf, Piece
<1> QED
  BY <1>4, <1>5, <1>6, <1>12 DEF item, rest

-----------------------------------------------------------------------------
(* Texts of items.                                                          *)

Items(text) == {Piece(text, Tab, start) : start \in Starts(text, Tab)}

LEMMA ItemsOfOne ==
  ASSUME NEW item \in Without(Tab)
  PROVE  Items(item) = {item}
<1>1. DOMAIN item = 1..Len(item) /\ \A i \in 1..Len(item) : item[i] # Tab
  BY TextsAre, WithoutIs
<1>2. Starts(item, Tab) = {0}
  BY <1>1 DEF Starts
<1>3. Piece(item, Tab, 0) = item
  BY Separators, FirstPiece, WithoutIs
<1> QED
  BY <1>2, <1>3 DEF Items

(* A longer text has the pieces of the shorter one and one more.            *)
LEMMA ItemsGrow ==
  ASSUME NEW text \in Texts, NEW item \in Without(Tab)
  PROVE  /\ text \o (<<Tab>> \o item) \in Texts
         /\ Items(text \o (<<Tab>> \o item)) = Items(text) \cup {item}
<1> DEFINE rest == <<Tab>> \o item
           longer == text \o rest
           last == Len(text) + 1
<1>1. /\ item \in Texts /\ Len(item) \in Nat /\ Len(text) \in Nat
      /\ DOMAIN text = 1..Len(text)
      /\ \A i \in 1..Len(item) : item[i] # Tab
  BY TextsAre, WithoutIs
<1>2. /\ rest \in Texts /\ Len(rest) = 1 + Len(item) /\ rest[1] = Tab
      /\ \A i \in 1..Len(item) : rest[1 + i] = item[i]
  BY <1>1, Separators, Prefixed
<1> HIDE DEF rest
<1>3. /\ longer \in Texts /\ Len(longer) = last + Len(item) /\ DOMAIN longer = 1..Len(longer)
      /\ longer[last] = Tab
      /\ \A i \in 1..Len(text) : longer[i] = text[i]
      /\ \A i \in 1..Len(item) : longer[last + i] = item[i]
  <2>1. 1 \in 1..Len(rest) /\ \A i \in 1..Len(item) : 1 + i \in 1..Len(rest)
    BY <1>1, <1>2
  <2>2. /\ longer \in Texts /\ Len(longer) = Len(text) + Len(rest)
        /\ longer[Len(text) + 1] = rest[1]
        /\ \A i \in 1..Len(text) : longer[i] = text[i]
        /\ \A i \in 1..Len(item) : longer[Len(text) + (1 + i)] = rest[1 + i]
    BY <1>1, <1>2, <2>1, ConcatTexts
  <2>3. DOMAIN longer = 1..Len(longer)
    BY <2>2, TextsAre
  <2>4. Len(text) + (1 + Len(item)) = last + Len(item)
    BY <1>1
  <2>5. \A i \in 1..Len(item) : Len(text) + (1 + i) = last + i
    BY <1>1
  <2> HIDE DEF longer
  <2>6. \A i \in 1..Len(item) : longer[last + i] = item[i]
    BY <1>2, <2>2, <2>5
  <2> QED
    BY <1>2, <2>2, <2>3, <2>4, <2>6
<1> HIDE DEF longer
<1>4. Starts(longer, Tab) = Starts(text, Tab) \cup {last}
  <2>1. ASSUME NEW i \in 1..Len(longer), longer[i] = Tab
        PROVE  i \in Starts(text, Tab) \cup {last}
    <3>1. CASE i \in 1..Len(text)
      BY <1>1, <1>3, <2>1, <3>1 DEF Starts
    <3>2. CASE i > last
      <4> DEFINE j == i - last
      <4>1. j \in 1..Len(item) /\ last + j = i
        BY <1>1, <1>3, <3>2
      <4> HIDE DEF j, last
      <4> QED
        BY <1>1, <1>3, <2>1, <4>1
    <3> QED
      BY <1>1, <1>3, <3>1, <3>2
  <2>2. ASSUME NEW i \in 1..Len(text), text[i] = Tab
        PROVE  i \in 1..Len(longer) /\ longer[i] = Tab
    BY <1>1, <1>3, <2>2
  <2>3. last \in 1..Len(longer) /\ longer[last] = Tab
    BY <1>1, <1>3
  <2> HIDE DEF last
  <2> QED
    BY <1>1, <1>3, <2>1, <2>2, <2>3 DEF Starts
<1>5. ASSUME NEW start \in Starts(text, Tab)
      PROVE  Piece(longer, Tab, start) = Piece(text, Tab, start)
  <2> DEFINE end == End(text, Tab, start)
  <2>1. start \in 0..Len(text)
    BY <1>1 DEF Starts
  <2>2. IsEnd(text, Tab, start, end)
    BY <2>1, EndExists
  <2> HIDE DEF end
  <2>3. IsEnd(longer, Tab, start, end)
    BY <1>1, <1>3, <2>1, <2>2 DEF IsEnd
  <2>4. End(longer, Tab, start) = end
    BY <1>3, <2>1, <2>3, EndUnique
  <2>5. SubSeq(longer, start + 1, end - 1) = SubSeq(text, start + 1, end - 1)
    <3> DEFINE m == start + 1
               n == end - 1
               p == SubSeq(longer, m, n)
               q == SubSeq(text, m, n)
    <3>1. /\ m \in 1..(Len(text) + 1) /\ n \in (m - 1)..Len(text)
          /\ m \in 1..(Len(longer) + 1) /\ n \in (m - 1)..Len(longer)
      BY <1>1, <1>3, <2>1, <2>2 DEF IsEnd
    <3>2. \A i \in 1..((n - m) + 1) : (m + i) - 1 \in 1..Len(text)
      BY <1>1, <3>1
    <3> HIDE DEF m, n
    <3>3. p \in Texts /\ Len(p) = (n - m) + 1 /\ \A i \in 1..((n - m) + 1) : p[i] = longer[(m + i) - 1]
      BY <1>3, <3>1, PartsOfTexts
    <3>4. q \in Texts /\ Len(q) = (n - m) + 1 /\ \A i \in 1..((n - m) + 1) : q[i] = text[(m + i) - 1]
      BY <3>1, PartsOfTexts
    <3> HIDE DEF p, q
    <3>5. \A i \in 1..((n - m) + 1) : p[i] = q[i]
      BY <1>3, <3>2, <3>3, <3>4
    <3>6. p = q
      BY <3>3, <3>4, <3>5, TextsAre
    <3> QED
      BY <3>6 DEF p, q, m, n
  <2>6. end = End(text, Tab, start)
    BY DEF end
  <2> QED
    BY <2>4, <2>5, <2>6 DEF Piece
<1>6. Piece(longer, Tab, last) = item
  <2>1. IsEnd(longer, Tab, last, Len(longer) + 1)
    <3>1. ASSUME NEW i \in (last + 1)..((Len(longer) + 1) - 1)
          PROVE  longer[i] # Tab
      <4> DEFINE j == i - last
      <4>1. j \in 1..Len(item) /\ last + j = i
        BY <1>1, <1>3
      <4> HIDE DEF j, last
      <4> QED
        BY <1>1, <1>3, <4>1
    <3> QED
      BY <1>1, <1>3, <3>1 DEF IsEnd
  <2>2. End(longer, Tab, last) = Len(longer) + 1
    BY <1>1, <1>3, <2>1, EndUnique
  <2> DEFINE m == last + 1
             n == (Len(longer) + 1) - 1
             p == SubSeq(longer, m, n)
  <2>3. m \in 1..(Len(longer) + 1) /\ n \in (m - 1)..Len(longer) /\ (n - m) + 1 = Len(item)
    BY <1>1, <1>3
  <2>4. \A i \in 1..Len(item) : (m + i) - 1 = last + i
    BY <1>1
  <2> HIDE DEF m, n, last
  <2>5. p \in Texts /\ Len(p) = (n - m) + 1 /\ \A i \in 1..((n - m) + 1) : p[i] = longer[(m + i) - 1]
    BY <1>3, <2>3, PartsOfTexts
  <2> HIDE DEF p
  <2>6. \A i \in 1..Len(item) : p[i] = item[i]
    BY <1>3, <2>3, <2>4, <2>5
  <2>7. p = item
    BY <1>1, <2>3, <2>5, <2>6, TextsAre
  <2> QED
    BY <2>2, <2>7 DEF p, m, n, Piece
<1>7. Items(longer) = Items(text) \cup {item}
  <2> HIDE DEF last
  <2> QED
    BY <1>4, <1>5, <1>6 DEF Items
<1> QED
  BY <1>3, <1>7 DEF longer, rest

Item(key, value) == key \o (<<Eq>> \o value)

(* A text read back, from its items.                                        *)
LEMMA MapOfItems ==
  ASSUME NEW text \in Texts, NEW D \in SUBSET Without(Eq), NEW map,
         \A key \in D : map[key] \in Texts,
         Items(text) = {Item(key, map[key]) : key \in D}
  PROVE  avDataStrToMap(text) = [key \in D |-> BeforeEq(map[key])]
<1> DEFINE item(start) == Piece(text, Tab, start)
           pairs == {start \in Starts(text, Tab) : IsPair(item(start))}
           IsFirst(key, start) == /\ KeyOf(item(start)) = key
                                  /\ \A other \in pairs : KeyOf(item(other)) = key => start <= other
           first(key) == CHOOSE start \in pairs : IsFirst(key, start)
<1>1. \A key \in D : /\ IsPair(Item(key, map[key])) /\ KeyOf(Item(key, map[key])) = key
                     /\ ValueOf(Item(key, map[key])) = BeforeEq(map[key])
  BY ItemReads DEF Item
<1>2. Starts(text, Tab) \subseteq Nat
  BY TextsAre DEF Starts
<1>3. \A start \in Starts(text, Tab) : \E key \in D : item(start) = Item(key, map[key])
  BY DEF Items
<1>4. \A key \in D : \E start \in Starts(text, Tab) : item(start) = Item(key, map[key])
  BY DEF Items
<1>5. avDataStrToMap(text) = [key \in {KeyOf(item(start)) : start \in pairs} |-> ValueOf(item(first(key)))]
  BY DEF avDataStrToMap
<1> HIDE DEF item
<1>6. {KeyOf(item(start)) : start \in pairs} = D
  BY <1>1, <1>3, <1>4
<1>7. ASSUME NEW key \in D
      PROVE  ValueOf(item(first(key))) = BeforeEq(map[key])
  <2> DEFINE T == {start \in pairs : KeyOf(item(start)) = key}
  <2>1. PICK start \in T : TRUE
    BY <1>1, <1>4
  <2>2. T \subseteq Nat
    BY <1>2
  <2>3. PICK least \in T : \A other \in T : least <= other
    <3> HIDE DEF T
    <3> QED
      BY <2>1, <2>2, Least
  <2>4. least \in pairs /\ IsFirst(key, least)
    BY <2>3
  <2>5. first(key) \in pairs /\ KeyOf(item(first(key))) = key
    BY <2>4
  <2>6. PICK k \in D : item(first(key)) = Item(k, map[k])
    BY <1>3, <2>5
  <2> QED
    BY <1>1, <2>5, <2>6
<1> HIDE DEF pairs, first
<1> QED
  BY <1>5, <1>6, <1>7

(* A text written for an order of the keys, up to the i-th of them.         *)
IsText(map, order, text) ==
  text = [i \in 1..Len(order) |->
            IF i = 1 THEN Item(order[1], map[order[1]])
            ELSE text[i - 1] \o (<<Tab>> \o Item(order[i], map[order[i]]))]

(* The parts of a row that can be written and read back.                    *)
Writable(map, D) ==
  /\ D \subseteq Without(Eq) \cap Without(Tab)
  /\ \A key \in D : map[key] \in Without(Tab)

LEMMA WritableItems ==
  ASSUME NEW D, NEW map, Writable(map, D), NEW key \in D
  PROVE  Item(key, map[key]) \in Without(Tab)
<1> DEFINE value == map[key]
           rest == <<Eq>> \o value
           item == key \o rest
<1>1. /\ key \in Texts /\ value \in Texts /\ Len(key) \in Nat /\ Len(value) \in Nat
      /\ \A i \in 1..Len(key) : key[i] # Tab
      /\ \A i \in 1..Len(value) : value[i] # Tab
  BY WithoutIs, TextsAre DEF Writable
<1> HIDE DEF value
<1>2. /\ rest \in Texts /\ Len(rest) = 1 + Len(value)
      /\ \A i \in 1..Len(rest) : rest[i] # Tab
  <2>1. /\ rest \in Texts /\ Len(rest) = 1 + Len(value) /\ rest[1] = Eq
        /\ \A i \in 1..Len(value) : rest[1 + i] = value[i]
    BY <1>1, Separators, Prefixed
  <2> HIDE DEF rest
  <2>2. ASSUME NEW i \in 1..Len(rest), i # 1
        PROVE  rest[i] # Tab
    <3>1. i - 1 \in 1..Len(value) /\ 1 + (i - 1) = i
      BY <1>1, <2>1, <2>2
    <3> QED
      BY <1>1, <2>1, <3>1
  <2> QED
    BY <2>1, <2>2, Separators
<1> HIDE DEF rest
<1>3. /\ item \in Texts /\ Len(item) = Len(key) + Len(rest)
      /\ \A i \in 1..Len(key) : item[i] = key[i]
      /\ \A i \in 1..Len(rest) : item[Len(key) + i] = rest[i]
  BY <1>1, <1>2, ConcatTexts
<1> HIDE DEF item
<1>4. ASSUME NEW i \in 1..Len(item)
      PROVE  item[i] # Tab
  <2>1. CASE i \in 1..Len(key)
    BY <1>1, <1>3, <2>1
  <2>2. CASE i > Len(key)
    <3>1. i - Len(key) \in 1..Len(rest) /\ Len(key) + (i - Len(key)) = i
      BY <1>1, <1>2, <1>3, <2>2
    <3> QED
      BY <1>2, <1>3, <3>1
  <2> QED
    BY <1>1, <1>2, <1>3, <2>1, <2>2
<1>5. item \in Without(Tab)
  BY <1>3, <1>4, WithoutIs
<1> QED
  BY <1>5 DEF Item, item, rest, value

(* avMapToDataStr writes such a text.                                       *)
LEMMA TextExists ==
  ASSUME NEW order \in Seq(Texts), NEW map,
         \A i \in 1..Len(order) : Item(order[i], map[order[i]]) \in Texts
  PROVE  \E text : IsText(map, order, text)
<1> DEFINE item(i) == Item(order[i], map[order[i]])
           empty == << >>
           Next1(f, n) == IF n = 1 THEN item(1) ELSE f[n - 1] \o (<<Tab>> \o item(n))
           step == [n \in Nat |-> [f \in [Nat -> Texts] |-> IF n \in 1..Len(order) THEN Next1(f, n) ELSE empty]]
<1>1. Len(order) \in Nat /\ empty \in Texts
  BY DEF Texts
<1>2. ASSUME NEW n \in 1..Len(order), NEW f \in [Nat -> Texts]
      PROVE  Next1(f, n) \in Texts
  <2> DEFINE t == <<Tab>> \o item(n)
  <2>1. item(n) \in Texts
    OBVIOUS
  <2>2. t \in Texts
    <3> HIDE DEF item
    <3> QED
      BY <2>1, Separators, Prefixed
  <2>3. CASE n = 1
    BY <2>1, <2>3
  <2>4. CASE n # 1
    <3>1. f[n - 1] \in Texts
      BY <1>1, <2>4
    <3> HIDE DEF t
    <3>2. f[n - 1] \o t \in Texts
      BY <2>2, <3>1, ConcatTexts
    <3>3. Next1(f, n) = f[n - 1] \o t
      BY <2>4 DEF t
    <3> QED
      BY <3>2, <3>3
  <2> QED
    BY <2>3, <2>4
<1>3. \A n \in 1..Len(order) : \A f, g \in [Nat -> Texts] : Agree(f, g, n) => Next1(f, n) = Next1(g, n)
  <2>1. SUFFICES ASSUME NEW n \in 1..Len(order), NEW f \in [Nat -> Texts], NEW g \in [Nat -> Texts],
                        Agree(f, g, n), n # 1
                 PROVE  f[n - 1] = g[n - 1]
    OBVIOUS
  <2> QED
    BY <1>1, <2>1 DEF Agree
<1> HIDE DEF Next1, empty
<1>4. IsStep(step, Texts)
  BY <1>1, <1>2, <1>3 DEF IsStep
<1>5. \A n \in 1..Len(order) : \A f \in [Nat -> Texts] : step[n][f] = Next1(f, n)
  BY <1>1
<1> HIDE DEF step
<1>6. PICK f \in [Nat -> Texts] : \A n \in Nat : f[n] = step[n][f]
  BY <1>1, <1>4, Recursion
<1> DEFINE text == [i \in 1..Len(order) |-> f[i]]
<1>7. \A i \in 1..Len(order) : text[i] = Next1(text, i)
  <2>1. ASSUME NEW i \in 1..Len(order)
        PROVE  Next1(f, i) = Next1(text, i)
    <3>1. i # 1 => i - 1 \in 1..Len(order)
      BY <1>1
    <3> QED
      BY <3>1 DEF Next1
  <2> QED
    BY <1>1, <1>5, <1>6, <2>1
<1>8. text = [i \in 1..Len(order) |-> text[i]]
  OBVIOUS
<1> HIDE DEF text
<1>9. text = [i \in 1..Len(order) |-> Next1(text, i)]
  BY <1>7, <1>8
<1>10. IsText(map, order, text)
  BY <1>9 DEF IsText, Next1
<1> QED
  BY <1>10

(* Its items are those of the keys in the order.                            *)
ItemsUpTo(map, order, i) == {Item(order[j], map[order[j]]) : j \in 1..i}

LEMMA ItemsWritten ==
  ASSUME NEW order, NEW n \in Nat, n = Len(order), NEW map, NEW text, IsText(map, order, text),
         \A i \in 1..n : Item(order[i], map[order[i]]) \in Without(Tab)
  PROVE  \A i \in 1..n : /\ text[i] \in Texts
                         /\ Items(text[i]) = ItemsUpTo(map, order, i)
<1> DEFINE item(i) == Item(order[i], map[order[i]])
           Good(i) == text[i] \in Texts /\ Items(text[i]) = {item(j) : j \in 1..i}
           S == {i \in Nat : i \in 1..n => Good(i)}
<1>1. \A i \in 1..n : text[i] = IF i = 1 THEN item(1) ELSE text[i - 1] \o (<<Tab>> \o item(i))
  BY DEF IsText
<1>2. \A i \in 1..n : item(i) \in Without(Tab)
  OBVIOUS
<1> HIDE DEF item
<1>3. \A m \in Nat : (\A k \in 0..(m - 1) : k \in S) => m \in S
  <2>1. SUFFICES ASSUME NEW m \in 1..n, \A k \in 0..(m - 1) : k \in S
                 PROVE  Good(m)
    OBVIOUS
  <2>2. CASE m = 1
    <3>1. text[m] = item(1)
      BY <1>1, <2>2
    <3>2. item(1) \in Texts /\ Items(item(1)) = {item(1)}
      BY <1>2, <2>2, ItemsOfOne, WithoutIs
    <3>3. {item(j) : j \in 1..m} = {item(1)}
      BY <2>2
    <3> QED
      BY <3>1, <3>2, <3>3
  <2>3. CASE m # 1
    <3>1. m - 1 \in 1..n /\ Good(m - 1)
      <4>1. m - 1 \in 1..n /\ m - 1 \in 0..(m - 1)
        BY <2>1, <2>3
      <4>2. m - 1 \in S
        BY <2>1, <4>1
      <4> QED
        BY <4>1, <4>2
    <3>2. text[m] = text[m - 1] \o (<<Tab>> \o item(m))
      BY <1>1, <2>3
    <3> DEFINE before == text[m - 1]
               new == item(m)
    <3>3. before \in Texts /\ new \in Without(Tab)
      BY <1>2, <3>1
    <3>4. before \o (<<Tab>> \o new) \in Texts /\ Items(before \o (<<Tab>> \o new)) = Items(before) \cup {new}
      <4> HIDE DEF before, new
      <4> QED
        BY <3>3, ItemsGrow
    <3>5. {item(j) : j \in 1..m} = {item(j) : j \in 1..(m - 1)} \cup {item(m)}
      <4>1. \A j : j \in 1..m <=> j \in 1..(m - 1) \/ j = m
        BY <2>1
      <4> QED
        BY <4>1
    <3> QED
      BY <3>1, <3>2, <3>4, <3>5
  <2> QED
    BY <2>2, <2>3
<1>4. Nat \subseteq S
  <2> HIDE DEF S
  <2> QED
    BY <1>3, Inductive
<1> QED
  BY <1>4 DEF item, ItemsUpTo

(* The order of the hash table lists every key.                             *)
LEMMA OrderListsAll ==
  ASSUME NEW D, IsFiniteSet(D), NEW order \in SetToSeqs(D)
  PROVE  /\ Cardinality(D) \in Nat
         /\ order \in [1..Cardinality(D) -> D]
         /\ \A key \in D : \E i \in 1..Cardinality(D) : order[i] = key
<1> DEFINE n == Cardinality(D)
<1>1. n \in Nat
  BY FS_CardinalityType
<1>2. order \in [1..n -> D] /\ \A i, j \in 1..n : i # j => order[i] # order[j]
  BY DEF SetToSeqs
<1>3. order \in Injection(1..n, D)
  <2>1. \A i, j \in 1..n : order[i] = order[j] => i = j
    BY <1>2
  <2> QED
    BY <1>2, <2>1, Fun_IsInj
<1>4. IsFiniteSet(1..n) /\ Cardinality(1..n) = n
  <2>1. IsFiniteSet(1..n) /\ Cardinality(1..n) = IF 1 > n THEN 0 ELSE (n - 1) + 1
    BY <1>1, FS_Interval
  <2> QED
    BY <1>1, <2>1
<1>5. order \in Surjection(1..n, D)
  <2> HIDE DEF n
  <2> QED
    BY <1>3, <1>4, FS_Injection DEF n
<1>6. \A key \in D : \E i \in 1..n : order[i] = key
  <2> HIDE DEF n
  <2> QED
    BY <1>5 DEF Surjection
<1> QED
  BY <1>1, <1>2, <1>6

(* What is written is read back, up to the first "=" of each value.         *)
LEMMA RoundTrip ==
  ASSUME NEW D, IsFiniteSet(D), D # {}, NEW map, Writable(map, D), NEW order \in SetToSeqs(D)
  PROVE  /\ avMapToDataStr(map, order) \in Texts
         /\ avDataStrToMap(avMapToDataStr(map, order)) = [key \in D |-> BeforeEq(map[key])]
<1> DEFINE n == Cardinality(D)
           item(i) == Item(order[i], map[order[i]])
<1>1. /\ n \in Nat /\ n > 0
      /\ order \in [1..n -> D]
      /\ \A key \in D : \E i \in 1..n : order[i] = key
  BY OrderListsAll
<1>2. D \subseteq Texts /\ D \subseteq Without(Eq) /\ \A key \in D : map[key] \in Texts
  BY WithoutIs DEF Writable
<1>3. Len(order) = n /\ order \in Seq(Texts) /\ order # << >>
  <2> HIDE DEF n
  <2>1. order \in Seq(D)
    BY <1>1
  <2>2. Len(order) = n
    BY <1>1
  <2>3. order \in Seq(Texts)
    BY <1>2, <2>1, SeqMonotonic
  <2> QED
    BY <1>1, <2>2, <2>3
<1>4. \A i \in 1..n : item(i) \in Without(Tab)
  BY <1>1, WritableItems
<1>5. \A i \in 1..n : item(i) \in Texts
  BY <1>4, WithoutIs
<1> HIDE DEF n
<1>6. \E text : IsText(map, order, text)
  BY <1>3, <1>5, TextExists
<1> DEFINE text == CHOOSE text : IsText(map, order, text)
<1>7. avMapToDataStr(map, order) = text[n]
  BY <1>3 DEF avMapToDataStr, IsText, Item
<1>8. IsText(map, order, text)
  BY <1>6
<1> HIDE DEF text
<1>9. text[n] \in Texts /\ Items(text[n]) = {item(j) : j \in 1..n}
  <2>1. n \in 1..n
    BY <1>1
  <2>2. n = Len(order) /\ \A i \in 1..n : Item(order[i], map[order[i]]) \in Without(Tab)
    BY <1>3, <1>4
  <2>3. \A i \in 1..n : /\ text[i] \in Texts
                         /\ Items(text[i]) = ItemsUpTo(map, order, i)
    BY <1>1, <1>8, <2>2, ItemsWritten
  <2> QED
    BY <2>1, <2>3 DEF ItemsUpTo
<1>10. {item(j) : j \in 1..n} = {Item(key, map[key]) : key \in D}
  BY <1>1
<1> DEFINE written == text[n]
<1>11. written \in Texts /\ Items(written) = {Item(key, map[key]) : key \in D}
  BY <1>9, <1>10
<1> HIDE DEF written
<1>12. avDataStrToMap(written) = [key \in D |-> BeforeEq(map[key])]
  BY <1>2, <1>11, MapOfItems
<1> QED
  BY <1>7, <1>11, <1>12 DEF written

-----------------------------------------------------------------------------
(* Numbers as texts.                                                        *)

DigitChars == {Digits[i] : i \in 1..10}
Numerals == {text \in Seq(DigitChars) : text # << >>}

LEMMA TenDigits ==
  /\ \A i, j \in 1..10 : Digits[i] = Digits[j] => i = j
  /\ \A i \in 1..10 : DigitValue(Digits[i]) = i - 1
  /\ \A c \in DigitChars : c \in Chars /\ c # Tab /\ c # Eq
<1>1. /\ Digits[1] = "0" /\ Digits[2] = "1" /\ Digits[3] = "2" /\ Digits[4] = "3" /\ Digits[5] = "4"
      /\ Digits[6] = "5" /\ Digits[7] = "6" /\ Digits[8] = "7" /\ Digits[9] = "8" /\ Digits[10] = "9"
  BY DEF Digits
<1>2. \A i \in 1..10 : i = 1 \/ i = 2 \/ i = 3 \/ i = 4 \/ i = 5 \/ i = 6 \/ i = 7 \/ i = 8 \/ i = 9 \/ i = 10
  OBVIOUS
<1>3. \A i, j \in 1..10 : Digits[i] = Digits[j] => i = j
  BY <1>1, <1>2
<1>4. \A i \in 1..10 : DigitValue(Digits[i]) = i - 1
  BY <1>3 DEF DigitValue
<1>5. \A i \in 1..10 : Digits[i] # Tab /\ Digits[i] # Eq
  BY <1>1, <1>2 DEF Tab, Eq
<1>6. \A i \in 1..10 : Digits[i] \in Chars
  BY CharsAssumption
<1> QED
  BY <1>3, <1>4, <1>5, <1>6 DEF DigitChars

LEMMA Division ==
  ASSUME NEW n \in Nat
  PROVE  /\ n \div 10 \in Nat /\ n % 10 \in 0..9
         /\ n = 10 * (n \div 10) + (n % 10)
         /\ n >= 10 => n \div 10 < n
         /\ (n + 1) \div 10 = n \div 10 \/ (n + 1) \div 10 = (n \div 10) + 1
OBVIOUS

LEMMA NumeralsGrow ==
  ASSUME NEW text \in Seq(DigitChars), NEW c \in DigitChars
  PROVE  Append(text, c) \in Numerals /\ Len(Append(text, c)) = Len(text) + 1
BY AppendProperties DEF Numerals

(* The recursion of "%d".                                                   *)
LEMMA DecimalIs ==
  \A n \in Nat :
    /\ Decimal[n] \in Numerals
    /\ Decimal[n] = IF n < 10 THEN <<Digits[n + 1]>> ELSE Append(Decimal[n \div 10], Digits[(n % 10) + 1])
<1> DEFINE Write1(f, n) == IF n < 10 THEN <<Digits[n + 1]>> ELSE Append(f[n \div 10], Digits[(n % 10) + 1])
           step == [n \in Nat |-> [f \in [Nat -> Numerals] |-> Write1(f, n)]]
<1>1. \A n \in 0..9 : Digits[n + 1] \in DigitChars
  BY DEF DigitChars
<1>2. \A c \in DigitChars : <<c>> \in Numerals
  BY DEF Numerals
<1>3. ASSUME NEW n \in Nat, NEW f \in [Nat -> Numerals]
      PROVE  Write1(f, n) \in Numerals
  <2>1. CASE n < 10
    BY <1>1, <1>2, <2>1
  <2>2. CASE ~(n < 10)
    <3>1. f[n \div 10] \in Seq(DigitChars) /\ Digits[(n % 10) + 1] \in DigitChars
      BY <1>1, Division DEF Numerals
    <3> QED
      BY <2>2, <3>1, NumeralsGrow
  <2> QED
    BY <2>1, <2>2
<1>4. ASSUME NEW n \in Nat, NEW f \in [Nat -> Numerals], NEW g \in [Nat -> Numerals], Agree(f, g, n)
      PROVE  Write1(f, n) = Write1(g, n)
  <2>1. n >= 10 => n \div 10 \in 0..(n - 1)
    BY Division
  <2>2. n >= 10 => f[n \div 10] = g[n \div 10]
    BY <1>4, <2>1 DEF Agree
  <2> QED
    BY <2>2
<1> HIDE DEF Write1
<1>5. IsStep(step, Numerals)
  BY <1>3, <1>4 DEF IsStep
<1>6. \A n \in Nat : \A f \in [Nat -> Numerals] : step[n][f] = Write1(f, n)
  OBVIOUS
<1>7. <<Digits[0 + 1]>> \in Numerals
  BY <1>1, <1>2
<1> HIDE DEF step
<1>8. PICK f \in [Nat -> Numerals] : \A n \in Nat : f[n] = step[n][f]
  BY <1>5, <1>7, Recursion
<1>9. f = [n \in Nat |-> Write1(f, n)]
  BY <1>6, <1>8
<1>10. \A n \in Nat : Decimal[n] = Write1(Decimal, n)
  <2>1. Decimal = CHOOSE g : g = [n \in Nat |-> Write1(g, n)]
    BY DEF Decimal, Write1
  <2>2. Decimal = [n \in Nat |-> Write1(Decimal, n)]
    BY <1>9, <2>1
  <2> QED
    BY <2>2
<1> DEFINE S == {n \in Nat : Decimal[n] \in Numerals}
<1>11. \A n \in Nat : (\A k \in 0..(n - 1) : k \in S) => n \in S
  <2>1. SUFFICES ASSUME NEW n \in Nat, \A k \in 0..(n - 1) : k \in S
                 PROVE  Decimal[n] \in Numerals
    OBVIOUS
  <2>2. CASE n < 10
    <3>1. Decimal[n] = <<Digits[n + 1]>>
      BY <1>10, <2>2 DEF Write1
    <3> QED
      BY <1>1, <1>2, <2>2, <3>1
  <2>3. CASE ~(n < 10)
    <3>1. Decimal[n] = Append(Decimal[n \div 10], Digits[(n % 10) + 1])
      BY <1>10, <2>3 DEF Write1
    <3>2. n \div 10 \in 0..(n - 1)
      BY <2>3, Division
    <3>3. Decimal[n \div 10] \in Seq(DigitChars) /\ Digits[(n % 10) + 1] \in DigitChars
      BY <1>1, <2>1, <3>2, Division DEF Numerals
    <3> QED
      BY <3>1, <3>3, NumeralsGrow
  <2> QED
    BY <2>2, <2>3
<1>12. Nat \subseteq S
  <2> HIDE DEF S
  <2> QED
    BY <1>11, Inductive
<1> QED
  BY <1>10, <1>12 DEF Write1

LEMMA OneDigitMore == \A a, b \in Nat : 10 * a + b \in Nat
OBVIOUS

(* The recursion of atoi.                                                   *)
IsNumber(text, f) ==
  f = [i \in 0..Len(text) |-> IF i = 0 THEN 0 ELSE 10 * f[i - 1] + DigitValue(text[i])]

LEMMA NumberIs ==
  ASSUME NEW text \in Seq(DigitChars)
  PROVE  \E f : IsNumber(text, f) /\ f \in [0..Len(text) -> Nat] /\ Number(text) = f[Len(text)]
<1> DEFINE n == Len(text)
           Read1(f, i) == 10 * f[i - 1] + DigitValue(text[i])
           step == [i \in Nat |-> [f \in [Nat -> Nat] |-> IF i \in 1..n THEN Read1(f, i) ELSE 0]]
<1>1. n \in Nat /\ \A i \in 1..n : text[i] \in DigitChars
  OBVIOUS
<1>2. \A i \in 1..n : DigitValue(text[i]) \in Nat
  BY <1>1, TenDigits DEF DigitChars
<1> HIDE DEF n
<1>3. ASSUME NEW i \in 1..n, NEW f \in [Nat -> Nat]
      PROVE  Read1(f, i) \in Nat
  <2>1. f[i - 1] \in Nat
    BY <1>1
  <2> QED
    BY <1>2, <2>1, OneDigitMore
<1>4. ASSUME NEW i \in 1..n, NEW f \in [Nat -> Nat], NEW g \in [Nat -> Nat], Agree(f, g, i)
      PROVE  Read1(f, i) = Read1(g, i)
  <2>1. f[i - 1] = g[i - 1]
    BY <1>1, <1>4 DEF Agree
  <2> QED
    BY <2>1
<1> HIDE DEF Read1
<1>5. IsStep(step, Nat)
  BY <1>3, <1>4 DEF IsStep
<1>6. \A i \in Nat : \A f \in [Nat -> Nat] : step[i][f] = IF i \in 1..n THEN Read1(f, i) ELSE 0
  OBVIOUS
<1> HIDE DEF step
<1>7. PICK F \in [Nat -> Nat] : \A i \in Nat : F[i] = step[i][F]
  <2> DEFINE A == Nat
  <2>1. IsStep(step, A) /\ 0 \in A
    BY <1>5
  <2> HIDE DEF A
  <2>2. \E F \in [Nat -> A] : \A i \in Nat : F[i] = step[i][F]
    BY <2>1, Recursion
  <2> QED
    BY <2>2 DEF A
<1> DEFINE f == [i \in 0..n |-> F[i]]
<1>8. \A i \in 0..n : f[i] = IF i = 0 THEN 0 ELSE Read1(f, i)
  <2>1. ASSUME NEW i \in 0..n
        PROVE  F[i] = IF i = 0 THEN 0 ELSE Read1(F, i)
    <3>1. i \in Nat /\ (i \in 1..n <=> i # 0)
      BY <1>1
    <3>2. F[i] = step[i][F] /\ step[i][F] = IF i \in 1..n THEN Read1(F, i) ELSE 0
      BY <1>6, <1>7, <3>1
    <3> QED
      BY <3>1, <3>2
  <2>2. \A i \in 0..n : i # 0 => Read1(F, i) = Read1(f, i)
    <3>1. \A i \in 0..n : i # 0 => i - 1 \in 0..n
      BY <1>1
    <3> QED
      BY <3>1 DEF Read1
  <2> QED
    BY <2>1, <2>2
<1>9. f = [i \in 0..n |-> f[i]]
  OBVIOUS
<1> HIDE DEF f
<1>10. f = [i \in 0..n |-> IF i = 0 THEN 0 ELSE Read1(f, i)]
  BY <1>8, <1>9
<1> DEFINE number == CHOOSE g : IsNumber(text, g)
<1>11. IsNumber(text, f)
  BY <1>10 DEF IsNumber, Read1, n
<1>12. IsNumber(text, number)
  BY <1>11
<1>13. Number(text) = number[Len(text)]
  BY DEF Number, IsNumber
<1> HIDE DEF number
<1> DEFINE S == {i \in Nat : i \in 0..n => number[i] \in Nat}
<1>14. \A i \in Nat : (\A k \in 0..(i - 1) : k \in S) => i \in S
  <2>1. SUFFICES ASSUME NEW i \in 0..n, \A k \in 0..(i - 1) : k \in S
                 PROVE  number[i] \in Nat
    BY <1>1
  <2>2. number[i] = IF i = 0 THEN 0 ELSE 10 * number[i - 1] + DigitValue(text[i])
    BY <1>12 DEF IsNumber, n
  <2>3. i # 0 => number[i - 1] \in Nat
    BY <1>1, <2>1
  <2>4. i # 0 => DigitValue(text[i]) \in Nat
    BY <1>1, <1>2
  <2> QED
    BY <2>2, <2>3, <2>4, OneDigitMore
<1>15. Nat \subseteq S
  <2> HIDE DEF S
  <2> QED
    BY <1>14, Inductive
<1>16. number \in [0..Len(text) -> Nat]
  <2>1. \A i \in 0..Len(text) : number[i] \in Nat
    BY <1>1, <1>15 DEF n
  <2>2. number = [i \in 0..Len(text) |-> number[i]]
    BY <1>12 DEF IsNumber
  <2> QED
    BY <2>1, <2>2
<1> QED
  BY <1>12, <1>13, <1>16

LEMMA NumberOfMore ==
  ASSUME NEW text \in Seq(DigitChars), NEW c \in DigitChars
  PROVE  /\ Number(text) \in Nat
         /\ Number(Append(text, c)) = 10 * Number(text) + DigitValue(c)
<1> DEFINE more == Append(text, c)
           n == Len(text)
<1>1. /\ more \in Seq(DigitChars) /\ n \in Nat /\ Len(more) = n + 1
      /\ \A i \in 1..n : more[i] = text[i]
      /\ more[n + 1] = c
  BY AppendProperties
<1>2. PICK f : IsNumber(text, f) /\ f \in [0..n -> Nat] /\ Number(text) = f[n]
  BY NumberIs
<1> HIDE DEF more
<1>3. PICK g : IsNumber(more, g) /\ Number(more) = g[Len(more)]
  BY <1>1, NumberIs
<1> DEFINE S == {i \in Nat : i \in 0..n => g[i] = f[i]}
<1> HIDE DEF n
<1>4. /\ \A i \in 0..n : f[i] = IF i = 0 THEN 0 ELSE 10 * f[i - 1] + DigitValue(text[i])
      /\ \A i \in 0..(n + 1) : g[i] = IF i = 0 THEN 0 ELSE 10 * g[i - 1] + DigitValue(more[i])
  <2>1. \A i \in 0..n : f[i] = IF i = 0 THEN 0 ELSE 10 * f[i - 1] + DigitValue(text[i])
    BY <1>2 DEF IsNumber, n
  <2>2. \A i \in 0..(n + 1) : g[i] = IF i = 0 THEN 0 ELSE 10 * g[i - 1] + DigitValue(more[i])
    BY <1>1, <1>3 DEF IsNumber
  <2> QED
    BY <2>1, <2>2
<1>5. \A i \in Nat : (\A k \in 0..(i - 1) : k \in S) => i \in S
  <2>1. SUFFICES ASSUME NEW i \in 0..n, \A k \in 0..(i - 1) : k \in S
                 PROVE  g[i] = f[i]
    BY <1>1
  <2>2. CASE i = 0
    BY <1>1, <1>4, <2>2
  <2>3. CASE i # 0
    <3>1. i - 1 \in 0..(i - 1) /\ i - 1 \in 0..n /\ i \in 1..n /\ i \in 0..(n + 1)
      BY <1>1, <2>3
    <3>2. g[i - 1] = f[i - 1]
      BY <2>1, <3>1
    <3>3. more[i] = text[i]
      BY <1>1, <3>1
    <3> QED
      BY <1>4, <2>3, <3>1, <3>2, <3>3
  <2> QED
    BY <2>2, <2>3
<1>6. Nat \subseteq S
  <2> HIDE DEF S
  <2> QED
    BY <1>5, Inductive
<1>7. g[n] = f[n]
  BY <1>1, <1>6
<1>8. g[n + 1] = 10 * g[n] + DigitValue(c)
  <2>1. n + 1 \in 0..(n + 1) /\ n + 1 # 0 /\ (n + 1) - 1 = n
    BY <1>1
  <2> QED
    BY <1>1, <1>4, <2>1
<1>9. Number(text) \in Nat
  BY <1>1, <1>2
<1> QED
  BY <1>1, <1>2, <1>3, <1>7, <1>8, <1>9 DEF more

(* The number written is read back.                                         *)
LEMMA NumberOfDecimal == \A n \in Nat : Number(Decimal[n]) = n
<1> DEFINE S == {n \in Nat : Number(Decimal[n]) = n}
           empty == << >>
<1>1. empty \in Seq(DigitChars) /\ Len(empty) = 0
  OBVIOUS
<1>2. Number(empty) = 0
  <2>1. PICK f : IsNumber(empty, f) /\ Number(empty) = f[Len(empty)]
    BY <1>1, NumberIs
  <2> HIDE DEF empty
  <2>2. f[0] = 0
    BY <1>1, <2>1 DEF IsNumber
  <2> QED
    BY <1>1, <2>1, <2>2
<1>3. \A c \in DigitChars : <<c>> = Append(empty, c)
  OBVIOUS
<1> HIDE DEF empty
<1>4. \A n \in 0..9 : Digits[n + 1] \in DigitChars /\ DigitValue(Digits[n + 1]) = n
  BY TenDigits DEF DigitChars
<1>5. \A n \in Nat : (\A k \in 0..(n - 1) : k \in S) => n \in S
  <2>1. SUFFICES ASSUME NEW n \in Nat, \A k \in 0..(n - 1) : k \in S
                 PROVE  Number(Decimal[n]) = n
    OBVIOUS
  <2>2. CASE n < 10
    <3> DEFINE c == Digits[n + 1]
    <3>1. c \in DigitChars /\ DigitValue(c) = n
      BY <1>4, <2>2
    <3>2. Decimal[n] = <<c>>
      BY <2>2, DecimalIs
    <3> HIDE DEF c
    <3>3. Decimal[n] = Append(empty, c)
      BY <1>3, <3>1, <3>2
    <3>4. Number(Append(empty, c)) = 10 * Number(empty) + DigitValue(c)
      BY <1>1, <3>1, NumberOfMore
    <3> QED
      BY <1>2, <3>1, <3>3, <3>4
  <2>3. CASE ~(n < 10)
    <3> DEFINE c == Digits[(n % 10) + 1]
               d == n \div 10
    <3>1. d \in 0..(n - 1) /\ d \in Nat /\ n % 10 \in 0..9 /\ n = 10 * d + (n % 10)
      BY <2>3, Division
    <3>2. c \in DigitChars /\ DigitValue(c) = n % 10 /\ Decimal[n] = Append(Decimal[d], c)
      BY <1>4, <2>3, <3>1, DecimalIs
    <3>3. Number(Decimal[d]) = d /\ Decimal[d] \in Seq(DigitChars)
      BY <2>1, <3>1, DecimalIs DEF Numerals
    <3> HIDE DEF c, d
    <3>4. Number(Append(Decimal[d], c)) = 10 * Number(Decimal[d]) + DigitValue(c)
      BY <3>2, <3>3, NumberOfMore
    <3> QED
      BY <3>1, <3>2, <3>3, <3>4
  <2> QED
    BY <2>2, <2>3
<1>6. Nat \subseteq S
  <2> HIDE DEF S
  <2> QED
    BY <1>5, Inductive
<1> QED
  BY <1>6

LEMMA DecimalCases ==
  ASSUME NEW n \in Nat
  PROVE  /\ Decimal[n] \in Seq(DigitChars)
         /\ n < 10 => Decimal[n] = <<Digits[n + 1]>>
         /\ n >= 10 => Decimal[n] = Append(Decimal[n \div 10], Digits[(n % 10) + 1])
<1>1. /\ Decimal[n] \in Numerals
      /\ Decimal[n] = IF n < 10 THEN <<Digits[n + 1]>> ELSE Append(Decimal[n \div 10], Digits[(n % 10) + 1])
  BY DecimalIs
<1>2. Decimal[n] \in Seq(DigitChars)
  BY <1>1 DEF Numerals
<1>3. n < 10 => Decimal[n] = <<Digits[n + 1]>>
  BY <1>1
<1>4. n >= 10 => Decimal[n] = Append(Decimal[n \div 10], Digits[(n % 10) + 1])
  <2>1. n >= 10 => ~(n < 10)
    OBVIOUS
  <2> QED
    BY <1>1, <2>1
<1> QED
  BY <1>2, <1>3, <1>4

(* A number gets longer by one digit at most, which the buffer has room for. *)
LEMMA LengthGrows == \A n \in Nat : Len(Decimal[n]) \in Nat /\ Len(Decimal[n + 1]) <= Len(Decimal[n]) + 1
<1> DEFINE length(n) == Len(Decimal[n])
           S == {n \in Nat : length(n + 1) <= length(n) + 1}
<1>1. \A n \in Nat : length(n) \in Nat
  BY DecimalIs DEF Numerals
<1>2. ASSUME NEW n \in Nat, n < 10
      PROVE  length(n) = 1
  <2>1. Decimal[n] = <<Digits[n + 1]>>
    BY <1>2, DecimalCases
  <2> QED
    BY <2>1
<1>3. ASSUME NEW n \in Nat, n >= 10
      PROVE  length(n) = length(n \div 10) + 1
  <2> DEFINE t == Decimal[n \div 10]
             c == Digits[(n % 10) + 1]
  <2>1. n \div 10 \in Nat /\ (n % 10) + 1 \in 1..10
    BY Division
  <2>2. t \in Seq(DigitChars) /\ c \in DigitChars
    BY <2>1, DecimalIs DEF Numerals, DigitChars
  <2>3. Decimal[n] = Append(t, c)
    BY <1>3, DecimalCases
  <2> HIDE DEF t, c
  <2>4. Len(Append(t, c)) = Len(t) + 1
    BY <2>2, NumeralsGrow
  <2> QED
    BY <2>3, <2>4 DEF t
<1> HIDE DEF length
<1>4. \A n \in Nat : (\A k \in 0..(n - 1) : k \in S) => n \in S
  <2>1. SUFFICES ASSUME NEW n \in Nat, \A k \in 0..(n - 1) : k \in S
                 PROVE  length(n + 1) <= length(n) + 1
    OBVIOUS
  <2>2. CASE n + 1 < 10
    BY <1>1, <1>2, <2>2
  <2>3. CASE n + 1 = 10
    <3>1. length(n + 1) = length((n + 1) \div 10) + 1
      BY <1>3, <2>3
    <3>2. (n + 1) \div 10 = 1
      BY <2>3
    <3>3. length(1) = 1 /\ length(n) = 1
      BY <1>2, <2>3
    <3> QED
      BY <3>1, <3>2, <3>3
  <2>4. CASE n >= 10
    <3> DEFINE d == n \div 10
    <3>1. length(n + 1) = length((n + 1) \div 10) + 1 /\ length(n) = length(d) + 1
      BY <1>3, <2>4
    <3>2. d \in 0..(n - 1) /\ ((n + 1) \div 10 = d \/ (n + 1) \div 10 = d + 1)
      BY <2>4, Division
    <3>3. length(d + 1) <= length(d) + 1
      BY <2>1, <3>2
    <3>4. length(d) \in Nat /\ length(d + 1) \in Nat
      BY <1>1, <3>2
    <3> HIDE DEF d
    <3> QED
      BY <3>1, <3>2, <3>3, <3>4
  <2> QED
    BY <2>2, <2>3, <2>4
<1>5. Nat \subseteq S
  <2> HIDE DEF S
  <2> QED
    BY <1>4, Inductive
<1> QED
  BY <1>1, <1>5 DEF length

LEMMA IncrementedIs == \A n \in Nat : Incremented(Decimal[n]) = Decimal[n + 1]
<1>1. SUFFICES ASSUME NEW n \in Nat
               PROVE  Incremented(Decimal[n]) = Decimal[n + 1]
  OBVIOUS
<1> DEFINE old == Decimal[n]
           new == Decimal[n + 1]
<1>2. new \in Seq(DigitChars) /\ Len(old) \in Nat /\ Len(new) <= Len(old) + 1
  <2>1. n + 1 \in Nat
    OBVIOUS
  <2>2. new \in Seq(DigitChars)
    BY <2>1, DecimalCases
  <2>3. Len(old) \in Nat /\ Len(new) <= Len(old) + 1
    BY LengthGrows
  <2> QED
    BY <2>2, <2>3
<1>3. Number(old) + 1 = n + 1
  BY NumberOfDecimal
<1>4. Incremented(old) = UpTo(Len(old) + 1, new)
  BY <1>3 DEF Incremented
<1> HIDE DEF old, new
<1>5. SubSeq(new, 1, Len(new)) = new
  BY <1>2, SubSeqFull
<1>6. (IF Len(old) + 1 < Len(new) THEN Len(old) + 1 ELSE Len(new)) = Len(new)
  BY <1>2
<1>7. Incremented(old) = new
  BY <1>4, <1>5, <1>6 DEF UpTo
<1> QED
  BY <1>7 DEF old, new

LEMMA NumeralsAreTexts ==
  ASSUME NEW text \in Numerals
  PROVE  text \in Without(Tab) /\ text \in Without(Eq) /\ text # << >>
<1>1. text \in Seq(DigitChars) /\ text # << >>
  BY DEF Numerals
<1>2. DigitChars \subseteq Chars
  BY TenDigits
<1>3. text \in Texts
  BY <1>1, <1>2, SeqMonotonic DEF Texts
<1>4. \A i \in 1..Len(text) : text[i] \in DigitChars
  BY <1>1
<1>5. \A i \in 1..Len(text) : text[i] # Tab /\ text[i] # Eq
  BY <1>4, TenDigits
<1> QED
  BY <1>1, <1>3, <1>5, WithoutIs

LEMMA SpacedIs ==
  ASSUME NEW text \in Texts
  PROVE  /\ Spaced(text) \in Without(Tab)
         /\ text \in Without(Tab) => Spaced(text) = text
<1> DEFINE blank == " "
           spaced == [i \in 1..Len(text) |-> IF text[i] = Tab THEN blank ELSE text[i]]
<1>1. Len(text) \in Nat /\ DOMAIN text = 1..Len(text) /\ \A i \in 1..Len(text) : text[i] \in Chars
  BY TextsAre DEF Texts
<1>2. blank \in Chars /\ blank # Tab
  BY CharsAssumption DEF Tab
<1>3. Spaced(text) = spaced
  BY <1>1 DEF Spaced
<1> HIDE DEF blank
<1>4. /\ spaced \in Texts /\ Len(spaced) = Len(text)
      /\ \A i \in 1..Len(text) : spaced[i] = IF text[i] = Tab THEN blank ELSE text[i]
  BY <1>1, <1>2 DEF Texts
<1> HIDE DEF spaced
<1>5. spaced \in Without(Tab)
  <2>1. \A i \in 1..Len(spaced) : spaced[i] # Tab
    BY <1>2, <1>4
  <2> QED
    BY <1>4, <2>1, WithoutIs
<1>6. ASSUME text \in Without(Tab)
      PROVE  spaced = text
  <2>1. \A i \in 1..Len(text) : text[i] # Tab
    BY <1>6, WithoutIs
  <2> QED
    BY <1>4, <2>1, TextsAre
<1> QED
  BY <1>3, <1>5, <1>6

-----------------------------------------------------------------------------
(* The row.  What column VALS says after any updates: the keys given and the *)
(* counter, each with its value.                                            *)

Row(g, n) ==
  [key \in DOMAIN g \cup {Count} |-> IF key = Count THEN Decimal[n] ELSE BeforeEq(Spaced(g[key]))]

IsGiven(g) == DOMAIN g \subseteq Keys /\ \A key \in DOMAIN g : g[key] \in Values

CodecInv ==
  /\ IsGiven(given)
  /\ logins \in Nat
  /\ data = None => DOMAIN given = {} /\ logins = 0
  /\ data # None => avDataStrToMap(data) = Row(given, logins)

(* What the map of the next row must be, before it is written.               *)
Updated(map, g, n) ==
  /\ DOMAIN map = DOMAIN g \cup {Count}
  /\ Writable(map, DOMAIN map)
  /\ BeforeEq(map[Count]) = Decimal[n]
  /\ \A key \in DOMAIN g : BeforeEq(map[key]) = BeforeEq(Spaced(g[key]))

LEMMA KeysAre ==
  /\ IsFiniteSet(Keys) /\ Count \notin Keys
  /\ Keys \subseteq Without(Eq) \cap Without(Tab)
  /\ Count \in Without(Eq) \cap Without(Tab)
  /\ Values \subseteq Texts /\ None \notin Texts
<1>1. Keys \cup {Count} \cup Values \subseteq Texts /\ None \notin Texts
  BY KeysAssumption DEF Texts
<1>2. ASSUME NEW key \in Keys \cup {Count}
      PROVE  key \in Without(Eq) /\ key \in Without(Tab)
  <2>1. key \in Texts
    BY <1>1
  <2>2. \A i \in DOMAIN key : key[i] # Tab /\ key[i] # Eq
    BY KeysAssumption
  <2>3. DOMAIN key = 1..Len(key)
    BY <2>1, TextsAre
  <2> QED
    BY <2>1, <2>2, <2>3, WithoutIs
<1> QED
  BY <1>1, <1>2, KeysAssumption

LEMMA DecimalsAreTexts ==
  ASSUME NEW n \in Nat
  PROVE  /\ Decimal[n] \in Without(Tab) /\ Decimal[n] # << >>
         /\ BeforeEq(Decimal[n]) = Decimal[n]
<1>1. Decimal[n] \in Numerals
  BY DecimalIs
<1>2. Decimal[n] \in Without(Tab) /\ Decimal[n] \in Without(Eq) /\ Decimal[n] # << >>
  BY <1>1, NumeralsAreTexts
<1>3. Decimal[n] \in Texts
  BY <1>2, WithoutIs
<1> QED
  BY <1>2, <1>3, BeforeEqProperties

(* A value of a row that is written again as it was read does not change.    *)
LEMMA ReadAgain ==
  ASSUME NEW text \in Texts
  PROVE  /\ Spaced(text) \in Without(Tab)
         /\ BeforeEq(Spaced(text)) \in Without(Tab)
         /\ BeforeEq(BeforeEq(Spaced(text))) = BeforeEq(Spaced(text))
<1>1. Spaced(text) \in Without(Tab)
  BY SpacedIs
<1>2. Spaced(text) \in Texts
  BY <1>1, WithoutIs
<1>3. BeforeEq(Spaced(text)) \in Without(Tab) /\ BeforeEq(Spaced(text)) \in Without(Eq)
  BY <1>1, <1>2, BeforeEqProperties
<1>4. BeforeEq(Spaced(text)) \in Texts
  BY <1>3, WithoutIs
<1> QED
  BY <1>1, <1>3, <1>4, BeforeEqProperties

LEMMA ChangesAre ==
  ASSUME NEW change \in Changes
  PROVE  /\ DOMAIN change \subseteq Keys /\ Count \notin DOMAIN change
         /\ \A key \in DOMAIN change : change[key] \in Values \cup {None}
<1>1. PICK keys \in SUBSET Keys : change \in [keys -> Values \cup {None}]
  BY DEF Changes
<1> QED
  BY <1>1, KeysAre

LEMMA GivenIs ==
  ASSUME NEW change \in Changes, IsGiven(given)
  PROVE  /\ IsGiven(Given(change))
         /\ DOMAIN Given(change) =
              (DOMAIN given \cup DOMAIN change) \ {key \in DOMAIN change : change[key] = None}
         /\ \A key \in DOMAIN Given(change) :
              /\ key \in DOMAIN change => Given(change)[key] = change[key]
              /\ key \notin DOMAIN change => key \in DOMAIN given /\ Given(change)[key] = given[key]
<1> DEFINE kept == {key \in DOMAIN given \cup DOMAIN change : key \in DOMAIN change => change[key] # None}
<1>1. Given(change) = [key \in kept |-> IF key \in DOMAIN change THEN change[key] ELSE given[key]]
  BY DEF Given
<1>2. kept = (DOMAIN given \cup DOMAIN change) \ {key \in DOMAIN change : change[key] = None}
  OBVIOUS
<1>3. \A key \in kept : key \in DOMAIN change => change[key] # None
  OBVIOUS
<1>4. kept \subseteq DOMAIN given \cup DOMAIN change
  OBVIOUS
<1> HIDE DEF kept
<1>5. /\ DOMAIN Given(change) = kept
      /\ \A key \in kept :
           /\ key \in DOMAIN change => Given(change)[key] = change[key]
           /\ key \notin DOMAIN change => key \in DOMAIN given /\ Given(change)[key] = given[key]
  BY <1>1, <1>4
<1>6. IsGiven(Given(change))
  BY <1>3, <1>4, <1>5, ChangesAre DEF IsGiven
<1> QED
  BY <1>2, <1>5, <1>6

(* Whatever order the hash table gives, the text that is written says what    *)
(* the map said.                                                            *)
LEMMA WriteKeeps ==
  ASSUME NEW map, NEW g, NEW n, IsGiven(g), Updated(map, g, n), Write(map)
  PROVE  data' # None /\ avDataStrToMap(data') = Row(g, n)
<1> DEFINE D == DOMAIN map
<1>1. D = DOMAIN g \cup {Count} /\ Writable(map, D)
  BY DEF Updated
<1>2. IsFiniteSet(D) /\ D # {}
  <2>1. D \subseteq Keys \cup {Count}
    BY <1>1 DEF IsGiven
  <2>2. IsFiniteSet(Keys \cup {Count})
    BY KeysAre, FS_AddElement
  <2> QED
    BY <1>1, <2>1, <2>2, FS_Subset
<1>3. PICK order \in SetToSeqs(D) : data' = avMapToDataStr(map, order)
  BY DEF Write
<1> HIDE DEF D
<1>4. /\ avMapToDataStr(map, order) \in Texts
      /\ avDataStrToMap(avMapToDataStr(map, order)) = [key \in D |-> BeforeEq(map[key])]
  BY <1>1, <1>2, RoundTrip
<1>5. \A key \in D : BeforeEq(map[key]) = IF key = Count THEN Decimal[n] ELSE BeforeEq(Spaced(g[key]))
  <2>1. BeforeEq(map[Count]) = Decimal[n]
    BY DEF Updated
  <2>2. \A key \in DOMAIN g : key # Count /\ BeforeEq(map[key]) = BeforeEq(Spaced(g[key]))
    BY KeysAre DEF Updated, IsGiven
  <2> QED
    BY <1>1, <2>1, <2>2
<1>6. [key \in D |-> BeforeEq(map[key])] = Row(g, n)
  BY <1>1, <1>5 DEF Row
<1> QED
  BY <1>3, <1>4, <1>6, KeysAre

LEMMA FirstRow ==
  ASSUME NEW change \in Changes, DOMAIN given = {}, IsGiven(given)
  PROVE  Updated(avUpdateData(<< >>, WithCount(change), {}), Given(change), 0)
<1> DEFINE first == WithCount(change)
           removed == {key \in DOMAIN first : first[key] = None}
           map == [key \in (DOMAIN << >> \cup DOMAIN first \cup {}) \ removed |->
                     IF key \in DOMAIN first THEN Spaced(first[key])
                     ELSE IF key \notin {} THEN << >>[key]
                     ELSE IF key \in DOMAIN << >> /\ << >>[key] # << >> THEN Incremented(<< >>[key])
                     ELSE <<"1">>]
           g == Given(change)
<1>1. avUpdateData(<< >>, first, {}) = map
  BY DEF avUpdateData
<1>2. /\ DOMAIN first = DOMAIN change \cup {Count}
      /\ first[Count] = Decimal[0]
      /\ \A key \in DOMAIN change : first[key] = change[key]
  <2>1. Decimal[0] = <<"0">>
    BY DecimalCases DEF Digits
  <2>2. Count \notin DOMAIN change
    BY ChangesAre
  <2> QED
    BY <2>1, <2>2 DEF WithCount
<1>3. Decimal[0] \in Without(Tab) /\ BeforeEq(Decimal[0]) = Decimal[0]
  BY DecimalsAreTexts
<1>4. Decimal[0] \in Texts
  BY <1>3, WithoutIs
<1>5. Spaced(Decimal[0]) = Decimal[0]
  BY <1>3, <1>4, SpacedIs
<1>6. DOMAIN << >> = {}
  OBVIOUS
<1> HIDE DEF first
<1>7. /\ DOMAIN map = DOMAIN first \ removed
      /\ \A key \in DOMAIN map : map[key] = Spaced(first[key])
  BY <1>6
<1>8. Count \notin DOMAIN change /\ Decimal[0] # None
  BY <1>4, ChangesAre, KeysAre
<1>9. DOMAIN first \ removed = (DOMAIN change \ {key \in DOMAIN change : change[key] = None}) \cup {Count}
  BY <1>2, <1>8
<1>10. DOMAIN g = DOMAIN change \ {key \in DOMAIN change : change[key] = None}
  <2>1. DOMAIN g = (DOMAIN given \cup DOMAIN change) \ {key \in DOMAIN change : change[key] = None}
    BY GivenIs
  <2>2. DOMAIN given \cup DOMAIN change = DOMAIN change
    OBVIOUS
  <2> QED
    BY <2>1, <2>2
<1>11. /\ IsGiven(g)
       /\ \A key \in DOMAIN g : g[key] = change[key]
  <2>1. \A key \in DOMAIN g : key \in DOMAIN change
    BY <1>10
  <2> QED
    BY <2>1, GivenIs
<1> HIDE DEF map, removed, g
<1>12. DOMAIN map = DOMAIN g \cup {Count}
  BY <1>7, <1>9, <1>10
<1>13. map[Count] = Decimal[0]
  BY <1>2, <1>5, <1>7, <1>12
<1>14. \A key \in DOMAIN g : map[key] = Spaced(g[key]) /\ g[key] \in Texts
  <2> TAKE key \in DOMAIN g
  <2>1. key \in DOMAIN change
    BY <1>10
  <2>2. g[key] \in Texts
    BY <1>11, KeysAre DEF IsGiven
  <2> QED
    BY <1>2, <1>7, <1>11, <1>12, <2>1, <2>2
<1>15. Writable(map, DOMAIN map)
  <2>1. \A key \in DOMAIN map : key \in Without(Eq) \cap Without(Tab)
    BY <1>11, <1>12, KeysAre DEF IsGiven
  <2>2. \A key \in DOMAIN map : map[key] \in Without(Tab)
    BY <1>3, <1>12, <1>13, <1>14, ReadAgain
  <2> QED
    BY <2>1, <2>2 DEF Writable
<1>16. Updated(map, g, 0)
  BY <1>3, <1>12, <1>13, <1>14, <1>15 DEF Updated
<1> QED
  BY <1>1, <1>16 DEF first, g

LEMMA NextRow ==
  ASSUME NEW change \in Changes, NEW counted \in SUBSET {Count}, NEW n \in Nat, IsGiven(given)
  PROVE  Updated(avUpdateData(Row(given, n), change, counted), Given(change), n + Cardinality(counted))
<1> DEFINE old == Row(given, n)
           removed == {key \in DOMAIN change : change[key] = None}
           map == [key \in (DOMAIN old \cup DOMAIN change \cup counted) \ removed |->
                     IF key \in DOMAIN change THEN Spaced(change[key])
                     ELSE IF key \notin counted THEN old[key]
                     ELSE IF key \in DOMAIN old /\ old[key] # << >> THEN Incremented(old[key])
                     ELSE <<"1">>]
           g == Given(change)
           m == n + Cardinality(counted)
<1>1. avUpdateData(old, change, counted) = map
  BY DEF avUpdateData
<1>2. /\ DOMAIN old = DOMAIN given \cup {Count} /\ old[Count] = Decimal[n]
      /\ \A key \in DOMAIN given : old[key] = BeforeEq(Spaced(given[key]))
  <2>1. Count \notin DOMAIN given
    BY KeysAre DEF IsGiven
  <2> QED
    BY <2>1 DEF Row
<1>3. DOMAIN change \subseteq Keys /\ Count \notin DOMAIN change
  BY ChangesAre
<1>4. /\ IsGiven(g)
      /\ DOMAIN g = (DOMAIN given \cup DOMAIN change) \ removed
      /\ \A key \in DOMAIN g :
           /\ key \in DOMAIN change => g[key] = change[key]
           /\ key \notin DOMAIN change => key \in DOMAIN given /\ g[key] = given[key]
  BY GivenIs
<1>5. Decimal[n] # << >>
  BY DecimalsAreTexts
<1> HIDE DEF old, g
<1>6. DOMAIN map = DOMAIN g \cup {Count}
  BY <1>2, <1>3, <1>4
<1>7. map[Count] = IF counted = {} THEN Decimal[n] ELSE Incremented(Decimal[n])
  BY <1>2, <1>3, <1>5, <1>6
<1>8. /\ \A key \in DOMAIN map : key \in DOMAIN change => map[key] = Spaced(change[key])
      /\ \A key \in DOMAIN map : key \notin DOMAIN change /\ key \notin counted => map[key] = old[key]
  OBVIOUS
<1> HIDE DEF map, removed
<1>9. m \in Nat /\ map[Count] = Decimal[m]
  <2>1. CASE counted = {}
    <3>1. Cardinality(counted) = 0
      BY <2>1, FS_EmptySet
    <3> QED
      BY <1>7, <2>1, <3>1
  <2>2. CASE counted = {Count}
    <3>1. Cardinality(counted) = 1
      BY <2>2, FS_Singleton
    <3>2. Incremented(Decimal[n]) = Decimal[n + 1]
      BY IncrementedIs
    <3> QED
      BY <1>7, <2>2, <3>1, <3>2
  <2> QED
    BY <2>1, <2>2
<1> HIDE DEF m
<1>10. Decimal[m] \in Without(Tab) /\ BeforeEq(Decimal[m]) = Decimal[m]
  BY <1>9, DecimalsAreTexts
<1>11. \A key \in DOMAIN g :
         map[key] \in Without(Tab) /\ BeforeEq(map[key]) = BeforeEq(Spaced(g[key]))
  <2> TAKE key \in DOMAIN g
  <2>1. g[key] \in Texts
    BY <1>4, KeysAre DEF IsGiven
  <2>2. /\ Spaced(g[key]) \in Without(Tab)
        /\ BeforeEq(Spaced(g[key])) \in Without(Tab)
        /\ BeforeEq(BeforeEq(Spaced(g[key]))) = BeforeEq(Spaced(g[key]))
    BY <2>1, ReadAgain
  <2>3. key \in DOMAIN map /\ key \notin counted
    BY <1>4, <1>6, KeysAre DEF IsGiven
  <2>4. CASE key \in DOMAIN change
    BY <1>4, <1>8, <2>2, <2>3, <2>4
  <2>5. CASE key \notin DOMAIN change
    <3>1. map[key] = old[key]
      BY <1>8, <2>3, <2>5
    <3>2. key \in DOMAIN given /\ g[key] = given[key]
      BY <1>4, <2>5
    <3> QED
      BY <1>2, <2>2, <3>1, <3>2
  <2> QED
    BY <2>4, <2>5
<1>12. Writable(map, DOMAIN map)
  <2>1. \A key \in DOMAIN map : key \in Without(Eq) \cap Without(Tab)
    BY <1>4, <1>6, KeysAre DEF IsGiven
  <2>2. \A key \in DOMAIN map : map[key] \in Without(Tab)
    BY <1>6, <1>9, <1>10, <1>11
  <2> QED
    BY <2>1, <2>2 DEF Writable
<1>13. Updated(map, g, m)
  BY <1>6, <1>9, <1>10, <1>11, <1>12 DEF Updated
<1> QED
  BY <1>1, <1>13 DEF old, g, m

LEMMA NextKeepsCodec == CodecInv /\ [Next]_vars => CodecInv'
<1> SUFFICES ASSUME CodecInv, [Next]_vars
             PROVE  CodecInv'
  OBVIOUS
<1>1. IsGiven(given) /\ logins \in Nat
  BY DEF CodecInv
<1>2. ASSUME NEW change \in Changes, Insert(change)
      PROVE  CodecInv'
  <2>1. DOMAIN given = {} /\ logins = 0
    BY <1>2 DEF CodecInv, Insert
  <2>2. IsGiven(Given(change))
    BY <1>1, GivenIs
  <2>3. Updated(avUpdateData(<< >>, WithCount(change), {}), Given(change), 0)
    BY <1>1, <2>1, FirstRow
  <2>4. Write(avUpdateData(<< >>, WithCount(change), {})) /\ given' = Given(change) /\ logins' = 0
    BY <1>2, <2>1 DEF Insert
  <2>5. data' # None /\ avDataStrToMap(data') = Row(Given(change), 0)
    BY <2>2, <2>3, <2>4, WriteKeeps
  <2> QED
    BY <2>2, <2>4, <2>5 DEF CodecInv
<1>3. ASSUME NEW change \in Changes, NEW counted \in SUBSET {Count}, Update(change, counted)
      PROVE  CodecInv'
  <2> DEFINE m == logins + Cardinality(counted)
  <2>1. avDataStrToMap(data) = Row(given, logins)
    BY <1>3 DEF CodecInv, Update
  <2>2. IsGiven(Given(change))
    BY <1>1, GivenIs
  <2>3. Updated(avUpdateData(Row(given, logins), change, counted), Given(change), m)
    BY <1>1, NextRow
  <2>4. Write(avUpdateData(Row(given, logins), change, counted)) /\ given' = Given(change) /\ logins' = m
    BY <1>3, <2>1 DEF Update
  <2>5. m \in Nat
    <3>1. IsFiniteSet(counted)
      BY FS_Singleton, FS_Subset
    <3> QED
      BY <1>1, <3>1, FS_CardinalityType
  <2> HIDE DEF m
  <2>6. data' # None /\ avDataStrToMap(data') = Row(Given(change), m)
    BY <2>2, <2>3, <2>4, WriteKeeps
  <2> QED
    BY <2>2, <2>4, <2>5, <2>6 DEF CodecInv
<1>4. CASE UNCHANGED vars
  BY <1>4 DEF CodecInv, vars
<1> QED
  BY <1>2, <1>3, <1>4 DEF Next

LEMMA CodecAlways == Spec => []CodecInv
<1>1. Init => CodecInv
  BY DEF Init, CodecInv, IsGiven
<1> QED
  BY <1>1, NextKeepsCodec, PTL DEF Spec

(* After any inserts and updates of any keys and values, in any order, the    *)
(* row read from column VALS has the keys that were given and not removed,   *)
(* each with its own value up to the first "=" (avUpdateData and the two     *)
(* conversions around it).                                                  *)
THEOREM ReadsBackAlways == Spec => []ReadsBack
<1>1. CodecInv => ReadsBack
  <2>1. ASSUME CodecInv, data # None, NEW key \in DOMAIN given
        PROVE  Row(given, logins)[key] = BeforeEq(Spaced(given[key]))
    BY <2>1, KeysAre DEF CodecInv, IsGiven, Row
  <2> QED
    BY <2>1 DEF CodecInv, ReadsBack, Stored, Row
<1> QED
  BY <1>1, CodecAlways, PTL

(* The login counter in column VALS is the number of logins written as a     *)
(* decimal number, also when it gets a digit longer (avUpdateData).          *)
THEOREM CountsAlways == Spec => []CountsLogins
<1>1. CodecInv => CountsLogins
  BY DEF CodecInv, CountsLogins, Stored, Row
<1> QED
  BY <1>1, CodecAlways, PTL
=============================================================================
