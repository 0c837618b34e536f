------------------------------ MODULE DataCodec ------------------------------
(***************************************************************************)
(* Column VALS of the tables of the Arvos directory service: the values of *)
(* a row that have no column of their own, as one text "key=value<tab>..." *)
(* (avCgi.c).  An update reads the text into a map, changes some of the    *)
(* keys and writes the map back.  The module follows one row; what happens *)
(* when two updates overlap is in Accounts, where values are tokens.       *)
(*                                                                         *)
(* The properties are about the text, so texts are sequences of characters. *)
(***************************************************************************)
EXTENDS Integers, FiniteSets, Sequences, SequencesExt

CONSTANTS
  Chars,     \* characters of texts
  Keys,      \* keys whose values requests set
  Count,     \* AV_KEY_COUNT, the key of the login counter
  Values,    \* texts that requests give
  MaxCount,  \* bound on the number of logins
  None       \* no row; NULL as a value

Tab == "\t"
Eq == "="
Digits == <<"0", "1", "2", "3", "4", "5", "6", "7", "8", "9">>

MaxInt == 2147483647  \* of the C type int

ASSUME CharsAssumption == {Tab, Eq, " "} \cup {Digits[i] : i \in 1..10} \subseteq Chars

ASSUME KeysAssumption ==
  /\ IsFiniteSet(Keys) /\ Count \notin Keys
  /\ Keys \cup {Count} \cup Values \subseteq Seq(Chars) /\ None \notin Seq(Chars)
  /\ \A key \in Keys \cup {Count} : \A i \in DOMAIN key : key[i] \notin {Tab, Eq}
  /\ MaxCount \in 0..MaxInt

VARIABLES
  data,   \* the text in column VALS
  given,  \* history: key -> the value given last, unless it was removed
  logins  \* history: how often the counter was incremented

vars == <<data, given, logins>>

-----------------------------------------------------------------------------
(* Text to map.                                                             *)

(* pblCgiStrSplitToList: a piece follows the start of the text or a          *)
(* separator, and goes on to the next one or the end.                       *)
Starts(text, separator) == {0} \cup {i \in DOMAIN text : text[i] = separator}
End(text, separator, start) ==
  CHOOSE end \in (start + 1)..(Len(text) + 1) :
    /\ end \in DOMAIN text => text[end] = separator
    /\ \A i \in (start + 1)..(end - 1) : text[i] # separator
Piece(text, separator, start) == SubSeq(text, start + 1, End(text, separator, start) - 1)

(* pblCgiStrSplit into an array of two: what follows a second "=" is lost.   *)
IsPair(item) == \E i \in DOMAIN item : item[i] = Eq
KeyOf(item) == Piece(item, Eq, 0)
ValueOf(item) == Piece(item, Eq, End(item, Eq, 0))

(* The list is emptied from its end, so the first of two items with one key  *)
(* overwrites the second; an item without "=" is none.                      *)
avDataStrToMap(text) ==
  LET item(start) == Piece(text, Tab, start)
      pairs == {start \in Starts(text, Tab) : IsPair(item(start))}
      IsFirst(key, start) ==
        /\ KeyOf(item(start)) = key
        /\ \A other \in pairs : KeyOf(item(other)) = key => start <= other
  IN  [key \in {KeyOf(item(start)) : start \in pairs} |->
         ValueOf(item(CHOOSE start \in pairs : IsFirst(key, start)))]

(* Map to text: the keys come in the order of the hash table.               *)
avMapToDataStr(map, order) ==
  LET item(i) == order[i] \o (<<Eq>> \o map[order[i]])
      text[i \in 1..Len(order)] == IF i = 1 THEN item(1) ELSE text[i - 1] \o (<<Tab>> \o item(i))
  IN  IF order = << >> THEN << >> ELSE text[Len(order)]

-----------------------------------------------------------------------------
(* avUpdateData.                                                            *)

(* atoi and "%d", for numbers without a sign.                               *)
DigitValue(c) == (CHOOSE i \in 1..10 : Digits[i] = c) - 1
Number(text) ==
  LET number[i \in 0..Len(text)] == IF i = 0 THEN 0 ELSE 10 * number[i - 1] + DigitValue(text[i])
  IN  number[Len(text)]
Decimal[number \in Nat] ==
  IF number < 10 THEN <<Digits[number + 1]>>
  ELSE Append(Decimal[number \div 10], Digits[(number % 10) + 1])

UpTo(n, seq) == SubSeq(seq, 1, IF n < Len(seq) THEN n ELSE Len(seq))

(* The incremented counter goes to a buffer one character longer than the    *)
(* old one.                                                                 *)
BugIncremented(text) == UpTo(Len(text), Decimal[Number(text) + 1])
Incremented(text) == UpTo(Len(text) + 1, Decimal[Number(text) + 1])

BugSpaced(text) == text
Spaced(text) == [i \in DOMAIN text |-> IF text[i] = Tab THEN " " ELSE text[i]]

(* change gives the new values, NULL for a key to be removed; the keys in     *)
(* counted are incremented.                                                 *)
avUpdateData(map, change, counted) ==
  LET removed == {key \in DOMAIN change : change[key] = None}
  IN  [key \in (DOMAIN map \cup DOMAIN change \cup counted) \ removed |->
         IF key \in DOMAIN change THEN Spaced(change[key])
         ELSE IF key \notin counted THEN map[key]
         ELSE IF key \in DOMAIN map /\ map[key] # << >> THEN Incremented(map[key])
         ELSE <<"1">>]

Write(map) == \E order \in SetToSeqs(DOMAIN map) : data' = avMapToDataStr(map, order)

-----------------------------------------------------------------------------
(* A row and its updates.                                                   *)

Changes == UNION {[keys -> Values \cup {None}] : keys \in SUBSET Keys}

Given(change) ==
  LET kept == {key \in DOMAIN given \cup DOMAIN change : key \in DOMAIN change => change[key] # None}
  IN  [key \in kept |-> IF key \in DOMAIN change THEN change[key] ELSE given[key]]

Init == data = None /\ given = << >> /\ logins = 0

(* A new author: the counter is "0".                                        *)
WithCount(change) == [key \in DOMAIN change \cup {Count} |-> IF key = Count THEN <<"0">> ELSE change[key]]
Insert(change) ==
  /\ data = None
  /\ Write(avUpdateData(<< >>, WithCount(change), {}))
  /\ given' = Given(change)
  /\ UNCHANGED logins

(* The ...UpdateValues functions; a login increments the counter.           *)
Update(change, counted) ==
  /\ data # None
  /\ logins + Cardinality(counted) <= MaxCount
  /\ Write(avUpdateData(avDataStrToMap(data), change, counted))
  /\ given' = Given(change)
  /\ logins' = logins + Cardinality(counted)

Next ==
  \E change \in Changes : Insert(change) \/ \E counted \in SUBSET {Count} : Update(change, counted)

Spec == Init /\ [][Next]_vars

-----------------------------------------------------------------------------
(* Properties.  Operators whose names begin with Bug are faulty versions of *)
(* the definition behind them; no action uses them.                         *)

Stored(key) == avDataStrToMap(data)[key]
BeforeEq(text) ==
  SubSeq(text, 1, CHOOSE n \in 0..Len(text) :
                    (\A i \in 1..n : text[i] # Eq) /\ (n < Len(text) => text[n + 1] = Eq))

(* After any updates in any order the row holds the keys that were given and *)
(* not removed, each with its own value up to the first "="; no value       *)
(* changes, adds or hides another, whatever characters it has.              *)
ReadsBack ==
  data # None =>
    /\ DOMAIN avDataStrToMap(data) = DOMAIN given \cup {Count}
    /\ \A key \in DOMAIN given : Stored(key) = BeforeEq(Spaced(given[key]))

(* The counter counts: no digit is cut off when it gets longer.             *)
CountsLogins == data # None => Stored(Count) = Decimal[logins]

(* "The values of the channel were successfully saved." (avChannel.c:321):   *)
(* a value is read back as it was given, up to the kind of blank.           *)
SavedAsGiven == data # None => \A key \in DOMAIN given : Stored(key) = Spaced(given[key])
=============================================================================
