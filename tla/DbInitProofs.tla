---------------------------- MODULE DbInitProofs ----------------------------
(***************************************************************************)
(* Proofs about DbInit: for any number of processes and tables, whatever   *)
(* statements fail, the database that avInit leaves is in order.           *)
(***************************************************************************)
EXTENDS DbInit, TLAPS

(* The tables before the one a process is at exist, and that one too when   *)
(* the process has created it.                                              *)
Prefix ==
  \A p \in Proc :
    /\ pc[p] \in {"look", "create"} => 1..(at[p] - 1) \subseteq made
    /\ pc[p] \in {"index", "again"} => 1..at[p] \subseteq made
    /\ pc[p] = "ready" => 1..Last \subseteq made
    /\ pc[p] = "index" => at[p] = Last

(* Before the last table there is no index and nothing that could miss one;  *)
(* only the process that made the table creates the index.                  *)
NoIndexYet == Last \notin made => ~index /\ ~torn
OneIndexer ==
  \A p \in Proc :
    pc[p] = "index" => ~torn /\ ~index /\ \A q \in Proc : pc[q] = "index" => q = p

(* A process that found all tables still does.                              *)
SoundHasTables == sound # {} => made = 1..Last

IInv ==
  /\ TypeOK
  /\ Prefix /\ MadeInOrder
  /\ NoIndexYet /\ OneIndexer /\ IndexGone
  /\ SoundHasTables /\ LateComersServed

LEMMA LastIsNat == Last \in Nat /\ Last > 0
BY TablesAssumption DEF Last

LEMMA InitIInv == Init => IInv
<1> SUFFICES ASSUME Init PROVE IInv
  OBVIOUS
<1>1. maker \in Seq(Proc) /\ Len(maker) = 0
  BY DEF Init
<1>2. TypeOK
  <2>1. index \in BOOLEAN /\ torn \in BOOLEAN /\ failed \in BOOLEAN
    BY DEF Init
  <2>2. pc \in [Proc -> Stages] /\ at \in [Proc -> 1..Last]
    BY LastIsNat DEF Init, Stages
  <2>3. made \subseteq 1..Last /\ sound \subseteq Proc
    BY DEF Init
  <2> QED BY <1>1, <2>1, <2>2, <2>3 DEF TypeOK
<1>3. Prefix /\ OneIndexer
  BY DEF Init, Prefix, OneIndexer
<1>4. MadeInOrder /\ NoIndexYet /\ IndexGone
  <2>1. 1..0 = {}
    OBVIOUS
  <2> QED BY <1>1, <2>1 DEF Init, MadeInOrder, NoIndexYet, IndexGone
<1>5. SoundHasTables /\ LateComersServed
  BY DEF Init, SoundHasTables, LateComersServed
<1> QED BY <1>2, <1>3, <1>4, <1>5 DEF IInv

(* Steps that leave the database alone keep what is said of it alone.       *)
LEMMA OpenIInv == ASSUME IInv, NEW p \in Proc, Open(p) PROVE IInv'
<1>1. TypeOK'
  BY LastIsNat DEF IInv, TypeOK, Open, Becomes, Stages
<1>2. Prefix'
  BY LastIsNat DEF IInv, TypeOK, Prefix, Open, Becomes, Stages
<1>3. MadeInOrder' /\ NoIndexYet'
  BY DEF IInv, MadeInOrder, NoIndexYet, Open
<1>4. OneIndexer' /\ IndexGone'
  BY DEF IInv, TypeOK, OneIndexer, IndexGone, Open, Becomes
<1>5. SoundHasTables' /\ LateComersServed'
  BY DEF IInv, TypeOK, SoundHasTables, LateComersServed, Open, Becomes
<1> QED BY <1>1, <1>2, <1>3, <1>4, <1>5 DEF IInv

LEMMA GoOnPrefix ==
  ASSUME IInv, NEW p \in Proc, at[p] \in made, pc[p] \in {"look", "again"}, GoOn(p),
         UNCHANGED made
  PROVE  /\ pc' \in [Proc -> Stages] /\ at' \in [Proc -> 1..Last]
         /\ Prefix'
<1>1. 1..at[p] \subseteq made
  BY LastIsNat DEF IInv, TypeOK, Prefix
<1>2. CASE at[p] = Last
  BY <1>1, <1>2, LastIsNat DEF IInv, TypeOK, Prefix, GoOn, Becomes, Stages
<1>3. CASE at[p] # Last
  <2>1. pc' = [pc EXCEPT ![p] = "look"] /\ at' = [at EXCEPT ![p] = at[p] + 1]
    BY <1>3 DEF GoOn, Becomes
  <2>2. at[p] \in 1..Last /\ at[p] + 1 \in 1..Last /\ (at[p] + 1) - 1 = at[p]
    BY <1>3, LastIsNat DEF IInv, TypeOK
  <2> QED
    BY <1>1, <2>1, <2>2 DEF IInv, TypeOK, Prefix, Stages
<1> QED BY <1>2, <1>3

LEMMA LookPrefix ==
  ASSUME IInv, NEW p \in Proc, Look(p) \/ LookAgain(p)
  PROVE  TypeOK' /\ Prefix'
<1>0. UNCHANGED <<made, index, sound, maker, torn, failed>> /\ pc[p] \in {"look", "again"}
  BY DEF Look, LookAgain
<1>1. CASE at[p] \in made
  <2>1. GoOn(p)
    BY <1>1 DEF Look, LookAgain
  <2> QED BY <1>0, <1>1, <2>1, GoOnPrefix DEF IInv, TypeOK
<1>2. CASE at[p] \notin made
  <2>1. pc[p] = "look"
    BY <1>0, <1>2, LastIsNat DEF IInv, TypeOK, Prefix
  <2>2. pc' = [pc EXCEPT ![p] = "create"] /\ UNCHANGED at
    BY <1>2, <2>1 DEF Look, LookAgain, Becomes
  <2> QED
    BY <1>0, <2>1, <2>2 DEF IInv, TypeOK, Prefix, Stages
<1> QED BY <1>1, <1>2

LEMMA LookIInv == ASSUME IInv, NEW p \in Proc, Look(p) \/ LookAgain(p) PROVE IInv'
<1>0. /\ UNCHANGED <<made, index, sound, maker, torn, failed>>
      /\ pc[p] \in {"look", "again"}
      /\ pc'[p] \in {"look", "create", "ready", "stopped"}
      /\ \A q \in Proc \ {p} : pc'[q] = pc[q]
  BY DEF Look, LookAgain, GoOn, Becomes, IInv, TypeOK
<1>1. MadeInOrder' /\ NoIndexYet' /\ SoundHasTables'
  BY <1>0 DEF IInv, MadeInOrder, NoIndexYet, SoundHasTables
<1>2. OneIndexer' /\ IndexGone'
  BY <1>0 DEF IInv, OneIndexer, IndexGone
<1>3. LateComersServed'
  <2>1. ASSUME p \in sound PROVE pc'[p] \in {"look", "ready"}
    <3>1. at[p] \in made
      BY <2>1 DEF IInv, TypeOK, SoundHasTables
    <3> QED BY <3>1 DEF Look, LookAgain, GoOn, Becomes, IInv, TypeOK
  <2> QED BY <1>0, <2>1 DEF IInv, TypeOK, LateComersServed
<1> QED BY <1>1, <1>2, <1>3, LookPrefix DEF IInv

(* The next table is made at its turn: the ones before it exist, it does    *)
(* not.                                                                     *)
LEMMA CreateIInv == ASSUME IInv, NEW p \in Proc, Create(p) PROVE IInv'
<1>0. /\ pc[p] = "create" /\ at[p] \notin made /\ made' = made \cup {at[p]}
      /\ maker' = Append(maker, p)
      /\ pc' = [pc EXCEPT ![p] = IF at[p] = Last THEN "index" ELSE "again"]
      /\ UNCHANGED <<index, at, sound, torn, failed>>
  BY DEF Create, Becomes
<1>1. at[p] \in 1..Last /\ 1..(at[p] - 1) \subseteq made /\ Last \notin made
  <2>1. at[p] \in 1..Last /\ 1..(at[p] - 1) \subseteq made
    BY <1>0 DEF IInv, TypeOK, Prefix
  <2> QED BY <1>0, <2>1, LastIsNat DEF IInv, TypeOK, MadeInOrder
<1>2. TypeOK' /\ Len(maker') = Len(maker) + 1
  <2>1. maker' \in Seq(Proc) /\ Len(maker') = Len(maker) + 1
    BY <1>0 DEF IInv, TypeOK
  <2>2. pc' \in [Proc -> Stages] /\ made' \subseteq 1..Last
    BY <1>0, <1>1 DEF IInv, TypeOK, Stages
  <2> QED BY <1>0, <2>1, <2>2 DEF IInv, TypeOK
<1>3. MadeInOrder'
  <2>1. made = 1..Len(maker) /\ Len(maker) \in Nat
    BY DEF IInv, TypeOK, MadeInOrder
  <2>2. at[p] = Len(maker) + 1
    BY <1>0, <1>1, <2>1, LastIsNat
  <2>3. made' = 1..Len(maker) \cup {Len(maker) + 1}
    BY <1>0, <2>1, <2>2
  <2>4. made' = 1..(Len(maker) + 1)
    BY <2>1, <2>3
  <2> QED BY <1>2, <2>4 DEF MadeInOrder
<1>4. Prefix'
  BY <1>0, <1>1, LastIsNat DEF IInv, TypeOK, Prefix
<1>5. NoIndexYet'
  BY <1>0 DEF IInv, NoIndexYet
<1>6. \A q \in Proc : pc[q] # "index"
  BY <1>1, LastIsNat DEF IInv, TypeOK, Prefix
<1>7. OneIndexer' /\ IndexGone'
  <2>1. ~index /\ ~torn
    BY <1>1 DEF IInv, NoIndexYet
  <2>2. CASE at[p] = Last
    BY <1>0, <1>6, <2>1, <2>2 DEF IInv, TypeOK, OneIndexer, IndexGone
  <2>3. CASE at[p] # Last
    BY <1>0, <1>1, <1>6, <2>1, <2>3 DEF IInv, TypeOK, OneIndexer, IndexGone
  <2> QED BY <2>2, <2>3
<1>8. SoundHasTables' /\ LateComersServed'
  <2>1. sound = {}
    BY <1>1, LastIsNat DEF IInv, TypeOK, SoundHasTables
  <2> QED BY <1>0, <2>1 DEF SoundHasTables, LateComersServed
<1> QED BY <1>2, <1>3, <1>4, <1>5, <1>7, <1>8 DEF IInv

LEMMA CreateIndexIInv == ASSUME IInv, NEW p \in Proc, CreateIndex(p) PROVE IInv'
<1>0. /\ pc[p] = "index" /\ ~index /\ index' = TRUE
      /\ pc' = [pc EXCEPT ![p] = "again"]
      /\ UNCHANGED <<made, at, sound, maker, torn, failed>>
  BY DEF CreateIndex, Becomes
<1>1. Last \in made /\ ~torn /\ \A q \in Proc : pc[q] = "index" => q = p
  BY <1>0, LastIsNat DEF IInv, TypeOK, Prefix, OneIndexer
<1>2. TypeOK' /\ Prefix'
  BY <1>0, LastIsNat DEF IInv, TypeOK, Prefix, Stages
<1>3. MadeInOrder' /\ NoIndexYet' /\ SoundHasTables'
  BY <1>0, <1>1 DEF IInv, MadeInOrder, NoIndexYet, SoundHasTables
<1>4. OneIndexer' /\ IndexGone'
  BY <1>0, <1>1 DEF IInv, TypeOK, OneIndexer, IndexGone
<1>5. LateComersServed'
  BY <1>0 DEF IInv, TypeOK, LateComersServed
<1> QED BY <1>2, <1>3, <1>4, <1>5 DEF IInv

LEMMA StopIInv == ASSUME IInv, NEW p \in Proc, Collide(p) \/ Fail(p) PROVE IInv'
<1>0. /\ pc[p] \in {"look", "create", "index", "again"} /\ pc' = [pc EXCEPT ![p] = "stopped"]
      /\ UNCHANGED <<made, index, at, sound, maker>>
      /\ failed' \in BOOLEAN /\ (failed => failed')
  BY DEF Collide, Fail, Becomes, IInv, TypeOK
<1>1. torn' \in BOOLEAN /\ (torn' <=> torn \/ pc[p] = "index")
  <2>1. CASE Collide(p)
    BY <2>1 DEF Collide, IInv, TypeOK
  <2>2. CASE Fail(p)
    BY <2>2 DEF Fail, IInv, TypeOK
  <2> QED BY <2>1, <2>2
<1>2. TypeOK' /\ Prefix'
  BY <1>0, <1>1 DEF IInv, TypeOK, Prefix, Stages
<1>3. MadeInOrder' /\ NoIndexYet' /\ SoundHasTables'
  BY <1>0, <1>1, LastIsNat DEF IInv, TypeOK, Prefix, MadeInOrder, NoIndexYet, SoundHasTables
<1>4. OneIndexer' /\ IndexGone'
  BY <1>0, <1>1 DEF IInv, TypeOK, OneIndexer, IndexGone
<1>5. LateComersServed'
  <2>1. CASE Collide(p)
    <3>1. p \notin sound
      BY <2>1 DEF Collide, IInv, LateComersServed
    <3> QED BY <1>0, <3>1 DEF IInv, TypeOK, LateComersServed
  <2>2. CASE Fail(p)
    <3>1. failed'
      BY <2>2 DEF Fail
    <3> QED BY <1>0, <3>1 DEF IInv, TypeOK, LateComersServed
  <2> QED BY <2>1, <2>2
<1> QED BY <1>2, <1>3, <1>4, <1>5 DEF IInv

LEMMA NextIInv == IInv /\ [Next]_vars => IInv'
<1> SUFFICES ASSUME IInv, [Next]_vars PROVE IInv'
  OBVIOUS
<1>1. CASE UNCHANGED vars
  BY <1>1
  DEF vars, IInv, TypeOK, Prefix, MadeInOrder, NoIndexYet, OneIndexer, IndexGone,
      SoundHasTables, LateComersServed
<1>2. ASSUME NEW p \in Proc, Open(p) \/ Step(p) \/ Fail(p)
      PROVE  IInv'
  BY <1>2, OpenIInv, LookIInv, CreateIInv, CreateIndexIInv, StopIInv DEF Step
<1> QED BY <1>1, <1>2 DEF Next

LEMMA InvariantHolds == Spec => []IInv
BY InitIInv, NextIInv, PTL DEF Spec

(* A process that is past avInit finds every table, whichever processes it   *)
(* raced with and whichever of them stopped.                                *)
THEOREM TablesBeforeRequests == Spec => []ReadyHasTables
<1>1. IInv => ReadyHasTables
  BY LastIsNat DEF IInv, TypeOK, Prefix, ReadyHasTables
<1> QED BY <1>1, InvariantHolds, PTL

(* The index is missing only if a process ended between the two statements   *)
(* for the last table, and then for good.                                   *)
THEOREM IndexAccounted == Spec => []IndexGone
<1>1. IInv => IndexGone
  BY DEF IInv
<1> QED BY <1>1, InvariantHolds, PTL

(* A process that starts when the tables exist collides with nobody.         *)
THEOREM LateComersNeverCollide == Spec => []LateComersServed
<1>1. IInv => LateComersServed
  BY DEF IInv
<1> QED BY <1>1, InvariantHolds, PTL

(* Whatever statements fail, made holds places of Tables only, every process *)
(* is at one of them, and the history names processes.                      *)
THEOREM TypesHold == Spec => []TypeOK
<1>1. IInv => TypeOK
  BY DEF IInv
<1> QED BY <1>1, InvariantHolds, PTL

(* The tables are made one after the other in the order of avInit and each   *)
(* by one process, although look and create are two statements and other    *)
(* processes run in between.                                                *)
THEOREM EachMadeOnce == Spec => []MadeInOrder
<1>1. IInv => MadeInOrder
  BY DEF IInv
<1> QED BY <1>1, InvariantHolds, PTL
=============================================================================
