--------------------------- MODULE ChannelRegistry ---------------------------
(***************************************************************************)
(* What the directory service promises about channels and their authors,   *)
(* whatever processes run at the same time and wherever they stop: no two  *)
(* channels have one title, a channel is created by somebody who has been  *)
(* made an author by then, and it stays that author's, renamed or not,     *)
(* until it is deleted.                                                    *)
(***************************************************************************)
CONSTANTS Ids, Names, Titles, Founders, None

VARIABLES
  registry,  \* id -> [title, author] or None
  authors    \* names of those who may publish

vars == <<registry, authors>>

Init == registry = [i \in Ids |-> None] /\ authors = Founders

Free(t, i) == \A j \in Ids : registry[j] # None /\ registry[j].title = t => j = i

Appoint(a) ==
  /\ a \notin authors
  /\ authors' = authors \cup {a}
  /\ UNCHANGED registry

Create(i, a, t) ==
  /\ registry[i] = None
  /\ a \in authors
  /\ Free(t, i)
  /\ registry' = [registry EXCEPT ![i] = [title |-> t, author |-> a]]
  /\ UNCHANGED authors

Rename(i, t) ==
  /\ registry[i] # None
  /\ Free(t, i)
  /\ registry' = [registry EXCEPT ![i] = [title |-> t, author |-> registry[i].author]]
  /\ UNCHANGED authors

Delete(i) ==
  /\ registry[i] # None
  /\ registry' = [registry EXCEPT ![i] = None]
  /\ UNCHANGED authors

(* All channels of an author at once.                                       *)
Withdraw(a) ==
  /\ registry' = [i \in Ids |-> IF registry[i] # None /\ registry[i].author = a
                                THEN None ELSE registry[i]]
  /\ UNCHANGED authors

Next ==
  \/ \E i \in Ids :
       \/ \E t \in Titles : Rename(i, t) \/ \E a \in Names : Create(i, a, t)
       \/ Delete(i)
  \/ \E a \in Names : Appoint(a) \/ Withdraw(a)

Spec == Init /\ [][Next]_vars
=============================================================================
