--------------------------- MODULE AuthorLifecycle ---------------------------
(***************************************************************************)
(* What the account part of the directory service promises about author    *)
(* accounts, whatever processes run at the same time and wherever they     *)
(* stop: names are unique, a new account is not active, an account becomes *)
(* active only with a code an administrator had generated, and stays so    *)
(* until it is deleted.                                                    *)
(***************************************************************************)
CONSTANTS Ids, Names, Codes, None

VARIABLES
  account,   \* id -> [name, active] or None
  approvals  \* codes administrators have generated

vars == <<account, approvals>>

Init == account = [i \in Ids |-> None] /\ approvals = {}

Register(i, n) ==
  /\ account[i] = None
  /\ \A j \in Ids : account[j] # None => account[j].name # n
  /\ account' = [account EXCEPT ![i] = [name |-> n, active |-> FALSE]]
  /\ UNCHANGED approvals

Approve(c) ==
  /\ c \notin approvals
  /\ approvals' = approvals \cup {c}
  /\ UNCHANGED account

Activate(i, c) ==
  /\ account[i] # None
  /\ c \in approvals
  /\ account' = [account EXCEPT ![i] = [name |-> account[i].name, active |-> TRUE]]
  /\ UNCHANGED approvals

Delete(i) ==
  /\ account[i] # None
  /\ account' = [account EXCEPT ![i] = None]
  /\ UNCHANGED approvals

Next ==
  \/ \E i \in Ids :
       \/ \E n \in Names : Register(i, n)
       \/ \E c \in Codes : Activate(i, c)
       \/ Delete(i)
  \/ \E c \in Codes : Approve(c)

Spec == Init /\ [][Next]_vars
=============================================================================
