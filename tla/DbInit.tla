------------------------------- MODULE DbInit -------------------------------
(***************************************************************************)
(* The database of the Arvos directory service comes into being: avInit    *)
(* (avCgi.c), which every process runs before anything else.  For each of  *)
(* the tables in turn it looks whether the table exists and creates it if  *)
(* not; the statement for the last table creates its index as well, in a   *)
(* transaction of its own.  Processes that start at once run these         *)
(* statements interleaved, and a process whose statement fails exits.      *)
(***************************************************************************)
EXTENDS Naturals, Sequences

CONSTANTS
  Proc,    \* the processes
  Tables   \* the tables in the order avInit creates them

ASSUME TablesAssumption ==
  /\ Tables \in Seq(STRING) /\ Len(Tables) > 0
  /\ \A i, j \in 1..Len(Tables) : Tables[i] = Tables[j] => i = j

Last == Len(Tables)

VARIABLES
  made,    \* the tables that exist, by their place in Tables
  index,   \* whether index location_POS_index exists
  pc,      \* what each process does next
  at,      \* and for which table
  sound,   \* history: the processes that found all tables made when they started
  maker,   \* history: which process created each table
  torn,    \* history: a process ended between the last table and its index
  failed   \* history: a statement failed for a reason other than these tables

vars == <<made, index, pc, at, sound, maker, torn, failed>>

Stages == {"idle", "look", "create", "index", "again", "ready", "stopped"}

Init ==
  /\ made = {} /\ index = FALSE
  /\ pc = [p \in Proc |-> "idle"] /\ at = [p \in Proc |-> 1]
  /\ sound = {} /\ maker = << >>
  /\ torn = FALSE /\ failed = FALSE

Becomes(p, stage) == pc' = [pc EXCEPT ![p] = stage]

(* A process opens the database; one that ended is there for a new request. *)
Open(p) ==
  /\ pc[p] \in {"idle", "ready", "stopped"}
  /\ Becomes(p, "look")
  /\ at' = [at EXCEPT ![p] = 1]
  /\ sound' = IF made = 1..Last THEN sound \cup {p} ELSE sound \ {p}
  /\ UNCHANGED <<made, index, maker, torn, failed>>

(* The next table, or the request itself.                                   *)
BugGoOn(p) ==
  /\ Becomes(p, IF at[p] > Last THEN "ready" ELSE "look")
  /\ at' = [at EXCEPT ![p] = at[p] + 1]
GoOn(p) ==
  /\ Becomes(p, IF at[p] = Last THEN "ready" ELSE "look")
  /\ at' = [at EXCEPT ![p] = IF at[p] = Last THEN Last ELSE at[p] + 1]

(* SELECT ... FROM sqlite_master; the database does not change.             *)
BugLook(p) ==
  /\ pc[p] = "look"
  /\ Becomes(p, "create") /\ UNCHANGED at
  /\ UNCHANGED <<made, index, sound, maker, torn, failed>>
Look(p) ==
  /\ pc[p] = "look"
  /\ \/ at[p] \in made /\ GoOn(p)
     \/ at[p] \notin made /\ Becomes(p, "create") /\ UNCHANGED at
  /\ UNCHANGED <<made, index, sound, maker, torn, failed>>

(* CREATE TABLE, which fails if another process was faster.                 *)
BugCreate(p) ==
  /\ pc[p] = "create" /\ at[p] \notin made
  /\ made' = made \cup {at[p]}
  /\ maker' = Append(maker, p)
  /\ Becomes(p, "again")
  /\ UNCHANGED <<index, at, sound, torn, failed>>
BugCreateIfMissing(p) ==
  /\ pc[p] = "create"
  /\ made' = made \cup {at[p]}
  /\ maker' = Append(maker, p)
  /\ Becomes(p, IF at[p] = Last THEN "index" ELSE "again")
  /\ UNCHANGED <<index, at, sound, torn, failed>>
Create(p) ==
  /\ pc[p] = "create" /\ at[p] \notin made
  /\ made' = made \cup {at[p]}
  /\ maker' = Append(maker, p)
  /\ Becomes(p, IF at[p] = Last THEN "index" ELSE "again")
  /\ UNCHANGED <<index, at, sound, torn, failed>>

Collide(p) ==
  /\ pc[p] = "create" /\ at[p] \in made
  /\ Becomes(p, "stopped")
  /\ UNCHANGED <<made, index, at, sound, maker, torn, failed>>

(* CREATE INDEX, the second statement of the last table.                    *)
CreateIndex(p) ==
  /\ pc[p] = "index" /\ ~index
  /\ index' = TRUE
  /\ Becomes(p, "again")
  /\ UNCHANGED <<made, at, sound, maker, torn, failed>>

(* The table is looked for once more; without it the process exits.          *)
BugLookAgain(p) ==
  /\ pc[p] = "again"
  /\ at[p] \in made /\ Becomes(p, "ready") /\ UNCHANGED at
  /\ UNCHANGED <<made, index, sound, maker, torn, failed>>
LookAgain(p) ==
  /\ pc[p] = "again"
  /\ IF at[p] \in made THEN GoOn(p) ELSE Becomes(p, "stopped") /\ UNCHANGED at
  /\ UNCHANGED <<made, index, sound, maker, torn, failed>>

(* A statement fails, for a lock held elsewhere or a full disk, or the       *)
(* process is killed before it.                                             *)
Fail(p) ==
  /\ pc[p] \in {"look", "create", "index", "again"}
  /\ Becomes(p, "stopped")
  /\ failed' = TRUE
  /\ torn' = (torn \/ pc[p] = "index")
  /\ UNCHANGED <<made, index, at, sound, maker>>

Step(p) == Look(p) \/ Create(p) \/ Collide(p) \/ CreateIndex(p) \/ LookAgain(p)
Next == \E p \in Proc : Open(p) \/ Step(p) \/ Fail(p)

(* The system runs every process; requests come as they like, so Open and    *)
(* Fail are not fair.                                                       *)
Spec == Init /\ [][Next]_vars /\ \A p \in Proc : WF_vars(Step(p))

-----------------------------------------------------------------------------
(* Properties.  Operators whose names begin with Bug are faulty versions of *)
(* the definition behind them; no action uses them.                         *)

TypeOK ==
  /\ made \subseteq 1..Last /\ index \in BOOLEAN
  /\ pc \in [Proc -> Stages] /\ at \in [Proc -> 1..Last]
  /\ sound \subseteq Proc /\ maker \in Seq(Proc)
  /\ torn \in BOOLEAN /\ failed \in BOOLEAN

(* Whatever processes raced or ended, a request is served on all tables.     *)
ReadyHasTables == \A p \in Proc : pc[p] = "ready" => made = 1..Last

(* No process sees a later table without the ones before it, and each was    *)
(* made once, though processes look for it before they create it.           *)
MadeInOrder == made = 1..Len(maker)

(* The index goes missing in one way only: a process ends in between the two *)
(* statements for the last table.  Since avInit looks at tables alone, no    *)
(* later process makes up for it.                                           *)
IndexGone ==
  Last \in made => (index <=> ~torn /\ \A p \in Proc : pc[p] # "index")

(* Once the tables exist, a process that starts creates nothing, so only a   *)
(* failing statement can keep it from its request.                          *)
LateComersServed ==
  \A p \in sound : pc[p] \in {"look", "ready"} \/ (pc[p] = "stopped" /\ failed)

(* However many processes start at once on an empty directory and collide,   *)
(* one of them gets through, unless a statement fails.                      *)
SomeServed ==
  (\E p \in Proc : pc[p] = "look") ~> (failed \/ \E p \in Proc : pc[p] = "ready")
=============================================================================
