------------------------- MODULE AccountsRefinement -------------------------
(* The accounts implement AuthorLifecycle, for every number of processes:  *)
(* each statement registers, activates or deletes one account, approves a  *)
(* code, or changes nothing a reader of the abstract specification sees.   *)
EXTENDS AccountsProofs

(* At most one row has a name, so ActivateColumn touches at most one.       *)
NamesUnique ==
  \A i, j \in AuthorIds :
    author[i] # None /\ author[j] # None /\ author[i].name = author[j].name => i = j

LEMMA StepNames ==
  ASSUME TypeInv, NamesUnique, NEW w \in Workers, Step(w)
  PROVE  NamesUnique'
<1>1. ASSUME NEW i \in AuthorIds, author'[i] # None
      PROVE  \/ author[i] # None /\ author'[i].name = author[i].name
             \/ AuthorAdded(i, w) /\ author'[i].name = proc[w].req.nam
  <2>1. AuthorChange(i, w)
    BY StepAuthor
  <2>2. CASE AuthorActivated(i, w)
    <3>1. author[i] \in AuthorRows
      BY <2>2 DEF AuthorActivated, TypeInv, TypeOK
    <3> QED BY <2>2, <3>1 DEF AuthorActivated, AuthorRows
  <2>3. CASE AuthorAdded(i, w)
    <3>1. author'[i] = NewAuthor(proc[w].req)
      BY <2>3 DEF AuthorAdded, TypeInv, TypeOK
    <3> QED BY <2>3, <3>1 DEF NewAuthor
  <2> QED BY <1>1, <2>1, <2>2, <2>3 DEF AuthorChange, AuthorKept
<1>2. ASSUME NEW i \in AuthorIds, NEW j \in AuthorIds, AuthorAdded(i, w), i # j, author'[j] # None
      PROVE  author[j] # None /\ author'[j].name = author[j].name /\ author[j].name # proc[w].req.nam
  <2>1. author'[j] = author[j]
    BY <1>2 DEF AuthorAdded, TypeInv, TypeOK
  <2> QED BY <1>2, <2>1 DEF AuthorAdded, NameIsFree, AuthorsByName
<1> QED BY <1>1, <1>2 DEF NamesUnique

LEMMA NextNames == TypeInv /\ NamesUnique /\ [Next]_vars => NamesUnique'
<1> SUFFICES ASSUME TypeInv, NamesUnique, [Next]_vars PROVE NamesUnique'
  OBVIOUS
<1>1. ASSUME UNCHANGED author PROVE NamesUnique'
  BY <1>1 DEF NamesUnique
<1> QED BY <1>1, StepNames DEF Next, vars, Arrive, Fail, Age

-----------------------------------------------------------------------------
(* The abstract account table, row by row.                                  *)
Account(i) == IF author[i] = None THEN None ELSE [name |-> author[i].name, active |-> author[i].tac]

(* A statement that keeps name and TAC of every row and the codes stutters. *)
LEMMA Stutter ==
  ASSUME \A i \in AuthorIds : Account(i)' = Account(i), issued' = issued
  PROVE  UNCHANGED Lifecycle!vars
  BY DEF Account, Lifecycle!vars

LEMMA WriteStutters ==
  ASSUME TypeInv, NEW rows, NEW v \in AuthorVals, WriteAuthorVals(rows, v),
         rows \subseteq {i \in AuthorIds : author[i] # None}
  PROVE  \A i \in AuthorIds : Account(i)' = Account(i)
<1> SUFFICES ASSUME NEW i \in AuthorIds PROVE Account(i)' = Account(i)
  OBVIOUS
<1>1. CASE i \notin rows
  BY <1>1 DEF WriteAuthorVals, Account
<1>2. CASE i \in rows
  <2>1. author[i] # None /\ author[i] \in AuthorRows /\ author'[i] = [author[i] EXCEPT !.vals = v]
    BY <1>2 DEF WriteAuthorVals, TypeInv, TypeOK
  <2>2. author'[i].name = author[i].name /\ author'[i].tac = author[i].tac /\ author'[i].vals = v
    BY <2>1 DEF AuthorRows
  <2>3. author'[i] # None
    BY <2>1, RowAssumption DEF AuthorRows
  <2> QED BY <2>1, <2>2, <2>3 DEF Account
<1> QED BY <1>1, <1>2

LEMMA RegisterMaps ==
  ASSUME TypeInv, NEW w \in Workers, RegisterInsert(w)
  PROVE  [Lifecycle!Next]_Lifecycle!vars
<1> DEFINE r == proc[w].req
<1>1. issued' = issued
  BY DEF RegisterInsert
<1>2. CASE author' = author
  BY <1>1, <1>2, Stutter DEF Account
<1>3. ASSUME NEW j \in AuthorIds, NameIsFree(r.nam), IsNextRowid(j, author),
             author' = [author EXCEPT ![j] = NewAuthor(r)]
      PROVE  Lifecycle!Next
  <2>1. r.nam \in Names /\ r.pwd \in Pwds
    BY ContextType DEF RegisterInsert, At, ContextOK, RegisterPCs, Requests
  <2>2. PICK n \in Names : n = r.nam
    BY <2>1
  <2>3. author[j] = None
    BY <1>3 DEF IsNextRowid, TypeInv, TypeOK, AuthorIds
  <2>4. author'[j] = NewAuthor(r) /\ \A i \in AuthorIds : i # j => author'[i] = author[i]
    BY <1>3 DEF TypeInv, TypeOK
  <2>5. author'[j] \in AuthorRows /\ author'[j].name = n /\ author'[j].tac = FALSE
    BY <2>1, <2>2, <2>4 DEF NewAuthor, AuthorRows, AuthorVals
  <2>6. Account(j)' = [name |-> n, active |-> FALSE]
    BY <2>5, RowAssumption DEF Account
  <2>7. \A i \in AuthorIds : i # j => Account(i)' = Account(i)
    BY <2>4 DEF Account
  <2>8. \A i \in AuthorIds : author[i] # None => author[i].name # n
    BY <1>3, <2>2 DEF NameIsFree, AuthorsByName
  <2>9. Lifecycle!Register(j, n)
    BY <1>1, <1>3, <2>3, <2>6, <2>7, <2>8 DEF Lifecycle!Register, Account
  <2> QED BY <1>3, <2>9 DEF Lifecycle!Next
<1> QED BY <1>2, <1>3 DEF RegisterInsert

LEMMA ActivateMaps ==
  ASSUME TypeInv, Confirmation, NamesUnique, NEW w \in Workers, ActivateColumn(w)
  PROVE  [Lifecycle!Next]_Lifecycle!vars
<1> DEFINE r == proc[w].req
<1>1. /\ issued' = issued
      /\ author' = [i \in AuthorIds |-> IF i \in AuthorsByName(r.nam)
                                        THEN [author[i] EXCEPT !.tac = TRUE] ELSE author[i]]
  BY DEF ActivateColumn
<1>2. r.code \in Codes
  BY ContextType DEF ActivateColumn, At, ContextOK, ActivatePCs, Requests
<1>3. PICK c \in Codes : c = r.code /\ c \in issued
  BY <1>2, NoneAssumption DEF Confirmation, ActivationConfirmed, ColumnCode, ActivateColumn
<1>4. CASE AuthorsByName(r.nam) = {}
  <2>1. \A i \in AuthorIds : Account(i)' = Account(i)
    BY <1>1, <1>4 DEF Account
  <2> QED BY <1>1, <2>1, Stutter
<1>5. ASSUME NEW j \in AuthorIds, j \in AuthorsByName(r.nam) PROVE Lifecycle!Next
  <2>1. j \in AuthorIds /\ author[j] # None /\ author[j] \in AuthorRows
    BY <1>5 DEF AuthorsByName, TypeInv, TypeOK
  <2>2. author'[j] = [author[j] EXCEPT !.tac = TRUE]
    BY <1>1, <1>5
  <2>3. author'[j] \in AuthorRows /\ author'[j].name = author[j].name /\ author'[j].tac = TRUE
    BY <2>1, <2>2 DEF AuthorRows
  <2>4. Account(j)' = [name |-> author[j].name, active |-> TRUE]
    BY <2>3, RowAssumption DEF Account
  <2>5. \A i \in AuthorIds : i # j => author'[i] = author[i]
    BY <1>1, <1>5 DEF AuthorsByName, NamesUnique
  <2>6. \A i \in AuthorIds : i # j => Account(i)' = Account(i)
    BY <2>5 DEF Account
  <2>7. Account(j) = [name |-> author[j].name, active |-> author[j].tac] /\ Account(j) # None
    <3>1. Account(j) \in AccountRecords
      BY <2>1 DEF Account, AccountRecords, AuthorRows
    <3> QED BY <2>1, <3>1, RowAssumption DEF Account
  <2>8. Lifecycle!Activate(j, c)
    BY <1>1, <1>3, <2>1, <2>4, <2>6, <2>7 DEF Lifecycle!Activate, Account
  <2> QED BY <1>5, <2>8 DEF Lifecycle!Next
<1> QED BY <1>4, <1>5 DEF AuthorsByName

LEMMA DeleteMaps ==
  ASSUME TypeInv, NEW w \in Workers, DeleteAuthor(w)
  PROVE  [Lifecycle!Next]_Lifecycle!vars
<1> DEFINE rows == AuthorsById(proc[w].req.id)
<1>1. /\ issued' = issued
      /\ author' = [i \in AuthorIds |-> IF i \in rows THEN None ELSE author[i]]
  BY DEF DeleteAuthor, DeleteAuthors
<1>2. CASE rows = {}
  <2>1. \A i \in AuthorIds : Account(i)' = Account(i)
    BY <1>1, <1>2 DEF Account
  <2> QED BY <1>1, <2>1, Stutter
<1>3. ASSUME NEW j \in AuthorIds, j \in rows PROVE Lifecycle!Next
  <2>1. author[j] # None /\ \A i \in AuthorIds : i \in rows <=> i = j
    BY <1>3 DEF AuthorsById
  <2>2. Account(j) # None
    <3>1. Account(j) \in AccountRecords
      BY <2>1 DEF Account, AccountRecords, AuthorRows, TypeInv, TypeOK
    <3> QED BY <3>1, RowAssumption
  <2>3. author'[j] = None /\ \A i \in AuthorIds : i # j => author'[i] = author[i]
    BY <1>1, <2>1
  <2>4. Account(j)' = None /\ \A i \in AuthorIds : i # j => Account(i)' = Account(i)
    BY <2>3 DEF Account
  <2>5. Lifecycle!Delete(j)
    BY <1>1, <1>3, <2>2, <2>4 DEF Lifecycle!Delete, Account
  <2> QED BY <1>3, <2>5 DEF Lifecycle!Next
<1> QED BY <1>2, <1>3 DEF AuthorsById

LEMMA ConfirmMaps ==
  ASSUME TypeInv, NEW w \in Workers, ConfirmWrite(w)
  PROVE  [Lifecycle!Next]_Lifecycle!vars
<1> DEFINE rows == AuthorsById(proc[w].req.id)
<1>1. PICK c \in Codes \ issued :
        /\ WriteAuthorVals(rows, [proc[w].avals EXCEPT !.code = c])
        /\ issued' = issued \cup {c}
  BY DEF ConfirmWrite
<1>2. [proc[w].avals EXCEPT !.code = c] \in AuthorVals
  BY ContextType DEF AuthorVals
<1>3. \A i \in AuthorIds : Account(i)' = Account(i)
  <2> DEFINE v == [proc[w].avals EXCEPT !.code = c]
  <2>1. /\ rows \subseteq {i \in AuthorIds : author[i] # None}
        /\ WriteAuthorVals(rows, v) /\ v \in AuthorVals
    BY <1>1, <1>2, RowSets
  <2> HIDE DEF rows, v
  <2> QED BY <2>1, WriteStutters
<1>4. Lifecycle!Approve(c)
  BY <1>1, <1>3 DEF Lifecycle!Approve, Account
<1> QED BY <1>1, <1>4 DEF Lifecycle!Next

(* The other read-modify-writes of VALS.                                    *)
LEMMA ValsStutter ==
  ASSUME TypeInv, NEW w \in Workers,
         LoginWrite(w) \/ ActivateWrite(w) \/ ActivateClear(w) \/ ChangeWrite(w)
  PROVE  UNCHANGED Lifecycle!vars
<1>1. issued' = issued
  BY DEF LoginWrite, ActivateWrite, ActivateClear, ChangeWrite, history
<1>2. /\ proc[w].avals \in AuthorVals
      /\ [proc[w].avals EXCEPT !.code = None] \in AuthorVals
      /\ [proc[w].avals EXCEPT !.pwd = proc[w].req.pwd] \in AuthorVals
  BY ContextType DEF AuthorVals, RequestRecords
<1>3. \A i \in AuthorIds : Account(i)' = Account(i)
  <2>1. CASE LoginWrite(w)
    BY <1>2, <2>1, WriteStutters, RowSets DEF LoginWrite
  <2>2. CASE ActivateWrite(w)
    BY <1>2, <2>2, WriteStutters, RowSets DEF ActivateWrite
  <2>3. CASE ActivateClear(w)
    BY <1>2, <2>3, WriteStutters, RowSets DEF ActivateClear
  <2>4. CASE ChangeWrite(w)
    BY <1>2, <2>4, WriteStutters, RowSets DEF ChangeWrite
  <2> QED BY <2>1, <2>2, <2>3, <2>4
<1> QED BY <1>1, <1>3, Stutter

LEMMA StepMaps ==
  ASSUME TypeInv, Confirmation, NamesUnique, NEW w \in Workers, Step(w)
  PROVE  [Lifecycle!Next]_Lifecycle!vars
<1>1. CASE LoginWrite(w) \/ ActivateWrite(w) \/ ActivateClear(w) \/ ChangeWrite(w)
  BY <1>1, ValsStutter
<1>2. CASE RegisterInsert(w)
  BY <1>2, RegisterMaps
<1>3. CASE ActivateColumn(w)
  BY <1>3, ActivateMaps
<1>4. CASE DeleteAuthor(w)
  BY <1>4, DeleteMaps
<1>5. CASE ConfirmWrite(w)
  BY <1>5, ConfirmMaps
<1>6. CASE UNCHANGED <<author, issued>>
  BY <1>6, Stutter DEF Account
<1> QED
  BY <1>1, <1>2, <1>3, <1>4, <1>5, <1>6
     DEF Step, history, CheckCookie, TouchSession, RegisterCheck, SelectExpired, ExpireSession,
         DrawCookie, InsertSession, GetSessionId, LoginCheck, LoginSelect, LoginRead, ActivateRead,
         ActivateReadAgain, ConfirmRead, ChangeCheck, ChangeRead, Logout, DeleteSession,
         DeleteAuthorChannels, DeleteAuthorSessions, FilterRead, FilterWrite, ServeChannel

LEMMA NextMaps ==
  TypeInv /\ Confirmation /\ NamesUnique /\ [Next]_vars => [Lifecycle!Next]_Lifecycle!vars
<1> SUFFICES ASSUME TypeInv, Confirmation, NamesUnique, [Next]_vars
             PROVE  [Lifecycle!Next]_Lifecycle!vars
  OBVIOUS
<1>1. CASE UNCHANGED <<author, issued>>
  BY <1>1, Stutter DEF Account
<1> QED BY <1>1, StepMaps DEF Next, Arrive, Fail, Age, history, vars

(* What the account actions promise: whatever statements of other requests  *)
(* come between, names stay unique and an account is activated only with a  *)
(* code some administrator generated.                                       *)
THEOREM AccountsImplement == Spec => ImplementsLifecycle
<1>1. Init => Confirmation /\ NamesUnique
  BY DEF Init, Confirmation, ActivationConfirmed, ColumnCode, At, Idle, NoAuthorVals, NamesUnique
<1>2. Init => Lifecycle!Init
  BY DEF Init, Lifecycle!Init
<1> QED
  BY <1>1, <1>2, InitType, NextType, NextConfirmation, NextNames, NextMaps, PTL
     DEF Spec, ImplementsLifecycle, Lifecycle!Spec
=============================================================================
