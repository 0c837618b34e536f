------------------------- MODULE AccountsSequential -------------------------
(***************************************************************************)
(* Requests answered one at a time: what Accounts promises of a row from   *)
(* one statement to the next when no statements of other requests come in  *)
(* between, however many requests are served and wherever they stop.  With *)
(* two processes each of these promises can be broken.                     *)
(***************************************************************************)
EXTENDS AccountsRefinement

OneProcess == \A v, w \in Workers : v = w

-----------------------------------------------------------------------------
(* The invariant.                                                           *)

(* A copy that is about to be written back is still what the row holds, the *)
(* sessions about to be swept are still old, and the account about to be    *)
(* activated is still the one whose code was compared.                      *)
Held == {"logWrite", "actWrite", "actClear", "chpWrite", "cnfWrite", "fltWrite", "expire", "actColumn"}
Fresh(c, A, S, R) ==
  /\ c.pc = "logWrite" =>
       \A i \in AuthorIds : i = c.who.aid /\ A[i] # None => A[i].vals = c.avals
  /\ c.pc \in {"actWrite", "actClear", "chpWrite"} =>
       \A i \in AuthorIds : A[i] # None /\ A[i].name = c.req.nam => A[i].vals = c.avals
  /\ c.pc = "cnfWrite" =>
       \A i \in AuthorIds : i = c.req.id /\ A[i] # None => A[i].vals = c.avals
  /\ c.pc = "fltWrite" =>
       \A s \in SessionIds : s = c.who.sid /\ S[s] # None => S[s].vals = c.svals
  /\ c.pc = "expire" => \A s \in c.sweep : S[s] # None => S[s].old
  /\ c.pc = "actColumn" =>
       \A i \in AuthorIds : A[i] # None /\ A[i].name = c.req.nam => i \in R
CopiesFresh == \A w \in Workers : Fresh(proc[w], author, session, reviewed)

(* Only ConfirmAuthor makes codes.                                          *)
CodesReviewed ==
  \A i \in AuthorIds : author[i] # None /\ author[i].vals.code # None => i \in reviewed

SeqInv == TypeInv /\ NamesUnique /\ CopiesFresh /\ CodesReviewed

LEMMA InitSeq == Init => SeqInv
<1> SUFFICES ASSUME Init PROVE SeqInv
  OBVIOUS
<1>1. CopiesFresh
  BY DEF Init, CopiesFresh, Fresh, Idle
<1>2. NamesUnique /\ CodesReviewed
  BY DEF Init, NamesUnique, CodesReviewed
<1> QED BY <1>1, <1>2, InitType DEF SeqInv

-----------------------------------------------------------------------------
(* Copies.                                                                  *)

LEMMA FreshOr ==
  ASSUME TypeInv, OneProcess, NEW w \in Workers, NEW c, Become(w, c), Fresh(c, author', session', reviewed')
  PROVE  CopiesFresh'
<1>1. Fresh(Idle, author', session', reviewed')
  BY DEF Fresh, Idle
<1>2. \A v \in Workers : proc'[v] \in {c, Idle}
  BY BecomeChange DEF OneProcess
<1> QED BY <1>1, <1>2 DEF CopiesFresh

(* Most statements lead to one that holds no copy.                          *)
LEMMA Elsewhere ==
  ASSUME TypeInv, OneProcess, NEW w \in Workers, NEW c, Become(w, c), c.pc \notin Held
  PROVE  CopiesFresh'
<1>1. Fresh(c, author', session', reviewed')
  BY DEF Fresh, Held
<1> QED BY <1>1, FreshOr

LEMMA GotoElsewhere ==
  ASSUME TypeInv, OneProcess, NEW w \in Workers, NEW pc, pc \notin Held, Goto(w, pc)
  PROVE  CopiesFresh'
<1> DEFINE c == [proc[w] EXCEPT !.pc = pc]
<1>1. c.pc = pc
  BY ContextType DEF Contexts
<1> QED BY <1>1, Elsewhere DEF Goto

LEMMA SetElsewhere ==
  ASSUME TypeInv, OneProcess, NEW w \in Workers, NEW pc, pc \notin Held, NEW v,
         \/ Become(w, [proc[w] EXCEPT !.who = v, !.pc = pc])
         \/ Become(w, [proc[w] EXCEPT !.avals = v, !.pc = pc])
         \/ Become(w, [proc[w] EXCEPT !.svals = v, !.pc = pc])
         \/ Become(w, [proc[w] EXCEPT !.sweep = v, !.pc = pc])
  PROVE  CopiesFresh'
<1>1. /\ [proc[w] EXCEPT !.who = v, !.pc = pc].pc = pc
      /\ [proc[w] EXCEPT !.avals = v, !.pc = pc].pc = pc
      /\ [proc[w] EXCEPT !.svals = v, !.pc = pc].pc = pc
      /\ [proc[w] EXCEPT !.sweep = v, !.pc = pc].pc = pc
  BY ContextType DEF Contexts
<1> QED BY <1>1, Elsewhere

(* The dispatch of main() leads to none of them.                            *)
LEMMA DispatchElsewhere ==
  ASSUME NEW r, NEW u
  PROVE  /\ Dispatch(r, u) \notin Held /\ Protected(r, u) \notin Held /\ Public(r, u) \notin Held
         /\ LoginStart(r) \notin Held /\ AfterSession(r, u) \notin Held /\ AfterDelete(u) \notin Held
<1>1. Dispatch(r, u) \notin Held /\ Protected(r, u) \notin Held /\ Public(r, u) \notin Held
  BY DispatchType, ProtectedType, PublicType DEF DispatchPCs, Held
<1>2. LoginStart(r) \notin Held /\ AfterDelete(u) \notin Held
  BY DEF LoginStart, AfterDelete, Held
<1> QED BY <1>1, <1>2 DEF AfterSession, Held

(* Rows found by id or by name are one row, and the copy is its column.     *)
LEMMA CopyOfRow ==
  ASSUME NamesUnique, NEW x, NEW rows \in {AuthorsById(x), AuthorsByName(x)}, NEW v \in AuthorCopies(rows)
  PROVE  \A i \in rows : author[i].vals = v
<1>1. \A i, j \in rows : i = j
  BY DEF NamesUnique, AuthorsById, AuthorsByName
<1> QED BY <1>1 DEF AuthorCopies

LEMMA ReadFresh ==
  ASSUME SeqInv, OneProcess, NEW w \in Workers,
         \/ LoginRead(w) \/ ActivateRead(w) \/ ActivateReadAgain(w) \/ ConfirmRead(w) \/ ChangeRead(w)
  PROVE  CopiesFresh'
<1>1. ASSUME NEW v, NEW pc, Become(w, [proc[w] EXCEPT !.avals = v, !.pc = pc]), UNCHANGED author,
             \/ /\ pc = "logWrite"
                /\ \A i \in AuthorsById(proc[w].who.aid) : author[i].vals = v
             \/ /\ pc \in {"actWrite", "actClear", "chpWrite"}
                /\ \A i \in AuthorsByName(proc[w].req.nam) : author[i].vals = v
             \/ /\ pc = "cnfWrite"
                /\ \A i \in AuthorsById(proc[w].req.id) : author[i].vals = v
      PROVE  CopiesFresh'
  <2> DEFINE c == [proc[w] EXCEPT !.avals = v, !.pc = pc]
  <2>1. c.pc = pc /\ c.avals = v /\ c.who = proc[w].who /\ c.req = proc[w].req
    BY ContextType DEF Contexts, SeqInv
  <2>2. Fresh(c, author', session', reviewed')
    BY <1>1, <2>1 DEF Fresh, AuthorsById, AuthorsByName
  <2> QED BY <1>1, <2>2, FreshOr DEF SeqInv
<1>2. CASE LoginRead(w)
  BY <1>1, <1>2, CopyOfRow DEF LoginRead, SeqInv
<1>3. CASE ActivateRead(w) \/ ActivateReadAgain(w) \/ ChangeRead(w)
  <2> DEFINE rows == AuthorsByName(proc[w].req.nam)
  <2>1. PICK v \in AuthorCopies(rows), pc \in {"actWrite", "actClear", "chpWrite"} :
          Become(w, [proc[w] EXCEPT !.avals = v, !.pc = pc]) /\ UNCHANGED author
    BY <1>3 DEF ActivateRead, ActivateReadAgain, ChangeRead
  <2>2. \A i \in rows : author[i].vals = v
    BY CopyOfRow DEF SeqInv
  <2> QED BY <1>1, <2>1, <2>2
<1>4. CASE ConfirmRead(w)
  BY <1>1, <1>4, CopyOfRow DEF ConfirmRead, SeqInv
<1> QED BY <1>2, <1>3, <1>4

LEMMA FilterFresh ==
  ASSUME SeqInv, OneProcess, NEW w \in Workers, FilterRead(w)
  PROVE  CopiesFresh'
<1>1. PICK v \in SessionCopies(SessionsById(proc[w].who.sid)) :
        Become(w, [proc[w] EXCEPT !.svals = v, !.pc = "fltWrite"])
  BY DEF FilterRead
<1> DEFINE c == [proc[w] EXCEPT !.svals = v, !.pc = "fltWrite"]
<1>2. c.pc = "fltWrite" /\ c.svals = v /\ c.who = proc[w].who
  BY ContextType DEF Contexts, SeqInv
<1>3. \A s \in SessionsById(proc[w].who.sid) : session[s].vals = v
  BY DEF SessionsById, SessionCopies
<1>4. Fresh(c, author', session', reviewed')
  BY <1>2, <1>3 DEF Fresh, SessionsById, FilterRead
<1> QED BY <1>1, <1>4, FreshOr DEF SeqInv

LEMMA SweepFresh ==
  ASSUME SeqInv, OneProcess, NEW w \in Workers, SelectExpired(w) \/ ExpireSession(w)
  PROVE  CopiesFresh'
<1>1. ASSUME NEW E, NEW pc \in {"draw", "expire"}, Become(w, [proc[w] EXCEPT !.sweep = E, !.pc = pc]),
             \A s \in E : session'[s] # None => session'[s].old
      PROVE  CopiesFresh'
  <2> DEFINE c == [proc[w] EXCEPT !.sweep = E, !.pc = pc]
  <2>1. c.pc = pc /\ c.sweep = E
    BY ContextType DEF Contexts, SeqInv
  <2>2. Fresh(c, author', session', reviewed')
    BY <1>1, <2>1 DEF Fresh
  <2> QED BY <1>1, <2>2, FreshOr DEF SeqInv
<1>2. CASE SelectExpired(w)
  <2> DEFINE E == {s \in SessionIds : session[s] # None /\ IsExpired(session[s])}
  <2>1. Become(w, [proc[w] EXCEPT !.sweep = E, !.pc = IF E = {} THEN "draw" ELSE "expire"])
    BY <1>2 DEF SelectExpired
  <2>2. \A s \in E : session'[s] # None => session'[s].old
    BY <1>2 DEF SelectExpired, IsExpired
  <2> QED BY <1>1, <2>1, <2>2
<1>3. CASE ExpireSession(w)
  <2>1. PICK s \in proc[w].sweep :
          /\ DeleteSessions(SessionsById(s))
          /\ Become(w, [proc[w] EXCEPT !.sweep = Remaining(proc[w].sweep, s),
                                       !.pc = IF Remaining(proc[w].sweep, s) = {} THEN "draw" ELSE "expire"])
    BY <1>3 DEF ExpireSession
  <2>2. \A t \in proc[w].sweep : session[t] # None => session[t].old
    BY <1>3 DEF ExpireSession, At, SeqInv, CopiesFresh, Fresh
  <2>3. proc[w].sweep \subseteq SessionIds
    BY ContextType DEF SeqInv
  <2>4. \A t \in Remaining(proc[w].sweep, s) : session'[t] # None => session'[t].old
    BY <2>1, <2>2, <2>3 DEF Remaining, DeleteSessions
  <2> QED BY <1>1, <2>1, <2>4
<1> QED BY <1>2, <1>3

(* The code that ActivateWrite compares is a code of the row, so somebody   *)
(* has reviewed the account.                                                *)
LEMMA ColumnFresh ==
  ASSUME SeqInv, OneProcess, NEW w \in Workers, ActivateWrite(w)
  PROVE  CopiesFresh'
<1> DEFINE r == proc[w].req
           v == proc[w].avals
<1>0. TypeInv /\ At(w, "actWrite")
  BY DEF ActivateWrite, SeqInv
<1>1. /\ WriteAuthorVals(AuthorsByName(r.nam), v)
      /\ Goto(w, IF CodeMatches(r.code, v.code) THEN "actColumn" ELSE "idle")
      /\ reviewed' = reviewed
  BY DEF ActivateWrite, history
<1>2. \A i \in AuthorsByName(r.nam) : author[i].vals = v
  BY <1>0 DEF At, SeqInv, CopiesFresh, Fresh, AuthorsByName
<1>3. CASE ~CodeMatches(r.code, v.code)
  BY <1>0, <1>1, <1>3, GotoElsewhere DEF Held
<1>4. CASE CodeMatches(r.code, v.code)
  <2> DEFINE c == [proc[w] EXCEPT !.pc = "actColumn"]
  <2>1. c.pc = "actColumn" /\ c.req = r
    BY <1>0, ContextType DEF Contexts
  <2>2. r.code \in Codes
    BY <1>0, ContextType DEF At, ContextOK, ActivatePCs, Requests
  <2>3. v.code # None
    BY <1>4, <2>2, NoneAssumption DEF CodeMatches
  <2>4. AuthorsByName(r.nam) \subseteq reviewed
    BY <1>2, <2>3 DEF SeqInv, CodesReviewed, AuthorsByName
  <2>5. \A i \in AuthorIds : author'[i] # None /\ author'[i].name = r.nam => i \in AuthorsByName(r.nam)
    <3>1. ASSUME NEW i \in AuthorIds, i \notin AuthorsByName(r.nam) PROVE author'[i] = author[i]
      BY <1>1, <3>1 DEF WriteAuthorVals
    <3> QED BY <3>1 DEF AuthorsByName
  <2>6. Fresh(c, author', session', reviewed')
    BY <1>1, <2>1, <2>4, <2>5 DEF Fresh, AuthorsByName
  <2> QED BY <1>0, <1>1, <1>4, <2>6, FreshOr DEF Goto
<1> QED BY <1>3, <1>4

LEMMA StepFresh ==
  ASSUME SeqInv, OneProcess, NEW w \in Workers, Step(w)
  PROVE  CopiesFresh'
<1>0. TypeInv
  BY DEF SeqInv
<1>1. CASE CheckCookie(w)
  <2>1. ASSUME NEW next, next \notin Held, CookieAccepted(w, next) \/ CookieRejected(w, next)
        PROVE  CopiesFresh'
    BY <1>0, <2>1, SetElsewhere, GotoElsewhere DEF CookieAccepted, CookieRejected
  <2>2. "touch" \notin Held /\ "retouch" \notin Held
    BY DEF Held
  <2> QED BY <1>1, <2>1, <2>2, DispatchElsewhere DEF CheckCookie
<1>2. CASE TouchSession(w) \/ ActivateClear(w) \/ DeleteAuthorChannels(w)
  BY <1>0, <1>2, GotoElsewhere, DispatchElsewhere DEF TouchSession, ActivateClear, DeleteAuthorChannels
<1>3. CASE GetSessionId(w)
  <2>1. ASSUME NEW u, Become(w, [proc[w] EXCEPT !.who = u, !.pc = AfterSession(proc[w].req, u)])
        PROVE  CopiesFresh'
    BY <1>0, <2>1, SetElsewhere, DispatchElsewhere
  <2>2. CASE Goto(w, "idle")
    BY <1>0, <2>2, GotoElsewhere DEF Held
  <2> QED BY <1>3, <2>1, <2>2 DEF GetSessionId
<1>4. CASE RegisterInsert(w) \/ DrawCookie(w) \/ InsertSession(w) \/ LoginSelect(w)
  <2>1. \A pc \in {"sweep", "idle", "insert", "getId", "logRead"} : pc \notin Held
    BY DEF Held
  <2>2. ASSUME NEW u, NEW pc \in {"sweep", "insert", "logRead"},
               Become(w, [proc[w] EXCEPT !.who = u, !.pc = pc])
        PROVE  CopiesFresh'
    BY <1>0, <2>1, <2>2, SetElsewhere
  <2>3. ASSUME NEW pc \in {"idle", "getId"}, Goto(w, pc) PROVE CopiesFresh'
    BY <1>0, <2>1, <2>3, GotoElsewhere
  <2> QED BY <1>4, <2>2, <2>3 DEF RegisterInsert, DrawCookie, InsertSession, LoginSelect
<1>5. CASE \/ RegisterCheck(w) \/ LoginCheck(w) \/ LoginWrite(w) \/ ActivateColumn(w) \/ ConfirmWrite(w)
           \/ ChangeCheck(w) \/ ChangeWrite(w) \/ Logout(w) \/ DeleteSession(w) \/ DeleteAuthor(w)
           \/ DeleteAuthorSessions(w) \/ FilterWrite(w) \/ ServeChannel(w)
  <2>1. \E pc \in {"idle", "regInsert", "login2", "sweep", "actRead2", "chpRead", "delChannels"} : Goto(w, pc)
    BY <1>5 DEF RegisterCheck, LoginCheck, LoginWrite, ActivateColumn, ConfirmWrite, ChangeCheck,
                ChangeWrite, Logout, DeleteSession, DeleteAuthor, DeleteAuthorSessions, FilterWrite,
                ServeChannel
  <2> QED BY <1>0, <2>1, GotoElsewhere DEF Held
<1> QED
  BY <1>1, <1>2, <1>3, <1>4, <1>5, ReadFresh, FilterFresh, SweepFresh, ColumnFresh DEF Step

-----------------------------------------------------------------------------
(* Rows.                                                                    *)

(* What a statement of worker w may do to a row that stays or appears.      *)
RowStep(i, w) ==
  author'[i] # None =>
    IF author[i] = None THEN author'[i].vals.code = None
    ELSE /\ \/ author'[i].vals.pwd = author[i].vals.pwd
            \/ /\ At(w, "chpWrite") /\ proc[w].req.nam = author[i].name
               /\ author'[i].vals.pwd = proc[w].req.pwd
         /\ \/ author'[i].vals.code = author[i].vals.code
            \/ At(w, "cnfWrite") /\ proc[w].req.id = i /\ i \in reviewed'
            \/ /\ At(w, "actClear") /\ proc[w].req.nam = author[i].name
               /\ author'[i].vals.code = None
         /\ author'[i].tac /\ ~author[i].tac => i \in reviewed
         /\ i \in reviewed => i \in reviewed'

LEMMA RowWritten ==
  ASSUME TypeInv, NEW rows, NEW v \in AuthorVals, WriteAuthorVals(rows, v), NEW i \in AuthorIds
  PROVE  /\ i \notin rows => author'[i] = author[i]
         /\ i \in rows /\ author[i] # None => author'[i].vals = v /\ author'[i].tac = author[i].tac
<1>1. CASE i \in rows /\ author[i] # None
  <2>1. author[i] \in AuthorRows /\ author'[i] = [author[i] EXCEPT !.vals = v]
    BY <1>1 DEF TypeInv, TypeOK, WriteAuthorVals
  <2> QED BY <1>1, <2>1 DEF AuthorRows
<1>2. CASE i \notin rows
  BY <1>2 DEF WriteAuthorVals
<1> QED BY <1>1, <1>2

LEMMA WriteRow ==
  ASSUME SeqInv, NEW w \in Workers, NEW i \in AuthorIds,
         \/ LoginWrite(w) \/ ActivateWrite(w) \/ ActivateClear(w) \/ ConfirmWrite(w) \/ ChangeWrite(w)
  PROVE  RowStep(i, w)
<1> DEFINE v == proc[w].avals
           r == proc[w].req
<1>0. TypeInv /\ Fresh(proc[w], author, session, reviewed) /\ v \in AuthorVals
  BY ContextType DEF SeqInv, CopiesFresh
<1>1. CASE LoginWrite(w)
  <2>1. i \in AuthorsById(proc[w].who.aid) => author[i].vals = v
    BY <1>0, <1>1 DEF LoginWrite, At, Fresh, AuthorsById
  <2> QED BY <1>0, <1>1, <2>1, RowWritten, RowSets DEF LoginWrite, history, RowStep
<1>2. CASE ActivateWrite(w)
  <2>1. i \in AuthorsByName(r.nam) => author[i].vals = v
    BY <1>0, <1>2 DEF ActivateWrite, At, Fresh, AuthorsByName
  <2> QED BY <1>0, <1>2, <2>1, RowWritten, RowSets DEF ActivateWrite, history, RowStep
<1>3. CASE ActivateClear(w)
  <2>1. i \in AuthorsByName(r.nam) => author[i].vals = v /\ author[i].name = r.nam
    BY <1>0, <1>3 DEF ActivateClear, At, Fresh, AuthorsByName
  <2>2. PICK u \in AuthorVals : u = [v EXCEPT !.code = None] /\ u.pwd = v.pwd /\ u.code = None
    <3>1. [v EXCEPT !.code = None] \in AuthorVals /\ [v EXCEPT !.code = None].pwd = v.pwd /\ [v EXCEPT !.code = None].code = None
      BY <1>0 DEF AuthorVals
    <3> QED BY <3>1
  <2>3. WriteAuthorVals(AuthorsByName(r.nam), u) /\ At(w, "actClear") /\ reviewed' = reviewed
    BY <1>3, <2>2 DEF ActivateClear, history
  <2>5. /\ i \notin AuthorsByName(r.nam) => author'[i] = author[i]
        /\ i \in AuthorsByName(r.nam) /\ author[i] # None =>
             author'[i].vals = u /\ author'[i].tac = author[i].tac
    BY <1>0, <2>1, <2>2, <2>3, RowWritten
  <2>6. i \in AuthorsByName(r.nam) => author[i] # None
    BY RowSets
  <2> QED BY <2>1, <2>2, <2>3, <2>5, <2>6 DEF RowStep
<1>4. CASE ConfirmWrite(w)
  <2>1. i \in AuthorsById(r.id) => author[i].vals = v /\ i = r.id
    BY <1>0, <1>4 DEF ConfirmWrite, At, Fresh, AuthorsById
  <2>2. PICK c \in Codes : WriteAuthorVals(AuthorsById(r.id), [v EXCEPT !.code = c])
    BY <1>4 DEF ConfirmWrite
  <2>3. PICK u \in AuthorVals : u = [v EXCEPT !.code = c] /\ u.pwd = v.pwd
    <3>1. [v EXCEPT !.code = c] \in AuthorVals /\ [v EXCEPT !.code = c].pwd = v.pwd
      BY <1>0 DEF AuthorVals
    <3> QED BY <3>1
  <2>4. /\ WriteAuthorVals(AuthorsById(r.id), u) /\ At(w, "cnfWrite")
        /\ reviewed' = reviewed \cup AuthorsById(r.id)
    BY <1>4, <2>2, <2>3 DEF ConfirmWrite
  <2>5. /\ i \notin AuthorsById(r.id) => author'[i] = author[i]
        /\ i \in AuthorsById(r.id) /\ author[i] # None =>
             author'[i].vals = u /\ author'[i].tac = author[i].tac
    BY <1>0, <2>1, <2>3, <2>4, RowWritten
  <2>6. i \in AuthorsById(r.id) => author[i] # None
    BY RowSets
  <2> QED BY <2>1, <2>3, <2>4, <2>5, <2>6 DEF RowStep
<1>5. CASE ChangeWrite(w)
  <2>1. i \in AuthorsByName(r.nam) => author[i].vals = v /\ author[i].name = r.nam
    BY <1>0, <1>5 DEF ChangeWrite, At, Fresh, AuthorsByName
  <2>2. PICK u \in AuthorVals : u = [v EXCEPT !.pwd = r.pwd] /\ u.pwd = r.pwd /\ u.code = v.code
    <3>1. [v EXCEPT !.pwd = r.pwd] \in AuthorVals /\ [v EXCEPT !.pwd = r.pwd].pwd = r.pwd /\ [v EXCEPT !.pwd = r.pwd].code = v.code
      BY <1>0, ContextType DEF AuthorVals, RequestRecords
    <3> QED BY <3>1
  <2>3. WriteAuthorVals(AuthorsByName(r.nam), u) /\ At(w, "chpWrite") /\ reviewed' = reviewed
    BY <1>5, <2>2 DEF ChangeWrite, history
  <2>5. /\ i \notin AuthorsByName(r.nam) => author'[i] = author[i]
        /\ i \in AuthorsByName(r.nam) /\ author[i] # None =>
             author'[i].vals = u /\ author'[i].tac = author[i].tac
    BY <1>0, <2>1, <2>2, <2>3, RowWritten
  <2>6. i \in AuthorsByName(r.nam) => author[i] # None
    BY RowSets
  <2> QED BY <2>1, <2>2, <2>3, <2>5, <2>6 DEF RowStep
<1> QED BY <1>1, <1>2, <1>3, <1>4, <1>5

LEMMA StepRow ==
  ASSUME SeqInv, NEW w \in Workers, Step(w), NEW i \in AuthorIds
  PROVE  RowStep(i, w)
<1>0. TypeInv
  BY DEF SeqInv
<1>1. CASE RegisterInsert(w)
  <2>1. CASE UNCHANGED <<author, reviewed>>
    BY <2>1 DEF RowStep
  <2>2. ASSUME NEW j \in AuthorIds, IsNextRowid(j, author),
               author' = [author EXCEPT ![j] = NewAuthor(proc[w].req)], reviewed' = reviewed \ {j}
        PROVE  RowStep(i, w)
    <3>1. author[j] = None
      BY <1>0, <2>2 DEF IsNextRowid, TypeInv, TypeOK, AuthorIds
    <3>2. author'[i] = IF i = j THEN NewAuthor(proc[w].req) ELSE author[i]
      BY <1>0, <2>2 DEF TypeInv, TypeOK
    <3> QED BY <2>2, <3>1, <3>2 DEF RowStep, NewAuthor
  <2> QED BY <1>1, <2>1, <2>2 DEF RegisterInsert
<1>2. CASE ActivateColumn(w)
  <2>1. CASE i \notin AuthorsByName(proc[w].req.nam)
    BY <1>2, <2>1 DEF ActivateColumn, RowStep
  <2>2. CASE i \in AuthorsByName(proc[w].req.nam)
    <3>1. i \in reviewed
      BY <1>2, <2>2 DEF ActivateColumn, At, SeqInv, CopiesFresh, Fresh, AuthorsByName
    <3>2. author[i] \in AuthorRows /\ author'[i] = [author[i] EXCEPT !.tac = TRUE]
      BY <1>0, <1>2, <2>2 DEF ActivateColumn, AuthorsByName, TypeInv, TypeOK
    <3>3. author'[i].vals = author[i].vals
      BY <3>2 DEF AuthorRows
    <3> QED BY <1>2, <2>2, <3>1, <3>3 DEF ActivateColumn, RowStep, AuthorsByName
  <2> QED BY <2>1, <2>2
<1>3. CASE DeleteAuthor(w)
  BY <1>3 DEF DeleteAuthor, DeleteAuthors, RowStep
<1>4. CASE UNCHANGED <<author, reviewed>>
  BY <1>4 DEF RowStep
<1> QED
  BY <1>1, <1>2, <1>3, <1>4, WriteRow
     DEF Step, history, CheckCookie, TouchSession, RegisterCheck, SelectExpired, ExpireSession,
         DrawCookie, InsertSession, GetSessionId, LoginCheck, LoginSelect, LoginRead, ActivateRead,
         ActivateReadAgain, ConfirmRead, ChangeCheck, ChangeRead, Logout, DeleteSession,
         DeleteAuthorChannels, DeleteAuthorSessions, FilterRead, FilterWrite, ServeChannel

(* The id of a session row, its name and activation time go together.       *)
LEMMA StepSessionRow ==
  ASSUME SeqInv, NEW w \in Workers, Step(w), NEW s \in SessionIds,
         session[s] # None, session'[s] # None
  PROVE  session'[s].vals = session[s].vals
<1>0. TypeInv /\ session[s] \in SessionRows
  BY DEF SeqInv, TypeInv, TypeOK
<1>1. CASE TouchSession(w)
  <2>1. session'[s] \in {session[s], [session[s] EXCEPT !.old = FALSE]}
    BY <1>1 DEF TouchSession, Refreshed
  <2> QED BY <1>0, <2>1 DEF SessionRows
<1>2. CASE InsertSession(w)
  <2>1. CASE UNCHANGED session
    BY <2>1
  <2>2. ASSUME NEW t \in SessionIds, IsNextRowid(t, session),
               session' = [session EXCEPT ![t] = NewSession(proc[w].who)]
        PROVE  session'[s].vals = session[s].vals
    <3>1. session[t] = None
      BY <1>0, <2>2 DEF IsNextRowid, TypeInv, TypeOK, SessionIds
    <3> QED BY <1>0, <2>2, <3>1 DEF TypeInv, TypeOK
  <2> QED BY <1>2, <2>1, <2>2 DEF InsertSession
<1>3. CASE FilterWrite(w)
  <2>1. CASE s \notin SessionsById(proc[w].who.sid)
    BY <1>3, <2>1 DEF FilterWrite, WriteSessionVals
  <2>2. CASE s \in SessionsById(proc[w].who.sid)
    <3>1. session[s].vals = proc[w].svals
      BY <1>3, <2>2 DEF FilterWrite, At, SeqInv, CopiesFresh, Fresh, SessionsById
    <3>2. session'[s] = [session[s] EXCEPT !.vals = proc[w].svals]
      BY <1>3, <2>2 DEF FilterWrite, WriteSessionVals
    <3> QED BY <1>0, <3>1, <3>2 DEF SessionRows
  <2> QED BY <2>1, <2>2
<1>4. CASE \E rows : DeleteSessions(rows)
  BY <1>4 DEF DeleteSessions
<1>5. CASE UNCHANGED session
  BY <1>5
<1> QED
  BY <1>1, <1>2, <1>3, <1>4, <1>5
     DEF Step, CheckCookie, RegisterCheck, RegisterInsert, SelectExpired, ExpireSession, DrawCookie,
         GetSessionId, LoginCheck, LoginSelect, LoginRead, LoginWrite, ActivateRead, ActivateWrite,
         ActivateColumn, ActivateReadAgain, ActivateClear, ConfirmRead, ConfirmWrite, ChangeCheck,
         ChangeRead, ChangeWrite, Logout, DeleteSession, DeleteAuthor, DeleteAuthorChannels,
         DeleteAuthorSessions, FilterRead, ServeChannel

-----------------------------------------------------------------------------
(* Every step keeps the invariant.                                          *)

LEMMA NextSeq == ASSUME OneProcess, SeqInv, [Next]_vars PROVE SeqInv'
<1>0. TypeInv /\ NamesUnique
  BY DEF SeqInv
<1>1. TypeInv' /\ NamesUnique'
  BY <1>0, NextType, NextNames
<1>2. ASSUME NEW w \in Workers, Step(w) PROVE CopiesFresh' /\ CodesReviewed'
  <2>1. \A i \in AuthorIds : RowStep(i, w)
    BY <1>2, StepRow
  <2>2. CodesReviewed'
    BY <2>1 DEF SeqInv, CodesReviewed, RowStep
  <2> QED BY <1>2, <2>2, StepFresh
<1>3. ASSUME NEW w \in Workers, Arrive(w) PROVE CopiesFresh' /\ CodesReviewed'
  <2>1. PICK r : Become(w, [Idle EXCEPT !.req = r,
                                        !.pc = IF r.cok # None THEN "cookie" ELSE Public(r, NoUser)])
    BY <1>3 DEF Arrive
  <2> DEFINE pc == IF r.cok # None THEN "cookie" ELSE Public(r, NoUser)
  <2>2. [Idle EXCEPT !.req = r, !.pc = pc].pc = pc
    BY DEF Idle
  <2>3. pc \notin Held
    BY DispatchElsewhere DEF Held
  <2>4. CopiesFresh'
    BY <1>0, <2>1, <2>2, <2>3, Elsewhere
  <2> QED BY <1>3, <2>4 DEF Arrive, history, SeqInv, CodesReviewed
<1>4. ASSUME NEW w \in Workers, Fail(w) PROVE CopiesFresh' /\ CodesReviewed'
  <2>1. CopiesFresh'
    BY <1>0, <1>4, GotoElsewhere DEF Fail, Held
  <2> QED BY <1>4, <2>1 DEF Fail, history, SeqInv, CodesReviewed
<1>5. ASSUME NEW t \in SessionIds, Age(t) PROVE CopiesFresh' /\ CodesReviewed'
  <2>1. ASSUME NEW s \in SessionIds, session'[s] # None
        PROVE  /\ session[s] # None /\ session'[s].vals = session[s].vals
               /\ session[s].old => session'[s].old
    <3>1. session[s] # None /\ session[s] \in SessionRows
      BY <1>0, <1>5, <2>1 DEF Age, TypeInv, TypeOK
    <3>2. session'[s] \in {session[s], [session[s] EXCEPT !.old = TRUE]}
      BY <1>0, <1>5 DEF Age, TypeInv, TypeOK
    <3> QED BY <3>1, <3>2 DEF SessionRows
  <2>2. \A w \in Workers : proc[w].sweep \subseteq SessionIds
    BY <1>0, ContextType
  <2>3. UNCHANGED <<author, proc, reviewed>>
    BY <1>5 DEF Age, history
  <2>4. ASSUME NEW w \in Workers PROVE Fresh(proc'[w], author', session', reviewed')
    <3>1. Fresh(proc[w], author, session, reviewed)
      BY DEF SeqInv, CopiesFresh
    <3> QED BY <2>1, <2>2, <2>3, <3>1 DEF Fresh
  <2> QED BY <2>3, <2>4 DEF SeqInv, CopiesFresh, CodesReviewed
<1>6. CASE UNCHANGED vars
  BY <1>6 DEF vars, history, SeqInv, CopiesFresh, CodesReviewed, TypeInv, TypeOK, ProcOK, NamesUnique
<1>7. CopiesFresh' /\ CodesReviewed'
  BY <1>2, <1>3, <1>4, <1>5, <1>6 DEF Next, SeqInv
<1> QED BY <1>1, <1>7 DEF SeqInv

LEMMA SeqInvHolds == ASSUME OneProcess PROVE Spec => []SeqInv
BY InitSeq, NextSeq, PTL DEF Spec

-----------------------------------------------------------------------------
(* The promises.                                                            *)

(* Who is served by one process at a time finds his password as he set it:   *)
(* no read-modify-write of VALS, of the login, of Activate or of             *)
(* ConfirmAuthor, brings back another one.                                  *)
THEOREM PasswordsStick == ASSUME OneProcess PROVE Spec => PasswordSticks
<1>1. SeqInv /\ [Next]_vars =>
        [\A i \in AuthorIds : SameAuthor(i) /\ author'[i].vals.pwd # author[i].vals.pwd
           => \E w \in Workers : At(w, "chpWrite") /\ proc[w].req.nam = author[i].name
                                /\ proc[w].req.pwd = author'[i].vals.pwd]_vars
  <2> SUFFICES ASSUME SeqInv, Next, NEW i \in AuthorIds, SameAuthor(i),
                      author'[i].vals.pwd # author[i].vals.pwd
               PROVE  \E w \in Workers : At(w, "chpWrite") /\ proc[w].req.nam = author[i].name
                                        /\ proc[w].req.pwd = author'[i].vals.pwd
    OBVIOUS
  <2>1. PICK w \in Workers : Step(w)
    BY DEF Next, Arrive, Fail, Age
  <2>2. RowStep(i, w)
    BY <2>1, StepRow
  <2> QED BY <2>2 DEF RowStep, SameAuthor
<1> QED BY <1>1, SeqInvHolds, PTL DEF Spec, PasswordSticks

(* A code sent to an author is the code stored until he uses it or an        *)
(* administrator makes another: no write-back of VALS by ConfirmAuthor, by   *)
(* Activate or by the login brings back an older one.                        *)
THEOREM CodesStick == ASSUME OneProcess PROVE Spec => CodeSticks
<1>1. SeqInv /\ [Next]_vars =>
        [\A i \in AuthorIds : SameAuthor(i) /\ author'[i].vals.code # author[i].vals.code
           => \E w \in Workers : \/ At(w, "cnfWrite") /\ proc[w].req.id = i
                                \/ /\ At(w, "actClear") /\ proc[w].req.nam = author[i].name
                                   /\ author'[i].vals.code = None]_vars
  <2> SUFFICES ASSUME SeqInv, Next, NEW i \in AuthorIds, SameAuthor(i),
                      author'[i].vals.code # author[i].vals.code
               PROVE  \E w \in Workers : \/ At(w, "cnfWrite") /\ proc[w].req.id = i
                                        \/ /\ At(w, "actClear") /\ proc[w].req.nam = author[i].name
                                           /\ author'[i].vals.code = None
    OBVIOUS
  <2>1. PICK w \in Workers : Step(w)
    BY DEF Next, Arrive, Fail, Age
  <2>2. RowStep(i, w)
    BY <2>1, StepRow
  <2> QED BY <2>2 DEF RowStep, SameAuthor
<1> QED BY <1>1, SeqInvHolds, PTL DEF Spec, CodeSticks

(* Activate sets TAC by name, two statements after it compared the code: the *)
(* row it finds then is the one an administrator reviewed, not a later       *)
(* account that took the name or the row id.                                 *)
THEOREM ActivatesReviewedOnly == ASSUME OneProcess PROVE Spec => ActivatesReviewed
<1>1. SeqInv /\ [Next]_vars =>
        [\A i \in AuthorIds : SameAuthor(i) /\ author'[i].tac /\ ~author[i].tac => i \in reviewed]_vars
  <2> SUFFICES ASSUME SeqInv, Next, NEW i \in AuthorIds, SameAuthor(i), author'[i].tac, ~author[i].tac
               PROVE  i \in reviewed
    OBVIOUS
  <2>1. PICK w \in Workers : Step(w)
    BY DEF Next, Arrive, Fail, Age
  <2>2. RowStep(i, w)
    BY <2>1, StepRow
  <2> QED BY <2>2 DEF RowStep, SameAuthor
<1> QED BY <1>1, SeqInvHolds, PTL DEF Spec, ActivatesReviewed

(* The filters are stored by reading VALS of the session row with that id    *)
(* and writing it back: the row still is the one that was read, so the name  *)
(* and the activation time in VALS, from which the next request takes its    *)
(* rights, are never those of another session.                               *)
THEOREM SessionsKeepIdentity == ASSUME OneProcess PROVE Spec => SessionKeepsIdentity
<1>1. SeqInv /\ [Next]_vars =>
        [\A s \in SessionIds : SameSession(s) => session'[s].vals = session[s].vals]_vars
  <2> SUFFICES ASSUME SeqInv, Next, NEW s \in SessionIds, SameSession(s)
               PROVE  session'[s].vals = session[s].vals
    OBVIOUS
  <2>1. CASE \E w \in Workers : Step(w)
    BY <2>1, StepSessionRow DEF SameSession
  <2>2. CASE \E w \in Workers : Arrive(w) \/ Fail(w)
    BY <2>2 DEF Arrive, Fail
  <2>3. ASSUME NEW t \in SessionIds, Age(t)
        PROVE  session'[s].vals = session[s].vals
    <3>1. session \in [SessionIds -> SessionRows \cup {None}]
      BY DEF SeqInv, TypeInv, TypeOK
    <3>2. session[s] \in SessionRows /\ session'[s] \in {session[s], [session[s] EXCEPT !.old = TRUE]}
      BY <2>3, <3>1 DEF Age, SameSession
    <3> QED BY <3>2 DEF SessionRows
  <2> QED BY <2>1, <2>2, <2>3 DEF Next
<1> QED BY <1>1, SeqInvHolds, PTL DEF Spec, SessionKeepsIdentity

(* The sweep selects the ids of the expired sessions once and deletes them   *)
(* by id one after the other: none has become the id of a live session       *)
(* before its turn.                                                          *)
THEOREM SweepSparesLiveSessions == ASSUME OneProcess PROVE Spec => SweepSparesLive
<1>1. SeqInv /\ [Next]_vars =>
        [\A w \in Workers, s \in SessionIds :
           At(w, "expire") /\ ExpireSession(w) /\ session[s] # None /\ session'[s] = None
             => session[s].old]_vars
  <2> SUFFICES ASSUME SeqInv, NEW w \in Workers, NEW s \in SessionIds,
                      At(w, "expire"), ExpireSession(w), session[s] # None, session'[s] = None
               PROVE  session[s].old
    OBVIOUS
  <2>1. PICK t \in proc[w].sweep : DeleteSessions(SessionsById(t))
    BY DEF ExpireSession
  <2>2. s = t
    BY <2>1 DEF DeleteSessions, SessionsById
  <2>3. Fresh(proc[w], author, session, reviewed)
    BY DEF SeqInv, CopiesFresh
  <2> QED BY <2>1, <2>2, <2>3 DEF Fresh, At
<1> QED BY <1>1, SeqInvHolds, PTL DEF Spec, SweepSparesLive
=============================================================================
