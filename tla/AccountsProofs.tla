--------------------------- MODULE AccountsProofs ---------------------------
(* Proofs about Accounts, for every number of processes, names, codes,     *)
(* cookies and row ids: its types and its invariants.                      *)
EXTENDS Accounts, TLAPS

RegisterPCs == {"regCheck", "regInsert"}
ActivatePCs == {"actRead", "actWrite", "actColumn", "actRead2", "actClear"}
SessionPCs  == {"sweep", "expire", "draw", "insert", "getId"}

(* What a request at a given statement carries.                            *)
ContextOK(c) ==
  /\ c.pc # "idle" => c.req \in Requests
  /\ c.pc \in RegisterPCs => c.req.act = "Register"
  /\ c.pc \in ActivatePCs => c.req.act = "Activate"
  /\ c.pc \in SessionPCs \cup {"logRead", "logWrite"} => c.who.aid \in AuthorIds /\ c.who.name \in Names
  /\ c.pc \in {"insert", "getId"} => c.who.cok \in Cookies

ProcOK == proc \in [Workers -> Contexts] /\ \A w \in Workers : ContextOK(proc[w])
TypeInv == TypeOK /\ ProcOK

DispatchPCs == {"idle", "logout", "chpCheck", "chpRead", "delAuthor", "channel", "cnfRead",
                "delSession"}

LEMMA DispatchType == ASSUME NEW r, NEW u PROVE Dispatch(r, u) \in DispatchPCs
  BY DEF Dispatch, DispatchPCs, ChangePasswordStart

LEMMA ProtectedType ==
  ASSUME NEW r, NEW u PROVE Protected(r, u) \in DispatchPCs \cup {"recheck", "login"}
  BY DispatchType DEF Protected, LoginStart, DispatchPCs

(* Only Register and Activate requests reach the statements of their own.  *)
LEMMA PublicType ==
  ASSUME NEW r, NEW u
  PROVE  /\ Public(r, u) \in DispatchPCs \cup {"recheck", "login", "regCheck", "actRead", "fltRead"}
         /\ Public(r, u) = "regCheck" => r.act = "Register"
         /\ Public(r, u) = "actRead" => r.act = "Activate"
  BY ProtectedType DEF Public, DispatchPCs

LEMMA RequestsType == Requests \subseteq RequestRecords
  BY DEF Requests, RequestRecords, AllActs, Ids

LEMMA IdleType == Idle \in Contexts /\ ContextOK(Idle)
  BY DEF Idle, Contexts, ContextOK, PCs, NoRequest, NoUser, NoAuthorVals, NoSessionVals,
         RequestRecords, Users, AuthorVals, SessionVals, AllActs, RegisterPCs, ActivatePCs, SessionPCs

(* A process moves to a well-formed context, or exits.                     *)
LEMMA BecomeType ==
  ASSUME TypeInv, NEW w \in Workers, NEW c, Become(w, c),
         c.pc # "idle" => c \in Contexts /\ ContextOK(c)
  PROVE  ProcOK'
  BY IdleType DEF Become, TypeInv, TypeOK, ProcOK

LEMMA ContextType ==
  ASSUME TypeInv, NEW w \in Workers
  PROVE  /\ proc[w] \in Contexts /\ ContextOK(proc[w])
         /\ proc[w].pc \in PCs /\ proc[w].req \in RequestRecords /\ proc[w].who \in Users
         /\ proc[w].avals \in AuthorVals /\ proc[w].svals \in SessionVals
         /\ proc[w].sweep \subseteq SessionIds
  BY DEF TypeInv, TypeOK, ProcOK, Contexts

(* What a statement needs of the request and the user.                      *)
Needs(pc, r, u) ==
  /\ pc \in RegisterPCs => r.act = "Register"
  /\ pc \in ActivatePCs => r.act = "Activate"
  /\ pc \in SessionPCs \cup {"logRead", "logWrite"} => u.aid \in AuthorIds /\ u.name \in Names
  /\ pc \in {"insert", "getId"} => u.cok \in Cookies

(* A process moves on with the request it serves; the lemmas that follow    *)
(* say so for each part of the context a statement changes.                 *)
LEMMA MoveType ==
  ASSUME TypeInv, NEW w \in Workers, ~At(w, "idle"), NEW c, Become(w, c),
         c \in Contexts, c.req = proc[w].req, Needs(c.pc, c.req, c.who)
  PROVE  ProcOK'
<1>1. proc[w].req \in Requests
  BY ContextType DEF ContextOK, At
<1>2. ContextOK(c)
  BY <1>1 DEF ContextOK, Needs
<1> QED BY <1>2, BecomeType

LEMMA GotoType ==
  ASSUME TypeInv, NEW w \in Workers, ~At(w, "idle"), NEW pc \in PCs, Goto(w, pc),
         Needs(pc, proc[w].req, proc[w].who)
  PROVE  ProcOK'
<1> DEFINE c == [proc[w] EXCEPT !.pc = pc]
<1>1. c \in Contexts /\ c.pc = pc /\ c.req = proc[w].req /\ c.who = proc[w].who
  BY ContextType DEF Contexts
<1> QED BY <1>1, MoveType DEF Goto

LEMMA UserType ==
  ASSUME TypeInv, NEW w \in Workers, ~At(w, "idle"), NEW pc \in PCs, NEW u \in Users,
         Become(w, [proc[w] EXCEPT !.who = u, !.pc = pc]), Needs(pc, proc[w].req, u)
  PROVE  ProcOK'
<1> DEFINE c == [proc[w] EXCEPT !.who = u, !.pc = pc]
<1>1. c \in Contexts /\ c.pc = pc /\ c.req = proc[w].req /\ c.who = u
  BY ContextType DEF Contexts
<1> QED BY <1>1, MoveType

LEMMA CopyType ==
  ASSUME TypeInv, NEW w \in Workers, ~At(w, "idle"), NEW pc \in PCs, NEW n, NEW v \in AuthorCopies(n),
         n \subseteq {i \in AuthorIds : author[i] # None},
         Become(w, [proc[w] EXCEPT !.avals = v, !.pc = pc]), Needs(pc, proc[w].req, proc[w].who)
  PROVE  ProcOK'
<1> DEFINE c == [proc[w] EXCEPT !.avals = v, !.pc = pc]
<1>1. NoAuthorVals \in AuthorVals
  BY DEF NoAuthorVals, AuthorVals
<1>2. \A i \in n : author[i].vals \in AuthorVals
  BY DEF TypeInv, TypeOK, AuthorRows
<1>3. v \in AuthorVals
  BY <1>1, <1>2 DEF AuthorCopies
<1>4. c \in Contexts /\ c.pc = pc /\ c.req = proc[w].req /\ c.who = proc[w].who
  BY <1>3, ContextType DEF Contexts
<1> QED BY <1>4, MoveType

LEMMA SessionCopyType ==
  ASSUME TypeInv, NEW w \in Workers, ~At(w, "idle"), NEW pc \in PCs, NEW n, NEW v \in SessionCopies(n),
         n \subseteq {s \in SessionIds : session[s] # None},
         Become(w, [proc[w] EXCEPT !.svals = v, !.pc = pc]), Needs(pc, proc[w].req, proc[w].who)
  PROVE  ProcOK'
<1> DEFINE c == [proc[w] EXCEPT !.svals = v, !.pc = pc]
<1>1. NoSessionVals \in SessionVals
  BY DEF NoSessionVals, SessionVals
<1>2. \A s \in n : session[s].vals \in SessionVals
  BY DEF TypeInv, TypeOK, SessionRows
<1>3. v \in SessionVals
  BY <1>1, <1>2 DEF SessionCopies
<1>4. c \in Contexts /\ c.pc = pc /\ c.req = proc[w].req /\ c.who = proc[w].who
  BY <1>3, ContextType DEF Contexts
<1> QED BY <1>4, MoveType

LEMMA SweepType ==
  ASSUME TypeInv, NEW w \in Workers, ~At(w, "idle"), NEW pc \in PCs, NEW E \in SUBSET SessionIds,
         Become(w, [proc[w] EXCEPT !.sweep = E, !.pc = pc]), Needs(pc, proc[w].req, proc[w].who)
  PROVE  ProcOK'
<1> DEFINE c == [proc[w] EXCEPT !.sweep = E, !.pc = pc]
<1>1. c \in Contexts /\ c.pc = pc /\ c.req = proc[w].req /\ c.who = proc[w].who
  BY ContextType DEF Contexts
<1> QED BY <1>1, MoveType

(* The statements that write a table keep its rows well formed.             *)
LEMMA WriteAuthorType ==
  ASSUME TypeInv, NEW rows, NEW v \in AuthorVals, WriteAuthorVals(rows, v),
         rows \subseteq {i \in AuthorIds : author[i] # None}
  PROVE  author' \in [AuthorIds -> AuthorRows \cup {None}]
<1>1. \A i \in rows : author[i] \in AuthorRows
  BY DEF TypeInv, TypeOK
<1>2. \A i \in rows : [author[i] EXCEPT !.vals = v] \in AuthorRows
  BY <1>1 DEF AuthorRows
<1> QED BY <1>2 DEF WriteAuthorVals, TypeInv, TypeOK

LEMMA WriteSessionType ==
  ASSUME TypeInv, NEW rows, NEW v \in SessionVals, WriteSessionVals(rows, v),
         rows \subseteq {s \in SessionIds : session[s] # None}
  PROVE  session' \in [SessionIds -> SessionRows \cup {None}]
<1>1. \A s \in rows : session[s] \in SessionRows
  BY DEF TypeInv, TypeOK
<1>2. \A s \in rows : [session[s] EXCEPT !.vals = v] \in SessionRows
  BY <1>1 DEF SessionRows
<1> QED BY <1>2 DEF WriteSessionVals, TypeInv, TypeOK

LEMMA DeleteType ==
  ASSUME TypeInv, NEW rows
  PROVE  /\ DeleteAuthors(rows) => author' \in [AuthorIds -> AuthorRows \cup {None}]
         /\ DeleteSessions(rows) => session' \in [SessionIds -> SessionRows \cup {None}]
  BY DEF DeleteAuthors, DeleteSessions, TypeInv, TypeOK

LEMMA RowSets ==
  ASSUME NEW x
  PROVE  /\ AuthorsById(x) \subseteq {i \in AuthorIds : author[i] # None}
         /\ AuthorsByName(x) \subseteq {i \in AuthorIds : author[i] # None}
         /\ SessionsById(x) \subseteq {s \in SessionIds : session[s] # None}
         /\ SessionsByCookie(x) \subseteq {s \in SessionIds : session[s] # None}
  BY DEF AuthorsById, AuthorsByName, SessionsById, SessionsByCookie

(* A worker with a statement to run has a well-formed context.              *)
LEMMA AtType ==
  ASSUME TypeInv, NEW w \in Workers, NEW pc, At(w, pc), pc # "idle"
  PROVE  /\ ~At(w, "idle") /\ proc[w].req \in Requests
         /\ Needs(pc, proc[w].req, proc[w].who)
  BY ContextType DEF ContextOK, At, Needs

(* The statements of the cookie check and of Register.                      *)
LEMMA CheckType ==
  ASSUME TypeInv, NEW w \in Workers, CheckCookie(w) \/ TouchSession(w)
  PROVE  TypeInv'
<1> DEFINE r == proc[w].req
<1>1. \A u : /\ Public(r, u) \in PCs /\ Needs(Public(r, u), r, u)
             /\ Dispatch(r, u) \in PCs /\ Needs(Dispatch(r, u), r, u)
  BY PublicType, DispatchType DEF DispatchPCs, PCs, Needs, RegisterPCs, ActivatePCs, SessionPCs
<1>2. LoginStart(r) \in PCs /\ \A u : Needs(LoginStart(r), r, u)
  BY DEF LoginStart, PCs, Needs, RegisterPCs, ActivatePCs, SessionPCs
<1>3. CASE CheckCookie(w)
  <2>1. ~At(w, "idle")
    BY <1>3 DEF CheckCookie, At
  <2>2. ASSUME NEW s \in SessionsByCookie(r.cok), session[s].vals.name # None, NEW next \in {"touch", "retouch"},
               Become(w, [proc[w] EXCEPT !.who = CookieUser(s), !.pc = next])
        PROVE  ProcOK'
    <3>1. session[s] \in SessionRows
      BY <2>2, RowSets DEF TypeInv, TypeOK
    <3>2. CookieUser(s) \in Users
      BY <2>2, <3>1, RowSets DEF CookieUser, Users, SessionRows, SessionVals
    <3> QED BY <2>1, <2>2, <3>2, UserType DEF PCs, Needs, RegisterPCs, ActivatePCs, SessionPCs
  <2>3. ASSUME NEW next, CookieRejected(w, next), next \in PCs, Needs(next, r, proc[w].who)
        PROVE  ProcOK'
    BY <2>1, <2>3, GotoType DEF CookieRejected
  <2>4. ASSUME NEW next \in {"touch", "retouch"}, CookieAccepted(w, next) PROVE ProcOK'
    BY <2>2, <2>4 DEF CookieAccepted
  <2>5. ProcOK'
    <3>1. CASE At(w, "cookie") /\ CookieRejected(w, Public(r, NoUser))
      <4>1. Needs(Public(r, NoUser), r, proc[w].who)
        BY <1>1, PublicType DEF Needs, RegisterPCs, ActivatePCs, SessionPCs, DispatchPCs
      <4> QED BY <1>1, <2>3, <3>1, <4>1
    <3>2. CASE At(w, "recheck") /\ CookieRejected(w, LoginStart(r))
      BY <1>2, <2>3, <3>2
    <3> QED BY <1>3, <2>4, <3>1, <3>2 DEF CheckCookie
  <2> QED BY <1>3, <2>5 DEF CheckCookie, TypeInv, TypeOK, ProcOK, history
<1>4. CASE TouchSession(w)
  <2>1. ProcOK'
    BY <1>1, <1>4, GotoType DEF TouchSession, At
  <2>2. \A s \in SessionsById(proc[w].who.sid) : [session[s] EXCEPT !.old = FALSE] \in SessionRows
    <3>1. \A s \in SessionsById(proc[w].who.sid) : session[s] \in SessionRows
      BY RowSets DEF TypeInv, TypeOK
    <3> QED BY <3>1 DEF SessionRows
  <2>3. session' \in [SessionIds -> SessionRows \cup {None}]
    BY <1>4, <2>2 DEF TouchSession, Refreshed, TypeInv, TypeOK
  <2> QED BY <1>4, <2>1, <2>3 DEF TouchSession, TypeInv, TypeOK, ProcOK, history
<1> QED BY <1>3, <1>4

LEMMA RegisterType ==
  ASSUME TypeInv, NEW w \in Workers, RegisterCheck(w) \/ RegisterInsert(w)
  PROVE  TypeInv'
<1> DEFINE r == proc[w].req
<1>1. \A u : Needs("idle", r, u)
  BY DEF Needs, RegisterPCs, ActivatePCs, SessionPCs
<1>2. CASE RegisterCheck(w)
  <2>1. Needs("regInsert", r, proc[w].who) /\ ~At(w, "idle")
    BY <1>2, AtType DEF RegisterCheck, Needs, RegisterPCs, ActivatePCs, SessionPCs
  <2>2. ProcOK'
    BY <1>1, <1>2, <2>1, GotoType DEF RegisterCheck, PCs
  <2> QED BY <1>2, <2>2 DEF RegisterCheck, TypeInv, TypeOK, ProcOK, history
<1>3. CASE RegisterInsert(w)
  <2>1. ~At(w, "idle") /\ r \in Requests /\ r.act = "Register"
    BY <1>3, AtType DEF RegisterInsert, Needs, RegisterPCs
  <2>2. r.nam \in Names /\ r.pwd \in Pwds
    BY <2>1 DEF Requests
  <2>3. CASE ~NameIsFree(r.nam) \/ \A i \in AuthorIds : ~IsNextRowid(i, author)
    <3>1. author' = author /\ reviewed' = reviewed /\ Goto(w, "idle")
      BY <1>3, <2>3 DEF RegisterInsert
    <3>2. ProcOK'
      BY <1>1, <2>1, <3>1, GotoType DEF PCs
    <3> QED BY <1>3, <3>1, <3>2 DEF RegisterInsert, TypeInv, TypeOK, ProcOK
  <2>4. ASSUME NEW i \in AuthorIds, author' = [author EXCEPT ![i] = NewAuthor(r)], reviewed' = reviewed \ {i},
               Become(w, [proc[w] EXCEPT !.who = NewUser(r, i), !.pc = "sweep"])
        PROVE  TypeInv'
    <3>1. NewAuthor(r) \in AuthorRows
      BY <2>2 DEF NewAuthor, AuthorRows, AuthorVals
    <3>2. NewUser(r, i) \in Users /\ Needs("sweep", r, NewUser(r, i))
      BY <2>2 DEF NewUser, Users, Needs, RegisterPCs, ActivatePCs, SessionPCs
    <3>3. ProcOK'
      BY <2>1, <2>4, <3>2, UserType DEF PCs
    <3> QED BY <1>3, <2>4, <3>1, <3>3 DEF RegisterInsert, TypeInv, TypeOK, ProcOK
  <2> QED BY <1>3, <2>3, <2>4 DEF RegisterInsert
<1> QED BY <1>2, <1>3

(* The statements that create a session.                                    *)
LEMMA SessionType ==
  ASSUME TypeInv, NEW w \in Workers,
         \/ SelectExpired(w) \/ ExpireSession(w) \/ DrawCookie(w)
         \/ InsertSession(w) \/ GetSessionId(w)
  PROVE  TypeInv'
<1> DEFINE r == proc[w].req
           u == proc[w].who
<1>1. \A x : Needs("idle", r, x)
  BY DEF Needs, RegisterPCs, ActivatePCs, SessionPCs
<1>2. /\ ~At(w, "idle") /\ u.aid \in AuthorIds /\ u.name \in Names
      /\ Needs("draw", r, u) /\ Needs("expire", r, u)
  BY AtType DEF SelectExpired, ExpireSession, DrawCookie, InsertSession, GetSessionId,
                Needs, RegisterPCs, ActivatePCs, SessionPCs
<1>3. CASE SelectExpired(w)
  <2> DEFINE E == {s \in SessionIds : session[s] # None /\ IsExpired(session[s])}
             pc == IF E = {} THEN "draw" ELSE "expire"
  <2>1. E \in SUBSET SessionIds /\ pc \in PCs /\ Needs(pc, r, u)
    BY <1>2 DEF PCs
  <2>2. Become(w, [proc[w] EXCEPT !.sweep = E, !.pc = pc])
    BY <1>3 DEF SelectExpired
  <2>3. ProcOK'
    BY <1>2, <2>1, <2>2, SweepType
  <2> QED BY <1>3, <2>3 DEF SelectExpired, TypeInv, TypeOK, ProcOK, history
<1>4. CASE ExpireSession(w)
  <2>1. PICK s \in proc[w].sweep :
          LET E == Remaining(proc[w].sweep, s)
          IN  /\ DeleteSessions(SessionsById(s))
              /\ Become(w, [proc[w] EXCEPT !.sweep = E, !.pc = IF E = {} THEN "draw" ELSE "expire"])
    BY <1>4 DEF ExpireSession
  <2>2. Remaining(proc[w].sweep, s) \in SUBSET SessionIds
    BY ContextType DEF Remaining
  <2>3. Needs("draw", r, u) /\ Needs("expire", r, u) /\ {"draw", "expire"} \subseteq PCs
    BY <1>2 DEF PCs
  <2>4. ASSUME NEW E \in SUBSET SessionIds, NEW pc \in {"draw", "expire"},
               Become(w, [proc[w] EXCEPT !.sweep = E, !.pc = pc])
        PROVE  ProcOK'
    BY <1>2, <2>3, <2>4, SweepType
  <2>5. ProcOK'
    BY <2>1, <2>2, <2>4
  <2>6. session' \in [SessionIds -> SessionRows \cup {None}]
    BY <2>1, DeleteType
  <2> QED BY <1>4, <2>5, <2>6 DEF ExpireSession, TypeInv, TypeOK, ProcOK, history
<1>5. CASE DrawCookie(w)
  <2>1. PICK k \in Cookies : Become(w, [proc[w] EXCEPT !.who = [u EXCEPT !.cok = k], !.pc = "insert"])
    BY <1>5 DEF DrawCookie
  <2>2. [u EXCEPT !.cok = k] \in Users /\ Needs("insert", r, [u EXCEPT !.cok = k])
    BY <1>2, ContextType DEF Users, Needs, RegisterPCs, ActivatePCs, SessionPCs
  <2>3. ProcOK'
    BY <1>2, <2>1, <2>2, UserType DEF PCs
  <2> QED BY <1>5, <2>3 DEF DrawCookie, TypeInv, TypeOK, ProcOK, history
<1>6. CASE InsertSession(w)
  <2>1. u.cok \in Cookies /\ Needs("getId", r, u)
    BY <1>6, AtType DEF InsertSession, Needs, RegisterPCs, ActivatePCs, SessionPCs
  <2>2. NewSession(u) \in SessionRows
    BY <1>2, <2>1, ContextType DEF NewSession, SessionRows, SessionVals, Users
  <2>3. session' \in [SessionIds -> SessionRows \cup {None}]
    BY <1>6, <2>2 DEF InsertSession, TypeInv, TypeOK
  <2>4. ProcOK'
    BY <1>1, <1>2, <1>6, <2>1, GotoType DEF InsertSession, PCs
  <2> QED BY <1>6, <2>3, <2>4 DEF InsertSession, TypeInv, TypeOK, ProcOK, history
<1>7. CASE GetSessionId(w)
  <2>1. \A x : /\ AfterSession(r, x) \in PCs /\ Needs(AfterSession(r, x), r, x)
    BY DispatchType DEF AfterSession, DispatchPCs, PCs, Needs, RegisterPCs, ActivatePCs, SessionPCs
  <2>2. \A s \in SessionIds : [u EXCEPT !.sid = s] \in Users
    BY ContextType DEF Users
  <2>3. ASSUME NEW s \in SessionsByCookie(u.cok),
               Become(w, [proc[w] EXCEPT !.who = [u EXCEPT !.sid = s],
                                         !.pc = AfterSession(r, [u EXCEPT !.sid = s])])
        PROVE  ProcOK'
    BY <1>2, <2>1, <2>2, <2>3, UserType, RowSets
  <2>4. ASSUME Goto(w, "idle") PROVE ProcOK'
    BY <1>1, <1>2, <2>4, GotoType DEF PCs
  <2>5. ProcOK'
    BY <1>7, <2>3, <2>4 DEF GetSessionId
  <2> QED BY <1>7, <2>5 DEF GetSessionId, TypeInv, TypeOK, ProcOK, history
<1> QED BY <1>3, <1>4, <1>5, <1>6, <1>7

LEMMA LoginType ==
  ASSUME TypeInv, NEW w \in Workers, LoginCheck(w) \/ LoginSelect(w) \/ LoginRead(w) \/ LoginWrite(w)
  PROVE  TypeInv'
<1> DEFINE r == proc[w].req
           u == proc[w].who
<1>1. /\ ~At(w, "idle")
      /\ \A x : Needs("idle", r, x) /\ Needs("login2", r, x)
  BY AtType DEF LoginCheck, LoginSelect, LoginRead, LoginWrite, Needs, RegisterPCs, ActivatePCs, SessionPCs
<1>2. CASE LoginCheck(w)
  <2>1. ProcOK'
    BY <1>1, <1>2, GotoType DEF LoginCheck, PCs
  <2> QED BY <1>2, <2>1 DEF LoginCheck, TypeInv, TypeOK, ProcOK, history
<1>3. CASE LoginSelect(w)
  <2>1. ASSUME NEW i \in AuthorsByName(r.nam),
               Become(w, [proc[w] EXCEPT !.who = LoginUser(i), !.pc = "logRead"])
        PROVE  ProcOK'
    <3>1. i \in AuthorIds /\ author[i] \in AuthorRows
      BY RowSets DEF TypeInv, TypeOK
    <3>2. LoginUser(i) \in Users /\ Needs("logRead", r, LoginUser(i))
      BY <3>1 DEF LoginUser, Users, AuthorRows, Needs, RegisterPCs, ActivatePCs, SessionPCs
    <3> QED BY <1>1, <2>1, <3>2, UserType DEF PCs
  <2>2. ASSUME Goto(w, "idle") PROVE ProcOK'
    BY <1>1, <2>2, GotoType DEF PCs
  <2> QED BY <1>3, <2>1, <2>2 DEF LoginSelect, TypeInv, TypeOK, ProcOK, history
<1>4. CASE LoginRead(w)
  <2>1. Needs("logWrite", r, u)
    BY <1>4, AtType DEF LoginRead, Needs, RegisterPCs, ActivatePCs, SessionPCs
  <2>2. ProcOK'
    BY <1>1, <1>4, <2>1, CopyType, RowSets DEF LoginRead, PCs
  <2> QED BY <1>4, <2>2 DEF LoginRead, TypeInv, TypeOK, ProcOK, history
<1>5. CASE LoginWrite(w)
  <2>1. Needs("sweep", r, u)
    BY <1>5, AtType DEF LoginWrite, Needs, RegisterPCs, ActivatePCs, SessionPCs
  <2>2. ProcOK'
    BY <1>1, <1>5, <2>1, GotoType DEF LoginWrite, PCs
  <2>3. author' \in [AuthorIds -> AuthorRows \cup {None}]
    BY <1>5, WriteAuthorType, ContextType, RowSets DEF LoginWrite
  <2> QED BY <1>5, <2>2, <2>3 DEF LoginWrite, TypeInv, TypeOK, ProcOK, history
<1> QED BY <1>2, <1>3, <1>4, <1>5

LEMMA ActivateType ==
  ASSUME TypeInv, NEW w \in Workers,
         \/ ActivateRead(w) \/ ActivateWrite(w) \/ ActivateColumn(w)
         \/ ActivateReadAgain(w) \/ ActivateClear(w)
  PROVE  TypeInv'
<1> DEFINE r == proc[w].req
           u == proc[w].who
<1>1. ~At(w, "idle") /\ r \in Requests /\ r.act = "Activate"
  BY AtType DEF ActivateRead, ActivateWrite, ActivateColumn, ActivateReadAgain, ActivateClear,
                Needs, ActivatePCs
<1>2. \A pc \in ActivatePCs \cup {"idle"} : pc \in PCs /\ Needs(pc, r, u)
  BY <1>1 DEF Needs, RegisterPCs, ActivatePCs, SessionPCs, PCs
<1>3. CASE ActivateRead(w)
  <2>1. ProcOK'
    BY <1>1, <1>2, <1>3, CopyType, RowSets DEF ActivateRead, ActivatePCs
  <2> QED BY <1>3, <2>1 DEF ActivateRead, TypeInv, TypeOK, ProcOK, history
<1>4. CASE ActivateWrite(w)
  <2>1. ProcOK'
    BY <1>1, <1>2, <1>4, GotoType DEF ActivateWrite, ActivatePCs
  <2>2. author' \in [AuthorIds -> AuthorRows \cup {None}]
    BY <1>4, WriteAuthorType, ContextType, RowSets DEF ActivateWrite
  <2> QED BY <1>4, <2>1, <2>2 DEF ActivateWrite, TypeInv, TypeOK, ProcOK, history
<1>5. CASE ActivateColumn(w)
  <2>1. ProcOK'
    BY <1>1, <1>2, <1>5, GotoType DEF ActivateColumn, ActivatePCs
  <2>2. \A i \in AuthorsByName(r.nam) : author[i] \in AuthorRows
    BY RowSets DEF TypeInv, TypeOK
  <2>3. \A i \in AuthorsByName(r.nam) : [author[i] EXCEPT !.tac = TRUE] \in AuthorRows
    BY <2>2 DEF AuthorRows
  <2>4. author' \in [AuthorIds -> AuthorRows \cup {None}]
    BY <1>5, <2>3 DEF ActivateColumn, TypeInv, TypeOK
  <2>5. r.nam \in Names /\ r.code \in Codes
    BY <1>1 DEF Requests
  <2>6. activated' \subseteq Names \X Codes
    BY <1>5, <2>5 DEF ActivateColumn, TypeInv, TypeOK
  <2> QED BY <1>5, <2>1, <2>4, <2>6 DEF ActivateColumn, TypeInv, TypeOK, ProcOK
<1>6. CASE ActivateReadAgain(w)
  <2>1. ProcOK'
    BY <1>1, <1>2, <1>6, CopyType, RowSets DEF ActivateReadAgain, ActivatePCs
  <2> QED BY <1>6, <2>1 DEF ActivateReadAgain, TypeInv, TypeOK, ProcOK, history
<1>7. CASE ActivateClear(w)
  <2>1. Protected(r, u) \in PCs /\ Needs(Protected(r, u), r, u)
    BY ProtectedType DEF DispatchPCs, PCs, Needs, RegisterPCs, ActivatePCs, SessionPCs
  <2>2. ProcOK'
    BY <1>1, <1>7, <2>1, GotoType DEF ActivateClear
  <2>3. [proc[w].avals EXCEPT !.code = None] \in AuthorVals
    BY ContextType DEF AuthorVals
  <2>4. author' \in [AuthorIds -> AuthorRows \cup {None}]
    BY <1>7, <2>3, WriteAuthorType, RowSets DEF ActivateClear
  <2> QED BY <1>7, <2>2, <2>4 DEF ActivateClear, TypeInv, TypeOK, ProcOK, history
<1> QED BY <1>3, <1>4, <1>5, <1>6, <1>7

LEMMA ConfirmType ==
  ASSUME TypeInv, NEW w \in Workers, ConfirmRead(w) \/ ConfirmWrite(w)
  PROVE  TypeInv'
<1>1. /\ ~At(w, "idle")
      /\ \A pc \in {"cnfWrite", "idle"} : pc \in PCs /\ Needs(pc, proc[w].req, proc[w].who)
  BY AtType DEF ConfirmRead, ConfirmWrite, PCs, Needs, RegisterPCs, ActivatePCs, SessionPCs
<1>2. CASE ConfirmRead(w)
  <2>1. ProcOK'
    BY <1>1, <1>2, CopyType, RowSets DEF ConfirmRead
  <2> QED BY <1>2, <2>1 DEF ConfirmRead, TypeInv, TypeOK, ProcOK, history
<1>3. CASE ConfirmWrite(w)
  <2>1. PICK c \in Codes : /\ WriteAuthorVals(AuthorsById(proc[w].req.id), [proc[w].avals EXCEPT !.code = c])
                           /\ issued' = issued \cup {c}
    BY <1>3 DEF ConfirmWrite
  <2>2. [proc[w].avals EXCEPT !.code = c] \in AuthorVals
    BY ContextType DEF AuthorVals
  <2>3. author' \in [AuthorIds -> AuthorRows \cup {None}]
    BY <2>1, <2>2, WriteAuthorType, RowSets
  <2>4. ProcOK'
    BY <1>1, <1>3, GotoType DEF ConfirmWrite
  <2>5. issued' \subseteq Codes /\ reviewed' \subseteq AuthorIds
    BY <1>3, <2>1, RowSets DEF ConfirmWrite, TypeInv, TypeOK
  <2> QED BY <1>3, <2>3, <2>4, <2>5 DEF ConfirmWrite, TypeInv, TypeOK, ProcOK
<1> QED BY <1>2, <1>3

LEMMA ChangeType ==
  ASSUME TypeInv, NEW w \in Workers, ChangeCheck(w) \/ ChangeRead(w) \/ ChangeWrite(w)
  PROVE  TypeInv'
<1>1. /\ ~At(w, "idle")
      /\ \A pc \in {"chpRead", "chpWrite", "idle"} : pc \in PCs /\ Needs(pc, proc[w].req, proc[w].who)
  BY AtType DEF ChangeCheck, ChangeRead, ChangeWrite, PCs, Needs, RegisterPCs, ActivatePCs, SessionPCs
<1>2. CASE ChangeCheck(w)
  <2>1. ProcOK'
    BY <1>1, <1>2, GotoType DEF ChangeCheck
  <2> QED BY <1>2, <2>1 DEF ChangeCheck, TypeInv, TypeOK, ProcOK, history
<1>3. CASE ChangeRead(w)
  <2>1. ProcOK'
    BY <1>1, <1>3, CopyType, RowSets DEF ChangeRead
  <2> QED BY <1>3, <2>1 DEF ChangeRead, TypeInv, TypeOK, ProcOK, history
<1>4. CASE ChangeWrite(w)
  <2>1. [proc[w].avals EXCEPT !.pwd = proc[w].req.pwd] \in AuthorVals
    BY ContextType DEF AuthorVals, RequestRecords
  <2>2. author' \in [AuthorIds -> AuthorRows \cup {None}]
    BY <1>4, <2>1, WriteAuthorType, RowSets DEF ChangeWrite
  <2>3. ProcOK'
    BY <1>1, <1>4, GotoType DEF ChangeWrite
  <2> QED BY <1>4, <2>2, <2>3 DEF ChangeWrite, TypeInv, TypeOK, ProcOK, history
<1> QED BY <1>2, <1>3, <1>4

LEMMA DeletionType ==
  ASSUME TypeInv, NEW w \in Workers,
         \/ Logout(w) \/ DeleteSession(w) \/ DeleteAuthor(w)
         \/ DeleteAuthorChannels(w) \/ DeleteAuthorSessions(w) \/ ServeChannel(w)
  PROVE  TypeInv'
<1>1. /\ ~At(w, "idle")
      /\ \A pc \in {"delChannels", "delSessions", "logout", "idle"} :
           pc \in PCs /\ Needs(pc, proc[w].req, proc[w].who)
  BY AtType DEF Logout, DeleteSession, DeleteAuthor, DeleteAuthorChannels, DeleteAuthorSessions,
                ServeChannel, PCs, Needs, RegisterPCs, ActivatePCs, SessionPCs
<1>2. CASE Logout(w) \/ DeleteSession(w) \/ DeleteAuthorSessions(w)
  <2>1. ProcOK'
    BY <1>1, <1>2, GotoType DEF Logout, DeleteSession, DeleteAuthorSessions
  <2>2. session' \in [SessionIds -> SessionRows \cup {None}]
    BY <1>2, DeleteType DEF Logout, DeleteSession, DeleteAuthorSessions
  <2> QED BY <1>2, <2>1, <2>2
          DEF Logout, DeleteSession, DeleteAuthorSessions, TypeInv, TypeOK, ProcOK, history
<1>3. CASE DeleteAuthor(w)
  <2>1. ProcOK'
    BY <1>1, <1>3, GotoType DEF DeleteAuthor
  <2>2. author' \in [AuthorIds -> AuthorRows \cup {None}]
    BY <1>3, DeleteType DEF DeleteAuthor
  <2> QED BY <1>3, <2>1, <2>2 DEF DeleteAuthor, TypeInv, TypeOK, ProcOK
<1>4. CASE DeleteAuthorChannels(w) \/ ServeChannel(w)
  <2>1. ProcOK'
    BY <1>1, <1>4, GotoType DEF DeleteAuthorChannels, AfterDelete, ServeChannel
  <2> QED BY <1>4, <2>1 DEF DeleteAuthorChannels, ServeChannel, TypeInv, TypeOK, ProcOK, history
<1> QED BY <1>2, <1>3, <1>4

LEMMA FilterType ==
  ASSUME TypeInv, NEW w \in Workers, FilterRead(w) \/ FilterWrite(w)
  PROVE  TypeInv'
<1>1. /\ ~At(w, "idle")
      /\ \A pc \in {"fltWrite", "idle"} : pc \in PCs /\ Needs(pc, proc[w].req, proc[w].who)
  BY AtType DEF FilterRead, FilterWrite, PCs, Needs, RegisterPCs, ActivatePCs, SessionPCs
<1>2. CASE FilterRead(w)
  <2>1. ProcOK'
    BY <1>1, <1>2, SessionCopyType, RowSets DEF FilterRead
  <2> QED BY <1>2, <2>1 DEF FilterRead, TypeInv, TypeOK, ProcOK, history
<1>3. CASE FilterWrite(w)
  <2>1. ProcOK'
    BY <1>1, <1>3, GotoType DEF FilterWrite
  <2>2. session' \in [SessionIds -> SessionRows \cup {None}]
    BY <1>3, WriteSessionType, ContextType, RowSets DEF FilterWrite
  <2> QED BY <1>3, <2>1, <2>2 DEF FilterWrite, TypeInv, TypeOK, ProcOK, history
<1> QED BY <1>2, <1>3

LEMMA StepType ==
  ASSUME TypeInv, NEW w \in Workers, Step(w)
  PROVE  TypeInv'
  BY CheckType, RegisterType, SessionType, LoginType, ActivateType, ConfirmType, ChangeType,
     DeletionType, FilterType DEF Step

LEMMA ArriveType ==
  ASSUME TypeInv, NEW w \in Workers, Arrive(w)
  PROVE  TypeInv'
<1>1. PICK r \in Requests :
        Become(w, [Idle EXCEPT !.req = r,
                               !.pc = IF r.cok # None THEN "cookie" ELSE Public(r, NoUser)])
  BY DEF Arrive
<1> DEFINE pc == IF r.cok # None THEN "cookie" ELSE Public(r, NoUser)
           c == [Idle EXCEPT !.req = r, !.pc = pc]
<1>2. pc \in PCs /\ Needs(pc, r, NoUser)
  BY PublicType DEF DispatchPCs, PCs, Needs, RegisterPCs, ActivatePCs, SessionPCs
<1>3. c \in Contexts /\ c.pc = pc /\ c.req = r /\ c.who = NoUser
  BY <1>2, IdleType, RequestsType DEF Contexts, Idle
<1>4. ContextOK(c)
  BY <1>2, <1>3 DEF ContextOK, Needs
<1>5. ProcOK'
  BY <1>1, <1>3, <1>4, BecomeType
<1> QED BY <1>5 DEF Arrive, TypeInv, TypeOK, ProcOK, history

LEMMA FailType ==
  ASSUME TypeInv, NEW w \in Workers, Fail(w)
  PROVE  TypeInv'
<1>1. ProcOK'
  BY GotoType DEF Fail, PCs, Needs, RegisterPCs, ActivatePCs, SessionPCs
<1> QED BY <1>1 DEF Fail, TypeInv, TypeOK, ProcOK, history

LEMMA AgeType ==
  ASSUME TypeInv, NEW s \in SessionIds, Age(s)
  PROVE  TypeInv'
<1>1. session[s] \in SessionRows
  BY DEF Age, TypeInv, TypeOK
<1>2. [session[s] EXCEPT !.old = TRUE] \in SessionRows
  BY <1>1 DEF SessionRows
<1>3. session' = [session EXCEPT ![s] = [session[s] EXCEPT !.old = TRUE]]
  BY DEF Age
<1>4. session' \in [SessionIds -> SessionRows \cup {None}]
  BY <1>2, <1>3 DEF TypeInv, TypeOK
<1> QED BY <1>4 DEF Age, TypeInv, TypeOK, ProcOK, history

LEMMA InitType == Init => TypeInv
  BY IdleType DEF Init, TypeInv, TypeOK, ProcOK

LEMMA NextType == TypeInv /\ [Next]_vars => TypeInv'
<1> SUFFICES ASSUME TypeInv, [Next]_vars PROVE TypeInv'
  OBVIOUS
<1>1. CASE Next
  BY <1>1, StepType, ArriveType, FailType, AgeType DEF Next
<1>2. CASE UNCHANGED vars
  BY <1>2 DEF vars, history, TypeInv, TypeOK, ProcOK
<1> QED BY <1>1, <1>2

(* Type correctness: rows, contexts and histories keep the form the code    *)
(* gives them, for any number of processes and row ids.                     *)
THEOREM TypeCorrect == Spec => []TypeOK
<1>1. Spec => []TypeInv
  BY InitType, NextType, PTL DEF Spec
<1>2. TypeInv => TypeOK
  BY DEF TypeInv
<1> QED BY <1>1, <1>2, PTL

-----------------------------------------------------------------------------
(* Author rights are earned, activations are confirmed and cookies bind    *)
(* one author: from what one statement can do to a context, an author row  *)
(* and a session row.                                                      *)


(* The user of a request after a statement of worker w.                    *)
UserChange(w, u) ==
  \/ u = proc[w].who
  \/ \E s \in SessionIds : session[s] # None /\ u = CookieUser(s)
  \/ \E i \in AuthorIds : u = NewUser(proc[w].req, i)
  \/ \E i \in AuthorIds : author[i] # None /\ u = LoginUser(i)
  \/ \E k \in Cookies : CookieIsFresh(k) /\ u = [proc[w].who EXCEPT !.cok = k]
  \/ \E s \in SessionIds : u = [proc[w].who EXCEPT !.sid = s]

AuthorCopyChange(w, v) ==
  \/ v = proc[w].avals
  \/ v = NoAuthorVals
  \/ \E i \in AuthorIds : author[i] # None /\ v = author[i].vals

SessionCopyChange(w, v) ==
  \/ v = proc[w].svals
  \/ v = NoSessionVals
  \/ \E s \in SessionIds : session[s] # None /\ v = session[s].vals

ContextChange(w, c) ==
  /\ UserChange(w, c.who)
  /\ AuthorCopyChange(w, c.avals)
  /\ SessionCopyChange(w, c.svals)
  /\ c.req = proc[w].req
  /\ c.pc = "actColumn" => c.req.code = c.avals.code

ContextStep(w) == \E c : Become(w, c) /\ ContextChange(w, c)

LEMMA GotoStep ==
  ASSUME TypeInv, NEW w \in Workers, NEW pc, Goto(w, pc),
         pc = "actColumn" => proc[w].req.code = proc[w].avals.code
  PROVE  ContextStep(w)
<1> DEFINE c == [proc[w] EXCEPT !.pc = pc]
<1>1. /\ c.pc = pc /\ c.who = proc[w].who /\ c.req = proc[w].req
      /\ c.avals = proc[w].avals /\ c.svals = proc[w].svals
  BY ContextType DEF Contexts
<1>2. ContextChange(w, c)
  BY <1>1 DEF ContextChange, UserChange, AuthorCopyChange, SessionCopyChange
<1> QED BY <1>2 DEF ContextStep, Goto

LEMMA UserStep ==
  ASSUME TypeInv, NEW w \in Workers, NEW pc, NEW u, UserChange(w, u), pc # "actColumn",
         Become(w, [proc[w] EXCEPT !.who = u, !.pc = pc])
  PROVE  ContextStep(w)
<1> DEFINE c == [proc[w] EXCEPT !.who = u, !.pc = pc]
<1>1. /\ c.pc = pc /\ c.who = u /\ c.req = proc[w].req
      /\ c.avals = proc[w].avals /\ c.svals = proc[w].svals
  BY ContextType DEF Contexts
<1>2. ContextChange(w, c)
  BY <1>1 DEF ContextChange, AuthorCopyChange, SessionCopyChange
<1> QED BY <1>2 DEF ContextStep

LEMMA CopyStep ==
  ASSUME TypeInv, NEW w \in Workers, NEW pc, NEW n, NEW v \in AuthorCopies(n), pc # "actColumn",
         n \subseteq {i \in AuthorIds : author[i] # None},
         Become(w, [proc[w] EXCEPT !.avals = v, !.pc = pc])
  PROVE  ContextStep(w)
<1> DEFINE c == [proc[w] EXCEPT !.avals = v, !.pc = pc]
<1>1. /\ c.pc = pc /\ c.who = proc[w].who /\ c.req = proc[w].req
      /\ c.avals = v /\ c.svals = proc[w].svals
  BY ContextType DEF Contexts
<1>2. AuthorCopyChange(w, v)
  BY DEF AuthorCopyChange, AuthorCopies
<1>3. ContextChange(w, c)
  BY <1>1, <1>2 DEF ContextChange, UserChange, SessionCopyChange
<1> QED BY <1>3 DEF ContextStep

LEMMA SessionCopyStep ==
  ASSUME TypeInv, NEW w \in Workers, NEW pc, NEW n, NEW v \in SessionCopies(n), pc # "actColumn",
         n \subseteq {s \in SessionIds : session[s] # None},
         Become(w, [proc[w] EXCEPT !.svals = v, !.pc = pc])
  PROVE  ContextStep(w)
<1> DEFINE c == [proc[w] EXCEPT !.svals = v, !.pc = pc]
<1>1. /\ c.pc = pc /\ c.who = proc[w].who /\ c.req = proc[w].req
      /\ c.avals = proc[w].avals /\ c.svals = v
  BY ContextType DEF Contexts
<1>2. SessionCopyChange(w, v)
  BY DEF SessionCopyChange, SessionCopies
<1>3. ContextChange(w, c)
  BY <1>1, <1>2 DEF ContextChange, UserChange, AuthorCopyChange
<1> QED BY <1>3 DEF ContextStep

LEMMA SweepStep ==
  ASSUME TypeInv, NEW w \in Workers, NEW pc, NEW E, pc # "actColumn",
         Become(w, [proc[w] EXCEPT !.sweep = E, !.pc = pc])
  PROVE  ContextStep(w)
<1> DEFINE c == [proc[w] EXCEPT !.sweep = E, !.pc = pc]
<1>1. /\ c.pc = pc /\ c.who = proc[w].who /\ c.req = proc[w].req
      /\ c.avals = proc[w].avals /\ c.svals = proc[w].svals
  BY ContextType DEF Contexts
<1>2. ContextChange(w, c)
  BY <1>1 DEF ContextChange, UserChange, AuthorCopyChange, SessionCopyChange
<1> QED BY <1>2 DEF ContextStep

(* No branch of main() leads into the middle of Activate.                  *)
LEMMA NoColumn ==
  ASSUME NEW r, NEW u
  PROVE  /\ Public(r, u) # "actColumn" /\ Protected(r, u) # "actColumn"
         /\ Dispatch(r, u) # "actColumn" /\ LoginStart(r) # "actColumn"
         /\ AfterSession(r, u) # "actColumn" /\ AfterDelete(u) # "actColumn"
  BY PublicType, ProtectedType, DispatchType DEF DispatchPCs, LoginStart, AfterSession, AfterDelete

LEMMA StepContext ==
  ASSUME TypeInv, NEW w \in Workers, Step(w)
  PROVE  ContextStep(w)
<1>1. CASE CheckCookie(w)
  <2>1. ASSUME NEW next \in {"touch", "retouch"}, CookieAccepted(w, next) PROVE ContextStep(w)
    <3>1. PICK s \in SessionsByCookie(proc[w].req.cok) :
            Become(w, [proc[w] EXCEPT !.who = CookieUser(s), !.pc = next])
      BY <2>1 DEF CookieAccepted
    <3>2. UserChange(w, CookieUser(s))
      BY RowSets DEF UserChange
    <3> QED BY <3>1, <3>2, UserStep
  <2> QED BY <1>1, <2>1, GotoStep, NoColumn DEF CheckCookie, CookieRejected
<1>2. CASE TouchSession(w)
  BY <1>2, GotoStep, NoColumn DEF TouchSession
<1>3. CASE RegisterCheck(w)
  BY <1>3, GotoStep DEF RegisterCheck
<1>4. CASE RegisterInsert(w)
  <2>1. ASSUME NEW i \in AuthorIds,
               Become(w, [proc[w] EXCEPT !.who = NewUser(proc[w].req, i), !.pc = "sweep"])
        PROVE  ContextStep(w)
    <3>1. UserChange(w, NewUser(proc[w].req, i))
      BY DEF UserChange
    <3> QED BY <2>1, <3>1, UserStep
  <2> QED BY <1>4, <2>1, GotoStep DEF RegisterInsert
<1>5. CASE SelectExpired(w) \/ ExpireSession(w)
  <2>1. PICK E : Become(w, [proc[w] EXCEPT !.sweep = E, !.pc = IF E = {} THEN "draw" ELSE "expire"])
    BY <1>5 DEF SelectExpired, ExpireSession
  <2> QED BY <2>1, SweepStep
<1>6. CASE DrawCookie(w)
  <2>1. PICK k \in Cookies :
          /\ CookieIsFresh(k)
          /\ Become(w, [proc[w] EXCEPT !.who = [proc[w].who EXCEPT !.cok = k], !.pc = "insert"])
    BY <1>6 DEF DrawCookie
  <2>2. UserChange(w, [proc[w].who EXCEPT !.cok = k])
    BY <2>1 DEF UserChange
  <2> QED BY <2>1, <2>2, UserStep
<1>7. CASE InsertSession(w)
  BY <1>7, GotoStep DEF InsertSession
<1>8. CASE GetSessionId(w)
  <2>1. ASSUME NEW s \in SessionsByCookie(proc[w].who.cok), NEW u, u = [proc[w].who EXCEPT !.sid = s],
               Become(w, [proc[w] EXCEPT !.who = u, !.pc = AfterSession(proc[w].req, u)])
        PROVE  ContextStep(w)
    <3>1. UserChange(w, u)
      BY <2>1, RowSets DEF UserChange
    <3> QED BY <2>1, <3>1, UserStep, NoColumn
  <2> QED BY <1>8, <2>1, GotoStep DEF GetSessionId
<1>9. CASE LoginCheck(w) \/ LoginSelect(w) \/ LoginRead(w) \/ LoginWrite(w)
  <2>1. ASSUME NEW i \in AuthorsByName(proc[w].req.nam),
               Become(w, [proc[w] EXCEPT !.who = LoginUser(i), !.pc = "logRead"])
        PROVE  ContextStep(w)
    <3>1. UserChange(w, LoginUser(i))
      BY RowSets DEF UserChange
    <3> QED BY <2>1, <3>1, UserStep
  <2> QED BY <1>9, <2>1, GotoStep, CopyStep, RowSets DEF LoginCheck, LoginSelect, LoginRead, LoginWrite
<1>10. CASE ActivateRead(w) \/ ActivateColumn(w) \/ ActivateReadAgain(w) \/ ActivateClear(w)
  BY <1>10, GotoStep, CopyStep, RowSets, NoColumn
     DEF ActivateRead, ActivateColumn, ActivateReadAgain, ActivateClear
<1>11. CASE ActivateWrite(w)
  BY <1>11, GotoStep DEF ActivateWrite, CodeMatches
<1>12. CASE ConfirmRead(w) \/ ConfirmWrite(w)
  BY <1>12, GotoStep, CopyStep, RowSets DEF ConfirmRead, ConfirmWrite
<1>13. CASE ChangeCheck(w) \/ ChangeRead(w) \/ ChangeWrite(w)
  BY <1>13, GotoStep, CopyStep, RowSets DEF ChangeCheck, ChangeRead, ChangeWrite
<1>14. CASE \/ Logout(w) \/ DeleteSession(w) \/ DeleteAuthor(w)
            \/ DeleteAuthorChannels(w) \/ DeleteAuthorSessions(w) \/ ServeChannel(w)
  BY <1>14, GotoStep, NoColumn
     DEF Logout, DeleteSession, DeleteAuthor, DeleteAuthorChannels, DeleteAuthorSessions, ServeChannel
<1>15. CASE FilterRead(w) \/ FilterWrite(w)
  BY <1>15, GotoStep, SessionCopyStep, RowSets DEF FilterRead, FilterWrite
<1> QED
  BY <1>1, <1>2, <1>3, <1>4, <1>5, <1>6, <1>7, <1>8, <1>9, <1>10, <1>11, <1>12, <1>13, <1>14, <1>15
     DEF Step

-----------------------------------------------------------------------------
(* What a statement of worker w does to the rows.                          *)

AuthorKept(i, w) ==
  /\ author[i] # None /\ author'[i] # None
  /\ author'[i].name = author[i].name
  /\ author'[i].tac = author[i].tac
  /\ author'[i].vals.code \in {author[i].vals.code, proc[w].avals.code, None} \cup issued'

AuthorActivated(i, w) ==
  /\ author[i] # None /\ author'[i] # None
  /\ author'[i] = [author[i] EXCEPT !.tac = TRUE]
  /\ author[i].name = proc[w].req.nam
  /\ At(w, "actColumn") /\ activated' = activated \cup {<<proc[w].req.nam, proc[w].req.code>>}

AuthorAdded(i, w) ==
  /\ author[i] = None
  /\ NameIsFree(proc[w].req.nam)
  /\ author' = [author EXCEPT ![i] = NewAuthor(proc[w].req)]

AuthorChange(i, w) ==
  \/ author'[i] = author[i]
  \/ author'[i] = None
  \/ AuthorKept(i, w)
  \/ AuthorActivated(i, w)
  \/ AuthorAdded(i, w)

SessionKept(s, w) ==
  /\ session[s] # None /\ session'[s] # None
  /\ session'[s].cok = session[s].cok /\ session'[s].aut = session[s].aut
  /\ session'[s].vals \in {session[s].vals, proc[w].svals}

SessionAdded(s, w) ==
  /\ SessionsByCookie(proc[w].who.cok) = {}
  /\ session' = [session EXCEPT ![s] = NewSession(proc[w].who)]

SessionChange(s, w) ==
  \/ session'[s] = None
  \/ SessionKept(s, w)
  \/ SessionAdded(s, w)

HistoryChange(w) ==
  /\ issued \subseteq issued'
  /\ \/ activated' = activated
     \/ /\ At(w, "actColumn")
        /\ activated' = activated \cup {<<proc[w].req.nam, proc[w].req.code>>}

(* Only author rows of a set are written, and the columns NAM and TAC stay. *)
LEMMA WriteAuthorChange ==
  ASSUME TypeInv, TypeInv', NEW w \in Workers, NEW rows, NEW v \in AuthorVals, WriteAuthorVals(rows, v),
         rows \subseteq {i \in AuthorIds : author[i] # None},
         v.code \in {proc[w].avals.code, None} \cup issued'
  PROVE  \A i \in AuthorIds : AuthorChange(i, w)
<1> SUFFICES ASSUME NEW i \in AuthorIds PROVE AuthorChange(i, w)
  OBVIOUS
<1>1. CASE i \notin rows
  BY <1>1 DEF WriteAuthorVals, AuthorChange
<1>2. CASE i \in rows /\ author'[i] # None
  <2>1. author[i] \in AuthorRows /\ author'[i] = [author[i] EXCEPT !.vals = v]
    BY <1>2 DEF WriteAuthorVals, TypeInv, TypeOK
  <2>2. /\ author'[i].name = author[i].name /\ author'[i].tac = author[i].tac
        /\ author'[i].vals = v
    BY <2>1 DEF AuthorRows
  <2> QED BY <1>2, <2>2 DEF AuthorChange, AuthorKept
<1> QED BY <1>1, <1>2 DEF AuthorChange

LEMMA StepAuthor ==
  ASSUME TypeInv, NEW w \in Workers, Step(w)
  PROVE  \A i \in AuthorIds : AuthorChange(i, w)
<1>0. TypeInv'
  BY StepType
<1>1. CASE RegisterInsert(w)
  <2>1. CASE author' = author
    BY <2>1 DEF AuthorChange
  <2>2. ASSUME NEW j \in AuthorIds, NameIsFree(proc[w].req.nam), IsNextRowid(j, author),
               author' = [author EXCEPT ![j] = NewAuthor(proc[w].req)]
        PROVE  \A i \in AuthorIds : AuthorChange(i, w)
    <3>1. author[j] = None
      BY <2>2 DEF IsNextRowid, TypeInv, TypeOK, AuthorIds
    <3>2. AuthorAdded(j, w)
      BY <2>2, <3>1 DEF AuthorAdded
    <3>3. ASSUME NEW i \in AuthorIds PROVE i = j \/ author'[i] = author[i]
      BY <2>2, <3>3 DEF TypeInv, TypeOK
    <3> QED BY <3>2, <3>3 DEF AuthorChange
  <2> QED BY <1>1, <2>1, <2>2 DEF RegisterInsert
<1>2. CASE LoginWrite(w)
  BY <1>0, <1>2, WriteAuthorChange, ContextType, RowSets DEF LoginWrite
<1>3. CASE ActivateWrite(w)
  BY <1>0, <1>3, WriteAuthorChange, ContextType, RowSets DEF ActivateWrite
<1>4. CASE ActivateColumn(w)
  <2> SUFFICES ASSUME NEW i \in AuthorIds PROVE AuthorChange(i, w)
    OBVIOUS
  <2>1. CASE i \notin AuthorsByName(proc[w].req.nam)
    BY <1>4, <2>1 DEF ActivateColumn, AuthorChange
  <2>2. CASE i \in AuthorsByName(proc[w].req.nam) /\ author'[i] # None
    BY <1>4, <2>2 DEF ActivateColumn, AuthorChange, AuthorActivated, AuthorsByName
  <2> QED BY <2>1, <2>2 DEF AuthorChange
<1>5. CASE ActivateClear(w)
  <2>1. [proc[w].avals EXCEPT !.code = None] \in AuthorVals
    BY ContextType DEF AuthorVals
  <2>2. [proc[w].avals EXCEPT !.code = None].code = None
    BY ContextType DEF AuthorVals
  <2> QED BY <1>0, <1>5, <2>1, <2>2, WriteAuthorChange, RowSets DEF ActivateClear
<1>6. CASE ConfirmWrite(w)
  <2>1. PICK c \in Codes : /\ WriteAuthorVals(AuthorsById(proc[w].req.id), [proc[w].avals EXCEPT !.code = c])
                           /\ issued' = issued \cup {c}
    BY <1>6 DEF ConfirmWrite
  <2>2. [proc[w].avals EXCEPT !.code = c] \in AuthorVals /\ [proc[w].avals EXCEPT !.code = c].code = c
    BY ContextType DEF AuthorVals
  <2> DEFINE rows == AuthorsById(proc[w].req.id)
             v == [proc[w].avals EXCEPT !.code = c]
  <2>3. /\ rows \subseteq {i \in AuthorIds : author[i] # None} /\ WriteAuthorVals(rows, v)
        /\ v \in AuthorVals /\ v.code \in {proc[w].avals.code, None} \cup issued'
    BY <2>1, <2>2, RowSets
  <2> HIDE DEF rows, v
  <2> QED BY <1>0, <2>3, WriteAuthorChange
<1>7. CASE ChangeWrite(w)
  <2>1. /\ [proc[w].avals EXCEPT !.pwd = proc[w].req.pwd] \in AuthorVals
        /\ [proc[w].avals EXCEPT !.pwd = proc[w].req.pwd].code = proc[w].avals.code
    BY ContextType DEF AuthorVals, RequestRecords
  <2> QED BY <1>0, <1>7, <2>1, WriteAuthorChange, RowSets DEF ChangeWrite
<1>8. CASE DeleteAuthor(w)
  BY <1>8 DEF DeleteAuthor, DeleteAuthors, AuthorChange
<1>9. CASE UNCHANGED author
  BY <1>9 DEF AuthorChange
<1> QED
  BY <1>1, <1>2, <1>3, <1>4, <1>5, <1>6, <1>7, <1>8, <1>9
     DEF Step, CheckCookie, TouchSession, RegisterCheck, SelectExpired, ExpireSession, DrawCookie,
         InsertSession, GetSessionId, LoginCheck, LoginSelect, LoginRead, ActivateRead,
         ActivateReadAgain, ConfirmRead, ChangeCheck, ChangeRead, Logout, DeleteSession,
         DeleteAuthorChannels, DeleteAuthorSessions, FilterRead, FilterWrite, ServeChannel

LEMMA StepSession ==
  ASSUME TypeInv, NEW w \in Workers, Step(w)
  PROVE  \A s \in SessionIds : SessionChange(s, w)
<1>0. TypeInv'
  BY StepType
<1>1. CASE TouchSession(w)
  <2> SUFFICES ASSUME NEW s \in SessionIds, session[s] # None, session'[s] # None
               PROVE  SessionChange(s, w)
    BY <1>1 DEF TouchSession, Refreshed, SessionsById, SessionChange
  <2>1. session[s] \in SessionRows
    BY DEF TypeInv, TypeOK
  <2>2. session'[s] \in {session[s], [session[s] EXCEPT !.old = FALSE]}
    BY <1>1 DEF TouchSession, Refreshed
  <2> QED BY <2>1, <2>2 DEF SessionChange, SessionKept, SessionRows
<1>2. CASE InsertSession(w)
  <2>1. CASE UNCHANGED session
    BY <2>1 DEF SessionChange, SessionKept
  <2>2. ASSUME NEW t \in SessionIds, SessionsByCookie(proc[w].who.cok) = {},
               session' = [session EXCEPT ![t] = NewSession(proc[w].who)]
        PROVE  \A s \in SessionIds : SessionChange(s, w)
    <3>1. SessionAdded(t, w)
      BY <2>2 DEF SessionAdded
    <3>2. ASSUME NEW s \in SessionIds PROVE s = t \/ session'[s] = session[s]
      BY <2>2, <3>2 DEF TypeInv, TypeOK
    <3> QED BY <3>1, <3>2 DEF SessionChange, SessionKept
  <2> QED BY <1>2, <2>1, <2>2 DEF InsertSession
<1>3. CASE ExpireSession(w) \/ Logout(w) \/ DeleteSession(w) \/ DeleteAuthorSessions(w)
  BY <1>3 DEF ExpireSession, Logout, DeleteSession, DeleteAuthorSessions, DeleteSessions,
              SessionChange, SessionKept
<1>4. CASE FilterWrite(w)
  <2> SUFFICES ASSUME NEW s \in SessionIds, session[s] # None, session'[s] # None
               PROVE  SessionChange(s, w)
    BY <1>4 DEF FilterWrite, WriteSessionVals, SessionsById, SessionChange
  <2>1. session[s] \in SessionRows
    BY DEF TypeInv, TypeOK
  <2>2. session'[s] \in {session[s], [session[s] EXCEPT !.vals = proc[w].svals]}
    BY <1>4 DEF FilterWrite, WriteSessionVals
  <2> QED BY <2>1, <2>2 DEF SessionChange, SessionKept, SessionRows
<1>5. CASE UNCHANGED session
  BY <1>5 DEF SessionChange, SessionKept
<1> QED
  BY <1>1, <1>2, <1>3, <1>4, <1>5
     DEF Step, CheckCookie, RegisterCheck, RegisterInsert, SelectExpired, DrawCookie,
         GetSessionId, LoginCheck, LoginSelect, LoginRead, LoginWrite, ActivateRead, ActivateWrite,
         ActivateColumn, ActivateReadAgain, ActivateClear, ConfirmRead, ConfirmWrite,
         ChangeCheck, ChangeRead, ChangeWrite, DeleteAuthor, DeleteAuthorChannels, FilterRead, ServeChannel

LEMMA StepHistory ==
  ASSUME NEW w \in Workers, Step(w)
  PROVE  HistoryChange(w)
  BY DEF Step, HistoryChange, history, CheckCookie, TouchSession, RegisterCheck, RegisterInsert,
         SelectExpired, ExpireSession, DrawCookie, InsertSession, GetSessionId, LoginCheck, LoginSelect,
         LoginRead, LoginWrite, ActivateRead, ActivateWrite, ActivateColumn, ActivateReadAgain,
         ActivateClear, ConfirmRead, ConfirmWrite, ChangeCheck, ChangeRead, ChangeWrite, Logout,
         DeleteSession, DeleteAuthor, DeleteAuthorChannels, DeleteAuthorSessions, FilterRead, FilterWrite, ServeChannel

-----------------------------------------------------------------------------
(* A worker moves to its next context or exits; the others stay.           *)
LEMMA BecomeChange ==
  ASSUME TypeInv, NEW w \in Workers, NEW c, Become(w, c)
  PROVE  /\ proc'[w] \in {c, Idle}
         /\ \A v \in Workers : v = w \/ proc'[v] = proc[v]
  BY DEF Become, TypeInv, TypeOK

LEMMA ArriveChange ==
  ASSUME TypeInv, NEW w \in Workers, Arrive(w)
  PROVE  /\ proc'[w].who = NoUser /\ proc'[w].avals = NoAuthorVals /\ proc'[w].svals = NoSessionVals
         /\ ~At(w, "actColumn")'
         /\ \A v \in Workers : v = w \/ proc'[v] = proc[v]
<1>1. PICK r \in Requests :
        Become(w, [Idle EXCEPT !.req = r,
                               !.pc = IF r.cok # None THEN "cookie" ELSE Public(r, NoUser)])
  BY DEF Arrive
<1> DEFINE pc == IF r.cok # None THEN "cookie" ELSE Public(r, NoUser)
           c == [Idle EXCEPT !.req = r, !.pc = pc]
<1>2. pc # "actColumn"
  BY NoColumn
<1>3. /\ c.pc = pc /\ c.who = NoUser /\ c.avals = NoAuthorVals /\ c.svals = NoSessionVals
      /\ Idle.pc = "idle" /\ Idle.who = NoUser
      /\ Idle.avals = NoAuthorVals /\ Idle.svals = NoSessionVals
  BY DEF Idle
<1>4. Become(w, c)
  BY <1>1
<1> HIDE DEF c, pc
<1> QED BY <1>2, <1>3, <1>4, BecomeChange DEF At

LEMMA FailChange ==
  ASSUME TypeInv, NEW w \in Workers, Fail(w)
  PROVE  /\ proc'[w].who = NoUser /\ proc'[w].avals = NoAuthorVals /\ proc'[w].svals = NoSessionVals
         /\ ~At(w, "actColumn")'
         /\ \A v \in Workers : v = w \/ proc'[v] = proc[v]
<1> DEFINE c == [proc[w] EXCEPT !.pc = "idle"]
<1>1. c.pc = "idle"
  BY ContextType DEF Contexts
<1>2. proc'[w] = Idle /\ \A v \in Workers : v = w \/ proc'[v] = proc[v]
  BY <1>1 DEF Fail, Goto, Become, TypeInv, TypeOK
<1>3. /\ Idle.pc = "idle" /\ Idle.who = NoUser
      /\ Idle.avals = NoAuthorVals /\ Idle.svals = NoSessionVals
  BY DEF Idle
<1> QED BY <1>2, <1>3 DEF At

(* Ageing leaves everything but the time of last access.                    *)
LEMMA AgeChange ==
  ASSUME TypeInv, NEW t \in SessionIds, Age(t), NEW s \in SessionIds, session'[s] # None
  PROVE  /\ session[s] # None /\ session'[s].cok = session[s].cok
         /\ session'[s].aut = session[s].aut /\ session'[s].vals = session[s].vals
<1>1. session[s] # None
  BY DEF Age, TypeInv, TypeOK
<1>2. session[s] \in SessionRows
  BY <1>1 DEF TypeInv, TypeOK
<1>3. session'[s] \in {session[s], [session[s] EXCEPT !.old = TRUE]}
  BY DEF Age, TypeInv, TypeOK
<1> QED BY <1>1, <1>2, <1>3 DEF SessionRows

-----------------------------------------------------------------------------
(* Author rights.                                                           *)

LEMMA StepRights ==
  ASSUME TypeInv, RightsEarned, NEW w \in Workers, Step(w)
  PROVE  RightsEarned'
<1>1. activated \subseteq activated'
  BY StepHistory DEF HistoryChange
<1> DEFINE earned == {p[1] : p \in activated}
           earnedNext == {p[1] : p \in activated'}
<1>2. earned \subseteq earnedNext
  BY <1>1
<1>3. ASSUME NEW i \in AuthorIds, author'[i] # None
      PROVE  author'[i].tac => author'[i].name \in earnedNext
  <2>1. author[i] # None /\ author[i].tac => author[i].name \in earned
    BY DEF RightsEarned, MayBeActive
  <2>2. AuthorChange(i, w)
    BY StepAuthor
  <2>3. CASE author'[i] = author[i] \/ AuthorKept(i, w)
    BY <1>2, <1>3, <2>1, <2>3 DEF AuthorKept
  <2>4. CASE AuthorActivated(i, w)
    <3>1. author[i] \in AuthorRows
      BY <2>4 DEF AuthorActivated, TypeInv, TypeOK
    <3>2. author'[i].name = proc[w].req.nam
      BY <2>4, <3>1 DEF AuthorActivated, AuthorRows
    <3>3. <<proc[w].req.nam, proc[w].req.code>> \in activated'
      BY <2>4 DEF AuthorActivated
    <3> QED BY <3>2, <3>3
  <2>5. CASE AuthorAdded(i, w)
    <3>1. author'[i] = NewAuthor(proc[w].req)
      BY <2>5 DEF AuthorAdded, TypeInv, TypeOK
    <3> QED BY <3>1 DEF NewAuthor
  <2> QED BY <1>3, <2>2, <2>3, <2>4, <2>5 DEF AuthorChange
<1>4. ASSUME NEW s \in SessionIds, session'[s] # None
      PROVE  session'[s].vals.tac => session'[s].vals.name \in earnedNext
  <2>1. /\ session[s] # None /\ session[s].vals.tac => session[s].vals.name \in earned
        /\ proc[w].svals.tac => proc[w].svals.name \in earned
        /\ proc[w].who.tac => proc[w].who.name \in earned
    BY DEF RightsEarned, MayBeActive
  <2>2. SessionChange(s, w)
    BY StepSession
  <2>3. CASE SessionKept(s, w)
    BY <1>2, <2>1, <2>3 DEF SessionKept
  <2>4. CASE SessionAdded(s, w)
    <3>1. session'[s] = NewSession(proc[w].who)
      BY <2>4 DEF SessionAdded, TypeInv, TypeOK
    <3> QED BY <1>2, <2>1, <3>1 DEF NewSession
  <2> QED BY <1>4, <2>2, <2>3, <2>4 DEF SessionChange
<1>5. ASSUME NEW v \in Workers
      PROVE  /\ proc'[v].who.tac => proc'[v].who.name \in earnedNext
             /\ proc'[v].svals.tac => proc'[v].svals.name \in earnedNext
  <2>1. PICK c : Become(w, c) /\ ContextChange(w, c)
    BY StepContext DEF ContextStep
  <2>2. c.who.tac => c.who.name \in earned
    <3>1. UserChange(w, c.who) /\ proc[w].who \in Users
      BY <2>1, ContextType DEF ContextChange
    <3>2. proc[w].who.tac => proc[w].who.name \in earned
      BY DEF RightsEarned, MayBeActive
    <3>3. CASE \E s \in SessionIds : session[s] # None /\ c.who = CookieUser(s)
      BY <3>3 DEF CookieUser, RightsEarned, MayBeActive
    <3>4. CASE \E i \in AuthorIds : author[i] # None /\ c.who = LoginUser(i)
      BY <3>4 DEF LoginUser, RightsEarned, MayBeActive
    <3>5. CASE \E i \in AuthorIds : c.who = NewUser(proc[w].req, i)
      BY <3>5 DEF NewUser
    <3>6. CASE \/ c.who = proc[w].who
               \/ \E k \in Cookies : c.who = [proc[w].who EXCEPT !.cok = k]
               \/ \E s \in SessionIds : c.who = [proc[w].who EXCEPT !.sid = s]
      <4>1. c.who.tac = proc[w].who.tac /\ c.who.name = proc[w].who.name
        BY <3>1, <3>6 DEF Users
      <4> QED BY <4>1, <3>2
    <3> QED BY <3>1, <3>3, <3>4, <3>5, <3>6 DEF UserChange
  <2>3. c.svals.tac => c.svals.name \in earned
    BY <2>1 DEF ContextChange, SessionCopyChange, NoSessionVals, RightsEarned, MayBeActive
  <2>4. ~Idle.who.tac /\ ~Idle.svals.tac
    BY DEF Idle, NoUser, NoSessionVals
  <2>5. /\ proc[v].who.tac => proc[v].who.name \in earned
        /\ proc[v].svals.tac => proc[v].svals.name \in earned
    BY DEF RightsEarned, MayBeActive
  <2>6. proc'[v] \in {c, Idle, proc[v]}
    BY <2>1, BecomeChange
  <2> QED BY <1>2, <2>2, <2>3, <2>4, <2>5, <2>6
<1> QED BY <1>3, <1>4, <1>5 DEF RightsEarned, MayBeActive

LEMMA NextRights == TypeInv /\ RightsEarned /\ [Next]_vars => RightsEarned'
<1> SUFFICES ASSUME TypeInv, RightsEarned, [Next]_vars PROVE RightsEarned'
  OBVIOUS
<1>1. ASSUME NEW w \in Workers, Arrive(w) \/ Fail(w) PROVE RightsEarned'
  <2>1. UNCHANGED <<author, session, activated>>
    BY <1>1 DEF Arrive, Fail, history
  <2>2. \A v \in Workers : \/ proc'[v] = proc[v]
                           \/ proc'[v].who = NoUser /\ proc'[v].svals = NoSessionVals
    BY <1>1, ArriveChange, FailChange
  <2> QED BY <2>1, <2>2 DEF RightsEarned, MayBeActive, NoUser, NoSessionVals
<1>2. ASSUME NEW t \in SessionIds, Age(t) PROVE RightsEarned'
  <2>1. UNCHANGED <<author, proc, activated>>
    BY <1>2 DEF Age, history
  <2> QED BY <1>2, <2>1, AgeChange DEF RightsEarned, MayBeActive
<1>3. CASE UNCHANGED vars
  BY <1>3 DEF vars, history, RightsEarned, MayBeActive
<1> QED BY <1>1, <1>2, <1>3, StepRights DEF Next

(* Author rights come from an activation, for any number of processes and   *)
(* any reuse of row ids: login, cookie and filters only pass on what the    *)
(* Activate step has set.                                                   *)
THEOREM RightsHold == Spec => []RightsEarned
<1>1. Init => RightsEarned
  BY DEF Init, RightsEarned, MayBeActive, Idle, NoUser, NoSessionVals
<1> QED BY <1>1, InitType, NextType, NextRights, PTL DEF Spec

-----------------------------------------------------------------------------
(* Activation codes.                                                        *)

(* A process about to set TAC has compared the code of its request with the *)
(* stored one; the stored one may be gone by then.                          *)
ColumnCode == \A w \in Workers : At(w, "actColumn") => proc[w].req.code = proc[w].avals.code
Confirmation == ActivationConfirmed /\ ColumnCode

LEMMA StepConfirmation ==
  ASSUME TypeInv, Confirmation, NEW w \in Workers, Step(w)
  PROVE  Confirmation'
<1>1. HistoryChange(w)
  BY StepHistory
<1>2. /\ proc[w].avals.code \in issued \cup {None}
      /\ \A i \in AuthorIds : author[i] # None => author[i].vals.code \in issued \cup {None}
  BY DEF Confirmation, ActivationConfirmed
<1>3. ASSUME NEW p \in activated' PROVE p[2] \in issued'
  <2>1. CASE p \in activated
    BY <1>1, <2>1 DEF HistoryChange, Confirmation, ActivationConfirmed
  <2>2. CASE At(w, "actColumn") /\ p = <<proc[w].req.nam, proc[w].req.code>>
    <3>1. proc[w].req.code \in Codes
      BY <2>2, ContextType DEF At, ContextOK, ActivatePCs, Requests
    <3>2. proc[w].req.code \in issued
      BY <1>2, <2>2, <3>1, NoneAssumption DEF Confirmation, ColumnCode
    <3> QED BY <1>1, <2>2, <3>2 DEF HistoryChange
  <2> QED BY <1>1, <2>1, <2>2 DEF HistoryChange
<1>4. ASSUME NEW i \in AuthorIds, author'[i] # None
      PROVE  author'[i].vals.code \in issued' \cup {None}
  <2>1. AuthorChange(i, w)
    BY StepAuthor
  <2>2. CASE author'[i] = author[i] \/ AuthorKept(i, w)
    BY <1>1, <1>2, <1>4, <2>2 DEF AuthorKept, HistoryChange
  <2>3. CASE AuthorActivated(i, w)
    <3>1. author[i] \in AuthorRows
      BY <2>3 DEF AuthorActivated, TypeInv, TypeOK
    <3>2. author'[i].vals = author[i].vals
      BY <2>3, <3>1 DEF AuthorActivated, AuthorRows
    <3> QED BY <1>1, <1>2, <2>3, <3>2 DEF AuthorActivated, HistoryChange
  <2>4. CASE AuthorAdded(i, w)
    <3>1. author'[i] = NewAuthor(proc[w].req)
      BY <2>4 DEF AuthorAdded, TypeInv, TypeOK
    <3> QED BY <3>1 DEF NewAuthor
  <2> QED BY <1>4, <2>1, <2>2, <2>3, <2>4 DEF AuthorChange
<1>5. ASSUME NEW v \in Workers
      PROVE  /\ proc'[v].avals.code \in issued' \cup {None}
             /\ At(v, "actColumn")' => proc'[v].req.code = proc'[v].avals.code
  <2>1. PICK c : Become(w, c) /\ ContextChange(w, c)
    BY StepContext DEF ContextStep
  <2>2. c.avals.code \in issued \cup {None}
    BY <1>2, <2>1 DEF ContextChange, AuthorCopyChange, NoAuthorVals
  <2>3. /\ Idle.avals.code = None /\ Idle.pc # "actColumn"
        /\ c.pc = "actColumn" => c.req.code = c.avals.code
    BY <2>1 DEF Idle, NoAuthorVals, ContextChange
  <2>4. /\ proc[v].avals.code \in issued \cup {None}
        /\ proc[v].pc = "actColumn" => proc[v].req.code = proc[v].avals.code
    BY DEF Confirmation, ActivationConfirmed, ColumnCode, At
  <2>5. proc'[v] \in {c, Idle, proc[v]}
    BY <2>1, BecomeChange
  <2> QED BY <1>1, <2>2, <2>3, <2>4, <2>5 DEF HistoryChange, At
<1> QED BY <1>3, <1>4, <1>5 DEF Confirmation, ActivationConfirmed, ColumnCode

LEMMA NextConfirmation == TypeInv /\ Confirmation /\ [Next]_vars => Confirmation'
<1> SUFFICES ASSUME TypeInv, Confirmation, [Next]_vars PROVE Confirmation'
  OBVIOUS
<1>1. ASSUME NEW w \in Workers, Arrive(w) \/ Fail(w) PROVE Confirmation'
  <2>1. UNCHANGED <<author, issued, activated>>
    BY <1>1 DEF Arrive, Fail, history
  <2>2. \A v \in Workers : \/ proc'[v] = proc[v]
                           \/ proc'[v].avals = NoAuthorVals /\ ~At(v, "actColumn")'
    BY <1>1, ArriveChange, FailChange
  <2> QED BY <2>1, <2>2 DEF Confirmation, ActivationConfirmed, ColumnCode, At, NoAuthorVals
<1>2. ASSUME NEW t \in SessionIds, Age(t) PROVE Confirmation'
  BY <1>2 DEF Age, history, Confirmation, ActivationConfirmed, ColumnCode, At
<1>3. CASE UNCHANGED vars
  BY <1>3 DEF vars, history, Confirmation, ActivationConfirmed, ColumnCode, At
<1> QED BY <1>1, <1>2, <1>3, StepConfirmation DEF Next

(* Whoever was activated gave a code an administrator had generated; lost   *)
(* updates of VALS can remove a code or bring an old one back, but never     *)
(* make one up.                                                             *)
THEOREM ConfirmationHolds == Spec => []ActivationConfirmed
<1>1. Init => Confirmation
  BY DEF Init, Confirmation, ActivationConfirmed, ColumnCode, At, Idle, NoAuthorVals
<1>2. Confirmation => ActivationConfirmed
  BY DEF Confirmation
<1> QED BY <1>1, <1>2, InitType, NextType, NextConfirmation, PTL DEF Spec

-----------------------------------------------------------------------------
(* Cookies.                                                                 *)

(* Not only logged-in requests: also one that has drawn its cookie and not  *)
(* yet inserted the session acts for the author the session will have, and  *)
(* two requests with one cookie act for one author even when no session     *)
(* with that cookie is left.                                                *)
HolderBound ==
  \A w \in Workers, s \in SessionIds :
    session[s] # None /\ session[s].cok = proc[w].who.cok => session[s].aut = proc[w].who.aid
HoldersAgree ==
  \A v, w \in Workers :
    proc[v].who.cok = proc[w].who.cok /\ proc[v].who.cok # None
      => proc[v].who.aid = proc[w].who.aid
CookiesUnique ==
  \A s, t \in SessionIds :
    session[s] # None /\ session[t] # None /\ session[s].cok = session[t].cok => s = t
CookieInv == CookiesUnique /\ HolderBound /\ HoldersAgree

(* The user a statement gives to a request agrees with the sessions and     *)
(* with every other request.                                                *)
LEMMA UserAgrees ==
  ASSUME TypeInv, CookieInv, NEW w \in Workers, NEW u, UserChange(w, u), u.cok # None
  PROVE  /\ \A s \in SessionIds : session[s] # None /\ session[s].cok = u.cok => session[s].aut = u.aid
         /\ \A v \in Workers : proc[v].who.cok = u.cok => proc[v].who.aid = u.aid
<1>0. proc[w].who \in Users
  BY ContextType
<1>1. CASE \E s \in SessionIds : session[s] # None /\ u = CookieUser(s)
  <2>1. PICK s \in SessionIds : session[s] # None /\ u = CookieUser(s)
    BY <1>1
  <2>2. u.cok = session[s].cok /\ u.aid = session[s].aut
    BY <2>1 DEF CookieUser
  <2> QED BY <2>1, <2>2 DEF CookieInv, CookiesUnique, HolderBound
<1>2. CASE \/ \E i \in AuthorIds : u = NewUser(proc[w].req, i)
           \/ \E i \in AuthorIds : u = LoginUser(i)
  BY <1>2 DEF NewUser, LoginUser
<1>3. CASE u = proc[w].who \/ \E s \in SessionIds : u = [proc[w].who EXCEPT !.sid = s]
  <2>1. u.cok = proc[w].who.cok /\ u.aid = proc[w].who.aid
    BY <1>0, <1>3 DEF Users
  <2> QED BY <2>1 DEF CookieInv, HolderBound, HoldersAgree
<1>4. CASE \E k \in Cookies : CookieIsFresh(k) /\ u = [proc[w].who EXCEPT !.cok = k]
  <2>1. CookieIsFresh(u.cok)
    BY <1>0, <1>4 DEF Users
  <2> QED BY <2>1 DEF CookieIsFresh, SessionsByCookie
<1> QED BY <1>1, <1>2, <1>3, <1>4 DEF UserChange

LEMMA StepCookie ==
  ASSUME TypeInv, CookieInv, NEW w \in Workers, Step(w)
  PROVE  CookieInv'
<1>0. TypeInv'
  BY StepType
<1>1. PICK c : Become(w, c) /\ ContextChange(w, c)
  BY StepContext DEF ContextStep
<1> DEFINE u == c.who
<1>2. UserChange(w, u)
  BY <1>1 DEF ContextChange
<1>3. /\ proc'[w].who = u \/ proc'[w].who.cok = None
      /\ \A v \in Workers : v = w \/ proc'[v] = proc[v]
  BY <1>1, BecomeChange DEF Idle, NoUser
<1> HIDE DEF u
<1>4. ASSUME NEW s \in SessionIds, session'[s] # None
      PROVE  \/ /\ session[s] # None
                /\ session'[s].cok = session[s].cok /\ session'[s].aut = session[s].aut
             \/ SessionAdded(s, w) /\ session'[s].cok = proc[w].who.cok /\ session'[s].aut = proc[w].who.aid
  <2>1. SessionChange(s, w)
    BY StepSession
  <2>2. CASE SessionAdded(s, w)
    <3>1. session'[s] = NewSession(proc[w].who)
      BY <2>2 DEF SessionAdded, TypeInv, TypeOK
    <3> QED BY <2>2, <3>1 DEF NewSession
  <2> QED BY <1>4, <2>1, <2>2 DEF SessionChange, SessionKept
<1>5. ASSUME NEW s \in SessionIds, NEW t \in SessionIds, SessionAdded(s, w), s # t, session'[t] # None
      PROVE  session[t] # None /\ session'[t].cok = session[t].cok /\ session[t].cok # proc[w].who.cok
  <2>1. session'[t] = session[t]
    BY <1>5 DEF SessionAdded, TypeInv, TypeOK
  <2> QED BY <1>5, <2>1 DEF SessionAdded, SessionsByCookie
<1>6. CookiesUnique'
  BY <1>4, <1>5 DEF CookiesUnique, CookieInv
<1>7. ASSUME NEW v \in Workers, NEW s \in SessionIds, session'[s] # None,
             session'[s].cok = proc'[v].who.cok
      PROVE  session'[s].aut = proc'[v].who.aid
  <2>1. session'[s].cok # None
    BY <1>0, <1>7, NoneAssumption DEF TypeInv, TypeOK, SessionRows
  <2>2. CASE proc'[v].who = proc[v].who
    BY <1>4, <1>7, <2>1, <2>2 DEF CookieInv, HolderBound, HoldersAgree
  <2>3. CASE proc'[v].who = u
    BY <1>2, <1>4, <1>7, <2>1, <2>3, UserAgrees
  <2> QED BY <1>3, <1>7, <2>1, <2>2, <2>3
<1>8. HolderBound'
  BY <1>7 DEF HolderBound
<1>9. HoldersAgree'
  <2>1. \A v \in Workers : u.cok # None /\ proc[v].who.cok = u.cok => proc[v].who.aid = u.aid
    BY <1>2, UserAgrees
  <2> QED BY <1>3, <2>1 DEF HoldersAgree, CookieInv
<1> QED BY <1>6, <1>8, <1>9 DEF CookieInv

LEMMA NextCookie == TypeInv /\ CookieInv /\ [Next]_vars => CookieInv'
<1> SUFFICES ASSUME TypeInv, CookieInv, [Next]_vars PROVE CookieInv'
  OBVIOUS
<1>1. ASSUME NEW w \in Workers, Arrive(w) \/ Fail(w) PROVE CookieInv'
  <2>1. UNCHANGED session
    BY <1>1 DEF Arrive, Fail
  <2>2. \A v \in Workers : proc'[v] = proc[v] \/ proc'[v].who.cok = None
    BY <1>1, ArriveChange, FailChange DEF NoUser
  <2>3. \A s \in SessionIds : session[s] # None => session[s].cok # None
    BY NoneAssumption DEF TypeInv, TypeOK, SessionRows
  <2> QED BY <2>1, <2>2, <2>3 DEF CookieInv, CookiesUnique, HolderBound, HoldersAgree
<1>2. ASSUME NEW t \in SessionIds, Age(t) PROVE CookieInv'
  <2>1. UNCHANGED proc
    BY <1>2 DEF Age
  <2> QED BY <1>2, <2>1, AgeChange DEF CookieInv, CookiesUnique, HolderBound, HoldersAgree
<1>3. CASE UNCHANGED vars
  BY <1>3 DEF vars, CookieInv, CookiesUnique, HolderBound, HoldersAgree
<1> QED BY <1>1, <1>2, <1>3, StepCookie DEF Next

(* A session row with the cookie of a logged-in request belongs to the      *)
(* author of that request, however many processes log in, log out, sweep    *)
(* and reuse row ids.                                                       *)
THEOREM CookieHolds == Spec => []CookieBindsAuthor
<1>1. Init => CookieInv
  BY DEF Init, CookieInv, CookiesUnique, HolderBound, HoldersAgree
<1>2. CookieInv => CookieBindsAuthor
  BY DEF CookieInv, CookiesUnique, HolderBound, CookieBindsAuthor
<1> QED BY <1>1, <1>2, InitType, NextType, NextCookie, PTL DEF Spec
=============================================================================
