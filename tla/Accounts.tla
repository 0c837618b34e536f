------------------------------ MODULE Accounts ------------------------------
(***************************************************************************)
(* Authors, sessions and the requests on them in the Arvos directory       *)
(* service: avBase.c, avDbAuthor.c, avDbSession.c and the account actions  *)
(* of avDirectoryService.c.                                                *)
(*                                                                         *)
(* Every HTTP request is a CGI process of its own; the processes share one *)
(* SQLite file.  avSqlExec runs each SQL statement as a transaction of its *)
(* own, so a step of the model is ONE STATEMENT together with the code     *)
(* that runs before the next one, and statements of different requests     *)
(* interleave freely.  A process that cannot run a statement (database     *)
(* locked or full, UNIQUE violated) leaves through pblCgiExitOnError, with *)
(* whatever its earlier statements wrote committed: action Fail.           *)
(*                                                                         *)
(* Names, passwords, activation codes and cookies are tokens.  A password  *)
(* stands for its salted hash.  Times are two-valued: a session is `old'   *)
(* or not, an author is activated (`tac') or not.                          *)
(***************************************************************************)
EXTENDS Naturals, FiniteSets

CONSTANTS
  Workers,       \* CGI processes that run at the same time
  Names,         \* author names clients use
  Admins,        \* names listed under ADMINISTRATOR_NAMES in the config file
  Pwds,          \* passwords
  Codes,         \* activation codes avRandomCode can still produce (a bound)
  Cookies,       \* session cookies (a bound)
  MaxAuthorId,   \* bound on the row ids of table author
  MaxSessionId,  \* bound on the row ids of table session
  Acts,          \* the actions clients ask for
  Ageing,        \* whether sessions grow older than the hour they live
  None           \* no row, no value

AllActs == {"Register", "Activate", "ListChannels", "Login", "Logout",
            "ChangePassword", "DeleteAuthor", "EditChannel", "ConfirmAuthor", "DeleteSession"}

ASSUME BoundAssumption == MaxAuthorId \in Nat /\ MaxSessionId \in Nat
ASSUME NoneAssumption == None \notin Names \cup Pwds \cup Codes \cup Cookies
ASSUME NameAssumption == Admins \subseteq Names
ASSUME ActAssumption == Acts \subseteq AllActs /\ Ageing \in BOOLEAN

AuthorIds  == 1..MaxAuthorId
SessionIds == 1..MaxSessionId
Ids == AuthorIds \cup SessionIds

(* Column VALS of an author row: password hash (PWD), activation code (ANC). *)
(* Of a session row: the author's name (NAM) and activation time (TAC).      *)
AuthorVals  == [pwd : Pwds \cup {None}, code : Codes \cup {None}]
SessionVals == [name : Names \cup {None}, tac : BOOLEAN]
NoAuthorVals  == [pwd |-> None, code |-> None]
NoSessionVals == [name |-> None, tac |-> FALSE]

AuthorRows  == [name : Names, tac : BOOLEAN, vals : AuthorVals]
SessionRows == [cok : Cookies, aut : AuthorIds, old : BOOLEAN, vals : SessionVals]
AccountRecords == [name : Names, active : BOOLEAN]
ASSUME RowAssumption == None \notin AuthorRows \cup SessionRows \cup AccountRecords

(* The user of a request: avUserIsLoggedIn, avUserId, avSessionId, whether  *)
(* avUserIsAuthor would be set by activation, and the cookie.  sid = 0 until *)
(* avLoginUser has run.                                                      *)
Users == [name : Names \cup {None}, aid : AuthorIds \cup {0}, sid : SessionIds \cup {0},
          tac : BOOLEAN, cok : Cookies \cup {None}]
NoUser == [name |-> None, aid |-> 0, sid |-> 0, tac |-> FALSE, cok |-> None]

(* What a client sends: ACT, the cookie, NAM, PWD, the old password, an id  *)
(* (ID or DATA) and ANC.                                                    *)
RequestRecords ==
  [act : AllActs, cok : Cookies \cup {None}, nam : Names \cup {None},
   pwd : Pwds \cup {None}, old : Pwds \cup {None}, id : Ids \cup {0},
   code : Codes \cup {None}]
NoRequest == [act |-> "Login", cok |-> None, nam |-> None, pwd |-> None,
              old |-> None, id |-> 0, code |-> None]

PCs == {"idle", "cookie", "touch", "recheck", "retouch",
        "regCheck", "regInsert", "sweep", "expire", "draw", "insert", "getId",
        "actRead", "actWrite", "actColumn", "actRead2", "actClear",
        "login", "login2", "logRead", "logWrite", "logout",
        "chpCheck", "chpRead", "chpWrite",
        "delAuthor", "delChannels", "delSessions",
        "cnfRead", "cnfWrite", "delSession", "fltRead", "fltWrite", "channel"}

VARIABLES
  author,     \* table author: row id -> row or None
  session,    \* table session: row id -> row or None
  proc,       \* the request each worker serves
  issued,     \* history: codes avRandomCode produced for ConfirmAuthor
  activated,  \* history: <<name, code>> pairs the activation step accepted
  reviewed    \* history: ids of the accounts ConfirmAuthor generated a code for

history == <<issued, activated, reviewed>>
vars == <<author, session, proc, history>>

(* avals and svals hold the copy of VALS a read-modify-write works on,      *)
(* sweep the expired session ids avDbSessionInsert still has to delete.     *)
Contexts == [pc : PCs, req : RequestRecords, who : Users, avals : AuthorVals,
             svals : SessionVals, sweep : SUBSET SessionIds]
Idle == [pc |-> "idle", req |-> NoRequest, who |-> NoUser,
         avals |-> NoAuthorVals, svals |-> NoSessionVals, sweep |-> {}]

Init ==
  /\ author = [i \in AuthorIds |-> None]
  /\ session = [i \in SessionIds |-> None]
  /\ proc = [w \in Workers |-> Idle]
  /\ issued = {}
  /\ activated = {}
  /\ reviewed = {}

-----------------------------------------------------------------------------
(* The tables.                                                              *)

(* INTEGER PRIMARY KEY without AUTOINCREMENT: a new row gets the largest id *)
(* in use plus one, so the id of the last row is used again once it is gone. *)
IsNextRowid(i, table) ==
  /\ \A j \in DOMAIN table : j >= i => table[j] = None
  /\ i > 1 => table[i - 1] # None

AuthorsById(id) == {i \in AuthorIds : i = id /\ author[i] # None}
AuthorsByName(n) == {i \in AuthorIds : author[i] # None /\ author[i].name = n}
SessionsById(id) == {s \in SessionIds : s = id /\ session[s] # None}
SessionsByCookie(k) == {s \in SessionIds : session[s] # None /\ session[s].cok = k}

(* The SELECT of avDb...UpdateValues: an empty map when no row matches.     *)
BugAuthorCopies(rows) == {NoAuthorVals}
AuthorCopies(rows) == IF rows = {} THEN {NoAuthorVals} ELSE {author[i].vals : i \in rows}
BugSessionCopies(rows) == {NoSessionVals}
SessionCopies(rows) == IF rows = {} THEN {NoSessionVals} ELSE {session[s].vals : s \in rows}

(* The UPDATE of avDb...UpdateValues writes the whole column VALS back.     *)
WriteAuthorVals(rows, v) ==
  author' = [i \in AuthorIds |-> IF i \in rows THEN [author[i] EXCEPT !.vals = v] ELSE author[i]]
WriteSessionVals(rows, v) ==
  session' = [s \in SessionIds |-> IF s \in rows THEN [session[s] EXCEPT !.vals = v] ELSE session[s]]

DeleteAuthors(rows) == author' = [i \in AuthorIds |-> IF i \in rows THEN None ELSE author[i]]
DeleteSessions(rows) == session' = [s \in SessionIds |-> IF s \in rows THEN None ELSE session[s]]

-----------------------------------------------------------------------------
(* Control flow of a request.                                               *)

At(w, pc) == proc[w].pc = pc

(* A process that has printed its page exits and forgets everything.        *)
Become(w, c) == proc' = [proc EXCEPT ![w] = IF c.pc = "idle" THEN Idle ELSE c]
Goto(w, pc) == Become(w, [proc[w] EXCEPT !.pc = pc])

IsLoggedIn(u) == u.sid # 0
IsAdministrator(u) == u.name \in Admins
BugIsAuthor(u) == TRUE
IsAuthor(u) == u.tac \/ IsAdministrator(u)

(* main() after the login check, for the actions modelled here.  Pages that *)
(* only list change nothing.  EditChannel stands for DeleteChannel as well.  *)
ChangePasswordStart(r, u) ==
  IF r.nam = u.name THEN "chpCheck" ELSE IF IsAdministrator(u) THEN "chpRead" ELSE "idle"

MayDeleteAuthor(r, u) == IsAdministrator(u) \/ r.id = u.aid

Dispatch(r, u) ==
  IF r.act = "Logout" THEN "logout"
  ELSE IF r.act = "ChangePassword" THEN ChangePasswordStart(r, u)
  ELSE IF r.act = "DeleteAuthor" /\ MayDeleteAuthor(r, u) THEN "delAuthor"
  ELSE IF r.act = "EditChannel" /\ IsAuthor(u) THEN "channel"
  ELSE IF r.act = "ConfirmAuthor" /\ IsAdministrator(u) THEN "cnfRead"
  ELSE IF r.act = "DeleteSession" /\ IsAdministrator(u) THEN "delSession"
  ELSE "idle"

(* actionCheckLogin(1) without a valid cookie.                              *)
LoginStart(r) == IF r.nam # None /\ r.pwd # None THEN "login" ELSE "idle"

Protected(r, u) ==
  IF IsLoggedIn(u) THEN Dispatch(r, u)
  ELSE IF r.cok # None THEN "recheck" ELSE LoginStart(r)

Public(r, u) ==
  IF r.act = "Register" THEN "regCheck"
  ELSE IF r.act = "Activate" THEN "actRead"
  ELSE IF r.act # "ListChannels" THEN Protected(r, u)
  ELSE IF IsLoggedIn(u) THEN "fltRead" ELSE "idle"

-----------------------------------------------------------------------------
(* Requests as the forms of templates/ send them.                           *)
Requests ==
  LET cookies == Cookies \cup {None}
  IN  [act : {"Register", "Login"}, cok : cookies, nam : Names, pwd : Pwds,
       old : {None}, id : {0}, code : {None}]
      \cup
      [act : {"Activate"}, cok : cookies, nam : Names, pwd : Pwds \cup {None},
       old : {None}, id : {0}, code : Codes]
      \cup
      [act : {"ChangePassword"}, cok : cookies, nam : Names, pwd : Pwds,
       old : Pwds, id : {0}, code : {None}]
      \cup
      [act : {"ListChannels", "Logout", "EditChannel"}, cok : cookies, nam : {None}, pwd : {None},
       old : {None}, id : {0}, code : {None}]
      \cup
      [act : {"DeleteAuthor", "ConfirmAuthor"}, cok : cookies, nam : {None}, pwd : {None},
       old : {None}, id : AuthorIds, code : {None}]
      \cup
      [act : {"DeleteSession"}, cok : cookies, nam : {None}, pwd : {None},
       old : {None}, id : SessionIds, code : {None}]

(* The bound Codes leaves one code for every administrator on the way.      *)
Confirming == {w \in Workers : proc[w].req.act = "ConfirmAuthor"}
CodesLeft == Cardinality(Confirming) < Cardinality(Codes \ issued)

(* A client sends no cookie, or one that is in the table when it is sent;   *)
(* any other cookie is like none.                                           *)
Arrive(w) ==
  /\ At(w, "idle")
  /\ \E r \in Requests :
       /\ r.act \in Acts
       /\ r.act = "ConfirmAuthor" => CodesLeft
       /\ r.cok # None => SessionsByCookie(r.cok) # {}
       /\ Become(w, [Idle EXCEPT !.req = r,
                                 !.pc = IF r.cok # None THEN "cookie" ELSE Public(r, NoUser)])
  /\ UNCHANGED <<author, session, history>>

-----------------------------------------------------------------------------
(* The cookie of the request: avCheckCookie, for actionCheckLogin(0) and    *)
(* again for actionCheckLogin(1) when the first one did not log in.         *)

CookieUser(s) == [name |-> session[s].vals.name, aid |-> session[s].aut, sid |-> s,
                  tac |-> session[s].vals.tac, cok |-> session[s].cok]

CookieAccepted(w, next) ==
  \E s \in SessionsByCookie(proc[w].req.cok) :
    /\ session[s].vals.name # None
    /\ Become(w, [proc[w] EXCEPT !.who = CookieUser(s), !.pc = next])

CookieRejected(w, next) ==
  /\ \A s \in SessionsByCookie(proc[w].req.cok) : session[s].vals.name = None
  /\ Goto(w, next)

CheckCookie(w) ==
  /\ \/ /\ At(w, "cookie")
        /\ CookieAccepted(w, "touch") \/ CookieRejected(w, Public(proc[w].req, NoUser))
     \/ /\ At(w, "recheck")
        /\ CookieAccepted(w, "retouch") \/ CookieRejected(w, LoginStart(proc[w].req))
  /\ UNCHANGED <<author, session, history>>

(* UPDATE session SET TLA = now WHERE ID = ...                              *)
Refreshed(rows) ==
  session' = [s \in SessionIds |-> IF s \in rows THEN [session[s] EXCEPT !.old = FALSE] ELSE session[s]]

TouchSession(w) ==
  /\ \/ At(w, "touch") /\ Goto(w, Public(proc[w].req, proc[w].who))
     \/ At(w, "retouch") /\ Goto(w, Dispatch(proc[w].req, proc[w].who))
  /\ Refreshed(SessionsById(proc[w].who.sid))
  /\ UNCHANGED <<author, history>>

-----------------------------------------------------------------------------
(* Register: avAuthorCreate.                                                *)

RegisterCheck(w) ==
  /\ At(w, "regCheck")
  /\ Goto(w, IF AuthorsByName(proc[w].req.nam) # {} THEN "idle" ELSE "regInsert")
  /\ UNCHANGED <<author, session, history>>

NameIsFree(n) == AuthorsByName(n) = {}
BugNewAuthor(r) == [name |-> r.nam, tac |-> TRUE, vals |-> [pwd |-> r.pwd, code |-> None]]
NewAuthor(r) == [name |-> r.nam, tac |-> FALSE, vals |-> [pwd |-> r.pwd, code |-> None]]
NewUser(r, i) == [name |-> r.nam, aid |-> i, sid |-> 0, tac |-> FALSE, cok |-> None]

(* INSERT INTO author; SELECT last_insert_rowid().                          *)
RegisterInsert(w) ==
  /\ At(w, "regInsert")
  /\ LET r == proc[w].req
     IN  \/ /\ NameIsFree(r.nam)
            /\ \E i \in AuthorIds :
                 /\ IsNextRowid(i, author)
                 /\ author' = [author EXCEPT ![i] = NewAuthor(r)]
                 /\ reviewed' = reviewed \ {i}
                 /\ Become(w, [proc[w] EXCEPT !.who = NewUser(r, i), !.pc = "sweep"])
         \/ /\ ~NameIsFree(r.nam) \/ \A i \in AuthorIds : ~IsNextRowid(i, author)
            /\ Goto(w, "idle")
            /\ UNCHANGED <<author, reviewed>>
  /\ UNCHANGED <<session, issued, activated>>

-----------------------------------------------------------------------------
(* avSessionCreate and avDbSessionInsert, from Register and from the login. *)

BugIsExpired(row) == TRUE
IsExpired(row) == row.old

(* SELECT ID FROM session WHERE TLA < an hour ago.                          *)
SelectExpired(w) ==
  /\ At(w, "sweep")
  /\ LET E == {s \in SessionIds : session[s] # None /\ IsExpired(session[s])}
     IN  Become(w, [proc[w] EXCEPT !.sweep = E, !.pc = IF E = {} THEN "draw" ELSE "expire"])
  /\ UNCHANGED <<author, session, history>>

(* One DELETE for each id found; the loop index moves on.                   *)
BugRemaining(E, s) == E
Remaining(E, s) == E \ {s}

ExpireSession(w) ==
  /\ At(w, "expire")
  /\ \E s \in proc[w].sweep :
       LET E == Remaining(proc[w].sweep, s)
       IN  /\ DeleteSessions(SessionsById(s))
           /\ Become(w, [proc[w] EXCEPT !.sweep = E, !.pc = IF E = {} THEN "draw" ELSE "expire"])
  /\ UNCHANGED <<author, history>>

(* The loop that draws 32 random bytes until SELECT finds no such cookie.   *)
(* Random cookies do not repeat, so a cookie a request still holds is not   *)
(* drawn; one that nobody knows any more may stand for a new one.           *)
BugCookieIsFresh(k) == SessionsByCookie(k) = {}
CookieIsFresh(k) ==
  /\ SessionsByCookie(k) = {}
  /\ \A w \in Workers : proc[w].req.cok # k /\ proc[w].who.cok # k

DrawCookie(w) ==
  /\ At(w, "draw")
  /\ \E k \in Cookies :
       /\ CookieIsFresh(k)
       /\ Become(w, [proc[w] EXCEPT !.who = [proc[w].who EXCEPT !.cok = k], !.pc = "insert"])
  /\ UNCHANGED <<author, session, history>>

NewSession(u) == [cok |-> u.cok, aut |-> u.aid, old |-> FALSE,
                  vals |-> [name |-> u.name, tac |-> u.tac]]

InsertSession(w) ==
  /\ At(w, "insert")
  /\ \/ /\ SessionsByCookie(proc[w].who.cok) = {}
        /\ \E s \in SessionIds :
             /\ IsNextRowid(s, session)
             /\ session' = [session EXCEPT ![s] = NewSession(proc[w].who)]
             /\ Goto(w, "getId")
     \/ /\ \/ SessionsByCookie(proc[w].who.cok) # {}
           \/ \A s \in SessionIds : ~IsNextRowid(s, session)
        /\ Goto(w, "idle")
        /\ UNCHANGED session
  /\ UNCHANGED <<author, history>>

(* The SELECT ID after the INSERT; then avLoginUser.                        *)
AfterSession(r, u) == IF r.act = "Register" THEN "idle" ELSE Dispatch(r, u)

GetSessionId(w) ==
  /\ At(w, "getId")
  /\ \/ \E s \in SessionsByCookie(proc[w].who.cok) :
          LET u == [proc[w].who EXCEPT !.sid = s]
          IN  Become(w, [proc[w] EXCEPT !.who = u, !.pc = AfterSession(proc[w].req, u)])
     \/ SessionsByCookie(proc[w].who.cok) = {} /\ Goto(w, "idle")
  /\ UNCHANGED <<author, session, history>>

-----------------------------------------------------------------------------
(* Login with name and password: avCheckNameAndPasswordAndLogin.            *)

PasswordMatches(given, stored) == given = stored

(* avCheckNameAndPassword: the row of that name, with that password.        *)
PasswordAccepted(r, given) ==
  \E i \in AuthorsByName(r.nam) : PasswordMatches(given, author[i].vals.pwd)

LoginCheck(w) ==
  /\ At(w, "login")
  /\ Goto(w, IF PasswordAccepted(proc[w].req, proc[w].req.pwd) THEN "login2" ELSE "idle")
  /\ UNCHANGED <<author, session, history>>

BugLoginUser(i) == [name |-> i, aid |-> i, sid |-> 0, tac |-> author[i].tac, cok |-> None]
LoginUser(i) == [name |-> author[i].name, aid |-> i, sid |-> 0,
                 tac |-> author[i].tac, cok |-> None]

(* The row is read a second time, by name.                                  *)
LoginSelect(w) ==
  /\ At(w, "login2")
  /\ \/ \E i \in AuthorsByName(proc[w].req.nam) :
          Become(w, [proc[w] EXCEPT !.who = LoginUser(i), !.pc = "logRead"])
     \/ AuthorsByName(proc[w].req.nam) = {} /\ Goto(w, "idle")
  /\ UNCHANGED <<author, session, history>>

(* avDbAuthorUpdateValues by id: login count and time of last access.       *)
LoginRead(w) ==
  /\ At(w, "logRead")
  /\ \E v \in AuthorCopies(AuthorsById(proc[w].who.aid)) :
       Become(w, [proc[w] EXCEPT !.avals = v, !.pc = "logWrite"])
  /\ UNCHANGED <<author, session, history>>

LoginWrite(w) ==
  /\ At(w, "logWrite")
  /\ WriteAuthorVals(AuthorsById(proc[w].who.aid), proc[w].avals)
  /\ Goto(w, "sweep")
  /\ UNCHANGED <<session, history>>

-----------------------------------------------------------------------------
(* Activate: five statements, all by author name.                           *)

ActivateRead(w) ==
  /\ At(w, "actRead")
  /\ \E v \in AuthorCopies(AuthorsByName(proc[w].req.nam)) :
       Become(w, [proc[w] EXCEPT !.avals = v, !.pc = "actWrite"])
  /\ UNCHANGED <<author, session, history>>

BugCodeMatches(given, stored) == TRUE
CodeMatches(given, stored) == given = stored

(* Time of last access is written back before the code is compared.         *)
ActivateWrite(w) ==
  /\ At(w, "actWrite")
  /\ WriteAuthorVals(AuthorsByName(proc[w].req.nam), proc[w].avals)
  /\ Goto(w, IF CodeMatches(proc[w].req.code, proc[w].avals.code) THEN "actColumn" ELSE "idle")
  /\ UNCHANGED <<session, history>>

(* UPDATE author SET TAC = now WHERE NAM = ...                              *)
ActivateColumn(w) ==
  /\ At(w, "actColumn")
  /\ LET r == proc[w].req
     IN  /\ author' = [i \in AuthorIds |-> IF i \in AuthorsByName(r.nam)
                                            THEN [author[i] EXCEPT !.tac = TRUE] ELSE author[i]]
         /\ activated' = activated \cup {<<r.nam, r.code>>}
  /\ Goto(w, "actRead2")
  /\ UNCHANGED <<session, issued, reviewed>>

ActivateReadAgain(w) ==
  /\ At(w, "actRead2")
  /\ \E v \in AuthorCopies(AuthorsByName(proc[w].req.nam)) :
       Become(w, [proc[w] EXCEPT !.avals = v, !.pc = "actClear"])
  /\ UNCHANGED <<author, session, history>>

(* The code is used up; then main() goes on behind Activate.                *)
ActivateClear(w) ==
  /\ At(w, "actClear")
  /\ WriteAuthorVals(AuthorsByName(proc[w].req.nam), [proc[w].avals EXCEPT !.code = None])
  /\ Goto(w, Protected(proc[w].req, proc[w].who))
  /\ UNCHANGED <<session, history>>

-----------------------------------------------------------------------------
(* ConfirmAuthor, by an administrator: a new activation code.               *)

ConfirmRead(w) ==
  /\ At(w, "cnfRead")
  /\ \E v \in AuthorCopies(AuthorsById(proc[w].req.id)) :
       Become(w, [proc[w] EXCEPT !.avals = v, !.pc = "cnfWrite"])
  /\ UNCHANGED <<author, session, history>>

ConfirmWrite(w) ==
  /\ At(w, "cnfWrite")
  /\ \E c \in Codes \ issued :
       /\ WriteAuthorVals(AuthorsById(proc[w].req.id), [proc[w].avals EXCEPT !.code = c])
       /\ issued' = issued \cup {c}
  /\ reviewed' = reviewed \cup AuthorsById(proc[w].req.id)
  /\ Goto(w, "idle")
  /\ UNCHANGED <<session, activated>>

-----------------------------------------------------------------------------
(* ChangePassword.                                                          *)

ChangeCheck(w) ==
  /\ At(w, "chpCheck")
  /\ Goto(w, IF PasswordAccepted(proc[w].req, proc[w].req.old) THEN "chpRead" ELSE "idle")
  /\ UNCHANGED <<author, session, history>>

ChangeRead(w) ==
  /\ At(w, "chpRead")
  /\ \E v \in AuthorCopies(AuthorsByName(proc[w].req.nam)) :
       Become(w, [proc[w] EXCEPT !.avals = v, !.pc = "chpWrite"])
  /\ UNCHANGED <<author, session, history>>

ChangeWrite(w) ==
  /\ At(w, "chpWrite")
  /\ WriteAuthorVals(AuthorsByName(proc[w].req.nam), [proc[w].avals EXCEPT !.pwd = proc[w].req.pwd])
  /\ Goto(w, "idle")
  /\ UNCHANGED <<session, history>>

-----------------------------------------------------------------------------
(* Logout, DeleteSession and DeleteAuthor.                                  *)

Logout(w) ==
  /\ At(w, "logout")
  /\ DeleteSessions(SessionsByCookie(proc[w].who.cok))
  /\ Goto(w, "idle")
  /\ UNCHANGED <<author, history>>

DeleteSession(w) ==
  /\ At(w, "delSession")
  /\ DeleteSessions(SessionsById(proc[w].req.id))
  /\ Goto(w, "idle")
  /\ UNCHANGED <<author, history>>

DeleteAuthor(w) ==
  /\ At(w, "delAuthor")
  /\ DeleteAuthors(AuthorsById(proc[w].req.id))
  /\ reviewed' = reviewed \ AuthorsById(proc[w].req.id)
  /\ Goto(w, "delChannels")
  /\ UNCHANGED <<session, issued, activated>>

(* avDbChannelDeleteByAuthor touches no account; avSessionDeleteByAuthor    *)
(* does nothing unless an administrator deletes.                            *)
AfterDelete(u) == IF IsAdministrator(u) THEN "delSessions" ELSE "logout"

DeleteAuthorChannels(w) ==
  /\ At(w, "delChannels")
  /\ Goto(w, AfterDelete(proc[w].who))
  /\ UNCHANGED <<author, session, history>>

DeleteAuthorSessions(w) ==
  /\ At(w, "delSessions")
  /\ DeleteSessions({s \in SessionIds : session[s] # None /\ session[s].aut = proc[w].req.id})
  /\ Goto(w, "idle")
  /\ UNCHANGED <<author, history>>

-----------------------------------------------------------------------------
(* ListChannels with filters to apply: the session's VALS are rewritten.    *)

FilterRead(w) ==
  /\ At(w, "fltRead")
  /\ \E v \in SessionCopies(SessionsById(proc[w].who.sid)) :
       Become(w, [proc[w] EXCEPT !.svals = v, !.pc = "fltWrite"])
  /\ UNCHANGED <<author, session, history>>

FilterWrite(w) ==
  /\ At(w, "fltWrite")
  /\ WriteSessionVals(SessionsById(proc[w].who.sid), proc[w].svals)
  /\ Goto(w, "idle")
  /\ UNCHANGED <<author, history>>

-----------------------------------------------------------------------------
(* The actions on channels change no account; Channels has their statements, *)
(* DirectoryService both.                                                    *)
ServeChannel(w) ==
  /\ At(w, "channel")
  /\ Goto(w, "idle")
  /\ UNCHANGED <<author, session, history>>

-----------------------------------------------------------------------------
(* A statement fails, or the web server kills the process.                  *)
Fail(w) ==
  /\ ~At(w, "idle")
  /\ Goto(w, "idle")
  /\ UNCHANGED <<author, session, history>>

(* An hour without a request.                                               *)
Age(s) ==
  /\ Ageing
  /\ session[s] # None
  /\ session' = [session EXCEPT ![s].old = TRUE]
  /\ UNCHANGED <<author, proc, history>>

Step(w) ==
  \/ CheckCookie(w) \/ TouchSession(w)
  \/ RegisterCheck(w) \/ RegisterInsert(w)
  \/ SelectExpired(w) \/ ExpireSession(w) \/ DrawCookie(w) \/ InsertSession(w) \/ GetSessionId(w)
  \/ LoginCheck(w) \/ LoginSelect(w) \/ LoginRead(w) \/ LoginWrite(w)
  \/ ActivateRead(w) \/ ActivateWrite(w) \/ ActivateColumn(w)
  \/ ActivateReadAgain(w) \/ ActivateClear(w)
  \/ ConfirmRead(w) \/ ConfirmWrite(w)
  \/ ChangeCheck(w) \/ ChangeRead(w) \/ ChangeWrite(w)
  \/ Logout(w) \/ DeleteSession(w)
  \/ DeleteAuthor(w) \/ DeleteAuthorChannels(w) \/ DeleteAuthorSessions(w)
  \/ FilterRead(w) \/ FilterWrite(w) \/ ServeChannel(w)

Next ==
  \/ \E w \in Workers : Arrive(w) \/ Step(w) \/ Fail(w)
  \/ \E s \in SessionIds : Age(s)

Spec == Init /\ [][Next]_vars

(* The operating system runs every process until its request is answered.   *)
FairSpec == Spec /\ \A w \in Workers : WF_vars(Step(w))

-----------------------------------------------------------------------------
(* Properties.  Operators whose names begin with Bug are faulty versions of *)
(* the definition behind them; no action uses them.                         *)

(* Every table row, copy and user has the form the code gives it.           *)
TypeOK ==
  /\ author \in [AuthorIds -> AuthorRows \cup {None}]
  /\ session \in [SessionIds -> SessionRows \cup {None}]
  /\ proc \in [Workers -> Contexts]
  /\ issued \subseteq Codes
  /\ activated \subseteq Names \X Codes
  /\ reviewed \subseteq AuthorIds

(* Author rights come from an activation.  A stored author, a session row,   *)
(* a copy of one in a process and the user of a request are marked activated *)
(* only under a name that the Activate step has accepted a code for, however *)
(* the read-modify-writes of VALS and the reuse of row ids shuffle the rows. *)
MayBeActive(n, t) == t => n \in {p[1] : p \in activated}
RightsEarned ==
  /\ \A i \in AuthorIds : author[i] # None => MayBeActive(author[i].name, author[i].tac)
  /\ \A s \in SessionIds :
       session[s] # None => MayBeActive(session[s].vals.name, session[s].vals.tac)
  /\ \A w \in Workers : /\ MayBeActive(proc[w].who.name, proc[w].who.tac)
                        /\ MayBeActive(proc[w].svals.name, proc[w].svals.tac)

(* A code that activated anybody was generated by an administrator before,   *)
(* and so was every code stored or about to be written back by a process.    *)
ActivationConfirmed ==
  /\ \A p \in activated : p[2] \in issued
  /\ \A i \in AuthorIds : author[i] # None => author[i].vals.code \in issued \cup {None}
  /\ \A w \in Workers : proc[w].avals.code \in issued \cup {None}

(* A cookie means one author for as long as anybody holds it: the session    *)
(* row with the cookie of a request belongs to the author the request acts   *)
(* for, after any number of logouts, expiries, deletions and reused ids.     *)
CookieBindsAuthor ==
  /\ \A s, t \in SessionIds :
       session[s] # None /\ session[t] # None /\ session[s].cok = session[t].cok => s = t
  /\ \A w \in Workers, s \in SessionIds :
       session[s] # None /\ IsLoggedIn(proc[w].who) /\ session[s].cok = proc[w].who.cok
         => session[s].aut = proc[w].who.aid

(* A row that goes on from one state to the next: same id, same author.      *)
SameAuthor(i) == author[i] # None /\ author'[i] # None /\ author'[i].name = author[i].name
SameSession(s) == session[s] # None /\ session'[s] # None /\ session'[s].cok = session[s].cok

(* A stored password changes only when ChangePassword writes the new one     *)
(* ("The password has been changed.", avDirectoryService.c:384).             *)
PasswordSticks ==
  [][\A i \in AuthorIds : SameAuthor(i) /\ author'[i].vals.pwd # author[i].vals.pwd
       => \E w \in Workers : At(w, "chpWrite") /\ proc[w].req.nam = author[i].name
                            /\ proc[w].req.pwd = author'[i].vals.pwd]_vars

(* The activation code of an author stays valid until Activate uses it or an *)
(* administrator generates another one ("Your activation code is",           *)
(* confirmationMail.html).                                                   *)
CodeSticks ==
  [][\A i \in AuthorIds : SameAuthor(i) /\ author'[i].vals.code # author[i].vals.code
       => \E w \in Workers : \/ At(w, "cnfWrite") /\ proc[w].req.id = i
                            \/ /\ At(w, "actClear") /\ proc[w].req.nam = author[i].name
                               /\ author'[i].vals.code = None]_vars

(* An account becomes active only if an administrator generated a code for   *)
(* this account, not for an earlier one of the same name or id ("we will     *)
(* have to manually review your application", registerComplete.html).        *)
ActivatesReviewed ==
  [][\A i \in AuthorIds : SameAuthor(i) /\ author'[i].tac /\ ~author[i].tac => i \in reviewed]_vars

(* A session keeps the name and activation time it was created with: only    *)
(* its filters and its time of last access ever change.                      *)
SessionKeepsIdentity ==
  [][\A s \in SessionIds : SameSession(s) => session'[s].vals = session[s].vals]_vars

(* The sweep of avDbSessionInsert deletes only sessions that are expired at  *)
(* that moment.                                                              *)
SweepSparesLive ==
  [][\A w \in Workers, s \in SessionIds :
       At(w, "expire") /\ ExpireSession(w) /\ session[s] # None /\ session'[s] = None
         => session[s].old]_vars

(* "You do not have permission to delete user" (avDbAuthor.c:103): an author *)
(* row is deleted by an administrator or by the author of that name.         *)
OwnAccountOnly ==
  [][\A i \in AuthorIds : author[i] # None /\ author'[i] = None
       => \E w \in Workers : At(w, "delAuthor") /\ proc[w].req.id = i
                            /\ (IsAdministrator(proc[w].who) \/ proc[w].who.name = author[i].name)]_vars

(* Every request comes to an end, although statements of other requests      *)
(* change the tables between its own.                                        *)
RequestsEnd == \A w \in Workers : ~At(w, "idle") ~> At(w, "idle")

Lifecycle == INSTANCE AuthorLifecycle WITH
  Ids <- AuthorIds,
  account <- [i \in AuthorIds |-> IF author[i] = None THEN None
                                  ELSE [name |-> author[i].name, active |-> author[i].tac]],
  approvals <- issued

(* The accounts implement AuthorLifecycle.                                   *)
ImplementsLifecycle == Lifecycle!Spec
=============================================================================
