----------------------- MODULE DirectoryServiceProofs -----------------------
(* Channels come from activated authors, for every number of processes,    *)
(* and change only for the user who logged in when requests are answered   *)
(* one at a time: the right to the actions on channels is decided in       *)
(* Accounts and used in Channels, and the proofs follow it from the one to *)
(* the other.                                                              *)
EXTENDS DirectoryService, AccountsSequential, Sequences

-----------------------------------------------------------------------------
(* Accounts: who gets past the login check and the test avUserIsAuthor.    *)

Right(c) ==
  /\ c.pc \in {"touch", "retouch", "channel"} => IsLoggedIn(c.who)
  /\ c.pc = "channel" => IsAuthor(c.who)
RightToChannel == \A w \in Workers : Right(proc[w])

LEMMA DispatchRight ==
  ASSUME NEW r, NEW u
  PROVE  /\ Dispatch(r, u) \notin {"touch", "retouch"} /\ Protected(r, u) \notin {"touch", "retouch"}
         /\ Public(r, u) \notin {"touch", "retouch"} /\ AfterSession(r, u) \notin {"touch", "retouch"}
         /\ Dispatch(r, u) = "channel" => IsAuthor(u)
         /\ Protected(r, u) = "channel" => IsLoggedIn(u) /\ IsAuthor(u)
         /\ Public(r, u) = "channel" => IsLoggedIn(u) /\ IsAuthor(u)
         /\ Public(r, NoUser) \notin {"channel", "touch", "retouch"}
         /\ LoginStart(r) \notin {"channel", "touch", "retouch"}
         /\ AfterSession(r, u) = "channel" => IsAuthor(u)
<1>1. Dispatch(r, u) \notin {"touch", "retouch"} /\ (Dispatch(r, u) = "channel" => IsAuthor(u))
  BY DEF Dispatch, ChangePasswordStart
<1>2. LoginStart(r) \notin {"channel", "touch", "retouch"}
  BY DEF LoginStart
<1>3. /\ Protected(r, u) \notin {"touch", "retouch"}
      /\ Protected(r, u) = "channel" => IsLoggedIn(u) /\ IsAuthor(u)
  BY <1>1, <1>2 DEF Protected
<1>4. Protected(r, NoUser) \notin {"channel", "touch", "retouch"}
  BY <1>2 DEF Protected, IsLoggedIn, NoUser
<1> QED BY <1>1, <1>2, <1>3, <1>4 DEF Public, AfterSession, NoUser, IsLoggedIn

LEMMA BecomeRight ==
  ASSUME TypeInv, RightToChannel, NEW w \in Workers, NEW c, Become(w, c), Right(c)
  PROVE  RightToChannel'
<1>1. Right(Idle)
  BY DEF Right, Idle
<1>2. /\ proc'[w] \in {c, Idle}
      /\ \A v \in Workers : v = w \/ proc'[v] = proc[v]
  BY BecomeChange
<1>3. \A v \in Workers : Right(proc'[v])
  BY <1>1, <1>2 DEF RightToChannel
<1> QED BY <1>3 DEF RightToChannel, Right, IsAuthor, IsLoggedIn

LEMMA GotoRight ==
  ASSUME TypeInv, RightToChannel, NEW w \in Workers, NEW pc, Goto(w, pc), pc \notin {"touch", "retouch"},
         pc = "channel" => IsLoggedIn(proc[w].who) /\ IsAuthor(proc[w].who)
  PROVE  RightToChannel'
<1> DEFINE c == [proc[w] EXCEPT !.pc = pc]
<1>1. c.pc = pc /\ c.who = proc[w].who
  BY ContextType DEF Contexts
<1>2. Right(c)
  BY <1>1 DEF Right
<1> QED BY <1>2, BecomeRight DEF Goto

(* All statements but the last ones of a login check or a login, and the    *)
(* last one of Activate, lead elsewhere.                                    *)
LEMMA OtherRight ==
  ASSUME TypeInv, RightToChannel, NEW w \in Workers, NEW v,
         NEW pc, pc # "channel", pc # "touch", pc # "retouch",
         \/ Become(w, [proc[w] EXCEPT !.who = v, !.pc = pc])
         \/ Become(w, [proc[w] EXCEPT !.avals = v, !.pc = pc])
         \/ Become(w, [proc[w] EXCEPT !.svals = v, !.pc = pc])
         \/ Become(w, [proc[w] EXCEPT !.sweep = v, !.pc = pc])
  PROVE  RightToChannel'
<1>1. /\ Right([proc[w] EXCEPT !.who = v, !.pc = pc])
      /\ Right([proc[w] EXCEPT !.avals = v, !.pc = pc])
      /\ Right([proc[w] EXCEPT !.svals = v, !.pc = pc])
      /\ Right([proc[w] EXCEPT !.sweep = v, !.pc = pc])
  BY ContextType DEF Contexts, Right
<1> QED BY <1>1, BecomeRight

LEMMA StepRight ==
  ASSUME TypeInv, RightToChannel, NEW w \in Workers, Step(w)
  PROVE  RightToChannel'
<1>1. CASE CheckCookie(w)
  <2>1. ASSUME NEW next \in {"touch", "retouch"}, CookieAccepted(w, next) PROVE RightToChannel'
    <3>1. PICK s \in SessionIds : Become(w, [proc[w] EXCEPT !.who = CookieUser(s), !.pc = next])
      BY <2>1 DEF CookieAccepted, SessionsByCookie
    <3> DEFINE u == CookieUser(s)
               c == [proc[w] EXCEPT !.who = u, !.pc = next]
    <3>2. IsLoggedIn(u)
      BY BoundAssumption DEF IsLoggedIn, CookieUser, SessionIds
    <3> HIDE DEF u
    <3>3. c.pc = next /\ c.who = u
      BY ContextType DEF Contexts
    <3>4. Right(c)
      BY <3>2, <3>3 DEF Right
    <3> QED BY <3>1, <3>4, BecomeRight DEF u
  <2>2. ASSUME NEW next, next \notin {"channel", "touch", "retouch"}, CookieRejected(w, next)
        PROVE  RightToChannel'
    BY <2>2, GotoRight DEF CookieRejected
  <2> QED BY <1>1, <2>1, <2>2, DispatchRight DEF CheckCookie
<1>2. CASE TouchSession(w)
  <2>1. IsLoggedIn(proc[w].who)
    BY <1>2 DEF TouchSession, At, RightToChannel, Right
  <2> QED BY <1>2, <2>1, GotoRight, DispatchRight DEF TouchSession
<1>3. CASE ActivateClear(w)
  BY <1>3, GotoRight, DispatchRight DEF ActivateClear
<1>4. CASE GetSessionId(w)
  <2>1. ASSUME NEW s \in SessionIds,
               Become(w, [proc[w] EXCEPT !.who = [proc[w].who EXCEPT !.sid = s],
                                         !.pc = AfterSession(proc[w].req, [proc[w].who EXCEPT !.sid = s])])
        PROVE  RightToChannel'
    <3> DEFINE u == [proc[w].who EXCEPT !.sid = s]
               c == [proc[w] EXCEPT !.who = u, !.pc = AfterSession(proc[w].req, u)]
    <3>1. c.pc = AfterSession(proc[w].req, u) /\ c.who = u
      BY ContextType DEF Contexts
    <3>2. IsLoggedIn(u)
      BY ContextType, BoundAssumption DEF Users, IsLoggedIn, SessionIds
    <3> HIDE DEF u
    <3>3. Right(c)
      BY <3>1, <3>2, DispatchRight DEF Right
    <3> QED BY <2>1, <3>3, BecomeRight DEF u
  <2>2. CASE Goto(w, "idle")
    BY <2>2, GotoRight
  <2> QED BY <1>4, <2>1, <2>2 DEF GetSessionId, SessionsByCookie
<1>5. CASE \E pc : pc \notin {"channel", "touch", "retouch"} /\ Goto(w, pc)
  BY <1>5, GotoRight
<1>6. CASE RegisterInsert(w)
  BY <1>6, GotoRight, OtherRight DEF RegisterInsert
<1>7. CASE SelectExpired(w) \/ ExpireSession(w) \/ DrawCookie(w) \/ InsertSession(w)
  BY <1>7, GotoRight, OtherRight DEF SelectExpired, ExpireSession, DrawCookie, InsertSession
<1>8. CASE LoginSelect(w) \/ LoginRead(w)
  BY <1>8, GotoRight, OtherRight DEF LoginSelect, LoginRead
<1>9. CASE ActivateRead(w) \/ ActivateReadAgain(w) \/ ConfirmRead(w) \/ ChangeRead(w) \/ FilterRead(w)
  BY <1>9, OtherRight DEF ActivateRead, ActivateReadAgain, ConfirmRead, ChangeRead, FilterRead
<1>10. CASE RegisterCheck(w) \/ LoginCheck(w) \/ LoginWrite(w) \/ ActivateWrite(w) \/ ActivateColumn(w)
            \/ ConfirmWrite(w) \/ ChangeCheck(w) \/ ChangeWrite(w) \/ Logout(w) \/ DeleteSession(w)
            \/ DeleteAuthor(w) \/ DeleteAuthorChannels(w) \/ DeleteAuthorSessions(w)
            \/ FilterWrite(w) \/ ServeChannel(w)
  <2>1. AfterDelete(proc[w].who) \notin {"channel", "touch", "retouch"}
    BY DEF AfterDelete
  <2> QED
    BY <1>5, <1>10, <2>1
       DEF RegisterCheck, LoginCheck, LoginWrite, ActivateWrite, ActivateColumn, ConfirmWrite,
           ChangeCheck, ChangeWrite, Logout, DeleteSession, DeleteAuthor, DeleteAuthorChannels,
           DeleteAuthorSessions, FilterWrite, ServeChannel
<1> QED
  BY <1>1, <1>2, <1>3, <1>4, <1>6, <1>7, <1>8, <1>9, <1>10 DEF Step

LEMMA NextRight == TypeInv /\ RightToChannel /\ [Next]_vars => RightToChannel'
<1> SUFFICES ASSUME TypeInv, RightToChannel, [Next]_vars PROVE RightToChannel'
  OBVIOUS
<1>1. ASSUME NEW w \in Workers, Arrive(w) PROVE RightToChannel'
  <2>1. PICK r : Become(w, [Idle EXCEPT !.req = r,
                                        !.pc = IF r.cok # None THEN "cookie" ELSE Public(r, NoUser)])
    BY <1>1 DEF Arrive
  <2> DEFINE pc == IF r.cok # None THEN "cookie" ELSE Public(r, NoUser)
             c == [Idle EXCEPT !.req = r, !.pc = pc]
  <2>2. c.pc = pc
    BY DEF Idle
  <2>3. pc \notin {"channel", "touch", "retouch"}
    BY DispatchRight
  <2>4. Right(c)
    BY <2>2, <2>3 DEF Right
  <2> QED BY <2>1, <2>4, BecomeRight
<1>2. ASSUME NEW w \in Workers, Fail(w) PROVE RightToChannel'
  BY <1>2, GotoRight DEF Fail
<1>3. CASE UNCHANGED proc
  BY <1>3 DEF RightToChannel, Right, IsAuthor, IsLoggedIn
<1> QED BY <1>1, <1>2, <1>3, StepRight DEF Next, Age, vars

(* Nobody's activation is forgotten.                                        *)
LEMMA ActivatedGrows == [Next]_vars => Activated \subseteq Activated'
<1>1. ASSUME NEW w \in Workers, Step(w) PROVE activated \subseteq activated'
  BY <1>1, StepHistory DEF HistoryChange
<1> QED BY <1>1 DEF Next, Arrive, Fail, Age, vars, history, Activated

-----------------------------------------------------------------------------
(* Channels: statements go on for the user they began with, and a row keeps *)
(* the author it was inserted with.                                         *)

IsContext(c) == c = [pc |-> c.pc, user |-> c.user, req |-> c.req, id |-> c.id, doomed |-> c.doomed,
                     items |-> c.items, loc |-> c.loc, saved |-> c.saved]
IsRow(r) == r = [name |-> r.name, aut |-> r.aut, des |-> r.des, dev |-> r.dev, vals |-> r.vals]
WellFormed ==
  /\ cproc = [w \in Workers |-> cproc[w]]
  /\ \A w \in Workers : IsContext(cproc[w])
  /\ channel = [c \in C!ChannelIds |-> channel[c]]
  /\ \A c \in C!ChannelIds : channel[c] # None => IsRow(channel[c])

(* What a statement of worker w makes of the contexts and of a row.         *)
GoesOn(w) ==
  /\ cproc' = [v \in Workers |-> cproc'[v]]
  /\ \A v \in Workers : v = w \/ cproc'[v] = cproc[v]
  /\ IsContext(cproc'[w])
  /\ cproc'[w].pc = "idle" \/ cproc'[w].user = cproc[w].user
KeepsAuthors(w) ==
  /\ channel' = [c \in C!ChannelIds |-> channel'[c]]
  /\ \A c \in C!ChannelIds : channel'[c] # None =>
       /\ IsRow(channel'[c])
       /\ channel'[c].aut = cproc[w].user \/ (channel[c] # None /\ channel'[c].aut = channel[c].aut)

(* A context stays one, and its user's, when one of its fields is set.      *)
LEMMA SetField ==
  ASSUME NEW c, IsContext(c), NEW x,
         NEW d \in {[c EXCEPT !.pc = x], [c EXCEPT !.id = x], [c EXCEPT !.doomed = x],
                    [c EXCEPT !.items = x], [c EXCEPT !.loc = x], [c EXCEPT !.saved = x]}
  PROVE  IsContext(d) /\ d.user = c.user
<1>1. PICK p, u, r, i, do, it, l, s :
        c = [pc |-> p, user |-> u, req |-> r, id |-> i, doomed |-> do, items |-> it, loc |-> l, saved |-> s]
  BY DEF IsContext
<1>2. CASE d = [c EXCEPT !.pc = x]
  BY <1>1, <1>2 DEF IsContext
<1>3. CASE d = [c EXCEPT !.id = x]
  BY <1>1, <1>3 DEF IsContext
<1>4. CASE d = [c EXCEPT !.doomed = x]
  BY <1>1, <1>4 DEF IsContext
<1>5. CASE d = [c EXCEPT !.items = x]
  BY <1>1, <1>5 DEF IsContext
<1>6. CASE d = [c EXCEPT !.loc = x]
  BY <1>1, <1>6 DEF IsContext
<1>7. CASE d = [c EXCEPT !.saved = x]
  BY <1>1, <1>7 DEF IsContext
<1> QED BY <1>2, <1>3, <1>4, <1>5, <1>6, <1>7

LEMMA IdleContext == IsContext(C!Idle) /\ C!Idle.pc = "idle"
  BY DEF IsContext, C!Idle

LEMMA SetRequest ==
  ASSUME NEW c, IsContext(c), NEW x, NEW d, d = [c EXCEPT !.user = x] \/ d = [c EXCEPT !.req = x]
  PROVE  IsContext(d)
<1>1. PICK p, u, r, i, do, it, l, s :
        c = [pc |-> p, user |-> u, req |-> r, id |-> i, doomed |-> do, items |-> it, loc |-> l, saved |-> s]
  BY DEF IsContext
<1>2. CASE d = [c EXCEPT !.user = x]
  BY <1>1, <1>2 DEF IsContext
<1>3. CASE d = [c EXCEPT !.req = x]
  BY <1>1, <1>3 DEF IsContext
<1> QED BY <1>2, <1>3

LEMMA ChannelBecome ==
  ASSUME WellFormed, NEW w \in Workers, NEW c, C!Become(w, c), IsContext(c), c.user = cproc[w].user
  PROVE  GoesOn(w)
  BY IdleContext DEF C!Become, WellFormed, GoesOn

LEMMA ChannelGoto ==
  ASSUME WellFormed, NEW w \in Workers, NEW pc, C!Goto(w, pc)
  PROVE  GoesOn(w)
<1> DEFINE c == [cproc[w] EXCEPT !.pc = pc]
<1>1. IsContext(cproc[w])
  BY DEF WellFormed
<1>2. IsContext(c) /\ c.user = cproc[w].user
  BY <1>1 DEF IsContext
<1> QED BY <1>2, ChannelBecome DEF C!Goto

LEMMA StepGoesOn ==
  ASSUME WellFormed, NEW w \in Workers, C!Step(w)
  PROVE  GoesOn(w)
<1>0. IsContext(cproc[w])
  BY DEF WellFormed
<1>1. CASE \E pc : C!Goto(w, pc)
  BY <1>1, ChannelGoto
<1>2. CASE C!DropLocation(w)
  <2> DEFINE d == [cproc[w] EXCEPT !.doomed = Tail(cproc[w].doomed)]
             c == [d EXCEPT !.pc = C!AfterCheck(d)]
  <2>1. C!Become(w, c)
    BY <1>2 DEF C!DropLocation
  <2>2. IsContext(d) /\ d.user = cproc[w].user
    BY <1>0, SetField
  <2> HIDE DEF d
  <2>3. IsContext(c) /\ c.user = cproc[w].user
    BY <2>2, SetField
  <2> QED BY <2>1, <2>3, ChannelBecome
<1>3. ASSUME NEW i, NEW pc, NEW d \in {[cproc[w] EXCEPT !.id = i], [cproc[w] EXCEPT !.loc = i]},
             C!Become(w, [d EXCEPT !.pc = pc])
      PROVE  GoesOn(w)
  <2>1. ASSUME d = [cproc[w] EXCEPT !.id = i] PROVE IsContext(d) /\ d.user = cproc[w].user
    <3>1. IsContext([cproc[w] EXCEPT !.id = i]) /\ [cproc[w] EXCEPT !.id = i].user = cproc[w].user
      BY <1>0, SetField
    <3> QED BY <2>1, <3>1
  <2>2. ASSUME d = [cproc[w] EXCEPT !.loc = i] PROVE IsContext(d) /\ d.user = cproc[w].user
    <3>1. IsContext([cproc[w] EXCEPT !.loc = i]) /\ [cproc[w] EXCEPT !.loc = i].user = cproc[w].user
      BY <1>0, SetField
    <3> QED BY <2>2, <3>1
  <2>3. IsContext(d) /\ d.user = cproc[w].user
    BY <1>3, <2>1, <2>2
  <2>4. IsContext([d EXCEPT !.pc = pc]) /\ [d EXCEPT !.pc = pc].user = cproc[w].user
    BY <2>3, SetField
  <2> QED BY <1>3, <2>4, ChannelBecome
<1>4. CASE C!UpdateLocationVals(w)
  <2> DEFINE sv == [cproc[w] EXCEPT !.saved = cproc[w].saved \cup {<<cproc[w].loc, C!Place(w)>>}]
             it == [sv EXCEPT !.items = Tail(cproc[w].items)]
             d  == [it EXCEPT !.loc = 0]
             c  == [d EXCEPT !.pc = C!NextItem(d.items)]
  <2>1. C!Become(w, c)
    BY <1>4 DEF C!UpdateLocationVals
  <2>2. IsContext(sv) /\ sv.user = cproc[w].user
    BY <1>0, SetField
  <2> HIDE DEF sv
  <2>3. IsContext(it) /\ it.user = cproc[w].user
    BY <2>2, SetField
  <2> HIDE DEF it
  <2>4. IsContext(d) /\ d.user = cproc[w].user
    BY <2>3, SetField
  <2> HIDE DEF d
  <2>5. IsContext(c) /\ c.user = cproc[w].user
    BY <2>4, SetField
  <2> QED BY <2>1, <2>5, ChannelBecome
<1>5. CASE C!CheckChannel(w) \/ C!UpdateName(w) \/ C!UpdateTexts(w) \/ C!CheckTitle(w)
           \/ C!InsertChannel(w) \/ C!UpdateVals(w)
  BY <1>1, <1>5 DEF C!CheckChannel, C!Check, C!UpdateName, C!UpdateTexts, C!CheckTitle,
                    C!InsertChannel, C!UpdateVals
<1>6. CASE C!UpdateLocation(w) \/ C!ShowSaved(w) \/ C!CheckDelete(w) \/ C!DeleteChannel(w)
           \/ C!DeleteLocations(w) \/ C!DeleteByAuthor(w)
  BY <1>1, <1>6 DEF C!UpdateLocation, C!ShowSaved, C!CheckDelete, C!Check, C!DeleteChannel,
                    C!DeleteLocations, C!DeleteByAuthor
<1>7. CASE C!GetChannelId(w) \/ C!InsertLocation(w) \/ C!CheckLocation(w)
  BY <1>1, <1>3, <1>7 DEF C!GetChannelId, C!InsertLocation, C!CheckLocation
<1> QED BY <1>2, <1>4, <1>5, <1>6, <1>7 DEF C!Step

(* The same for a row and its author.                                       *)
LEMMA SetColumn ==
  ASSUME NEW r, IsRow(r), NEW x, NEW q,
         \/ q = [r EXCEPT !.name = x]
         \/ q = [r EXCEPT !.des = x]
         \/ q = [r EXCEPT !.dev = x]
         \/ q = [r EXCEPT !.vals = x]
  PROVE  IsRow(q) /\ q.aut = r.aut
<1>1. PICK n, a, e, k, v : r = [name |-> n, aut |-> a, des |-> e, dev |-> k, vals |-> v]
  BY DEF IsRow
<1>2. CASE q = [r EXCEPT !.name = x]
  BY <1>1, <1>2 DEF IsRow
<1>3. CASE q = [r EXCEPT !.des = x]
  BY <1>1, <1>3 DEF IsRow
<1>4. CASE q = [r EXCEPT !.dev = x]
  BY <1>1, <1>4 DEF IsRow
<1>5. CASE q = [r EXCEPT !.vals = x]
  BY <1>1, <1>5 DEF IsRow
<1> QED BY <1>2, <1>3, <1>4, <1>5

(* An UPDATE of one column of the rows found by id.                         *)
LEMMA ColumnKeeps ==
  ASSUME WellFormed, NEW w \in Workers, NEW i, NEW x,
         \/ channel' = [c \in C!ChannelIds |-> IF c \in C!ChannelsById(i)
                                               THEN [channel[c] EXCEPT !.name = x] ELSE channel[c]]
         \/ channel' = [c \in C!ChannelIds |-> IF c \in C!ChannelsById(i)
                                               THEN [channel[c] EXCEPT !.des = x] ELSE channel[c]]
         \/ channel' = [c \in C!ChannelIds |-> IF c \in C!ChannelsById(i)
                                               THEN [channel[c] EXCEPT !.dev = x] ELSE channel[c]]
         \/ channel' = [c \in C!ChannelIds |-> IF c \in C!ChannelsById(i)
                                               THEN [channel[c] EXCEPT !.vals = x] ELSE channel[c]]
  PROVE  KeepsAuthors(w)
<1>1. channel' = [c \in C!ChannelIds |-> channel'[c]]
  OBVIOUS
<1>2. ASSUME NEW c \in C!ChannelIds, c \in C!ChannelsById(i)
      PROVE  IsRow(channel'[c]) /\ channel[c] # None /\ channel'[c].aut = channel[c].aut
  <2>1. channel[c] # None /\ IsRow(channel[c])
    BY <1>2 DEF C!ChannelsById, WellFormed
  <2>2. \/ channel'[c] = [channel[c] EXCEPT !.name = x]
        \/ channel'[c] = [channel[c] EXCEPT !.des = x]
        \/ channel'[c] = [channel[c] EXCEPT !.dev = x]
        \/ channel'[c] = [channel[c] EXCEPT !.vals = x]
    BY <1>2
  <2> DEFINE r == channel[c]
             q == channel'[c]
  <2>3. IsRow(r) /\ (\/ q = [r EXCEPT !.name = x] \/ q = [r EXCEPT !.des = x]
                     \/ q = [r EXCEPT !.dev = x] \/ q = [r EXCEPT !.vals = x])
    BY <2>1, <2>2
  <2> HIDE DEF r, q
  <2>4. IsRow(q) /\ q.aut = r.aut
    BY <2>3, SetColumn
  <2> QED BY <2>1, <2>4 DEF r, q
<1>3. ASSUME NEW c \in C!ChannelIds, c \notin C!ChannelsById(i) PROVE channel'[c] = channel[c]
  BY <1>3
<1> QED BY <1>1, <1>2, <1>3 DEF KeepsAuthors, WellFormed

LEMMA DeleteKeeps ==
  ASSUME WellFormed, NEW w \in Workers, NEW rows,
         channel' = [c \in C!ChannelIds |-> IF c \in rows THEN None ELSE channel[c]]
  PROVE  KeepsAuthors(w)
  BY DEF KeepsAuthors, WellFormed

LEMMA UnchangedKeeps ==
  ASSUME WellFormed, NEW w \in Workers, UNCHANGED channel
  PROVE  KeepsAuthors(w)
  BY DEF KeepsAuthors, WellFormed

LEMMA StepKeepsAuthors ==
  ASSUME WellFormed, NEW w \in Workers, C!Step(w)
  PROVE  KeepsAuthors(w)
<1>1. CASE UNCHANGED channel
  BY <1>1, UnchangedKeeps
<1>2. CASE C!UpdateName(w)
  <2>1. CASE channel' = [c \in C!ChannelIds |->
                           IF c \in C!ChannelsById(cproc[w].id)
                           THEN [channel[c] EXCEPT !.name = cproc[w].req.title] ELSE channel[c]]
    BY <2>1, ColumnKeeps
  <2> QED BY <1>1, <1>2, <2>1 DEF C!UpdateName, C!UpdateChannels
<1>3. CASE C!UpdateTexts(w) \/ C!UpdateVals(w)
  BY <1>3, ColumnKeeps DEF C!UpdateTexts, C!UpdateVals, C!UpdateChannels, C!SetKey
<1>4. CASE C!InsertChannel(w)
  <2>1. ASSUME NEW i \in C!ChannelIds,
               channel' = [channel EXCEPT ![i] = C!NewChannel(cproc[w].user, cproc[w].req)]
        PROVE  KeepsAuthors(w)
    <3>1. /\ channel'[i] = C!NewChannel(cproc[w].user, cproc[w].req)
          /\ \A c \in C!ChannelIds : c # i => channel'[c] = channel[c]
          /\ channel' = [c \in C!ChannelIds |-> channel'[c]]
      BY <2>1 DEF WellFormed
    <3>2. IsRow(channel'[i]) /\ channel'[i].aut = cproc[w].user
      BY <3>1 DEF C!NewChannel, IsRow
    <3> QED BY <3>1, <3>2 DEF KeepsAuthors, WellFormed
  <2> QED BY <1>1, <1>4, <2>1 DEF C!InsertChannel
<1>5. CASE C!DeleteChannel(w)
  BY <1>5, DeleteKeeps DEF C!DeleteChannel, C!UpdateChannels
<1>6. CASE C!DeleteByAuthor(w)
  BY <1>6, DeleteKeeps DEF C!DeleteByAuthor, C!UpdateChannels
<1> QED
  BY <1>1, <1>2, <1>3, <1>4, <1>5, <1>6
     DEF C!Step, C!CheckChannel, C!Check, C!DropLocation, C!CheckTitle, C!GetChannelId,
         C!InsertLocation, C!CheckLocation, C!UpdateLocation, C!UpdateLocationVals, C!ShowSaved,
         C!CheckDelete, C!DeleteLocations

-----------------------------------------------------------------------------
(* The two together.                                                        *)

(* A step of the service is one of the accounts, or leaves them alone.      *)
LEMMA ServiceStep == [ServiceNext]_service => [Next]_vars
<1>1. ASSUME NEW w \in Workers, Serve(w) PROVE Step(w) \/ UNCHANGED vars
  BY <1>1 DEF Serve, AccountStatement, EnterChannel, ChannelStatement, DeleteChannelsOfAuthor,
              Finish, Step
<1> QED BY <1>1 DEF ServiceNext, Begin, Wait, Abort, service, Next

(* Who gets past avUserIsAuthor has been activated.                         *)
LEMMA ServedForActivated ==
  ASSUME RightsEarned, RightToChannel, NEW w \in Workers, EnterChannel(w), Serving(w)'
  PROVE  cproc'[w].user \in Activated
<1>1. cproc'[w].user = proc[w].who.name
  BY DEF EnterChannel, UserOf
<1>2. proc[w].who.tac \/ proc[w].who.name \in Admins
  BY DEF EnterChannel, At, RightToChannel, Right, IsAuthor, IsAdministrator
<1>3. MayBeActive(proc[w].who.name, proc[w].who.tac)
  BY DEF RightsEarned
<1> QED BY <1>1, <1>2, <1>3 DEF MayBeActive, Activated

ServiceInv == TypeInv /\ RightsEarned /\ RightToChannel /\ WellFormed /\ ChannelsOfActivated

LEMMA NextService == ServiceInv /\ [ServiceNext]_service => ServiceInv'
<1> SUFFICES ASSUME ServiceInv, [ServiceNext]_service PROVE ServiceInv'
  OBVIOUS
<1>1. TypeInv' /\ RightsEarned' /\ RightToChannel' /\ Activated \subseteq Activated'
  BY ServiceStep, NextType, NextRights, NextRight, ActivatedGrows DEF ServiceInv
<1> DEFINE Kept == WellFormed' /\ ChannelsOfActivated'
<1>2. ASSUME UNCHANGED <<channel, cproc>> PROVE Kept
  BY <1>1, <1>2 DEF ServiceInv, WellFormed, ChannelsOfActivated, Serving, C!At
<1>3. ASSUME NEW w \in Workers, EnterChannel(w) PROVE Kept
  <2>1. PICK c : C!Become(w, c) /\ IsContext(c)
    <3>1. PICK u, r :
            LET f == [C!Idle EXCEPT !.user = u, !.req = r, !.id = r.id,
                                    !.doomed = r.form.drops, !.items = r.form.items]
            IN  C!Become(w, [f EXCEPT !.pc = C!Start(f)])
      BY <1>3 DEF EnterChannel, C!Arrive
    <3> DEFINE o == [C!Idle EXCEPT !.user = u]
               a == [o EXCEPT !.req = r]
               b == [a EXCEPT !.id = r.id]
               d == [b EXCEPT !.doomed = r.form.drops]
               f == [d EXCEPT !.items = r.form.items]
    <3>2. C!Become(w, [f EXCEPT !.pc = C!Start(f)])
      BY <3>1
    <3>3. IsContext(a)
      <4>1. IsContext(o)
        BY IdleContext, SetRequest
      <4> HIDE DEF o
      <4> QED BY <4>1, SetRequest
    <3> HIDE DEF a
    <3>4. IsContext(b)
      BY <3>3, SetField
    <3> HIDE DEF b
    <3>5. IsContext(d)
      BY <3>4, SetField
    <3> HIDE DEF d
    <3>6. IsContext(f)
      BY <3>5, SetField
    <3> HIDE DEF f
    <3>7. IsContext([f EXCEPT !.pc = C!Start(f)])
      BY <3>6, SetField
    <3> QED BY <3>2, <3>7
  <2>2. /\ cproc' = [v \in Workers |-> cproc'[v]] /\ IsContext(cproc'[w])
        /\ \A v \in Workers : v = w \/ cproc'[v] = cproc[v]
    BY <2>1, IdleContext DEF C!Become, ServiceInv, WellFormed
  <2>3. UNCHANGED channel
    BY <1>3 DEF EnterChannel, C!Arrive
  <2>4. Serving(w)' => cproc'[w].user \in Activated
    BY <1>3, ServedForActivated DEF ServiceInv
  <2> QED BY <1>1, <2>2, <2>3, <2>4 DEF ServiceInv, WellFormed, ChannelsOfActivated, Serving, C!At
<1>4. ASSUME NEW w \in Workers, GoesOn(w), KeepsAuthors(w), Serving(w) PROVE Kept
  BY <1>1, <1>4 DEF GoesOn, KeepsAuthors, ServiceInv, WellFormed, ChannelsOfActivated, Serving, C!At
<1>5. ASSUME NEW w \in Workers, C!Step(w) PROVE Kept
  <2>1. GoesOn(w) /\ KeepsAuthors(w)
    BY <1>5, StepGoesOn, StepKeepsAuthors DEF ServiceInv
  <2>2. Serving(w)
    BY <1>5
       DEF Serving, C!Step, C!At, C!CheckChannel, C!DropLocation, C!UpdateName, C!UpdateTexts,
           C!CheckTitle, C!InsertChannel, C!GetChannelId, C!UpdateVals, C!InsertLocation,
           C!CheckLocation, C!UpdateLocation, C!UpdateLocationVals, C!ShowSaved, C!CheckDelete,
           C!DeleteChannel, C!DeleteLocations, C!DeleteByAuthor
  <2> QED BY <1>4, <2>1, <2>2
<1>6. ASSUME NEW w \in Workers, DeleteChannelsOfAuthor(w) PROVE Kept
  <2>1. /\ UNCHANGED cproc
        /\ channel' = [c \in C!ChannelIds |-> channel'[c]]
        /\ \A c \in C!ChannelIds : channel'[c] = None \/ channel'[c] = channel[c]
    BY <1>6 DEF DeleteChannelsOfAuthor
  <2> QED BY <1>1, <2>1 DEF ServiceInv, WellFormed, ChannelsOfActivated, Serving, C!At
<1>7. ASSUME NEW w \in Workers, Abort(w) PROVE Kept
  <2>1. /\ UNCHANGED channel /\ cproc' = [cproc EXCEPT ![w] = C!Idle]
    BY <1>7 DEF Abort
  <2> QED BY <1>1, <2>1, IdleContext DEF ServiceInv, WellFormed, ChannelsOfActivated, Serving, C!At
<1> HIDE DEF Kept
<1>8. Kept
  <2>1. \/ UNCHANGED <<channel, cproc>>
        \/ \E w \in Workers : \/ EnterChannel(w) \/ C!Step(w)
                             \/ DeleteChannelsOfAuthor(w) \/ Abort(w)
    BY DEF ServiceNext, Serve, Begin, Wait, AccountStatement, ChannelStatement, service, channels
  <2> QED BY <2>1, <1>2, <1>3, <1>5, <1>6, <1>7
<1> QED BY <1>1, <1>8 DEF ServiceInv, Kept

LEMMA InitService == ServiceInit => ServiceInv
<1> SUFFICES ASSUME ServiceInit PROVE ServiceInv
  OBVIOUS
<1>1. TypeInv
  BY InitType DEF ServiceInit
<1>2. RightsEarned
  BY DEF ServiceInit, Init, RightsEarned, MayBeActive, Idle, NoUser, NoSessionVals
<1>3. RightToChannel
  BY DEF ServiceInit, Init, RightToChannel, Right, Idle
<1>4. WellFormed /\ ChannelsOfActivated
  BY IdleContext DEF ServiceInit, C!Init, WellFormed, ChannelsOfActivated, Serving, C!At
<1> QED BY <1>1, <1>2, <1>3, <1>4 DEF ServiceInv

(* However processes interleave and wherever they stop, every channel row   *)
(* names, and every request on channels works for, somebody whom Activate   *)
(* accepted a code for or an administrator, although the right was decided  *)
(* from a session row that may be older than the account.                   *)
THEOREM ChannelsComeFromActivated == ServiceSpec => []ChannelsOfActivated
<1>1. ServiceInv => ChannelsOfActivated
  BY DEF ServiceInv
<1> QED BY <1>1, InitService, NextService, PTL DEF ServiceSpec

-----------------------------------------------------------------------------
(* The promises of Accounts in the whole service.                           *)

(* The whole service implements AuthorLifecycle: the actions on channels,   *)
(* served in the midst of the statements on accounts, register, activate    *)
(* and delete nobody.                                                       *)
THEOREM ServiceImplements == ServiceSpec => ImplementsLifecycle
<1> DEFINE Inv == TypeInv /\ Confirmation /\ NamesUnique
<1>1. ServiceInit => Inv
  BY InitType
     DEF ServiceInit, Init, Confirmation, ActivationConfirmed, ColumnCode, At, Idle, NoAuthorVals, NamesUnique
<1>2. Inv /\ [ServiceNext]_service => Inv'
  BY ServiceStep, NextType, NextConfirmation, NextNames
<1>3. ServiceInit => Lifecycle!Init
  BY DEF ServiceInit, Init, Lifecycle!Init
<1>4. Inv /\ [ServiceNext]_service => [Lifecycle!Next]_Lifecycle!vars
  BY ServiceStep, NextMaps
<1> QED BY <1>1, <1>2, <1>3, <1>4, PTL DEF ServiceSpec, ImplementsLifecycle, Lifecycle!Spec

(* And author rights come from an activation, also those a request on       *)
(* channels was let in with.                                                *)
THEOREM ServiceRights == ServiceSpec => []RightsEarned
<1>1. ServiceInv => RightsEarned
  BY DEF ServiceInv
<1> QED BY <1>1, InitService, NextService, PTL DEF ServiceSpec

-----------------------------------------------------------------------------
(* From the cookie to the row, with requests answered one at a time: what   *)
(* ChannelsProofs says of the statements on channels holds for those of the *)
(* service.                                                                 *)
CP == INSTANCE ChannelsProofs WITH proc <- cproc, Failures <- {}

LEMMA ChannelAssumptions ==
  CP!ChannelBounds /\ CP!ChannelAdmins /\ CP!ChannelNone /\ CP!ChannelRowNone
BY ServiceBounds, ServiceNone, NoneAssumption, NameAssumption
   DEF CP!ChannelBounds, CP!ChannelAdmins, CP!ChannelNone, CP!ChannelRowNone,
       CP!ChannelRows, C!ChannelRows, CP!ChannelRecords, C!ChannelRecords, CP!LocationRows, C!LocationRows, CP!ChannelIds, C!ChannelIds

LEMMA SameArrive == ASSUME NEW w \in Workers, C!Arrive(w) PROVE CP!Arrive(w)
BY DEF C!Arrive, CP!Arrive, C!At, CP!At, C!Become, CP!Become, C!Idle, CP!Idle, C!Start, CP!Start,
       C!AfterCheck, CP!AfterCheck, C!AfterDrops, CP!AfterDrops, C!Validated, CP!Validated,
       C!Named, CP!Named, C!Dropped, CP!Dropped, C!Requests, CP!Requests, C!Forms, CP!Forms,
       C!NoForm, CP!NoForm, C!ListsOf, CP!ListsOf, C!Listed, CP!Listed, C!Items, CP!Items,
       C!ChannelIds, CP!ChannelIds, C!LocationIds, CP!LocationIds

LEMMA SameStep == ASSUME NEW w \in Workers, C!Step(w) PROVE CP!Step(w)
<1> USE DEF C!At, CP!At, C!Become, CP!Become, C!Goto, CP!Goto, C!Idle, CP!Idle
<1> USE DEF C!ChannelIds, CP!ChannelIds, C!LocationIds, CP!LocationIds
<1>1. CASE C!CheckChannel(w) \/ C!CheckDelete(w)
  <2>1. ASSUME NEW next PROVE C!Check(w, next) = CP!Check(w, next)
    BY DEF C!Check, CP!Check, C!ChannelsById, CP!ChannelsById, C!MayEdit, CP!MayEdit,
           C!IsAdministrator, CP!IsAdministrator
  <2> QED
    BY <1>1, <2>1
       DEF C!CheckChannel, CP!CheckChannel, C!CheckDelete, CP!CheckDelete, CP!Step,
           C!AfterCheck, CP!AfterCheck, C!AfterDrops, CP!AfterDrops, C!Validated, CP!Validated
<1>2. CASE C!DropLocation(w)
  BY <1>2 DEF C!DropLocation, CP!DropLocation, CP!Step,
              C!AfterCheck, CP!AfterCheck, C!AfterDrops, CP!AfterDrops, C!Validated, CP!Validated
<1>3. CASE C!UpdateName(w)
  BY <1>3 DEF C!UpdateName, CP!UpdateName, CP!Step, C!ChannelsById, CP!ChannelsById,
              C!TitleIsFree, CP!TitleIsFree, C!ChannelsByName, CP!ChannelsByName,
              C!UpdateChannels, CP!UpdateChannels
<1>4. CASE C!UpdateTexts(w)
  BY <1>4 DEF C!UpdateTexts, CP!UpdateTexts, CP!Step, C!ChannelsById, CP!ChannelsById,
              C!SetKey, CP!SetKey, C!UpdateChannels, CP!UpdateChannels
<1>5. CASE C!CheckTitle(w) \/ C!GetChannelId(w)
  BY <1>5 DEF C!CheckTitle, CP!CheckTitle, C!GetChannelId, CP!GetChannelId, CP!Step,
              C!ChannelsByName, CP!ChannelsByName
<1>6. CASE C!InsertChannel(w)
  BY <1>6 DEF C!InsertChannel, CP!InsertChannel, CP!Step, C!TitleIsFree, CP!TitleIsFree,
              C!ChannelsByName, CP!ChannelsByName, C!IsNextRowid, CP!IsNextRowid,
              C!NewChannel, CP!NewChannel
<1>7. CASE C!UpdateVals(w)
  BY <1>7 DEF C!UpdateVals, CP!UpdateVals, CP!Step, C!ChannelsById, CP!ChannelsById,
              C!NextItem, CP!NextItem, C!UpdateChannels, CP!UpdateChannels
<1>8. CASE C!InsertLocation(w)
  BY <1>8 DEF C!InsertLocation, CP!InsertLocation, CP!Step, C!IsNextRowid, CP!IsNextRowid,
              C!Place, CP!Place
<1>9. CASE C!CheckLocation(w)
  BY <1>9 DEF C!CheckLocation, CP!CheckLocation, CP!Step, C!LocationsById, CP!LocationsById
<1>10. CASE C!UpdateLocation(w) \/ C!UpdateLocationVals(w)
  BY <1>10 DEF C!UpdateLocation, CP!UpdateLocation, C!UpdateLocationVals, CP!UpdateLocationVals,
               CP!Step, C!LocationsById, CP!LocationsById, C!Moved, CP!Moved, C!Place, CP!Place,
               C!NextItem, CP!NextItem, C!UpdateLocations, CP!UpdateLocations
<1>11. CASE C!ShowSaved(w)
  BY <1>11 DEF C!ShowSaved, CP!ShowSaved, CP!Step
<1>12. CASE C!DeleteChannel(w) \/ C!DeleteLocations(w) \/ C!DeleteByAuthor(w)
  BY <1>12 DEF C!DeleteChannel, CP!DeleteChannel, C!DeleteLocations, CP!DeleteLocations,
               C!DeleteByAuthor, CP!DeleteByAuthor, CP!Step, C!ChannelsById, CP!ChannelsById,
               C!LocationsOf, CP!LocationsOf, C!AuthorKey, CP!AuthorKey,
               C!UpdateChannels, CP!UpdateChannels, C!UpdateLocations, CP!UpdateLocations
<1> QED
  BY <1>1, <1>2, <1>3, <1>4, <1>5, <1>6, <1>7, <1>8, <1>9, <1>10, <1>11, <1>12 DEF C!Step

(* An author's id, as avDbAuthorDelete gives it to the DELETE of channels,   *)
(* is nobody's name: nobody has registered under a number.                  *)
IdsAreNoNames == \A i \in Names \cup Nat : C!AuthorKey(i) \notin Names

(* The statements on channels run for the user whom the login check let in. *)
LetIn(w) == Serving(w) => At(w, "channel") /\ cproc[w].user = proc[w].who.name
ServiceSeq == ServiceInv /\ CP!SeqInv /\ \A w \in Workers : LetIn(w)

LEMMA StepServes == ASSUME NEW w \in Workers, C!Step(w) PROVE Serving(w)
BY DEF Serving, C!Step, C!At, C!CheckChannel, C!DropLocation, C!UpdateName, C!UpdateTexts,
       C!CheckTitle, C!InsertChannel, C!GetChannelId, C!UpdateVals, C!InsertLocation,
       C!CheckLocation, C!UpdateLocation, C!UpdateLocationVals, C!ShowSaved, C!CheckDelete,
       C!DeleteChannel, C!DeleteLocations, C!DeleteByAuthor

(* The id of a deleted author takes no channel with it.                     *)
LEMMA NoneDeletedById ==
  ASSUME CP!TypeInv, TypeInv, IdsAreNoNames, NEW w \in Workers, DeleteChannelsOfAuthor(w)
  PROVE  channel' = channel
<1>1. proc[w].req.id \in Nat
  BY ContextType, BoundAssumption DEF RequestRecords, Ids, AuthorIds, SessionIds
<1>2. C!AuthorKey(proc[w].req.id) \notin Names
  BY <1>1 DEF IdsAreNoNames
<1>3. /\ channel \in [C!ChannelIds -> CP!ChannelRows \cup {None}]
      /\ None \notin CP!ChannelRows
  BY ChannelAssumptions DEF CP!TypeInv, CP!TypeOK, CP!ChannelIds, C!ChannelIds, CP!ChannelRowNone
<1>4. \A c \in C!ChannelIds : channel[c] # None => channel[c].aut \in Names
  BY <1>3 DEF CP!ChannelRows
<1> QED BY <1>2, <1>3, <1>4 DEF DeleteChannelsOfAuthor

LEMMA NextLetIn ==
  ASSUME OneProcess, ServiceSeq, [ServiceNext]_service, NEW w \in Workers
  PROVE  LetIn(w)'
<1>1. LetIn(w) /\ ServiceInv
  BY DEF ServiceSeq
<1>2. CASE UNCHANGED service
  BY <1>1, <1>2 DEF LetIn, Serving, service, vars, channels, C!At, At
<1>3. CASE \E s \in SessionIds : Wait(s)
  BY <1>1, <1>3 DEF Wait, Age, LetIn, Serving, channels, C!At, At
<1>4. CASE Begin(w) \/ AccountStatement(w) \/ DeleteChannelsOfAuthor(w)
  <2>1. ~At(w, "channel") /\ UNCHANGED cproc
    BY <1>4 DEF Begin, Arrive, At, AccountStatement, DeleteChannelsOfAuthor, DeleteAuthorChannels,
                channels
  <2> QED BY <1>1, <2>1 DEF LetIn, Serving, C!At
<1>5. CASE Abort(w)
  <2>1. cproc'[w] = C!Idle
    BY <1>1, <1>5 DEF Abort, ServiceInv, WellFormed
  <2> QED BY <2>1, IdleContext DEF LetIn, Serving, C!At
<1>6. CASE EnterChannel(w)
  BY <1>6 DEF EnterChannel, Finish, UserOf, LetIn, Serving, C!At, At, vars
<1>7. CASE ChannelStatement(w)
  <2>1. Serving(w) /\ GoesOn(w)
    BY <1>1, <1>7, StepServes, StepGoesOn DEF ChannelStatement, ServiceInv
  <2>2. Serving(w)' => UNCHANGED proc
    BY <1>7 DEF ChannelStatement, Finish, vars
  <2>3. Serving(w)' => cproc'[w].user = cproc[w].user
    BY <2>1 DEF GoesOn, Serving, C!At
  <2> QED BY <1>1, <2>1, <2>2, <2>3 DEF LetIn, At
<1> QED
  BY <1>2, <1>3, <1>4, <1>5, <1>6, <1>7 DEF OneProcess, ServiceNext, Serve

LEMMA NextChannels ==
  ASSUME OneProcess, IdsAreNoNames, ServiceSeq, [ServiceNext]_service
  PROVE  CP!SeqInv'
<1>1. CP!SeqInv /\ CP!OneProcess
  BY DEF ServiceSeq, OneProcess, CP!OneProcess
<1>2. ASSUME UNCHANGED channels PROVE CP!SeqInv'
  <2>1. CP!vars' = CP!vars
    BY <1>2 DEF channels, CP!vars
  <2> QED BY <1>1, <2>1, CP!NextSeq, ChannelAssumptions
<1>3. ASSUME NEW w \in Workers, C!Arrive(w) \/ C!Step(w) PROVE CP!SeqInv'
  <2>1. CP!Next
    BY <1>3, SameArrive, SameStep DEF CP!Next
  <2> QED BY <1>1, <2>1, CP!NextSeq, ChannelAssumptions
<1>4. ASSUME NEW w \in Workers, Abort(w) PROVE CP!SeqInv'
  <2>1. CP!Become(w, CP!Idle) /\ UNCHANGED <<channel, location>>
    BY <1>4 DEF Abort, CP!Become, CP!Idle, C!Idle
  <2> QED BY <1>1, <2>1, CP!StopKeeps, ChannelAssumptions
<1>5. ASSUME NEW w \in Workers, DeleteChannelsOfAuthor(w) PROVE CP!SeqInv'
  <2>1. UNCHANGED channels
    BY <1>5, NoneDeletedById DEF ServiceSeq, ServiceInv, CP!SeqInv, DeleteChannelsOfAuthor, channels
  <2> QED BY <1>2, <2>1
<1> QED
  BY <1>2, <1>3, <1>4, <1>5
     DEF ServiceNext, Begin, Serve, AccountStatement, EnterChannel, ChannelStatement, Wait, service

LEMMA InitServiceSeq == ServiceInit => ServiceSeq
<1> SUFFICES ASSUME ServiceInit PROVE ServiceSeq
  OBVIOUS
<1>1. CP!Init
  BY DEF ServiceInit, C!Init, CP!Init, C!Idle, CP!Idle, C!ChannelIds, CP!ChannelIds,
         C!LocationIds, CP!LocationIds
<1>2. CP!SeqInv
  BY <1>1, CP!InitSeq, ChannelAssumptions
<1>3. \A w \in Workers : LetIn(w)
  BY IdleContext DEF ServiceInit, C!Init, LetIn, Serving, C!At
<1> QED BY <1>2, <1>3, InitService DEF ServiceSeq

(* The row that a statement on channels changes is that of the user let in, *)
(* or the user is an administrator.                                         *)
LEMMA RowOfUser ==
  ASSUME OneProcess, IdsAreNoNames, ServiceSeq, [ServiceNext]_service,
         NEW c \in C!ChannelIds, channel[c] # None, channel'[c] # channel[c]
  PROVE  \E w \in Workers : /\ At(w, "channel") /\ IsLoggedIn(proc[w].who)
                            /\ \/ IsAdministrator(proc[w].who)
                               \/ proc[w].who.name = channel[c].aut
<1>1. PICK w \in Workers : C!Arrive(w) \/ C!Step(w)
  <2>1. ASSUME NEW w \in Workers, DeleteChannelsOfAuthor(w) PROVE FALSE
    BY <2>1, NoneDeletedById DEF ServiceSeq, ServiceInv, CP!SeqInv
  <2> QED
    BY <2>1 DEF ServiceNext, Serve, Begin, Wait, Abort, AccountStatement, EnterChannel,
                ChannelStatement, service, channels
<1>2. C!Step(w)
  BY <1>1 DEF C!Arrive
<1>3. CP!MayEdit(cproc[w].user, channel[c])
  <2>1. CP!SeqInv /\ CP!NamesAreNoIds /\ CP!Step(w) /\ c \in CP!ChannelIds
    BY <1>2, SameStep
       DEF ServiceSeq, IdsAreNoNames, CP!NamesAreNoIds, C!AuthorKey, CP!AuthorKey, CP!ChannelIds,
           C!ChannelIds
  <2> QED BY <2>1, CP!ChannelChanges, ChannelAssumptions
<1>4. At(w, "channel") /\ cproc[w].user = proc[w].who.name
  BY <1>2, StepServes DEF ServiceSeq, LetIn
<1>5. IsLoggedIn(proc[w].who)
  BY <1>4 DEF At, ServiceSeq, ServiceInv, RightToChannel, Right
<1> QED
  BY <1>3, <1>4, <1>5 DEF CP!MayEdit, CP!IsAdministrator, IsAdministrator

(* "You cannot update channel with id %s, because you are not its author."  *)
(* (avChannel.c:112), from the cookie to the row, when requests are         *)
(* answered one at a time: a channel changes only while a process works for *)
(* a user whom the login check let in and who is the author the row names   *)
(* or an administrator.                                                     *)
THEOREM LoginsOwnChannels ==
  ASSUME OneProcess, IdsAreNoNames
  PROVE  ServiceSpec => LoginOwnsChannel
<1>1. ServiceSeq /\ [ServiceNext]_service => ServiceSeq'
  BY NextService, NextLetIn, NextChannels DEF ServiceSeq
<1>2. ServiceSeq /\ [ServiceNext]_service =>
        [\A c \in C!ChannelIds : channel[c] # None /\ channel'[c] # channel[c]
           => \E w \in Workers : /\ At(w, "channel") /\ IsLoggedIn(proc[w].who)
                                /\ \/ IsAdministrator(proc[w].who)
                                   \/ proc[w].who.name = channel[c].aut]_service
  BY RowOfUser
<1> QED BY <1>1, <1>2, InitServiceSeq, PTL DEF ServiceSpec, LoginOwnsChannel

-----------------------------------------------------------------------------
(* The abstract registry of channels, in the whole service and for every     *)
(* number of processes.                                                     *)

(* The types of channels hold in the service: an account request changes     *)
(* none, or deletes whole rows, and a process that stops forgets its part.   *)
LEMMA NextChannelTypes == CP!TypeInv /\ [ServiceNext]_service => CP!TypeInv'
<1> SUFFICES ASSUME CP!TypeInv, [ServiceNext]_service PROVE CP!TypeInv'
  OBVIOUS
<1>1. ASSUME UNCHANGED channels PROVE CP!TypeInv'
  <2>1. CP!vars' = CP!vars
    BY <1>1 DEF channels, CP!vars
  <2> QED BY <2>1, CP!NextType, ChannelAssumptions
<1>2. ASSUME NEW w \in Workers, C!Arrive(w) \/ C!Step(w) PROVE CP!TypeInv'
  <2>1. CP!Next
    BY <1>2, SameArrive, SameStep DEF CP!Next
  <2> QED BY <2>1, CP!NextType, ChannelAssumptions
<1>3. ASSUME NEW w \in Workers, Abort(w) PROVE CP!TypeInv'
  <2>1. CP!Become(w, CP!Idle) /\ UNCHANGED <<channel, location>>
    BY <1>3 DEF Abort, CP!Become, CP!Idle, C!Idle
  <2>2. CP!Typed(CP!Idle)
    BY CP!IdleTyped, ChannelAssumptions
  <2>3. cproc' \in [Workers -> CP!Contexts] /\ \A v \in Workers : CP!ContextOK(cproc'[v])
    BY <2>1, <2>2, CP!BecomeTyped, ChannelAssumptions
  <2> QED BY <2>1, <2>3 DEF CP!TypeInv, CP!TypeOK
<1>4. ASSUME NEW w \in Workers, DeleteChannelsOfAuthor(w) PROVE CP!TypeInv'
  <2>1. UNCHANGED <<location, cproc>>
    BY <1>4 DEF DeleteChannelsOfAuthor
  <2>2. channel' \in [CP!ChannelIds -> CP!ChannelRows \cup {None}]
    BY <1>4 DEF DeleteChannelsOfAuthor, CP!TypeInv, CP!TypeOK, CP!ChannelIds, C!ChannelIds
  <2> QED BY <2>1, <2>2 DEF CP!TypeInv, CP!TypeOK
<1> QED
  BY <1>1, <1>2, <1>3, <1>4
     DEF ServiceNext, Begin, Serve, AccountStatement, EnterChannel, ChannelStatement, Wait, service

LEMMA SameTable ==
  /\ CP!ChannelIds = C!ChannelIds
  /\ CP!Registered(channel) = C!Registered(channel)
  /\ CP!Registered(channel') = C!Registered(channel')
BY DEF CP!Registered, C!Registered, CP!ChannelIds, C!ChannelIds

(* A statement on accounts makes one more author, or none.                   *)
LEMMA OneAppointed ==
  ASSUME TypeInv, [ServiceNext]_service
  PROVE  \/ Activated' = Activated
         \/ \E a \in Names : a \notin Activated /\ Activated' = Activated \cup {a}
<1>1. [Next]_vars
  BY ServiceStep
<1>2. \/ activated' = activated
      \/ \E w \in Workers : activated' = activated \cup {<<proc[w].req.nam, proc[w].req.code>>}
  BY <1>1, StepHistory DEF HistoryChange, Next, Arrive, Fail, Age, vars, history
<1>3. activated' \subseteq Names \X Codes
  <2>1. TypeInv'
    BY <1>1, NextType
  <2> QED BY <2>1 DEF TypeInv, TypeOK
<1>4. CASE activated' = activated
  BY <1>4 DEF Activated
<1>5. ASSUME NEW w \in Workers, activated' = activated \cup {<<proc[w].req.nam, proc[w].req.code>>}
      PROVE  \/ Activated' = Activated
             \/ \E a \in Names : a \notin Activated /\ Activated' = Activated \cup {a}
  <2>1. PICK a, c : a = proc[w].req.nam /\ c = proc[w].req.code
    OBVIOUS
  <2>2. activated' = activated \cup {<<a, c>>}
    BY <1>5, <2>1
  <2>3. a \in Names
    BY <1>3, <2>2
  <2>4. Activated' = Activated \cup {a}
    <3>1. {p[1] : p \in activated'} = {p[1] : p \in activated} \cup {a}
      <4>1. <<a, c>> \in activated' /\ <<a, c>>[1] = a /\ activated \subseteq activated'
        BY <2>2
      <4>2. \A p \in activated' : p \in activated \/ p[1] = a
        BY <2>2
      <4>3. \A p \in activated' : p[1] \in {q[1] : q \in activated} \cup {a}
        BY <4>2
      <4>4. a \in {p[1] : p \in activated'}
        BY <4>1
      <4> QED BY <4>1, <4>3, <4>4
    <3> QED BY <3>1 DEF Activated
  <2>5. a \in Activated \/ a \notin Activated
    OBVIOUS
  <2> QED BY <2>3, <2>4, <2>5
<1> QED BY <1>2, <1>4, <1>5

(* A statement on channels is one step of the registry: a new channel is for *)
(* the user of its request, who has been activated.                         *)
LEMMA StatementPublishes ==
  ASSUME ServiceInv, CP!TypeInv, NEW w \in Workers, ChannelStatement(w)
  PROVE  [Publishing!Next]_Publishing!vars
<1>1. CP!Registers(w)
  <2>1. CP!Step(w)
    BY SameStep DEF ChannelStatement
  <2> QED BY <2>1, CP!StepRegisters, ChannelAssumptions
<1>2. UNCHANGED Activated
  BY DEF ChannelStatement, Finish, ServeChannel, history, vars, Activated
<1>3. cproc[w].user \in Activated
  BY StepServes DEF ChannelStatement, ServiceInv, ChannelsOfActivated
<1>4. CASE CP!Registered(channel') = CP!Registered(channel)
  BY <1>2, <1>4, SameTable DEF Publishing!vars
<1>5. ASSUME NEW i \in C!ChannelIds, NEW t \in Titles, CP!Registry!Create(i, cproc[w].user, t)
      PROVE  cproc[w].user \in Names /\ Publishing!Create(i, cproc[w].user, t)
  BY <1>2, <1>3, <1>5, SameTable
     DEF CP!Registry!Create, Publishing!Create, CP!Registry!Free, Publishing!Free
<1>6. ASSUME NEW i \in C!ChannelIds, NEW t \in Titles, CP!Registry!Rename(i, t)
      PROVE  Publishing!Rename(i, t)
  BY <1>2, <1>6, SameTable
     DEF CP!Registry!Rename, Publishing!Rename, CP!Registry!Free, Publishing!Free
<1>7. ASSUME NEW i \in C!ChannelIds, CP!Registry!Delete(i)
      PROVE  Publishing!Delete(i)
  BY <1>2, <1>7, SameTable DEF CP!Registry!Delete, Publishing!Delete
<1>8. ASSUME NEW a \in Names, CP!Registry!Withdraw(a)
      PROVE  Publishing!Withdraw(a)
  BY <1>2, <1>8, SameTable DEF CP!Registry!Withdraw, Publishing!Withdraw
<1> QED
  BY <1>1, <1>4, <1>5, <1>6, <1>7, <1>8, SameTable DEF CP!Registers, Publishing!Next

LEMMA NextPublishes ==
  ASSUME ServiceInv, CP!TypeInv, [ServiceNext]_service
  PROVE  [Publishing!Next]_Publishing!vars
<1>1. CASE UNCHANGED channel
  <2>1. UNCHANGED C!Registered(channel)
    BY <1>1 DEF C!Registered
  <2>2. CASE Activated' = Activated
    BY <2>1, <2>2 DEF Publishing!vars
  <2>3. ASSUME NEW a \in Names, a \notin Activated, Activated' = Activated \cup {a}
        PROVE  Publishing!Next
    BY <2>1, <2>3 DEF Publishing!Next, Publishing!Appoint
  <2> QED BY <2>2, <2>3, OneAppointed DEF ServiceInv
<1>2. ASSUME NEW w \in Workers, DeleteChannelsOfAuthor(w)
      PROVE  [Publishing!Next]_Publishing!vars
  <2> DEFINE a == C!AuthorKey(proc[w].req.id)
  <2>1. channel' = [c \in CP!ChannelIds |-> IF channel[c] # None /\ channel[c].aut = a THEN None ELSE channel[c]]
    BY <1>2, SameTable DEF DeleteChannelsOfAuthor
  <2>2. UNCHANGED Activated
    BY <1>2 DEF DeleteChannelsOfAuthor, DeleteAuthorChannels, history, Activated
  <2>3. CP!TypeOK
    BY DEF CP!TypeInv
  <2> HIDE DEF a
  <2>4. CP!Registered(channel') = CP!Registered(channel) \/ (a \in Names /\ CP!Registry!Withdraw(a))
    BY <2>1, <2>3, CP!WithdrawRegisters, ChannelAssumptions
  <2>5. CASE CP!Registered(channel') = CP!Registered(channel)
    BY <2>2, <2>5, SameTable DEF Publishing!vars
  <2>6. CASE a \in Names /\ CP!Registry!Withdraw(a)
    <3>1. Publishing!Withdraw(a)
      BY <2>2, <2>6, SameTable DEF CP!Registry!Withdraw, Publishing!Withdraw
    <3> QED BY <2>6, <3>1 DEF Publishing!Next
  <2> QED BY <2>4, <2>5, <2>6
<1> QED
  BY <1>1, <1>2, StatementPublishes
     DEF ServiceNext, Serve, Begin, Wait, Abort, AccountStatement, EnterChannel, C!Arrive,
         service, channels

LEMMA InitChannelTypes == ServiceInit => CP!TypeInv
<1> SUFFICES ASSUME ServiceInit PROVE CP!TypeInv
  OBVIOUS
<1>1. CP!Init
  BY DEF ServiceInit, C!Init, CP!Init, C!Idle, CP!Idle, C!ChannelIds, CP!ChannelIds,
         C!LocationIds, CP!LocationIds
<1> QED BY <1>1, CP!InitType, ChannelAssumptions

(* From registration to the page of a channel, with any number of processes  *)
(* stopped anywhere: the statements on accounts and on channels together     *)
(* appoint authors and create, rename and delete channels as ChannelRegistry *)
(* says.  A channel is created by somebody who was activated before, keeps   *)
(* that author, and never shares its title.                                  *)
THEOREM ServicePublishes == ServiceSpec => ImplementsPublishing
<1> DEFINE Inv == ServiceInv /\ CP!TypeInv
<1>1. ServiceInit => Inv
  BY InitService, InitChannelTypes
<1>2. Inv /\ [ServiceNext]_service => Inv'
  BY NextService, NextChannelTypes
<1>3. ServiceInit => Publishing!Init
  BY DEF ServiceInit, Init, C!Init, Publishing!Init, C!Registered, Activated
<1>4. Inv /\ [ServiceNext]_service => [Publishing!Next]_Publishing!vars
  BY NextPublishes
<1> QED BY <1>1, <1>2, <1>3, <1>4, PTL DEF ServiceSpec, ImplementsPublishing, Publishing!Spec
=============================================================================
