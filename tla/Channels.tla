------------------------------ MODULE Channels ------------------------------
(***************************************************************************)
(* Channels and their locations in the Arvos directory service: the        *)
(* EditChannel and DeleteChannel actions of avChannel.c with avDbChannel.c, *)
(* avDbLocation.c and avLocationSave.                                      *)
(*                                                                         *)
(* As in Accounts, every request is a process and a step is one SQL        *)
(* statement with the code up to the next one.  Channel names, the texts   *)
(* of a channel (description, developer key, urls) and the places of       *)
(* locations are tokens that are read back as they were written: texts     *)
(* without "=", the others are in DataCodec.  The SELECT of the two        *)
(* ...UpdateValues functions is left out: their callers here overwrite     *)
(* every key of VALS.                                                      *)
(***************************************************************************)
EXTENDS Naturals, Sequences

CONSTANTS
  Workers,        \* CGI processes that run at the same time
  Names,          \* names of activated authors and of administrators
  Admins,         \* those of them who are administrators
  Titles,         \* channel names
  Texts,          \* what else a channel says
  Places,         \* valid positions of a location
  MaxChannelId,   \* bound on the row ids of table channel
  MaxLocationId,  \* bound on the row ids of table location
  MaxItems,       \* bound on the locations of one form
  Failures,       \* control points at which a statement may fail or the process be killed
  None            \* no row, no value

ASSUME ChannelBounds == MaxChannelId \in Nat /\ MaxLocationId \in Nat /\ MaxItems \in Nat
ASSUME ChannelAdmins == Admins \subseteq Names /\ Failures \subseteq STRING
ASSUME ChannelNone == None \notin Names \cup Titles \cup Texts \cup Places

ChannelIds  == 1..MaxChannelId
LocationIds == 1..MaxLocationId

ChannelRows  == [name : Titles, aut : Names, des : Texts, dev : Texts, vals : Texts \cup {None}]
LocationRows == [chn : ChannelIds, pos : Places, vals : Places \cup {None}]
ChannelRecords == [title : Titles, author : Names]
ASSUME ChannelRowNone == None \notin ChannelRows \cup LocationRows \cup ChannelRecords

(* A location of the form that is to be saved: the id of its row or 0 for    *)
(* "New", and its place; "bad" when a value is invalid.                      *)
Items == [loc : LocationIds \cup {0}, at : Places \cup {"bad"}]
(* The page lists each row once and adds new locations at the end.          *)
Listed(items) ==
  \A i, j \in DOMAIN items : i < j =>
    items[j].loc = 0 \/ (items[i].loc # 0 /\ items[i].loc # items[j].loc)
(* A form sends locations to save and, with an invalid radius, the ids of   *)
(* those to delete; a new location with an invalid radius is like none.     *)
ListsOf(S) == UNION {[1..n -> S] : n \in 0..MaxItems}
Dropped(f, l) == \E i \in DOMAIN f.drops : f.drops[i] = l
Named(f, l) == Dropped(f, l) \/ \E i \in DOMAIN f.items : f.items[i].loc = l
Forms ==
  {f \in [drops : ListsOf(LocationIds), items : ListsOf(Items)] :
     /\ Len(f.drops) + Len(f.items) <= MaxItems
     /\ \A i, j \in DOMAIN f.drops : i < j => f.drops[i] # f.drops[j]
     /\ \A i \in DOMAIN f.items : ~Dropped(f, f.items[i].loc)
     /\ Listed(f.items)}
NoForm == [drops |-> << >>, items |-> << >>]

(* The button: "save" with valid values, "invalid" values, "add" location.  *)
Buttons == {"save", "invalid", "add"}
Requests ==
  [act : {"EditChannel"}, id : ChannelIds \cup {0}, button : {"save"},
   title : Titles, text : Texts, form : Forms, aut : {None}]
  \cup
  [act : {"EditChannel"}, id : ChannelIds \cup {0}, button : {"invalid", "add"},
   title : {None}, text : {None}, form : Forms, aut : {None}]
  \cup
  [act : {"DeleteChannel"}, id : ChannelIds, button : {"save"},
   title : {None}, text : {None}, form : {NoForm}, aut : {None}]
  \cup
  [act : {"DeleteAuthor"}, id : {0}, button : {"save"},
   title : {None}, text : {None}, form : {NoForm}, aut : Names]

VARIABLES
  channel,   \* table channel: row id -> row or None
  location,  \* table location: row id -> row or None
  proc,      \* the request each worker serves
  shown      \* history: <<channel, location>> pairs a page may have shown

vars == <<channel, location, proc, shown>>

(* id is the channel at work, doomed and items the locations to delete and  *)
(* to save, loc the location at work, saved what has been saved.            *)
Idle == [pc |-> "idle", user |-> None, req |-> None, id |-> 0,
         doomed |-> << >>, items |-> << >>, loc |-> 0, saved |-> {}]

Init ==
  /\ channel = [c \in ChannelIds |-> None]
  /\ location = [l \in LocationIds |-> None]
  /\ proc = [w \in Workers |-> Idle]
  /\ shown = {}

-----------------------------------------------------------------------------
(* The tables.                                                              *)

IsNextRowid(i, table) ==
  /\ \A j \in DOMAIN table : j >= i => table[j] = None
  /\ i > 1 => table[i - 1] # None

ChannelsById(id) == {c \in ChannelIds : c = id /\ channel[c] # None}
ChannelsByName(n) == {c \in ChannelIds : channel[c] # None /\ channel[c].name = n}
LocationsById(id) == {l \in LocationIds : l = id /\ location[l] # None}
BugLocationsOf(c) == {}
LocationsOf(c) == {l \in LocationIds : location[l] # None /\ location[l].chn = c}

(* UPDATE of the rows of a set: f says what becomes of a row.               *)
UpdateChannels(rows, f(_)) ==
  channel' = [c \in ChannelIds |-> IF c \in rows THEN f(channel[c]) ELSE channel[c]]
UpdateLocations(rows, f(_)) ==
  location' = [l \in LocationIds |-> IF l \in rows THEN f(location[l]) ELSE location[l]]

(* CHN TEXT UNIQUE: no other row than c has the name.                       *)
BugTitleIsFree(n, c) == TRUE
TitleIsFree(n, c) == ChannelsByName(n) \subseteq {c}

-----------------------------------------------------------------------------
(* Control flow of a request.                                               *)

At(w, pc) == proc[w].pc = pc
Become(w, c) == proc' = [proc EXCEPT ![w] = IF c.pc = "idle" THEN Idle ELSE c]
Goto(w, pc) == Become(w, [proc[w] EXCEPT !.pc = pc])

IsAdministrator(u) == u \in Admins
BugMayEdit(u, row) == TRUE
MayEdit(u, row) == IsAdministrator(u) \/ u = row.aut

(* "Add" only shows the form again; invalid values show it with a message.  *)
Validated(c) ==
  IF c.req.button = "invalid" THEN "idle" ELSE IF c.req.id # 0 THEN "check3" ELSE "byName"
AfterDrops(c) ==
  IF c.req.button = "add" THEN "idle" ELSE IF c.req.id # 0 THEN "check2" ELSE Validated(c)
AfterCheck(c) == IF c.doomed # << >> THEN "drop" ELSE AfterDrops(c)

(* avLocationSave for the next location: a bad value ends the request.      *)
NextItem(items) ==
  IF items = << >> THEN "show"
  ELSE IF Head(items).at = "bad" THEN "idle"
  ELSE IF Head(items).loc = 0 THEN "locInsert" ELSE "locCheck"

Start(c) ==
  IF c.req.act = "DeleteChannel" THEN "delCheck"
  ELSE IF c.req.act = "DeleteAuthor" THEN "delByAuthor"
  ELSE IF c.req.id # 0 THEN "check1" ELSE AfterCheck(c)

(* A form lists what the page of the channel showed, maybe long ago; the    *)
(* form of a new channel (id 0) lists new locations only.                   *)
Arrive(w) ==
  /\ At(w, "idle")
  /\ \E u \in Names, r \in Requests :
       /\ \A l \in LocationIds : Named(r.form, l) => <<r.id, l>> \in shown
       /\ LET c == [Idle EXCEPT !.user = u, !.req = r, !.id = r.id,
                                !.doomed = r.form.drops, !.items = r.form.items]
          IN  Become(w, [c EXCEPT !.pc = Start(c)])
  /\ UNCHANGED <<channel, location, shown>>

-----------------------------------------------------------------------------
(* EditChannel.                                                             *)

(* The channel is read and its author compared, three times over.           *)
Check(w, next) ==
  /\ \/ /\ \E c \in ChannelsById(proc[w].id) : MayEdit(proc[w].user, channel[c])
        /\ Goto(w, next)
     \/ /\ \A c \in ChannelsById(proc[w].id) : ~MayEdit(proc[w].user, channel[c])
        /\ Goto(w, "idle")
  /\ UNCHANGED <<channel, location, shown>>

CheckChannel(w) ==
  \/ At(w, "check1") /\ Check(w, AfterCheck(proc[w]))
  \/ At(w, "check2") /\ Check(w, Validated(proc[w]))
  \/ At(w, "check3") /\ Check(w, "updName")

(* DELETE FROM location, by the id of the form, whatever its channel.       *)
DropLocation(w) ==
  /\ At(w, "drop")
  /\ location' = [location EXCEPT ![Head(proc[w].doomed)] = None]
  /\ LET c == [proc[w] EXCEPT !.doomed = Tail(@)] IN Become(w, [c EXCEPT !.pc = AfterCheck(c)])
  /\ UNCHANGED <<channel, shown>>

UpdateName(w) ==
  /\ At(w, "updName")
  /\ \/ /\ ChannelsById(proc[w].id) = {} \/ TitleIsFree(proc[w].req.title, proc[w].id)
        /\ UpdateChannels(ChannelsById(proc[w].id),
                          LAMBDA row : [row EXCEPT !.name = proc[w].req.title])
        /\ Goto(w, "updDes")
     \/ /\ ChannelsById(proc[w].id) # {} /\ ~TitleIsFree(proc[w].req.title, proc[w].id)
        /\ Goto(w, "idle")
        /\ UNCHANGED channel
  /\ UNCHANGED <<location, shown>>

BugSetKey(row, t) == row
SetKey(row, t) == [row EXCEPT !.dev = t]

(* The columns DES and DEV.                                                 *)
UpdateTexts(w) ==
  /\ \/ /\ At(w, "updDes")
        /\ UpdateChannels(ChannelsById(proc[w].id),
                          LAMBDA row : [row EXCEPT !.des = proc[w].req.text])
        /\ Goto(w, "updDev")
     \/ /\ At(w, "updDev")
        /\ UpdateChannels(ChannelsById(proc[w].id), LAMBDA row : SetKey(row, proc[w].req.text))
        /\ Goto(w, "vals")
  /\ UNCHANGED <<location, shown>>

CheckTitle(w) ==
  /\ At(w, "byName")
  /\ Goto(w, IF ChannelsByName(proc[w].req.title) # {} THEN "idle" ELSE "insert")
  /\ UNCHANGED <<channel, location, shown>>

BugNewChannel(u, r) == [name |-> r.title, aut |-> r.aut, des |-> r.text, dev |-> r.text, vals |-> None]
NewChannel(u, r) == [name |-> r.title, aut |-> u, des |-> r.text, dev |-> r.text, vals |-> None]

InsertChannel(w) ==
  /\ At(w, "insert")
  /\ \/ /\ TitleIsFree(proc[w].req.title, 0)
        /\ \E c \in ChannelIds :
             /\ IsNextRowid(c, channel)
             /\ channel' = [channel EXCEPT ![c] = NewChannel(proc[w].user, proc[w].req)]
             /\ Goto(w, "getId")
     \/ /\ \/ ~TitleIsFree(proc[w].req.title, 0)
           \/ \A c \in ChannelIds : ~IsNextRowid(c, channel)
        /\ Goto(w, "idle")
        /\ UNCHANGED channel
  /\ UNCHANGED <<location, shown>>

(* SELECT ID FROM channel WHERE CHN = name, a statement of its own.         *)
GetChannelId(w) ==
  /\ At(w, "getId")
  /\ \/ \E c \in ChannelsByName(proc[w].req.title) :
          Become(w, [proc[w] EXCEPT !.id = c, !.pc = "vals"])
     \/ ChannelsByName(proc[w].req.title) = {} /\ Goto(w, "idle")
  /\ UNCHANGED <<channel, location, shown>>

UpdateVals(w) ==
  /\ At(w, "vals")
  /\ UpdateChannels(ChannelsById(proc[w].id), LAMBDA row : [row EXCEPT !.vals = proc[w].req.text])
  /\ Goto(w, NextItem(proc[w].items))
  /\ UNCHANGED <<location, shown>>

-----------------------------------------------------------------------------
(* avLocationSave, once for each location of the form.                      *)

Place(w) == Head(proc[w].items).at

InsertLocation(w) ==
  /\ At(w, "locInsert")
  /\ \/ \E l \in LocationIds :
          /\ IsNextRowid(l, location)
          /\ location' = [location EXCEPT ![l] = [chn |-> proc[w].id, pos |-> Place(w), vals |-> None]]
          /\ shown' = shown \cup {<<proc[w].id, l>>}
          /\ Become(w, [proc[w] EXCEPT !.loc = l, !.pc = "locVals"])
     \/ /\ \A l \in LocationIds : ~IsNextRowid(l, location)
        /\ Goto(w, "idle")
        /\ UNCHANGED <<location, shown>>
  /\ UNCHANGED channel

CheckLocation(w) ==
  /\ At(w, "locCheck")
  /\ LET l == Head(proc[w].items).loc
     IN  IF LocationsById(l) # {} THEN Become(w, [proc[w] EXCEPT !.loc = l, !.pc = "locChannel"])
                                  ELSE Goto(w, "idle")
  /\ UNCHANGED <<channel, location, shown>>

BugMoved(row, c) == row
Moved(row, c) == [row EXCEPT !.chn = c]

(* The columns CHN and POS of an existing location.                         *)
UpdateLocation(w) ==
  /\ \/ /\ At(w, "locChannel")
        /\ UpdateLocations(LocationsById(proc[w].loc), LAMBDA row : Moved(row, proc[w].id))
        /\ shown' = shown \cup {<<proc[w].id, l>> : l \in LocationsById(proc[w].loc)}
        /\ Goto(w, "locPosition")
     \/ /\ At(w, "locPosition")
        /\ UpdateLocations(LocationsById(proc[w].loc), LAMBDA row : [row EXCEPT !.pos = Place(w)])
        /\ UNCHANGED shown
        /\ Goto(w, "locVals")
  /\ UNCHANGED channel

UpdateLocationVals(w) ==
  /\ At(w, "locVals")
  /\ UpdateLocations(LocationsById(proc[w].loc), LAMBDA row : [row EXCEPT !.vals = Place(w)])
  /\ LET c == [proc[w] EXCEPT !.saved = @ \cup {<<proc[w].loc, Place(w)>>}, !.items = Tail(@), !.loc = 0]
     IN  Become(w, [c EXCEPT !.pc = NextItem(c.items)])
  /\ UNCHANGED <<channel, shown>>

(* The channel is read once more for the page that reports success.         *)
ShowSaved(w) ==
  /\ At(w, "show")
  /\ Goto(w, "idle")
  /\ UNCHANGED <<channel, location, shown>>

-----------------------------------------------------------------------------
(* DeleteChannel, and the deletion of an author's channels.                 *)

CheckDelete(w) == At(w, "delCheck") /\ Check(w, "delChannel")

DeleteChannel(w) ==
  /\ At(w, "delChannel")
  /\ UpdateChannels(ChannelsById(proc[w].id), LAMBDA row : None)
  /\ Goto(w, "delLocations")
  /\ UNCHANGED <<location, shown>>

DeleteLocations(w) ==
  /\ At(w, "delLocations")
  /\ UpdateLocations(LocationsOf(proc[w].id), LAMBDA row : None)
  /\ Goto(w, "idle")
  /\ UNCHANGED <<channel, shown>>

(* avDbAuthorDelete gives the author's id to avDbChannelDeleteByAuthor, but *)
(* column AUT holds the author's name.  The id of n, <<n>> here, is nobody's *)
(* name unless somebody registered under a number.                          *)
AuthorKey(n) == <<n>>
DeleteByAuthor(w) ==
  /\ At(w, "delByAuthor")
  /\ UpdateChannels({c \in ChannelIds : channel[c] # None /\ channel[c].aut = AuthorKey(proc[w].req.aut)},
                    LAMBDA row : None)
  /\ Goto(w, "idle")
  /\ UNCHANGED <<location, shown>>

(* A statement fails, or the web server kills the process.                  *)
Fail(w) ==
  /\ proc[w].pc \in Failures \ {"idle"}
  /\ Goto(w, "idle")
  /\ UNCHANGED <<channel, location, shown>>

Step(w) ==
  \/ CheckChannel(w) \/ DropLocation(w) \/ UpdateName(w) \/ UpdateTexts(w)
  \/ CheckTitle(w) \/ InsertChannel(w) \/ GetChannelId(w) \/ UpdateVals(w)
  \/ InsertLocation(w) \/ CheckLocation(w) \/ UpdateLocation(w) \/ UpdateLocationVals(w)
  \/ ShowSaved(w) \/ CheckDelete(w) \/ DeleteChannel(w) \/ DeleteLocations(w) \/ DeleteByAuthor(w)

Next == \E w \in Workers : Arrive(w) \/ Step(w) \/ Fail(w)

Spec == Init /\ [][Next]_vars

-----------------------------------------------------------------------------
(* Properties.  Operators whose names begin with Bug are faulty versions of *)
(* the definition behind them; no action uses them.                         *)

(* A channel is the title and the author in its row.                        *)
Registered(table) ==
  [c \in ChannelIds |-> IF table[c] = None THEN None
                        ELSE [title |-> table[c].name, author |-> table[c].aut]]
Registry == INSTANCE ChannelRegistry
            WITH Ids <- ChannelIds, Founders <- Names, registry <- Registered(channel), authors <- Names

(* Every statement creates, renames or deletes channels as ChannelRegistry   *)
(* says: whichever columns EditChannel writes and in which order, titles     *)
(* stay unique and a channel stays its author's.                            *)
ImplementsRegistry == Registry!Spec

(* Every table row has the form the code gives it.                          *)
TypeOK ==
  /\ channel \in [ChannelIds -> ChannelRows \cup {None}]
  /\ location \in [LocationIds -> LocationRows \cup {None}]

(* Two channels never have one name, although EditChannel renames without   *)
(* looking and looks before it inserts without holding a lock.              *)
ChannelNamesUnique ==
  \A c, d \in ChannelIds :
    channel[c] # None /\ channel[d] # None /\ channel[c].name = channel[d].name => c = d

(* "The values of the channel were successfully saved." (avChannel.c:321):  *)
(* the row has the name and texts of the form, and every location of the    *)
(* form is found at the place at which its page shows it.                   *)
SavedAsReported ==
  \A w \in Workers : At(w, "show") =>
    LET p == proc[w]
    IN  /\ channel[p.id] # None
        /\ channel[p.id].name = p.req.title
        /\ \A t \in {channel[p.id].des, channel[p.id].dev, channel[p.id].vals} : t = p.req.text
        /\ \A s \in p.saved : location[s[1]] = [chn |-> p.id, pos |-> s[2], vals |-> s[2]]

(* Once all requests are answered, the columns of a row come from one edit   *)
(* unless a process stopped between the UPDATEs of that row (the run lets it *)
(* stop at every other statement):                                          *)
(* no channel has the description of one form and the urls of another, no   *)
(* location is searched at one place and shown at another.                  *)
RowsWhole ==
  (\A w \in Workers : At(w, "idle")) =>
    /\ \A c \in ChannelIds : channel[c] # None =>
         channel[c].des = channel[c].dev /\ channel[c].dev = channel[c].vals
    /\ \A l \in LocationIds : location[l] # None => location[l].pos = location[l].vals

(* Every location belongs to a channel, or to one whose DeleteChannel has   *)
(* just that to clear away (the run does not stop it there): otherwise the  *)
(* next channel to get the row id would start with the locations of a       *)
(* deleted one.                                                             *)
NoOrphans ==
  \A l \in LocationIds : location[l] # None =>
    \/ channel[location[l].chn] # None
    \/ \E w \in Workers : At(w, "delLocations") /\ proc[w].id = location[l].chn

(* "You cannot update channel with id %s, because you are not its author."  *)
(* (avChannel.c:112): a channel row is changed or deleted only for its      *)
(* author or for an administrator.                                          *)
AuthorsOnly ==
  [][\A c \in ChannelIds : channel[c] # None /\ channel'[c] # channel[c]
       => \E w \in Workers : ~At(w, "idle") /\ proc[w].id = c
                            /\ (IsAdministrator(proc[w].user) \/ proc[w].user = channel[c].aut)]_vars

(* The same for the locations of a channel that still exists.               *)
LocationsOfAuthorsOnly ==
  [][\A l \in LocationIds :
       location[l] # None /\ location'[l] # location[l] /\ channel[location[l].chn] # None
       => \E w \in Workers : /\ ~At(w, "idle")
                            /\ \/ IsAdministrator(proc[w].user)
                               \/ proc[w].user = channel[location[l].chn].aut]_vars

(* "Delete a channel with the given author id." (avDbChannel.c:241): when   *)
(* an author is deleted, so are the author's channels.                      *)
ChannelsGoWithAuthor ==
  [][\A w \in Workers : DeleteByAuthor(w) =>
       \A c \in ChannelIds : channel'[c] # None => channel'[c].aut # proc[w].req.aut]_vars
=============================================================================
