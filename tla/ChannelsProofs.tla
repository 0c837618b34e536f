--------------------------- MODULE ChannelsProofs ---------------------------
(* Proofs about Channels, for every number of row ids, names and forms:    *)
(* unique names and types for any number of processes, then what holds     *)
(* when requests are answered one at a time.                               *)
EXTENDS Channels, SequenceTheorems, TLAPS

(* What uniqueness needs of the rows' form: an UPDATE keeps the columns it  *)
(* does not name.                                                           *)
IsRow(r) == r = [name |-> r.name, aut |-> r.aut, des |-> r.des, dev |-> r.dev, vals |-> r.vals]
Rows ==
  /\ channel = [c \in ChannelIds |-> channel[c]]
  /\ \A c \in ChannelIds : channel[c] # None => IsRow(channel[c])
NamesInv == Rows /\ ChannelNamesUnique

(* An UPDATE that keeps names keeps them unique.                            *)
LEMMA UpdateKeepsNames ==
  ASSUME NamesInv, NEW rows,
         channel' = [c \in ChannelIds |-> IF c \in rows THEN channel'[c] ELSE channel[c]],
         \A c \in ChannelIds : c \in rows =>
           channel'[c] = None \/ /\ channel[c] # None /\ IsRow(channel'[c])
                                 /\ channel'[c].name = channel[c].name
  PROVE  NamesInv'
<1>1. \A c \in ChannelIds : channel'[c] # None =>
        channel[c] # None /\ IsRow(channel'[c]) /\ channel'[c].name = channel[c].name
  BY DEF NamesInv, Rows
<1>2. ChannelNamesUnique'
  BY <1>1 DEF NamesInv, ChannelNamesUnique
<1> QED BY <1>1, <1>2 DEF NamesInv, Rows

LEMMA TextsKeepNames ==
  ASSUME NamesInv, NEW w \in Workers, UpdateTexts(w) \/ UpdateVals(w)
  PROVE  NamesInv'
<1> DEFINE rows == ChannelsById(proc[w].id)
           t == proc[w].req.text
<1>1. \/ channel' = [c \in ChannelIds |-> IF c \in rows THEN [channel[c] EXCEPT !.des = t] ELSE channel[c]]
      \/ channel' = [c \in ChannelIds |-> IF c \in rows THEN [channel[c] EXCEPT !.dev = t] ELSE channel[c]]
      \/ channel' = [c \in ChannelIds |-> IF c \in rows THEN [channel[c] EXCEPT !.vals = t] ELSE channel[c]]
  BY DEF UpdateTexts, UpdateVals, UpdateChannels, SetKey
<1>2. ASSUME NEW c \in ChannelIds, c \in rows
      PROVE  channel[c] # None /\ IsRow(channel'[c]) /\ channel'[c].name = channel[c].name
  <2>1. channel[c] # None /\ IsRow(channel[c])
    BY <1>2 DEF ChannelsById, NamesInv, Rows
  <2>2. \/ channel'[c] = [channel[c] EXCEPT !.des = t]
        \/ channel'[c] = [channel[c] EXCEPT !.dev = t]
        \/ channel'[c] = [channel[c] EXCEPT !.vals = t]
    BY <1>1, <1>2
  <2> QED BY <2>1, <2>2 DEF IsRow
<1>3. channel' = [c \in ChannelIds |-> IF c \in rows THEN channel'[c] ELSE channel[c]]
  BY <1>1
<1> HIDE DEF rows
<1> QED BY <1>2, <1>3, UpdateKeepsNames

(* A rename: nobody else has the name, or no row is renamed.                *)
LEMMA RenameKeepsNames ==
  ASSUME NamesInv, NEW w \in Workers, UpdateName(w)
  PROVE  NamesInv'
<1> DEFINE rows == ChannelsById(proc[w].id)
           n == proc[w].req.title
<1>1. CASE UNCHANGED channel
  BY <1>1 DEF NamesInv, Rows, ChannelNamesUnique
<1>2. CASE /\ rows = {} \/ TitleIsFree(n, proc[w].id)
           /\ channel' = [c \in ChannelIds |-> IF c \in rows THEN [channel[c] EXCEPT !.name = n]
                                                             ELSE channel[c]]
  <2>1. ASSUME NEW c \in ChannelIds, c \in rows
        PROVE  IsRow(channel'[c]) /\ channel'[c].name = n
    <3>1. IsRow(channel[c])
      BY <2>1 DEF ChannelsById, NamesInv, Rows
    <3>2. channel'[c] = [channel[c] EXCEPT !.name = n]
      BY <1>2, <2>1
    <3> QED BY <3>1, <3>2 DEF IsRow
  <2>2. \A c \in ChannelIds : c \notin rows => channel'[c] = channel[c]
    BY <1>2
  <2>3. \A c \in ChannelIds : c \in rows => c = proc[w].id
    BY DEF ChannelsById
  <2>4. \A c, d \in ChannelIds :
          c \in rows /\ d \notin rows /\ channel[d] # None => channel[d].name # n
    BY <1>2, <2>3 DEF TitleIsFree, ChannelsByName, ChannelsById
  <2>5. Rows'
    BY <1>2, <2>1, <2>2 DEF Rows, NamesInv
  <2>6. ChannelNamesUnique'
    BY <2>1, <2>2, <2>3, <2>4 DEF ChannelNamesUnique, NamesInv
  <2> QED BY <2>5, <2>6 DEF NamesInv
<1> QED BY <1>1, <1>2 DEF UpdateName, UpdateChannels

LEMMA InsertKeepsNames ==
  ASSUME NamesInv, NEW w \in Workers, InsertChannel(w)
  PROVE  NamesInv'
<1>1. CASE UNCHANGED channel
  BY <1>1 DEF NamesInv, Rows, ChannelNamesUnique
<1>2. ASSUME NEW i \in ChannelIds, TitleIsFree(proc[w].req.title, 0),
             channel' = [channel EXCEPT ![i] = NewChannel(proc[w].user, proc[w].req)]
      PROVE  NamesInv'
  <2>1. /\ channel'[i] = NewChannel(proc[w].user, proc[w].req)
        /\ \A c \in ChannelIds : c # i => channel'[c] = channel[c]
        /\ channel' = [c \in ChannelIds |-> channel'[c]]
    BY <1>2 DEF NamesInv, Rows
  <2>2. IsRow(channel'[i]) /\ channel'[i].name = proc[w].req.title
    BY <2>1 DEF NewChannel, IsRow
  <2>3. \A c \in ChannelIds : channel[c] # None => channel[c].name # proc[w].req.title
    BY <1>2 DEF TitleIsFree, ChannelsByName, ChannelIds
  <2>4. Rows'
    BY <2>1, <2>2 DEF Rows, NamesInv
  <2>5. ChannelNamesUnique'
    BY <2>1, <2>2, <2>3 DEF ChannelNamesUnique, NamesInv
  <2> QED BY <2>4, <2>5 DEF NamesInv
<1> QED BY <1>1, <1>2 DEF InsertChannel

LEMMA DeleteKeepsNames ==
  ASSUME NamesInv, NEW w \in Workers, DeleteChannel(w) \/ DeleteByAuthor(w)
  PROVE  NamesInv'
<1>1. PICK rows : channel' = [c \in ChannelIds |-> IF c \in rows THEN None ELSE channel[c]]
  BY DEF DeleteChannel, DeleteByAuthor, UpdateChannels
<1>2. /\ channel' = [c \in ChannelIds |-> IF c \in rows THEN channel'[c] ELSE channel[c]]
      /\ \A c \in ChannelIds : c \in rows => channel'[c] = None
  BY <1>1
<1> QED BY <1>2, UpdateKeepsNames

LEMMA NextKeepsNames == NamesInv /\ [Next]_vars => NamesInv'
<1> SUFFICES ASSUME NamesInv, [Next]_vars PROVE NamesInv'
  OBVIOUS
<1>1. CASE UNCHANGED channel
  BY <1>1 DEF NamesInv, Rows, ChannelNamesUnique
<1>2. ASSUME NEW w \in Workers, Step(w) PROVE NamesInv'
  <2>1. CASE UNCHANGED channel
    BY <1>1, <2>1
  <2> QED
    BY <1>2, <2>1, TextsKeepNames, RenameKeepsNames, InsertKeepsNames, DeleteKeepsNames
       DEF Step, CheckChannel, Check, DropLocation, CheckTitle, GetChannelId, InsertLocation,
           CheckLocation, UpdateLocation, UpdateLocationVals, ShowSaved, CheckDelete, DeleteLocations
<1> QED BY <1>1, <1>2 DEF Next, Arrive, Fail, vars

(* However many processes insert and rename channels at once and wherever   *)
(* they stop, the UNIQUE column keeps channel names unique: the SELECT that *)
(* EditChannel makes before the INSERT is not needed for it, and a rename   *)
(* makes none.                                                              *)
THEOREM ChannelNamesHold == Spec => []ChannelNamesUnique
<1>1. Init => NamesInv
  BY DEF Init, NamesInv, Rows, ChannelNamesUnique
<1>2. NamesInv => ChannelNamesUnique
  BY DEF NamesInv
<1> QED BY <1>1, <1>2, NextKeepsNames, PTL DEF Spec

-----------------------------------------------------------------------------
(* Types, for every number of processes.                                    *)

(* Control points of EditChannel before the form is found valid, where its  *)
(* values are saved, and in avLocationSave; of DeleteChannel.               *)
FormPCs == {"check1", "drop", "check2"}
RowPCs  == {"updName", "updDes", "updDev", "vals"}
NewPCs  == {"byName", "insert", "getId"}
LocPCs  == {"locInsert", "locCheck", "locChannel", "locPosition", "locVals"}
SavePCs == {"check3", "show"} \cup RowPCs \cup NewPCs \cup LocPCs
DelPCs  == {"delCheck", "delChannel", "delLocations"}
PCs     == {"idle", "delByAuthor"} \cup FormPCs \cup SavePCs \cup DelPCs

Contexts == [pc : PCs, user : Names \cup {None}, req : Requests \cup {None}, id : ChannelIds \cup {0},
             doomed : Seq(LocationIds), items : Seq(Items), loc : LocationIds \cup {0},
             saved : SUBSET (LocationIds \X Places)]

(* What a process at a control point is about: the valid values of a form,  *)
(* a row of the channel, a location with a valid place.                     *)
ContextOK(c) ==
  /\ Listed(c.items)
  /\ c.pc # "idle" => c.user \in Names /\ c.req \in Requests
  /\ c.pc \in FormPCs \cup SavePCs => c.req.act = "EditChannel"
  /\ c.pc \in SavePCs => c.req.button = "save"
  /\ c.pc = "delByAuthor" => c.req.aut \in Names
  /\ c.pc \in FormPCs \cup {"check3"} => c.id = c.req.id
  /\ c.pc = "check2" => c.req.button # "add"
  /\ c.pc \in {"check3", "show"} \cup RowPCs \cup LocPCs \cup DelPCs => c.id \in ChannelIds
  /\ c.pc = "drop" => c.doomed # << >>
  /\ c.pc \in LocPCs => c.items # << >> /\ Head(c.items).at \in Places
  /\ c.pc = "locInsert" => Head(c.items).loc = 0
  /\ c.pc = "locCheck" => Head(c.items).loc \in LocationIds
  /\ c.pc \in {"locChannel", "locPosition", "locVals"} => c.loc \in LocationIds

TypeInv ==
  /\ TypeOK
  /\ proc \in [Workers -> Contexts]
  /\ \A w \in Workers : ContextOK(proc[w])

LEMMA RequestFacts ==
  ASSUME NEW r \in Requests
  PROVE  /\ r.id \in ChannelIds \cup {0}
         /\ r.form.drops \in Seq(LocationIds) /\ r.form.items \in Seq(Items) /\ Listed(r.form.items)
         /\ r.act \in {"EditChannel", "DeleteChannel", "DeleteAuthor"}
         /\ r.act = "EditChannel" /\ r.button = "save" => r.title \in Titles /\ r.text \in Texts
         /\ r.act = "EditChannel" => r.button \in {"save", "invalid", "add"}
         /\ r.act = "DeleteChannel" => r.id \in ChannelIds
         /\ r.act = "DeleteAuthor" => r.aut \in Names
<1>1. ASSUME NEW f \in Forms
      PROVE  f.drops \in Seq(LocationIds) /\ f.items \in Seq(Items) /\ Listed(f.items)
  <2>1. f.drops \in ListsOf(LocationIds) /\ f.items \in ListsOf(Items)
    BY <1>1 DEF Forms
  <2>2. \A S : ListsOf(S) \subseteq Seq(S)
    BY ChannelBounds DEF ListsOf
  <2> QED BY <1>1, <2>1, <2>2 DEF Forms
<1>2. NoForm.drops \in Seq(LocationIds) /\ NoForm.items \in Seq(Items) /\ Listed(NoForm.items)
  BY DEF NoForm, Listed
<1>3. r.form \in Forms \cup {NoForm}
  BY DEF Requests
<1>4. r.form.drops \in Seq(LocationIds) /\ r.form.items \in Seq(Items) /\ Listed(r.form.items)
  BY <1>1, <1>2, <1>3
<1> QED BY <1>4 DEF Requests

LEMMA ItemFacts ==
  ASSUME NEW S, NEW s \in Seq(S), s # << >>
  PROVE  /\ Head(s) \in S /\ Tail(s) \in Seq(S) /\ Head(s) = s[1] /\ 1 \in DOMAIN s
         /\ \A i \in DOMAIN Tail(s) : i \in Nat \ {0} /\ i + 1 \in DOMAIN s /\ Tail(s)[i] = s[i + 1]
<1>1. Len(s) \in Nat \ {0} /\ DOMAIN s = 1..Len(s)
  BY EmptySeq
<1> QED BY <1>1

LEMMA TailListed ==
  ASSUME NEW s \in Seq(Items), s # << >>, Listed(s)
  PROVE  Listed(Tail(s))
<1>1. ASSUME NEW i \in DOMAIN Tail(s), NEW j \in DOMAIN Tail(s), i < j
      PROVE  Tail(s)[j].loc = 0 \/ (Tail(s)[i].loc # 0 /\ Tail(s)[i].loc # Tail(s)[j].loc)
  <2>1. /\ i \in Nat /\ i + 1 \in DOMAIN s /\ Tail(s)[i] = s[i + 1]
        /\ j \in Nat /\ j + 1 \in DOMAIN s /\ Tail(s)[j] = s[j + 1]
    BY ItemFacts
  <2>2. i + 1 < j + 1
    BY <1>1, <2>1
  <2> QED BY <2>1, <2>2 DEF Listed
<1> QED BY <1>1 DEF Listed

-----------------------------------------------------------------------------
(* Contexts.                                                                *)
Typed(c) == c \in Contexts /\ ContextOK(c)

LEMMA IdleTyped == Typed(Idle)
<1>1. Idle \in Contexts
  BY DEF Idle, Contexts, PCs
<1> QED BY <1>1 DEF Typed, Idle, ContextOK, Listed, FormPCs, SavePCs, RowPCs, NewPCs, LocPCs, DelPCs

LEMMA BecomeTyped ==
  ASSUME TypeInv, NEW w \in Workers, NEW c, Become(w, c), Typed(c)
  PROVE  proc' \in [Workers -> Contexts] /\ \A v \in Workers : ContextOK(proc'[v])
<1>1. proc' = [proc EXCEPT ![w] = c] \/ proc' = [proc EXCEPT ![w] = Idle]
  BY DEF Become
<1> QED BY <1>1, IdleTyped DEF TypeInv, Typed

(* The next control point fits the context.                                 *)
LEMMA PcTyped ==
  ASSUME NEW c \in Contexts, NEW pc \in PCs
  PROVE  LET d == [c EXCEPT !.pc = pc]
         IN  /\ d \in Contexts /\ d.pc = pc /\ d.user = c.user /\ d.req = c.req /\ d.id = c.id
             /\ d.doomed = c.doomed /\ d.items = c.items /\ d.loc = c.loc /\ d.saved = c.saved
  BY DEF Contexts

LEMMA FormTyped ==
  ASSUME NEW c \in Contexts, Listed(c.items), c.user \in Names, c.req \in Requests,
         c.req.act = "EditChannel", c.id = c.req.id
  PROVE  /\ Typed([c EXCEPT !.pc = AfterCheck(c)])
         /\ Typed([c EXCEPT !.pc = AfterDrops(c)])
         /\ c.req.button # "add" => Typed([c EXCEPT !.pc = Validated(c)])
<1>1. /\ c.req.id \in ChannelIds \cup {0}
      /\ c.req.button \in {"save", "invalid", "add"}
  BY RequestFacts
<1>2. ASSUME NEW pc \in {"idle", "drop", "check2", "check3", "byName"},
             pc = "drop" => c.doomed # << >>, pc = "check2" => c.req.button # "add",
             pc \in {"check3", "byName"} => c.req.button = "save",
             pc = "check3" => c.req.id # 0
      PROVE  Typed([c EXCEPT !.pc = pc])
  <2> DEFINE d == [c EXCEPT !.pc = pc]
  <2>1. pc \in PCs
    BY DEF PCs, FormPCs, SavePCs, NewPCs
  <2>2. /\ d \in Contexts /\ d.pc = pc /\ d.user = c.user /\ d.req = c.req /\ d.id = c.id
        /\ d.doomed = c.doomed /\ d.items = c.items /\ d.loc = c.loc /\ d.saved = c.saved
    BY <2>1, PcTyped
  <2> HIDE DEF d
  <2>3. ContextOK(d)
    BY <1>1, <1>2, <2>2 DEF ContextOK, FormPCs, SavePCs, RowPCs, NewPCs, LocPCs, DelPCs
  <2> QED BY <2>2, <2>3 DEF Typed, d
<1>3. c.req.button # "add" => Typed([c EXCEPT !.pc = Validated(c)])
  BY <1>1, <1>2 DEF Validated
<1>4. Typed([c EXCEPT !.pc = AfterDrops(c)])
  BY <1>1, <1>2, <1>3 DEF AfterDrops
<1>5. Typed([c EXCEPT !.pc = AfterCheck(c)])
  BY <1>2, <1>4 DEF AfterCheck
<1> QED BY <1>3, <1>4, <1>5

LEMMA ItemTyped ==
  ASSUME NEW c \in Contexts, Listed(c.items), c.user \in Names, c.req \in Requests,
         c.req.act = "EditChannel", c.req.button = "save", c.id \in ChannelIds
  PROVE  Typed([c EXCEPT !.pc = NextItem(c.items)])
<1> DEFINE pc == NextItem(c.items)
           d == [c EXCEPT !.pc = pc]
<1>1. c.items \in Seq(Items)
  BY DEF Contexts
<1>2. /\ pc \in {"show", "idle", "locInsert", "locCheck"}
      /\ pc \in {"locInsert", "locCheck"} => c.items # << >> /\ Head(c.items).at \in Places
      /\ pc = "locInsert" => Head(c.items).loc = 0
      /\ pc = "locCheck" => Head(c.items).loc \in LocationIds
  <2>1. c.items # << >> => Head(c.items) \in Items
    BY <1>1, ItemFacts
  <2> QED BY <2>1 DEF NextItem, Items
<1> HIDE DEF pc
<1>3. pc \in PCs
  BY <1>2 DEF PCs, SavePCs, LocPCs
<1>4. /\ d \in Contexts /\ d.pc = pc /\ d.user = c.user /\ d.req = c.req /\ d.id = c.id
      /\ d.doomed = c.doomed /\ d.items = c.items /\ d.loc = c.loc /\ d.saved = c.saved
  BY <1>3, PcTyped
<1> HIDE DEF d
<1>5. ContextOK(d)
  BY <1>2, <1>4 DEF ContextOK, FormPCs, SavePCs, RowPCs, NewPCs, LocPCs, DelPCs
<1> QED BY <1>4, <1>5 DEF Typed, d, pc

-----------------------------------------------------------------------------
(* The statements, by what they do to the context.                          *)

(* A statement that only goes on, to a point that asks nothing new.         *)
LEMMA GotoTyped ==
  ASSUME TypeInv, NEW w \in Workers, NEW pc \in PCs, Goto(w, pc),
         \/ pc = "idle"
         \/ pc \in NewPCs /\ proc[w].pc \in NewPCs
         \/ pc \in RowPCs /\ proc[w].pc \in RowPCs \cup {"check3"}
         \/ pc \in DelPCs /\ proc[w].pc \in DelPCs
         \/ /\ proc[w].pc \in LocPCs /\ pc \in {"locPosition", "locVals"}
            /\ proc[w].loc \in LocationIds
  PROVE  proc' \in [Workers -> Contexts] /\ \A v \in Workers : ContextOK(proc'[v])
<1> DEFINE c == proc[w]
           d == [c EXCEPT !.pc = pc]
<1>1. c \in Contexts /\ ContextOK(c)
  BY DEF TypeInv
<1>2. /\ d \in Contexts /\ d.pc = pc /\ d.user = c.user /\ d.req = c.req /\ d.id = c.id
      /\ d.doomed = c.doomed /\ d.items = c.items /\ d.loc = c.loc /\ d.saved = c.saved
  BY <1>1, PcTyped
<1> HIDE DEF d
<1>3. ContextOK(d)
  BY <1>1, <1>2 DEF ContextOK, FormPCs, SavePCs, RowPCs, NewPCs, LocPCs, DelPCs
<1> QED BY <1>2, <1>3, BecomeTyped DEF Goto, Typed, d

LEMMA CheckTyped ==
  ASSUME TypeInv, NEW w \in Workers,
         CheckChannel(w) \/ CheckDelete(w) \/ DropLocation(w) \/ CheckTitle(w) \/ ShowSaved(w)
  PROVE  proc' \in [Workers -> Contexts] /\ \A v \in Workers : ContextOK(proc'[v])
<1> DEFINE c == proc[w]
<1>1. c \in Contexts /\ ContextOK(c)
  BY DEF TypeInv
<1>2. CASE Goto(w, "idle")
  BY <1>2, GotoTyped DEF PCs
<1>3. CASE At(w, "check1") /\ Goto(w, AfterCheck(c))
  <2>1. Typed([c EXCEPT !.pc = AfterCheck(c)])
    BY <1>1, <1>3, FormTyped DEF ContextOK, At, FormPCs
  <2> QED BY <1>3, <2>1, BecomeTyped DEF Goto
<1>4. CASE At(w, "check2") /\ Goto(w, Validated(c))
  <2>1. Typed([c EXCEPT !.pc = Validated(c)])
    BY <1>1, <1>4, FormTyped DEF ContextOK, At, FormPCs
  <2> QED BY <1>4, <2>1, BecomeTyped DEF Goto
<1>5. CASE At(w, "check3") /\ Goto(w, "updName")
  BY <1>5, GotoTyped DEF At, PCs, SavePCs, RowPCs
<1>6. CASE At(w, "delCheck") /\ Goto(w, "delChannel")
  BY <1>6, GotoTyped DEF At, PCs, DelPCs
<1>7. CASE DropLocation(w)
  <2> DEFINE d == [c EXCEPT !.doomed = Tail(c.doomed)]
  <2>1. At(w, "drop") /\ Become(w, [d EXCEPT !.pc = AfterCheck(d)])
    BY <1>7 DEF DropLocation
  <2>2. Tail(c.doomed) \in Seq(LocationIds)
    BY <1>1, <2>1, ItemFacts DEF ContextOK, At, Contexts
  <2>3. d \in Contexts /\ d.items = c.items /\ d.user = c.user /\ d.req = c.req /\ d.id = c.id
    BY <1>1, <2>2 DEF Contexts
  <2> HIDE DEF d
  <2>4. Typed([d EXCEPT !.pc = AfterCheck(d)])
    BY <1>1, <2>1, <2>3, FormTyped DEF ContextOK, At, FormPCs
  <2> QED BY <2>1, <2>4, BecomeTyped
<1>8. CASE At(w, "byName") /\ Goto(w, "insert")
  BY <1>8, GotoTyped DEF At, PCs, SavePCs, NewPCs
<1> QED
  BY <1>2, <1>3, <1>4, <1>5, <1>6, <1>7, <1>8 DEF CheckChannel, CheckDelete, Check, CheckTitle, ShowSaved

LEMMA SaveTyped ==
  ASSUME TypeInv, NEW w \in Workers,
         UpdateName(w) \/ UpdateTexts(w) \/ InsertChannel(w) \/ GetChannelId(w) \/ UpdateVals(w)
  PROVE  proc' \in [Workers -> Contexts] /\ \A v \in Workers : ContextOK(proc'[v])
<1> DEFINE c == proc[w]
<1>1. c \in Contexts /\ ContextOK(c)
  BY DEF TypeInv
<1>2. CASE Goto(w, "idle")
  BY <1>2, GotoTyped DEF PCs
<1>3. CASE UpdateName(w) \/ UpdateTexts(w)
  <2>1. At(w, "updName") \/ At(w, "updDes") \/ At(w, "updDev")
    BY <1>3 DEF UpdateName, UpdateTexts
  <2>2. Goto(w, "updDes") \/ Goto(w, "updDev") \/ Goto(w, "vals") \/ Goto(w, "idle")
    BY <1>3 DEF UpdateName, UpdateTexts
  <2> QED BY <1>2, <2>1, <2>2, GotoTyped DEF At, PCs, SavePCs, RowPCs
<1>4. CASE InsertChannel(w)
  <2>1. At(w, "insert") /\ (Goto(w, "getId") \/ Goto(w, "idle"))
    BY <1>4 DEF InsertChannel
  <2> QED BY <1>2, <2>1, GotoTyped DEF At, PCs, SavePCs, NewPCs
<1>5. ASSUME NEW i \in ChannelIds, At(w, "getId"), Become(w, [c EXCEPT !.id = i, !.pc = "vals"])
      PROVE  proc' \in [Workers -> Contexts] /\ \A v \in Workers : ContextOK(proc'[v])
  <2> DEFINE d == [c EXCEPT !.id = i, !.pc = "vals"]
  <2>1. "vals" \in PCs
    BY DEF PCs, SavePCs, RowPCs
  <2>2. /\ d \in Contexts /\ d.pc = "vals" /\ d.user = c.user /\ d.req = c.req /\ d.id = i
        /\ d.items = c.items
    BY <1>1, <2>1 DEF Contexts
  <2> HIDE DEF d
  <2>3. ContextOK(d)
    BY <1>1, <1>5, <2>2 DEF ContextOK, At, FormPCs, SavePCs, RowPCs, NewPCs, LocPCs, DelPCs
  <2> QED BY <1>5, <2>2, <2>3, BecomeTyped DEF d, Typed
<1>6. CASE UpdateVals(w)
  <2>1. At(w, "vals") /\ Goto(w, NextItem(c.items))
    BY <1>6 DEF UpdateVals
  <2>2. Typed([c EXCEPT !.pc = NextItem(c.items)])
    BY <1>1, <2>1, ItemTyped DEF ContextOK, At, SavePCs, RowPCs
  <2> QED BY <2>1, <2>2, BecomeTyped DEF Goto
<1> QED
  BY <1>2, <1>3, <1>4, <1>5, <1>6 DEF GetChannelId, ChannelsByName

LEMMA LocationTyped ==
  ASSUME TypeInv, NEW w \in Workers,
         InsertLocation(w) \/ CheckLocation(w) \/ UpdateLocation(w) \/ UpdateLocationVals(w)
  PROVE  proc' \in [Workers -> Contexts] /\ \A v \in Workers : ContextOK(proc'[v])
<1> DEFINE c == proc[w]
<1>1. c \in Contexts /\ ContextOK(c)
  BY DEF TypeInv
<1>2. CASE Goto(w, "idle")
  BY <1>2, GotoTyped DEF PCs
<1>3. ASSUME NEW l \in LocationIds, NEW pc \in {"locVals", "locChannel"}, c.pc \in LocPCs,
             Become(w, [c EXCEPT !.loc = l, !.pc = pc])
      PROVE  proc' \in [Workers -> Contexts] /\ \A v \in Workers : ContextOK(proc'[v])
  <2> DEFINE d == [c EXCEPT !.loc = l, !.pc = pc]
  <2>1. pc \in PCs
    BY DEF PCs, SavePCs, LocPCs
  <2>2. /\ d \in Contexts /\ d.pc = pc /\ d.user = c.user /\ d.req = c.req /\ d.id = c.id
        /\ d.items = c.items /\ d.loc = l
    BY <1>1, <2>1 DEF Contexts
  <2> HIDE DEF d
  <2>3. ContextOK(d)
    BY <1>1, <1>3, <2>2 DEF ContextOK, FormPCs, SavePCs, RowPCs, NewPCs, LocPCs, DelPCs
  <2> QED BY <1>3, <2>2, <2>3, BecomeTyped DEF d, Typed
<1>4. CASE InsertLocation(w)
  BY <1>2, <1>3, <1>4 DEF InsertLocation, At, LocPCs
<1>5. CASE CheckLocation(w)
  <2>1. c.pc = "locCheck" /\ Head(c.items).loc \in LocationIds
    BY <1>1, <1>5 DEF CheckLocation, At, ContextOK
  <2> QED BY <1>2, <1>3, <1>5, <2>1 DEF CheckLocation, LocPCs
<1>6. CASE UpdateLocation(w)
  <2>1. /\ c.pc \in {"locChannel", "locPosition"} /\ c.loc \in LocationIds
        /\ Goto(w, "locPosition") \/ Goto(w, "locVals")
    BY <1>1, <1>6 DEF UpdateLocation, At, ContextOK
  <2> QED BY <2>1, GotoTyped DEF PCs, SavePCs, LocPCs
<1>7. CASE UpdateLocationVals(w)
  <2> DEFINE S == c.saved \cup {<<c.loc, Place(w)>>}
             d == [c EXCEPT !.saved = S, !.items = Tail(c.items), !.loc = 0]
  <2>1. At(w, "locVals") /\ Become(w, [d EXCEPT !.pc = NextItem(d.items)])
    BY <1>7 DEF UpdateLocationVals
  <2>2. c.items \in Seq(Items) /\ c.items # << >> /\ Place(w) \in Places /\ c.loc \in LocationIds
    BY <1>1, <2>1 DEF ContextOK, At, Contexts, LocPCs, Place
  <2>3. Tail(c.items) \in Seq(Items) /\ Listed(Tail(c.items))
    BY <1>1, <2>2, ItemFacts, TailListed DEF ContextOK
  <2>4. S \in SUBSET (LocationIds \X Places)
    BY <1>1, <2>2 DEF Contexts
  <2> HIDE DEF S
  <2>5. /\ d \in Contexts /\ d.user = c.user /\ d.req = c.req /\ d.id = c.id
        /\ d.items = Tail(c.items)
    BY <1>1, <2>3, <2>4 DEF Contexts
  <2> HIDE DEF d
  <2>6. Typed([d EXCEPT !.pc = NextItem(d.items)])
    BY <1>1, <2>1, <2>3, <2>5, ItemTyped DEF ContextOK, At, SavePCs, LocPCs
  <2> QED BY <2>1, <2>6, BecomeTyped
<1> QED BY <1>4, <1>5, <1>6, <1>7

LEMMA StepTyped ==
  ASSUME TypeInv, NEW w \in Workers, Step(w)
  PROVE  proc' \in [Workers -> Contexts] /\ \A v \in Workers : ContextOK(proc'[v])
<1>1. CASE Goto(w, "idle")
  BY <1>1, GotoTyped DEF PCs
<1>2. CASE DeleteChannel(w)
  BY <1>2, GotoTyped DEF DeleteChannel, At, PCs, DelPCs
<1> QED
  BY <1>1, <1>2, CheckTyped, SaveTyped, LocationTyped DEF Step, DeleteLocations, DeleteByAuthor

(* A request begins with a check or with the form, and has saved nothing.   *)
StartPCs == {"idle", "check1", "drop", "check2", "check3", "byName", "delCheck", "delByAuthor"}

LEMMA ArriveContext ==
  ASSUME TypeInv, NEW w \in Workers, Arrive(w)
  PROVE  \E c : Become(w, c) /\ Typed(c) /\ c.saved = {} /\ c.pc \in StartPCs
<1>1. PICK u \in Names, r \in Requests :
        LET c == [Idle EXCEPT !.user = u, !.req = r, !.id = r.id,
                              !.doomed = r.form.drops, !.items = r.form.items]
        IN  Become(w, [c EXCEPT !.pc = Start(c)])
  BY DEF Arrive
<1> DEFINE o == [Idle EXCEPT !.user = u]
           a == [o EXCEPT !.req = r]
           b == [a EXCEPT !.id = r.id]
           d == [b EXCEPT !.doomed = r.form.drops]
           c == [d EXCEPT !.items = r.form.items]
<1>2. Become(w, [c EXCEPT !.pc = Start(c)])
  BY <1>1
<1>3. o \in Contexts /\ o.user = u /\ o.loc = 0 /\ o.saved = {}
  <2>1. Idle \in Contexts /\ Idle.loc = 0 /\ Idle.saved = {}
    BY IdleTyped DEF Typed, Idle
  <2> QED BY <2>1 DEF Contexts
<1> HIDE DEF o
<1>4. a \in Contexts /\ a.user = u /\ a.req = r /\ a.loc = 0 /\ a.saved = {}
  BY <1>3 DEF Contexts
<1> HIDE DEF a
<1>5. /\ c \in Contexts /\ c.user = u /\ c.req = r /\ c.id = r.id /\ c.items = r.form.items
      /\ c.saved = {}
  <2>1. b \in Contexts /\ b.user = u /\ b.req = r /\ b.id = r.id /\ b.saved = {}
    BY <1>4, RequestFacts DEF Contexts
  <2> HIDE DEF b
  <2>2. d \in Contexts /\ d.user = u /\ d.req = r /\ d.id = r.id /\ d.saved = {}
    BY <2>1, RequestFacts DEF Contexts
  <2> HIDE DEF d
  <2> QED BY <2>2, RequestFacts DEF Contexts
<1> HIDE DEF b, d, c
<1>6. ASSUME NEW pc \in {"delCheck", "delByAuthor", "check1"}, pc = "delCheck" => r.id \in ChannelIds,
             pc = "check1" => r.act = "EditChannel", pc = "delByAuthor" => r.aut \in Names
      PROVE  Typed([c EXCEPT !.pc = pc])
  <2> DEFINE e == [c EXCEPT !.pc = pc]
  <2>1. pc \in PCs
    BY DEF PCs, FormPCs, DelPCs
  <2>2. /\ e \in Contexts /\ e.pc = pc /\ e.user = c.user /\ e.req = c.req /\ e.id = c.id
        /\ e.doomed = c.doomed /\ e.items = c.items /\ e.loc = c.loc /\ e.saved = c.saved
    BY <1>5, <2>1, PcTyped
  <2> HIDE DEF e
  <2>3. ContextOK(e)
    BY <1>5, <1>6, <2>2, RequestFacts DEF ContextOK, FormPCs, SavePCs, RowPCs, NewPCs, LocPCs, DelPCs
  <2> QED BY <2>2, <2>3 DEF e, Typed
<1>7. r.act = "EditChannel" => Typed([c EXCEPT !.pc = AfterCheck(c)])
  BY <1>5, FormTyped, RequestFacts
<1>8. Typed([c EXCEPT !.pc = Start(c)])
  <2>1. r.act \in {"EditChannel", "DeleteChannel", "DeleteAuthor"}
        /\ (r.act = "DeleteChannel" => r.id \in ChannelIds) /\ (r.act = "DeleteAuthor" => r.aut \in Names)
    BY RequestFacts
  <2> QED BY <1>5, <1>6, <1>7, <2>1 DEF Start
<1>9. [c EXCEPT !.pc = Start(c)].saved = {} /\ [c EXCEPT !.pc = Start(c)].pc \in StartPCs
  <2>1. Start(c) \in StartPCs
    BY DEF Start, AfterCheck, AfterDrops, Validated, StartPCs
  <2> QED BY <1>5, <2>1 DEF Contexts
<1> QED BY <1>2, <1>8, <1>9

(* The tables.                                                              *)
LEMMA ChannelTyped ==
  ASSUME TypeInv, NEW w \in Workers, Step(w)
  PROVE  channel' \in [ChannelIds -> ChannelRows \cup {None}]
<1> DEFINE c == proc[w]
           rows == ChannelsById(c.id)
<1>0. channel \in [ChannelIds -> ChannelRows \cup {None}] /\ c \in Contexts /\ ContextOK(c)
  BY DEF TypeInv, TypeOK
<1>1. c.pc \in {"updName", "updDes", "updDev", "vals", "insert"} =>
        c.req.title \in Titles /\ c.req.text \in Texts /\ c.user \in Names
  BY <1>0, RequestFacts DEF ContextOK, SavePCs, RowPCs, NewPCs
<1>2. ASSUME NEW x, \/ /\ x \in Titles
                       /\ channel' = [i \in ChannelIds |-> IF i \in rows THEN [channel[i] EXCEPT !.name = x]
                                                                          ELSE channel[i]]
                    \/ /\ x \in Texts
                       /\ \/ channel' = [i \in ChannelIds |-> IF i \in rows THEN [channel[i] EXCEPT !.des = x]
                                                                          ELSE channel[i]]
                          \/ channel' = [i \in ChannelIds |-> IF i \in rows THEN [channel[i] EXCEPT !.dev = x]
                                                                          ELSE channel[i]]
                          \/ channel' = [i \in ChannelIds |-> IF i \in rows THEN [channel[i] EXCEPT !.vals = x]
                                                                          ELSE channel[i]]
      PROVE  channel' \in [ChannelIds -> ChannelRows \cup {None}]
  <2>1. \A i \in rows : channel[i] \in ChannelRows
    BY <1>0 DEF ChannelsById
  <2> HIDE DEF rows
  <2> QED BY <1>0, <1>2, <2>1 DEF ChannelRows
<1>3. CASE UpdateName(w)
  BY <1>0, <1>1, <1>2, <1>3 DEF UpdateName, At, UpdateChannels
<1>4. CASE UpdateTexts(w)
  BY <1>0, <1>1, <1>2, <1>4 DEF UpdateTexts, At, UpdateChannels, SetKey
<1>5. CASE UpdateVals(w)
  BY <1>0, <1>1, <1>2, <1>5 DEF UpdateVals, At, UpdateChannels
<1>6. CASE InsertChannel(w)
  <2>1. At(w, "insert") => NewChannel(c.user, c.req) \in ChannelRows
    BY <1>1 DEF At, NewChannel, ChannelRows
  <2> QED BY <1>0, <1>6, <2>1 DEF InsertChannel
<1>7. CASE DeleteChannel(w) \/ DeleteByAuthor(w)
  BY <1>0, <1>7 DEF DeleteChannel, DeleteByAuthor, UpdateChannels
<1>8. CASE UNCHANGED channel
  BY <1>0, <1>8
<1> QED
  BY <1>3, <1>4, <1>5, <1>6, <1>7, <1>8
     DEF Step, CheckChannel, Check, DropLocation, CheckTitle, GetChannelId, InsertLocation,
         CheckLocation, UpdateLocation, UpdateLocationVals, ShowSaved, CheckDelete, DeleteLocations

LEMMA LocationTableTyped ==
  ASSUME TypeInv, NEW w \in Workers, Step(w)
  PROVE  location' \in [LocationIds -> LocationRows \cup {None}]
<1> DEFINE c == proc[w]
<1>0. location \in [LocationIds -> LocationRows \cup {None}] /\ c \in Contexts /\ ContextOK(c)
  BY DEF TypeInv, TypeOK
<1>1. c.pc \in LocPCs => c.id \in ChannelIds /\ Place(w) \in Places
  BY <1>0 DEF ContextOK, Place
<1>2. ASSUME NEW x, NEW rows, \A l \in rows : l \in LocationIds /\ location[l] # None,
             \/ /\ x \in ChannelIds
                /\ location' = [l \in LocationIds |-> IF l \in rows THEN [location[l] EXCEPT !.chn = x]
                                                                    ELSE location[l]]
             \/ /\ x \in Places
                /\ \/ location' = [l \in LocationIds |-> IF l \in rows THEN [location[l] EXCEPT !.pos = x]
                                                                       ELSE location[l]]
                   \/ location' = [l \in LocationIds |-> IF l \in rows THEN [location[l] EXCEPT !.vals = x]
                                                                       ELSE location[l]]
      PROVE  location' \in [LocationIds -> LocationRows \cup {None}]
  <2>1. \A l \in rows : location[l] \in LocationRows
    BY <1>0, <1>2
  <2> QED BY <1>0, <1>2, <2>1 DEF LocationRows
<1>3. CASE InsertLocation(w)
  <2>1. At(w, "locInsert") => [chn |-> c.id, pos |-> Place(w), vals |-> None] \in LocationRows
    BY <1>1 DEF At, LocPCs, LocationRows
  <2> QED BY <1>0, <1>3, <2>1 DEF InsertLocation
<1>4. CASE UpdateLocation(w) \/ UpdateLocationVals(w)
  <2> DEFINE rows == LocationsById(c.loc)
  <2>1. c.id \in ChannelIds /\ Place(w) \in Places /\ \A l \in rows : l \in LocationIds /\ location[l] # None
    BY <1>1, <1>4 DEF UpdateLocation, UpdateLocationVals, At, LocPCs, LocationsById
  <2>2. \/ location' = [l \in LocationIds |-> IF l \in rows THEN [location[l] EXCEPT !.chn = c.id]
                                                            ELSE location[l]]
        \/ location' = [l \in LocationIds |-> IF l \in rows THEN [location[l] EXCEPT !.pos = Place(w)]
                                                            ELSE location[l]]
        \/ location' = [l \in LocationIds |-> IF l \in rows THEN [location[l] EXCEPT !.vals = Place(w)]
                                                            ELSE location[l]]
    BY <1>4 DEF UpdateLocation, UpdateLocationVals, UpdateLocations, Moved
  <2> HIDE DEF rows
  <2> QED BY <1>2, <2>1, <2>2
<1>5. CASE DropLocation(w)
  BY <1>0, <1>5 DEF DropLocation
<1>6. CASE DeleteLocations(w)
  BY <1>0, <1>6 DEF DeleteLocations, UpdateLocations
<1>7. CASE UNCHANGED location
  BY <1>0, <1>7
<1> QED
  BY <1>3, <1>4, <1>5, <1>6, <1>7
     DEF Step, CheckChannel, Check, UpdateName, UpdateTexts, CheckTitle, InsertChannel, GetChannelId,
         UpdateVals, CheckLocation, ShowSaved, CheckDelete, DeleteChannel, DeleteByAuthor

LEMMA InitType == Init => TypeInv
BY IdleTyped DEF Init, TypeInv, TypeOK, Typed

LEMMA NextType == TypeInv /\ [Next]_vars => TypeInv'
<1> SUFFICES ASSUME TypeInv, [Next]_vars PROVE TypeInv'
  OBVIOUS
<1>1. ASSUME NEW w \in Workers, Step(w) PROVE TypeInv'
  BY <1>1, StepTyped, ChannelTyped, LocationTableTyped DEF TypeInv, TypeOK
<1>2. ASSUME NEW w \in Workers, Arrive(w) PROVE TypeInv'
  <2>1. PICK c : Become(w, c) /\ Typed(c)
    BY <1>2, ArriveContext
  <2> QED BY <1>2, <2>1, BecomeTyped DEF Arrive, TypeInv, TypeOK
<1>3. ASSUME NEW w \in Workers, Fail(w) PROVE TypeInv'
  <2>1. proc' \in [Workers -> Contexts] /\ \A v \in Workers : ContextOK(proc'[v])
    BY <1>3, GotoTyped DEF Fail, PCs
  <2> QED BY <1>3, <2>1 DEF Fail, TypeInv, TypeOK
<1>4. CASE UNCHANGED vars
  BY <1>4 DEF vars, TypeInv, TypeOK
<1> QED BY <1>1, <1>2, <1>3, <1>4 DEF Next

(* Whatever processes do to each other's rows, no row gets a column that is *)
(* not of a valid form, and no location is written without a channel id: an *)
(* id is found before it is used, and bad values end the request first.     *)
THEOREM TypesHold == Spec => []TypeOK
<1>1. TypeInv => TypeOK
  BY DEF TypeInv
<1> QED BY <1>1, InitType, NextType, PTL DEF Spec

-----------------------------------------------------------------------------
(* The registry of titles and authors, for every number of processes.       *)

Entry(i) == IF channel[i] = None THEN None ELSE [title |-> channel[i].name, author |-> channel[i].aut]

LEMMA EntryIs ==
  ASSUME TypeOK, NEW i \in ChannelIds
  PROVE  /\ Registered(channel)[i] = Entry(i)
         /\ channel[i] = None <=> Entry(i) = None
         /\ channel[i] # None => /\ channel[i].name \in Titles /\ channel[i].aut \in Names
                                 /\ Entry(i).title = channel[i].name /\ Entry(i).author = channel[i].aut
<1>1. Registered(channel)[i] = Entry(i)
  BY DEF Registered, Entry
<1>2. channel[i] # None => channel[i].name \in Titles /\ channel[i].aut \in Names
  BY DEF TypeOK, ChannelRows
<1>3. channel[i] # None => Entry(i) = [title |-> channel[i].name, author |-> channel[i].aut]
  BY DEF Entry
<1>4. channel[i] # None => Entry(i) # None
  BY <1>2, <1>3, ChannelRowNone DEF ChannelRecords
<1> QED BY <1>1, <1>2, <1>3, <1>4 DEF Entry

(* A step that changes one entry, and one that changes none.                 *)
LEMMA EntriesChange ==
  ASSUME NEW i \in ChannelIds, NEW e, Entry(i)' = e,
         \A j \in ChannelIds : j # i => Entry(j)' = Entry(j)
  PROVE  Registered(channel') = [Registered(channel) EXCEPT ![i] = e]
BY DEF Registered, Entry

LEMMA EntriesStay ==
  ASSUME \A j \in ChannelIds : Entry(j)' = Entry(j)
  PROVE  Registered(channel') = Registered(channel)
BY DEF Registered, Entry

LEMMA TitleIsFreeThere ==
  ASSUME TypeOK, NEW n, NEW i, TitleIsFree(n, i)
  PROVE  Registry!Free(n, i)
<1> SUFFICES ASSUME NEW j \in ChannelIds, Registered(channel)[j] # None, Registered(channel)[j].title = n
             PROVE  j = i
  BY DEF Registry!Free
<1>1. channel[j] # None /\ channel[j].name = n
  BY EntryIs
<1> QED BY <1>1 DEF TitleIsFree, ChannelsByName

(* What a statement does to the registry.                                   *)
Registers(w) ==
  \/ Registered(channel') = Registered(channel)
  \/ \E i \in ChannelIds, t \in Titles : Registry!Create(i, proc[w].user, t)
  \/ \E i \in ChannelIds, t \in Titles : Registry!Rename(i, t)
  \/ \E i \in ChannelIds : Registry!Delete(i)
  \/ \E a \in Names : Registry!Withdraw(a)

LEMMA ValuesStutter ==
  ASSUME TypeInv, NEW w \in Workers, UpdateTexts(w) \/ UpdateVals(w)
  PROVE  Registers(w)
<1> DEFINE rows == ChannelsById(proc[w].id)
           t == proc[w].req.text
<1>1. \/ channel' = [c \in ChannelIds |-> IF c \in rows THEN [channel[c] EXCEPT !.des = t] ELSE channel[c]]
      \/ channel' = [c \in ChannelIds |-> IF c \in rows THEN [channel[c] EXCEPT !.dev = t] ELSE channel[c]]
      \/ channel' = [c \in ChannelIds |-> IF c \in rows THEN [channel[c] EXCEPT !.vals = t] ELSE channel[c]]
  BY DEF UpdateTexts, UpdateVals, UpdateChannels, SetKey
<1>2. TypeOK' /\ TypeOK
  BY StepTyped, ChannelTyped, LocationTableTyped DEF TypeInv, TypeOK, Step
<1>3. ASSUME NEW c \in ChannelIds PROVE Entry(c)' = Entry(c)
  <2>1. CASE c \in rows
    <3>1. channel[c] # None /\ channel[c] \in ChannelRows
      BY <1>2, <2>1 DEF ChannelsById, TypeOK
    <3>2. \/ channel'[c] = [channel[c] EXCEPT !.des = t]
          \/ channel'[c] = [channel[c] EXCEPT !.dev = t]
          \/ channel'[c] = [channel[c] EXCEPT !.vals = t]
      BY <1>1, <2>1
    <3>3. channel'[c].name = channel[c].name /\ channel'[c].aut = channel[c].aut
      BY <3>1, <3>2 DEF ChannelRows
    <3>4. proc[w].pc \in {"updDes", "updDev", "vals"}
      BY DEF UpdateTexts, UpdateVals, At
    <3>5. t \in Texts
      BY <3>4, RequestFacts DEF TypeInv, ContextOK, SavePCs, RowPCs
    <3>6. channel'[c] # None
      BY <3>1, <3>2, <3>5, ChannelRowNone DEF ChannelRows
    <3> QED BY <3>1, <3>3, <3>6 DEF Entry
  <2>2. CASE c \notin rows
    BY <1>1, <2>2 DEF Entry
  <2> QED BY <2>1, <2>2
<1> QED BY <1>3, EntriesStay DEF Registers

LEMMA RenameRegisters ==
  ASSUME TypeInv, NEW w \in Workers, UpdateName(w)
  PROVE  Registers(w)
<1> DEFINE t == proc[w].req.title
<1>1. CASE UNCHANGED channel
  BY <1>1 DEF Registers
<1>2. CASE ChannelsById(proc[w].id) = {} /\ ~UNCHANGED channel
  <2>1. channel' = [c \in ChannelIds |-> channel[c]]
    BY <1>2 DEF UpdateName, UpdateChannels
  <2> QED BY <1>2, <2>1 DEF TypeInv, TypeOK
<1>3. CASE ChannelsById(proc[w].id) # {} /\ ~UNCHANGED channel
  <2>0. PICK i \in ChannelIds : i = proc[w].id
    BY <1>3 DEF ChannelsById
  <2>1. /\ TitleIsFree(t, i)
        /\ channel' = [c \in ChannelIds |-> IF c \in ChannelsById(i) THEN [channel[c] EXCEPT !.name = t]
                                                                       ELSE channel[c]]
    BY <1>3, <2>0 DEF UpdateName, UpdateChannels
  <2>2. i \in ChannelIds /\ channel[i] # None /\ ChannelsById(i) = {i}
    BY <1>3, <2>0 DEF ChannelsById
  <2>3. TypeOK /\ channel[i] \in ChannelRows /\ t \in Titles
    BY <2>0, <2>2, RequestFacts DEF TypeInv, TypeOK, UpdateName, At, ContextOK, SavePCs, RowPCs
  <2>4. /\ channel'[i] = [channel[i] EXCEPT !.name = t]
        /\ \A j \in ChannelIds : j # i => channel'[j] = channel[j]
    BY <2>1, <2>2
  <2> HIDE DEF t
  <2>5. channel'[i] \in ChannelRows /\ channel'[i].name = t /\ channel'[i].aut = channel[i].aut
    BY <2>3, <2>4 DEF ChannelRows
  <2>6. channel'[i] # None
    BY <2>5, ChannelRowNone
  <2>7. Entry(i)' = [title |-> t, author |-> channel[i].aut]
    BY <2>2, <2>5, <2>6 DEF Entry
  <2>8. \A j \in ChannelIds : j # i => Entry(j)' = Entry(j)
    BY <2>2, <2>4 DEF Entry
  <2>9. Registered(channel') =
          [Registered(channel) EXCEPT ![i] = [title |-> t, author |-> channel[i].aut]]
    BY <2>2, <2>7, <2>8, EntriesChange
  <2>10. Registered(channel)[i] # None /\ Registered(channel)[i].author = channel[i].aut
    BY <2>2, <2>3, EntryIs
  <2>11. Registry!Free(t, i)
    BY <2>1, <2>3, TitleIsFreeThere DEF t
  <2>12. Registry!Rename(i, t)
    BY <2>9, <2>10, <2>11 DEF Registry!Rename
  <2> QED BY <2>2, <2>3, <2>12 DEF Registers
<1> QED BY <1>1, <1>2, <1>3

LEMMA InsertRegisters ==
  ASSUME TypeInv, NEW w \in Workers, InsertChannel(w)
  PROVE  Registers(w)
<1> DEFINE t == proc[w].req.title
           u == proc[w].user
<1>1. CASE UNCHANGED channel
  BY <1>1 DEF Registers
<1>2. ASSUME NEW i \in ChannelIds, TitleIsFree(t, 0), IsNextRowid(i, channel),
             channel' = [channel EXCEPT ![i] = NewChannel(u, proc[w].req)]
      PROVE  Registers(w)
  <2>1. TypeOK /\ t \in Titles /\ u \in Names /\ proc[w].req.text \in Texts
    BY RequestFacts DEF TypeInv, InsertChannel, At, ContextOK, SavePCs, NewPCs
  <2>2. NewChannel(u, proc[w].req) \in ChannelRows
    BY <2>1 DEF NewChannel, ChannelRows
  <2>3. channel[i] = None
    <3>1. i \in DOMAIN channel /\ i >= i
      BY <2>1 DEF TypeOK, ChannelIds
    <3> QED BY <1>2, <3>1 DEF IsNextRowid
  <2>4. /\ channel'[i] = NewChannel(u, proc[w].req)
        /\ \A j \in ChannelIds : j # i => channel'[j] = channel[j]
    BY <1>2, <2>1 DEF TypeOK
  <2>5. channel'[i] # None /\ channel'[i].name = t /\ channel'[i].aut = u
    BY <2>2, <2>4, ChannelRowNone DEF NewChannel
  <2> HIDE DEF t, u
  <2>6. Entry(i)' = [title |-> t, author |-> u]
    BY <2>5 DEF Entry
  <2>7. \A j \in ChannelIds : j # i => Entry(j)' = Entry(j)
    BY <2>4 DEF Entry
  <2>8. Registered(channel') = [Registered(channel) EXCEPT ![i] = [title |-> t, author |-> u]]
    BY <2>6, <2>7, EntriesChange
  <2>9. Registered(channel)[i] = None
    BY <2>1, <2>3, EntryIs
  <2>10. TitleIsFree(t, i)
    BY <1>2 DEF t, TitleIsFree, ChannelsByName, ChannelIds
  <2>11. Registry!Free(t, i)
    BY <2>1, <2>10, TitleIsFreeThere
  <2>12. Registry!Create(i, u, t)
    BY <2>1, <2>8, <2>9, <2>11 DEF Registry!Create
  <2> QED BY <2>1, <2>12 DEF u, Registers
<1> QED BY <1>1, <1>2 DEF InsertChannel

LEMMA DeleteRegisters ==
  ASSUME TypeInv, NEW w \in Workers, DeleteChannel(w)
  PROVE  Registers(w)
<1>1. channel' = [c \in ChannelIds |-> IF c \in ChannelsById(proc[w].id) THEN None ELSE channel[c]]
  BY DEF DeleteChannel, UpdateChannels
<1>2. CASE ChannelsById(proc[w].id) = {}
  <2>1. channel' = channel
    BY <1>1, <1>2 DEF TypeInv, TypeOK
  <2> QED BY <2>1 DEF Registers
<1>3. CASE ChannelsById(proc[w].id) # {}
  <2>1. PICK i \in ChannelIds : channel[i] # None /\ ChannelsById(proc[w].id) = {i}
    BY <1>3 DEF ChannelsById
  <2>2. channel'[i] = None /\ \A j \in ChannelIds : j # i => channel'[j] = channel[j]
    BY <1>1, <2>1
  <2>3. TypeOK
    BY DEF TypeInv
  <2>4. Entry(i)' = None /\ \A j \in ChannelIds : j # i => Entry(j)' = Entry(j)
    BY <2>1, <2>2 DEF Entry
  <2>5. Registered(channel') = [Registered(channel) EXCEPT ![i] = None]
    BY <2>1, <2>4, EntriesChange
  <2>6. Registered(channel)[i] # None
    BY <2>1, <2>3, EntryIs
  <2>7. Registry!Delete(i)
    BY <2>5, <2>6 DEF Registry!Delete
  <2> QED BY <2>1, <2>7 DEF Registers
<1> QED BY <1>2, <1>3

(* A DELETE by author takes all of the author's channels, or none when the   *)
(* value it compares is nobody's name.                                      *)
LEMMA WithdrawRegisters ==
  ASSUME TypeOK, NEW a,
         channel' = [c \in ChannelIds |-> IF channel[c] # None /\ channel[c].aut = a THEN None ELSE channel[c]]
  PROVE  Registered(channel') = Registered(channel) \/ (a \in Names /\ Registry!Withdraw(a))
<1>1. CASE \A c \in ChannelIds : ~(channel[c] # None /\ channel[c].aut = a)
  <2>1. channel' = channel
    BY <1>1 DEF TypeOK
  <2> QED BY <2>1
<1>2. CASE \E c \in ChannelIds : channel[c] # None /\ channel[c].aut = a
  <2>1. a \in Names
    BY <1>2, EntryIs
  <2> DEFINE gone(i) == Registered(channel)[i] # None /\ Registered(channel)[i].author = a
  <2>2. ASSUME NEW i \in ChannelIds
        PROVE  Registered(channel')[i] = IF gone(i) THEN None ELSE Registered(channel)[i]
    <3>1. gone(i) <=> channel[i] # None /\ channel[i].aut = a
      BY EntryIs
    <3>2. Registered(channel')[i] = Entry(i)' /\ Registered(channel)[i] = Entry(i)
      BY DEF Registered, Entry
    <3>3. channel'[i] = IF channel[i] # None /\ channel[i].aut = a THEN None ELSE channel[i]
      OBVIOUS
    <3>4. Entry(i)' = IF channel[i] # None /\ channel[i].aut = a THEN None ELSE Entry(i)
      BY <3>3 DEF Entry
    <3> HIDE DEF gone
    <3> QED BY <3>1, <3>2, <3>4
  <2>3. Registered(channel') = [i \in ChannelIds |-> Registered(channel')[i]]
    BY DEF Registered
  <2>4. Registered(channel') = [i \in ChannelIds |-> IF gone(i) THEN None ELSE Registered(channel)[i]]
    <3> HIDE DEF gone
    <3> QED BY <2>2, <2>3
  <2>5. Registry!Withdraw(a)
    BY <2>4 DEF Registry!Withdraw
  <2> QED BY <2>1, <2>5
<1> QED BY <1>1, <1>2

LEMMA StepRegisters ==
  ASSUME TypeInv, NEW w \in Workers, Step(w)
  PROVE  Registers(w)
<1>1. CASE UNCHANGED channel
  BY <1>1 DEF Registers
<1>2. CASE DeleteByAuthor(w)
  <2> DEFINE a == AuthorKey(proc[w].req.aut)
  <2>1. channel' = [c \in ChannelIds |-> IF channel[c] # None /\ channel[c].aut = a THEN None ELSE channel[c]]
    BY <1>2 DEF DeleteByAuthor, UpdateChannels
  <2>2. TypeOK
    BY DEF TypeInv
  <2> HIDE DEF a
  <2>3. Registered(channel') = Registered(channel) \/ (a \in Names /\ Registry!Withdraw(a))
    BY <2>1, <2>2, WithdrawRegisters
  <2> QED BY <2>3 DEF Registers
<1> QED
  BY <1>1, <1>2, ValuesStutter, RenameRegisters, InsertRegisters, DeleteRegisters
     DEF Step, CheckChannel, Check, DropLocation, CheckTitle, GetChannelId, InsertLocation,
         CheckLocation, UpdateLocation, UpdateLocationVals, ShowSaved, CheckDelete, DeleteLocations

(* However many processes write the columns of channels at once, and        *)
(* wherever they stop, what one sees of titles and authors is a registry:   *)
(* every statement of EditChannel, DeleteChannel and the deletion by author *)
(* is one step of ChannelRegistry or none.                                  *)
THEOREM ChannelsImplement == Spec => ImplementsRegistry
<1>1. Init => Registry!Init
  BY DEF Init, Registry!Init, Registered
<1>2. TypeInv /\ [Next]_vars => [Registry!Next]_Registry!vars
  <2> SUFFICES ASSUME TypeInv, [Next]_vars PROVE [Registry!Next]_Registry!vars
    OBVIOUS
  <2>1. CASE UNCHANGED channel
    BY <2>1 DEF Registry!vars
  <2>2. ASSUME NEW w \in Workers, Step(w) PROVE [Registry!Next]_Registry!vars
    <3>1. Registers(w)
      BY <2>2, StepRegisters
    <3>2. ASSUME NEW i \in ChannelIds, NEW t \in Titles, Registry!Create(i, proc[w].user, t)
          PROVE  proc[w].user \in Names
      BY <3>2 DEF Registry!Create
    <3> QED BY <3>1, <3>2 DEF Registers, Registry!Next, Registry!vars
  <2> QED BY <2>1, <2>2 DEF Next, Arrive, Fail, vars
<1> QED BY <1>1, <1>2, InitType, NextType, PTL DEF Spec, ImplementsRegistry, Registry!Spec

-----------------------------------------------------------------------------
(* Requests answered one at a time.                                         *)

OneProcess == \A v, w \in Workers : v = w

(* What was found or written for a request is still there: the channel row  *)
(* at work exists, its user may edit it, and column by column it gets the   *)
(* values of the form.                                                      *)
ChannelAt(c, A) ==
  LET row == A[c.id]
  IN  /\ c.pc \in {"delChannel", "show"} \cup RowPCs \cup LocPCs => row # None /\ MayEdit(c.user, row)
      /\ c.pc \in {"updDes", "updDev", "vals", "show"} \cup LocPCs => row.name = c.req.title
      /\ c.pc \in {"updDev", "vals", "show"} \cup LocPCs => row.des = c.req.text
      /\ c.pc \in {"vals", "show"} \cup LocPCs => row.dev = c.req.text
      /\ c.pc \in {"show"} \cup LocPCs => row.vals = c.req.text
      /\ c.pc = "getId" => \E i \in ChannelIds : A[i] = NewChannel(c.user, c.req)

(* So does the location at work, and what has been saved stays: no later    *)
(* location of the form is one of those rows.                               *)
LocationAt(c, L) ==
  /\ c.pc \in {"locChannel", "locPosition", "locVals"} =>
       /\ L[c.loc] # None
       /\ \A s \in c.saved : s[1] # c.loc
       /\ \A i \in DOMAIN c.items : i > 1 => c.items[i].loc # c.loc
  /\ c.pc \in {"locPosition", "locVals"} => L[c.loc].chn = c.id
  /\ c.pc = "locVals" => L[c.loc].pos = Head(c.items).at
  /\ c.pc \notin {"show"} \cup LocPCs => c.saved = {}
  /\ \A s \in c.saved : L[s[1]] = [chn |-> c.id, pos |-> s[2], vals |-> s[2]]
  /\ \A s \in c.saved : \A i \in DOMAIN c.items : c.items[i].loc # s[1]

SeqInv ==
  /\ TypeInv
  /\ NamesInv
  /\ \A w \in Workers : ChannelAt(proc[w], channel) /\ LocationAt(proc[w], location)

(* The rows that are not whole are those between two of their UPDATEs.      *)
TornAt(c, i, row) == \/ c.pc \in {"updDev", "vals"} /\ c.id = i
                     \/ c.pc = "getId" /\ row.name = c.req.title
ChannelsWhole ==
  \A i \in ChannelIds : channel[i] # None =>
    \/ channel[i].des = channel[i].dev /\ channel[i].dev = channel[i].vals
    \/ \E w \in Workers : TornAt(proc[w], i, channel[i])
LocationsWhole ==
  \A l \in LocationIds : location[l] # None =>
    \/ location[l].pos = location[l].vals
    \/ \E w \in Workers : At(w, "locVals") /\ proc[w].loc = l

(* Where a statement leaves its process, with the tables it leaves.         *)
Leaves(w, c) == Become(w, c) /\ ChannelAt(c, channel') /\ LocationAt(c, location')

LEMMA LeavesAll ==
  ASSUME TypeInv, OneProcess, NEW w \in Workers, NEW c, Leaves(w, c)
  PROVE  \A v \in Workers : ChannelAt(proc'[v], channel') /\ LocationAt(proc'[v], location')
<1>1. \A v \in Workers : proc'[v] \in {c, Idle}
  BY DEF Leaves, Become, TypeInv, OneProcess
<1>2. ChannelAt(Idle, channel') /\ LocationAt(Idle, location')
  BY DEF ChannelAt, LocationAt, Idle, RowPCs, LocPCs
<1> QED BY <1>1, <1>2 DEF Leaves

(* Points that hold nothing of either table.                                *)
PlainPCs == StartPCs \cup {"insert", "delLocations"}

LEMMA PlainLeaves ==
  ASSUME NEW w \in Workers, NEW c, Become(w, c), c.pc \in PlainPCs, c.pc # "idle" => c.saved = {}
  PROVE  \E d : Leaves(w, d)
<1>1. CASE c.pc = "idle"
  <2>1. Become(w, Idle)
    BY <1>1 DEF Become, Idle
  <2>2. ChannelAt(Idle, channel') /\ LocationAt(Idle, location')
    BY DEF ChannelAt, LocationAt, Idle, RowPCs, LocPCs
  <2> QED BY <2>1, <2>2 DEF Leaves
<1>2. CASE c.pc # "idle"
  <2>1. ChannelAt(c, channel') /\ LocationAt(c, location')
    BY <1>2 DEF ChannelAt, LocationAt, PlainPCs, StartPCs, RowPCs, LocPCs
  <2> QED BY <2>1 DEF Leaves
<1> QED BY <1>1, <1>2

LEMMA PlainGoto ==
  ASSUME TypeInv, NEW w \in Workers, NEW pc \in PCs, Goto(w, pc), pc \in PlainPCs,
         pc # "idle" => proc[w].saved = {}
  PROVE  \E d : Leaves(w, d)
<1> DEFINE c == [proc[w] EXCEPT !.pc = pc]
<1>1. c.pc = pc /\ c.saved = proc[w].saved
  BY PcTyped DEF TypeInv
<1> QED BY <1>1, PlainLeaves DEF Goto

(* What an UPDATE of one column does to the row with an id.                 *)
LEMMA ColumnWritten ==
  ASSUME TypeInv, NEW i \in ChannelIds, channel[i] # None, NEW x
  PROVE  LET row == channel[i]
         IN  /\ row \in ChannelRows /\ i \in ChannelsById(i)
             /\ x \in Titles => [row EXCEPT !.name = x] # None
             /\ x \in Texts => /\ [row EXCEPT !.des = x] # None /\ [row EXCEPT !.dev = x] # None
                               /\ [row EXCEPT !.vals = x] # None
             /\ LET q == [row EXCEPT !.name = x]
                IN  q.name = x /\ q.aut = row.aut /\ q.des = row.des /\ q.dev = row.dev /\ q.vals = row.vals
             /\ LET q == [row EXCEPT !.des = x]
                IN  q.name = row.name /\ q.aut = row.aut /\ q.des = x /\ q.dev = row.dev /\ q.vals = row.vals
             /\ LET q == [row EXCEPT !.dev = x]
                IN  q.name = row.name /\ q.aut = row.aut /\ q.des = row.des /\ q.dev = x /\ q.vals = row.vals
             /\ LET q == [row EXCEPT !.vals = x]
                IN  q.name = row.name /\ q.aut = row.aut /\ q.des = row.des /\ q.dev = row.dev /\ q.vals = x
<1>1. channel[i] \in ChannelRows /\ i \in ChannelsById(i)
  BY DEF TypeInv, TypeOK, ChannelsById
<1>2. /\ x \in Titles => [channel[i] EXCEPT !.name = x] \in ChannelRows
      /\ x \in Texts => /\ [channel[i] EXCEPT !.des = x] \in ChannelRows
                        /\ [channel[i] EXCEPT !.dev = x] \in ChannelRows
                        /\ [channel[i] EXCEPT !.vals = x] \in ChannelRows
  BY <1>1 DEF ChannelRows
<1>3. None \notin ChannelRows
  BY ChannelRowNone
<1>4. /\ x \in Titles => [channel[i] EXCEPT !.name = x] # None
      /\ x \in Texts => /\ [channel[i] EXCEPT !.des = x] # None
                        /\ [channel[i] EXCEPT !.dev = x] # None
                        /\ [channel[i] EXCEPT !.vals = x] # None
  BY <1>2, <1>3
<1> QED BY <1>1, <1>4 DEF ChannelRows

(* The context of a statement that goes on for the same form.               *)
LEMMA NextContext ==
  ASSUME TypeInv, NEW w \in Workers, NEW pc \in PCs
  PROVE  LET c == proc[w]
             d == [c EXCEPT !.pc = pc]
         IN  /\ c \in Contexts /\ ContextOK(c)
             /\ d.pc = pc /\ d.user = c.user /\ d.req = c.req /\ d.id = c.id
             /\ d.items = c.items /\ d.loc = c.loc /\ d.saved = c.saved
BY PcTyped DEF TypeInv

LEMMA CheckLeaves ==
  ASSUME SeqInv, NEW w \in Workers,
         CheckChannel(w) \/ CheckDelete(w) \/ DropLocation(w) \/ CheckTitle(w) \/ ShowSaved(w)
  PROVE  \E d : Leaves(w, d)
<1> DEFINE c == proc[w]
<1>1. TypeInv /\ c \in Contexts /\ ContextOK(c) /\ LocationAt(c, location)
  BY DEF SeqInv, TypeInv
<1>2. CASE Goto(w, "idle")
  BY <1>1, <1>2, PlainGoto DEF PCs, PlainPCs, StartPCs
<1>3. c.pc \notin {"show"} \cup LocPCs => c.saved = {}
  BY <1>1 DEF LocationAt
<1>4. CASE CheckChannel(w) /\ (Goto(w, AfterCheck(c)) \/ Goto(w, Validated(c)))
  <2>1. c.saved = {}
    BY <1>3, <1>4 DEF CheckChannel, At, LocPCs
  <2>2. /\ AfterCheck(c) \in PCs /\ AfterCheck(c) \in PlainPCs
        /\ Validated(c) \in PCs /\ Validated(c) \in PlainPCs
    BY DEF AfterCheck, AfterDrops, Validated, PCs, FormPCs, SavePCs, NewPCs, PlainPCs, StartPCs
  <2> QED BY <1>1, <1>4, <2>1, <2>2, PlainGoto
<1>5. ASSUME NEW pc \in {"updName", "delChannel"}, Check(w, pc), Goto(w, pc),
             At(w, "check3") \/ At(w, "delCheck"), \E i \in ChannelsById(c.id) : MayEdit(c.user, channel[i])
      PROVE  \E d : Leaves(w, d)
  <2> DEFINE d == [c EXCEPT !.pc = pc]
  <2>1. pc \in PCs
    BY DEF PCs, SavePCs, RowPCs, DelPCs
  <2>2. d.pc = pc /\ d.user = c.user /\ d.id = c.id /\ d.saved = c.saved
    BY <1>1, <2>1, NextContext
  <2>3. c.saved = {} /\ UNCHANGED channel /\ Become(w, d)
    BY <1>3, <1>5 DEF At, LocPCs, Check, Goto
  <2> HIDE DEF d
  <2>4. ChannelAt(d, channel')
    BY <1>5, <2>2, <2>3 DEF ChannelAt, ChannelsById, RowPCs, LocPCs
  <2>5. LocationAt(d, location')
    BY <2>2, <2>3 DEF LocationAt, LocPCs
  <2> QED BY <2>3, <2>4, <2>5 DEF Leaves
<1>6. CASE DropLocation(w)
  <2> DEFINE d == [c EXCEPT !.doomed = Tail(c.doomed)]
             e == [d EXCEPT !.pc = AfterCheck(d)]
  <2>1. At(w, "drop") /\ Become(w, e)
    BY <1>6 DEF DropLocation
  <2>2. c.saved = {}
    BY <1>3, <2>1 DEF At, LocPCs
  <2>3. Tail(c.doomed) \in Seq(LocationIds)
    BY <1>1, <2>1, ItemFacts DEF ContextOK, At, Contexts
  <2>4. d \in Contexts /\ d.saved = {}
    BY <1>1, <2>2, <2>3 DEF Contexts
  <2> HIDE DEF d
  <2>5. AfterCheck(d) \in PCs /\ AfterCheck(d) \in PlainPCs
    BY DEF AfterCheck, AfterDrops, Validated, PCs, FormPCs, SavePCs, NewPCs, PlainPCs, StartPCs
  <2>6. e.saved = {} /\ e.pc \in PlainPCs
    BY <2>4, <2>5, PcTyped
  <2> HIDE DEF e
  <2> QED BY <2>1, <2>6, PlainLeaves
<1>7. CASE At(w, "byName") /\ Goto(w, "insert")
  BY <1>1, <1>3, <1>7, PlainGoto DEF At, LocPCs, PCs, SavePCs, NewPCs, PlainPCs
<1>8. CASE CheckChannel(w)
  <2>1. \/ Goto(w, "idle") \/ Goto(w, AfterCheck(c)) \/ Goto(w, Validated(c))
        \/ /\ At(w, "check3") /\ Check(w, "updName") /\ Goto(w, "updName")
           /\ \E i \in ChannelsById(c.id) : MayEdit(c.user, channel[i])
    BY <1>8 DEF CheckChannel, Check
  <2> QED BY <1>2, <1>4, <1>5, <1>8, <2>1
<1>9. CASE CheckDelete(w)
  BY <1>2, <1>5, <1>9 DEF CheckDelete, Check
<1> QED BY <1>2, <1>6, <1>7, <1>8, <1>9 DEF CheckTitle, ShowSaved

(* EditChannel's UPDATEs of the row with id c.id, at one point after the    *)
(* other.                                                                   *)
LEMMA RowLeaves ==
  ASSUME SeqInv, NEW w \in Workers, UpdateName(w) \/ UpdateTexts(w)
  PROVE  \E d : Leaves(w, d)
<1> DEFINE c == proc[w]
           i == c.id
           t == c.req.text
           n == c.req.title
<1>1. /\ TypeInv /\ c \in Contexts /\ ContextOK(c)
      /\ ChannelAt(c, channel) /\ LocationAt(c, location)
  BY DEF SeqInv, TypeInv
<1>2. CASE Goto(w, "idle")
  BY <1>1, <1>2, PlainGoto DEF PCs, PlainPCs, StartPCs
<1>3. c.pc \in RowPCs => i \in ChannelIds /\ channel[i] # None /\ c.saved = {}
  BY <1>1 DEF ContextOK, ChannelAt, LocationAt, RowPCs, LocPCs
<1>4. ASSUME NEW pc \in {"updDes", "updDev", "vals"}, Goto(w, pc), c.pc \in RowPCs,
             channel'[i] # None, MayEdit(c.user, channel'[i]), channel'[i].name = n,
             pc \in {"updDev", "vals"} => channel'[i].des = t,
             pc = "vals" => channel'[i].dev = t
      PROVE  \E d : Leaves(w, d)
  <2> DEFINE d == [c EXCEPT !.pc = pc]
  <2>1. pc \in PCs
    BY DEF PCs, SavePCs, RowPCs
  <2>2. d.pc = pc /\ d.user = c.user /\ d.id = c.id /\ d.req = c.req /\ d.saved = c.saved
    BY <1>1, <2>1, NextContext
  <2>3. Become(w, d)
    BY <1>4 DEF Goto
  <2> HIDE DEF d
  <2>4. ChannelAt(d, channel')
    BY <1>4, <2>2 DEF ChannelAt, RowPCs, LocPCs
  <2>5. LocationAt(d, location')
    BY <1>3, <1>4, <2>2 DEF LocationAt, LocPCs
  <2> QED BY <2>3, <2>4, <2>5 DEF Leaves
<1>5. c.pc \in RowPCs => n \in Titles /\ t \in Texts
  BY <1>1, RequestFacts DEF ContextOK, SavePCs, RowPCs
<1>6. CASE UpdateName(w) /\ ~Goto(w, "idle")
  <2>1. /\ c.pc = "updName" /\ Goto(w, "updDes")
        /\ channel' = [j \in ChannelIds |-> IF j \in ChannelsById(i) THEN [channel[j] EXCEPT !.name = n]
                                                                    ELSE channel[j]]
    BY <1>6 DEF UpdateName, UpdateChannels, At
  <2>2. i \in ChannelIds /\ channel[i] # None /\ MayEdit(c.user, channel[i]) /\ c.pc \in RowPCs
    BY <1>1, <1>3, <2>1 DEF ChannelAt, RowPCs
  <2>3. i \in ChannelsById(i)
    BY <1>1, <2>2, ColumnWritten
  <2>4. channel'[i] = [channel[i] EXCEPT !.name = n]
    BY <2>1, <2>2, <2>3
  <2>5. channel'[i].name = n /\ channel'[i].aut = channel[i].aut
    BY <1>1, <2>2, <2>4, ColumnWritten
  <2>6. channel'[i] # None
    BY <1>1, <1>5, <2>2, <2>4, ColumnWritten
  <2> QED BY <1>4, <2>1, <2>2, <2>5, <2>6 DEF MayEdit
<1>7. CASE UpdateTexts(w) /\ c.pc = "updDes"
  <2>1. /\ Goto(w, "updDev")
        /\ channel' = [j \in ChannelIds |-> IF j \in ChannelsById(i) THEN [channel[j] EXCEPT !.des = t]
                                                                    ELSE channel[j]]
    BY <1>7 DEF UpdateTexts, UpdateChannels, At
  <2>2. /\ i \in ChannelIds /\ channel[i] # None /\ MayEdit(c.user, channel[i]) /\ c.pc \in RowPCs
        /\ channel[i].name = n
    BY <1>1, <1>3, <1>7 DEF ChannelAt, RowPCs
  <2>3. i \in ChannelsById(i)
    BY <1>1, <2>2, ColumnWritten
  <2>4. channel'[i] = [channel[i] EXCEPT !.des = t]
    BY <2>1, <2>2, <2>3
  <2>5. channel'[i].des = t /\ channel'[i].name = channel[i].name /\ channel'[i].aut = channel[i].aut
    BY <1>1, <2>2, <2>4, ColumnWritten
  <2>6. channel'[i] # None
    BY <1>1, <1>5, <2>2, <2>4, ColumnWritten
  <2> QED BY <1>4, <2>1, <2>2, <2>5, <2>6 DEF MayEdit
<1>8. CASE UpdateTexts(w) /\ c.pc = "updDev"
  <2>1. /\ Goto(w, "vals")
        /\ channel' = [j \in ChannelIds |-> IF j \in ChannelsById(i) THEN [channel[j] EXCEPT !.dev = t]
                                                                    ELSE channel[j]]
    BY <1>8 DEF UpdateTexts, UpdateChannels, At, SetKey
  <2>2. /\ i \in ChannelIds /\ channel[i] # None /\ MayEdit(c.user, channel[i]) /\ c.pc \in RowPCs
        /\ channel[i].name = n /\ channel[i].des = t
    BY <1>1, <1>3, <1>8 DEF ChannelAt, RowPCs
  <2>3. i \in ChannelsById(i)
    BY <1>1, <2>2, ColumnWritten
  <2>4. channel'[i] = [channel[i] EXCEPT !.dev = t]
    BY <2>1, <2>2, <2>3
  <2>5. /\ channel'[i].dev = t /\ channel'[i].des = channel[i].des
        /\ channel'[i].name = channel[i].name /\ channel'[i].aut = channel[i].aut
    BY <1>1, <2>2, <2>4, ColumnWritten
  <2>6. channel'[i] # None
    BY <1>1, <1>5, <2>2, <2>4, ColumnWritten
  <2> QED BY <1>4, <2>1, <2>2, <2>5, <2>6 DEF MayEdit
<1>9. UpdateTexts(w) => c.pc \in {"updDes", "updDev"}
  BY DEF UpdateTexts, At
<1> QED BY <1>2, <1>6, <1>7, <1>8, <1>9

(* The row inserted is the one found by its name: the name is unique.       *)
LEMMA NewLeaves ==
  ASSUME SeqInv, NEW w \in Workers, InsertChannel(w) \/ GetChannelId(w)
  PROVE  \E d : Leaves(w, d)
<1> DEFINE c == proc[w]
           n == c.req.title
<1>1. /\ TypeInv /\ c \in Contexts /\ ContextOK(c)
      /\ ChannelAt(c, channel) /\ LocationAt(c, location)
  BY DEF SeqInv, TypeInv
<1>2. CASE Goto(w, "idle")
  BY <1>1, <1>2, PlainGoto DEF PCs, PlainPCs, StartPCs
<1>3. c.pc \in {"insert", "getId"} => c.saved = {} /\ n \in Titles /\ c.req.text \in Texts /\ c.user \in Names
  BY <1>1, RequestFacts DEF ContextOK, LocationAt, LocPCs, SavePCs, NewPCs
<1>4. ASSUME NEW i \in ChannelIds, At(w, "insert"), Goto(w, "getId"),
             channel' = [channel EXCEPT ![i] = NewChannel(c.user, c.req)]
      PROVE  \E d : Leaves(w, d)
  <2> DEFINE d == [c EXCEPT !.pc = "getId"]
  <2>1. "getId" \in PCs
    BY DEF PCs, SavePCs, NewPCs
  <2>2. d.pc = "getId" /\ d.user = c.user /\ d.req = c.req /\ d.saved = {}
    BY <1>1, <1>3, <1>4, <2>1, NextContext DEF At
  <2>3. Become(w, d)
    BY <1>4 DEF Goto
  <2> HIDE DEF d
  <2>4. channel'[i] = NewChannel(c.user, c.req)
    BY <1>1, <1>4 DEF TypeInv, TypeOK
  <2>5. ChannelAt(d, channel')
    BY <2>2, <2>4 DEF ChannelAt, RowPCs, LocPCs
  <2>6. LocationAt(d, location')
    BY <2>2 DEF LocationAt, LocPCs
  <2> QED BY <2>3, <2>5, <2>6 DEF Leaves
<1>5. ASSUME NEW i \in ChannelsByName(n), At(w, "getId"), UNCHANGED channel,
             Become(w, [c EXCEPT !.id = i, !.pc = "vals"])
      PROVE  \E d : Leaves(w, d)
  <2> DEFINE d == [c EXCEPT !.id = i, !.pc = "vals"]
  <2>1. i \in ChannelIds /\ channel[i] # None /\ channel[i].name = n
    BY <1>5 DEF ChannelsByName
  <2>2. "vals" \in PCs
    BY DEF PCs, SavePCs, RowPCs
  <2>3. d.pc = "vals" /\ d.user = c.user /\ d.req = c.req /\ d.id = i /\ d.saved = {}
    BY <1>1, <1>3, <1>5, <2>1, <2>2 DEF At, Contexts
  <2> HIDE DEF d
  <2>4. PICK j \in ChannelIds : channel[j] = NewChannel(c.user, c.req)
    BY <1>1, <1>5 DEF ChannelAt, At
  <2>5. NewChannel(c.user, c.req) \in ChannelRows
    BY <1>3, <1>5 DEF At, NewChannel, ChannelRows
  <2>6. channel[j] # None /\ channel[j].name = n
    BY <2>4, <2>5, ChannelRowNone DEF NewChannel
  <2>7. i = j
    BY <2>1, <2>6 DEF SeqInv, NamesInv, ChannelNamesUnique
  <2>8. channel'[i] = NewChannel(c.user, c.req) /\ channel'[i] # None
    BY <1>5, <2>1, <2>4, <2>7
  <2>9. ChannelAt(d, channel')
    BY <2>3, <2>8 DEF ChannelAt, NewChannel, MayEdit, RowPCs, LocPCs
  <2>10. LocationAt(d, location')
    BY <2>3 DEF LocationAt, LocPCs
  <2> QED BY <1>5, <2>9, <2>10 DEF Leaves, d
<1> QED BY <1>2, <1>4, <1>5 DEF InsertChannel, GetChannelId

(* At the next location of the form, or the page, the whole row is written. *)
SavedAt(c, A, L) ==
  /\ A[c.id] # None /\ MayEdit(c.user, A[c.id])
  /\ A[c.id].name = c.req.title /\ A[c.id].des = c.req.text
  /\ A[c.id].dev = c.req.text /\ A[c.id].vals = c.req.text
  /\ \A s \in c.saved : L[s[1]] = [chn |-> c.id, pos |-> s[2], vals |-> s[2]]
  /\ \A s \in c.saved : \A i \in DOMAIN c.items : c.items[i].loc # s[1]

LEMMA ItemLeaves ==
  ASSUME NEW w \in Workers, NEW c \in Contexts, Become(w, [c EXCEPT !.pc = NextItem(c.items)]),
         SavedAt(c, channel', location')
  PROVE  \E d : Leaves(w, d)
<1> DEFINE pc == NextItem(c.items)
           d == [c EXCEPT !.pc = pc]
<1>1. pc \in {"show", "idle", "locInsert", "locCheck"}
  BY DEF NextItem
<1> HIDE DEF pc
<1>2. pc \in PCs
  BY <1>1 DEF PCs, SavePCs, LocPCs
<1>3. /\ d.pc = pc /\ d.user = c.user /\ d.req = c.req /\ d.id = c.id
      /\ d.items = c.items /\ d.loc = c.loc /\ d.saved = c.saved
  BY <1>2, PcTyped
<1>4. Become(w, d)
  BY DEF pc
<1> HIDE DEF d
<1>5. CASE pc = "idle"
  BY <1>3, <1>4, <1>5, PlainLeaves DEF PlainPCs, StartPCs
<1>6. CASE pc # "idle"
  <2>1. ChannelAt(d, channel')
    BY <1>1, <1>3, <1>6 DEF ChannelAt, SavedAt, RowPCs, LocPCs
  <2>2. LocationAt(d, location')
    BY <1>1, <1>3, <1>6 DEF LocationAt, SavedAt, LocPCs
  <2> QED BY <1>4, <2>1, <2>2 DEF Leaves
<1> QED BY <1>5, <1>6

LEMMA ValsLeaves ==
  ASSUME SeqInv, NEW w \in Workers, UpdateVals(w)
  PROVE  \E d : Leaves(w, d)
<1> DEFINE c == proc[w]
           i == c.id
           t == c.req.text
<1>1. /\ TypeInv /\ c \in Contexts /\ ContextOK(c)
      /\ ChannelAt(c, channel) /\ LocationAt(c, location)
  BY DEF SeqInv, TypeInv
<1>2. /\ c.pc = "vals" /\ Become(w, [c EXCEPT !.pc = NextItem(c.items)])
      /\ channel' = [j \in ChannelIds |-> IF j \in ChannelsById(i) THEN [channel[j] EXCEPT !.vals = t]
                                                                  ELSE channel[j]]
  BY DEF UpdateVals, UpdateChannels, At, Goto
<1>3. /\ i \in ChannelIds /\ channel[i] # None /\ MayEdit(c.user, channel[i])
      /\ channel[i].name = c.req.title /\ channel[i].des = t /\ channel[i].dev = t /\ c.saved = {}
  BY <1>1, <1>2 DEF ContextOK, ChannelAt, LocationAt, RowPCs, LocPCs
<1>4. t \in Texts
  BY <1>1, <1>2, RequestFacts DEF ContextOK, SavePCs, RowPCs
<1>5. i \in ChannelsById(i)
  BY <1>1, <1>3, ColumnWritten
<1>6. channel'[i] = [channel[i] EXCEPT !.vals = t]
  BY <1>2, <1>3, <1>5
<1>7. /\ channel'[i].name = channel[i].name /\ channel'[i].aut = channel[i].aut
      /\ channel'[i].des = channel[i].des /\ channel'[i].dev = channel[i].dev /\ channel'[i].vals = t
  BY <1>1, <1>3, <1>6, ColumnWritten
<1>8. channel'[i] # None
  BY <1>1, <1>3, <1>4, <1>6, ColumnWritten
<1>9. SavedAt(c, channel', location')
  BY <1>3, <1>7, <1>8 DEF SavedAt, MayEdit
<1> QED BY <1>1, <1>2, <1>9, ItemLeaves

-----------------------------------------------------------------------------
(* avLocationSave, which writes nothing of the channel.                     *)

LEMMA PositionWritten ==
  ASSUME TypeInv, NEW l \in LocationIds, location[l] # None, NEW x
  PROVE  LET row == location[l]
         IN  /\ row \in LocationRows /\ l \in LocationsById(l)
             /\ row = [chn |-> row.chn, pos |-> row.pos, vals |-> row.vals]
             /\ x \in ChannelIds => [row EXCEPT !.chn = x] # None
             /\ x \in Places => [row EXCEPT !.pos = x] # None
             /\ [row EXCEPT !.chn = x] = [chn |-> x, pos |-> row.pos, vals |-> row.vals]
             /\ [row EXCEPT !.pos = x] = [chn |-> row.chn, pos |-> x, vals |-> row.vals]
             /\ [row EXCEPT !.vals = x] = [chn |-> row.chn, pos |-> row.pos, vals |-> x]
<1>1. location[l] \in LocationRows /\ l \in LocationsById(l)
  BY DEF TypeInv, TypeOK, LocationsById
<1>2. /\ x \in ChannelIds => [location[l] EXCEPT !.chn = x] \in LocationRows
      /\ x \in Places => [location[l] EXCEPT !.pos = x] \in LocationRows
  BY <1>1 DEF LocationRows
<1>3. /\ x \in ChannelIds => [location[l] EXCEPT !.chn = x] # None
      /\ x \in Places => [location[l] EXCEPT !.pos = x] # None
  BY <1>2, ChannelRowNone
<1> QED BY <1>1, <1>3 DEF LocationRows

(* Where avLocationSave works, the channel has been saved.                  *)
LEMMA InLocation ==
  ASSUME SeqInv, NEW w \in Workers, proc[w].pc \in LocPCs
  PROVE  LET c == proc[w]
         IN  /\ c \in Contexts /\ c.id \in ChannelIds /\ c.items \in Seq(Items) /\ c.items # << >>
             /\ Head(c.items) = c.items[1] /\ 1 \in DOMAIN c.items /\ Head(c.items).at \in Places
             /\ \A i \in DOMAIN c.items : i \in Nat \ {0}
             /\ \A s \in c.saved : s[1] \in LocationIds /\ location[s[1]] # None
             /\ SavedAt(c, channel, location)
<1> DEFINE c == proc[w]
<1>1. /\ TypeInv /\ c \in Contexts /\ ContextOK(c)
      /\ ChannelAt(c, channel) /\ LocationAt(c, location)
  BY DEF SeqInv, TypeInv
<1>2. /\ c.id \in ChannelIds /\ c.items \in Seq(Items) /\ c.items # << >> /\ Head(c.items).at \in Places
      /\ c.saved \in SUBSET (LocationIds \X Places)
  BY <1>1 DEF ContextOK, Contexts
<1>3. Head(c.items) = c.items[1] /\ 1 \in DOMAIN c.items /\ \A i \in DOMAIN c.items : i \in Nat \ {0}
  BY <1>2, ItemFacts
<1>4. SavedAt(c, channel, location)
  BY <1>1 DEF ChannelAt, LocationAt, SavedAt
<1>5. ASSUME NEW s \in c.saved PROVE s[1] \in LocationIds /\ location[s[1]] # None
  <2>1. s[1] \in LocationIds /\ s[2] \in Places
    BY <1>2
  <2>2. [chn |-> c.id, pos |-> s[2], vals |-> s[2]] \in LocationRows
    BY <1>2, <2>1 DEF LocationRows
  <2>3. location[s[1]] = [chn |-> c.id, pos |-> s[2], vals |-> s[2]]
    BY <1>4 DEF SavedAt
  <2> QED BY <2>1, <2>2, <2>3, ChannelRowNone
<1> QED BY <1>1, <1>2, <1>3, <1>4, <1>5

(* Where an UPDATE leaves the process in avLocationSave.                    *)
LEMMA LocationLeaves ==
  ASSUME NEW w \in Workers, NEW d, Become(w, d), d.pc \in {"locChannel", "locPosition", "locVals"},
         SavedAt(d, channel', location'),
         location'[d.loc] # None, \A s \in d.saved : s[1] # d.loc,
         \A i \in DOMAIN d.items : i > 1 => d.items[i].loc # d.loc,
         d.pc \in {"locPosition", "locVals"} => location'[d.loc].chn = d.id,
         d.pc = "locVals" => location'[d.loc].pos = Head(d.items).at
  PROVE  \E e : Leaves(w, e)
<1>1. ChannelAt(d, channel')
  BY DEF ChannelAt, SavedAt, RowPCs, LocPCs
<1>2. LocationAt(d, location')
  BY DEF LocationAt, SavedAt, LocPCs
<1> QED BY <1>1, <1>2 DEF Leaves

LEMMA InsertLocationLeaves ==
  ASSUME SeqInv, NEW w \in Workers, InsertLocation(w)
  PROVE  \E d : Leaves(w, d)
<1> DEFINE c == proc[w]
<1>1. CASE Goto(w, "idle")
  BY <1>1, PlainGoto DEF SeqInv, PCs, PlainPCs, StartPCs
<1>2. ASSUME NEW l \in LocationIds, At(w, "locInsert"), IsNextRowid(l, location), UNCHANGED channel,
             location' = [location EXCEPT ![l] = [chn |-> c.id, pos |-> Place(w), vals |-> None]],
             Become(w, [c EXCEPT !.loc = l, !.pc = "locVals"])
      PROVE  \E d : Leaves(w, d)
  <2> DEFINE d == [c EXCEPT !.loc = l, !.pc = "locVals"]
  <2>1. /\ c \in Contexts /\ c.id \in ChannelIds /\ c.items \in Seq(Items) /\ c.items # << >>
        /\ Head(c.items) = c.items[1] /\ 1 \in DOMAIN c.items /\ Head(c.items).at \in Places
        /\ \A i \in DOMAIN c.items : i \in Nat \ {0}
        /\ \A s \in c.saved : s[1] \in LocationIds /\ location[s[1]] # None
        /\ SavedAt(c, channel, location)
    BY <1>2, InLocation DEF At, LocPCs
  <2>2. Listed(c.items) /\ c.items[1].loc = 0
    BY <1>2, <2>1 DEF SeqInv, TypeInv, ContextOK, At
  <2>3. l # 0
    BY ChannelBounds DEF LocationIds
  <2>4. \A i \in DOMAIN c.items : i > 1 => c.items[i].loc # l
    BY <2>1, <2>2, <2>3 DEF Listed
  <2>5. location \in [LocationIds -> LocationRows \cup {None}]
    BY DEF SeqInv, TypeInv, TypeOK
  <2>6. location[l] = None
    BY <1>2, <2>5, ChannelBounds DEF IsNextRowid, LocationIds
  <2>7. \A s \in c.saved : s[1] # l /\ location'[s[1]] = location[s[1]]
    BY <1>2, <2>1, <2>5, <2>6
  <2>8. location'[l] = [chn |-> c.id, pos |-> Place(w), vals |-> None]
    BY <1>2, <2>5
  <2>9. location'[l] # None
    <3>1. [chn |-> c.id, pos |-> Place(w), vals |-> None] \in LocationRows
      BY <2>1 DEF LocationRows, Place
    <3> QED BY <2>8, <3>1, ChannelRowNone
  <2>10. "locVals" \in PCs
    BY DEF PCs, SavePCs, LocPCs
  <2>11. /\ d.pc = "locVals" /\ d.loc = l /\ d.user = c.user /\ d.req = c.req /\ d.id = c.id
         /\ d.items = c.items /\ d.saved = c.saved
    BY <2>1, <2>10 DEF Contexts
  <2>12. Become(w, d)
    BY <1>2
  <2> HIDE DEF d
  <2>13. SavedAt(d, channel', location')
    BY <1>2, <2>1, <2>7, <2>11 DEF SavedAt
  <2>14. location'[d.loc].chn = d.id /\ location'[d.loc].pos = Head(d.items).at
    BY <2>8, <2>11 DEF Place
  <2> QED BY <2>4, <2>7, <2>9, <2>11, <2>12, <2>13, <2>14, LocationLeaves
<1> QED BY <1>1, <1>2 DEF InsertLocation

LEMMA CheckLocationLeaves ==
  ASSUME SeqInv, NEW w \in Workers, CheckLocation(w)
  PROVE  \E d : Leaves(w, d)
<1> DEFINE c == proc[w]
           l == Head(c.items).loc
           d == [c EXCEPT !.loc = l, !.pc = "locChannel"]
<1>1. CASE Goto(w, "idle")
  BY <1>1, PlainGoto DEF SeqInv, PCs, PlainPCs, StartPCs
<1>2. CASE ~Goto(w, "idle")
  <2>1. /\ At(w, "locCheck") /\ UNCHANGED <<channel, location>> /\ LocationsById(l) # {} /\ Become(w, d)
    BY <1>2 DEF CheckLocation
  <2>2. /\ c \in Contexts /\ c.id \in ChannelIds /\ c.items \in Seq(Items) /\ c.items # << >>
        /\ Head(c.items) = c.items[1] /\ 1 \in DOMAIN c.items /\ Head(c.items).at \in Places
        /\ \A i \in DOMAIN c.items : i \in Nat \ {0}
        /\ SavedAt(c, channel, location)
    BY <2>1, InLocation DEF At, LocPCs
  <2>3. Listed(c.items) /\ l \in LocationIds
    BY <2>1 DEF SeqInv, TypeInv, ContextOK, At
  <2>4. \A i \in DOMAIN c.items : i > 1 => c.items[i].loc # l
    BY <2>2, <2>3, ChannelBounds DEF Listed, LocationIds
  <2>5. location'[l] # None
    BY <2>1 DEF LocationsById
  <2>6. "locChannel" \in PCs
    BY DEF PCs, SavePCs, LocPCs
  <2> HIDE DEF l
  <2>7. /\ d.pc = "locChannel" /\ d.loc = l /\ d.user = c.user /\ d.req = c.req /\ d.id = c.id
        /\ d.items = c.items /\ d.saved = c.saved
    BY <2>2, <2>3, <2>6 DEF Contexts
  <2> HIDE DEF d
  <2>8. SavedAt(d, channel', location')
    BY <2>1, <2>2, <2>7 DEF SavedAt
  <2>9. \A s \in c.saved : s[1] # l
    BY <2>2 DEF SavedAt, l
  <2> QED BY <2>1, <2>4, <2>5, <2>7, <2>8, <2>9, LocationLeaves
<1> QED BY <1>1, <1>2

LEMMA UpdateLocationLeaves ==
  ASSUME SeqInv, NEW w \in Workers, UpdateLocation(w)
  PROVE  \E d : Leaves(w, d)
<1> DEFINE c == proc[w]
           l == c.loc
           new == IF At(w, "locChannel") THEN [location[l] EXCEPT !.chn = c.id]
                                         ELSE [location[l] EXCEPT !.pos = Place(w)]
           next == IF At(w, "locChannel") THEN "locPosition" ELSE "locVals"
           d == [c EXCEPT !.pc = next]
<1>1. /\ c.pc \in {"locChannel", "locPosition"} /\ UNCHANGED channel /\ Become(w, d)
      /\ location' = [k \in LocationIds |-> IF k \in LocationsById(l)
                        THEN IF At(w, "locChannel") THEN [location[k] EXCEPT !.chn = c.id]
                                                    ELSE [location[k] EXCEPT !.pos = Place(w)]
                        ELSE location[k]]
  BY DEF UpdateLocation, UpdateLocations, Moved, Goto, At
<1>2. /\ c \in Contexts /\ c.id \in ChannelIds /\ Head(c.items).at \in Places
      /\ \A s \in c.saved : s[1] \in LocationIds /\ location[s[1]] # None
      /\ SavedAt(c, channel, location)
  BY <1>1, InLocation DEF LocPCs
<1>3. TypeInv /\ ContextOK(c) /\ LocationAt(c, location)
  BY DEF SeqInv, TypeInv
<1>4. /\ l \in LocationIds /\ location[l] # None
      /\ \A s \in c.saved : s[1] # l
      /\ \A i \in DOMAIN c.items : i > 1 => c.items[i].loc # l
      /\ c.pc = "locPosition" => location[l].chn = c.id
  BY <1>1, <1>3 DEF ContextOK, LocationAt
<1>5. l \in LocationsById(l) /\ \A s \in c.saved : s[1] \notin LocationsById(l)
  BY <1>4 DEF LocationsById
<1>6. location'[l] = new /\ \A s \in c.saved : location'[s[1]] = location[s[1]]
  BY <1>1, <1>2, <1>4, <1>5
<1>7. new # None
  BY <1>2, <1>3, <1>4, PositionWritten DEF Place
<1>8. At(w, "locChannel") => new.chn = c.id
  BY <1>3, <1>4, PositionWritten
<1>9. c.pc = "locPosition" => new.chn = c.id /\ new.pos = Place(w)
  BY <1>3, <1>4, PositionWritten DEF At
<1>10. next \in PCs
  BY DEF PCs, SavePCs, LocPCs
<1>11. /\ (next = "locPosition" /\ At(w, "locChannel")) \/ (next = "locVals" /\ c.pc = "locPosition")
       /\ next \in {"locChannel", "locPosition", "locVals"}
  BY <1>1 DEF At
<1> HIDE DEF new, next
<1>12. /\ d.pc = next /\ d.loc = l /\ d.user = c.user /\ d.req = c.req /\ d.id = c.id
       /\ d.items = c.items /\ d.saved = c.saved
  BY <1>2, <1>10, PcTyped
<1> HIDE DEF d
<1>13. SavedAt(d, channel', location')
  BY <1>1, <1>2, <1>6, <1>12 DEF SavedAt
<1>14. location'[d.loc].chn = d.id /\ (d.pc = "locVals" => location'[d.loc].pos = Head(d.items).at)
  BY <1>6, <1>8, <1>9, <1>11, <1>12 DEF Place
<1>15. /\ d.pc \in {"locChannel", "locPosition", "locVals"} /\ location'[d.loc] # None
       /\ \A s \in d.saved : s[1] # d.loc
       /\ \A i \in DOMAIN d.items : i > 1 => d.items[i].loc # d.loc
  BY <1>4, <1>6, <1>7, <1>11, <1>12
<1> QED BY <1>1, <1>13, <1>14, <1>15, LocationLeaves

LEMMA LocationValsLeaves ==
  ASSUME SeqInv, NEW w \in Workers, UpdateLocationVals(w)
  PROVE  \E d : Leaves(w, d)
<1> DEFINE c == proc[w]
           l == c.loc
           x == Place(w)
           S == c.saved \cup {<<l, x>>}
           d == [c EXCEPT !.saved = S, !.items = Tail(c.items), !.loc = 0]
<1>1. /\ c.pc = "locVals" /\ UNCHANGED channel /\ Become(w, [d EXCEPT !.pc = NextItem(d.items)])
      /\ location' = [k \in LocationIds |-> IF k \in LocationsById(l) THEN [location[k] EXCEPT !.vals = x]
                                                                    ELSE location[k]]
  BY DEF UpdateLocationVals, UpdateLocations, At
<1>2. /\ c \in Contexts /\ c.id \in ChannelIds /\ c.items \in Seq(Items) /\ c.items # << >>
      /\ Head(c.items).at \in Places
      /\ \A s \in c.saved : s[1] \in LocationIds /\ location[s[1]] # None
      /\ SavedAt(c, channel, location)
  BY <1>1, InLocation DEF LocPCs
<1>3. TypeInv /\ ContextOK(c) /\ LocationAt(c, location)
  BY DEF SeqInv, TypeInv
<1>4. /\ l \in LocationIds /\ location[l] # None
      /\ \A s \in c.saved : s[1] # l
      /\ \A i \in DOMAIN c.items : i > 1 => c.items[i].loc # l
      /\ location[l].chn = c.id /\ location[l].pos = x
  BY <1>1, <1>3 DEF ContextOK, LocationAt, Place
<1>5. l \in LocationsById(l) /\ \A s \in c.saved : s[1] \notin LocationsById(l)
  BY <1>4 DEF LocationsById
<1>6. location'[l] = [location[l] EXCEPT !.vals = x] /\ \A s \in c.saved : location'[s[1]] = location[s[1]]
  BY <1>1, <1>2, <1>4, <1>5
<1>7. location'[l] = [chn |-> c.id, pos |-> x, vals |-> x]
  BY <1>3, <1>4, <1>6, PositionWritten
<1>8. x \in Places /\ Tail(c.items) \in Seq(Items)
  BY <1>2, ItemFacts DEF Place
<1>9. \A i \in DOMAIN Tail(c.items) :
        i \in Nat \ {0} /\ i + 1 \in DOMAIN c.items /\ Tail(c.items)[i] = c.items[i + 1]
  BY <1>2, ItemFacts
<1>10. S \in SUBSET (LocationIds \X Places)
  BY <1>2, <1>4, <1>8 DEF Contexts
<1> HIDE DEF S
<1>11. /\ d \in Contexts /\ d.user = c.user /\ d.req = c.req /\ d.id = c.id
       /\ d.items = Tail(c.items) /\ d.saved = S
  BY <1>2, <1>8, <1>10 DEF Contexts
<1> HIDE DEF d
<1>12. \A s \in S : location'[s[1]] = [chn |-> c.id, pos |-> s[2], vals |-> s[2]]
  <2>1. \A s \in c.saved : location'[s[1]] = [chn |-> c.id, pos |-> s[2], vals |-> s[2]]
    BY <1>2, <1>6 DEF SavedAt
  <2>2. \A s \in S : s \in c.saved \/ (s[1] = l /\ s[2] = x)
    BY DEF S
  <2> QED BY <1>7, <2>1, <2>2
<1>13. \A s \in S : \A i \in DOMAIN Tail(c.items) : Tail(c.items)[i].loc # s[1]
  <2>1. \A s \in c.saved : \A i \in DOMAIN c.items : c.items[i].loc # s[1]
    BY <1>2 DEF SavedAt
  <2>2. \A s \in S : s \in c.saved \/ s[1] = l
    BY DEF S
  <2>3. \A i \in DOMAIN Tail(c.items) : c.items[i + 1].loc # l
    BY <1>4, <1>9
  <2> QED BY <1>9, <2>1, <2>2, <2>3
<1>14. SavedAt(d, channel', location')
  BY <1>1, <1>2, <1>11, <1>12, <1>13 DEF SavedAt
<1> QED BY <1>1, <1>11, <1>14, ItemLeaves

LEMMA DeleteLeaves ==
  ASSUME SeqInv, NEW w \in Workers, DeleteChannel(w) \/ DeleteLocations(w) \/ DeleteByAuthor(w)
  PROVE  \E d : Leaves(w, d)
<1>1. TypeInv /\ LocationAt(proc[w], location)
  BY DEF SeqInv
<1>2. CASE DeleteChannel(w)
  <2>1. At(w, "delChannel") /\ Goto(w, "delLocations")
    BY <1>2 DEF DeleteChannel
  <2>2. proc[w].saved = {}
    BY <1>1, <2>1 DEF LocationAt, At, LocPCs
  <2> QED BY <1>1, <2>1, <2>2, PlainGoto DEF PCs, DelPCs, PlainPCs
<1>3. CASE Goto(w, "idle")
  BY <1>1, <1>3, PlainGoto DEF PCs, PlainPCs, StartPCs
<1> QED BY <1>2, <1>3 DEF DeleteLocations, DeleteByAuthor

LEMMA StepLeaves ==
  ASSUME SeqInv, NEW w \in Workers, Arrive(w) \/ Step(w) \/ Fail(w)
  PROVE  \E d : Leaves(w, d)
<1>1. TypeInv
  BY DEF SeqInv
<1>2. CASE Arrive(w)
  <2>1. PICK c : Become(w, c) /\ c.saved = {} /\ c.pc \in StartPCs
    BY <1>1, <1>2, ArriveContext
  <2> QED BY <2>1, PlainLeaves DEF PlainPCs
<1>3. CASE Fail(w)
  <2>1. Goto(w, "idle")
    BY <1>3 DEF Fail
  <2> QED BY <1>1, <2>1, PlainGoto DEF PCs, PlainPCs, StartPCs
<1> QED
  BY <1>2, <1>3, CheckLeaves, RowLeaves, NewLeaves, ValsLeaves, InsertLocationLeaves,
     CheckLocationLeaves, UpdateLocationLeaves, LocationValsLeaves, DeleteLeaves DEF Step

LEMMA InitSeq == Init => SeqInv
<1> SUFFICES ASSUME Init PROVE SeqInv
  OBVIOUS
<1>1. NamesInv
  BY DEF Init, NamesInv, Rows, ChannelNamesUnique
<1>2. ChannelAt(Idle, channel) /\ LocationAt(Idle, location)
  BY DEF ChannelAt, LocationAt, Idle, RowPCs, LocPCs
<1> QED BY <1>1, <1>2, InitType DEF Init, SeqInv

LEMMA NextSeq ==
  ASSUME OneProcess, SeqInv, [Next]_vars
  PROVE  SeqInv'
<1>1. TypeInv' /\ NamesInv'
  BY NextType, NextKeepsNames DEF SeqInv
<1>2. CASE UNCHANGED vars
  BY <1>1, <1>2 DEF SeqInv, vars, ChannelAt, LocationAt
<1>3. ASSUME NEW w \in Workers, Arrive(w) \/ Step(w) \/ Fail(w)
      PROVE  SeqInv'
  <2>1. PICK d : Leaves(w, d)
    BY <1>3, StepLeaves
  <2>2. \A v \in Workers : ChannelAt(proc'[v], channel') /\ LocationAt(proc'[v], location')
    BY <2>1, LeavesAll DEF SeqInv
  <2> QED BY <1>1, <2>2 DEF SeqInv
<1> QED BY <1>2, <1>3 DEF Next

(* A process that ends leaves the tables as they are.                       *)
LEMMA StopKeeps ==
  ASSUME OneProcess, SeqInv, NEW w \in Workers, Become(w, Idle), UNCHANGED <<channel, location>>
  PROVE  SeqInv'
<1>1. TypeInv' /\ NamesInv'
  <2>1. proc' \in [Workers -> Contexts] /\ \A v \in Workers : ContextOK(proc'[v])
    BY IdleTyped, BecomeTyped DEF SeqInv
  <2> QED BY <2>1 DEF SeqInv, TypeInv, TypeOK, NamesInv, Rows, ChannelNamesUnique
<1>2. Idle.pc = "idle"
  BY DEF Idle
<1>3. PICK d : Leaves(w, d)
  BY <1>2, PlainLeaves DEF PlainPCs, StartPCs
<1>4. \A v \in Workers : ChannelAt(proc'[v], channel') /\ LocationAt(proc'[v], location')
  BY <1>3, LeavesAll DEF SeqInv
<1> QED BY <1>1, <1>4 DEF SeqInv

LEMMA SeqInvHolds ==
  ASSUME OneProcess
  PROVE  Spec => []SeqInv
<1>1. SeqInv /\ [Next]_vars => SeqInv'
  BY NextSeq
<1> QED BY <1>1, InitSeq, PTL DEF Spec

(* "The values of the channel were successfully saved." (avChannel.c:321)   *)
(* is true when requests are answered one at a time, whatever the form held *)
(* and wherever earlier requests stopped: the row and every location of the *)
(* form have the values sent, under the channel's id.                       *)
THEOREM SavesAsReported ==
  ASSUME OneProcess
  PROVE  Spec => []SavedAsReported
<1>1. SeqInv => SavedAsReported
  BY DEF SeqInv, SavedAsReported, ChannelAt, LocationAt, At
<1> QED BY <1>1, SeqInvHolds, PTL

-----------------------------------------------------------------------------
(* Who changes a channel.                                                   *)

(* No author's name is the row id of an author; Register accepts a name of  *)
(* digits, and deleting the author with that id would take its channels.    *)
NamesAreNoIds == \A n \in Names : AuthorKey(n) \notin Names

LEMMA GoesTo ==
  ASSUME TypeInv, NEW w \in Workers, NEW pc \in PCs \ {"idle"}, Goto(w, pc)
  PROVE  /\ proc'[w].pc = pc /\ proc'[w].id = proc[w].id /\ proc'[w].req = proc[w].req
         /\ proc'[w].loc = proc[w].loc
<1> DEFINE d == [proc[w] EXCEPT !.pc = pc]
<1>1. d.pc = pc /\ d.id = proc[w].id /\ d.req = proc[w].req /\ d.loc = proc[w].loc
  BY NextContext
<1>2. proc' = [proc EXCEPT ![w] = d]
  BY <1>1 DEF Goto, Become
<1> HIDE DEF d
<1>3. proc'[w] = d
  BY <1>2 DEF TypeInv
<1> QED BY <1>1, <1>3

(* A row that exists is changed where its channel is edited or deleted, and *)
(* only deleted on the way to its locations.                                *)
LEMMA ChannelChanges ==
  ASSUME SeqInv, NamesAreNoIds, NEW w \in Workers, Arrive(w) \/ Step(w) \/ Fail(w),
         NEW i \in ChannelIds, channel[i] # None, channel'[i] # channel[i]
  PROVE  /\ ~At(w, "idle") /\ proc[w].id = i /\ MayEdit(proc[w].user, channel[i])
         /\ channel'[i] # None \/ (proc'[w].pc = "delLocations" /\ proc'[w].id = i)
<1> DEFINE c == proc[w]
           n == c.req.title
           t == c.req.text
<1>1. /\ TypeInv /\ c \in Contexts /\ ContextOK(c) /\ ChannelAt(c, channel)
      /\ channel[i] \in ChannelRows
  BY DEF SeqInv, TypeInv, TypeOK
<1>2. \A j \in ChannelIds : j \in ChannelsById(c.id) <=> j = c.id /\ channel[j] # None
  BY DEF ChannelsById
<1>3. c.pc \in RowPCs \cup {"delChannel"} => ~At(w, "idle") /\ MayEdit(c.user, channel[c.id])
  BY <1>1 DEF ChannelAt, At, RowPCs
<1>4. c.pc \in RowPCs => n \in Titles /\ t \in Texts
  BY <1>1, RequestFacts DEF ContextOK, SavePCs, RowPCs
<1>5. ASSUME c.pc \in RowPCs,
             channel' = [j \in ChannelIds |-> IF j \in ChannelsById(c.id) THEN channel'[j] ELSE channel[j]],
             i = c.id => channel'[i] # None
      PROVE  /\ ~At(w, "idle") /\ c.id = i /\ MayEdit(c.user, channel[i])
             /\ channel'[i] # None
  <2>1. i = c.id
    BY <1>2, <1>5
  <2> QED BY <1>3, <1>5, <2>1
<1>6. CASE UpdateName(w)
  <2>1. /\ c.pc = "updName"
        /\ channel' = [j \in ChannelIds |-> IF j \in ChannelsById(c.id) THEN [channel[j] EXCEPT !.name = n]
                                                                       ELSE channel[j]]
    BY <1>6 DEF UpdateName, UpdateChannels, At
  <2>2. channel' = [j \in ChannelIds |-> IF j \in ChannelsById(c.id) THEN channel'[j] ELSE channel[j]]
    BY <2>1
  <2>3. channel'[i] = [channel[i] EXCEPT !.name = n] \/ channel'[i] = channel[i]
    BY <2>1
  <2>4. channel'[i] # None
    BY <1>1, <1>4, <2>1, <2>3, ColumnWritten DEF RowPCs
  <2> QED BY <1>5, <2>1, <2>2, <2>4 DEF RowPCs
<1>7. CASE UpdateTexts(w) \/ UpdateVals(w)
  <2>1. /\ c.pc \in RowPCs
        /\ \/ channel' = [j \in ChannelIds |-> IF j \in ChannelsById(c.id) THEN [channel[j] EXCEPT !.des = t]
                                                                          ELSE channel[j]]
           \/ channel' = [j \in ChannelIds |-> IF j \in ChannelsById(c.id) THEN [channel[j] EXCEPT !.dev = t]
                                                                          ELSE channel[j]]
           \/ channel' = [j \in ChannelIds |-> IF j \in ChannelsById(c.id) THEN [channel[j] EXCEPT !.vals = t]
                                                                          ELSE channel[j]]
    BY <1>7 DEF UpdateTexts, UpdateVals, UpdateChannels, SetKey, At, RowPCs
  <2>2. channel' = [j \in ChannelIds |-> IF j \in ChannelsById(c.id) THEN channel'[j] ELSE channel[j]]
    BY <2>1
  <2>3. \/ channel'[i] = [channel[i] EXCEPT !.des = t] \/ channel'[i] = [channel[i] EXCEPT !.dev = t]
        \/ channel'[i] = [channel[i] EXCEPT !.vals = t] \/ channel'[i] = channel[i]
    BY <2>1
  <2>4. channel'[i] # None
    BY <1>1, <1>4, <2>1, <2>3, ColumnWritten
  <2> QED BY <1>5, <2>1, <2>2, <2>4
<1>8. ~InsertChannel(w)
  <2>1. ASSUME NEW j \in ChannelIds, IsNextRowid(j, channel),
               channel' = [channel EXCEPT ![j] = NewChannel(c.user, c.req)]
        PROVE  FALSE
    <3>1. channel[j] = None
      BY <1>1, <2>1, ChannelBounds DEF IsNextRowid, ChannelIds, TypeInv, TypeOK
    <3> QED BY <2>1, <3>1
  <2> QED BY <2>1 DEF InsertChannel
<1>9. CASE DeleteChannel(w)
  <2>1. /\ c.pc = "delChannel" /\ Goto(w, "delLocations")
        /\ channel' = [j \in ChannelIds |-> IF j \in ChannelsById(c.id) THEN None ELSE channel[j]]
    BY <1>9 DEF DeleteChannel, UpdateChannels, At
  <2>2. i = c.id
    BY <1>2, <2>1
  <2>3. "delLocations" \in PCs \ {"idle"}
    BY DEF PCs, DelPCs
  <2>4. proc'[w].pc = "delLocations" /\ proc'[w].id = i
    BY <1>1, <2>1, <2>2, <2>3, GoesTo
  <2> QED BY <1>3, <2>1, <2>2, <2>4
<1>10. ~DeleteByAuthor(w)
  <2>1. SUFFICES ASSUME DeleteByAuthor(w) PROVE FALSE
    OBVIOUS
  <2>2. channel[i].aut = AuthorKey(c.req.aut) /\ c.pc = "delByAuthor"
    BY <2>1 DEF DeleteByAuthor, UpdateChannels, At
  <2>3. channel[i].aut \in Names
    BY <1>1 DEF ChannelRows
  <2>4. c.req.aut \in Names
    BY <1>1, <2>2 DEF ContextOK
  <2> QED BY <2>2, <2>3, <2>4 DEF NamesAreNoIds
<1> QED
  BY <1>6, <1>7, <1>8, <1>9, <1>10
     DEF Step, Arrive, Fail, CheckChannel, Check, DropLocation, CheckTitle, GetChannelId, InsertLocation,
         CheckLocation, UpdateLocation, UpdateLocationVals, ShowSaved, CheckDelete, DeleteLocations

(* "You cannot update channel with id %s, because you are not its author."  *)
(* (avChannel.c:112): with requests answered one at a time, the author read *)
(* by the last check is still the row's when it is written, so a row is     *)
(* changed and deleted for its author or an administrator only.             *)
THEOREM AuthorsAlone ==
  ASSUME OneProcess, NamesAreNoIds
  PROVE  Spec => AuthorsOnly
<1>1. SeqInv /\ [Next]_vars
      => [\A c \in ChannelIds : channel[c] # None /\ channel'[c] # channel[c]
            => \E w \in Workers : ~At(w, "idle") /\ proc[w].id = c
                                 /\ (IsAdministrator(proc[w].user) \/ proc[w].user = channel[c].aut)]_vars
  <2> SUFFICES ASSUME SeqInv, Next, NEW c \in ChannelIds, channel[c] # None, channel'[c] # channel[c]
               PROVE  \E w \in Workers : ~At(w, "idle") /\ proc[w].id = c
                                 /\ (IsAdministrator(proc[w].user) \/ proc[w].user = channel[c].aut)
    OBVIOUS
  <2>1. PICK w \in Workers : Arrive(w) \/ Step(w) \/ Fail(w)
    BY DEF Next
  <2>2. ~At(w, "idle") /\ proc[w].id = c /\ MayEdit(proc[w].user, channel[c])
    BY <2>1, ChannelChanges
  <2> QED BY <2>2 DEF MayEdit
<1> QED BY <1>1, SeqInvHolds, PTL DEF Spec, AuthorsOnly

-----------------------------------------------------------------------------
(* Locations and their channels.                                            *)

(* A location row keeps its channel, or belongs to the channel being saved, *)
(* which exists.                                                            *)
LEMMA LocationComesFrom ==
  ASSUME SeqInv, NEW w \in Workers, Arrive(w) \/ Step(w) \/ Fail(w),
         NEW l \in LocationIds, location'[l] # None
  PROVE  \/ location[l] # None /\ location'[l].chn = location[l].chn
         \/ location'[l].chn \in ChannelIds /\ channel'[location'[l].chn] # None
<1> DEFINE c == proc[w]
<1>1. TypeInv /\ location \in [LocationIds -> LocationRows \cup {None}]
  BY DEF SeqInv, TypeInv, TypeOK
<1>2. c.pc \in LocPCs => c.id \in ChannelIds /\ channel[c.id] # None
  BY InLocation DEF SavedAt
<1>3. CASE InsertLocation(w)
  <2>1. CASE UNCHANGED location
    BY <2>1
  <2>2. ASSUME NEW k \in LocationIds, At(w, "locInsert"), UNCHANGED channel,
               location' = [location EXCEPT ![k] = [chn |-> c.id, pos |-> Place(w), vals |-> None]]
        PROVE  \/ location[l] # None /\ location'[l].chn = location[l].chn
               \/ location'[l].chn \in ChannelIds /\ channel'[location'[l].chn] # None
    <3>1. location'[l] = location[l] \/ location'[l].chn = c.id
      BY <1>1, <2>2
    <3> QED BY <1>2, <2>2, <3>1 DEF At, LocPCs
  <2> QED BY <1>3, <2>1, <2>2 DEF InsertLocation
<1>4. CASE UpdateLocation(w) \/ UpdateLocationVals(w)
  <2>1. /\ c.pc \in LocPCs /\ UNCHANGED channel
        /\ \/ location' = [k \in LocationIds |-> IF k \in LocationsById(c.loc)
                             THEN [location[k] EXCEPT !.chn = c.id] ELSE location[k]]
           \/ location' = [k \in LocationIds |-> IF k \in LocationsById(c.loc)
                             THEN [location[k] EXCEPT !.pos = Place(w)] ELSE location[k]]
           \/ location' = [k \in LocationIds |-> IF k \in LocationsById(c.loc)
                             THEN [location[k] EXCEPT !.vals = Place(w)] ELSE location[k]]
    BY <1>4 DEF UpdateLocation, UpdateLocationVals, UpdateLocations, Moved, At, LocPCs
  <2>2. \/ location'[l] = location[l] \/ location'[l] = [location[l] EXCEPT !.chn = c.id]
        \/ location'[l] = [location[l] EXCEPT !.pos = Place(w)]
        \/ location'[l] = [location[l] EXCEPT !.vals = Place(w)]
    BY <2>1
  <2>3. location[l] # None
    BY <2>1 DEF LocationsById
  <2>4. location'[l].chn \in {location[l].chn, c.id}
    BY <1>1, <2>2, <2>3, PositionWritten
  <2> QED BY <1>2, <2>1, <2>3, <2>4
<1>5. CASE DropLocation(w)
  <2>1. location' = [location EXCEPT ![Head(c.doomed)] = None]
    BY <1>5 DEF DropLocation
  <2>2. location'[l] \in {location[l], None}
    BY <1>1, <2>1
  <2> QED BY <2>2
<1>6. CASE DeleteLocations(w)
  BY <1>6 DEF DeleteLocations, UpdateLocations
<1>7. CASE UNCHANGED location
  BY <1>7
<1> QED
  BY <1>3, <1>4, <1>5, <1>6, <1>7
     DEF Step, Arrive, Fail, CheckChannel, Check, UpdateName, UpdateTexts, CheckTitle, InsertChannel,
         GetChannelId, UpdateVals, CheckLocation, ShowSaved, CheckDelete, DeleteChannel, DeleteByAuthor

(* The one step from "delLocations", if the process does not stop there.    *)
LEMMA OrphansGo ==
  ASSUME TypeInv, NEW w \in Workers, Arrive(w) \/ Step(w) \/ Fail(w), At(w, "delLocations"),
         "delLocations" \notin Failures
  PROVE  UNCHANGED channel /\ \A l \in LocationIds : location'[l] # None =>
           location'[l] = location[l] /\ location[l].chn # proc[w].id
<1>1. DeleteLocations(w)
  BY DEF Arrive, Step, Fail, At, CheckChannel, DropLocation, UpdateName, UpdateTexts, CheckTitle,
         InsertChannel, GetChannelId, UpdateVals, InsertLocation, CheckLocation, UpdateLocation,
         UpdateLocationVals, ShowSaved, CheckDelete, DeleteChannel, DeleteByAuthor
<1> QED BY <1>1 DEF DeleteLocations, UpdateLocations, LocationsOf

(* One process at a time leaves no location without a channel unless it     *)
(* stops between the two DELETEs of DeleteChannel: a location is saved      *)
(* under an id that was found, and the channel is not deleted in between.   *)
THEOREM NoneOrphaned ==
  ASSUME OneProcess, NamesAreNoIds, "delLocations" \notin Failures
  PROVE  Spec => []NoOrphans
<1>1. SeqInv /\ NoOrphans /\ [Next]_vars => NoOrphans'
  <2> SUFFICES ASSUME SeqInv, NoOrphans, [Next]_vars PROVE NoOrphans'
    OBVIOUS
  <2>1. CASE UNCHANGED vars
    BY <2>1 DEF vars, NoOrphans, At
  <2>2. ASSUME NEW w \in Workers, Arrive(w) \/ Step(w) \/ Fail(w),
               NEW l \in LocationIds, location'[l] # None
        PROVE  \/ channel'[location'[l].chn] # None
               \/ \E v \in Workers : At(v, "delLocations")' /\ proc'[v].id = location'[l].chn
    <3>1. CASE At(w, "delLocations")
      <4>1. UNCHANGED channel /\ location'[l] = location[l] /\ location[l].chn # proc[w].id
        BY <2>2, <3>1, OrphansGo DEF SeqInv
      <4>2. \A v \in Workers : proc[v].id # location[l].chn
        BY <4>1 DEF OneProcess
      <4> QED BY <2>2, <4>1, <4>2 DEF NoOrphans
    <3>2. ASSUME ~At(w, "delLocations"), location[l] # None, location'[l].chn = location[l].chn
          PROVE  \/ channel'[location'[l].chn] # None
                 \/ \E v \in Workers : At(v, "delLocations")' /\ proc'[v].id = location'[l].chn
      <4>1. location[l].chn \in ChannelIds
        BY <3>2 DEF SeqInv, TypeInv, TypeOK, LocationRows
      <4>2. \A v \in Workers : ~At(v, "delLocations")
        BY <3>2 DEF OneProcess
      <4>3. channel[location[l].chn] # None
        BY <3>2, <4>2 DEF NoOrphans
      <4>4. CASE channel'[location[l].chn] = channel[location[l].chn]
        BY <3>2, <4>3, <4>4
      <4>5. CASE channel'[location[l].chn] # channel[location[l].chn]
        BY <2>2, <3>2, <4>1, <4>3, <4>5, ChannelChanges DEF At
      <4> QED BY <4>4, <4>5
    <3> QED BY <2>2, <3>1, <3>2, LocationComesFrom
  <2> QED BY <2>1, <2>2 DEF Next, NoOrphans
<1>2. Init => NoOrphans
  BY DEF Init, NoOrphans
<1> QED BY <1>1, <1>2, SeqInvHolds, PTL DEF Spec

-----------------------------------------------------------------------------
(* Whole rows.                                                              *)

Whole(row) == row.des = row.dev /\ row.dev = row.vals

LEMMA UntornWhole ==
  ASSUME OneProcess, ChannelsWhole, NEW w \in Workers, proc[w].pc \notin {"updDev", "vals", "getId"}
  PROVE  \A i \in ChannelIds : channel[i] # None => Whole(channel[i])
BY DEF OneProcess, ChannelsWhole, TornAt, Whole

LEMMA TextsWhole ==
  ASSUME OneProcess, SeqInv, ChannelsWhole, NEW w \in Workers,
         UpdateName(w) \/ UpdateTexts(w) \/ UpdateVals(w)
  PROVE  ChannelsWhole'
<1> DEFINE c == proc[w]
           i == c.id
           t == c.req.text
           n == c.req.title
<1>1. /\ TypeInv /\ c \in Contexts /\ ContextOK(c) /\ ChannelAt(c, channel)
  BY DEF SeqInv, TypeInv
<1>2. c.pc \in RowPCs /\ i \in ChannelIds /\ channel[i] # None /\ i \in ChannelsById(i)
      /\ \A j \in ChannelsById(i) : j = i
  <2>1. c.pc \in RowPCs
    BY DEF UpdateName, UpdateTexts, UpdateVals, At, RowPCs
  <2> QED BY <1>1, <2>1 DEF ContextOK, ChannelAt, ChannelsById
<1>3. \A j \in ChannelIds : j # i => channel'[j] = channel[j]
  BY <1>2 DEF UpdateName, UpdateTexts, UpdateVals, UpdateChannels, SetKey
<1>4. \A j \in ChannelIds : j # i /\ channel[j] # None => Whole(channel[j])
  <2>1. c.pc # "getId" /\ \A v \in Workers : proc[v].pc # "getId" /\ proc[v].id = i
    BY <1>2 DEF OneProcess, RowPCs
  <2> QED BY <2>1 DEF ChannelsWhole, TornAt, Whole
<1>5. ASSUME \/ channel'[i] # None => Whole(channel'[i])
             \/ proc'[w].pc \in {"updDev", "vals"} /\ proc'[w].id = i
      PROVE  ChannelsWhole'
  BY <1>3, <1>4, <1>5 DEF ChannelsWhole, TornAt, Whole
<1>6. CASE UpdateName(w)
  <2>1. /\ c.pc = "updName"
        /\ \/ UNCHANGED channel
           \/ channel' = [j \in ChannelIds |-> IF j \in ChannelsById(i) THEN [channel[j] EXCEPT !.name = n]
                                                                       ELSE channel[j]]
    BY <1>6 DEF UpdateName, UpdateChannels, At
  <2>2. channel'[i] = channel[i] \/ channel'[i] = [channel[i] EXCEPT !.name = n]
    BY <1>2, <2>1
  <2>3. Whole(channel[i])
    BY <1>2, <2>1, UntornWhole
  <2>4. LET q == [channel[i] EXCEPT !.name = n]
        IN  q.des = channel[i].des /\ q.dev = channel[i].dev /\ q.vals = channel[i].vals
    BY <1>1, <1>2, ColumnWritten
  <2>5. Whole(channel'[i])
    BY <2>2, <2>3, <2>4 DEF Whole
  <2> QED BY <1>5, <2>5
<1>7. CASE UpdateTexts(w)
  <2>1. Goto(w, "updDev") \/ Goto(w, "vals")
    BY <1>7 DEF UpdateTexts
  <2>2. {"updDev", "vals"} \subseteq PCs \ {"idle"}
    BY DEF PCs, SavePCs, RowPCs
  <2>3. proc'[w].pc \in {"updDev", "vals"} /\ proc'[w].id = i
    BY <1>1, <2>1, <2>2, GoesTo
  <2> QED BY <1>5, <2>3
<1>8. CASE UpdateVals(w)
  <2>1. /\ c.pc = "vals"
        /\ channel' = [j \in ChannelIds |-> IF j \in ChannelsById(i) THEN [channel[j] EXCEPT !.vals = t]
                                                                    ELSE channel[j]]
    BY <1>8 DEF UpdateVals, UpdateChannels, At
  <2>2. channel[i].des = t /\ channel[i].dev = t
    BY <1>1, <2>1 DEF ChannelAt
  <2>3. channel'[i] = [channel[i] EXCEPT !.vals = t]
    BY <1>2, <2>1
  <2>4. Whole(channel'[i])
    BY <1>1, <1>2, <2>2, <2>3, ColumnWritten DEF Whole
  <2> QED BY <1>5, <2>4
<1> QED BY <1>6, <1>7, <1>8

LEMMA NewWhole ==
  ASSUME OneProcess, SeqInv, ChannelsWhole, NEW w \in Workers, InsertChannel(w) \/ GetChannelId(w)
  PROVE  ChannelsWhole'
<1> DEFINE c == proc[w]
           n == c.req.title
<1>1. TypeInv /\ c \in Contexts /\ channel \in [ChannelIds -> ChannelRows \cup {None}]
  BY DEF SeqInv, TypeInv, TypeOK
<1>2. CASE InsertChannel(w)
  <2>1. \A j \in ChannelIds : channel[j] # None => Whole(channel[j])
    BY <1>2, UntornWhole DEF InsertChannel, At
  <2>2. CASE UNCHANGED channel
    BY <2>1, <2>2 DEF ChannelsWhole, Whole
  <2>3. ASSUME NEW i \in ChannelIds, Goto(w, "getId"),
               channel' = [channel EXCEPT ![i] = NewChannel(c.user, c.req)]
        PROVE  ChannelsWhole'
    <3>1. "getId" \in PCs \ {"idle"}
      BY DEF PCs, SavePCs, NewPCs
    <3>2. proc'[w].pc = "getId" /\ proc'[w].req = c.req
      BY <1>1, <2>3, <3>1, GoesTo
    <3>3. channel'[i].name = n /\ \A j \in ChannelIds : j # i => channel'[j] = channel[j]
      BY <1>1, <2>3 DEF NewChannel
    <3>4. ASSUME NEW j \in ChannelIds, channel'[j] # None
          PROVE  Whole(channel'[j]) \/ TornAt(proc'[w], j, channel'[j])
      BY <2>1, <3>2, <3>3, <3>4 DEF TornAt
    <3> QED BY <3>4 DEF ChannelsWhole, Whole
  <2> QED BY <1>2, <2>2, <2>3 DEF InsertChannel
<1>3. CASE GetChannelId(w)
  <2>1. c.pc = "getId" /\ UNCHANGED channel
    BY <1>3 DEF GetChannelId, At
  <2>2. \A j \in ChannelIds : channel[j] # None => Whole(channel[j]) \/ channel[j].name = n
    BY <2>1 DEF ChannelsWhole, TornAt, OneProcess, Whole
  <2>3. CASE ChannelsByName(n) = {}
    BY <2>1, <2>2, <2>3 DEF ChannelsWhole, ChannelsByName, Whole
  <2>4. ASSUME NEW i \in ChannelsByName(n), Become(w, [c EXCEPT !.id = i, !.pc = "vals"])
        PROVE  ChannelsWhole'
    <3> DEFINE d == [c EXCEPT !.id = i, !.pc = "vals"]
    <3>1. d.pc = "vals" /\ d.id = i
      BY <1>1 DEF Contexts
    <3>2. proc' = [proc EXCEPT ![w] = d]
      BY <2>4, <3>1 DEF Become
    <3> HIDE DEF d
    <3>3. proc'[w].pc = "vals" /\ proc'[w].id = i
      BY <1>1, <3>1, <3>2 DEF TypeInv
    <3>4. i \in ChannelIds /\ channel[i] # None /\ channel[i].name = n
      BY <2>4 DEF ChannelsByName
    <3>5. \A j \in ChannelIds : channel[j] # None => Whole(channel[j]) \/ j = i
      BY <2>2, <3>4 DEF SeqInv, NamesInv, ChannelNamesUnique
    <3>6. ASSUME NEW j \in ChannelIds, channel'[j] # None
          PROVE  Whole(channel'[j]) \/ TornAt(proc'[w], j, channel'[j])
      BY <2>1, <3>3, <3>5, <3>6 DEF TornAt
    <3> QED BY <3>6 DEF ChannelsWhole, Whole
  <2> QED BY <1>3, <2>3, <2>4 DEF GetChannelId
<1> QED BY <1>2, <1>3

LEMMA ChannelsStayWhole ==
  ASSUME OneProcess, SeqInv, ChannelsWhole, Failures \cap {"updDev", "vals", "getId"} = {},
         NEW w \in Workers, Arrive(w) \/ Step(w) \/ Fail(w)
  PROVE  ChannelsWhole'
<1>1. ASSUME proc[w].pc \notin {"updDev", "vals", "getId"},
             \A i \in ChannelIds : channel'[i] # None => channel'[i] = channel[i]
      PROVE  ChannelsWhole'
  BY <1>1, UntornWhole DEF ChannelsWhole, Whole
<1>2. CASE DeleteChannel(w) \/ DeleteByAuthor(w)
  BY <1>1, <1>2 DEF DeleteChannel, DeleteByAuthor, UpdateChannels, At
<1>3. CASE Fail(w)
  BY <1>1, <1>3 DEF Fail
<1>4. CASE Arrive(w)
  BY <1>1, <1>4 DEF Arrive, At
<1> QED
  BY <1>1, <1>2, <1>3, <1>4, TextsWhole, NewWhole
     DEF Step, CheckChannel, Check, DropLocation, CheckTitle, InsertLocation, CheckLocation,
         UpdateLocation, UpdateLocationVals, ShowSaved, CheckDelete, DeleteLocations, At

LEMMA LocationsStayWhole ==
  ASSUME OneProcess, SeqInv, LocationsWhole, "locVals" \notin Failures,
         NEW w \in Workers, Arrive(w) \/ Step(w) \/ Fail(w)
  PROVE  LocationsWhole'
<1> DEFINE c == proc[w]
           k == c.loc
           Ok(l) == location[l].pos = location[l].vals
<1>1. /\ TypeInv /\ c \in Contexts /\ ContextOK(c) /\ LocationAt(c, location)
      /\ location \in [LocationIds -> LocationRows \cup {None}]
  BY DEF SeqInv, TypeInv, TypeOK
<1>2. c.pc # "locVals" => \A l \in LocationIds : location[l] # None => Ok(l)
  BY DEF OneProcess, LocationsWhole, At
<1>3. ASSUME c.pc # "locVals", \A l \in LocationIds : location'[l] # None => location'[l] = location[l]
      PROVE  LocationsWhole'
  BY <1>2, <1>3 DEF LocationsWhole
<1>4. ASSUME NEW i \in LocationIds, \A l \in LocationIds : l # i => location'[l] = location[l],
             \A l \in LocationIds : l # i /\ location[l] # None => Ok(l),
             \/ location'[i].pos = location'[i].vals
             \/ proc'[w].pc = "locVals" /\ proc'[w].loc = i
      PROVE  LocationsWhole'
  BY <1>4 DEF LocationsWhole, At
<1>5. CASE InsertLocation(w)
  <2>1. CASE UNCHANGED location
    BY <1>3, <1>5, <2>1 DEF InsertLocation, At
  <2>2. ASSUME NEW i \in LocationIds, At(w, "locInsert"), Become(w, [c EXCEPT !.loc = i, !.pc = "locVals"]),
               location' = [location EXCEPT ![i] = [chn |-> c.id, pos |-> Place(w), vals |-> None]]
        PROVE  LocationsWhole'
    <3> DEFINE d == [c EXCEPT !.loc = i, !.pc = "locVals"]
    <3>1. d.pc = "locVals" /\ d.loc = i
      BY <1>1 DEF Contexts
    <3>2. proc' = [proc EXCEPT ![w] = d]
      BY <2>2, <3>1 DEF Become
    <3> HIDE DEF d
    <3>3. proc'[w].pc = "locVals" /\ proc'[w].loc = i
      BY <1>1, <3>1, <3>2 DEF TypeInv
    <3>4. \A l \in LocationIds : l # i => location'[l] = location[l]
      BY <1>1, <2>2
    <3>5. c.pc # "locVals"
      BY <2>2 DEF At
    <3> QED BY <1>2, <1>4, <3>3, <3>4, <3>5
  <2> QED BY <1>5, <2>1, <2>2 DEF InsertLocation
<1>6. CASE UpdateLocation(w) \/ UpdateLocationVals(w)
  <2>1. c.pc \in {"locChannel", "locPosition", "locVals"}
    BY <1>6 DEF UpdateLocation, UpdateLocationVals, At
  <2>2. k \in LocationIds /\ location[k] # None /\ k \in LocationsById(k) /\ \A l \in LocationsById(k) : l = k
    BY <1>1, <2>1 DEF ContextOK, LocationAt, LocationsById
  <2>3. \A l \in LocationIds : l # k => location'[l] = location[l]
    BY <1>6, <2>2 DEF UpdateLocation, UpdateLocationVals, UpdateLocations, Moved
  <2>4. \A l \in LocationIds : l # k /\ location[l] # None => Ok(l)
    BY DEF OneProcess, LocationsWhole
  <2>5. CASE At(w, "locChannel")
    <3>1. location' = [l \in LocationIds |-> IF l \in LocationsById(k) THEN [location[l] EXCEPT !.chn = c.id]
                                                                       ELSE location[l]]
      BY <1>6, <2>5 DEF UpdateLocation, UpdateLocationVals, UpdateLocations, Moved, At
    <3>2. location'[k] = [location[k] EXCEPT !.chn = c.id]
      BY <2>2, <3>1
    <3>3. location'[k].pos = location[k].pos /\ location'[k].vals = location[k].vals
      BY <1>1, <2>2, <3>2, PositionWritten
    <3>4. location[k].pos = location[k].vals
      BY <1>2, <2>2, <2>5 DEF At
    <3> QED BY <1>4, <2>2, <2>3, <2>4, <3>3, <3>4
  <2>6. CASE At(w, "locPosition")
    <3>1. Goto(w, "locVals")
      BY <1>6, <2>6 DEF UpdateLocation, UpdateLocationVals, At
    <3>2. "locVals" \in PCs \ {"idle"}
      BY DEF PCs, SavePCs, LocPCs
    <3>3. proc'[w].pc = "locVals" /\ proc'[w].loc = k
      BY <1>1, <3>1, <3>2, GoesTo
    <3> QED BY <1>4, <2>2, <2>3, <2>4, <3>3
  <2>7. CASE At(w, "locVals")
    <3>1. location' = [l \in LocationIds |-> IF l \in LocationsById(k) THEN [location[l] EXCEPT !.vals = Place(w)]
                                                                       ELSE location[l]]
      BY <1>6, <2>7 DEF UpdateLocation, UpdateLocationVals, UpdateLocations, At
    <3>2. location'[k] = [location[k] EXCEPT !.vals = Place(w)]
      BY <2>2, <3>1
    <3>3. location[k].pos = Place(w)
      BY <1>1, <2>7 DEF LocationAt, At, Place
    <3>4. location'[k].pos = location'[k].vals
      BY <1>1, <2>2, <3>2, <3>3, PositionWritten
    <3> QED BY <1>4, <2>2, <2>3, <2>4, <3>4
  <2> QED BY <2>1, <2>5, <2>6, <2>7 DEF At
<1>7. CASE DropLocation(w)
  <2>1. c.pc # "locVals" /\ location' = [location EXCEPT ![Head(c.doomed)] = None]
    BY <1>7 DEF DropLocation, At
  <2>2. \A l \in LocationIds : location'[l] # None => location'[l] = location[l]
    BY <1>1, <2>1
  <2> QED BY <1>3, <2>1, <2>2
<1>8. CASE DeleteLocations(w)
  BY <1>3, <1>8 DEF DeleteLocations, UpdateLocations, At
<1>9. CASE UNCHANGED location /\ c.pc # "locVals"
  BY <1>3, <1>9
<1> QED
  BY <1>5, <1>6, <1>7, <1>8, <1>9
     DEF Step, Arrive, Fail, CheckChannel, Check, UpdateName, UpdateTexts, CheckTitle, InsertChannel,
         GetChannelId, UpdateVals, CheckLocation, ShowSaved, CheckDelete, DeleteChannel, DeleteByAuthor, At

(* One process at a time leaves no row with columns of two edits unless it  *)
(* stops between the UPDATEs of that row: the next UPDATE of the same row   *)
(* always follows, and an edit that is refused halfway (a name that is      *)
(* taken, a bad location) has not begun a row it does not finish.           *)
THEOREM RowsStayWhole ==
  ASSUME OneProcess, Failures \cap {"updDev", "vals", "getId", "locVals"} = {}
  PROVE  Spec => []RowsWhole
<1> DEFINE Inv == SeqInv /\ ChannelsWhole /\ LocationsWhole
<1>1. Init => Inv
  BY InitSeq DEF Init, ChannelsWhole, LocationsWhole
<1>2. Inv /\ [Next]_vars => Inv'
  <2> SUFFICES ASSUME Inv, [Next]_vars PROVE Inv'
    OBVIOUS
  <2>1. CASE UNCHANGED vars
    BY <2>1, NextSeq DEF vars, ChannelsWhole, LocationsWhole, At
  <2>2. ASSUME NEW w \in Workers, Arrive(w) \/ Step(w) \/ Fail(w)
        PROVE  ChannelsWhole' /\ LocationsWhole'
    BY <2>2, ChannelsStayWhole, LocationsStayWhole
  <2> QED BY <2>1, <2>2, NextSeq DEF Next
<1>3. Inv => RowsWhole
  BY DEF ChannelsWhole, LocationsWhole, RowsWhole, TornAt, At
<1> QED BY <1>1, <1>2, <1>3, PTL DEF Spec
=============================================================================
