-------------------------- MODULE DirectoryService --------------------------
(***************************************************************************)
(* The Arvos directory service: main() of avDirectoryService.c with the    *)
(* accounts and the channels over one database.  A process first runs its  *)
(* login check and dispatch (Accounts, whose proc says where it is); a     *)
(* request for EditChannel or DeleteChannel that gets past them then runs  *)
(* the statements of Channels, under the name its session row held when    *)
(* the cookie was read.  Accounts and channels know each other by nothing  *)
(* but that name: no statement reads both tables.                          *)
(***************************************************************************)
EXTENDS Accounts

CONSTANTS
  Titles, Texts, Places, MaxChannelId, MaxLocationId, MaxItems  \* see Channels

VARIABLES channel, location, shown,  \* see Channels
          cproc  \* the statements on channels each worker runs

channels == <<channel, location, cproc, shown>>
service == <<vars, channels>>

C == INSTANCE Channels WITH proc <- cproc, Failures <- {}

ASSUME ServiceBounds == MaxChannelId \in Nat /\ MaxLocationId \in Nat /\ MaxItems \in Nat
ASSUME ServiceNone ==
  None \notin Titles \cup Texts \cup Places \cup C!ChannelRows \cup C!LocationRows \cup C!ChannelRecords

(* Whether worker w runs statements on channels.                           *)
Serving(w) == ~C!At(w, "idle")

ServiceInit == Init /\ C!Init

-----------------------------------------------------------------------------
(* The statements of a request on accounts.                                *)
AccountStatement(w) ==
  /\ ~At(w, "channel") /\ ~At(w, "delChannels")
  /\ Step(w)
  /\ UNCHANGED channels

(* The process exits when its action on channels has printed a page.       *)
Finish(w) == IF Serving(w)' THEN UNCHANGED vars ELSE ServeChannel(w)

BugUserOf(w, u) == TRUE
UserOf(w, u) == u = proc[w].who.name

(* main() has got to the actions on channels: the form is looked at, for   *)
(* the user of the request.                                                *)
EnterChannel(w) ==
  /\ At(w, "channel") /\ ~Serving(w)
  /\ C!Arrive(w)
  /\ Serving(w)' => UserOf(w, cproc'[w].user) /\ cproc'[w].req.act # "DeleteAuthor"
  /\ Finish(w)

ChannelStatement(w) == C!Step(w) /\ Finish(w)

(* avDbAuthorDelete looks for channels of an author whose row is gone, by   *)
(* the row's id.                                                            *)
DeleteChannelsOfAuthor(w) ==
  /\ DeleteAuthorChannels(w)
  /\ channel' = [c \in C!ChannelIds |->
                   IF channel[c] # None /\ channel[c].aut = C!AuthorKey(proc[w].req.id)
                   THEN None ELSE channel[c]]
  /\ UNCHANGED <<location, cproc, shown>>

Serve(w) ==
  \/ AccountStatement(w) \/ EnterChannel(w) \/ ChannelStatement(w) \/ DeleteChannelsOfAuthor(w)

(* A new process, and an hour without a request.                            *)
Begin(w) == Arrive(w) /\ UNCHANGED channels
Wait(s) == Age(s) /\ UNCHANGED channels

(* A process that ends early leaves both halves as its statements left them. *)
Abort(w) ==
  /\ Fail(w)
  /\ cproc' = [cproc EXCEPT ![w] = C!Idle]
  /\ UNCHANGED <<channel, location, shown>>

ServiceNext ==
  \/ \E w \in Workers : Begin(w) \/ Serve(w) \/ Abort(w)
  \/ \E s \in SessionIds : Wait(s)

ServiceSpec == ServiceInit /\ [][ServiceNext]_service

-----------------------------------------------------------------------------
(* Properties.  Operators whose names begin with Bug are faulty versions of *)
(* the definition behind them; no action uses them.                         *)

(* Names that an accepted activation code, or the config file, made authors. *)
Activated == {p[1] : p \in activated} \cup Admins

(* Channels come from activated authors: every row, and every request at     *)
(* work on channels, names somebody whom Activate accepted a code for or an  *)
(* administrator.  The right was decided from a session row that may be      *)
(* older than the account and is trusted without a look at the author.       *)
ChannelsOfActivated ==
  /\ \A c \in C!ChannelIds : channel[c] # None => channel[c].aut \in Activated
  /\ \A w \in Workers : Serving(w) => cproc[w].user \in Activated

Publishing == INSTANCE ChannelRegistry
              WITH Ids <- C!ChannelIds, Founders <- Admins, registry <- C!Registered(channel),
                   authors <- Activated

(* Accounts and channels together implement ChannelRegistry: who publishes a *)
(* channel has been activated before, the author of a channel never changes, *)
(* and the deletion of an account takes at most an author's channels along.  *)
ImplementsPublishing == Publishing!Spec

(* "You cannot update channel with id %s, because you are not its author."  *)
(* (avChannel.c:112), from the cookie to the row: a channel changes only     *)
(* while a process works for the author it names or for an administrator.    *)
LoginOwnsChannel ==
  [][\A c \in C!ChannelIds : channel[c] # None /\ channel'[c] # channel[c]
       => \E w \in Workers : /\ At(w, "channel") /\ IsLoggedIn(proc[w].who)
                            /\ \/ IsAdministrator(proc[w].who)
                               \/ proc[w].who.name = channel[c].aut]_service
=============================================================================
