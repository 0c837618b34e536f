# Verification of the Arvos directory service

The Arvos directory service (`src/src/*.c`) is a CGI program with which authors
register, are activated by an administrator, and publish *channels*: named
collections of locations that augmented-reality clients look up by position.
This directory holds TLA+ models of the program, the TLC configurations that
check them on small instances, and theorems about them with TLAPS proofs.

- [The system](#the-system): its parts, their state and operations
- [What is hard in it](#what-is-hard-in-it)
- [The modules](#the-modules): how state and actions correspond to the code
- [The runs](#the-runs): what each checks, with which bounds
- [What the runs found](#what-the-runs-found)
- [The proofs](#the-proofs)
- [What is not modelled](#what-is-not-modelled)
- [Plan](#plan)

## The system

Every HTTP request is a process of its own (`main`, avDirectoryService.c): it
opens the SQLite file, creates missing tables, checks the cookie, runs one
action (parameter `ACT`) and prints a page. Processes share nothing but the
file. `avSqlExec` (avCgi.c 92-115) runs one SQL statement as a transaction of
its own; there is no `BEGIN`, so the statements of two requests interleave
freely. No busy timeout is set: a locked database, a violated `UNIQUE` or any
other SQL error ends the process through `pblCgiExitOnError`, with everything
its earlier statements wrote committed.

| Component | State | Operations | Correct when |
|---|---|---|---|
| Accounts (avBase.c, avDbAuthor.c) | table `author`: id, unique `NAM`, `EML`, `TAC` (time of activation), `VALS` (password hash, activation code, counters) | Register, Activate, ConfirmAuthor, ChangePassword, DeleteAuthor, login by password | names are unique; nobody is active without an administrator's code; a password and a code stay until the request meant to change them; accounts are deleted by their owner or an administrator |
| Sessions (avDbSession.c, avBase.c) | table `session`: id, unique `COK`, author id `AUT`, time of last access `TLA`, `VALS` (name, e-mail, activation time, filters) | cookie check, insertion with a sweep of expired sessions, Logout, DeleteSession, filters | a cookie leads to the sessions of one author only; only expired sessions are swept; a session keeps the identity of its login; every request ends |
| Channels (avChannel.c, avDbChannel.c) | table `channel`: id, unique `CHN`, author *name* `AUT`, `DES`, `DEV`, `VALS` | EditChannel, DeleteChannel, deletion by author | names unique; what is reported saved is saved; a row comes from one edit; only author and administrators change it; channels go with their author |
| Locations (avLocation.c, avDbLocation.c) | table `location`: id, channel id `CHN`, encoded position `POS`, `VALS` | saved, moved and deleted by EditChannel and DeleteChannel | no location outlives its channel; only the channel's author changes it; position and values agree |
| Search and lists (avDbChannel.c, avLocation.c) | none of its own; a query has a limit, an offset and a heap | list by position, radius and filters, the n nearest; list by name or author | what is listed is visible, matches and has the point in reach; what is left out is further away; a page is a page of the visible channels |
| Data codec (avCgi.c 780-1050) | column `VALS` as a text | avUpdateData, avMapToDataStr, avDataStrToMap | values come back as given and do not disturb each other; the counter counts |
| Database initialisation (avCgi.c 193-286) | tables and an index | SELECT from sqlite_master, CREATE | requests find every table; the index is there; somebody is served |
| The service as a whole (avDirectoryService.c) | all of the above | login check, dispatch, rights, exit | channels come from activated authors and change only for the user who logged in |
| Template engine, SHA-256, random bytes (avCgi.c) | none shared | avPrint and helpers, avSha256, avRandom* | pure functions |
| FillDatabase (avDirectoryService.c) | the tables above | an administrator fills them with test data | - |
| CreateAuthor.c, Augments.c | a password file; none | tools beside the service | - |
| SQLite (sqlite3.c), pages (templates/) | the file; none | vendored; forms and replies | - |

Interactions. A session row caches the author's name and activation time until
the next login; `avCheckCookie` fills the user of the request from it and never
looks at the author row. A channel names its author by *name*, the deletion of
an author passes the author's *id* on to channels and sessions. All ids are
`INTEGER PRIMARY KEY` without `AUTOINCREMENT`: a new row gets the largest id in
use plus one, so the id of the last row is used again once it is deleted, and
whatever still holds it (a session, a form in a browser, another process)
means another row from then on.

## What is hard in it

`PROJECT.json` lists the hazards line by line. They fall into seven groups:

1. **Read-modify-write of `VALS`** (avDbAuthor.c 176, avDbSession.c 245): two
   statements, the second writes the whole column. Login, activation,
   confirmation and a new password of one author overwrite one another.
2. **Check, then act** in different transactions: the code is compared and TAC
   set by name; the channel's author is compared and the row written by id; a
   name or a cookie is looked up and then inserted.
3. **Ids that are used again** by sessions, forms and running requests.
4. **Stops half way**: after any statement, with what was written committed;
   and pages that report an invalid value after part of an edit was saved.
5. **Progress**: the sweep of expired sessions and the loop that draws a cookie
   run on tables that others change; processes that create the same tables.
6. **Numbers as texts**: latitudes are ordered as texts and rounded to six
   decimals, longitudes wrap, a row callback ends the query, a list becomes a
   heap at its limit, a counter gets a second digit.
7. **Separators in values**: tabs and equal signs in what a user types.

## The modules

| Module | What it is |
|---|---|
| `Accounts` | accounts and sessions, one statement a step |
| `AuthorLifecycle` | the abstract specification `Accounts` implements |
| `ChannelRegistry` | the abstract specification `Channels` and the whole service implement |
| `Channels` | channels and locations, one statement a step |
| `DirectoryService` | `Accounts` and `Channels` over one database: the whole of `main` |
| `ChannelSearch` | a query by place or by name, one row a step |
| `DbInit` | the creation of tables and index, one statement a step |
| `DataCodec` | column `VALS` of one row as a text, one update a step |
| `MCAccounts`, `MCChannels`, `MCDirectoryService`, `MCChannelSearch`, `MCDbInit`, `MCDataCodec` | values and symmetry for the runs |
| `AccountsProofs` | type correctness of `Accounts`, and proofs of `RightsEarned`, `ActivationConfirmed`, `CookieBindsAuthor` |
| `AccountsRefinement` | proof that `Accounts` implements `AuthorLifecycle` |
| `AccountsSequential` | proofs of what `Accounts` promises when requests are answered one at a time |
| `ChannelsProofs` | type correctness of `Channels`, unique names and the registry; for one process, what is saved, by whom, and what is left behind |
| `DirectoryServiceProofs` | proofs about the whole service: channels come from activated authors, the life cycle and the registry, and channels change only for the user logged in |
| `ChannelSearchProofs` | type correctness of `ChannelSearch`, searches by place, and lists that count: the first n, and pages |
| `DbInitProofs` | proofs about the initialisation |
| `DataCodecProofs` | texts, numerals and column `VALS` read back |

**Common form.** `Workers` is the set of processes that run at once. `proc[w]`
is the request a worker serves: `pc` names the *next SQL statement*, the other
fields are the C variables that live across statements. A step performs one
statement together with the C code up to the next one, so an early return of a
handler is a step to `"idle"`, and `Become` forgets the request there: the
process has exited. `Arrive` is a new process: cookie or user, and a request in
the form the pages of `templates/` send it. `Fail` ends a process between any
two statements. `IsNextRowid` is SQLite's choice of a row id; an insertion at
the bound of the ids fails like one into a full database.

**Accounts.** `author` and `session` are the tables. A password stands for its
salted hash, a code or cookie for its random bytes. Times have two values:
activated or not (`tac`), expired or not (`old`). E-mail addresses, login
counts and filter values are left out: no guard reads them. They matter only as
the reason that `VALS` is rewritten, and the rewriting is there. `who` is
`avUserIsLoggedIn`, `avUserId`, `avSessionId` and the rest of the request's
globals; `avals` and `svals` are the copies of `VALS` between the SELECT and
the UPDATE of `avDb...UpdateValues`.

| Request | Statements (actions) |
|---|---|
| cookie check | `CheckCookie` (SELECT), `TouchSession` (UPDATE TLA); done again by `actionCheckLogin(1)` if the first found nobody |
| Register | `RegisterCheck`, `RegisterInsert`, then the session |
| new session | `SelectExpired`, `ExpireSession` for each row found, `DrawCookie`, `InsertSession`, `GetSessionId` |
| login | `LoginCheck`, `LoginSelect`, `LoginRead`, `LoginWrite`, then the session, then the action |
| Activate | `ActivateRead`, `ActivateWrite` (before the code is compared), `ActivateColumn`, `ActivateReadAgain`, `ActivateClear`; `main` then goes on to the login check |
| ConfirmAuthor | `ConfirmRead`, `ConfirmWrite` |
| ChangePassword | `ChangeCheck` (own account only), `ChangeRead`, `ChangeWrite` |
| DeleteAuthor | `DeleteAuthor`, `DeleteAuthorChannels`, then `DeleteAuthorSessions` for an administrator and `Logout` for the author |
| ListChannels with filters | `FilterRead`, `FilterWrite` |
| Logout, DeleteSession | one statement each |

Two abstractions deserve a word. *Random values*: `avRandomCode` and the cookie
loop draw 32 random bytes; that two draws coincide is not considered. A
cookie of the finite set is drawn when no row and no running request has it, so
the loop's look-up never meets a duplicate and the loop is one step. A code is
drawn once. *Clients* send no cookie or one that is in the table when it is
sent; an unknown cookie is like none.

Three history variables record what no table does: `issued` (codes generated),
`activated` (the pairs of name and code that were accepted) and `reviewed` (row
ids of accounts an administrator generated a code for).

**AuthorLifecycle** says what the account part promises: an id holds one
account until it is deleted, names are unique, a new account is not active,
and it becomes active only with a code that was generated. The refinement maps
an author row to its name and `tac`, and `issued` to `approvals`.

**Channels.** `channel` and `location` are the tables. The texts of a channel
(description, developer key, urls in `VALS`) are tokens of one set, so that a
row written by two edits shows. `req` is the form: the row id or 0 for a new
channel, the button, the values, and the locations with the row ids the page
showed: `form.drops` are those without a valid radius, which EditChannel deletes
*before* it validates anything else, `form.items` the others, of which an invalid
one ends the request when its turn comes. `Forms` says what a page can send: each
row once, new locations at the end. The context has what is left of the two lists
in `doomed` and `items`. A client sends only location ids that some page has shown
for the channel (`shown`), however long ago.

| Request | Statements (actions) |
|---|---|
| EditChannel, existing | `CheckChannel`, `DropLocation` for each doomed one, `CheckChannel` twice more, `UpdateName`, `UpdateTexts` twice, `UpdateVals`, the locations, `ShowSaved` |
| EditChannel, new | `DropLocation`s, `CheckTitle`, `InsertChannel`, `GetChannelId`, `UpdateVals`, the locations, `ShowSaved` |
| a location | `InsertLocation` or `CheckLocation` and `UpdateLocation` twice; `UpdateLocationVals` |
| DeleteChannel | `CheckDelete`, `DeleteChannel`, `DeleteLocations` |
| DeleteAuthor, on channels | `DeleteByAuthor`, with the id the code passes |

The SELECT before the UPDATE of `VALS` is left out here, because EditChannel and
`avLocationSave` overwrite every key they find.

**ChannelRegistry** says what the service promises about channels and authors, for
any interleaving: an id has one title and one author from its creation until its
deletion, titles are unique, and who creates a channel has been appointed before.
`Rename` changes the title only. The refinement maps a channel row to its name and
author (`Registered`); the other columns are not part of the promise. It is stated
twice. In `Channels` alone everybody may publish (`Registry`). In `DirectoryService`
the founders are the administrators, and an author is appointed by the statement that
accepts the activation code (`Publishing`, authors are `Activated`): there the
promise spans both halves, and nothing in the statement that inserts the channel row
looks at the author row it depends on. Ownership, who may rename or delete, is not
part of it: it needs requests one at a time, and `AuthorsOnly` and
`LoginOwnsChannel` are about it.

**DirectoryService** is `main` with both halves. `proc[w]` is the process as
`Accounts` sees it; at `"channel"` it has passed `avUserIsAuthor` and `cproc[w]`
is its context in `Channels`. The user of the channel statements is the name in
the session row the cookie led to (`UserOf`); `Finish` ends both halves together,
`Abort` ends them at any statement. `DeleteChannelsOfAuthor` is the statement at
which the deletion of an author reaches for the channels. No statement reads both
halves, so this composition is where the cached rights meet the rows.

**ChannelSearch.** One SELECT sees one state of the tables and hands its rows to
a callback one by one, so a behaviour is one query and a step one row: any row
that may come next in the order of the index. `table` are the rows so far, also
those the WHERE leaves out and those behind the row that ended the query
(`PassBy`), so that the properties can say what was missed. Angles are integers,
three of them for a stored millionth of a degree, because filters have more
digits than stored positions; `Pos` is where the text of a latitude stands in
the order of all texts, `Latitude` what is read back from it. `Take` is the
change from a list to a heap and the exchange of its first entry. The text
filters (author, name, description) are one flag `named`; why a user sees a
channel is `sight`.

| Code | Definition |
|---|---|
| avLocationSave, avGetLatitude | `Pos`, `Rounded`, `Latitude` |
| the range and order of the query | `InRange`, `MayFollow` |
| avCallbackChannelFilteredValues | `Visible`, `LatDistance`, `LonDistance`, `Wrapped`, `Reach`, `Ends`, `Takes`, `Take`, `PlaceRow` |
| avCallbackChannelValues | `Skips`, `NameRow` |

**DbInit.** `pc` and `at` are the statement and the table a process is at, `made`
and `index` the schema. The last table and its index are one string of two
statements, hence two transactions. A process that collides or fails exits, and
may come back for another request (`Open`). `sound`, `maker`, `torn` and `failed`
are history: who started on a complete schema, who made what, and whether a
process ended between the last table and its index or any statement failed.

**DataCodec** is the one module in which texts are texts, character by character,
because its properties are about separators. A piece of a text is given by where it
starts (`Starts`, `End`, `Piece`), an item is a piece between tabs, its key and value
are its first two pieces between equal signs, and of two items with one key the first
counts, because the list is emptied from its end. `Insert` and `Update` are the calls
of `avUpdateData` between reading and writing the column; the order in which the
hash table yields its keys is any (`SetToSeqs`). `given` and `logins` remember
what was asked for.

## The runs

| Run | Checks | Instance |
|---|---|---|
| `rights` | `TypeOK`, `RightsEarned`, `ActivationConfirmed`, `CookieBindsAuthor`, `ImplementsLifecycle` | two processes, an administrator and an author, two author ids, one session id that is therefore used again by every login, sessions expire, processes fail |
| `sequential` | `PasswordSticks`, `CodeSticks`, `ActivatesReviewed`, `SessionKeepsIdentity`, `SweepSparesLive` | **one** worker, all actions, two ids, two passwords, ageing, failures |
| `liveness` | `RequestsEnd` | two processes, fairness, expiry; four cookies for one session row, so that the bound never keeps a request from drawing one |
| `channels` | `TypeOK`, `NoOrphans`, `SavedAsReported`, `RowsWhole`, `AuthorsOnly`, `ChannelNamesUnique`, `ImplementsRegistry` | **one** worker; an author and an administrator, two channels, two locations, forms of up to two locations, old forms included; processes stop at the statements named in `Failures` |
| `service` | `RightsEarned`, `ChannelsOfActivated`, `LoginOwnsChannel`, `ImplementsLifecycle`, `ImplementsPublishing` | **one** worker, from registration to the channel: two author ids, two sessions, one channel, failures, ageing, deletion of authors whose channel and sessions stay |
| `search` | `TypeOK`, `ListedMatch`, `NearestListed`, `FirstListed`, `EndLosesLargerOnly`, `RangeLosesNothing`, `PageOfVisible` | every table of up to three rows: four latitudes around the equator, two longitudes across the date line, two radii, visible or not; limits 1 and 2, offsets 0 and 1 |
| `init` | `TypeOK`, `ReadyHasTables`, `MadeInOrder`, `IndexGone`, `LateComersServed`, `SomeServed` | three processes, the four tables, failures, fairness |
| `codec` | `ReadsBack`, `CountsLogins` | two keys and the counter, six values with tabs, equal signs and nothing, up to eleven logins |
| `own_account`, `orphan_channels`, `search_stop`, `lost_url` | one property each, which TLC refutes | see the next section |

What they show:

- *With any interleaving and any stop*: author rights stem from an activation
  with a code an administrator generated, in every row, session, copy and
  request; a cookie leads to one author; accounts go through the abstract life
  cycle and channels through the abstract registry; requests end; requests run on a
  complete schema.
- *Across the two halves*: a channel is written only under the name of somebody
  activated, and changes only while the process that changes it is logged in as
  that author or an administrator, although sessions outlive accounts and
  channels outlive both.
- *Without concurrency*: passwords, codes and sessions change only by the request
  meant to, also when processes fail; accounts are activated only after their own
  review; the sweep spares live sessions; what EditChannel reports saved is saved.
  These need one worker, and the next section shows that they fail with two: the
  run says that the sequential code is right and that the missing transaction is
  the whole difference.
- *Of a search*: nothing is listed that should not be; in what was looked at,
  nothing nearer is passed over; what the query never looks at is either behind a
  row with a smaller radius or at the edge of the range of texts.
- *Of the values of a row*: what a user types never changes another value, and
  of a value only what follows an `=` is lost.

`channels` names in `Failures` the statements at which a process may stop. Left
out are the ones at which a row may be half written: `updDev`, `vals`, `getId`,
`locVals` (columns of two edits in one row) and `delLocations` (locations without a
channel). There the code does leave such rows; everywhere else it does not, and
that is what `RowsWhole` and `NoOrphans` say. `SavedAsReported`, `AuthorsOnly`,
`ChannelNamesUnique` and `ImplementsRegistry` need no such restriction: the theorems
about them allow a stop at every statement.

**Bounds** are named CONSTANTS (`MaxAuthorId`, `MaxSessionId`, `MaxChannelId`,
`MaxLocationId`, `MaxItems`, `MaxRows`, `MaxCount`, `Codes`, `Cookies`). Two
workers are enough where concurrency is the question: each property relates the
statements of one request to what any other statement did in between, and one
other process can do all of it, one request after another. Ids are bounded
because ids are reused: two rows already show each id freed and given to another
owner. `Codes` bounds the confirmations of a behaviour; `CodesLeft` keeps one code
for each administrator under way, so that `ConfirmWrite` is never blocked. Three
rows are what the search needs: one that ends the query or leaves the heap, one
before and one behind it. Its latitudes are such that a tenth of a degree around
one of them ends just below the equator, at the equator and exactly at another
row. Three processes let two collide while a third starts late. Eleven logins
take the counter from one digit to two. Symmetry is used on workers, cookies,
codes, titles, texts and places, which no definition tells apart, and never with
a liveness property.

**Fairness.** `FairSpec` of `Accounts` and `Spec` of `DbInit` have weak fairness on
`Step` of each process: the operating system goes on scheduling a process that can
run. Nothing is assumed of clients (`Arrive`, `Open`), of failures or of time
(`Age`). The sweep ends because its list was read before, and drawing a cookie
because cookies are random.

**Deadlock** is checked in every run but those of `ChannelSearch`, where a query
ends with its last row, and is never found.

## What the runs found

Each of these is refuted by a short behaviour TLC prints, without concurrency.

- `own_account`: authors who delete their own account stay logged in elsewhere,
  because `avSessionDeleteByAuthor` returns unless an administrator asks. When
  the row id belongs to someone else, the old session passes the comparison of
  ids in `avDbAuthorDelete`.
- `orphan_channels`: `avDbChannelDeleteByAuthor` is given an id and compares it
  with a column of names. It deletes nothing, unless somebody is registered under
  that number.
- `search_stop`: the callback ends the query at the first visible row that is too
  far north for *its own* radius. A row behind it with a larger radius that holds
  the point is never looked at. With one radius for all, nothing in the range of
  the query is lost (`OneRadiusFindsAll`).
- `lost_url`: `avDataStrToMap` splits an item at every `=` and keeps two pieces, so
  an url with a query is stored whole and read back up to its first `=`. The next
  save writes the short form back.

The lack of a transaction around the statements of a request breaks more of the
properties as soon as their run is given a second worker:

- `PasswordSticks`: a login reads the author's `VALS`; ChangePassword stores the
  new hash and reports success; the login writes the old `VALS` back.
- `CodeSticks`: the same, with the code ConfirmAuthor has just mailed.
- `ActivatesReviewed`: Activate compares the code; the account is deleted and the
  name registered anew; `UPDATE ... WHERE NAM` activates the new account.
- `SessionKeepsIdentity`: filters are written to the session that has the id now.
- `SweepSparesLive`: a session selected as expired is used before its turn to be
  deleted comes.
- `AuthorsOnly`: EditChannel compares the author; the channel is deleted and its
  id given to another author's; the UPDATEs by id go there. `LoginOwnsChannel` is
  the same from the cookie on.
- `SavedAsReported`: another edit, or a deletion, comes before the page of success.
- `NoOrphans`: a channel and its locations are deleted while an edit of it is about
  to insert a location.
- `RowsWhole`: two edits of one channel leave the description of one and the urls
  of the other.

Location ids come from the form and are compared with nothing, so
`LocationsOfAuthorsOnly` (in `Channels`, in no run) fails even with one worker: an
old form deletes or moves the location of another channel that has the id now.

## The proofs

TLAPS checks the following for *every* number of names, codes, cookies, row ids,
tables, rows and angles. Where no hypothesis is named, the number of processes is
arbitrary too, and so is where they stop.

| Theorem | Statement | Hypotheses |
|---|---|---|
| `TypeCorrect` (AccountsProofs) | `Spec => []TypeOK` | |
| `RightsHold` (AccountsProofs) | `Spec => []RightsEarned` | |
| `ConfirmationHolds` (AccountsProofs) | `Spec => []ActivationConfirmed` | |
| `CookieHolds` (AccountsProofs) | `Spec => []CookieBindsAuthor` | |
| `AccountsImplement` (AccountsRefinement) | `Spec => ImplementsLifecycle` | |
| `PasswordsStick` (AccountsSequential) | `Spec => PasswordSticks` | `OneProcess` |
| `CodesStick` (AccountsSequential) | `Spec => CodeSticks` | `OneProcess` |
| `ActivatesReviewedOnly` (AccountsSequential) | `Spec => ActivatesReviewed` | `OneProcess` |
| `SessionsKeepIdentity` (AccountsSequential) | `Spec => SessionKeepsIdentity` | `OneProcess` |
| `SweepSparesLiveSessions` (AccountsSequential) | `Spec => SweepSparesLive` | `OneProcess` |
| `ChannelNamesHold` (ChannelsProofs) | `Spec => []ChannelNamesUnique` | |
| `TypesHold` (ChannelsProofs) | `Spec => []TypeOK` | |
| `ChannelsImplement` (ChannelsProofs) | `Spec => ImplementsRegistry` | |
| `SavesAsReported` (ChannelsProofs) | `Spec => []SavedAsReported` | `OneProcess` |
| `AuthorsAlone` (ChannelsProofs) | `Spec => AuthorsOnly` | `OneProcess`, `NamesAreNoIds` |
| `NoneOrphaned` (ChannelsProofs) | `Spec => []NoOrphans` | `OneProcess`, `NamesAreNoIds`, no stop at `delLocations` |
| `RowsStayWhole` (ChannelsProofs) | `Spec => []RowsWhole` | `OneProcess`, no stop at `updDev`, `vals`, `getId`, `locVals` |
| `ChannelsComeFromActivated` (DirectoryServiceProofs) | `ServiceSpec => []ChannelsOfActivated` | |
| `ServiceRights` (DirectoryServiceProofs) | `ServiceSpec => []RightsEarned` | |
| `ServiceImplements` (DirectoryServiceProofs) | `ServiceSpec => ImplementsLifecycle` | |
| `ServicePublishes` (DirectoryServiceProofs) | `ServiceSpec => ImplementsPublishing` | |
| `LoginsOwnChannels` (DirectoryServiceProofs) | `ServiceSpec => LoginOwnsChannel` | `OneProcess`, `IdsAreNoNames` |
| `TypesHold` (DbInitProofs) | `Spec => []TypeOK` | |
| `TablesBeforeRequests` (DbInitProofs) | `Spec => []ReadyHasTables` | |
| `EachMadeOnce` (DbInitProofs) | `Spec => []MadeInOrder` | |
| `IndexAccounted` (DbInitProofs) | `Spec => []IndexGone` | |
| `LateComersNeverCollide` (DbInitProofs) | `Spec => []LateComersServed` | |
| `TypesHold` (ChannelSearchProofs) | `Spec => []TypeOK` | |
| `ListsMatchesOnly` (ChannelSearchProofs) | `Spec => []ListedMatch` | |
| `ListsTheNearest` (ChannelSearchProofs) | `Spec => []NearestListed` | |
| `EndLosesLargerRadiiOnly` (ChannelSearchProofs) | `Spec => []EndLosesLargerOnly` | |
| `OneRadiusFindsAll` (ChannelSearchProofs) | `Spec => []FoundInRadius` | `OneRadius` |
| `RangeKeepsReach` (ChannelSearchProofs) | `Spec => []RangeLosesNothing` | |
| `ListsTheFirst` (ChannelSearchProofs) | `Spec => []FirstListed` | |
| `ListsThePage` (ChannelSearchProofs) | `Spec => []PageOfVisible` | |
| `ReadsBackAlways` (DataCodecProofs) | `Spec => []ReadsBack` | |
| `CountsAlways` (DataCodecProofs) | `Spec => []CountsLogins` | |

They rest on the assumptions named in the modules: bounds are naturals
(`BoundAssumption`, `ChannelBounds`, `ServiceBounds`, `LimitAssumption`),
administrators are names (`NameAssumption`, `ChannelAdmins`), actions are among
those of `main` (`ActAssumption`), `None` is no value and no row (`NoneAssumption`,
`RowAssumption`, `ChannelNone`, `ChannelRowNone`, `ServiceNone`, `SearchNone`), tables
are distinct (`TablesAssumption`), texts are made of a set of characters with the
separators, the blank and the digits in it (`CharsAssumption`), keys are finitely many
texts without separators and the counter stays within an int (`KeysAssumption`: the keys
are constants of arvos.h), and latitudes stay between -80 and 80 degrees with
a circle wide enough for the range (`AngleAssumption`). TLC evaluates all of them on
every run.

The hypotheses of single theorems are not assumptions of the models, because the
code does not ensure them:

- `OneProcess`: no two requests are at work at once. With two none of the properties
  proved under it holds, and [What the runs found](#what-the-runs-found) names the
  behaviours. Requests may still stop at any statement, and the next one starts from
  what they left.
- `NamesAreNoIds`, `IdsAreNoNames`: nobody is registered under a number that is
  an author's id. Register lets names of digits through (avDirectoryService.c
  155-175), and `avDbAuthorDelete` gives an id to a DELETE that compares names: the
  deletion of author 7 deletes the channels of the author *called* 7. In the runs an
  id is never a name.
- `OneRadius`: all locations have one radius. Radii come from the forms of authors;
  the theorem says that different ones are the whole reason for `search_stop`.
- The stops left out of `NoneOrphaned` and `RowsStayWhole` are the ones after which
  the code leaves such rows.

**Type.** `TypeInv` adds to `TypeOK` what the control flow guarantees of a
context: in the statements of Register, Activate and so on the request has the
parameters they use. Without it a step could insert a row without a name.

**Rights.** `AccountsProofs` first proves, once for all actions, what one
statement can do to a context, to an author row and to a session row
(`ContextStep` and its like): each field is kept, copied from a row, or set by
one of the few statements that set it. `RightsEarned` is inductive with `TypeInv`
only because it speaks of the copies in processes as well as of the rows: a
property of the tables alone is broken by a write-back of a copy it says nothing
about. `activated` only grows, so copies stay justified however old they are.

**Confirmation.** `ActivationConfirmed` needs `ColumnCode`: at the statement that
sets TAC the code of the request still equals the one in the copy, so the
accepted code is among the issued ones.

**Cookies.** `CookieInv` has three parts: rows have distinct cookies
(`CookiesUnique`); a row with the cookie of a request belongs to the request's
author, also *before* the request is logged in and after its row was deleted
(`HolderBound`); two requests with one cookie have one author (`HoldersAgree`).
The last is what makes the first two survive the reuse of session ids; all three
rest on a cookie being drawn only when nobody holds it.

**Refinement.** One case for each statement that inserts, deletes or updates an
author: `RegisterMaps`, `ActivateMaps`, `DeleteMaps`, `ConfirmMaps`; writing `VALS`
stutters (`ValsStutter`), and so does the rest. `ActivateMaps` uses that names are
unique (one row is activated, not two) and that the code was issued.

**Requests one at a time.** The five promises of `AccountsSequential` are about a row
from one statement to the next. Its `SeqInv` says that a copy of `VALS` about to be
written back is still what the row holds, that the sessions about to be swept are
still old, that the account about to be activated is the one whose code was compared
(`Fresh`, one clause for each statement that relies on an earlier one), and that only
reviewed accounts have codes (`CodesReviewed`). `Fresh` is what another process
destroys. It holds at the SELECT, and of one process nothing comes between; every
other statement leads to one that relies on nothing (`FreshOr`).

**Channel names.** `NamesInv` adds that a row is a record of the five columns, so
that an UPDATE of another column keeps the name.

**Registry.** Each statement on channels is one step of the registry or none
(`Registers`): the INSERT creates an entry, as the title is in no other row
(`TitleIsFreeThere`, what the UNIQUE column ensures); the UPDATE of the name renames
it; the UPDATEs of other columns, in whatever order requests interleave them, leave the
entry alone (`EntryIs`, `EntriesChange`); DELETE removes one entry, the DELETE by
author all of one author's. `ChannelsImplement` needs only `TypeInv` beside this. For
`ServicePublishes` it is `CP!TypeInv`, kept by every process of the service
(`NextChannelTypes`), and `ChannelsOfActivated`: the process that inserts the row
works for somebody activated. A statement of an account changes no entry
(`SameTable`) and adds at most one pair to `activated` (`OneAppointed`); that it is
never taken back makes the appointment precede the creation.

**Types of channels.** `TypeInv` of ChannelsProofs says of each statement what the
request must be for it: only "save" gets to the statements that write, the form lists
each location once (`Listed`), and the location at work has a valid place. The table
alone is not inductive: a row is typed because the form that reaches its INSERT is.

**Channels, one request at a time.** `SeqInv` of ChannelsProofs ties the `pc` to the
rows (`ChannelAt`, `LocationAt`): from the check on, the channel exists and the user
may edit it; after `updName`, `updDes`, `updDev` it has the title and the texts of the
form; what is in `saved` is in the table at the place the form gave, and no item still
to come names it. The last part is where `Listed` is needed: a form that named a
location twice would undo what it has saved. Each statement leads its process to a
`pc` whose clause the new tables satisfy (`StepLeaves`, one lemma for each group of
statements). `SavesAsReported` is the clause of `show`, `AuthorsAlone` the one of the
UPDATEs (`ChannelChanges`). `NoneOrphaned` adds that a location is only inserted into
or moved to a channel that is there, `RowsStayWhole` that the rows which are not whole
are those of a process between two of its UPDATEs (`ChannelsWhole`, `LocationsWhole`).

**The service.** A step of the service is a step of `Accounts` or leaves it alone
(`ServiceStep`), so the invariants of `Accounts` hold in it. `ServiceInv` adds that a
process at `"channel"` has the right of `avUserIsAuthor` (`RightToChannel`, one
fact about the dispatch) and the form of channel rows and contexts (`WellFormed`);
then each statement on channels keeps the author of a row or writes the user of
its own request (`KeepsAuthors`), who is activated by `RightsEarned`. By the same
lemma the service implements `AuthorLifecycle`.

`LoginsOwnChannels` joins the two invariants for one process. ChannelsProofs is
instantiated with the contexts of the service (`CP`), and each statement of
DirectoryService on channels is shown to be one of it (`SameArrive`, `SameStep`), so
its `SeqInv` holds in the service as well: abortion keeps it (`StopKeeps`) and the
deletion of an author changes no row (`NoneDeletedById`). `LetIn` then says that
statements on channels run for the user the login check let in, from `EnterChannel`
to the exit.

**Initialisation.** `IInv` of DbInitProofs says that a process at a table has found
all the ones before it (`Prefix`), that there is no index before the last table
(`NoIndexYet`) and at most one process about to create it (`OneIndexer`): only who
created the last table gets there. For `EachMadeOnce` the tables made so far are an
initial part of the sequence, since a CREATE of a table that is there fails.

**Searches.** The lemmas on angles come first: a position is read back as the
latitude that was rounded to it, texts are ordered as latitudes but for the one
that gets a digit more, and the callback's distance is the shorter way round
whenever it is within a radius. `SearchInv` then says that rows come in order, that
the row that ended the query lies north of the point (`EndedNorth`), that the list
is a heap exactly when it holds n (`HeapFull`), and that a row which was looked at
and matched is in it or beaten by all of it (`NoneMissed`). `HeapFull` is what the
comparison with n - 1 in the code must provide; a test for n keeps a plain list
and throws out the wrong row. `OneRadiusFindsAll` puts two of the theorems together:
only a row behind the end of the query is missed, only one with a larger radius can be
behind it, and with one radius there is none.

**Pages.** `Page(list, S, k, lo, hi)` says that the list holds, of the first k rows,
those in S that are number lo to hi among their like. `PageGrows` adds a row to it,
once for both callbacks; `FirstInv` and `PageInv` relate what the code counts down to
how many members of S there were.

**Column VALS.** `CodecInv` says that the text of the row reads as `Row(given, logins)`:
the keys given and not removed with their values, and the counter in decimal. That it
is kept rests on two facts about data, for texts, numbers and tables of any size.

`RoundTrip` is about the conversions. In the text written from a map the tabs are those
between the items, as neither a key nor a value has one (`Spaced` has seen to that, and
what was read back has none either), so its pieces are the items (`ItemsGrow`, by
induction on the order of the hash table); an item read back has its key, as keys have
no equal sign, and its value up to the first one (`ItemReads`); and no two items have
one key, so nothing is overwritten. A value that is written again as it was read does
not change (`ReadAgain`), which is why it may be cut once but not twice.

`IncrementedIs` is about the counter: `Number` undoes `Decimal` (`NumberOfDecimal`), and
`Decimal[n + 1]` is at most one digit longer than `Decimal[n]` (`LengthGrows`), which is
what the length of the buffer takes for granted.

These are inductions. The library states them with an operator as a parameter, which
no installed prover instantiates; `Inductive` and `Recursion` state them with sets and
functions instead: a *set* of numbers that has n whenever it has all smaller ones has
them all, and a *function* of two arguments that gives the value at n from those at
smaller numbers is followed by some function. Both come from the well-foundedness of
`<` on the naturals (`Least`), and each recursive function of the module is shown once
to satisfy its equation (`DecimalIs`, `NumberIs`, `TextExists`).

Only model-checked is liveness (`RequestsEnd`, `SomeServed`), which is outside the
prover's reach. Every other property of a passing run is a
theorem; the four properties that TLC refutes are, of course, none, and `FoundInRadius`
only with its hypothesis.

## What is not modelled

- *FillDatabase*: an administrator's tool for tests. It writes channels of authors
  that are never activated and locations with random channel ids, so
  `ChannelsOfActivated` and `NoOrphans` speak of services on which nobody ran it.
- *The display of a list*: each row is read again by id, and what happens when it
  was deleted in between depends on libpbl, which is not in the repository. No
  state changes.
- *Text*: templates, e-mails, formatting, translation; whether a number or an
  e-mail address is well-formed is a choice of the form.
- *SHA-256 and random bytes*: passwords, codes and cookies are tokens.
- *CreateAuthor.c and Augments.c*: one appends a line to a password file, the other
  only opens the database.
- *SQLite* beyond the row ids, transactions, constraints and orders the callers
  rely on: vendored, and by far the largest files of the repository.

## Plan

What a continuation could take up, in this order:

1. The search as an operator, the n nearest of a set of channels, with `ChannelSearch`
   shown to implement it when all radii are equal; `OneRadiusFindsAll` and
   `ListsTheNearest` are its two halves.
2. `ChannelRegistry` with the texts and locations of a channel, each channel written
   as a whole, and `Channels` shown to implement it for one process that is not
   stopped.
3. What is left of the sequential promises with any number of processes: which
   statements of which other request it takes to break each.
