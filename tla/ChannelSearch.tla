---------------------------- MODULE ChannelSearch ----------------------------
(***************************************************************************)
(* How channels are found in the Arvos directory service: one SELECT whose *)
(* rows SQLite hands to a callback one by one (avDbChannel.c).             *)
(*                                                                         *)
(* A search by place joins locations with their channels, in the order of  *)
(* the encoded positions of avLocation.c, and gives each row to            *)
(* avCallbackChannelFilteredValues; a list by name gives the rows of table *)
(* channel to avCallbackChannelValues.  A step of the model is one row.    *)
(* The query sees one state of the tables, so the rows are picked as it    *)
(* goes: any row that may come next in the order.  Rows the WHERE leaves   *)
(* out, and rows behind the one at which the callback ended the query, are  *)
(* rows of the tables too: PassBy.                                          *)
(*                                                                         *)
(* Angles are integers.  Positions are stored with six decimals, input has *)
(* more: a stored millionth of a degree is three units.  The text filters  *)
(* for author, name and description are one flag of a row, named.          *)
(***************************************************************************)
EXTENDS Integers, FiniteSets, Sequences

CONSTANTS
  Latitudes,   \* latitudes in forms and filters
  Longitudes,  \* longitudes
  Radii,       \* visibility radii of locations
  MaxRadius,   \* the largest radius, 10000
  Metre,       \* the angle that counts as one unit of radius or distance
  Hundred,     \* a hundred degrees
  Circle,      \* 360 degrees
  Sights,      \* why a user sees a channel, or "none"
  Limits,      \* how many rows a query may ask for (always 100 in the code)
  Offsets,     \* how many rows it may skip (always 0 in the code)
  MaxRows,     \* bound on the rows of a query
  None         \* filter not given

Tenth == Metre * MaxRadius  \* 0.1 degrees

(* Latitudes are between -80 and 80 degrees.                                *)
ASSUME AngleAssumption ==
  /\ Latitudes \subseteq (Tenth + 2 - Hundred)..(Hundred - Tenth - 2) /\ Longitudes \subseteq Int
  /\ Metre \in Nat \ {0, 1, 2} /\ MaxRadius \in Nat \ {0} /\ Radii \subseteq 0..MaxRadius
  /\ Circle \in Nat /\ Circle > 2 * Tenth /\ \A a, b \in Longitudes : a - b <= Circle
  /\ Hundred \in Nat /\ Hundred % 3 = 0
ASSUME SearchNone == None \notin Int
ASSUME SightAssumption == Sights \subseteq {"admin", "blank", "own", "key", "none"}
ASSUME LimitAssumption == Limits \subseteq Nat \ {0} /\ Offsets \subseteq Nat /\ MaxRows \in Nat

-----------------------------------------------------------------------------
(* Positions.                                                               *)

(* "%09.6f" rounds to the nearest of the stored values.                     *)
Rounded(x) == 3 * ((x + 1) \div 3)

(* Where the text of a latitude stands in the order of all texts: those with *)
(* a "-" first, then by their digits.  avLocationSave writes a latitude l    *)
(* below zero as "-" and l + 100; if that rounds to a hundred, the text has  *)
(* one digit more than its like and comes before all of them.               *)
BugPos(l) == IF l >= 0 THEN Rounded(l) ELSE Rounded(-l) - 2 * Hundred
Pos(l) ==
  IF l >= 0 THEN Rounded(l)
  ELSE IF Rounded(l + Hundred) = Hundred THEN -2 * Hundred
  ELSE Rounded(l + Hundred) - 2 * Hundred

(* avGetLatitude of a stored position: -100 - value for one with a "-".      *)
Latitude(p) == IF p >= 0 THEN p ELSE IF p = -2 * Hundred THEN 0 ELSE p + Hundred

Abs(x) == IF x < 0 THEN -x ELSE x

-----------------------------------------------------------------------------
(* Queries and rows.                                                        *)

PlaceQueries == [kind : {"place"}, lat : Latitudes \cup {None}, lon : Longitudes \cup {None},
                 n : Limits, offset : {0}]
NameQueries == [kind : {"name"}, lat : {None}, lon : {None}, n : Limits, offset : Offsets]

(* The user sees a channel as an administrator, because its developer key is *)
(* blank or the one given, as its author, or not.                           *)
PlaceRows == [lat : Latitudes, lon : Longitudes, rad : Radii, sight : Sights, named : BOOLEAN]
NameRows == [sight : Sights]

VARIABLES
  query,    \* what is asked
  n,        \* filter.n: rows still to be taken
  offset,   \* filter.offset: rows still to be skipped
  list,     \* filter.list or filter.map: which rows of the table were taken
  heap,     \* whether list was made a heap
  ended,    \* the row at which the callback ended the query, 0 if none
  table     \* history: the rows of the tables so far, in order

vars == <<query, n, offset, list, heap, ended, table>>

(* avDbChannelsListByLocation asks for the nearest if it is given a place.   *)
Nearest == query.lat # None \/ query.lon # None

Init ==
  /\ query \in PlaceQueries \cup NameQueries
  /\ n = query.n /\ offset = query.offset
  /\ list = {} /\ heap = FALSE /\ ended = 0 /\ table = << >>

-----------------------------------------------------------------------------
(* What the callbacks look at.                                              *)

Visible(r) == r.sight # "none"

(* A radius below 1 counts as 1.                                            *)
Reach(r) == Metre * (IF r.rad < 1 THEN 1 ELSE r.rad)

LatDistance(r) == IF query.lat = None THEN 0 ELSE Abs(query.lat - Latitude(Pos(r.lat)))

(* From 359.9 degrees on, the distance is taken the other way round.        *)
BugWrapped(d) == IF d >= Circle - Tenth THEN d - Circle ELSE d
Wrapped(d) == IF d >= Circle - Tenth THEN Abs(d - Circle) ELSE d
LonDistance(r) == IF query.lon = None THEN 0 ELSE Wrapped(Abs(query.lon - r.lon))

(* Column DISTANCE of a taken row, a whole number.                          *)
Distance(r) ==
  (IF LatDistance(r) > LonDistance(r) THEN LatDistance(r) ELSE LonDistance(r)) \div Metre

(* WHERE POS > min AND POS < max, both the text of a latitude and a tab.     *)
InRange(r) == query.lat # None => Pos(query.lat - Tenth) <= Pos(r.lat) /\ Pos(r.lat) < Pos(query.lat + Tenth)

(* SELECT ... ORDER BY POS.                                                 *)
MayFollow(r) == table # << >> => Pos(table[Len(table)].lat) <= Pos(r.lat)

BugPageFull == n <= 1 /\ ~Nearest
PageFull == n = 0 /\ ~Nearest

(* The callback returns 1: enough rows, or a row too far north of the point. *)
TooFar(r) == LatDistance(r) > Reach(r)
BugEnds(r) == Visible(r) /\ (PageFull \/ TooFar(r))
Ends(r) ==
  /\ Visible(r)
  /\ PageFull \/ (TooFar(r) /\ Latitude(Pos(r.lat)) >= query.lat)

Takes(r) ==
  /\ Visible(r) /\ ~PageFull
  /\ ~TooFar(r) /\ LonDistance(r) <= Reach(r)
  /\ r.named

-----------------------------------------------------------------------------
(* avCallbackChannelFilteredValues.                                         *)

BugHere == Len(table)
Here == Len(table) + 1
DistanceOf(i) == Distance(table[i])

(* pblHeapGetFirst: an entry no other is further than, or just the first one *)
(* of a list that was not made a heap.                                       *)
IsFirst(f) ==
  /\ f \in list
  /\ IF heap THEN \A i \in list : DistanceOf(i) <= DistanceOf(f) ELSE \A i \in list : f <= i

(* The list is filled, made a heap with the last row it may hold, and from   *)
(* then on a nearer row takes the place of the furthest.                    *)
BugCompletes(size) == size = query.n
Completes(size) == size = query.n - 1

Take(r) ==
  LET size == Cardinality(list)
  IN  \/ /\ ~Nearest \/ size < query.n - 1
         /\ list' = list \cup {Here}
         /\ UNCHANGED heap
      \/ /\ Nearest /\ size >= query.n - 1 /\ Completes(size)
         /\ list' = list \cup {Here}
         /\ heap' = TRUE
      \/ /\ Nearest /\ size >= query.n - 1 /\ ~Completes(size)
         /\ \E f \in list :
              /\ IsFirst(f)
              /\ list' = IF Distance(r) < DistanceOf(f) THEN (list \ {f}) \cup {Here} ELSE list
         /\ UNCHANGED heap

PlaceRow(r) ==
  /\ query.kind = "place" /\ ended = 0 /\ MayFollow(r) /\ InRange(r)
  /\ \/ /\ Ends(r)
        /\ ended' = Here
        /\ UNCHANGED <<n, list, heap>>
     \/ /\ Takes(r)
        /\ n' = IF n > 0 THEN n - 1 ELSE n
        /\ Take(r)
        /\ UNCHANGED ended
     \/ /\ ~Ends(r) /\ ~Takes(r)
        /\ UNCHANGED <<n, list, heap, ended>>
  /\ table' = Append(table, r)
  /\ UNCHANGED <<query, offset>>

(* A row SQLite does not hand to the callback.                              *)
PassBy(r) ==
  /\ query.kind = "place" /\ MayFollow(r)
  /\ ended # 0 \/ ~InRange(r)
  /\ table' = Append(table, r)
  /\ UNCHANGED <<query, n, offset, list, heap, ended>>

-----------------------------------------------------------------------------
(* avCallbackChannelValues: rows the user may not see count for neither the  *)
(* offset nor n.                                                             *)
BugSkips(r) == offset > 0
Skips(r) == Visible(r) /\ offset > 0

NameRow(r) ==
  /\ query.kind = "name" /\ ended = 0
  /\ \/ /\ n = 0
        /\ ended' = Here
        /\ UNCHANGED <<n, offset, list>>
     \/ /\ n > 0 /\ Skips(r)
        /\ offset' = offset - 1
        /\ UNCHANGED <<n, list, ended>>
     \/ /\ n > 0 /\ ~Skips(r) /\ Visible(r)
        /\ n' = n - 1
        /\ list' = list \cup {Here}
        /\ UNCHANGED <<offset, ended>>
     \/ /\ n > 0 /\ ~Skips(r) /\ ~Visible(r)
        /\ UNCHANGED <<n, offset, list, ended>>
  /\ table' = Append(table, r)
  /\ UNCHANGED <<query, heap>>

Next ==
  /\ Len(table) < MaxRows
  /\ \/ \E r \in PlaceRows : PlaceRow(r) \/ PassBy(r)
     \/ \E r \in NameRows : NameRow(r)

Spec == Init /\ [][Next]_vars

-----------------------------------------------------------------------------
(* Properties.  Operators whose names begin with Bug are faulty versions of *)
(* the definition behind them; no action uses them.                         *)

TypeOK ==
  /\ query \in PlaceQueries \cup NameQueries
  /\ n \in Nat /\ offset \in Nat /\ heap \in BOOLEAN
  /\ table \in Seq(PlaceRows) \cup Seq(NameRows)
  /\ list \subseteq DOMAIN table /\ ended \in {0} \cup DOMAIN table

(* What "Lat and Lon are used for radius matches" (avDbChannel.c:651) asks   *)
(* of a row: the point is in its radius, along the shorter way round.        *)
ShorterWay(a, b) == IF Abs(a - b) <= Circle - Abs(a - b) THEN Abs(a - b) ELSE Circle - Abs(a - b)
InRadius(r) ==
  /\ query.lat # None => Abs(query.lat - Rounded(r.lat)) <= Reach(r)
  /\ query.lon # None => ShorterWay(query.lon, r.lon) <= Reach(r)
Matches(r) == Visible(r) /\ r.named /\ InRadius(r)

(* Whatever is listed is visible to the user, matches the filters and has    *)
(* the point in its radius, also across the date line and the equator.       *)
ListedMatch == query.kind = "place" => \A i \in list : Matches(table[i])

(* A row among the ones looked at is left out only if it does not match or   *)
(* the list is full of rows that are no further away.                        *)
Beaten(i) == Cardinality(list) = query.n /\ \A j \in list : DistanceOf(j) <= DistanceOf(i)
NearestListed ==
  query.kind = "place" /\ Nearest =>
    /\ Cardinality(list) <= query.n
    /\ \A i \in DOMAIN table :
         (ended = 0 \/ i < ended) /\ InRange(table[i]) /\ Matches(table[i]) => i \in list \/ Beaten(i)

(* Without a place, the first n rows that match.                            *)
FirstListed ==
  query.kind = "place" /\ ~Nearest =>
    \A i \in DOMAIN table :
      i \in list <=> /\ Matches(table[i])
                     /\ Cardinality({j \in 1..i : Matches(table[j])}) <= query.n

(* Ending the query at a row too far north loses only rows that reach       *)
(* further than that row: with one radius for all, nothing is lost.         *)
EndLosesLargerOnly ==
  query.kind = "place" /\ Nearest /\ ended # 0 =>
    \A i \in DOMAIN table :
      i > ended /\ Matches(table[i]) => Reach(table[i]) > Reach(table[ended])

(* The range of texts leaves out no row with the point in its radius, but    *)
(* for one exactly 0.1 degrees north, and for what lies or ends so close     *)
(* south of the equator that its text has a digit too many.                  *)
Misplaced(p) == p = -2 * Hundred
RangeLosesNothing ==
  query.kind = "place" /\ query.lat # None =>
    \A i \in DOMAIN table :
      InRadius(table[i]) /\ ~InRange(table[i])
        => \/ Misplaced(Pos(table[i].lat)) \/ Misplaced(Pos(query.lat + Tenth))
           \/ Pos(table[i].lat) = Pos(query.lat + Tenth)

(* A list by name is one page of the channels visible to the user.          *)
PageOfVisible ==
  query.kind = "name" =>
    \A i \in DOMAIN table :
      i \in list <=> /\ Visible(table[i])
                     /\ Cardinality({j \in 1..i : Visible(table[j])})
                          \in (query.offset + 1)..(query.offset + query.n)

(* "Lat and Lon are used for radius matches if given" (avDbChannel.c:651):   *)
(* a row with the point in its radius is listed, unless n others are nearer. *)
FoundInRadius ==
  query.kind = "place" /\ query.lat # None =>
    \A i \in DOMAIN table : InRange(table[i]) /\ Matches(table[i]) => i \in list \/ Beaten(i)
=============================================================================
