------------------------- MODULE ChannelSearchProofs -------------------------
(***************************************************************************)
(* Proofs about ChannelSearch, for all latitudes, longitudes, radii,       *)
(* numbers of rows and limits: searches by place first, then the lists     *)
(* that count, the first n matches of a search without a place and the     *)
(* page of a list by name.                                                 *)
(***************************************************************************)
EXTENDS ChannelSearch, FiniteSetTheorems, TLAPS

-----------------------------------------------------------------------------
(* Angles.                                                                  *)

LEMMA Angles ==
  /\ Tenth \in Nat /\ Tenth > 0 /\ Metre \in Nat /\ Metre > 2
  /\ Circle \in Nat /\ Circle > 2 * Tenth
  /\ \A a, b \in Longitudes : a \in Int /\ b \in Int /\ a - b <= Circle
  /\ \A l \in Latitudes :
       /\ l \in Int /\ l + Hundred >= 2 /\ Hundred - l >= 2
       /\ l - Tenth + Hundred >= 2 /\ Hundred - (l + Tenth) >= 2
<1>1. Metre \in Nat /\ Metre > 2 /\ MaxRadius \in Nat /\ MaxRadius > 0
  BY AngleAssumption
<1>2. Metre * MaxRadius \in Nat /\ Metre * MaxRadius > 0
  BY <1>1
<1>3. Tenth \in Nat /\ Tenth > 0
  BY <1>2 DEF Tenth
<1>4. ASSUME NEW l \in Latitudes
      PROVE  /\ l \in Int /\ l + Hundred >= 2 /\ Hundred - l >= 2
             /\ l - Tenth + Hundred >= 2 /\ Hundred - (l + Tenth) >= 2
  <2>1. l \in (Tenth + 2 - Hundred)..(Hundred - Tenth - 2) /\ Hundred \in Nat
    BY <1>4, AngleAssumption
  <2> QED BY <1>3, <2>1
<1> QED BY <1>1, <1>3, <1>4, AngleAssumption

(* A position is read back as the latitude that was rounded to it.          *)
LEMMA ReadBack ==
  ASSUME NEW l \in Int, l + Hundred >= 2, Hundred - l >= 2
  PROVE  /\ Pos(l) \in Int /\ Rounded(l) \in Int
         /\ Latitude(Pos(l)) = Rounded(l)
         /\ Pos(l) >= -2 * Hundred
         /\ l >= 0 => Pos(l) = Rounded(l) /\ Rounded(l) >= 0
         /\ l < 0 => Rounded(l) <= 0 /\ (Pos(l) = -2 * Hundred \/ Pos(l) = Rounded(l) - Hundred)
         /\ (l < 0 /\ Pos(l) # -2 * Hundred) => Pos(l) = Rounded(l) - Hundred /\ Rounded(l) < 0
<1>1. Hundred \in Nat /\ Hundred % 3 = 0
  BY AngleAssumption
<1>2. PICK h \in Nat : Hundred = 3 * h
  BY <1>1
<1>3. Rounded(l + Hundred) = Rounded(l) + Hundred
  BY <1>2 DEF Rounded
<1>4. l >= 0 => Rounded(l) >= 0
  BY DEF Rounded
<1>5. l < 0 => Rounded(l) <= 0 /\ Rounded(l) + Hundred >= 3
  BY <1>2 DEF Rounded
<1>6. Rounded(l) \in Int
  BY DEF Rounded
<1>7. CASE l >= 0
  BY <1>1, <1>4, <1>6, <1>7 DEF Pos, Latitude
<1>8. CASE l < 0
  BY <1>1, <1>3, <1>5, <1>6, <1>8 DEF Pos, Latitude
<1> QED BY <1>7, <1>8

(* Texts of positions follow the latitudes, but for the misplaced one.      *)
LEMMA PosFollows ==
  ASSUME NEW k \in Int, k + Hundred >= 2, Hundred - k >= 2,
         NEW l \in Int, l + Hundred >= 2, Hundred - l >= 2,
         Pos(k) <= Pos(l), Pos(k) # -2 * Hundred
  PROVE  Rounded(k) <= Rounded(l)
<1>1. Hundred \in Nat
  BY AngleAssumption
<1>2. Pos(l) # -2 * Hundred
  BY <1>1, ReadBack
<1> QED
  BY <1>1, <1>2, ReadBack

LEMMA PosKeepsOrder ==
  ASSUME NEW k \in Int, k + Hundred >= 2, Hundred - k >= 2,
         NEW l \in Int, l + Hundred >= 2, Hundred - l >= 2,
         Rounded(k) <= Rounded(l), Pos(l) # -2 * Hundred
  PROVE  Pos(k) <= Pos(l)
<1>1. Hundred \in Nat
  BY AngleAssumption
<1> QED
  BY <1>1, ReadBack

(* The nearest stored value of a bound is on the same side of every stored   *)
(* value.                                                                   *)
LEMMA RoundedBounds ==
  ASSUME NEW l \in Int, NEW k \in Int
  PROVE  /\ Rounded(l) <= k => Rounded(l) <= Rounded(k)
         /\ Rounded(l) >= k => Rounded(l) >= Rounded(k)
BY DEF Rounded

(* Two ways of measuring the distance of longitudes agree within the reach. *)
LEMMA WrappedIsShorter ==
  ASSUME NEW a \in Longitudes, NEW b \in Longitudes, NEW r \in 0..Tenth
  PROVE  /\ Wrapped(Abs(a - b)) \in Int
         /\ Wrapped(Abs(a - b)) <= r <=> ShorterWay(a, b) <= r
<1> DEFINE d == Abs(a - b)
<1>1. d \in Int /\ 0 <= d /\ d <= Circle
  BY Angles DEF Abs
<1>2. Wrapped(d) = IF d >= Circle - Tenth THEN Circle - d ELSE d
  BY <1>1, Angles DEF Wrapped, Abs
<1>3. ShorterWay(a, b) = IF d <= Circle - d THEN d ELSE Circle - d
  BY DEF ShorterWay
<1>4. Tenth \in Nat /\ Circle \in Nat /\ Circle > 2 * Tenth /\ r \in Int /\ r <= Tenth
  BY Angles
<1>5. CASE d >= Circle - Tenth
  BY <1>1, <1>2, <1>3, <1>4, <1>5
<1>6. CASE d < Circle - Tenth
  BY <1>1, <1>2, <1>3, <1>4, <1>6
<1> QED BY <1>1, <1>4, <1>5, <1>6

-----------------------------------------------------------------------------
(* A query and a row.                                                       *)

LEMMA ProductBound ==
  ASSUME NEW a \in Nat, a > 0, NEW k \in Nat, k > 0, NEW m \in Nat, k <= m
  PROVE  a * k \in Nat /\ a * k > 0 /\ a * k <= a * m
<1>1. a * k \in Nat /\ a * k > 0
  OBVIOUS
<1>2. PICK e \in Nat : m = k + e
  <2>1. m - k \in Nat /\ m = k + (m - k)
    OBVIOUS
  <2> QED BY <2>1
<1>3. a * m = a * k + a * e
  BY <1>2
<1>4. a * e \in Nat
  BY <1>2
<1> HIDE <1>2
<1> QED BY <1>1, <1>3, <1>4

LEMMA ReachBound ==
  ASSUME NEW r \in PlaceRows
  PROVE  Reach(r) \in 0..Tenth /\ Reach(r) > 0
<1>1. r.rad \in 0..MaxRadius /\ Metre \in Nat /\ Metre > 2 /\ MaxRadius \in Nat /\ MaxRadius > 0
  <2>1. r.rad \in Radii
    BY DEF PlaceRows
  <2>2. Radii \subseteq 0..MaxRadius /\ MaxRadius \in Nat \ {0} /\ Metre \in Nat \ {0, 1, 2}
    BY AngleAssumption
  <2>3. MaxRadius \in Nat /\ MaxRadius > 0 /\ Metre \in Nat /\ Metre > 2
    BY <2>2
  <2> QED BY <2>1, <2>2, <2>3
<1> DEFINE k == IF r.rad < 1 THEN 1 ELSE r.rad
<1>2. k \in 1..MaxRadius
  BY <1>1
<1> HIDE DEF k
<1>3. Metre * k \in Nat /\ Metre * k > 0 /\ Metre * k <= Metre * MaxRadius
  BY <1>1, <1>2, ProductBound
<1>4. Reach(r) = Metre * k
  BY DEF Reach, k
<1> QED BY <1>1, <1>3, <1>4, Angles DEF Tenth

LEMMA TenthBound == Tenth >= 3
<1>1. Metre \in Nat \ {0, 1, 2} /\ MaxRadius \in Nat \ {0}
  BY AngleAssumption
<1>2. Metre \in Nat /\ Metre > 2 /\ MaxRadius \in Nat /\ 1 <= MaxRadius
  BY <1>1
<1>3. Metre * 1 <= Metre * MaxRadius /\ Metre * MaxRadius \in Nat
  BY <1>2, ProductBound
<1> QED BY <1>2, <1>3 DEF Tenth

(* What the callback computes for a row in reach is what a match asks.      *)
LEMMA RadiusIsTested ==
  ASSUME query \in PlaceQueries, NEW r \in PlaceRows
  PROVE  /\ LatDistance(r) \in Int /\ LonDistance(r) \in Int /\ Distance(r) \in Int
         /\ query.lat # None => LatDistance(r) = Abs(query.lat - Rounded(r.lat))
         /\ query.lat = None => ~TooFar(r)
         /\ InRadius(r) <=> ~TooFar(r) /\ LonDistance(r) <= Reach(r)
<1>1. /\ r.lat \in Latitudes /\ r.lon \in Longitudes
      /\ query.lat \in Latitudes \cup {None} /\ query.lon \in Longitudes \cup {None}
  BY DEF PlaceRows, PlaceQueries
<1>2. Latitude(Pos(r.lat)) = Rounded(r.lat) /\ Rounded(r.lat) \in Int
  BY <1>1, Angles, ReadBack
<1>3. /\ query.lat # None => LatDistance(r) = Abs(query.lat - Rounded(r.lat)) /\ query.lat \in Int
      /\ query.lat = None => LatDistance(r) = 0
  BY <1>1, <1>2, Angles DEF LatDistance
<1>4. LatDistance(r) \in Int
  BY <1>2, <1>3 DEF Abs
<1>5. /\ query.lon # None => LonDistance(r) = Wrapped(Abs(query.lon - r.lon))
      /\ query.lon = None => LonDistance(r) = 0
  BY DEF LonDistance
<1>6. /\ LonDistance(r) \in Int
      /\ LonDistance(r) <= Reach(r) <=> (query.lon # None => ShorterWay(query.lon, r.lon) <= Reach(r))
  <2>1. CASE query.lon = None
    BY <1>5, <2>1, ReachBound
  <2>2. CASE query.lon # None
    <3>1. query.lon \in Longitudes
      BY <1>1, <2>2
    <3> QED BY <1>1, <1>5, <2>2, <3>1, ReachBound, WrappedIsShorter
  <2> QED BY <2>1, <2>2
<1>7. /\ query.lat = None => ~TooFar(r)
      /\ ~TooFar(r) <=> (query.lat # None => Abs(query.lat - Rounded(r.lat)) <= Reach(r))
  BY <1>3, <1>4, ReachBound, Angles DEF TooFar
<1>8. Distance(r) \in Int
  <2>1. Metre \in Nat /\ Metre > 0
    BY Angles
  <2> QED BY <1>4, <1>6, <2>1 DEF Distance
<1> QED BY <1>3, <1>4, <1>6, <1>7, <1>8 DEF InRadius

-----------------------------------------------------------------------------
(* The invariant of a search by place.                                      *)

(* Rows come in the order of the index, and only rows in the range are       *)
(* taken or end the query.                                                  *)
RowsTyped == query \in PlaceQueries /\ table \in Seq(PlaceRows) /\ ended \in {0} \cup DOMAIN table
Sorted == \A i, j \in DOMAIN table : i <= j => Pos(table[i].lat) <= Pos(table[j].lat)
TakenMatch == list \subseteq DOMAIN table /\ \A i \in list : Matches(table[i])
EndedNorth ==
  ended # 0 =>
    /\ InRange(table[ended])
    /\ Nearest => TooFar(table[ended]) /\ Latitude(Pos(table[ended].lat)) >= query.lat

(* The list is a heap once it is full; what was looked at and matched is in  *)
(* it or beaten by all of it.                                               *)
HeapFull ==
  Nearest => /\ IsFiniteSet(list) /\ Cardinality(list) <= query.n
             /\ heap <=> Cardinality(list) = query.n
NoneMissed ==
  Nearest =>
    \A i \in DOMAIN table :
      (ended = 0 \/ i < ended) /\ InRange(table[i]) /\ Matches(table[i]) => i \in list \/ Beaten(i)

SearchInv == RowsTyped /\ Sorted /\ TakenMatch /\ EndedNorth /\ HeapFull /\ NoneMissed
Search == query.kind = "place" => SearchInv
TypedQuery == query \in PlaceQueries \cup NameQueries
IInv == TypedQuery /\ Search

LEMMA QueryKinds ==
  ASSUME TypedQuery
  PROVE  /\ query.kind = "place" <=> query \in PlaceQueries
         /\ query.n \in Nat /\ query.n > 0
<1>1. query.kind = "place" <=> query \in PlaceQueries
  BY DEF TypedQuery, PlaceQueries, NameQueries
<1>2. query.n \in Limits
  BY DEF TypedQuery, PlaceQueries, NameQueries
<1>3. query.n \in Nat \ {0}
  BY <1>2, LimitAssumption
<1>4. query.n \in Nat /\ query.n > 0
  BY <1>3
<1> QED BY <1>1, <1>4

LEMMA InitIInv == Init => IInv
<1> SUFFICES ASSUME Init PROVE IInv
  OBVIOUS
<1>1. TypedQuery /\ table = << >> /\ list = {} /\ ended = 0 /\ heap = FALSE
  BY DEF Init, TypedQuery
<1>2. ASSUME query.kind = "place" PROVE SearchInv
  <2>1. query \in PlaceQueries /\ query.n \in Nat /\ query.n > 0
    BY <1>1, <1>2, QueryKinds
  <2>2. table \in Seq(PlaceRows) /\ DOMAIN table = {}
    BY <1>1
  <2>3. IsFiniteSet(list) /\ Cardinality(list) = 0
    BY <1>1, FS_EmptySet
  <2>4. HeapFull
    BY <1>1, <2>1, <2>3 DEF HeapFull
  <2> QED
    BY <1>1, <2>1, <2>2, <2>4
    DEF SearchInv, RowsTyped, Sorted, TakenMatch, EndedNorth, NoneMissed
<1> QED BY <1>1, <1>2 DEF IInv, Search

-----------------------------------------------------------------------------
(* Steps of a search by place add a row to the table and keep the query.    *)

RowAdded(r) ==
  /\ query' = query /\ r \in PlaceRows /\ MayFollow(r)
  /\ table' = Append(table, r)
  /\ ended' = ended \/ (ended = 0 /\ ended' = Len(table) + 1 /\ InRange(r) /\ Ends(r))

LEMMA TableGrows ==
  ASSUME RowsTyped, NEW r, RowAdded(r)
  PROVE  /\ Len(table) \in Nat /\ DOMAIN table = 1..Len(table)
         /\ DOMAIN table' = 1..(Len(table) + 1)
         /\ table' \in Seq(PlaceRows) /\ table'[Len(table) + 1] = r
         /\ \A i \in 1..Len(table) : table'[i] = table[i] /\ table[i] \in PlaceRows
BY DEF RowsTyped, RowAdded

(* What is said of a row depends on the query only.                         *)
LEMMA RowKept ==
  ASSUME RowsTyped, NEW r, RowAdded(r), NEW i \in 1..Len(table)
  PROVE  /\ i \in DOMAIN table /\ i \in DOMAIN table' /\ i # Len(table) + 1
         /\ Pos(table[i].lat)' = Pos(table[i].lat)
         /\ Latitude(Pos(table[i].lat))' = Latitude(Pos(table[i].lat))
         /\ Matches(table[i])' = Matches(table[i])
         /\ InRange(table[i])' = InRange(table[i])
         /\ TooFar(table[i])' = TooFar(table[i])
         /\ DistanceOf(i)' = DistanceOf(i)
<1>1. table'[i] = table[i] /\ query' = query
  BY TableGrows DEF RowAdded
<1>2. i \in DOMAIN table /\ i \in DOMAIN table' /\ i # Len(table) + 1
  BY TableGrows
<1> QED
  BY <1>1, <1>2
  DEF Matches, Visible, InRadius, Reach, InRange, TooFar, LatDistance, LonDistance, Distance,
      DistanceOf, Pos, Latitude

LEMMA RowNew ==
  ASSUME RowsTyped, NEW r, RowAdded(r), NEW i, i = Len(table) + 1
  PROVE  /\ i \in DOMAIN table'
         /\ Pos(table[i].lat)' = Pos(r.lat)
         /\ Latitude(Pos(table[i].lat))' = Latitude(Pos(r.lat))
         /\ Matches(table[i])' = Matches(r)
         /\ InRange(table[i])' = InRange(r)
         /\ TooFar(table[i])' = TooFar(r)
         /\ DistanceOf(i)' = Distance(r)
<1>1. table'[i] = r /\ query' = query
  BY TableGrows DEF RowAdded
<1>2. i \in DOMAIN table'
  BY TableGrows
<1> QED
  BY <1>1, <1>2
  DEF Matches, Visible, InRadius, Reach, InRange, TooFar, LatDistance, LonDistance, Distance,
      DistanceOf, Pos, Latitude

LEMMA OldOrNew ==
  ASSUME RowsTyped, NEW r, RowAdded(r), NEW i \in DOMAIN table'
  PROVE  i \in 1..Len(table) \/ i = Len(table) + 1
BY TableGrows

(* The order of the positions and the row that ended the query.             *)
LEMMA SortedStep ==
  ASSUME RowsTyped, Sorted, NEW r, RowAdded(r)
  PROVE  RowsTyped' /\ Sorted'
<1>1. RowsTyped'
  <2>1. query' \in PlaceQueries /\ table' \in Seq(PlaceRows)
    BY TableGrows DEF RowsTyped, RowAdded
  <2>2. ended' \in {0} \cup DOMAIN table'
    BY TableGrows DEF RowsTyped, RowAdded
  <2> QED BY <2>1, <2>2 DEF RowsTyped
<1>2. ASSUME NEW i \in DOMAIN table', NEW j \in DOMAIN table', i <= j
      PROVE  Pos(table'[i].lat) <= Pos(table'[j].lat)
  <2>0. Len(table) \in Nat /\ DOMAIN table = 1..Len(table)
    BY TableGrows
  <2>1. CASE j \in 1..Len(table)
    <3>1. i \in 1..Len(table)
      BY <1>2, <2>0, <2>1, OldOrNew
    <3>2. table'[i] = table[i] /\ table'[j] = table[j]
      BY <2>1, <3>1, TableGrows
    <3> QED BY <1>2, <2>0, <2>1, <3>1, <3>2 DEF Sorted
  <2>2. CASE j = Len(table) + 1
    <3>1. table'[j] = r
      BY <2>2, TableGrows
    <3>2. Pos(r.lat) \in Int
      BY Angles, ReadBack DEF RowAdded, PlaceRows
    <3>3. CASE i = Len(table) + 1
      BY <2>2, <3>1, <3>2, <3>3
    <3>4. CASE i \in 1..Len(table)
      <4>1. table # << >> /\ Len(table) \in DOMAIN table /\ i \in DOMAIN table /\ i <= Len(table)
        BY <2>0, <3>4
      <4>2. Pos(table[i].lat) <= Pos(table[Len(table)].lat)
        BY <4>1 DEF Sorted
      <4>3. Pos(table[Len(table)].lat) <= Pos(r.lat)
        BY <4>1 DEF RowAdded, MayFollow
      <4>4. table[i] \in PlaceRows /\ table[Len(table)] \in PlaceRows /\ table'[i] = table[i]
        BY <2>0, <3>4, <4>1, TableGrows
      <4>5. Pos(table[i].lat) \in Int /\ Pos(table[Len(table)].lat) \in Int
        BY <4>4, Angles, ReadBack DEF PlaceRows
      <4> QED BY <3>1, <3>2, <4>2, <4>3, <4>4, <4>5
    <3> QED BY <3>3, <3>4, OldOrNew
  <2> QED BY <2>1, <2>2, OldOrNew
<1> QED BY <1>1, <1>2 DEF Sorted

LEMMA EndedStep ==
  ASSUME RowsTyped, EndedNorth, NEW r, RowAdded(r)
  PROVE  EndedNorth'
<1> SUFFICES ASSUME ended' # 0
             PROVE  /\ InRange(table[ended])'
                    /\ Nearest => TooFar(table[ended])' /\ (Latitude(Pos(table[ended].lat)))' >= query.lat
  BY DEF EndedNorth, RowAdded, Nearest
<1>0. query' = query
  BY DEF RowAdded
<1>1. PICK i : i = ended'
  OBVIOUS
<1>2. CASE ended' = ended
  <2>1. i \in 1..Len(table) /\ ended = i
    BY <1>1, <1>2, TableGrows DEF RowsTyped
  <2>2. InRange(table[i]) /\ (Nearest => TooFar(table[i]) /\ Latitude(Pos(table[i].lat)) >= query.lat)
    BY <1>2, <2>1 DEF EndedNorth
  <2> QED BY <1>1, <2>1, <2>2, RowKept
<1>3. CASE ended' # ended
  <2>1. i = Len(table) + 1 /\ InRange(r) /\ Ends(r)
    BY <1>1, <1>3 DEF RowAdded
  <2>2. Nearest => TooFar(r) /\ Latitude(Pos(r.lat)) >= query.lat
    BY <2>1 DEF Ends, PageFull
  <2> QED BY <1>1, <2>1, <2>2, RowNew
<1> QED BY <1>2, <1>3

(* A row that is not taken, does not match or comes after the end.          *)
Skipped(r) == Nearest /\ ended' = 0 /\ InRange(r) => ~Matches(r)

LEMMA SkipStep ==
  ASSUME SearchInv, NEW r, RowAdded(r), UNCHANGED <<list, heap>>, Skipped(r)
  PROVE  SearchInv'
<1>0. query' = query /\ RowsTyped /\ list' = list /\ heap' = heap
  BY DEF RowAdded, SearchInv
<1>1. RowsTyped' /\ Sorted' /\ EndedNorth'
  BY SortedStep, EndedStep DEF SearchInv
<1>2. TakenMatch'
  BY <1>0, TableGrows, RowKept DEF SearchInv, TakenMatch
<1>3. HeapFull'
  BY <1>0 DEF SearchInv, HeapFull, Nearest
<1>4. NoneMissed'
  <2> SUFFICES ASSUME Nearest, NEW i \in DOMAIN table',
                      ended' = 0 \/ i < ended', InRange(table[i])', Matches(table[i])'
               PROVE  i \in list \/ Beaten(i)'
    BY <1>0 DEF NoneMissed, Nearest
  <2>1. i \in 1..Len(table)
    <3>1. CASE i = Len(table) + 1
      <4>1. ended' = 0
        BY <3>1, TableGrows, <1>0 DEF RowsTyped, RowAdded
      <4>2. InRange(r) /\ Matches(r)
        BY <1>0, <3>1, RowNew
      <4> QED BY <4>1, <4>2 DEF Skipped
    <3> QED BY <1>0, <3>1, OldOrNew
  <2>2. ended = 0 \/ i < ended
    BY <1>0, <2>1, TableGrows DEF RowAdded
  <2>3. i \in list \/ Beaten(i)
    BY <1>0, <2>1, <2>2, RowKept DEF SearchInv, NoneMissed
  <2>4. ASSUME Beaten(i) PROVE Beaten(i)'
    <3>1. \A j \in list : j \in 1..Len(table)
      BY <1>0, TableGrows DEF SearchInv, TakenMatch
    <3> QED BY <1>0, <2>1, <2>4, <3>1, RowKept DEF Beaten
  <2> QED BY <2>3, <2>4
<1> QED BY <1>1, <1>2, <1>3, <1>4 DEF SearchInv

-----------------------------------------------------------------------------
(* Rows that are taken.                                                     *)

LEMMA TakesMatches ==
  ASSUME query \in PlaceQueries, NEW r \in PlaceRows
  PROVE  /\ Takes(r) => Matches(r)
         /\ Nearest /\ Matches(r) => Takes(r) /\ ~Ends(r)
BY RadiusIsTested DEF Takes, Matches, Ends, PageFull

(* The list grows by the row: it was not full.                              *)
LEMMA AddStep ==
  ASSUME SearchInv, NEW r, RowAdded(r), ended' = ended, Matches(r),
         list' = list \cup {Here},
         Nearest => /\ Cardinality(list) < query.n
                    /\ heap' <=> Cardinality(list) = query.n - 1
  PROVE  SearchInv'
<1>0. query' = query /\ RowsTyped /\ Here = Len(table) + 1
  BY DEF RowAdded, SearchInv, Here
<1>1. RowsTyped' /\ Sorted' /\ EndedNorth'
  BY SortedStep, EndedStep DEF SearchInv
<1>2. TakenMatch'
  <2>1. list' \subseteq DOMAIN table'
    BY <1>0, TableGrows DEF SearchInv, TakenMatch
  <2>2. ASSUME NEW i \in list' PROVE Matches(table[i])'
    <3>1. CASE i = Len(table) + 1
      BY <1>0, <3>1, RowNew
    <3>2. CASE i \in list
      <4>1. i \in 1..Len(table) /\ Matches(table[i])
        BY <1>0, <3>2, TableGrows DEF SearchInv, TakenMatch
      <4> QED BY <1>0, <4>1, RowKept
    <3> QED BY <1>0, <3>1, <3>2
  <2> QED BY <2>1, <2>2 DEF TakenMatch
<1>3. HeapFull'
  <2> SUFFICES ASSUME Nearest
               PROVE  /\ IsFiniteSet(list') /\ Cardinality(list') <= query.n
                      /\ heap' <=> Cardinality(list') = query.n
    BY <1>0 DEF HeapFull, Nearest
  <2>1. Here \notin list
    BY <1>0, TableGrows DEF SearchInv, TakenMatch
  <2>2. IsFiniteSet(list)
    BY DEF SearchInv, HeapFull
  <2>3. IsFiniteSet(list') /\ Cardinality(list') = Cardinality(list) + 1 /\ Cardinality(list) \in Nat
    BY <2>1, <2>2, FS_AddElement, FS_CardinalityType
  <2>4. query.n \in Nat
    BY <1>0, QueryKinds DEF RowsTyped, TypedQuery
  <2> QED BY <2>3, <2>4
<1>4. NoneMissed'
  <2> SUFFICES ASSUME Nearest, NEW i \in DOMAIN table',
                      ended' = 0 \/ i < ended', InRange(table[i])', Matches(table[i])'
               PROVE  i \in list'
    BY <1>0 DEF NoneMissed, Nearest
  <2>1. CASE i = Len(table) + 1
    BY <1>0, <2>1
  <2>2. CASE i \in 1..Len(table)
    <3>1. i \in list \/ Beaten(i)
      BY <1>0, <2>2, RowKept DEF SearchInv, NoneMissed
    <3>2. ~Beaten(i)
      <4>1. query.n \in Nat /\ Cardinality(list) < query.n
        BY <1>0, QueryKinds DEF RowsTyped, TypedQuery
      <4>2. Cardinality(list) \in Nat
        BY FS_CardinalityType DEF SearchInv, HeapFull
      <4> QED BY <4>1, <4>2 DEF Beaten
    <3> QED BY <3>1, <3>2
  <2> QED BY <1>0, <2>1, <2>2, OldOrNew
<1> QED BY <1>1, <1>2, <1>3, <1>4 DEF SearchInv

(* The furthest of a full list makes room for the row.                      *)
LEMMA ReplaceStep ==
  ASSUME SearchInv, NEW r, RowAdded(r), ended' = ended, Matches(r), UNCHANGED heap,
         Nearest, Cardinality(list) = query.n, NEW f \in list, IsFirst(f),
         Distance(r) < DistanceOf(f), list' = (list \ {f}) \cup {Here}
  PROVE  SearchInv'
<1>0. query' = query /\ RowsTyped /\ Here = Len(table) + 1 /\ query \in PlaceQueries
  BY DEF RowAdded, SearchInv, Here, RowsTyped
<1>1. RowsTyped' /\ Sorted' /\ EndedNorth'
  BY SortedStep, EndedStep DEF SearchInv
<1>2. \A i \in list : i \in 1..Len(table) /\ Matches(table[i])
  BY TableGrows, <1>0 DEF SearchInv, TakenMatch
<1>3. TakenMatch'
  <2>1. list' \subseteq DOMAIN table'
    BY <1>0, <1>2, TableGrows
  <2>2. ASSUME NEW i \in list' PROVE Matches(table[i])'
    BY <1>0, <1>2, RowKept, RowNew
  <2> QED BY <2>1, <2>2 DEF TakenMatch
<1>4. IsFiniteSet(list') /\ Cardinality(list') = query.n
  <2>1. IsFiniteSet(list) /\ Here \notin list \ {f}
    BY <1>0, <1>2, TableGrows DEF SearchInv, HeapFull
  <2>2. /\ IsFiniteSet(list \ {f}) /\ Cardinality(list \ {f}) = Cardinality(list) - 1
        /\ Cardinality(list) \in Nat
    BY <2>1, FS_RemoveElement, FS_CardinalityType
  <2>3. IsFiniteSet(list') /\ Cardinality(list') = Cardinality(list \ {f}) + 1
    BY <2>1, <2>2, FS_AddElement
  <2> QED BY <2>2, <2>3
<1>5. HeapFull'
  <2>1. heap /\ query.n \in Nat
    BY <1>0, QueryKinds DEF SearchInv, HeapFull, TypedQuery
  <2> QED BY <1>0, <1>4, <2>1 DEF HeapFull
<1>6. \A i \in list : DistanceOf(i) <= DistanceOf(f)
  BY DEF IsFirst, SearchInv, HeapFull
<1>7. \A i \in 1..Len(table) : DistanceOf(i) \in Int
  BY <1>0, RadiusIsTested, TableGrows DEF DistanceOf
<1>8. Distance(r) \in Int
  BY <1>0, RadiusIsTested DEF RowAdded
<1>9. ASSUME NEW i \in 1..Len(table), DistanceOf(f) <= DistanceOf(i) PROVE Beaten(i)'
  <2>1. ASSUME NEW j \in list' PROVE DistanceOf(j)' <= DistanceOf(i)'
    <3>1. CASE j \in list
      <4>1. DistanceOf(j) <= DistanceOf(i)
        BY <1>2, <1>6, <1>7, <1>9, <3>1
      <4> QED BY <1>0, <1>2, <3>1, <4>1, RowKept
    <3>2. CASE j = Len(table) + 1
      <4>1. Distance(r) <= DistanceOf(i)
        BY <1>2, <1>7, <1>8, <1>9
      <4> QED BY <1>0, <3>2, <4>1, RowKept, RowNew
    <3> QED BY <1>0, <3>1, <3>2
  <2> QED BY <1>0, <1>4, <2>1 DEF Beaten
<1>10. NoneMissed'
  <2> SUFFICES ASSUME NEW i \in DOMAIN table',
                      ended' = 0 \/ i < ended', InRange(table[i])', Matches(table[i])'
               PROVE  i \in list' \/ Beaten(i)'
    BY DEF NoneMissed
  <2>1. CASE i = Len(table) + 1
    BY <1>0, <2>1
  <2>2. CASE i \in 1..Len(table)
    <3>1. i \in list \/ Beaten(i)
      BY <1>0, <2>2, RowKept DEF SearchInv, NoneMissed
    <3>2. CASE i = f
      BY <1>7, <1>9, <2>2, <3>2
    <3>3. CASE Beaten(i)
      BY <1>9, <2>2, <3>3 DEF Beaten
    <3> QED BY <3>1, <3>2, <3>3
  <2> QED BY <1>0, <2>1, <2>2, OldOrNew
<1> QED BY <1>1, <1>3, <1>5, <1>10 DEF SearchInv

(* A row no nearer than the furthest of a full list stays out.              *)
LEMMA BeatenStep ==
  ASSUME SearchInv, NEW r, RowAdded(r), ended' = ended, UNCHANGED <<list, heap>>,
         Nearest, Cardinality(list) = query.n, NEW f \in list, IsFirst(f),
         ~(Distance(r) < DistanceOf(f))
  PROVE  SearchInv'
<1>0. query' = query /\ RowsTyped /\ query \in PlaceQueries
  BY DEF RowAdded, SearchInv, RowsTyped
<1>1. RowsTyped' /\ Sorted' /\ EndedNorth'
  BY SortedStep, EndedStep DEF SearchInv
<1>2. \A i \in list : i \in 1..Len(table) /\ Matches(table[i])
  BY TableGrows, <1>0 DEF SearchInv, TakenMatch
<1>3. TakenMatch'
  BY <1>0, <1>2, RowKept DEF TakenMatch
<1>4. HeapFull'
  BY <1>0 DEF SearchInv, HeapFull, Nearest
<1>5. \A i \in 1..Len(table) : DistanceOf(i) \in Int
  BY <1>0, RadiusIsTested, TableGrows DEF DistanceOf
<1>6. \A i \in list : DistanceOf(i) <= Distance(r)
  <2>1. Distance(r) \in Int
    BY <1>0, RadiusIsTested DEF RowAdded
  <2>2. \A i \in list : DistanceOf(i) <= DistanceOf(f)
    BY DEF IsFirst, SearchInv, HeapFull
  <2> QED BY <1>2, <1>5, <2>1, <2>2
<1>7. NoneMissed'
  <2> SUFFICES ASSUME NEW i \in DOMAIN table',
                      ended' = 0 \/ i < ended', InRange(table[i])', Matches(table[i])'
               PROVE  i \in list \/ Beaten(i)'
    BY DEF NoneMissed
  <2>1. CASE i = Len(table) + 1
    BY <1>0, <1>2, <1>6, <2>1, RowKept, RowNew DEF Beaten
  <2>2. CASE i \in 1..Len(table)
    <3>1. i \in list \/ Beaten(i)
      BY <1>0, <2>2, RowKept DEF SearchInv, NoneMissed
    <3>2. ASSUME Beaten(i) PROVE Beaten(i)'
      BY <1>0, <1>2, <2>2, <3>2, RowKept DEF Beaten
    <3> QED BY <3>1, <3>2
  <2> QED BY <1>0, <2>1, <2>2, OldOrNew
<1> QED BY <1>1, <1>3, <1>4, <1>7 DEF SearchInv

LEMMA TakeStep ==
  ASSUME SearchInv, NEW r, RowAdded(r), ended' = ended, Takes(r), Take(r)
  PROVE  SearchInv'
<1>0. query \in PlaceQueries /\ r \in PlaceRows /\ Matches(r)
  BY TakesMatches DEF SearchInv, RowsTyped, RowAdded
<1>1. query.n \in Nat /\ query.n > 0
  BY <1>0, QueryKinds DEF TypedQuery
<1>2. Nearest => /\ Cardinality(list) \in Nat /\ Cardinality(list) <= query.n
                 /\ heap <=> Cardinality(list) = query.n
  BY FS_CardinalityType DEF SearchInv, HeapFull
<1>3. CASE /\ ~Nearest \/ Cardinality(list) < query.n - 1
           /\ list' = list \cup {Here} /\ UNCHANGED heap
  <2>1. Nearest => Cardinality(list) < query.n /\ ~(Cardinality(list) = query.n - 1)
                   /\ ~(Cardinality(list) = query.n)
    BY <1>1, <1>2, <1>3
  <2>2. Nearest => ~heap'
    BY <1>2, <1>3, <2>1
  <2> QED BY <1>0, <1>3, <2>1, <2>2, AddStep
<1>4. CASE /\ Nearest /\ Cardinality(list) >= query.n - 1 /\ Completes(Cardinality(list))
           /\ list' = list \cup {Here} /\ heap' = TRUE
  <2>1. Cardinality(list) = query.n - 1 /\ Cardinality(list) < query.n
    BY <1>1, <1>2, <1>4 DEF Completes
  <2> QED BY <1>0, <1>4, <2>1, AddStep
<1>5. CASE /\ Nearest /\ Cardinality(list) >= query.n - 1 /\ ~Completes(Cardinality(list))
           /\ \E f \in list :
                /\ IsFirst(f)
                /\ list' = IF Distance(r) < DistanceOf(f) THEN (list \ {f}) \cup {Here} ELSE list
           /\ UNCHANGED heap
  <2>1. Cardinality(list) = query.n
    BY <1>1, <1>2, <1>5 DEF Completes
  <2>2. PICK f \in list :
          /\ IsFirst(f)
          /\ list' = IF Distance(r) < DistanceOf(f) THEN (list \ {f}) \cup {Here} ELSE list
    BY <1>5
  <2>3. CASE Distance(r) < DistanceOf(f)
    BY <1>0, <1>5, <2>1, <2>2, <2>3, ReplaceStep
  <2>4. CASE ~(Distance(r) < DistanceOf(f))
    BY <1>0, <1>5, <2>1, <2>2, <2>4, BeatenStep
  <2> QED BY <2>3, <2>4
<1> QED BY <1>3, <1>4, <1>5 DEF Take

LEMMA PlaceRowInv ==
  ASSUME SearchInv, NEW r \in PlaceRows, PlaceRow(r)
  PROVE  SearchInv'
<1>0. query \in PlaceQueries /\ query' = query /\ ended = 0 /\ MayFollow(r) /\ InRange(r)
      /\ table' = Append(table, r)
  BY DEF SearchInv, RowsTyped, PlaceRow
<1>1. CASE Ends(r) /\ ended' = Here /\ UNCHANGED <<n, list, heap>>
  <2>1. RowAdded(r) /\ ended' # 0
    BY <1>0, <1>1 DEF RowAdded, Here, SearchInv, RowsTyped
  <2> QED BY <1>1, <2>1, SkipStep DEF Skipped
<1>2. CASE Takes(r) /\ Take(r) /\ UNCHANGED ended
  BY <1>0, <1>2, TakeStep DEF RowAdded
<1>3. CASE ~Ends(r) /\ ~Takes(r) /\ UNCHANGED <<n, list, heap, ended>>
  <2>1. CASE Nearest
    <3>1. ~Matches(r)
      BY <1>0, <1>3, <2>1, TakesMatches
    <3> QED BY <1>0, <1>3, <3>1, SkipStep DEF RowAdded, Skipped
  <2>2. CASE ~Nearest
    BY <1>0, <1>3, <2>2, SkipStep DEF RowAdded, Skipped
  <2> QED BY <2>1, <2>2
<1> QED BY <1>1, <1>2, <1>3 DEF PlaceRow

LEMMA PassByInv ==
  ASSUME SearchInv, NEW r \in PlaceRows, PassBy(r)
  PROVE  SearchInv'
<1>1. RowAdded(r) /\ UNCHANGED <<list, heap>> /\ ended' = ended
  BY DEF PassBy, RowAdded
<1>2. Skipped(r)
  BY <1>1 DEF PassBy, Skipped
<1> QED BY <1>1, <1>2, SkipStep

LEMMA NextIInv == IInv /\ [Next]_vars => IInv'
<1> SUFFICES ASSUME IInv, [Next]_vars PROVE IInv'
  OBVIOUS
<1>1. CASE UNCHANGED vars
  BY <1>1
  DEF vars, IInv, TypedQuery, Search, SearchInv, RowsTyped, Sorted, TakenMatch, EndedNorth, HeapFull,
      NoneMissed, Beaten, Nearest, DistanceOf, Distance, Matches, Visible, InRadius, Reach, InRange,
      TooFar, LatDistance, LonDistance
<1>2. ASSUME NEW r \in PlaceRows, PlaceRow(r) \/ PassBy(r) PROVE IInv'
  <2>1. query' = query /\ SearchInv
    BY <1>2 DEF PlaceRow, PassBy, IInv, Search
  <2> QED BY <1>2, <2>1, PlaceRowInv, PassByInv DEF IInv, TypedQuery, Search
<1>3. ASSUME NEW r \in NameRows, NameRow(r) PROVE IInv'
  BY <1>3 DEF NameRow, IInv, TypedQuery, Search
<1> QED BY <1>1, <1>2, <1>3 DEF Next

LEMMA InvariantHolds == Spec => []IInv
BY InitIInv, NextIInv, PTL DEF Spec

-----------------------------------------------------------------------------

(* Whatever a search by place lists is visible to the user, passes the text  *)
(* filters and has the point in its radius, along the shorter way round.     *)
THEOREM ListsMatchesOnly == Spec => []ListedMatch
<1>1. IInv => ListedMatch
  BY DEF IInv, Search, SearchInv, TakenMatch, ListedMatch
<1> QED BY <1>1, InvariantHolds, PTL

(* Until it ends, a search by place misses no match but for n others that    *)
(* are no further, however long the table and whatever the order of ties.    *)
THEOREM ListsTheNearest == Spec => []NearestListed
<1>1. IInv => NearestListed
  BY DEF IInv, Search, SearchInv, HeapFull, NoneMissed, NearestListed
<1> QED BY <1>1, InvariantHolds, PTL

(* Where the search ended: that row is none of the misplaced ones, since the *)
(* point is north of it by less than 0.1 degrees or south of it.            *)
LEMMA EndIsInPlace ==
  ASSUME query \in PlaceQueries, NEW r \in PlaceRows, query.lat # None,
         InRange(r), TooFar(r), Latitude(Pos(r.lat)) >= query.lat
  PROVE  Pos(r.lat) # -2 * Hundred
<1> SUFFICES ASSUME Pos(r.lat) = -2 * Hundred PROVE FALSE
  OBVIOUS
<1> DEFINE q == query.lat
           south == query.lat - Tenth
<1>1. r.lat \in Latitudes /\ q \in Latitudes /\ Hundred \in Nat
  BY AngleAssumption DEF PlaceQueries, PlaceRows
<1>2. /\ q \in Int /\ Tenth \in Nat /\ Tenth > 0 /\ south \in Int
      /\ south + Hundred >= 2 /\ Hundred - south >= 2
  BY <1>1, Angles
<1>3. Latitude(Pos(r.lat)) = Rounded(r.lat) /\ Rounded(r.lat) <= 0 /\ Rounded(r.lat) \in Int
  BY <1>1, Angles, ReadBack
<1>4. q <= 0
  BY <1>2, <1>3
<1>5. Pos(south) <= -2 * Hundred
  BY DEF InRange
<1>6. south < 0 /\ south >= -1
  <2>1. Pos(south) = -2 * Hundred /\ south < 0
    BY <1>1, <1>2, <1>5, ReadBack
  <2>2. Rounded(south + Hundred) = Hundred \/ Rounded(south + Hundred) - 2 * Hundred = -2 * Hundred
    BY <1>1, <1>2, <2>1 DEF Pos
  <2>3. Rounded(south + Hundred) \in Int /\ Rounded(south + Hundred) > 0
    BY <1>1, <1>2 DEF Rounded
  <2>4. Rounded(south + Hundred) = Hundred
    BY <1>1, <2>2, <2>3
  <2>5. south + Hundred + 1 >= Hundred
    BY <1>1, <1>2, <2>4 DEF Rounded
  <2> QED BY <1>1, <1>2, <2>1, <2>5
<1>7. Tenth >= 3
  BY <1>2, TenthBound
<1> QED BY <1>2, <1>4, <1>6, <1>7

(* The row that ends the search is north of the point by more than its own   *)
(* reach, and so is every later row: it matches only with a larger radius.   *)
THEOREM EndLosesLargerRadiiOnly == Spec => []EndLosesLargerOnly
<1>1. IInv => EndLosesLargerOnly
  <2> SUFFICES ASSUME IInv, query.kind = "place", Nearest, ended # 0,
                      NEW i \in DOMAIN table, i > ended, Matches(table[i])
               PROVE  Reach(table[i]) > Reach(table[ended])
    BY DEF EndLosesLargerOnly
  <2> DEFINE e == table[ended]
             r == table[i]
             q == query.lat
  <2>1. SearchInv /\ query \in PlaceQueries /\ e \in PlaceRows /\ r \in PlaceRows
        /\ ended \in DOMAIN table /\ ended <= i
    BY DEF IInv, Search, SearchInv, RowsTyped
  <2>2. InRange(e) /\ TooFar(e) /\ Latitude(Pos(e.lat)) >= q /\ Pos(e.lat) <= Pos(r.lat)
    BY <2>1 DEF SearchInv, EndedNorth, Sorted
  <2>3. q # None /\ q \in Latitudes /\ e.lat \in Latitudes /\ r.lat \in Latitudes
    BY <2>1, <2>2, RadiusIsTested DEF PlaceQueries, PlaceRows
  <2>4. Pos(e.lat) # -2 * Hundred
    BY <2>1, <2>2, <2>3, EndIsInPlace
  <2>5. /\ Rounded(e.lat) \in Int /\ Rounded(r.lat) \in Int /\ q \in Int
        /\ Rounded(e.lat) <= Rounded(r.lat) /\ Rounded(e.lat) >= q
    BY <2>2, <2>3, <2>4, Angles, ReadBack, PosFollows
  <2>6. Reach(e) \in Int /\ Reach(r) \in Int
    BY <2>1, ReachBound
  <2>7. Abs(q - Rounded(e.lat)) > Reach(e)
    BY <2>1, <2>2, <2>3, RadiusIsTested DEF TooFar
  <2>8. Abs(q - Rounded(r.lat)) <= Reach(r)
    BY <2>1, <2>3 DEF Matches, InRadius
  <2> HIDE DEF e, r, q
  <2>9. Rounded(e.lat) - q > Reach(e) /\ Rounded(r.lat) - q <= Reach(r)
    BY <2>5, <2>6, <2>7, <2>8 DEF Abs
  <2> QED BY <2>5, <2>6, <2>9 DEF e, r
<1> QED BY <1>1, InvariantHolds, PTL

(* With one radius for all locations a search by place does what the comment  *)
(* above avDbChannelsToListByLocation says: whatever has the point in its       *)
(* radius and is within the range is listed, unless n others are no further.  *)
(* The row that ends the query can only hide rows of a larger radius, so      *)
(* unequal radii are the whole reason for what the query misses.              *)
OneRadius == \A q, r \in Radii : q = r

THEOREM OneRadiusFindsAll ==
  ASSUME OneRadius
  PROVE  Spec => []FoundInRadius
<1>1. IInv /\ NearestListed /\ EndLosesLargerOnly => FoundInRadius
  <2> SUFFICES ASSUME IInv, NearestListed, EndLosesLargerOnly, query.kind = "place", query.lat # None,
                      NEW i \in DOMAIN table, InRange(table[i]), Matches(table[i])
               PROVE  i \in list \/ Beaten(i)
    BY DEF FoundInRadius
  <2>1. Nearest
    BY DEF Nearest
  <2>2. SearchInv /\ query \in PlaceQueries /\ table \in Seq(PlaceRows) /\ ended \in {0} \cup DOMAIN table
    BY DEF IInv, Search, SearchInv, RowsTyped
  <2>3. CASE ended = 0 \/ i < ended
    BY <2>1, <2>3 DEF NearestListed
  <2>4. CASE ended # 0 /\ i = ended
    <3>1. TooFar(table[i])
      BY <2>1, <2>2, <2>4 DEF SearchInv, EndedNorth
    <3>2. InRadius(table[i]) /\ table[i] \in PlaceRows
      BY <2>2 DEF Matches
    <3> QED
      BY <2>2, <3>1, <3>2, RadiusIsTested
  <2>5. CASE ended # 0 /\ i > ended
    <3>1. Reach(table[i]) > Reach(table[ended])
      BY <2>1, <2>5 DEF EndLosesLargerOnly
    <3>2. table[i] \in PlaceRows /\ table[ended] \in PlaceRows
      BY <2>2, <2>5
    <3>3. table[i].rad = table[ended].rad
      BY <3>2 DEF OneRadius, PlaceRows
    <3>4. Reach(table[i]) = Reach(table[ended])
      BY <3>3 DEF Reach
    <3>5. Reach(table[i]) \in Int
      BY <3>2, ReachBound
    <3> QED
      BY <3>1, <3>4, <3>5
  <2> QED
    BY <2>2, <2>3, <2>4, <2>5
<1> QED BY <1>1, InvariantHolds, ListsTheNearest, EndLosesLargerRadiiOnly, PTL

(* The range of texts between the ones of 0.1 degrees south and north keeps  *)
(* every row with the point in its radius, but for the ones the property     *)
(* names.                                                                   *)
THEOREM RangeKeepsReach == Spec => []RangeLosesNothing
<1>1. IInv => RangeLosesNothing
  <2> SUFFICES ASSUME IInv, query.kind = "place", query.lat # None, NEW i \in DOMAIN table,
                      InRadius(table[i]), ~Misplaced(Pos(table[i].lat)),
                      ~Misplaced(Pos(query.lat + Tenth))
               PROVE  InRange(table[i]) \/ Pos(table[i].lat) = Pos(query.lat + Tenth)
    BY DEF RangeLosesNothing
  <2> DEFINE l == table[i].lat
             south == query.lat - Tenth
             north == query.lat + Tenth
  <2>1. query \in PlaceQueries /\ table[i] \in PlaceRows
    BY DEF IInv, Search, SearchInv, RowsTyped
  <2>2. query.lat \in Latitudes /\ l \in Latitudes
    BY <2>1 DEF PlaceQueries, PlaceRows
  <2>3. /\ l \in Int /\ l + Hundred >= 2 /\ Hundred - l >= 2
        /\ south \in Int /\ south + Hundred >= 2 /\ Hundred - south >= 2
        /\ north \in Int /\ north + Hundred >= 2 /\ Hundred - north >= 2
        /\ query.lat \in Int /\ Tenth \in Nat
    <3>1. Hundred \in Nat
      BY AngleAssumption
    <3> QED BY <2>2, <3>1, Angles
  <2>4. Pos(l) \in Int /\ Rounded(l) \in Int /\ Pos(south) \in Int /\ Pos(north) \in Int
    BY <2>3, ReadBack
  <2>5. south <= Rounded(l) /\ Rounded(l) <= north
    <3>1. Abs(query.lat - Rounded(l)) <= Reach(table[i]) /\ Reach(table[i]) \in 0..Tenth
      BY <2>1, ReachBound DEF InRadius
    <3> QED BY <2>3, <2>4, <3>1 DEF Abs
  <2>6. Rounded(south) <= Rounded(l) /\ Rounded(l) <= Rounded(north)
    BY <2>3, <2>4, <2>5, RoundedBounds
  <2>7. Pos(south) <= Pos(l) /\ Pos(l) <= Pos(north)
    BY <2>3, <2>6, PosKeepsOrder DEF Misplaced
  <2> QED BY <2>4, <2>7 DEF InRange
<1> QED BY <1>1, InvariantHolds, PTL

-----------------------------------------------------------------------------
(* Counting the members of a set of row numbers up to one of them.          *)

Upto(S, k) == {j \in 1..k : j \in S}
Count(S, k) == Cardinality(Upto(S, k))

LEMMA UptoFinite ==
  ASSUME NEW S, NEW k \in Nat
  PROVE  IsFiniteSet(Upto(S, k)) /\ Count(S, k) \in Nat
<1>1. IsFiniteSet(1..k) /\ Upto(S, k) \in SUBSET (1..k)
  BY FS_Interval DEF Upto
<1>2. IsFiniteSet(Upto(S, k))
  BY <1>1, FS_Subset
<1> QED BY <1>2, FS_CardinalityType DEF Count

LEMMA CountStep ==
  ASSUME NEW S, NEW k \in Nat
  PROVE  Count(S, k + 1) = IF k + 1 \in S THEN Count(S, k) + 1 ELSE Count(S, k)
<1>1. k + 1 \notin Upto(S, k) /\ IsFiniteSet(Upto(S, k))
  BY UptoFinite DEF Upto
<1>2. CASE k + 1 \in S
  <2>1. Upto(S, k + 1) = Upto(S, k) \cup {k + 1}
    BY <1>2 DEF Upto
  <2> QED BY <1>1, <1>2, <2>1, FS_AddElement DEF Count
<1>3. CASE k + 1 \notin S
  <2>1. Upto(S, k + 1) = Upto(S, k)
    BY <1>3 DEF Upto
  <2> QED BY <1>3, <2>1 DEF Count
<1> QED BY <1>2, <1>3

(* L is the page of S, from its lo-th member to its hi-th, as far as row k.  *)
Page(L, S, k, lo, hi) ==
  /\ L \subseteq 1..k
  /\ \A i \in 1..k : i \in L <=> i \in S /\ Count(S, i) \in lo..hi

LEMMA PageGrows ==
  ASSUME NEW S, NEW T, NEW L, NEW M, NEW k \in Nat, NEW lo \in Nat, NEW hi \in Nat,
         Page(L, S, k, lo, hi),
         \A i \in 1..k : i \in S <=> i \in T,
         M = L \/ M = L \cup {k + 1},
         k + 1 \in M <=> k + 1 \in T /\ Count(S, k) + 1 \in lo..hi
  PROVE  /\ Page(M, T, k + 1, lo, hi)
         /\ Count(T, k + 1) = IF k + 1 \in T THEN Count(S, k) + 1 ELSE Count(S, k)
<1>1. \A i \in 0..k : Count(S, i) = Count(T, i)
  <2>1. ASSUME NEW i \in 0..k PROVE Upto(S, i) = Upto(T, i)
    <3>1. \A j \in 1..i : j \in 1..k
      OBVIOUS
    <3> QED BY <3>1 DEF Upto
  <2> QED BY <2>1 DEF Count
<1>2. Count(T, k + 1) = IF k + 1 \in T THEN Count(S, k) + 1 ELSE Count(S, k)
  <2>1. Count(S, k) = Count(T, k)
    BY <1>1
  <2> QED BY <2>1, CountStep
<1>3. M \subseteq 1..(k + 1)
  <2>1. L \subseteq 1..k
    BY DEF Page
  <2>2. 1..k \subseteq 1..(k + 1) /\ k + 1 \in 1..(k + 1)
    OBVIOUS
  <2> QED BY <2>1, <2>2
<1>4. ASSUME NEW i \in 1..k PROVE i \in M <=> i \in T /\ Count(T, i) \in lo..hi
  <2>1. i # k + 1 /\ i \in 0..k
    OBVIOUS
  <2>2. Count(S, i) = Count(T, i)
    BY <1>1, <2>1
  <2> QED BY <2>1, <2>2 DEF Page
<1>5. k + 1 \in M <=> k + 1 \in T /\ Count(T, k + 1) \in lo..hi
  BY <1>2
<1>6. \A i \in 1..(k + 1) : i \in 1..k \/ i = k + 1
  OBVIOUS
<1> QED BY <1>2, <1>3, <1>4, <1>5, <1>6 DEF Page

-----------------------------------------------------------------------------
(* A search without a place.                                                *)

Matching == {j \in DOMAIN table : Matches(table[j])}

(* n counts the matches still to be taken; the query ends when there is no   *)
(* more room.                                                               *)
FirstInv ==
  query \in PlaceQueries /\ ~Nearest =>
    /\ n \in Nat /\ n <= query.n
    /\ Page(list, Matching, Len(table), 1, query.n)
    /\ ended = 0 => Count(Matching, Len(table)) = query.n - n
    /\ ended # 0 => Count(Matching, Len(table)) >= query.n

(* Without a place every row is in range and in reach.                       *)
LEMMA NoPlace ==
  ASSUME query \in PlaceQueries, ~Nearest, NEW r \in PlaceRows
  PROVE  /\ InRange(r)
         /\ Matches(r) <=> Visible(r) /\ r.named
         /\ Ends(r) <=> Visible(r) /\ n = 0
         /\ Takes(r) <=> Matches(r) /\ n # 0
<1>1. query.lat = None /\ query.lon = None
  BY DEF Nearest
<1>2. InRange(r) /\ InRadius(r)
  BY <1>1 DEF InRange, InRadius
<1>3. ~TooFar(r) /\ LonDistance(r) <= Reach(r)
  BY <1>2, RadiusIsTested
<1> QED BY <1>2, <1>3 DEF Matches, Ends, Takes, PageFull

LEMMA FirstStep ==
  ASSUME IInv, FirstInv, NEW r \in PlaceRows, PlaceRow(r) \/ PassBy(r),
         query \in PlaceQueries, ~Nearest
  PROVE  FirstInv'
<1> DEFINE k == Len(table)
<1>1. query' = query /\ table' = Append(table, r) /\ RowAdded(r) /\ RowsTyped
  <2>1. RowsTyped /\ query' = query /\ table' = Append(table, r) /\ MayFollow(r)
    BY QueryKinds DEF PlaceRow, PassBy, IInv, Search, SearchInv
  <2>2. RowAdded(r)
    BY <2>1 DEF PlaceRow, PassBy, RowAdded, Here
  <2> QED BY <2>1, <2>2
<1>2. /\ k \in Nat /\ DOMAIN table = 1..k /\ DOMAIN table' = 1..(k + 1)
      /\ Len(table') = k + 1
  BY <1>1, TableGrows DEF RowsTyped
<1>3. \A i \in 1..k : i \in Matching <=> i \in Matching'
  BY <1>1, <1>2, RowKept DEF Matching
<1>4. k + 1 \in Matching' <=> Matches(r)
  BY <1>1, <1>2, RowNew DEF Matching
<1>5. query.n \in Nat /\ query.n > 0
  BY QueryKinds DEF IInv
<1>6. /\ n \in Nat /\ n <= query.n
      /\ Page(list, Matching, k, 1, query.n)
      /\ ended = 0 => Count(Matching, k) = query.n - n
      /\ ended # 0 => Count(Matching, k) >= query.n
  BY DEF FirstInv
<1>7. Count(Matching, k) \in Nat
  BY <1>2, UptoFinite
<1>8. k + 1 \notin list
  BY <1>2, <1>6 DEF Page
<1>9. ~Nearest'
  BY <1>1 DEF Nearest
<1> HIDE DEF k
<1>10. CASE /\ ended = 0 /\ Takes(r) /\ n' = n - 1 /\ list' = list \cup {k + 1} /\ ended' = 0
  <2>1. Matches(r) /\ n # 0
    BY <1>10, NoPlace
  <2>2. Count(Matching, k) + 1 \in 1..query.n
    BY <1>5, <1>6, <1>7, <1>10, <2>1
  <2>3. /\ Page(list', Matching', k + 1, 1, query.n)
        /\ Count(Matching', k + 1) = Count(Matching, k) + 1
    BY <1>2, <1>3, <1>4, <1>5, <1>6, <1>10, <2>1, <2>2, PageGrows
  <2>4. n' \in Nat /\ n' <= query.n /\ Count(Matching', k + 1) = query.n - n'
    BY <1>5, <1>6, <1>7, <1>10, <2>1, <2>3
  <2> QED BY <1>1, <1>2, <1>10, <2>3, <2>4 DEF FirstInv
<1>11. CASE /\ UNCHANGED <<n, list>>
            /\ \/ ended # 0 /\ ended' = ended
               \/ ended = 0 /\ n = 0 /\ ended' # 0
               \/ ended = 0 /\ ended' = 0 /\ ~Matches(r)
  <2>1. ~Matches(r) \/ Count(Matching, k) >= query.n
    BY <1>5, <1>6, <1>11
  <2>2. ~(Matches(r) /\ Count(Matching, k) + 1 \in 1..query.n)
    BY <1>5, <1>7, <2>1
  <2>3. /\ Page(list', Matching', k + 1, 1, query.n)
        /\ Count(Matching', k + 1)
             = IF k + 1 \in Matching' THEN Count(Matching, k) + 1 ELSE Count(Matching, k)
    <3>1. list' = list /\ ~(k + 1 \in Matching' /\ Count(Matching, k) + 1 \in 1..query.n)
      BY <1>4, <1>11, <2>2
    <3>2. k + 1 \in list' <=> k + 1 \in Matching' /\ Count(Matching, k) + 1 \in 1..query.n
      BY <1>8, <3>1
    <3>3. Page(list, Matching, k, 1, query.n) /\ 1 \in Nat
      BY <1>6
    <3> QED BY <1>2, <1>3, <1>5, <3>1, <3>2, <3>3, PageGrows
  <2>4. /\ ended' = 0 => Count(Matching', k + 1) = query.n - n'
        /\ ended' # 0 => Count(Matching', k + 1) >= query.n
    BY <1>4, <1>5, <1>6, <1>7, <1>11, <2>3
  <2> QED BY <1>1, <1>2, <1>6, <1>11, <2>3, <2>4 DEF FirstInv
<1>12. ASSUME PassBy(r) PROVE FirstInv'
  <2>1. ended # 0
    BY <1>12, NoPlace DEF PassBy
  <2> QED BY <1>11, <1>12, <2>1 DEF PassBy
<1>13. ASSUME PlaceRow(r) PROVE FirstInv'
  <2>1. ended = 0 /\ Here = k + 1 /\ Here # 0
    BY <1>2, <1>13 DEF PlaceRow, Here, k
  <2>2. CASE Ends(r) /\ ended' = Here /\ UNCHANGED <<n, list, heap>>
    BY <1>11, <2>1, <2>2, NoPlace
  <2>3. CASE Takes(r) /\ n' = (IF n > 0 THEN n - 1 ELSE n) /\ Take(r) /\ UNCHANGED ended
    <3>1. n > 0
      BY <1>6, <2>3, NoPlace
    <3>2. list' = list \cup {k + 1}
      BY <2>1, <2>3 DEF Take
    <3> QED BY <1>10, <2>1, <2>3, <3>1, <3>2
  <2>4. CASE ~Ends(r) /\ ~Takes(r) /\ UNCHANGED <<n, list, heap, ended>>
    <3>1. ~Matches(r)
      BY <2>4, NoPlace
    <3> QED BY <1>11, <2>1, <2>4, <3>1
  <2> QED BY <1>13, <2>2, <2>3, <2>4 DEF PlaceRow
<1> QED BY <1>12, <1>13

(* The counts of the properties are the counts of the invariants.            *)
LEMMA CountsAgree ==
  ASSUME NEW k \in Nat, DOMAIN table = 1..k, NEW i \in 1..k
  PROVE  Cardinality({j \in 1..i : Matches(table[j])}) = Count(Matching, i)
<1>1. \A j \in 1..i : j \in 1..k
  OBVIOUS
<1>2. {j \in 1..i : Matches(table[j])} = Upto(Matching, i)
  BY <1>1 DEF Upto, Matching
<1> QED BY <1>2 DEF Count

LEMMA FirstInvHolds == Spec => [](IInv /\ FirstInv)
<1>1. Init => FirstInv
  <2> SUFFICES ASSUME Init, query \in PlaceQueries, ~Nearest PROVE FirstInv
    BY DEF FirstInv
  <2>1. query.n \in Nat /\ n = query.n /\ list = {} /\ ended = 0 /\ table = << >>
    BY InitIInv, QueryKinds DEF Init, IInv
  <2>2. Len(table) = 0 /\ Upto(Matching, 0) = {}
    BY <2>1 DEF Upto
  <2>3. Count(Matching, 0) = 0
    BY <2>2, FS_EmptySet DEF Count
  <2>4. Page(list, Matching, 0, 1, query.n)
    BY <2>1 DEF Page
  <2> QED BY <2>1, <2>2, <2>3, <2>4 DEF FirstInv
<1>2. IInv /\ FirstInv /\ [Next]_vars => FirstInv'
  <2> SUFFICES ASSUME IInv, FirstInv, [Next]_vars, query' \in PlaceQueries, ~Nearest'
               PROVE  FirstInv'
    BY DEF FirstInv
  <2>1. CASE UNCHANGED vars
    BY <2>1 DEF vars, FirstInv, Page, Count, Upto, Matching, Nearest, Matches, Visible, InRadius, Reach
  <2>2. ASSUME NEW r \in PlaceRows, PlaceRow(r) \/ PassBy(r) PROVE FirstInv'
    <3>1. query' = query
      BY <2>2 DEF PlaceRow, PassBy
    <3> QED BY <2>2, <3>1, FirstStep DEF Nearest
  <2>3. ASSUME NEW r \in NameRows, NameRow(r) PROVE FALSE
    BY <2>3, QueryKinds DEF NameRow, IInv, TypedQuery, PlaceQueries
  <2> QED BY <2>1, <2>2, <2>3 DEF Next
<1> QED BY <1>1, <1>2, InitIInv, NextIInv, PTL DEF Spec

(* Without a place, a search lists the first n matches of the table and      *)
(* nothing else, although it only counts down and stops at a visible row     *)
(* that need not match.                                                     *)
THEOREM ListsTheFirst == Spec => []FirstListed
<1>1. IInv /\ FirstInv => FirstListed
  <2> SUFFICES ASSUME IInv, FirstInv, query.kind = "place", ~Nearest, NEW i \in DOMAIN table
               PROVE  i \in list <=> /\ Matches(table[i])
                                     /\ Cardinality({j \in 1..i : Matches(table[j])}) <= query.n
    BY DEF FirstListed
  <2>1. /\ query \in PlaceQueries /\ query.n \in Nat
        /\ Len(table) \in Nat /\ DOMAIN table = 1..Len(table)
    BY QueryKinds DEF IInv, Search, SearchInv, RowsTyped
  <2>2. Page(list, Matching, Len(table), 1, query.n)
    BY <2>1 DEF FirstInv
  <2>3. i \in list <=> Matches(table[i]) /\ Count(Matching, i) \in 1..query.n
    BY <2>1, <2>2 DEF Page, Matching
  <2>4. Matches(table[i]) => Count(Matching, i) \in Nat /\ Count(Matching, i) >= 1
    <3>1. i - 1 \in Nat /\ (i - 1) + 1 = i
      BY <2>1
    <3>2. Count(Matching, i - 1) \in Nat
      BY <3>1, UptoFinite
    <3>3. Count(Matching, i) = IF i \in Matching THEN Count(Matching, i - 1) + 1
                                                 ELSE Count(Matching, i - 1)
      BY <3>1, CountStep
    <3> QED BY <3>2, <3>3 DEF Matching
  <2>5. Cardinality({j \in 1..i : Matches(table[j])}) = Count(Matching, i)
    BY <2>1, CountsAgree
  <2> QED BY <2>1, <2>3, <2>4, <2>5
<1> QED BY <1>1, FirstInvHolds, PTL

-----------------------------------------------------------------------------
(* A list by name.                                                          *)

VisibleRows == {j \in DOMAIN table : Visible(table[j])}

(* offset counts the visible rows still to be skipped, then n those still to *)
(* be taken.                                                                *)
PageInv ==
  query \in NameQueries =>
    /\ table \in Seq(NameRows)
    /\ n \in Nat /\ n <= query.n /\ offset \in Nat /\ offset <= query.offset
    /\ offset > 0 => n = query.n
    /\ Page(list, VisibleRows, Len(table), query.offset + 1, query.offset + query.n)
    /\ ended = 0 => Count(VisibleRows, Len(table)) = (query.offset - offset) + (query.n - n)

LEMMA NameQuery ==
  ASSUME query \in NameQueries
  PROVE  /\ query.kind = "name" /\ query.n \in Nat /\ query.n > 0 /\ query.offset \in Nat
         /\ query \notin PlaceQueries
<1>1. query.kind = "name" /\ query.n \in Limits /\ query.offset \in Offsets
  BY DEF NameQueries
<1>2. query.n \in Nat \ {0} /\ query.offset \in Nat
  BY <1>1, LimitAssumption
<1>3. query.n \in Nat /\ query.n > 0
  BY <1>2
<1> QED BY <1>1, <1>2, <1>3 DEF PlaceQueries

LEMMA PageStep ==
  ASSUME PageInv, NEW r \in NameRows, NameRow(r), query \in NameQueries
  PROVE  PageInv'
<1> DEFINE k == Len(table)
           lo == query.offset + 1
           hi == query.offset + query.n
           c == Count(VisibleRows, k)
<1>1. query' = query /\ table' = Append(table, r) /\ ended = 0
  BY DEF NameRow
<1>2. /\ query.n \in Nat /\ query.n > 0 /\ query.offset \in Nat
      /\ lo \in Nat /\ hi \in Nat
  BY NameQuery
<1>3. /\ table \in Seq(NameRows) /\ n \in Nat /\ n <= query.n
      /\ offset \in Nat /\ offset <= query.offset
      /\ offset > 0 => n = query.n
      /\ Page(list, VisibleRows, k, lo, hi)
      /\ c = (query.offset - offset) + (query.n - n)
  BY <1>1 DEF PageInv
<1>4. /\ k \in Nat /\ DOMAIN table = 1..k /\ table' \in Seq(NameRows)
      /\ DOMAIN table' = 1..(k + 1) /\ Len(table') = k + 1 /\ table'[k + 1] = r
      /\ \A i \in 1..k : table'[i] = table[i]
  BY <1>1, <1>3
<1>5. \A i \in 1..k : i \in VisibleRows <=> i \in VisibleRows'
  BY <1>4 DEF VisibleRows, Visible
<1>6. k + 1 \in VisibleRows' <=> Visible(r)
  BY <1>4 DEF VisibleRows, Visible
<1>7. k + 1 \notin list /\ Here = k + 1
  BY <1>3, <1>4 DEF Page, Here
<1> HIDE DEF k
<1>8. ASSUME NEW m \in Nat, m <= query.n, n' = m, NEW o \in Nat, o <= query.offset, offset' = o,
             o > 0 => m = query.n,
             list' = list \/ list' = list \cup {k + 1},
             k + 1 \in list' <=> Visible(r) /\ c + 1 \in lo..hi,
             ended' = 0 => (IF Visible(r) THEN c + 1 ELSE c) = (query.offset - o) + (query.n - m)
      PROVE  PageInv'
  <2>1. /\ Page(list', VisibleRows', k + 1, lo, hi)
        /\ Count(VisibleRows', k + 1) = IF k + 1 \in VisibleRows' THEN c + 1 ELSE c
    <3>1. k + 1 \in list' <=> k + 1 \in VisibleRows' /\ c + 1 \in lo..hi
      BY <1>6, <1>8
    <3>2. lo \in Nat /\ hi \in Nat /\ k \in Nat /\ Page(list, VisibleRows, k, lo, hi)
      BY <1>2, <1>3, <1>4
    <3>3. list' = list \/ list' = list \cup {k + 1}
      BY <1>8
    <3> DEFINE S == VisibleRows
               T == VisibleRows'
               L == list
               M == list'
    <3>4. /\ Page(L, S, k, lo, hi) /\ k \in Nat /\ lo \in Nat /\ hi \in Nat
          /\ \A i \in 1..k : i \in S <=> i \in T
          /\ M = L \/ M = L \cup {k + 1}
          /\ k + 1 \in M <=> k + 1 \in T /\ Count(S, k) + 1 \in lo..hi
      BY <1>5, <3>1, <3>2, <3>3
    <3> HIDE DEF lo, hi, S, T, L, M
    <3>5. /\ Page(M, T, k + 1, lo, hi)
          /\ Count(T, k + 1) = IF k + 1 \in T THEN Count(S, k) + 1 ELSE Count(S, k)
      BY <3>4, PageGrows
    <3> QED BY <3>5 DEF S, T, M
  <2> QED BY <1>1, <1>4, <1>6, <1>8, <2>1 DEF PageInv
<1>9. CASE n = 0 /\ ended' = Here /\ UNCHANGED <<n, offset, list>>
  <2>1. c + 1 \notin lo..hi /\ ended' # 0
    BY <1>2, <1>3, <1>4, <1>7, <1>9
  <2> QED BY <1>3, <1>7, <1>8, <1>9, <2>1
<1>10. CASE n > 0 /\ Skips(r) /\ offset' = offset - 1 /\ UNCHANGED <<n, list, ended>>
  <2>1. Visible(r) /\ offset > 0
    BY <1>10 DEF Skips
  <2>2. /\ offset - 1 \in Nat /\ offset - 1 <= query.offset /\ c + 1 \notin lo..hi
        /\ c + 1 = (query.offset - (offset - 1)) + (query.n - n)
    <3>1. /\ offset \in Nat /\ offset > 0 /\ offset <= query.offset /\ query.offset \in Nat
          /\ n = query.n /\ query.n \in Nat /\ c = (query.offset - offset) + (query.n - n)
      BY <1>2, <1>3, <2>1
    <3>2. c \in Int /\ c + 1 < lo
      BY <3>1
    <3> HIDE DEF c
    <3> QED BY <3>1, <3>2
  <2> QED BY <1>3, <1>7, <1>8, <1>10, <2>1, <2>2
<1>11. CASE /\ n > 0 /\ ~Skips(r) /\ Visible(r) /\ n' = n - 1
            /\ list' = list \cup {Here} /\ UNCHANGED <<offset, ended>>
  <2>1. offset = 0
    BY <1>3, <1>11 DEF Skips
  <2>2. /\ n - 1 \in Nat /\ n - 1 <= query.n /\ c + 1 \in lo..hi
        /\ c + 1 = (query.offset - offset) + (query.n - (n - 1))
    BY <1>2, <1>3, <1>11, <2>1
  <2> QED BY <1>3, <1>7, <1>8, <1>11, <2>1, <2>2
<1>12. CASE n > 0 /\ ~Skips(r) /\ ~Visible(r) /\ UNCHANGED <<n, offset, list, ended>>
  BY <1>3, <1>7, <1>8, <1>12
<1> QED BY <1>9, <1>10, <1>11, <1>12 DEF NameRow

LEMMA PageInvHolds == Spec => [](IInv /\ PageInv)
<1>1. Init => PageInv
  <2> SUFFICES ASSUME Init, query \in NameQueries PROVE PageInv
    BY DEF PageInv
  <2>1. /\ n = query.n /\ offset = query.offset /\ list = {} /\ table = << >>
        /\ query.n \in Nat /\ query.offset \in Nat
    BY NameQuery DEF Init
  <2>2. Len(table) = 0 /\ Upto(VisibleRows, 0) = {} /\ table \in Seq(NameRows)
    BY <2>1 DEF Upto
  <2>3. Count(VisibleRows, 0) = 0
    BY <2>2, FS_EmptySet DEF Count
  <2>4. Page(list, VisibleRows, 0, query.offset + 1, query.offset + query.n)
    BY <2>1 DEF Page
  <2> QED BY <2>1, <2>2, <2>3, <2>4 DEF PageInv
<1>2. IInv /\ PageInv /\ [Next]_vars => PageInv'
  <2> SUFFICES ASSUME IInv, PageInv, [Next]_vars, query' \in NameQueries PROVE PageInv'
    BY DEF PageInv
  <2>1. CASE UNCHANGED vars
    BY <2>1 DEF vars, PageInv, Page, Count, Upto, VisibleRows, Visible
  <2>2. ASSUME NEW r \in PlaceRows, PlaceRow(r) \/ PassBy(r) PROVE FALSE
    BY <2>2, NameQuery DEF PlaceRow, PassBy, NameQueries
  <2>3. ASSUME NEW r \in NameRows, NameRow(r) PROVE PageInv'
    <3>1. query' = query
      BY <2>3 DEF NameRow
    <3> QED BY <2>3, <3>1, PageStep
  <2> QED BY <2>1, <2>2, <2>3 DEF Next
<1> QED BY <1>1, <1>2, InitIInv, NextIInv, PTL DEF Spec

(* A list by name is the page of the visible channels that was asked for:    *)
(* rows the user may not see never shift it.                                *)
THEOREM ListsThePage == Spec => []PageOfVisible
<1>1. IInv /\ PageInv => PageOfVisible
  <2> SUFFICES ASSUME IInv, PageInv, query.kind = "name", NEW i \in DOMAIN table
               PROVE  i \in list <=> /\ Visible(table[i])
                                     /\ Cardinality({j \in 1..i : Visible(table[j])})
                                          \in (query.offset + 1)..(query.offset + query.n)
    BY DEF PageOfVisible
  <2>1. query \in NameQueries
    BY DEF IInv, TypedQuery, PlaceQueries
  <2>2. /\ Len(table) \in Nat /\ DOMAIN table = 1..Len(table)
        /\ Page(list, VisibleRows, Len(table), query.offset + 1, query.offset + query.n)
    BY <2>1 DEF PageInv
  <2>3. \A j \in 1..i : j \in DOMAIN table
    BY <2>2
  <2>4. {j \in 1..i : Visible(table[j])} = Upto(VisibleRows, i)
    BY <2>3 DEF Upto, VisibleRows
  <2> QED BY <2>2, <2>4 DEF Page, Count, VisibleRows
<1> QED BY <1>1, PageInvHolds, PTL

-----------------------------------------------------------------------------
(* Types.                                                                   *)

(* What the invariants of the three kinds of queries say nothing of.        *)
CountersTyped ==
  /\ n \in Nat /\ offset \in Nat /\ heap \in BOOLEAN
  /\ query \in NameQueries => ended \in {0} \cup DOMAIN table

LEMMA CountersStep ==
  ASSUME TypedQuery, PageInv, CountersTyped, [Next]_vars
  PROVE  CountersTyped'
<1>1. CASE UNCHANGED vars
  BY <1>1 DEF vars, CountersTyped
<1>2. ASSUME NEW r \in PlaceRows, PlaceRow(r) \/ PassBy(r) PROVE CountersTyped'
  <2>1. query' \notin NameQueries /\ offset' = offset
    BY <1>2, NameQuery, QueryKinds DEF PlaceRow, PassBy, NameQueries
  <2>2. n' \in Nat
    <3>1. n' = n \/ (n > 0 /\ n' = n - 1)
      BY <1>2 DEF PlaceRow, PassBy, CountersTyped
    <3> QED BY <3>1 DEF CountersTyped
  <2>3. heap' = heap \/ heap' = TRUE
    BY <1>2 DEF PlaceRow, PassBy, Take
  <2> QED BY <2>1, <2>2, <2>3 DEF CountersTyped
<1>3. ASSUME NEW r \in NameRows, NameRow(r) PROVE CountersTyped'
  <2>1. query \in NameQueries /\ query' = query /\ heap' = heap /\ ended = 0
    BY <1>3, QueryKinds DEF NameRow, TypedQuery
  <2>2. table \in Seq(NameRows) /\ table' = Append(table, r)
    BY <1>3, <2>1 DEF NameRow, PageInv
  <2>3. ended' \in {0} \cup DOMAIN table'
    <3>1. Len(table) + 1 \in DOMAIN table'
      BY <2>2
    <3>2. ended' = Here \/ ended' = 0
      BY <1>3, <2>1 DEF NameRow
    <3> QED BY <3>1, <3>2 DEF Here
  <2>4. n' \in Nat /\ offset' \in Nat
    <3>1. n' = n \/ (n > 0 /\ n' = n - 1)
      BY <1>3 DEF NameRow
    <3>2. offset' = offset \/ (offset > 0 /\ offset' = offset - 1)
      BY <1>3 DEF NameRow, Skips
    <3> QED BY <3>1, <3>2 DEF CountersTyped
  <2> QED BY <2>1, <2>3, <2>4 DEF CountersTyped
<1> QED BY <1>1, <1>2, <1>3 DEF Next

(* Rows and counters are of their kinds, whichever list is asked for: n and  *)
(* offset are counted down but never below zero, and list and ended name     *)
(* rows that the query has looked at.                                       *)
THEOREM TypesHold == Spec => []TypeOK
<1>1. Init => CountersTyped
  <2> SUFFICES ASSUME Init PROVE CountersTyped
    OBVIOUS
  <2>1. query.n \in Nat /\ TypedQuery
    BY QueryKinds DEF Init, TypedQuery
  <2>2. query.offset \in Nat
    BY <2>1, NameQuery DEF TypedQuery, PlaceQueries
  <2> QED BY <2>1, <2>2 DEF Init, CountersTyped
<1>2. IInv /\ PageInv /\ CountersTyped /\ [Next]_vars => CountersTyped'
  BY CountersStep DEF IInv
<1>3. IInv /\ PageInv /\ CountersTyped => TypeOK
  <2> SUFFICES ASSUME IInv, PageInv, CountersTyped PROVE TypeOK
    OBVIOUS
  <2>1. query \in PlaceQueries \cup NameQueries
    BY DEF IInv, TypedQuery
  <2>2. CASE query \in PlaceQueries
    <3>1. RowsTyped /\ TakenMatch
      BY <2>1, <2>2, QueryKinds DEF IInv, Search, SearchInv
    <3> QED BY <2>1, <3>1 DEF TypeOK, RowsTyped, TakenMatch, CountersTyped
  <2>3. CASE query \in NameQueries
    <3>1. table \in Seq(NameRows) /\ list \subseteq 1..Len(table)
      BY <2>3 DEF PageInv, Page
    <3>2. list \subseteq DOMAIN table
      BY <3>1
    <3> QED BY <2>1, <2>3, <3>1, <3>2 DEF TypeOK, CountersTyped
  <2> QED BY <2>1, <2>2, <2>3
<1> QED BY <1>1, <1>2, <1>3, PageInvHolds, PTL DEF Spec
=============================================================================
