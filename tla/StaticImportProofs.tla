------------------------- MODULE StaticImportProofs -------------------------
(***************************************************************************)
(* The import is faithful for archives of any number and length and for    *)
(* every size of a batch, and the archive that is taken from a catalog is  *)
(* the newest valid one, whatever the catalog lists.                       *)
(*                                                                         *)
(* The invariant looks at a table together with the batch that is not yet  *)
(* written: once that is written too, the table holds, for every key of a  *)
(* row read so far, what the last of these rows says.  A step that reads a *)
(* row puts that row in, whether it flushes the batch or not.              *)
(***************************************************************************)
EXTENDS StaticImport, FeedSelectionProofs, FiniteSetTheorems, FiniteFacts, TLAPS

-----------------------------------------------------------------------------
(* Tables.                                                                 *)

(* The member that no other exceeds is the greatest one.                   *)
LEMMA MaxIs ==
  ASSUME NEW S \in SUBSET Int, NEW x \in S, \A y \in S : y <= x
  PROVE  Max(S) = x
<1> DEFINE m == CHOOSE y \in S : \A z \in S : y >= z
<1>1. \E y \in S : \A z \in S : y >= z
  OBVIOUS
<1>2. m \in S /\ \A z \in S : m >= z
  BY <1>1, Zenon
<1>3. Max(S) = m
  BY DEF Max
<1> HIDE DEF m
<1>4. m >= x /\ x >= m
  BY <1>2
<1> QED
  BY <1>2, <1>3, <1>4

(* A set of places in a file has a last one.                               *)
LEMMA MaxOfPlaces ==
  ASSUME NEW n \in Nat, NEW S \in SUBSET (1 .. n), S # {}
  PROVE  Max(S) \in S /\ \A y \in S : y <= Max(S)
<1>1. IsFiniteSet(1 .. n)
  BY FS_Interval
<1>2. IsFiniteSet(S)
  BY <1>1, FS_Subset
<1>3. S \in SUBSET Int
  OBVIOUS
<1>4. PICK x \in S : \A y \in S : y <= x
  BY <1>2, <1>3, FiniteBounds
<1>5. Max(S) = x
  BY <1>3, <1>4, MaxIs
<1> QED
  BY <1>4, <1>5

IsTable(W) == W = [key \in DOMAIN W |-> W[key]]

(* INSERT OR REPLACE of one row.                                           *)
Put(W, key, value) ==
  [k \in DOMAIN W \cup {key} |-> IF k = key THEN value ELSE W[k]]

LEMMA UpsertNothing ==
  ASSUME NEW W, IsTable(W), NEW pairs, DOMAIN pairs = {}
  PROVE  Upsert(W, pairs) = W
BY DEF Upsert, IsTable

LEMMA UpsertIsTable ==
  ASSUME NEW table, NEW pairs
  PROVE  IsTable(Upsert(table, pairs))
BY DEF Upsert, IsTable

(* Rows that are written together might be written one after the other.    *)
OneMore(pairs, n, more) ==
  /\ DOMAIN pairs \subseteq 1 .. n /\ DOMAIN more = DOMAIN pairs \cup {n + 1}
  /\ \A k \in DOMAIN pairs : more[k] = pairs[k]

LEMMA UpsertMore ==
  ASSUME NEW table, NEW n \in Nat, NEW pairs, NEW more, OneMore(pairs, n, more)
  PROVE  Upsert(table, more)
           = Put(Upsert(table, pairs), more[n + 1][1], more[n + 1][2])
<1> DEFINE At(f, key) == {k \in DOMAIN f : f[k][1] = key}
           Keys(f) == {f[k][1] : k \in DOMAIN f}
           U(f) == [key \in DOMAIN table \cup Keys(f) |->
                      IF At(f, key) = {} THEN table[key] ELSE f[Max(At(f, key))][2]]
           last == more[n + 1][1]
           V == U(more)
           W == Put(U(pairs), last, more[n + 1][2])
<1>0. /\ DOMAIN pairs \subseteq 1 .. n /\ DOMAIN more = DOMAIN pairs \cup {n + 1}
      /\ \A k \in DOMAIN pairs : more[k] = pairs[k]
  BY DEF OneMore
<1>1. Upsert(table, more) = V /\ Upsert(table, pairs) = U(pairs)
  BY DEF Upsert
<1>2. Keys(more) = Keys(pairs) \cup {last}
  BY <1>0
<1>3. At(more, last) \in SUBSET Int /\ n + 1 \in At(more, last)
      /\ \A k \in At(more, last) : k <= n + 1
  BY <1>0
<1>4. Max(At(more, last)) = n + 1
  <2> HIDE DEF At
  <2> QED
    BY <1>3, MaxIs
<1>5. \A key : key # last => At(more, key) = At(pairs, key)
  BY <1>0
<1>6. \A key : key # last => \A k \in At(pairs, key) : more[k] = pairs[k]
  BY <1>0
<1>7. \A key : At(pairs, key) # {} => Max(At(pairs, key)) \in At(pairs, key)
  <2> SUFFICES ASSUME NEW key, At(pairs, key) # {}
               PROVE  Max(At(pairs, key)) \in At(pairs, key)
    OBVIOUS
  <2>1. At(pairs, key) \in SUBSET (1 .. n)
    BY <1>0
  <2> HIDE DEF At
  <2> QED
    BY <2>1, MaxOfPlaces
<1> HIDE DEF At, Keys, last
<1>8. DOMAIN V = DOMAIN W
  BY <1>2 DEF Put
<1>9. ASSUME NEW key \in DOMAIN V
      PROVE  V[key] = W[key]
  <2>1. CASE key = last
    <3>1. At(more, key) # {}
      BY <1>3, <2>1
    <3>2. V[key] = more[n + 1][2]
      BY <1>4, <2>1, <3>1
    <3>3. W[key] = more[n + 1][2]
      BY <2>1 DEF Put
    <3> QED
      BY <3>2, <3>3
  <2>2. CASE key # last
    <3>1. key \in DOMAIN U(pairs)
      BY <1>2, <2>2
    <3>2. W[key] = U(pairs)[key]
      <4> HIDE DEF U
      <4> QED
        BY <2>2, <3>1 DEF Put
    <3>3. V[key] = U(pairs)[key]
      BY <1>5, <1>6, <1>7, <2>2, <3>1
    <3> QED
      BY <3>2, <3>3
  <2> QED
    BY <2>1, <2>2
<1>10. V = W
  <2>1. V = [key \in DOMAIN V |-> V[key]]
    OBVIOUS
  <2>2. W = [key \in DOMAIN W |-> W[key]]
    BY DEF Put
  <2> HIDE DEF V, W
  <2> QED
    BY <1>8, <1>9, <2>1, <2>2
<1> QED
  BY <1>1, <1>10 DEF last

-----------------------------------------------------------------------------
(* What a table holds of the rows read so far.  A place is an archive and  *)
(* a row of it; K and V tell the key and the value of the row at a place.  *)

Places == Nat \X Nat
Earlier(p, q) == p[1] < q[1] \/ (p[1] = q[1] /\ p[2] < q[2])

LastOfEach(W, P, K, V) ==
  /\ IsTable(W)
  /\ \A p \in P : K[p] \in DOMAIN W
  /\ \A key \in DOMAIN W : \E p \in P :
       /\ K[p] = key /\ W[key] = V[p]
       /\ \A q \in P : K[q] = key => ~Earlier(p, q)

(* A row after all rows read so far is the last of its key.                *)
LEMMA PutLast ==
  ASSUME NEW P \in SUBSET Places, NEW p \in Places, \A q \in P : Earlier(q, p),
         NEW W, NEW K, NEW V, LastOfEach(W, P, K, V)
  PROVE  LastOfEach(Put(W, K[p], V[p]), P \cup {p}, K, V)
<1> DEFINE new == Put(W, K[p], V[p])
<1>1. IsTable(new)
  BY DEF IsTable, Put
<1>2. /\ DOMAIN new = DOMAIN W \cup {K[p]}
      /\ new[K[p]] = V[p]
      /\ \A key \in DOMAIN W : key # K[p] => new[key] = W[key]
  BY DEF Put
<1> HIDE DEF new
<1>3. \A q \in P \cup {p} : K[q] \in DOMAIN new
  BY <1>2 DEF LastOfEach
<1>4. ~Earlier(p, p) /\ \A q \in P : ~Earlier(p, q)
  BY DEF Earlier, Places
<1>5. ASSUME NEW key \in DOMAIN new
      PROVE  \E r \in P \cup {p} :
               /\ K[r] = key /\ new[key] = V[r]
               /\ \A q \in P \cup {p} : K[q] = key => ~Earlier(r, q)
  <2>1. CASE key = K[p]
    BY <1>2, <1>4, <2>1
  <2>2. CASE key # K[p]
    <3>1. key \in DOMAIN W
      BY <1>2, <2>2
    <3>2. PICK r \in P : /\ K[r] = key /\ W[key] = V[r]
                         /\ \A q \in P : K[q] = key => ~Earlier(r, q)
      BY <3>1 DEF LastOfEach
    <3> QED
      BY <1>2, <2>2, <3>1, <3>2
  <2> QED
    BY <2>1, <2>2
<1> QED
  BY <1>1, <1>3, <1>5 DEF LastOfEach, new

LEMMA NothingRead ==
  ASSUME NEW K, NEW V
  PROVE  LastOfEach(Nothing, {}, K, V)
BY DEF LastOfEach, IsTable, Nothing

-----------------------------------------------------------------------------
(* Trips.                                                                  *)

TripService(a, t) == a.trips[Max(TripRows(a, t))].service

TripPlaces(a, n) == {p \in Places : p[1] = 0 /\ p[2] \in 1 .. n /\ ValidTrip(a.trips[p[2]])}
TripKey(a) == [p \in Places |-> a.trips[p[2]].trip]
TripValue(a) == [p \in Places |-> a.trips[p[2]].service]
TripsRead(W, a, n) == LastOfEach(W, TripPlaces(a, n), TripKey(a), TripValue(a))

(* Reading one more row of trips.                                          *)
LEMMA ReadTrip ==
  ASSUME NEW W, NEW a, NEW n \in Nat, TripsRead(W, a, n)
  PROVE  /\ ValidTrip(a.trips[n + 1]) =>
              TripsRead(Put(W, a.trips[n + 1].trip, a.trips[n + 1].service), a, n + 1)
         /\ ~ValidTrip(a.trips[n + 1]) => TripsRead(W, a, n + 1)
<1> DEFINE p == <<0, n + 1>>
           P == TripPlaces(a, n)
           K == TripKey(a)
           V == TripValue(a)
<1>1. p \in Places /\ P \in SUBSET Places /\ p[1] = 0 /\ p[2] = n + 1
  BY DEF Places, TripPlaces
<1>2. K[p] = a.trips[n + 1].trip /\ V[p] = a.trips[n + 1].service
  BY <1>1 DEF TripKey, TripValue
<1>3. \A q \in P : Earlier(q, p)
  BY <1>1 DEF Earlier, TripPlaces, Places
<1>4. \A q \in Places : q[1] = 0 /\ q[2] = n + 1 => q = p
  BY DEF Places
<1>5. \A k \in Int : k \in 1 .. n + 1 <=> k \in 1 .. n \/ k = n + 1
  OBVIOUS
<1>6. \A q \in Places : q[2] \in Int
  BY DEF Places
<1> HIDE DEF p
<1>7. CASE ValidTrip(a.trips[n + 1])
  <2>1. TripPlaces(a, n + 1) = P \cup {p}
    BY <1>1, <1>4, <1>5, <1>6, <1>7 DEF TripPlaces
  <2> HIDE DEF P, K, V
  <2>2. LastOfEach(W, P, K, V)
    BY DEF TripsRead, P, K, V
  <2>3. LastOfEach(Put(W, K[p], V[p]), P \cup {p}, K, V)
    BY <1>1, <1>3, <2>2, PutLast
  <2> QED
    BY <1>2, <1>7, <2>1, <2>3 DEF TripsRead, K, V
<1>8. CASE ~ValidTrip(a.trips[n + 1])
  <2>1. TripPlaces(a, n + 1) = P
    BY <1>5, <1>6, <1>8 DEF TripPlaces
  <2> QED
    BY <1>8, <2>1 DEF TripsRead
<1> QED
  BY <1>7, <1>8

(* When all trips are read, the table holds the trips of the archive.      *)
LEMMA AllTripsRead ==
  ASSUME NEW W, NEW a, ArchiveOK(a), TripsRead(W, a, Len(a.trips))
  PROVE  /\ DOMAIN W = FeedTrips(a)
         /\ \A t \in FeedTrips(a) : W[t] = TripService(a, t)
<1>1. PICK n \in Nat : n = Len(a.trips) /\ DOMAIN a.trips = 1 .. n
  BY DEF ArchiveOK
<1> DEFINE P == TripPlaces(a, n)
           K == TripKey(a)
           V == TripValue(a)
<1>2. LastOfEach(W, P, K, V)
  BY <1>1 DEF TripsRead
<1>3. \A k \in 1 .. n : ValidTrip(a.trips[k]) =>
        <<0, k>> \in P /\ K[<<0, k>>] = a.trips[k].trip /\ <<0, k>>[2] = k
  BY DEF TripPlaces, TripKey, Places
<1>4. \A p \in P : /\ p[2] \in 1 .. n /\ ValidTrip(a.trips[p[2]])
                   /\ K[p] = a.trips[p[2]].trip /\ V[p] = a.trips[p[2]].service
  BY DEF TripPlaces, TripKey, TripValue
<1>5. FeedTrips(a) = {a.trips[k].trip : k \in {j \in 1 .. n : ValidTrip(a.trips[j])}}
  BY <1>1 DEF FeedTrips, ToSet
<1>6. ASSUME NEW t \in FeedTrips(a)
      PROVE  t \in DOMAIN W
  <2>1. PICK k \in 1 .. n : ValidTrip(a.trips[k]) /\ a.trips[k].trip = t
    BY <1>5
  <2> HIDE DEF P, K, V
  <2> QED
    BY <1>2, <1>3, <2>1 DEF LastOfEach
<1>7. ASSUME NEW t \in DOMAIN W
      PROVE  t \in FeedTrips(a) /\ W[t] = TripService(a, t)
  <2>1. PICK p \in P : /\ K[p] = t /\ W[t] = V[p]
                       /\ \A q \in P : K[q] = t => ~Earlier(p, q)
    <3> HIDE DEF P, K, V
    <3> QED
      BY <1>2 DEF LastOfEach
  <2>2. PICK k \in 1 .. n : k = p[2] /\ ValidTrip(a.trips[k]) /\ a.trips[k].trip = t
                            /\ W[t] = a.trips[k].service
    BY <1>4, <2>1
  <2>3. p[1] = 0
    BY DEF TripPlaces
  <2>4. ASSUME NEW j \in TripRows(a, t)
        PROVE  j <= k
    <3>1. j \in 1 .. n /\ ValidTrip(a.trips[j]) /\ a.trips[j].trip = t
      BY <1>1 DEF TripRows
    <3>2. <<0, j>> \in P /\ K[<<0, j>>] = t
      BY <1>3, <3>1
    <3>3. ~Earlier(p, <<0, j>>)
      BY <2>1, <3>2
    <3> QED
      BY <2>2, <2>3, <3>1, <3>3 DEF Earlier
  <2>5. k \in TripRows(a, t) /\ TripRows(a, t) \in SUBSET Int
    BY <1>1, <2>2 DEF TripRows
  <2>6. Max(TripRows(a, t)) = k
    BY <2>4, <2>5, MaxIs
  <2>7. t \in FeedTrips(a)
    BY <1>5, <2>2
  <2> QED
    BY <2>2, <2>6, <2>7 DEF TripService
<1> QED
  BY <1>6, <1>7

-----------------------------------------------------------------------------
(* Departures.                                                             *)

Counts(a, k) == ValidStopTime(a.stop_times[k]) /\ a.stop_times[k].trip \in FeedTrips(a)

(* The number of stop times.                                               *)
Height(a) == Len(a.stop_times)

(* The stop times of known trips in the archives before i and the first n  *)
(* rows of archive i.                                                      *)
RowPlaces(as, i, n) ==
  {p \in Places : /\ p[1] \in 1 .. i /\ p[2] \in 1 .. Height(as[p[1]])
                  /\ p[1] = i => p[2] <= n
                  /\ Counts(as[p[1]], p[2])}
RowKey(as) == [p \in Places |-> Key(as[p[1]].stop_times[p[2]])]
RowValue(as) ==
  [p \in Places |->
     [service |-> TripService(as[p[1]], as[p[1]].stop_times[p[2]].trip),
      seconds |-> TimeSeconds(as[p[1]].stop_times[p[2]].time)]]
RowsRead(W, as, i, n) == LastOfEach(W, RowPlaces(as, i, n), RowKey(as), RowValue(as))

(* Reading one more stop time.                                             *)
LEMMA ReadStopTime ==
  ASSUME NEW W, NEW as, NEW i \in Nat \ {0}, NEW n \in Nat,
         n + 1 \in 1 .. Height(as[i]), RowsRead(W, as, i, n)
  PROVE  /\ Counts(as[i], n + 1) =>
              RowsRead(Put(W, Key(as[i].stop_times[n + 1]),
                           [service |-> TripService(as[i], as[i].stop_times[n + 1].trip),
                            seconds |-> TimeSeconds(as[i].stop_times[n + 1].time)]),
                       as, i, n + 1)
         /\ ~Counts(as[i], n + 1) => RowsRead(W, as, i, n + 1)
<1> DEFINE p == <<i, n + 1>>
           P == RowPlaces(as, i, n)
           K == RowKey(as)
           V == RowValue(as)
           row1 == as[i].stop_times[n + 1]
<1>1. p \in Places /\ P \in SUBSET Places /\ p[1] = i /\ p[2] = n + 1
  <2>1. p \in Places /\ p[1] = i /\ p[2] = n + 1
    BY DEF Places
  <2>2. P \in SUBSET Places
    BY DEF RowPlaces
  <2> QED
    BY <2>1, <2>2
<1>2. /\ K[p] = Key(row1)
      /\ V[p] = [service |-> TripService(as[i], row1.trip), seconds |-> TimeSeconds(row1.time)]
  BY <1>1 DEF RowKey, RowValue
<1>3. \A q \in P : Earlier(q, p)
  BY <1>1 DEF Earlier, RowPlaces, Places
<1>4. \A q \in Places : q[1] = i /\ q[2] = n + 1 => q = p
  BY DEF Places
<1>5. \A k \in Int : k <= n + 1 <=> k <= n \/ k = n + 1
  OBVIOUS
<1>6. \A q \in Places : q[2] \in Int
  BY DEF Places
<1>7. i \in 1 .. i
  OBVIOUS
<1> HIDE DEF p
<1>8. CASE Counts(as[i], n + 1)
  <2>1. RowPlaces(as, i, n + 1) = P \cup {p}
    <3>1. ASSUME NEW q \in Places
          PROVE  q \in RowPlaces(as, i, n + 1) <=> q \in P \/ q = p
      <4>1. CASE q = p
        <5>1. q[1] = i /\ q[2] = n + 1 /\ q[2] <= n + 1
          BY <1>1, <4>1
        <5> QED
          BY <1>7, <1>8, <4>1, <5>1 DEF RowPlaces
      <4>2. CASE q # p
        BY <1>4, <1>5, <1>6, <4>2 DEF RowPlaces
      <4> QED
        BY <4>1, <4>2
    <3>2. RowPlaces(as, i, n + 1) \subseteq Places
      BY DEF RowPlaces
    <3> HIDE DEF P
    <3> QED
      BY <1>1, <3>1, <3>2
  <2> HIDE DEF P, K, V, row1
  <2>2. LastOfEach(W, P, K, V)
    BY DEF RowsRead, P, K, V
  <2>3. LastOfEach(Put(W, K[p], V[p]), P \cup {p}, K, V)
    BY <1>1, <1>3, <2>2, PutLast
  <2> QED
    BY <1>2, <1>8, <2>1, <2>3 DEF RowsRead, K, V, row1
<1>9. CASE ~Counts(as[i], n + 1)
  <2>1. RowPlaces(as, i, n + 1) = P
    BY <1>5, <1>6, <1>9 DEF RowPlaces
  <2> QED
    BY <1>9, <2>1 DEF RowsRead
<1> QED
  BY <1>8, <1>9 DEF row1

(* Before the first archive nothing is read; the next archive begins where *)
(* this one ends.                                                          *)
LEMMA FirstArchive ==
  ASSUME NEW as
  PROVE  RowsRead(Nothing, as, 1, 0)
<1>1. ASSUME NEW p \in RowPlaces(as, 1, 0)
      PROVE  FALSE
  <2>1. p[1] \in 1 .. 1 /\ p[2] \in 1 .. Height(as[p[1]]) /\ (p[1] = 1 => p[2] <= 0)
    BY DEF RowPlaces
  <2>2. p[1] = 1
    BY <2>1
  <2>3. p[2] >= 1 /\ p[2] \in Int
    BY <2>1
  <2> QED
    BY <2>1, <2>2, <2>3
<1> QED
  BY <1>1, NothingRead DEF RowsRead

LEMMA NextArchive ==
  ASSUME NEW W, NEW as, NEW i \in Nat \ {0},
         RowsRead(W, as, i, Height(as[i]))
  PROVE  RowsRead(W, as, i + 1, 0)
<1>0. \A h, k : k \in 1 .. h => k <= h
  OBVIOUS
<1>1. ASSUME NEW q \in Places
      PROVE  q \in RowPlaces(as, i, Height(as[i])) <=> q \in RowPlaces(as, i + 1, 0)
  <2>1. q[1] \in Nat /\ q[2] \in Nat
    BY DEF Places
  <2>2. q[1] \in 1 .. i + 1 <=> q[1] \in 1 .. i \/ q[1] = i + 1
    BY <2>1
  <2>3. CASE q[1] = i
    <3>1. q[1] \in 1 .. i /\ q[1] # i + 1
      BY <2>3
    <3> QED
      BY <1>0, <2>2, <2>3, <3>1 DEF RowPlaces
  <2>4. CASE q[1] = i + 1
    <3>1. q[1] \notin 1 .. i
      BY <2>4
    <3>2. q \notin RowPlaces(as, i + 1, 0)
      <4> SUFFICES ASSUME q \in RowPlaces(as, i + 1, 0) PROVE FALSE
        OBVIOUS
      <4>1. q[2] \in 1 .. Height(as[q[1]]) /\ q[2] <= 0
        BY <2>4 DEF RowPlaces
      <4> QED
        BY <2>1, <4>1
    <3> QED
      BY <3>1, <3>2 DEF RowPlaces
  <2>5. CASE q[1] # i /\ q[1] # i + 1
    BY <2>2, <2>5 DEF RowPlaces
  <2> QED
    BY <2>3, <2>4, <2>5
<1>2. RowPlaces(as, i, Height(as[i])) = RowPlaces(as, i + 1, 0)
  <2>1. RowPlaces(as, i, Height(as[i])) \subseteq Places /\ RowPlaces(as, i + 1, 0) \subseteq Places
    BY DEF RowPlaces
  <2> QED
    BY <1>1, <2>1
<1> QED
  BY <1>2 DEF RowsRead

(* When all archives are read, the table holds their departures.           *)
LEMMA AllRowsRead ==
  ASSUME NEW W, NEW as, as = archives, NEW m \in Nat \ {0}, DOMAIN as = 1 .. m,
         \A a \in 1 .. m : ArchiveOK(as[a]),
         RowsRead(W, as, m, Height(as[m]))
  PROVE  W = FeedDepartures
<1> DEFINE P == RowPlaces(as, m, Height(as[m]))
           K == RowKey(as)
           V == RowValue(as)
<1>1. LastOfEach(W, P, K, V)
  BY DEF RowsRead
<1>2. \A a \in 1 .. m : DOMAIN as[a].stop_times = 1 .. Height(as[a])
                        /\ Height(as[a]) \in Nat
  BY DEF ArchiveOK, Height
<1>3. ASSUME NEW a \in 1 .. m, NEW k \in DOMAIN as[a].stop_times, Counts(as[a], k)
      PROVE  <<a, k>> \in P /\ K[<<a, k>>] = Key(as[a].stop_times[k])
  BY <1>2, <1>3 DEF RowPlaces, RowKey, Places
<1>4. ASSUME NEW p \in P
      PROVE  /\ p[1] \in 1 .. m /\ p[2] \in DOMAIN as[p[1]].stop_times
             /\ Counts(as[p[1]], p[2])
             /\ K[p] = Key(as[p[1]].stop_times[p[2]])
             /\ V[p] = [service |-> TripService(as[p[1]], as[p[1]].stop_times[p[2]].trip),
                        seconds |-> TimeSeconds(as[p[1]].stop_times[p[2]].time)]
  BY <1>2 DEF RowPlaces, RowKey, RowValue
<1> HIDE DEF P, K, V
<1>5. \A a \in 1 .. m : FeedKeys(as[a]) =
        {Key(as[a].stop_times[k]) : k \in {j \in DOMAIN as[a].stop_times : Counts(as[a], j)}}
  BY DEF FeedKeys, ToSet, Counts
<1>6. FeedDepartures =
        [key \in UNION {FeedKeys(as[a]) : a \in 1 .. m} |->
           FeedDeparture(as[Max({a \in 1 .. m : key \in FeedKeys(as[a])})], key)]
  <2>1. ToSet(as) = {as[a] : a \in 1 .. m}
    BY DEF ToSet
  <2>2. UNION {FeedKeys(a) : a \in ToSet(as)} = UNION {FeedKeys(as[a]) : a \in 1 .. m}
    BY <2>1
  <2> QED
    BY <2>2 DEF FeedDepartures
<1>7. ASSUME NEW key, NEW a \in 1 .. m, key \in FeedKeys(as[a])
      PROVE  key \in DOMAIN W
  <2>1. PICK k \in DOMAIN as[a].stop_times :
          Counts(as[a], k) /\ Key(as[a].stop_times[k]) = key
    BY <1>5, <1>7
  <2>2. <<a, k>> \in P /\ K[<<a, k>>] = key
    BY <1>3, <2>1
  <2> QED
    BY <1>1, <2>2 DEF LastOfEach
<1>8. ASSUME NEW key \in DOMAIN W
      PROVE  \E a \in 1 .. m :
               /\ key \in FeedKeys(as[a])
               /\ Max({b \in 1 .. m : key \in FeedKeys(as[b])}) = a
               /\ W[key] = FeedDeparture(as[a], key)
  <2>1. PICK p \in P : /\ K[p] = key /\ W[key] = V[p]
                       /\ \A q \in P : K[q] = key => ~Earlier(p, q)
    BY <1>1 DEF LastOfEach
  <2>2. PICK a \in 1 .. m : a = p[1]
    BY <1>4
  <2>3. PICK k \in DOMAIN as[a].stop_times : k = p[2]
    BY <1>4, <2>2
  <2>4. /\ Counts(as[a], k) /\ Key(as[a].stop_times[k]) = key
        /\ W[key] = [service |-> TripService(as[a], as[a].stop_times[k].trip),
                     seconds |-> TimeSeconds(as[a].stop_times[k].time)]
    BY <1>4, <2>1, <2>2, <2>3
  <2>5. key \in FeedKeys(as[a])
    BY <1>5, <2>4
  <2>6. k \in Int /\ a \in Int
    BY <1>2
  <2>7. ASSUME NEW b \in 1 .. m, key \in FeedKeys(as[b])
        PROVE  b <= a
    <3>1. PICK l \in DOMAIN as[b].stop_times :
            Counts(as[b], l) /\ Key(as[b].stop_times[l]) = key
      BY <1>5, <2>7
    <3>2. ~Earlier(p, <<b, l>>)
      BY <1>3, <2>1, <3>1
    <3> QED
      BY <2>2, <2>6, <3>2 DEF Earlier
  <2>8. ASSUME NEW l \in StopTimeRows(as[a], key)
        PROVE  l <= k
    <3>1. l \in DOMAIN as[a].stop_times /\ Counts(as[a], l) /\ Key(as[a].stop_times[l]) = key
      BY DEF StopTimeRows, Counts
    <3>2. ~Earlier(p, <<a, l>>)
      BY <1>3, <2>1, <3>1
    <3>3. l \in Int
      BY <1>2, <3>1
    <3> QED
      BY <2>2, <2>3, <2>6, <3>2, <3>3 DEF Earlier
  <2>9. Max({b \in 1 .. m : key \in FeedKeys(as[b])}) = a
    <3> DEFINE S == {b \in 1 .. m : key \in FeedKeys(as[b])}
    <3>1. S \in SUBSET Int /\ a \in S /\ \A b \in S : b <= a
      BY <2>5, <2>7
    <3> HIDE DEF S
    <3>2. Max(S) = a
      BY <3>1, MaxIs
    <3> QED
      BY <3>2 DEF S
  <2>10. Max(StopTimeRows(as[a], key)) = k
    <3>1. k \in StopTimeRows(as[a], key) /\ StopTimeRows(as[a], key) \in SUBSET Int
      BY <1>2, <2>4 DEF StopTimeRows, Counts
    <3> QED
      BY <2>8, <3>1, MaxIs
  <2>11. key[1] = as[a].stop_times[k].trip
    BY <2>4 DEF Key
  <2>12. W[key] = FeedDeparture(as[a], key)
    BY <2>4, <2>10, <2>11 DEF FeedDeparture, TripService
  <2> QED
    BY <2>5, <2>9, <2>12
<1>9. DOMAIN W = UNION {FeedKeys(as[a]) : a \in 1 .. m}
  BY <1>7, <1>8
<1>10. \A key \in DOMAIN W :
         W[key] = FeedDeparture(as[Max({a \in 1 .. m : key \in FeedKeys(as[a])})], key)
  BY <1>8
<1>11. W = [key \in DOMAIN W |-> W[key]]
  BY <1>1 DEF LastOfEach, IsTable
<1> QED
  BY <1>6, <1>9, <1>10, <1>11

-----------------------------------------------------------------------------
(* Service dates.                                                          *)

(* What RunsOn says after the first n exceptions.                          *)
About(a, n, s, d) ==
  {k \in 1 .. n : /\ a.exceptions[k].service = s /\ a.exceptions[k].date = d
                  /\ a.exceptions[k].type \in {1, 2}}
Covered(a, s, d) ==
  \E r \in ToSet(a.calendar) : r.service = s /\ r.start <= d /\ d <= r.end /\ d % 7 \in r.days
RunsAfter(a, n, s, d) ==
  IF About(a, n, s, d) # {} THEN a.exceptions[Max(About(a, n, s, d))].type = 1
                            ELSE Covered(a, s, d)

LEMMA RunsAfterAll ==
  ASSUME NEW a, ArchiveOK(a), NEW s, NEW d
  PROVE  RunsOn(a, s, d) <=> RunsAfter(a, Len(a.exceptions), s, d)
<1>1. DOMAIN a.exceptions = 1 .. Len(a.exceptions)
  BY DEF ArchiveOK
<1> QED
  BY <1>1 DEF RunsOn, RunsAfter, About, Covered

LEMMA RunsAfterOne ==
  ASSUME NEW a, NEW n \in Nat, NEW s, NEW d
  PROVE  RunsAfter(a, n + 1, s, d) <=>
           IF /\ a.exceptions[n + 1].service = s /\ a.exceptions[n + 1].date = d
              /\ a.exceptions[n + 1].type \in {1, 2}
           THEN a.exceptions[n + 1].type = 1
           ELSE RunsAfter(a, n, s, d)
<1> DEFINE new == /\ a.exceptions[n + 1].service = s /\ a.exceptions[n + 1].date = d
                  /\ a.exceptions[n + 1].type \in {1, 2}
<1>1. \A k : k \in 1 .. n + 1 <=> k \in 1 .. n \/ k = n + 1
  OBVIOUS
<1>2. CASE new
  <2>1. n + 1 \in About(a, n + 1, s, d)
    BY <1>1, <1>2 DEF About
  <2>2. About(a, n + 1, s, d) \in SUBSET Int /\ \A k \in About(a, n + 1, s, d) : k <= n + 1
    BY DEF About
  <2>3. Max(About(a, n + 1, s, d)) = n + 1
    BY <2>1, <2>2, MaxIs
  <2> QED
    BY <1>2, <2>1, <2>3 DEF RunsAfter
<1>3. CASE ~new
  <2>1. About(a, n + 1, s, d) = About(a, n, s, d)
    BY <1>1, <1>3 DEF About
  <2> HIDE DEF new
  <2>2. RunsAfter(a, n + 1, s, d) <=> RunsAfter(a, n, s, d)
    BY <2>1 DEF RunsAfter
  <2> QED
    BY <1>3, <2>2 DEF new
<1> QED
  BY <1>2, <1>3

(* The calendars come first.                                               *)
LEMMA CalendarCovers ==
  ASSUME NEW a, ArchiveOK(a)
  PROVE  /\ CalendarDates(a.calendar) \in SUBSET (Nat \X Nat)
         /\ \A s, d \in Nat :
              <<s, d>> \in CalendarDates(a.calendar) <=> RunsAfter(a, 0, s, d)
<1>1. \A r \in ToSet(a.calendar) : /\ r.service \in Nat /\ r.start \in Nat /\ r.end \in Nat
  <2>1. PICK c : c = a.calendar
    OBVIOUS
  <2>2. PICK T : T = [service : Nat, start : Nat, end : Nat, days : SUBSET (0 .. 6)]
    OBVIOUS
  <2>3. c \in Seq(T)
    BY <2>1, <2>2 DEF ArchiveOK
  <2>4. \A r \in ToSet(c) : r \in T
    BY <2>3 DEF ToSet
  <2> QED
    BY <2>1, <2>2, <2>4
<1>2. \A s, d \in Nat : <<s, d>> \in CalendarDates(a.calendar) <=> Covered(a, s, d)
  <2> SUFFICES ASSUME NEW s \in Nat, NEW d \in Nat
               PROVE  <<s, d>> \in CalendarDates(a.calendar) <=> Covered(a, s, d)
    OBVIOUS
  <2>1. ASSUME <<s, d>> \in CalendarDates(a.calendar)
        PROVE  Covered(a, s, d)
    <3>1. PICK r \in ToSet(a.calendar) :
            <<s, d>> \in {<<r.service, e>> : e \in {f \in r.start .. r.end : Weekday(f) \in r.days}}
      BY <2>1 DEF CalendarDates
    <3>2. s = r.service /\ d \in r.start .. r.end /\ Weekday(d) \in r.days
      BY <3>1
    <3> QED
      BY <1>1, <3>2 DEF Covered, Weekday
  <2>2. ASSUME Covered(a, s, d)
        PROVE  <<s, d>> \in CalendarDates(a.calendar)
    <3>1. PICK r \in ToSet(a.calendar) :
            r.service = s /\ r.start <= d /\ d <= r.end /\ d % 7 \in r.days
      BY <2>2 DEF Covered
    <3>2. d \in r.start .. r.end
      BY <1>1, <3>1
    <3>3. d \in {f \in r.start .. r.end : Weekday(f) \in r.days}
      BY <3>1, <3>2 DEF Weekday
    <3>4. <<s, d>> \in {<<r.service, e>> : e \in {f \in r.start .. r.end : Weekday(f) \in r.days}}
      BY <3>1, <3>3
    <3> QED
      BY <3>4 DEF CalendarDates
  <2> QED
    BY <2>1, <2>2
<1>3. ASSUME NEW p \in CalendarDates(a.calendar)
      PROVE  p \in Nat \X Nat
  <2>1. PICK r \in ToSet(a.calendar) :
          p \in {<<r.service, e>> : e \in {f \in r.start .. r.end : Weekday(f) \in r.days}}
    BY DEF CalendarDates
  <2>2. PICK e \in r.start .. r.end : p = <<r.service, e>>
    BY <2>1
  <2>3. e \in Nat
    BY <1>1, <2>2
  <2> QED
    BY <1>1, <2>2, <2>3
<1>4. \A s, d : About(a, 0, s, d) = {}
  BY DEF About
<1> QED
  BY <1>2, <1>3, <1>4 DEF RunsAfter

(* The loop over the exceptions: the last one about a date decides.        *)
LEMMA ServiceDatesRun ==
  ASSUME NEW a, ArchiveOK(a)
  PROVE  /\ ServiceDates(a) \in SUBSET (Nat \X Nat)
         /\ \A s, d \in Nat : <<s, d>> \in ServiceDates(a) <=> RunsOn(a, s, d)
<1> DEFINE T == SUBSET (Nat \X Nat)
           N == Len(a.exceptions)
           first == CalendarDates(a.calendar)
           Step(dates, n) == ApplyException(dates, a.exceptions[n])
           G == [x \in T \X (1 .. N) |-> Step(x[1], x[2])]
           Good(g) == g = [n \in 0 .. N |-> IF n = 0 THEN first ELSE Step(g[n - 1], n)]
           after == CHOOSE g : Good(g)
<1>1. /\ N \in Nat
      /\ \A n \in 1 .. N : a.exceptions[n].service \in Nat /\ a.exceptions[n].date \in Nat
  <2>1. PICK x : x = a.exceptions
    OBVIOUS
  <2>2. PICK E : E = [service : Nat, date : Nat, type : Nat]
    OBVIOUS
  <2>3. x \in Seq(E)
    BY <2>1, <2>2 DEF ArchiveOK
  <2>4. Len(x) \in Nat /\ \A n \in 1 .. Len(x) : x[n] \in E
    BY <2>3
  <2> QED
    BY <2>1, <2>2, <2>4
<1>2. first \in T
  BY CalendarCovers
<1>3. ASSUME NEW dates \in T, NEW n \in 1 .. N
      PROVE  Step(dates, n) \in T
  BY <1>1 DEF ApplyException
<1> HIDE DEF first, N, Step
<1>4. \E g : Good(g)
  <2>1. G \in [T \X (1 .. N) -> T]
    BY <1>3
  <2>2. PICK f \in [0 .. N -> T] :
          /\ f[0] = first
          /\ \A n \in 1 .. N : f[n] = G[<<f[n - 1], n>>]
    <3>1. PICK T0 : T0 = T
      OBVIOUS
    <3>2. PICK G0 : G0 = G
      OBVIOUS
    <3> HIDE DEF T, G
    <3>3. first \in T0 /\ N \in Nat /\ G0 \in Steps(T0, N)
      BY <1>1, <1>2, <2>1, <3>1, <3>2 DEF Steps
    <3>4. PICK f : Recursion(f, T0, first, N, G0)
      BY <3>3, RecursiveFunction
    <3> QED
      BY <3>1, <3>2, <3>4 DEF Recursion
  <2>3. \A n \in 1 .. N : f[n] = Step(f[n - 1], n)
    <3> SUFFICES ASSUME NEW n \in 1 .. N PROVE f[n] = Step(f[n - 1], n)
      OBVIOUS
    <3>1. n - 1 \in 0 .. N
      BY <1>1
    <3>2. PICK dates \in T : dates = f[n - 1]
      BY <2>2, <3>1
    <3>3. <<dates, n>> \in T \X (1 .. N)
      BY <3>2
    <3>4. G[<<dates, n>>] = Step(dates, n)
      <4> HIDE DEF T
      <4> QED
        BY <3>3
    <3> HIDE DEF G
    <3> QED
      BY <2>2, <3>2, <3>4
  <2>4. \A n \in 0 .. N : f[n] = IF n = 0 THEN first ELSE Step(f[n - 1], n)
    <3> HIDE DEF T, G
    <3> QED
      BY <1>1, <2>2, <2>3
  <2>5. f = [n \in 0 .. N |-> IF n = 0 THEN first ELSE Step(f[n - 1], n)]
    <3> HIDE DEF T, G
    <3> QED
      BY <2>2, <2>4
  <2> QED
    BY <2>5
<1>5. Good(after)
  <2> HIDE DEF Good
  <2> QED
    BY <1>4
<1>6. ServiceDates(a) = after[N]
  BY DEF ServiceDates, N, Step, first
<1> HIDE DEF after
<1>7. /\ after[0] = first
      /\ \A n \in 1 .. N : after[n] = Step(after[n - 1], n)
  BY <1>1, <1>5
<1> HIDE DEF G, Good
<1> DEFINE Fits(dates, n) ==
             /\ dates \in T
             /\ \A s, d \in Nat : <<s, d>> \in dates <=> RunsAfter(a, n, s, d)
           Q == {n \in Nat : n <= N => Fits(after[n], n)}
<1>8. 0 \in Q
  BY <1>2, <1>7, CalendarCovers DEF first
<1>9. ASSUME NEW n \in Nat, n + 1 <= N, Fits(after[n], n)
      PROVE  Fits(after[n + 1], n + 1)
  <2>1. PICK x : x = a.exceptions[n + 1]
    OBVIOUS
  <2>2. PICK dates \in T : dates = after[n]
    BY <1>9
  <2>3. n + 1 \in 1 .. N /\ (n + 1) - 1 = n
    BY <1>1, <1>9
  <2>4. after[n + 1] = ApplyException(dates, x)
    BY <1>7, <2>1, <2>2, <2>3 DEF Step
  <2>5. x.service \in Nat /\ x.date \in Nat
    BY <1>1, <2>1, <2>3
  <2>6. \A s, d \in Nat : <<s, d>> \in dates <=> RunsAfter(a, n, s, d)
    BY <1>9, <2>2
  <2>7. \A s, d \in Nat :
          RunsAfter(a, n + 1, s, d) <=>
            IF x.service = s /\ x.date = d /\ x.type \in {1, 2}
            THEN x.type = 1 ELSE <<s, d>> \in dates
    <3>1. \A s, d \in Nat :
            RunsAfter(a, n + 1, s, d) <=>
              IF x.service = s /\ x.date = d /\ x.type \in {1, 2}
              THEN x.type = 1 ELSE RunsAfter(a, n, s, d)
      BY <2>1, RunsAfterOne
    <3> QED
      BY <2>6, <3>1
  <2> HIDE DEF Fits
  <2>8. CASE x.type = 1
    <3>1. after[n + 1] = dates \cup {<<x.service, x.date>>}
      BY <2>4, <2>8 DEF ApplyException
    <3> QED
      BY <2>5, <2>7, <2>8, <3>1 DEF Fits
  <2>9. CASE x.type = 2
    <3>1. after[n + 1] = dates \ {<<x.service, x.date>>}
      BY <2>4, <2>9 DEF ApplyException
    <3> QED
      BY <2>5, <2>7, <2>9, <3>1 DEF Fits
  <2>10. CASE x.type \notin {1, 2}
    <3>1. after[n + 1] = dates
      BY <2>4, <2>10 DEF ApplyException
    <3> QED
      BY <2>5, <2>7, <2>10, <3>1 DEF Fits
  <2> QED
    BY <2>8, <2>9, <2>10
<1>10. \A n \in Nat : n \in Q => n + 1 \in Q
  <2> HIDE DEF Fits
  <2>1. \A n \in Nat : n + 1 \in Nat /\ (n + 1 <= N => n <= N)
    BY <1>1
  <2> QED
    BY <1>9, <2>1
<1> HIDE DEF Q
<1>11. N \in Q
  BY <1>1, <1>8, <1>10, NaturalInduction, Zenon
<1>12. Fits(after[N], N)
  BY <1>1, <1>11 DEF Q
<1>13. \A s, d \in Nat : RunsOn(a, s, d) <=> RunsAfter(a, N, s, d)
  BY RunsAfterAll DEF N
<1> QED
  BY <1>6, <1>12, <1>13

-----------------------------------------------------------------------------
(* Batches.                                                                *)

(* A row at the end of a batch might as well be written after it.          *)
LEMMA UpsertAppend ==
  ASSUME NEW table, NEW S, NEW b \in Seq(S), NEW x \in S
  PROVE  Upsert(table, Append(b, x)) = Put(Upsert(table, b), x[1], x[2])
<1>1. PICK n \in Nat : n = Len(b)
  OBVIOUS
<1>2. PICK more : more = Append(b, x)
  OBVIOUS
<1>3. /\ DOMAIN b = 1 .. n /\ DOMAIN more = 1 .. n + 1
      /\ more[n + 1] = x /\ \A k \in 1 .. n : more[k] = b[k]
  BY <1>1, <1>2
<1>4. 1 .. n + 1 = (1 .. n) \cup {n + 1}
  OBVIOUS
<1>5. OneMore(b, n, more)
  BY <1>3, <1>4 DEF OneMore
<1>6. Upsert(table, more) = Put(Upsert(table, b), more[n + 1][1], more[n + 1][2])
  BY <1>5, UpsertMore
<1> QED
  BY <1>2, <1>3, <1>6

DepartureOf(r, trips) == [service |-> trips[r.trip], seconds |-> TimeSeconds(r.time)]

LEMMA DeparturesAppend ==
  ASSUME NEW table, NEW trips, NEW S, NEW b \in Seq(S), NEW r \in S
  PROVE  /\ r.trip \in DOMAIN trips =>
              Upsert(table, Departures(Append(b, r), trips))
                = Put(Upsert(table, Departures(b, trips)), Key(r), DepartureOf(r, trips))
         /\ r.trip \notin DOMAIN trips =>
              Departures(Append(b, r), trips) = Departures(b, trips)
<1>1. PICK n \in Nat : n = Len(b)
  OBVIOUS
<1>2. PICK grown : grown = Append(b, r)
  OBVIOUS
<1>3. /\ DOMAIN b = 1 .. n /\ DOMAIN grown = 1 .. n + 1
      /\ grown[n + 1] = r /\ \A k \in 1 .. n : grown[k] = b[k]
  BY <1>1, <1>2
<1>4. 1 .. n + 1 = (1 .. n) \cup {n + 1}
  OBVIOUS
<1> DEFINE old == {j \in 1 .. n : b[j].trip \in DOMAIN trips}
           new == {j \in 1 .. n + 1 : grown[j].trip \in DOMAIN trips}
           pairs == Departures(b, trips)
           more == Departures(grown, trips)
<1>5. /\ DOMAIN pairs = old /\ DOMAIN more = new
      /\ \A k \in old : pairs[k] = <<Key(b[k]), DepartureOf(b[k], trips)>>
      /\ \A k \in new : more[k] = <<Key(grown[k]), DepartureOf(grown[k], trips)>>
  BY <1>3 DEF Departures, DepartureOf
<1>6. \A k \in old : k \in new /\ more[k] = pairs[k]
  <2>1. \A k \in old : k \in new /\ grown[k] = b[k]
    BY <1>3, <1>4
  <2> HIDE DEF old, new, pairs, more
  <2> QED
    BY <1>5, <2>1
<1>7. CASE r.trip \in DOMAIN trips
  <2>1. new = old \cup {n + 1}
    BY <1>3, <1>4, <1>7
  <2>2. more[n + 1] = <<Key(r), DepartureOf(r, trips)>>
    <3>1. n + 1 \in new
      BY <2>1
    <3> HIDE DEF more, new
    <3> QED
      BY <1>3, <1>5, <3>1
  <2>3. old \subseteq 1 .. n
    OBVIOUS
  <2> HIDE DEF old, new, pairs, more
  <2>4. OneMore(pairs, n, more)
    BY <1>5, <1>6, <2>1, <2>3 DEF OneMore
  <2>5. Upsert(table, more) = Put(Upsert(table, pairs), more[n + 1][1], more[n + 1][2])
    BY <2>4, UpsertMore
  <2>6. Upsert(table, more) = Put(Upsert(table, pairs), Key(r), DepartureOf(r, trips))
    BY <2>2, <2>5
  <2> QED
    BY <1>2, <1>7, <2>6 DEF more, pairs
<1>8. CASE r.trip \notin DOMAIN trips
  <2>1. new = old
    BY <1>3, <1>4, <1>8
  <2>2. pairs = [k \in old |-> pairs[k]] /\ more = [k \in new |-> more[k]]
    BY <1>3 DEF Departures
  <2> HIDE DEF old, new, pairs, more
  <2>3. more = pairs
    BY <1>6, <2>1, <2>2
  <2> QED
    BY <1>2, <1>8, <2>3 DEF more, pairs
<1> QED
  BY <1>7, <1>8

(* An empty batch changes nothing.                                         *)
LEMMA UpsertEmpty ==
  ASSUME NEW W, IsTable(W), NEW trips
  PROVE  Upsert(W, <<>>) = W /\ Upsert(W, Departures(<<>>, trips)) = W
<1>1. DOMAIN <<>> = {} /\ DOMAIN Departures(<<>>, trips) = {}
  BY DEF Departures
<1> QED
  BY <1>1, UpsertNothing

(* Times of day are those of two days.                                     *)
StopTimes ==
  [trip : Field, stop : Field, sequence : Int \cup {Missing},
   time : (Nat \X Nat \X Nat) \cup {Missing}]
TwoDays == 0 .. LastSecond
Clock(h, m, s) == h * 3600 + m * 60 + s
InTime(W) == \A key \in DOMAIN W : W[key].seconds \in TwoDays

LEMMA ClockInTwoDays ==
  ASSUME NEW h \in Nat, NEW m \in Nat, NEW s \in Nat, h <= 47, m <= 59, s <= 59
  PROVE  Clock(h, m, s) \in TwoDays
<1>1. h * 3600 <= 169200 /\ m * 60 <= 3540
  BY SMT
<1>2. PICK x \in Int : x = Clock(h, m, s)
  BY SMT DEF Clock
<1>3. x >= 0 /\ x <= 172799
  BY <1>1, <1>2, SMT DEF Clock
<1>4. PICK n \in Int : n = LastSecond
  BY SMT DEF LastSecond
<1>5. x <= n
  BY <1>3, <1>4, SMT DEF LastSecond
<1>6. x \in 0 .. n
  BY <1>3, <1>5, SMT
<1> QED
  BY <1>2, <1>4, <1>6, Zenon DEF TwoDays

LEMMA SecondsInTime ==
  ASSUME NEW r \in StopTimes, ValidStopTime(r)
  PROVE  TimeSeconds(r.time) \in TwoDays
<1>1. TimeSeconds(r.time) # Missing
  BY DEF ValidStopTime
<1>2. /\ r.time # Missing /\ ~(r.time[1] > 47) /\ ~(r.time[2] > 59) /\ ~(r.time[3] > 59)
      /\ TimeSeconds(r.time) = Clock(r.time[1], r.time[2], r.time[3])
  BY <1>1, SMT DEF TimeSeconds, Clock
<1>3. r.time \in Nat \X Nat \X Nat
  BY <1>2 DEF StopTimes
<1>4. r.time[1] \in Nat /\ r.time[2] \in Nat /\ r.time[3] \in Nat
  BY <1>3
<1>5. r.time[1] <= 47 /\ r.time[2] <= 59 /\ r.time[3] <= 59
  BY <1>2, <1>4, SMT
<1> QED
  BY <1>2, <1>4, <1>5, ClockInTwoDays, Zenon

LEMMA UpsertInTime ==
  ASSUME NEW table, InTime(table), NEW n \in Nat, NEW pairs, DOMAIN pairs \subseteq 1 .. n,
         \A k \in DOMAIN pairs : pairs[k][2].seconds \in TwoDays
  PROVE  InTime(Upsert(table, pairs))
<1> DEFINE At(key) == {k \in DOMAIN pairs : pairs[k][1] = key}
           W == [key \in DOMAIN table \cup {pairs[k][1] : k \in DOMAIN pairs} |->
                   IF At(key) = {} THEN table[key] ELSE pairs[Max(At(key))][2]]
<1>1. Upsert(table, pairs) = W
  BY DEF Upsert
<1>2. ASSUME NEW key \in DOMAIN W
      PROVE  W[key].seconds \in TwoDays
  <2>1. CASE At(key) = {}
    <3>1. key \in DOMAIN table /\ W[key] = table[key]
      BY <2>1
    <3> HIDE DEF W
    <3> QED
      BY <3>1 DEF InTime
  <2>2. CASE At(key) # {}
    <3>1. At(key) \in SUBSET (1 .. n)
      OBVIOUS
    <3>2. W[key] = pairs[Max(At(key))][2]
      BY <2>2
    <3>3. At(key) \subseteq DOMAIN pairs
      OBVIOUS
    <3> HIDE DEF At, W
    <3>4. Max(At(key)) \in At(key)
      BY <2>2, <3>1, MaxOfPlaces
    <3> QED
      BY <3>2, <3>3, <3>4
  <2> QED
    BY <2>1, <2>2
<1> HIDE DEF W
<1> QED
  BY <1>1, <1>2 DEF InTime

LEMMA DeparturesInTime ==
  ASSUME NEW table, InTime(table), NEW trips, NEW b \in Seq(StopTimes),
         \A k \in DOMAIN b : ValidStopTime(b[k])
  PROVE  InTime(Upsert(table, Departures(b, trips)))
<1>1. PICK n \in Nat : n = Len(b) /\ DOMAIN b = 1 .. n
  OBVIOUS
<1>2. PICK pairs : pairs = Departures(b, trips)
  OBVIOUS
<1>3. \A k \in 1 .. n : b[k] \in StopTimes /\ ValidStopTime(b[k])
  BY <1>1
<1>4. \A k \in 1 .. n : TimeSeconds(b[k].time) \in TwoDays
  BY <1>3, SecondsInTime
<1>5. /\ DOMAIN pairs \subseteq 1 .. n
      /\ \A k \in DOMAIN pairs : pairs[k][2].seconds = TimeSeconds(b[k].time)
  BY <1>1, <1>2 DEF Departures
<1>6. \A k \in DOMAIN pairs : pairs[k][2].seconds \in TwoDays
  BY <1>4, <1>5
<1>7. InTime(Upsert(table, pairs))
  BY <1>5, <1>6, UpsertInTime
<1> QED
  BY <1>2, <1>7

-----------------------------------------------------------------------------
(* The phases of an import.  What is said of a table is said of it once    *)
(* the batch is written.                                                   *)

Width(a) == Len(a.trips)

TripsWith(W, b, a, n) == b \in Seq(Nat \X Nat) /\ TripsRead(Upsert(W, b), a, n)
RowsWith(W, b, g, as, i, n) ==
  /\ b \in Seq(StopTimes) /\ \A k \in DOMAIN b : ValidStopTime(b[k])
  /\ RowsRead(Upsert(W, Departures(b, g)), as, i, n)
DatesRead(dates, as, n) ==
  /\ dates \in SUBSET (Nat \X Nat)
  /\ \A s, d \in Nat : <<s, d>> \in dates <=> \E j \in 1 .. n : RunsOn(as[j], s, d)
Complete(as, n) == \A j \in 1 .. n : as[j].lacks = {}

GoodArchives(as) ==
  /\ \E m \in Nat \ {0} : Len(as) = m /\ DOMAIN as = 1 .. m
  /\ \A k \in DOMAIN as : ArchiveOK(as[k])

TripsPhase(as, i, k, b, g, W, dates) ==
  /\ k \in 1 .. Width(as[i]) + 1
  /\ TripsWith(g, b, as[i], k - 1)
  /\ RowsRead(W, as, i, 0)
  /\ DatesRead(dates, as, i - 1)
  /\ Complete(as, i - 1)
StopTimesPhase(as, i, k, b, g, W, dates) ==
  /\ k \in 1 .. Height(as[i]) + 1
  /\ TripsRead(g, as[i], Width(as[i]))
  /\ RowsWith(W, b, g, as, i, k - 1)
  /\ DatesRead(dates, as, i)
  /\ Complete(as, i - 1)
  /\ as[i].lacks \cap TripFaults = {}
DonePhase(as, W, dates) ==
  \E m \in Nat \ {0} :
    /\ DOMAIN as = 1 .. m /\ Len(as) = m
    /\ RowsRead(W, as, m, Height(as[m]))
    /\ DatesRead(dates, as, m)
    /\ Complete(as, m)

LEMMA TripBatch ==
  ASSUME NEW a, ArchiveOK(a), NEW n \in Nat, n + 1 \in 1 .. Width(a),
         NEW W, NEW b, TripsWith(W, b, a, n), NEW grown,
         grown = IF ValidTrip(a.trips[n + 1])
                 THEN Append(b, <<a.trips[n + 1].trip, a.trips[n + 1].service>>) ELSE b
  PROVE  TripsWith(W, grown, a, n + 1) /\ TripsWith(Upsert(W, grown), <<>>, a, n + 1)
<1>1. TripsRead(Upsert(W, b), a, n) /\ b \in Seq(Nat \X Nat)
  BY DEF TripsWith
<1>2. grown \in Seq(Nat \X Nat) /\ TripsRead(Upsert(W, grown), a, n + 1)
  <2>1. CASE ValidTrip(a.trips[n + 1])
    <3>1. PICK x : x = <<a.trips[n + 1].trip, a.trips[n + 1].service>>
      OBVIOUS
    <3>2. x \in Nat \X Nat
      <4>1. PICK file : file = a.trips
        OBVIOUS
      <4>2. PICK T : T = [trip : Field, service : Field]
        OBVIOUS
      <4>3. file \in Seq(T)
        BY <4>1, <4>2 DEF ArchiveOK
      <4>4. file[n + 1] \in T
        BY <4>1, <4>3 DEF Width
      <4>5. a.trips[n + 1].trip \in Field /\ a.trips[n + 1].service \in Field
        BY <4>1, <4>2, <4>4
      <4> QED
        BY <2>1, <3>1, <4>5 DEF Field, ValidTrip
    <3>3. grown = Append(b, x)
      BY <2>1, <3>1
    <3>4. grown \in Seq(Nat \X Nat)
      <4>1. PICK S : S = Nat \X Nat
        OBVIOUS
      <4> QED
        BY <1>1, <3>2, <3>3, <4>1
    <3>5. Upsert(W, grown) = Put(Upsert(W, b), x[1], x[2])
      <4>1. PICK S : S = Nat \X Nat
        OBVIOUS
      <4>2. b \in Seq(S) /\ x \in S
        BY <1>1, <3>2, <4>1
      <4>3. Upsert(W, Append(b, x)) = Put(Upsert(W, b), x[1], x[2])
        BY <4>2, UpsertAppend
      <4> QED
        BY <3>3, <4>3
    <3>6. x[1] = a.trips[n + 1].trip /\ x[2] = a.trips[n + 1].service
      BY <3>1
    <3>7. PICK V : V = Upsert(W, b)
      OBVIOUS
    <3>8. TripsRead(Put(V, a.trips[n + 1].trip, a.trips[n + 1].service), a, n + 1)
      BY <1>1, <2>1, <3>7, ReadTrip
    <3> QED
      BY <3>4, <3>5, <3>6, <3>7, <3>8
  <2>2. CASE ~ValidTrip(a.trips[n + 1])
    <3>1. PICK V : V = Upsert(W, b)
      OBVIOUS
    <3>2. TripsRead(V, a, n + 1)
      BY <1>1, <2>2, <3>1, ReadTrip
    <3> QED
      BY <1>1, <2>2, <3>1, <3>2
  <2> QED
    BY <2>1, <2>2
<1>3. <<>> \in Seq(Nat \X Nat)
  OBVIOUS
<1>4. Upsert(Upsert(W, grown), <<>>) = Upsert(W, grown)
  <2>1. IsTable(Upsert(W, grown))
    BY UpsertIsTable
  <2> QED
    BY <2>1, UpsertEmpty
<1> QED
  BY <1>2, <1>3, <1>4 DEF TripsWith

LEMMA GrownBatch ==
  ASSUME NEW S, NEW b \in Seq(S), NEW r \in S, ValidStopTime(r),
         \A k \in DOMAIN b : ValidStopTime(b[k])
  PROVE  Append(b, r) \in Seq(S) /\ \A k \in DOMAIN Append(b, r) : ValidStopTime(Append(b, r)[k])
<1>1. PICK m \in Nat : m = Len(b)
  OBVIOUS
<1>2. PICK grown : grown = Append(b, r)
  OBVIOUS
<1>3. /\ grown \in Seq(S) /\ DOMAIN b = 1 .. m /\ DOMAIN grown = 1 .. m + 1
      /\ grown[m + 1] = r /\ \A k \in 1 .. m : grown[k] = b[k]
  BY <1>1, <1>2
<1>4. \A k \in 1 .. m + 1 : k \in 1 .. m \/ k = m + 1
  OBVIOUS
<1> QED
  BY <1>2, <1>3, <1>4

LEMMA StopTimeBatch ==
  ASSUME NEW as, NEW i \in Nat \ {0}, ArchiveOK(as[i]),
         NEW n \in Nat, n + 1 \in 1 .. Height(as[i]),
         NEW W, NEW b, NEW g, RowsWith(W, b, g, as, i, n), TripsRead(g, as[i], Width(as[i])),
         NEW grown,
         grown = IF ValidStopTime(as[i].stop_times[n + 1])
                 THEN Append(b, as[i].stop_times[n + 1]) ELSE b
  PROVE  /\ RowsWith(W, grown, g, as, i, n + 1)
         /\ RowsWith(Upsert(W, Departures(grown, g)), <<>>, g, as, i, n + 1)
<1>1. /\ RowsRead(Upsert(W, Departures(b, g)), as, i, n)
      /\ b \in Seq(StopTimes) /\ \A k \in DOMAIN b : ValidStopTime(b[k])
  BY DEF RowsWith
<1>2. /\ DOMAIN g = FeedTrips(as[i])
      /\ \A t \in FeedTrips(as[i]) : g[t] = TripService(as[i], t)
  <2>1. PICK a : a = as[i]
    OBVIOUS
  <2> QED
    BY <2>1, AllTripsRead DEF Width
<1>3. PICK r : r = as[i].stop_times[n + 1]
  OBVIOUS
<1>4. r \in StopTimes
  <2>1. PICK file : file = as[i].stop_times
    OBVIOUS
  <2>2. file \in Seq(StopTimes)
    BY <2>1 DEF ArchiveOK, StopTimes
  <2>3. n + 1 \in 1 .. Len(file)
    BY <2>1 DEF Height
  <2>4. file[n + 1] \in StopTimes
    <3> HIDE <1>1
    <3> QED
      BY <2>2, <2>3
  <2> QED
    BY <1>3, <2>1, <2>4
<1>5. PICK V : V = Upsert(W, Departures(b, g))
  OBVIOUS
<1>6. /\ grown \in Seq(StopTimes) /\ \A k \in DOMAIN grown : ValidStopTime(grown[k])
      /\ RowsRead(Upsert(W, Departures(grown, g)), as, i, n + 1)
  <2>1. CASE ValidStopTime(r)
    <3>1. grown = Append(b, r)
      BY <1>3, <2>1
    <3>2. grown \in Seq(StopTimes) /\ \A k \in DOMAIN grown : ValidStopTime(grown[k])
      BY <1>1, <1>4, <2>1, <3>1, GrownBatch
    <3>3. CASE r.trip \in DOMAIN g
      <4>1. Upsert(W, Departures(grown, g)) = Put(V, Key(r), DepartureOf(r, g))
        <5>1. b \in Seq(StopTimes)
          BY <1>1
        <5>2. Upsert(W, Departures(Append(b, r), g))
                = Put(Upsert(W, Departures(b, g)), Key(r), DepartureOf(r, g))
          BY <1>4, <3>3, <5>1, DeparturesAppend
        <5> QED
          BY <1>5, <3>1, <5>2
      <4>2. DepartureOf(r, g) = [service |-> TripService(as[i], r.trip),
                                 seconds |-> TimeSeconds(r.time)]
        BY <1>2, <3>3 DEF DepartureOf
      <4>3. Counts(as[i], n + 1)
        BY <1>2, <1>3, <2>1, <3>3 DEF Counts
      <4>4. RowsRead(V, as, i, n)
        BY <1>1, <1>5
      <4>5. RowsRead(Put(V, Key(r), [service |-> TripService(as[i], r.trip),
                                     seconds |-> TimeSeconds(r.time)]), as, i, n + 1)
        BY <1>3, <4>3, <4>4, ReadStopTime
      <4> QED
        BY <3>2, <4>1, <4>2, <4>5
    <3>4. CASE r.trip \notin DOMAIN g
      <4>1. Upsert(W, Departures(grown, g)) = V
        <5>1. b \in Seq(StopTimes)
          BY <1>1
        <5>2. Departures(Append(b, r), g) = Departures(b, g)
          BY <1>4, <3>4, <5>1, DeparturesAppend
        <5> QED
          BY <1>5, <3>1, <5>2
      <4>2. ~Counts(as[i], n + 1)
        BY <1>2, <1>3, <3>4 DEF Counts
      <4>3. RowsRead(V, as, i, n)
        BY <1>1, <1>5
      <4>4. RowsRead(V, as, i, n + 1)
        BY <4>2, <4>3, ReadStopTime
      <4> QED
        BY <3>2, <4>1, <4>4
    <3> QED
      BY <3>3, <3>4
  <2>2. CASE ~ValidStopTime(r)
    <3>1. grown = b
      BY <1>3, <2>2
    <3>2. ~Counts(as[i], n + 1)
      BY <1>3, <2>2 DEF Counts
    <3>3. RowsRead(V, as, i, n)
      BY <1>1, <1>5
    <3>4. RowsRead(V, as, i, n + 1)
      BY <3>2, <3>3, ReadStopTime
    <3> QED
      BY <1>1, <1>5, <3>1, <3>4
  <2> QED
    BY <2>1, <2>2
<1>7. <<>> \in Seq(StopTimes) /\ DOMAIN <<>> = {}
  OBVIOUS
<1>8. PICK U : U = Upsert(W, Departures(grown, g))
  OBVIOUS
<1>9. Upsert(U, Departures(<<>>, g)) = U
  <2>1. IsTable(U)
    BY <1>8, UpsertIsTable
  <2> QED
    BY <2>1, UpsertEmpty
<1> QED
  BY <1>6, <1>7, <1>8, <1>9 DEF RowsWith

(* The number of rows is a number, whatever the rows are.                  *)
LEMMA Sizes ==
  ASSUME NEW a, ArchiveOK(a)
  PROVE  Width(a) \in Nat /\ Height(a) \in Nat
<1>1. PICK T : T = [trip : Field, service : Field]
  OBVIOUS
<1>2. a.trips \in Seq(T)
  BY <1>1 DEF ArchiveOK
<1>3. a.stop_times \in Seq(StopTimes)
  BY DEF ArchiveOK, StopTimes
<1>4. \A S, x : x \in Seq(S) => Len(x) \in Nat
  OBVIOUS
<1> QED
  BY <1>2, <1>3, <1>4, Zenon DEF Width, Height

LEMMA GoodArchive ==
  ASSUME NEW as, GoodArchives(as), NEW i \in DOMAIN as
  PROVE  /\ ArchiveOK(as[i]) /\ i \in Nat \ {0}
         /\ Width(as[i]) \in Nat /\ Height(as[i]) \in Nat
<1>1. PICK m \in Nat \ {0} : DOMAIN as = 1 .. m
  BY Zenon DEF GoodArchives
<1>2. i \in Nat \ {0}
  BY <1>1
<1>3. ArchiveOK(as[i])
  BY Zenon DEF GoodArchives
<1> QED
  BY <1>2, <1>3, Sizes, Zenon

LEMMA FirstOne ==
  ASSUME NEW as, GoodArchives(as)
  PROVE  1 \in DOMAIN as
<1>1. PICK m \in Nat \ {0} : DOMAIN as = 1 .. m
  BY Zenon DEF GoodArchives
<1> QED
  BY <1>1

LEMMA NoTrips ==
  ASSUME NEW a
  PROVE  TripsWith(Nothing, <<>>, a, 0)
<1>1. TripPlaces(a, 0) = {}
  BY DEF TripPlaces
<1>2. TripsRead(Nothing, a, 0)
  BY <1>1, NothingRead DEF TripsRead
<1>3. IsTable(Nothing)
  BY DEF IsTable, Nothing
<1>4. Upsert(Nothing, <<>>) = Nothing
  BY <1>3, UpsertEmpty
<1>5. <<>> \in Seq(Nat \X Nat)
  OBVIOUS
<1> QED
  BY <1>2, <1>4, <1>5 DEF TripsWith

LEMMA NoStopTimes ==
  ASSUME NEW as, NEW i, NEW W, NEW g, RowsRead(W, as, i, 0)
  PROVE  RowsWith(W, <<>>, g, as, i, 0)
<1>1. IsTable(W)
  BY DEF RowsRead, LastOfEach
<1>2. Upsert(W, Departures(<<>>, g)) = W
  BY <1>1, UpsertEmpty
<1>3. <<>> \in Seq(StopTimes) /\ DOMAIN <<>> = {}
  OBVIOUS
<1> QED
  BY <1>2, <1>3 DEF RowsWith

LEMMA FirstRow ==
  ASSUME NEW w \in Nat
  PROVE  1 \in 1 .. w + 1 /\ 1 - 1 = 0
OBVIOUS

LEMMA NextRow ==
  ASSUME NEW w \in Nat, NEW k \in 1 .. w + 1, k <= w
  PROVE  \E n \in Nat : k = n + 1 /\ n + 1 \in 1 .. w
<1>1. k - 1 \in Nat /\ k = (k - 1) + 1 /\ k \in 1 .. w
  OBVIOUS
<1> QED
  BY <1>1

LEMMA RowAfter ==
  ASSUME NEW w \in Nat, NEW n \in Nat, n + 1 \in 1 .. w, NEW k, k = n + 1
  PROVE  k + 1 \in 1 .. w + 1 /\ (k + 1) - 1 = n + 1
OBVIOUS

LEMMA LastRow ==
  ASSUME NEW w \in Nat, NEW k \in 1 .. w + 1, k > w
  PROVE  k - 1 = w
OBVIOUS

(* Every step of the import leads from phase to phase.                     *)

LEMMA DatesOfNone ==
  ASSUME NEW as
  PROVE  DatesRead({}, as, 0) /\ Complete(as, 0)
BY DEF DatesRead, Complete

LEMMA FirstPhase ==
  ASSUME NEW as, GoodArchives(as)
  PROVE  TripsPhase(as, 1, 1, <<>>, Nothing, Nothing, {})
<1>1. 1 \in 1 .. Width(as[1]) + 1
  BY FirstOne, GoodArchive, FirstRow, Zenon
<1>2. TripsWith(Nothing, <<>>, as[1], 0)
  BY NoTrips
<1>3. RowsRead(Nothing, as, 1, 0)
  BY FirstArchive
<1>4. 1 - 1 = 0
  OBVIOUS
<1> QED
  BY <1>1, <1>2, <1>3, <1>4, DatesOfNone DEF TripsPhase

LEMMA TripPhase ==
  ASSUME NEW as, NEW i \in DOMAIN as, GoodArchives(as), NEW k, NEW b, NEW g, NEW W, NEW dates,
         TripsPhase(as, i, k, b, g, W, dates), k <= Width(as[i]), NEW grown,
         grown = IF ValidTrip(as[i].trips[k])
                 THEN Append(b, <<as[i].trips[k].trip, as[i].trips[k].service>>) ELSE b
  PROVE  /\ TripsPhase(as, i, k + 1, grown, g, W, dates)
         /\ TripsPhase(as, i, k + 1, <<>>, Upsert(g, grown), W, dates)
<1>1. PICK a : a = as[i] /\ ArchiveOK(a)
  BY GoodArchive, Zenon
<1>2. Width(a) \in Nat
  BY <1>1, Sizes, Zenon
<1>3. PICK n \in Nat : k = n + 1 /\ n + 1 \in 1 .. Width(a)
  BY <1>1, <1>2, NextRow, Zenon DEF TripsPhase
<1>4. TripsWith(g, b, a, n)
  <2>1. k - 1 = n
    BY <1>3
  <2> QED
    BY <1>1, <2>1, Zenon DEF TripsPhase
<1>5. TripsWith(g, grown, a, n + 1) /\ TripsWith(Upsert(g, grown), <<>>, a, n + 1)
  BY <1>1, <1>3, <1>4, TripBatch
<1>6. k + 1 \in 1 .. Width(as[i]) + 1 /\ (k + 1) - 1 = n + 1
  BY <1>1, <1>2, <1>3, RowAfter, Zenon
<1> QED
  BY <1>1, <1>5, <1>6 DEF TripsPhase

LEMMA DatesPhase ==
  ASSUME NEW as, NEW i \in DOMAIN as, GoodArchives(as), NEW k, NEW b, NEW g, NEW W, NEW dates,
         TripsPhase(as, i, k, b, g, W, dates), k > Width(as[i]),
         as[i].lacks \cap TripFaults = {}
  PROVE  StopTimesPhase(as, i, 1, <<>>, Upsert(g, b), W, dates \cup ServiceDates(as[i]))
<1>1. ArchiveOK(as[i]) /\ i \in Nat \ {0}
  BY GoodArchive, Zenon
<1>2. Width(as[i]) \in Nat /\ Height(as[i]) \in Nat
  BY GoodArchive, Zenon
<1>3. k - 1 = Width(as[i]) /\ 1 \in 1 .. Height(as[i]) + 1 /\ 1 - 1 = 0
  BY <1>2, FirstRow, LastRow, Zenon DEF TripsPhase
<1>4. TripsRead(Upsert(g, b), as[i], Width(as[i]))
  BY <1>3 DEF TripsPhase, TripsWith
<1>5. RowsWith(W, <<>>, Upsert(g, b), as, i, 0)
  <2>1. PICK U : U = Upsert(g, b)
    OBVIOUS
  <2>2. RowsRead(W, as, i, 0)
    BY DEF TripsPhase
  <2> QED
    BY <2>1, <2>2, NoStopTimes
<1>6. DatesRead(dates \cup ServiceDates(as[i]), as, i)
  <2>1. PICK a : a = as[i]
    OBVIOUS
  <2>2. PICK more : more = ServiceDates(a)
    OBVIOUS
  <2>3. more \in SUBSET (Nat \X Nat) /\ \A s, d \in Nat : <<s, d>> \in more <=> RunsOn(a, s, d)
    BY <1>1, <2>1, <2>2, ServiceDatesRun
  <2>4. /\ dates \in SUBSET (Nat \X Nat)
        /\ \A s, d \in Nat : <<s, d>> \in dates <=> \E j \in 1 .. i - 1 : RunsOn(as[j], s, d)
    BY DEF TripsPhase, DatesRead
  <2>5. \A j : j \in 1 .. i <=> j \in 1 .. i - 1 \/ j = i
    BY <1>1
  <2>6. \A s, d \in Nat :
          <<s, d>> \in dates \cup more <=> \E j \in 1 .. i : RunsOn(as[j], s, d)
    BY <2>1, <2>3, <2>4, <2>5
  <2>7. dates \cup more \in SUBSET (Nat \X Nat)
    BY <2>3, <2>4
  <2> QED
    BY <2>1, <2>2, <2>6, <2>7 DEF DatesRead
<1>7. Complete(as, i - 1)
  BY DEF TripsPhase
<1> QED
  BY <1>3, <1>4, <1>5, <1>6, <1>7 DEF StopTimesPhase

LEMMA StopTimePhase ==
  ASSUME NEW as, NEW i \in DOMAIN as, GoodArchives(as), NEW k, NEW b, NEW g, NEW W, NEW dates,
         StopTimesPhase(as, i, k, b, g, W, dates), k <= Height(as[i]), NEW grown,
         grown = IF ValidStopTime(as[i].stop_times[k])
                 THEN Append(b, as[i].stop_times[k]) ELSE b
  PROVE  /\ StopTimesPhase(as, i, k + 1, grown, g, W, dates)
         /\ StopTimesPhase(as, i, k + 1, <<>>, g, Upsert(W, Departures(grown, g)), dates)
<1>1. ArchiveOK(as[i]) /\ i \in Nat \ {0}
  BY GoodArchive, Zenon
<1>2. Height(as[i]) \in Nat
  BY GoodArchive, Zenon
<1>3. PICK n \in Nat : k = n + 1 /\ n + 1 \in 1 .. Height(as[i])
  BY <1>2, NextRow, Zenon DEF StopTimesPhase
<1>4. RowsWith(W, b, g, as, i, n) /\ TripsRead(g, as[i], Width(as[i]))
  BY <1>1, <1>3 DEF StopTimesPhase
<1>5. /\ RowsWith(W, grown, g, as, i, n + 1)
      /\ RowsWith(Upsert(W, Departures(grown, g)), <<>>, g, as, i, n + 1)
  BY <1>1, <1>3, <1>4, StopTimeBatch
<1>6. k + 1 \in 1 .. Height(as[i]) + 1 /\ (k + 1) - 1 = n + 1
  BY <1>2, <1>3, RowAfter, Zenon
<1> QED
  BY <1>5, <1>6 DEF StopTimesPhase

LEMMA LastPhase ==
  ASSUME NEW as, NEW i \in DOMAIN as, GoodArchives(as), NEW k, NEW b, NEW g, NEW W, NEW dates,
         StopTimesPhase(as, i, k, b, g, W, dates), k > Height(as[i]),
         as[i].lacks \cap StopTimeFaults = {}
  PROVE  /\ i < Len(as) =>
              /\ i + 1 \in DOMAIN as
              /\ TripsPhase(as, i + 1, 1, <<>>, Nothing, Upsert(W, Departures(b, g)), dates)
         /\ ~(i < Len(as)) => DonePhase(as, Upsert(W, Departures(b, g)), dates)
<1>1. ArchiveOK(as[i]) /\ i \in Nat \ {0}
  BY GoodArchive, Zenon
<1>2. Height(as[i]) \in Nat
  BY GoodArchive, Zenon
<1>3. k - 1 = Height(as[i])
  BY <1>2, LastRow, Zenon DEF StopTimesPhase
<1>4. PICK U : U = Upsert(W, Departures(b, g))
  OBVIOUS
<1>5. RowsRead(U, as, i, Height(as[i]))
  BY <1>3, <1>4 DEF StopTimesPhase, RowsWith
<1>6. Complete(as, i)
  <2>1. as[i].lacks \subseteq TripFaults \cup StopTimeFaults
    BY <1>1 DEF ArchiveOK
  <2>2. as[i].lacks \cap TripFaults = {}
    BY DEF StopTimesPhase
  <2>3. as[i].lacks = {}
    BY <2>1, <2>2
  <2>4. \A j : j \in 1 .. i => j \in 1 .. i - 1 \/ j = i
    BY <1>1
  <2> QED
    BY <2>3, <2>4 DEF StopTimesPhase, Complete
<1>7. DatesRead(dates, as, i)
  BY DEF StopTimesPhase
<1>8. PICK m \in Nat \ {0} : Len(as) = m /\ DOMAIN as = 1 .. m
  BY DEF GoodArchives
<1>9. CASE i < m
  <2>1. i + 1 \in DOMAIN as
    BY <1>1, <1>8, <1>9
  <2>2. 1 \in 1 .. Width(as[i + 1]) + 1
    BY <2>1, GoodArchive, FirstRow, Zenon
  <2>3. TripsWith(Nothing, <<>>, as[i + 1], 0)
    BY NoTrips
  <2>4. RowsRead(U, as, i + 1, 0)
    BY <1>1, <1>5, NextArchive
  <2>5. (i + 1) - 1 = i /\ 1 - 1 = 0
    BY <1>1
  <2>6. TripsPhase(as, i + 1, 1, <<>>, Nothing, U, dates)
    BY <1>6, <1>7, <2>2, <2>3, <2>4, <2>5 DEF TripsPhase
  <2> QED
    BY <1>4, <1>8, <1>9, <2>1, <2>6
<1>10. CASE ~(i < m)
  <2>1. i = m
    BY <1>1, <1>8, <1>10
  <2>2. DonePhase(as, U, dates)
    BY <1>5, <1>6, <1>7, <1>8, <2>1 DEF DonePhase
  <2> QED
    BY <1>4, <1>8, <1>10, <2>2
<1> QED
  BY <1>8, <1>9, <1>10

-----------------------------------------------------------------------------
(* The invariant of the import.                                            *)

Bounded ==
  /\ phase \in {"waiting", "download", "trips", "stop_times", "done", "raised"}
  /\ row \in Nat \ {0} /\ Len(batch) < Batch
  /\ stops \in SUBSET Nat /\ InTime(departures)
AtStart ==
  /\ index = 1 /\ row = 1 /\ batch = <<>> /\ gtfs_import_trips = Nothing
  /\ stops = {} /\ service_dates = {} /\ departures = Nothing
Started == GoodArchives(archives) /\ index \in DOMAIN archives
ImportInv ==
  /\ Bounded
  /\ phase = "waiting" => AtStart
  /\ phase # "waiting" => Started
  /\ phase \in {"download", "trips"} =>
       TripsPhase(archives, index, row, batch, gtfs_import_trips, departures, service_dates)
  /\ phase = "stop_times" =>
       StopTimesPhase(archives, index, row, batch, gtfs_import_trips, departures, service_dates)
  /\ phase = "done" => DonePhase(archives, departures, service_dates)
  /\ phase = "raised" => departures = Nothing /\ stops = {} /\ service_dates = {}

LEMMA ImportStarts ==
  Init => ImportInv
<1> SUFFICES ASSUME Init PROVE ImportInv
  OBVIOUS
<1>1. AtStart /\ phase = "waiting"
  BY DEF Init, AtStart
<1>2. Len(<<>>) < Batch
  BY ImportAssumption
<1>3. InTime(Nothing)
  BY DEF InTime, Nothing
<1>4. Bounded
  BY <1>1, <1>2, <1>3 DEF Bounded, AtStart
<1> QED
  BY <1>1, <1>4 DEF ImportInv

(* The archives are those of the site at the links of the provider.        *)
LEMMA BeginBuildStep ==
  ASSUME ImportInv, SelectionInv, BeginBuild
  PROVE  ImportInv'
<1>1. AtStart /\ Bounded
  BY DEF ImportInv, BeginBuild
<1>2. PICK as : as = archives'
  OBVIOUS
<1>3. GoodArchives(as)
  <2>1. PICK o \in Orders : o = order
    BY DEF SelectionInv
  <2>2. PICK u : u = urls
    OBVIOUS
  <2>3. Leads(o, u)
    BY <2>1, <2>2, ResolvedLeads DEF BeginBuild
  <2>4. as = [k \in DOMAIN u |-> o.site[u[k]]]
    BY <1>2, <2>1, <2>2 DEF BeginBuild
  <2>5. PICK n \in Nat \ {0} : u \in [1 .. n -> DOMAIN o.site]
    BY <2>3 DEF Leads
  <2>6. as = [k \in 1 .. n |-> o.site[u[k]]]
    BY <2>4, <2>5
  <2>7. Len(as) = n /\ DOMAIN as = 1 .. n
    BY <2>6
  <2>8. \A k \in 1 .. n : ArchiveOK(as[k])
    BY <2>5, <2>6, ImportAssumption
  <2> QED
    BY <2>7, <2>8 DEF GoodArchives
<1>4. TripsPhase(as, 1, 1, <<>>, Nothing, Nothing, {})
  BY <1>3, FirstPhase
<1>5. 1 \in DOMAIN as
  BY <1>3, FirstOne
<1>6. /\ phase' = "download" /\ index' = 1 /\ row' = 1 /\ batch' = <<>>
      /\ gtfs_import_trips' = Nothing /\ departures' = Nothing /\ service_dates' = {}
      /\ stops' = stops /\ departures' = departures /\ batch' = batch /\ row' = row
  BY <1>1 DEF BeginBuild, AtStart, tables
<1>7. Started'
  BY <1>2, <1>3, <1>5, <1>6 DEF Started
<1>8. Bounded'
  BY <1>1, <1>6 DEF Bounded
<1>9. TripsPhase(archives', index', row', batch', gtfs_import_trips', departures', service_dates')
  BY <1>2, <1>4, <1>6
<1> QED
  BY <1>6, <1>7, <1>8, <1>9 DEF ImportInv

LEMMA DownloadArchiveStep ==
  ASSUME ImportInv, DownloadArchive
  PROVE  ImportInv'
<1>1. /\ Started /\ Bounded
      /\ TripsPhase(archives, index, row, batch, gtfs_import_trips, departures, service_dates)
  BY DEF ImportInv, DownloadArchive
<1>2. /\ phase' = "trips" /\ archives' = archives /\ index' = index /\ row' = row
      /\ batch' = batch /\ gtfs_import_trips' = gtfs_import_trips /\ stops' = stops
      /\ service_dates' = service_dates /\ departures' = departures
  BY DEF DownloadArchive, tables
<1>3. Bounded' /\ Started'
  BY <1>1, <1>2 DEF Bounded, Started
<1>4. TripsPhase(archives', index', row', batch', gtfs_import_trips', departures', service_dates')
  BY <1>1, <1>2
<1> QED
  BY <1>2, <1>3, <1>4 DEF ImportInv

LEMMA StageTripStep ==
  ASSUME ImportInv, StageTrip
  PROVE  ImportInv'
<1>1. PICK as, i, k, b, g, W, dates :
        /\ as = archives /\ i = index /\ k = row /\ b = batch /\ g = gtfs_import_trips
        /\ W = departures /\ dates = service_dates
  OBVIOUS
<1>2. /\ GoodArchives(as) /\ i \in DOMAIN as /\ Bounded /\ Started
      /\ TripsPhase(as, i, k, b, g, W, dates)
  BY <1>1 DEF ImportInv, StageTrip, Started
<1>3. k <= Width(as[i])
  BY <1>1 DEF StageTrip, Archive, Width
<1>4. PICK grown :
        grown = IF ValidTrip(as[i].trips[k])
                THEN Append(b, <<as[i].trips[k].trip, as[i].trips[k].service>>) ELSE b
  OBVIOUS
<1>5. /\ TripsPhase(as, i, k + 1, grown, g, W, dates)
      /\ TripsPhase(as, i, k + 1, <<>>, Upsert(g, grown), W, dates)
  BY <1>2, <1>3, <1>4, TripPhase
<1>6. /\ archives' = as /\ index' = i /\ row' = k + 1 /\ phase' = "trips"
      /\ stops' = stops /\ departures' = W /\ service_dates' = dates
  BY <1>1 DEF StageTrip, tables
<1>7. \/ Len(grown) >= Batch /\ batch' = <<>> /\ gtfs_import_trips' = Upsert(g, grown)
      \/ ~(Len(grown) >= Batch) /\ batch' = grown /\ gtfs_import_trips' = g
  BY <1>1, <1>4 DEF StageTrip, Archive
<1>8. TripsPhase(archives', index', row', batch', gtfs_import_trips', departures', service_dates')
  BY <1>5, <1>6, <1>7
<1>9. Len(batch') < Batch
  <2>1. CASE batch' = <<>>
    BY <2>1, ImportAssumption
  <2>2. CASE ~(Len(grown) >= Batch) /\ batch' = grown
    <3>1. grown \in Seq(Nat \X Nat)
      BY <1>5 DEF TripsPhase, TripsWith
    <3>2. Len(grown) \in Nat /\ Batch \in Nat
      BY <3>1, ImportAssumption
    <3> QED
      BY <2>2, <3>2
  <2> QED
    BY <1>7, <2>1, <2>2
<1>10. Bounded'
  <2>1. row' \in Nat \ {0}
    BY <1>1, <1>2, <1>6 DEF Bounded
  <2> QED
    BY <1>1, <1>2, <1>6, <1>9, <2>1 DEF Bounded
<1>11. Started'
  BY <1>2, <1>6 DEF Started
<1> QED
  BY <1>6, <1>8, <1>10, <1>11 DEF ImportInv

LEMMA InsertStopsAndDatesStep ==
  ASSUME ImportInv, InsertStopsAndDates
  PROVE  ImportInv'
<1>1. PICK as, i, k, b, g, W, dates :
        /\ as = archives /\ i = index /\ k = row /\ b = batch /\ g = gtfs_import_trips
        /\ W = departures /\ dates = service_dates
  OBVIOUS
<1>2. /\ GoodArchives(as) /\ i \in DOMAIN as /\ Bounded /\ Started
      /\ TripsPhase(as, i, k, b, g, W, dates)
  BY <1>1 DEF ImportInv, InsertStopsAndDates, Started
<1>3. k > Width(as[i]) /\ as[i].lacks \cap TripFaults = {}
  BY <1>1 DEF InsertStopsAndDates, Archive, Lacks, Width
<1>4. StopTimesPhase(as, i, 1, <<>>, Upsert(g, b), W, dates \cup ServiceDates(as[i]))
  BY <1>2, <1>3, DatesPhase
<1>5. /\ archives' = as /\ index' = i /\ row' = 1 /\ phase' = "stop_times" /\ batch' = <<>>
      /\ gtfs_import_trips' = Upsert(g, b) /\ departures' = W
      /\ service_dates' = dates \cup ServiceDates(as[i])
      /\ stops' = stops \cup (ToSet(as[i].stops) \ {Missing})
  BY <1>1 DEF InsertStopsAndDates, Archive
<1>6. StopTimesPhase(archives', index', row', batch', gtfs_import_trips', departures', service_dates')
  BY <1>4, <1>5
<1>7. stops' \in SUBSET Nat
  <2>1. PICK file : file = as[i].stops
    OBVIOUS
  <2>2. PICK F : F = Field
    OBVIOUS
  <2>3. file \in Seq(F)
    <3>1. ArchiveOK(as[i])
      BY <1>2, GoodArchive, Zenon
    <3> QED
      BY <2>1, <2>2, <3>1 DEF ArchiveOK
  <2>4. ToSet(file) \subseteq F
    BY <2>3 DEF ToSet
  <2>5. stops \in SUBSET Nat
    BY <1>2 DEF Bounded
  <2> HIDE <2>3
  <2> QED
    BY <1>5, <2>1, <2>2, <2>4, <2>5 DEF Field
<1>8. Bounded'
  <2>1. Len(<<>>) < Batch
    BY ImportAssumption
  <2> QED
    BY <1>1, <1>2, <1>5, <1>7, <2>1 DEF Bounded
<1>9. Started'
  BY <1>2, <1>5 DEF Started
<1> QED
  BY <1>5, <1>6, <1>8, <1>9 DEF ImportInv

LEMMA InsertStopTimeStep ==
  ASSUME ImportInv, InsertStopTime
  PROVE  ImportInv'
<1>1. PICK as, i, k, b, g, W, dates :
        /\ as = archives /\ i = index /\ k = row /\ b = batch /\ g = gtfs_import_trips
        /\ W = departures /\ dates = service_dates
  OBVIOUS
<1>2. /\ GoodArchives(as) /\ i \in DOMAIN as /\ Bounded /\ Started
      /\ StopTimesPhase(as, i, k, b, g, W, dates)
  BY <1>1 DEF ImportInv, InsertStopTime, Started
<1>3. k <= Height(as[i])
  BY <1>1 DEF InsertStopTime, Archive, Height
<1>4. PICK grown :
        grown = IF ValidStopTime(as[i].stop_times[k])
                THEN Append(b, as[i].stop_times[k]) ELSE b
  OBVIOUS
<1>5. /\ StopTimesPhase(as, i, k + 1, grown, g, W, dates)
      /\ StopTimesPhase(as, i, k + 1, <<>>, g, Upsert(W, Departures(grown, g)), dates)
  BY <1>2, <1>3, <1>4, StopTimePhase
<1>6. /\ archives' = as /\ index' = i /\ row' = k + 1 /\ phase' = "stop_times"
      /\ gtfs_import_trips' = g /\ stops' = stops /\ service_dates' = dates
  BY <1>1 DEF InsertStopTime
<1>7. \/ Len(grown) >= Batch /\ batch' = <<>> /\ departures' = Upsert(W, Departures(grown, g))
      \/ ~(Len(grown) >= Batch) /\ batch' = grown /\ departures' = W
  BY <1>1, <1>4 DEF InsertStopTime, Archive
<1>8. StopTimesPhase(archives', index', row', batch', gtfs_import_trips', departures', service_dates')
  BY <1>5, <1>6, <1>7
<1>9. grown \in Seq(StopTimes) /\ \A j \in DOMAIN grown : ValidStopTime(grown[j])
  BY <1>5 DEF StopTimesPhase, RowsWith
<1>10. Len(batch') < Batch
  <2>1. CASE batch' = <<>>
    BY <2>1, ImportAssumption
  <2>2. CASE ~(Len(grown) >= Batch) /\ batch' = grown
    <3>1. Len(grown) \in Nat /\ Batch \in Nat
      BY <1>9, ImportAssumption
    <3> QED
      BY <2>2, <3>1
  <2> QED
    BY <1>7, <2>1, <2>2
<1>11. InTime(departures')
  <2>1. InTime(W)
    BY <1>1, <1>2 DEF Bounded
  <2>2. InTime(Upsert(W, Departures(grown, g)))
    BY <1>9, <2>1, DeparturesInTime
  <2> QED
    BY <1>7, <2>1, <2>2
<1>12. Bounded'
  <2>1. row' \in Nat \ {0}
    BY <1>1, <1>2, <1>6 DEF Bounded
  <2> QED
    BY <1>2, <1>6, <1>10, <1>11, <2>1 DEF Bounded
<1>13. Started'
  BY <1>2, <1>6 DEF Started
<1> QED
  BY <1>6, <1>8, <1>12, <1>13 DEF ImportInv

LEMMA FinishArchiveStep ==
  ASSUME ImportInv, FinishArchive
  PROVE  ImportInv'
<1>1. PICK as, i, k, b, g, W, dates :
        /\ as = archives /\ i = index /\ k = row /\ b = batch /\ g = gtfs_import_trips
        /\ W = departures /\ dates = service_dates
  OBVIOUS
<1>2. /\ GoodArchives(as) /\ i \in DOMAIN as /\ Bounded /\ Started
      /\ StopTimesPhase(as, i, k, b, g, W, dates)
  BY <1>1 DEF ImportInv, FinishArchive, Started
<1>3. k > Height(as[i]) /\ as[i].lacks \cap StopTimeFaults = {}
  BY <1>1 DEF FinishArchive, Archive, Lacks, Height
<1>4. PICK U : U = Upsert(W, Departures(b, g))
  OBVIOUS
<1>5. /\ i < Len(as) => i + 1 \in DOMAIN as /\ TripsPhase(as, i + 1, 1, <<>>, Nothing, U, dates)
      /\ ~(i < Len(as)) => DonePhase(as, U, dates)
  BY <1>2, <1>3, <1>4, LastPhase
<1>6. /\ archives' = as /\ row' = 1 /\ batch' = <<>> /\ gtfs_import_trips' = Nothing
      /\ departures' = U /\ stops' = stops /\ service_dates' = dates
  BY <1>1, <1>4 DEF FinishArchive, DroppedTrips
<1>7. Bounded'
  <2>1. InTime(U)
    <3>1. b \in Seq(StopTimes) /\ \A j \in DOMAIN b : ValidStopTime(b[j])
      BY <1>2 DEF StopTimesPhase, RowsWith
    <3>2. InTime(W)
      BY <1>1, <1>2 DEF Bounded
    <3> QED
      BY <1>4, <3>1, <3>2, DeparturesInTime
  <2>2. Len(<<>>) < Batch
    BY ImportAssumption
  <2>3. phase' \in {"download", "done"}
    BY DEF FinishArchive
  <2> QED
    BY <1>2, <1>6, <2>1, <2>2, <2>3 DEF Bounded
<1>8. CASE i < Len(as)
  <2>1. index' = i + 1 /\ phase' = "download"
    BY <1>1, <1>8 DEF FinishArchive
  <2>2. Started'
    BY <1>2, <1>5, <1>6, <1>8, <2>1 DEF Started
  <2>3. TripsPhase(archives', index', row', batch', gtfs_import_trips', departures', service_dates')
    BY <1>5, <1>6, <1>8, <2>1
  <2> QED
    BY <1>7, <2>1, <2>2, <2>3 DEF ImportInv
<1>9. CASE ~(i < Len(as))
  <2>1. index' = i /\ phase' = "done"
    BY <1>1, <1>9 DEF FinishArchive
  <2>2. Started'
    BY <1>2, <1>6, <2>1 DEF Started
  <2>3. DonePhase(archives', departures', service_dates')
    BY <1>5, <1>6, <1>9
  <2> QED
    BY <1>7, <2>1, <2>2, <2>3 DEF ImportInv
<1> QED
  BY <1>8, <1>9

LEMMA RefuseArchiveStep ==
  ASSUME ImportInv, RefuseArchive
  PROVE  ImportInv'
<1>1. Started /\ Bounded
  BY DEF ImportInv, RefuseArchive
<1>2. /\ phase' = "raised" /\ archives' = archives /\ index' = index /\ row' = row
      /\ batch' = <<>> /\ stops' = {} /\ service_dates' = {} /\ departures' = Nothing
  BY DEF RefuseArchive
<1>3. Len(<<>>) < Batch /\ InTime(Nothing)
  BY ImportAssumption DEF InTime, Nothing
<1>4. Bounded'
  BY <1>1, <1>2, <1>3 DEF Bounded
<1>5. Started'
  BY <1>1, <1>2 DEF Started
<1> QED
  BY <1>2, <1>4, <1>5 DEF ImportInv

LEMMA ImportStutters ==
  ASSUME ImportInv, UNCHANGED importVars
  PROVE  ImportInv'
BY DEF ImportInv, Bounded, AtStart, Started, importVars, tables

(* The invariant holds in every reachable state.                           *)
IInv == SelectionInv /\ ImportInv

(* The selection and the import keep what is said of them: the outcome of  *)
(* a lookup is that of a registered provider, and the tables together with *)
(* the unwritten batch hold the rows that are read so far.                 *)
THEOREM Invariance == Spec => []IInv
<1>1. Init => IInv
  BY SelectionStarts, ImportStarts DEF Init, IInv
<1>2. IInv /\ [Next]_vars => IInv'
  <2> SUFFICES ASSUME IInv, [Next]_vars PROVE IInv'
    OBVIOUS
  <2>1. SelectionInv /\ ImportInv
    BY DEF IInv
  <2>2. CASE SelectionStep /\ UNCHANGED importVars
    <3>1. SelectionInv'
      BY <2>1, <2>2, SelectionSteps
    <3>2. ImportInv'
      BY <2>1, <2>2, ImportStutters
    <3> QED
      BY <3>1, <3>2 DEF IInv
  <2>3. CASE ImportStep /\ UNCHANGED selectionVars
    <3>1. SelectionInv'
      BY <2>1, <2>3, SelectionSteps
    <3>2. ImportInv'
      BY <2>1, <2>3, BeginBuildStep, DownloadArchiveStep, StageTripStep, InsertStopsAndDatesStep,
         InsertStopTimeStep, FinishArchiveStep, RefuseArchiveStep DEF ImportStep
    <3> QED
      BY <3>1, <3>2 DEF IInv
  <2>4. CASE UNCHANGED vars
    <3>1. SelectionInv'
      BY <2>1, <2>4, SelectionSteps DEF vars
    <3>2. ImportInv'
      BY <2>1, <2>4, ImportStutters DEF vars
    <3> QED
      BY <3>1, <3>2 DEF IInv
  <2> QED
    BY <2>2, <2>3, <2>4 DEF Next
<1> QED
  BY <1>1, <1>2, PTL DEF Spec

-----------------------------------------------------------------------------
(* What the tables say when the import is done.                            *)

(* The import keeps its variables within their ranges: no time of          *)
(* departure lies beyond the day after its service date, and no batch      *)
(* outgrows its size.                                                      *)
THEOREM ImportTypes == Spec => []TypeOK
<1>1. IInv => TypeOK
  <2> SUFFICES ASSUME SelectionInv, ImportInv PROVE TypeOK
    BY DEF IInv
  <2>1. Bounded
    BY DEF ImportInv
  <2>2. index \in 1 .. Len(archives) \/ phase = "waiting"
    <3>1. CASE phase # "waiting"
      <4>1. GoodArchives(archives) /\ index \in DOMAIN archives
        BY <3>1 DEF ImportInv, Started
      <4>2. DOMAIN archives = 1 .. Len(archives)
        BY <4>1, Zenon DEF GoodArchives
      <4> QED
        BY <4>1, <4>2
    <3> QED
      BY <3>1
  <2>3. service_dates \in SUBSET (Nat \X Nat)
    <3>1. CASE phase = "waiting"
      BY <3>1 DEF ImportInv, AtStart
    <3>2. CASE phase \in {"download", "trips"}
      BY <3>2 DEF ImportInv, TripsPhase, DatesRead
    <3>3. CASE phase = "stop_times"
      BY <3>3 DEF ImportInv, StopTimesPhase, DatesRead
    <3>4. CASE phase = "done"
      BY <3>4 DEF ImportInv, DonePhase, DatesRead
    <3>5. CASE phase = "raised"
      BY <3>5 DEF ImportInv
    <3> QED
      BY <2>1, <3>1, <3>2, <3>3, <3>4, <3>5 DEF Bounded
  <2>4. \A key \in DOMAIN departures : departures[key].seconds \in 0 .. LastSecond
    BY <2>1, Zenon DEF Bounded, InTime, TwoDays
  <2>5. stage \in {"arguments", "settings", "selected", "resolved", "refused", "raised"}
    BY DEF SelectionInv, Stages
  <2> HIDE DEF SelectionInv, ImportInv
  <2> QED
    BY <2>1, <2>2, <2>3, <2>4, <2>5 DEF TypeOK, Bounded
<1> QED
  BY <1>1, Invariance, PTL

(* What parse_static_feed makes of one archive, read as a whole.           *)
LEMMA ParsedAsWhole ==
  ASSUME NEW a, ArchiveOK(a)
  PROVE  Upsert(Nothing, ParsedDepartures(a)) = [key \in FeedKeys(a) |-> FeedDeparture(a, key)]
<1>1. PICK n \in Nat : DOMAIN a.trips = 1 .. n
  <2>1. PICK T : T = [trip : Field, service : Field]
    OBVIOUS
  <2>2. a.trips \in Seq(T)
    BY <2>1 DEF ArchiveOK
  <2>3. \A S, x : x \in Seq(S) => \E n \in Nat : DOMAIN x = 1 .. n
    OBVIOUS
  <2> QED
    BY <2>2, <2>3, Zenon
<1>2. PICK m \in Nat : DOMAIN a.stop_times = 1 .. m
  <2>1. a.stop_times \in Seq(StopTimes)
    BY DEF ArchiveOK, StopTimes
  <2>2. \A S, x : x \in Seq(S) => \E l \in Nat : DOMAIN x = 1 .. l
    OBVIOUS
  <2> QED
    BY <2>1, <2>2, Zenon
<1> DEFINE VT == {j \in DOMAIN a.trips : ValidTrip(a.trips[j])}
           tp == [k \in VT |-> <<a.trips[k].trip, a.trips[k].service>>]
           VS == {j \in DOMAIN a.stop_times : ValidStopTime(a.stop_times[j])}
           rows == [k \in VS |-> a.stop_times[k]]
           trips == ParsedTrips(a)
           pairs == ParsedDepartures(a)
           W == Upsert(Nothing, pairs)
<1>3. trips = Upsert(Nothing, tp) /\ pairs = Departures(rows, trips)
  BY DEF ParsedTrips, ParsedDepartures
<1>4. /\ DOMAIN trips = FeedTrips(a)
      /\ \A t \in FeedTrips(a) : trips[t] = TripService(a, t)
  <2>1. FeedTrips(a) = {tp[k][1] : k \in DOMAIN tp}
    BY DEF FeedTrips, ToSet
  <2>2. \A t : {k \in DOMAIN tp : tp[k][1] = t} = TripRows(a, t)
    BY DEF TripRows
  <2>3. \A t : TripRows(a, t) \subseteq DOMAIN tp
    BY DEF TripRows
  <2>4. \A k \in DOMAIN tp : tp[k][2] = a.trips[k].service
    OBVIOUS
  <2> HIDE DEF tp, VT
  <2>5. ASSUME NEW t \in FeedTrips(a)
        PROVE  TripRows(a, t) # {} /\ Max(TripRows(a, t)) \in TripRows(a, t)
    <3>1. TripRows(a, t) # {}
      BY <2>1, <2>2
    <3>2. TripRows(a, t) \in SUBSET (1 .. n)
      BY <1>1 DEF TripRows
    <3> QED
      BY <3>1, <3>2, MaxOfPlaces
  <2>6. DOMAIN Nothing = {}
    BY DEF Nothing
  <2>7. trips = [t \in FeedTrips(a) |->
                   IF TripRows(a, t) = {} THEN Nothing[t] ELSE tp[Max(TripRows(a, t))][2]]
    BY <1>3, <2>1, <2>2, <2>6 DEF Upsert
  <2> HIDE DEF trips
  <2> QED
    BY <2>3, <2>4, <2>5, <2>7 DEF TripService
<1> HIDE DEF trips
<1> DEFINE D == {j \in DOMAIN rows : rows[j].trip \in DOMAIN trips}
<1>5. D = {j \in DOMAIN a.stop_times : Counts(a, j)}
  BY <1>4 DEF Counts
<1>6. /\ DOMAIN pairs = D
      /\ \A k \in D : /\ pairs[k][1] = Key(a.stop_times[k])
                      /\ pairs[k][2] = [service |-> trips[a.stop_times[k].trip],
                                        seconds |-> TimeSeconds(a.stop_times[k].time)]
  <2>1. /\ DOMAIN pairs = D
        /\ \A k \in D : pairs[k] = <<Key(rows[k]), [service |-> trips[rows[k].trip],
                                                   seconds |-> TimeSeconds(rows[k].time)]>>
    <3> HIDE DEF pairs, rows
    <3> QED
      BY <1>3 DEF Departures
  <2>2. \A k \in D : rows[k] = a.stop_times[k]
    OBVIOUS
  <2> HIDE DEF pairs, rows, D
  <2> QED
    BY <2>1, <2>2
<1> HIDE DEF D, rows, VS, pairs
<1>7. \A key : {k \in DOMAIN pairs : pairs[k][1] = key} = StopTimeRows(a, key)
  BY <1>5, <1>6 DEF StopTimeRows, Counts
<1>8. {pairs[k][1] : k \in DOMAIN pairs} = FeedKeys(a)
  <2>1. FeedKeys(a) = {Key(a.stop_times[k]) : k \in D}
    BY <1>5 DEF FeedKeys, ToSet, Counts
  <2>2. DOMAIN pairs = D /\ \A k \in D : pairs[k][1] = Key(a.stop_times[k])
    BY <1>6
  <2> QED
    BY <2>1, <2>2
<1>9. W = [key \in FeedKeys(a) |->
             IF StopTimeRows(a, key) = {} THEN Nothing[key]
                                          ELSE pairs[Max(StopTimeRows(a, key))][2]]
  <2>1. DOMAIN Nothing = {}
    BY DEF Nothing
  <2> QED
    BY <1>7, <1>8, <2>1 DEF Upsert
<1> HIDE DEF W
<1>10. ASSUME NEW key \in FeedKeys(a)
       PROVE  W[key] = FeedDeparture(a, key)
  <2>1. StopTimeRows(a, key) # {}
    BY <1>7, <1>8
  <2>2. StopTimeRows(a, key) \in SUBSET (1 .. m)
    BY <1>2 DEF StopTimeRows
  <2>3. PICK k : k = Max(StopTimeRows(a, key)) /\ k \in StopTimeRows(a, key)
    BY <2>1, <2>2, MaxOfPlaces
  <2>4. W[key] = pairs[k][2]
    BY <1>9, <2>1, <2>3
  <2>5. k \in D /\ Key(a.stop_times[k]) = key /\ a.stop_times[k].trip \in FeedTrips(a)
    BY <1>5, <2>3 DEF StopTimeRows, Counts
  <2>6. key[1] = a.stop_times[k].trip
    BY <2>5 DEF Key
  <2>7. W[key] = [service |-> TripService(a, key[1]),
                  seconds |-> TimeSeconds(a.stop_times[k].time)]
    BY <1>4, <1>6, <2>4, <2>5, <2>6
  <2> QED
    BY <2>3, <2>7 DEF FeedDeparture, TripService
<1>11. W = [key \in FeedKeys(a) |-> W[key]]
  BY <1>9
<1> QED
  BY <1>10, <1>11 DEF W, pairs

(* At the end of an import the tables hold the departures and the dates of *)
(* all archives.                                                           *)
LEMMA Imported ==
  ASSUME ImportInv, phase = "done"
  PROVE  /\ GoodArchives(archives)
         /\ departures = FeedDepartures
         /\ service_dates \in SUBSET (Nat \X Nat)
         /\ \A s, d \in Nat : <<s, d>> \in service_dates
                                <=> \E j \in DOMAIN archives : RunsOn(archives[j], s, d)
         /\ \A j \in DOMAIN archives : archives[j].lacks = {}
<1>1. GoodArchives(archives)
  BY DEF ImportInv, Started
<1>2. PICK as : as = archives
  OBVIOUS
<1>3. DonePhase(as, departures, service_dates) /\ GoodArchives(as)
  BY <1>1, <1>2 DEF ImportInv
<1>4. PICK m \in Nat \ {0} :
        /\ DOMAIN as = 1 .. m
        /\ RowsRead(departures, as, m, Height(as[m]))
        /\ DatesRead(service_dates, as, m)
        /\ Complete(as, m)
  BY <1>3, Zenon DEF DonePhase
<1>5. \A j \in 1 .. m : ArchiveOK(as[j])
  BY <1>3, <1>4 DEF GoodArchives
<1>6. PICK W : W = departures
  OBVIOUS
<1>7. W = FeedDepartures
  BY <1>2, <1>4, <1>5, <1>6, AllRowsRead
<1> QED
  BY <1>1, <1>2, <1>4, <1>6, <1>7 DEF DatesRead, Complete

(* The import writes what the archives say, the last of equal rows, for    *)
(* every size of a batch; one archive makes what parse_static_feed makes   *)
(* of it; a failure leaves nothing.                                        *)
THEOREM Faithfulness == Spec => []ImportIsFaithful
<1>1. IInv => ImportIsFaithful
  <2> SUFFICES ASSUME ImportInv PROVE ImportIsFaithful
    BY DEF IInv
  <2>1. ASSUME phase = "done"
        PROVE  /\ departures = FeedDepartures
               /\ \A k \in DOMAIN archives : archives[k].lacks = {}
               /\ Len(archives) = 1 =>
                    departures = Upsert(Nothing, ParsedDepartures(archives[1]))
    <3>1. /\ GoodArchives(archives) /\ departures = FeedDepartures
          /\ \A k \in DOMAIN archives : archives[k].lacks = {}
      BY <2>1, Imported
    <3>2. ASSUME Len(archives) = 1
          PROVE  departures = Upsert(Nothing, ParsedDepartures(archives[1]))
      <4>1. PICK a : a = archives[1]
        OBVIOUS
      <4>2. DOMAIN archives = {1} /\ ArchiveOK(a)
        <5>1. DOMAIN archives = 1 .. 1
          BY <3>1, <3>2 DEF GoodArchives
        <5>2. 1 .. 1 = {1}
          OBVIOUS
        <5> QED
          BY <3>1, <4>1, <5>1, <5>2 DEF GoodArchives
      <4>3. ToSet(archives) = {a}
        BY <4>1, <4>2 DEF ToSet
      <4>4. UNION {FeedKeys(x) : x \in ToSet(archives)} = FeedKeys(a)
        BY <4>3
      <4>5. \A key \in FeedKeys(a) : Max({k \in DOMAIN archives : key \in FeedKeys(archives[k])}) = 1
        <5> SUFFICES ASSUME NEW key \in FeedKeys(a)
                     PROVE  Max({k \in DOMAIN archives : key \in FeedKeys(archives[k])}) = 1
          OBVIOUS
        <5>1. {k \in DOMAIN archives : key \in FeedKeys(archives[k])} = {1}
          BY <4>1, <4>2
        <5>2. Max({1}) = 1
          BY MaxIs
        <5> QED
          BY <5>1, <5>2
      <4>6. FeedDepartures = [key \in FeedKeys(a) |-> FeedDeparture(a, key)]
        BY <4>1, <4>4, <4>5 DEF FeedDepartures
      <4>7. Upsert(Nothing, ParsedDepartures(a)) = [key \in FeedKeys(a) |-> FeedDeparture(a, key)]
        BY <4>2, ParsedAsWhole
      <4> QED
        BY <3>1, <4>1, <4>6, <4>7
    <3> QED
      BY <3>1, <3>2
  <2>2. ASSUME phase = "raised"
        PROVE  departures = Nothing /\ stops = {} /\ service_dates = {}
    BY <2>2 DEF ImportInv
  <2> QED
    BY <2>1, <2>2 DEF ImportIsFaithful
<1> QED
  BY <1>1, Invariance, PTL

(* The fields of calendars and exceptions are numbers.                     *)
LEMMA CalendarFields ==
  ASSUME NEW a, ArchiveOK(a)
  PROVE  /\ \A r \in ToSet(a.calendar) : r.service \in Nat /\ r.start \in Nat /\ r.end \in Nat
         /\ \A x \in ToSet(a.exceptions) : x.service \in Nat /\ x.date \in Nat
         /\ \E n \in Nat : DOMAIN a.exceptions = 1 .. n
         /\ \E n \in Nat : DOMAIN a.trips = 1 .. n
<1>1. PICK C : C = [service : Nat, start : Nat, end : Nat, days : SUBSET (0 .. 6)]
  OBVIOUS
<1>2. PICK E : E = [service : Nat, date : Nat, type : Nat]
  OBVIOUS
<1>3. PICK T : T = [trip : Field, service : Field]
  OBVIOUS
<1>4. a.calendar \in Seq(C) /\ a.exceptions \in Seq(E) /\ a.trips \in Seq(T)
  BY <1>1, <1>2, <1>3 DEF ArchiveOK
<1>5. \A S, x : x \in Seq(S) =>
        (\E n \in Nat : DOMAIN x = 1 .. n) /\ \A y \in ToSet(x) : y \in S
  BY DEF ToSet
<1>6. /\ \A r \in ToSet(a.calendar) : r \in C
      /\ \A x \in ToSet(a.exceptions) : x \in E
      /\ \E n \in Nat : DOMAIN a.exceptions = 1 .. n
      /\ \E n \in Nat : DOMAIN a.trips = 1 .. n
  BY <1>4, <1>5, Zenon
<1> HIDE <1>4
<1> QED
  BY <1>1, <1>2, <1>6

(* A date is served because a calendar row or an exception names it.       *)
LEMMA RunsNamed ==
  ASSUME NEW a, ArchiveOK(a), NEW s, NEW d \in Nat, RunsOn(a, s, d)
  PROVE  \/ \E r \in ToSet(a.calendar) : r.service = s /\ d \in r.start .. r.end
         \/ \E x \in ToSet(a.exceptions) : x.service = s /\ x.date = d
<1> DEFINE about == {k \in DOMAIN a.exceptions :
                       /\ a.exceptions[k].service = s /\ a.exceptions[k].date = d
                       /\ a.exceptions[k].type \in {1, 2}}
<1>1. CASE about # {}
  <2>1. PICK k \in about : TRUE
    BY <1>1
  <2>2. a.exceptions[k] \in ToSet(a.exceptions)
    BY DEF ToSet
  <2> QED
    BY <2>2
<1>2. CASE about = {}
  <2>1. PICK r \in ToSet(a.calendar) : r.service = s /\ r.start <= d /\ d <= r.end
    BY <1>2 DEF RunsOn
  <2>2. r.start \in Nat /\ r.end \in Nat
    BY CalendarFields
  <2>3. d \in r.start .. r.end
    BY <2>1, <2>2
  <2> QED
    BY <2>1, <2>3
<1> QED
  BY <1>1, <1>2

(* The service dates that an import writes are those of the calendars and  *)
(* of the last exception for each date, and no others.                     *)
THEOREM DatesFaithfulness == Spec => []DatesAreFaithful
<1>1. IInv => DatesAreFaithful
  <2> SUFFICES ASSUME ImportInv, phase = "done" PROVE DatesAreFaithful
    BY DEF IInv, DatesAreFaithful
  <2> DEFINE named == UNION {{<<r.service, d>> : d \in r.start .. r.end} :
                               r \in UNION {ToSet(a.calendar) : a \in ToSet(archives)}}
             added == {<<x.service, x.date>> :
                         x \in UNION {ToSet(a.exceptions) : a \in ToSet(archives)}}
  <2>1. /\ GoodArchives(archives)
        /\ service_dates \in SUBSET (Nat \X Nat)
        /\ \A s, d \in Nat : <<s, d>> \in service_dates
                               <=> \E j \in DOMAIN archives : RunsOn(archives[j], s, d)
    BY Imported
  <2>2. ToSet(archives) = {archives[j] : j \in DOMAIN archives}
    BY DEF ToSet
  <2>3. \A a \in ToSet(archives) : ArchiveOK(a)
    BY <2>1, <2>2 DEF GoodArchives
  <2>4. \A s, d \in Nat : <<s, d>> \in service_dates
                            <=> \E a \in ToSet(archives) : RunsOn(a, s, d)
    BY <2>1, <2>2
  <2>5. ASSUME NEW p \in service_dates
        PROVE  p \in named \cup added /\ \E a \in ToSet(archives) : RunsOn(a, p[1], p[2])
    <3>1. p \in Nat \X Nat
      BY <2>1
    <3>2. PICK s \in Nat, d \in Nat : p = <<s, d>>
      BY <3>1
    <3>3. PICK a \in ToSet(archives) : RunsOn(a, s, d)
      BY <2>4, <3>2
    <3>4. CASE \E r \in ToSet(a.calendar) : r.service = s /\ d \in r.start .. r.end
      <4>1. PICK r \in ToSet(a.calendar) : r.service = s /\ d \in r.start .. r.end
        BY <3>4
      <4>2. p \in {<<r.service, e>> : e \in r.start .. r.end}
        BY <3>2, <4>1
      <4>3. r \in UNION {ToSet(x.calendar) : x \in ToSet(archives)}
        OBVIOUS
      <4> QED
        BY <3>2, <3>3, <4>2, <4>3
    <3>5. CASE \E x \in ToSet(a.exceptions) : x.service = s /\ x.date = d
      <4>1. PICK x \in ToSet(a.exceptions) : x.service = s /\ x.date = d
        BY <3>5
      <4>2. x \in UNION {ToSet(y.exceptions) : y \in ToSet(archives)}
        OBVIOUS
      <4> QED
        BY <3>2, <3>3, <4>1, <4>2
    <3> QED
      BY <2>3, <3>3, <3>4, <3>5, RunsNamed
  <2>6. ASSUME NEW p \in named \cup added, NEW a \in ToSet(archives), RunsOn(a, p[1], p[2])
        PROVE  p \in service_dates
    <3>1. \E s, d \in Nat : p = <<s, d>>
      <4>1. CASE p \in named
        <5>1. PICK r \in UNION {ToSet(x.calendar) : x \in ToSet(archives)} :
                p \in {<<r.service, e>> : e \in r.start .. r.end}
          BY <4>1
        <5>2. PICK e \in r.start .. r.end : p = <<r.service, e>>
          BY <5>1
        <5>3. r.service \in Nat /\ r.start \in Nat /\ r.end \in Nat
          BY <2>3, CalendarFields
        <5>4. e \in Nat
          BY <5>3
        <5> QED
          BY <5>2, <5>3, <5>4
      <4>2. CASE p \in added
        <5>1. PICK x \in UNION {ToSet(y.exceptions) : y \in ToSet(archives)} :
                p = <<x.service, x.date>>
          BY <4>2
        <5>2. x.service \in Nat /\ x.date \in Nat
          BY <2>3, CalendarFields
        <5> QED
          BY <5>1, <5>2
      <4> QED
        BY <4>1, <4>2
    <3>2. PICK s \in Nat, d \in Nat : p = <<s, d>>
      BY <3>1
    <3>3. RunsOn(a, s, d)
      BY <2>6, <3>2
    <3> QED
      BY <2>4, <3>2, <3>3
  <2>7. service_dates = {p \in named \cup added :
                           \E a \in ToSet(archives) : RunsOn(a, p[1], p[2])}
    <3> HIDE DEF named, added
    <3> QED
      BY <2>5, <2>6
  <2> QED
    BY <2>7, Zenon DEF DatesAreFaithful
<1> QED
  BY <1>1, Invariance, PTL

(* Departures belong to trips of their archive, dates to services of it.   *)
LEMMA DepartureBelongs ==
  ASSUME NEW a, ArchiveOK(a), NEW key \in FeedKeys(a)
  PROVE  key[1] \in FeedTrips(a) /\ FeedDeparture(a, key).service \in Services(a)
<1>1. key[1] \in FeedTrips(a)
  BY DEF FeedKeys, Key
<1>2. PICK n \in Nat : DOMAIN a.trips = 1 .. n
  BY CalendarFields
<1>3. TripRows(a, key[1]) \in SUBSET (1 .. n) /\ TripRows(a, key[1]) # {}
  BY <1>1, <1>2 DEF TripRows, FeedTrips, ToSet
<1>4. PICK k : k = Max(TripRows(a, key[1])) /\ k \in TripRows(a, key[1])
  BY <1>3, MaxOfPlaces
<1>5. FeedDeparture(a, key).service = a.trips[k].service
  BY <1>4 DEF FeedDeparture
<1>6. a.trips[k] \in ToSet(a.trips) /\ ValidTrip(a.trips[k])
  BY <1>4 DEF TripRows, ToSet
<1> QED
  BY <1>1, <1>5, <1>6 DEF Services

LEMMA RunsBelong ==
  ASSUME NEW a, ArchiveOK(a), NEW s, NEW d \in Nat, RunsOn(a, s, d)
  PROVE  s \in Services(a)
BY RunsNamed DEF Services

(* Archives whose identifiers differ keep their trips apart: what the      *)
(* tables let run is what each archive says for itself.                    *)
THEOREM ArchivesApart == Spec => []ArchivesKeepTheirTrips
<1>1. IInv => ArchivesKeepTheirTrips
  <2> SUFFICES ASSUME ImportInv, phase = "done", Disjoint PROVE ArchivesKeepTheirTrips
    BY DEF IInv, ArchivesKeepTheirTrips
  <2> DEFINE Own(a) == Running([key \in FeedKeys(a) |-> FeedDeparture(a, key)],
                               {p \in service_dates : RunsOn(a, p[1], p[2])})
  <2>1. /\ GoodArchives(archives)
        /\ departures = FeedDepartures
        /\ service_dates \in SUBSET (Nat \X Nat)
        /\ \A s, d \in Nat : <<s, d>> \in service_dates
                               <=> \E j \in DOMAIN archives : RunsOn(archives[j], s, d)
    BY Imported
  <2>2. PICK as : as = archives
    OBVIOUS
  <2>3. PICK m \in Nat \ {0} : DOMAIN as = 1 .. m
    BY <2>1, <2>2, Zenon DEF GoodArchives
  <2>4. \A j \in 1 .. m : ArchiveOK(as[j])
    BY <2>1, <2>2, <2>3 DEF GoodArchives
  <2>5. ToSet(as) = {as[j] : j \in 1 .. m}
    BY <2>3 DEF ToSet
  <2>6. ASSUME NEW j \in 1 .. m, NEW key \in FeedKeys(as[j])
        PROVE  /\ key \in DOMAIN departures
               /\ departures[key] = FeedDeparture(as[j], key)
    <3> DEFINE S == {k \in 1 .. m : key \in FeedKeys(as[k])}
    <3>1. S \in SUBSET (1 .. m) /\ j \in S
      OBVIOUS
    <3>2. PICK k : k = Max(S) /\ k \in S
      <4> HIDE DEF S
      <4> QED
        BY <3>1, MaxOfPlaces
    <3>3. key[1] \in FeedTrips(as[j]) /\ key[1] \in FeedTrips(as[k])
      BY <2>4, <3>2, DepartureBelongs
    <3>4. k = j
      BY <2>2, <2>3, <3>2, <3>3 DEF Disjoint
    <3>5. key \in UNION {FeedKeys(a) : a \in ToSet(as)}
      BY <2>5
    <3> HIDE DEF S
    <3>6. FeedDepartures = [x \in UNION {FeedKeys(a) : a \in ToSet(as)} |->
                              FeedDeparture(as[Max({l \in 1 .. m : x \in FeedKeys(as[l])})], x)]
      BY <2>2, <2>3 DEF FeedDepartures
    <3> QED
      BY <2>1, <3>2, <3>4, <3>5, <3>6 DEF S
  <2>7. \A key \in DOMAIN departures : \E j \in 1 .. m : key \in FeedKeys(as[j])
    <3>1. DOMAIN departures = UNION {FeedKeys(a) : a \in ToSet(as)}
      BY <2>1, <2>2 DEF FeedDepartures
    <3> QED
      BY <2>5, <3>1
  <2>8. ASSUME NEW x \in Running(departures, service_dates)
        PROVE  \E j \in 1 .. m : x \in Own(as[j])
    <3>1. PICK key \in DOMAIN departures, p \in service_dates :
            /\ p[1] = departures[key].service
            /\ x = <<key, p[2], departures[key].seconds>>
      <4>1. PICK q \in (DOMAIN departures) \X service_dates :
              /\ q[2][1] = departures[q[1]].service
              /\ x = <<q[1], q[2][2], departures[q[1]].seconds>>
        BY DEF Running
      <4>2. q[1] \in DOMAIN departures /\ q[2] \in service_dates
        OBVIOUS
      <4> QED
        BY <4>1, <4>2
    <3>2. PICK j \in 1 .. m : key \in FeedKeys(as[j])
      BY <2>7
    <3>3. departures[key] = FeedDeparture(as[j], key)
      BY <2>6, <3>2
    <3>4. p[1] \in Services(as[j])
      BY <2>4, <3>1, <3>2, <3>3, DepartureBelongs
    <3>5. p = <<p[1], p[2]>> /\ p[1] \in Nat /\ p[2] \in Nat
      BY <2>1
    <3>6. PICK i \in 1 .. m : RunsOn(as[i], p[1], p[2])
      BY <2>1, <2>2, <2>3, <3>5
    <3>7. p[1] \in Services(as[i])
      BY <2>4, <3>5, <3>6, RunsBelong
    <3>8. i = j
      BY <2>2, <2>3, <3>4, <3>7 DEF Disjoint
    <3> DEFINE rows == [k \in FeedKeys(as[j]) |-> FeedDeparture(as[j], k)]
               dates == {y \in service_dates : RunsOn(as[j], y[1], y[2])}
    <3>9. key \in DOMAIN rows /\ rows[key] = departures[key] /\ p \in dates
      BY <3>2, <3>3, <3>6, <3>8
    <3> HIDE DEF rows, dates
    <3>10. <<key, p>> \in (DOMAIN rows) \X dates
      BY <3>9
    <3>11. x \in Running(rows, dates)
      <4>1. PICK q : q = <<key, p>>
        OBVIOUS
      <4>2. q[1] = key /\ q[2] = p /\ q \in (DOMAIN rows) \X dates
        BY <3>10, <4>1
      <4>3. q[2][1] = rows[q[1]].service /\ x = <<q[1], q[2][2], rows[q[1]].seconds>>
        BY <3>1, <3>9, <4>2
      <4> QED
        BY <4>2, <4>3 DEF Running
    <3> QED
      BY <3>11 DEF rows, dates
  <2>9. ASSUME NEW j \in 1 .. m, NEW x \in Own(as[j])
        PROVE  x \in Running(departures, service_dates)
    <3> DEFINE rows == [k \in FeedKeys(as[j]) |-> FeedDeparture(as[j], k)]
               dates == {y \in service_dates : RunsOn(as[j], y[1], y[2])}
    <3>0. DOMAIN rows = FeedKeys(as[j]) /\ \A k \in FeedKeys(as[j]) : rows[k] = FeedDeparture(as[j], k)
      OBVIOUS
    <3>1. dates \subseteq service_dates
      OBVIOUS
    <3>2. x \in Running(rows, dates)
      OBVIOUS
    <3> HIDE DEF rows, dates
    <3>3. PICK q \in (DOMAIN rows) \X dates :
            /\ q[2][1] = rows[q[1]].service
            /\ x = <<q[1], q[2][2], rows[q[1]].seconds>>
      BY <3>2 DEF Running
    <3>4. q[1] \in DOMAIN rows /\ q[2] \in dates /\ q = <<q[1], q[2]>>
      OBVIOUS
    <3>5. q[1] \in DOMAIN departures /\ departures[q[1]] = rows[q[1]]
      <4>1. PICK key \in FeedKeys(as[j]) : key = q[1]
        BY <3>0, <3>4
      <4>2. key \in DOMAIN departures /\ departures[key] = FeedDeparture(as[j], key)
        BY <2>6
      <4>3. rows[key] = FeedDeparture(as[j], key)
        BY <3>0
      <4> QED
        BY <4>1, <4>2, <4>3
    <3>6. q \in (DOMAIN departures) \X service_dates
      BY <3>1, <3>4, <3>5
    <3>7. q[2][1] = departures[q[1]].service /\ x = <<q[1], q[2][2], departures[q[1]].seconds>>
      BY <3>3, <3>5
    <3> QED
      BY <3>6, <3>7 DEF Running
  <2> HIDE DEF Own
  <2>10. UNION {Own(a) : a \in ToSet(archives)} = Running(departures, service_dates)
    BY <2>2, <2>5, <2>8, <2>9
  <2> QED
    BY <2>10 DEF ArchivesKeepTheirTrips, Own
<1> QED
  BY <1>1, Invariance, PTL

(* The archive that is taken from the catalog of Olsztyn is valid today    *)
(* and no valid one begins later; the lookup fails only where there is no  *)
(* such archive or an impossible date is listed.                           *)
THEOREM NewestValidArchive == Spec => []SelectionIsNewestValid
<1>1. IInv => SelectionIsNewestValid
  BY NewestIsSelected DEF IInv
<1> QED
  BY <1>1, Invariance, PTL

=============================================================================
