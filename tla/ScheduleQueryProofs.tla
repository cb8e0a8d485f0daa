------------------------ MODULE ScheduleQueryProofs ------------------------
(***************************************************************************)
(* What a client is told is right for tables of any size and for every     *)
(* limit, and every request has an answer.                                 *)
(*                                                                         *)
(* The answers do not depend on each other, so the invariant says of the   *)
(* last list, the last schedule and the tables what the properties say;    *)
(* a restart is the only step that changes the tables, and it empties      *)
(* both.  What takes proving is the reading itself: that sorting loses no  *)
(* row, that the loop over the rows lists every name once, and that two    *)
(* service dates reach every departure still to come.                      *)
(***************************************************************************)
EXTENDS ScheduleQuery, FiniteSetTheorems, SequenceTheorems, FiniteFacts, TLAPS

-----------------------------------------------------------------------------
(* Sorting and cutting.                                                    *)

(* A list of all elements of S in an order R.                              *)
IsSorting(s, S, R) ==
  /\ s \in [1 .. Cardinality(S) -> S]
  /\ \A k, l \in 1 .. Cardinality(S) :
       k < l => s[k] # s[l] /\ <<s[l], s[k]>> \notin R

(* Such a list that is cut at a limit: no element twice, none before an    *)
(* earlier one, and one that is not in it comes before none of it and is   *)
(* left out only at the limit.                                             *)
IsCut(t, S, R, limit) ==
  /\ t \in Seq(S)
  /\ Len(t) <= limit
  /\ \A k, l \in 1 .. Len(t) : k < l => t[k] # t[l] /\ <<t[l], t[k]>> \notin R
  /\ \A x \in S : \/ \E k \in 1 .. Len(t) : t[k] = x
                  \/ /\ Len(t) = limit /\ limit < Cardinality(S)
                     /\ \A k \in 1 .. Len(t) : <<x, t[k]>> \notin R

(* What LIMIT makes of a sorted list.                                      *)
LEMMA CutSorting ==
  ASSUME NEW S, IsFiniteSet(S), NEW R, NEW limit \in Nat,
         NEW s, IsSorting(s, S, R)
  PROVE  IsCut(First(s, limit), S, R, limit)
<1>0. /\ s \in [1 .. Cardinality(S) -> S]
      /\ \A k, l \in 1 .. Cardinality(S) :
           k < l => s[k] # s[l] /\ <<s[l], s[k]>> \notin R
  BY DEF IsSorting
<1>1. PICK n \in Nat : n = Cardinality(S)
  BY FS_CardinalityType
<1>2. PICK m \in Nat : m = (IF n < limit THEN n ELSE limit)
  OBVIOUS
<1>3. m <= n /\ m <= limit /\ (m = n \/ m = limit)
  BY <1>2
<1>4. PICK t : t = First(s, limit)
  OBVIOUS
<1>5. t \in Seq(S) /\ Len(t) = m /\ \A k \in 1 .. m : t[k] = s[k]
  <2>1. s \in Seq(S) /\ Len(s) = n
    BY <1>0, <1>1
  <2>2. t = SubSeq(s, 1, m)
    <3> DEFINE cut == IF Len(s) < limit THEN Len(s) ELSE limit
    <3>1. cut = m
      BY <1>2, <2>1
    <3>2. t = SubSeq(s, 1, cut)
      BY <1>4 DEF First
    <3> HIDE DEF cut
    <3> QED
      BY <3>1, <3>2
  <2>3. m \in 0 .. Len(s)
    BY <1>3, <2>1
  <2>4. 1 \in Int /\ m \in Int /\ \A i \in 1 .. m : s[i] \in S
    BY <1>0, <1>1, <1>3
  <2>5. /\ SubSeq(s, 1, m) \in Seq(S)
        /\ Len(SubSeq(s, 1, m)) = IF 1 <= m THEN m - 1 + 1 ELSE 0
        /\ \A i \in 1 .. m - 1 + 1 : SubSeq(s, 1, m)[i] = s[1 + i - 1]
    BY <2>4, SubSeqProperties
  <2>6. /\ Len(SubSeq(s, 1, m)) = m
        /\ \A k \in 1 .. m : SubSeq(s, 1, m)[k] = s[k]
    BY <2>5
  <2> QED
    BY <2>2, <2>5, <2>6
<1>6. \A k, l \in 1 .. n : k < l => s[k] # s[l] /\ <<s[l], s[k]>> \notin R
  BY <1>0, <1>1
<1>7. \A x \in S : \E k \in 1 .. n : s[k] = x
  <2>1. \A k, l \in 1 .. Cardinality(S) : k < l => s[k] # s[l]
    BY <1>0
  <2>2. \A x \in S : \E k \in 1 .. Cardinality(S) : s[k] = x
    BY <1>0, <2>1, SortingCovers
  <2> QED
    BY <1>1, <2>2
<1>8. \A k, l \in 1 .. m : k < l => t[k] # t[l] /\ <<t[l], t[k]>> \notin R
  BY <1>3, <1>5, <1>6
<1>9. ASSUME NEW x \in S
      PROVE  \/ \E k \in 1 .. m : t[k] = x
             \/ m = limit /\ limit < n /\ \A k \in 1 .. m : <<x, t[k]>> \notin R
  <2>1. PICK l \in 1 .. n : s[l] = x
    BY <1>7
  <2>2. CASE l <= m
    BY <1>5, <2>1, <2>2
  <2>3. CASE l > m
    <3>1. m = limit /\ limit < n
      BY <1>3, <2>3
    <3>2. \A k \in 1 .. m : k < l /\ k \in 1 .. n
      BY <1>3, <2>3
    <3>3. \A k \in 1 .. m : <<x, s[k]>> \notin R
      BY <1>6, <2>1, <3>2
    <3> QED
      BY <1>5, <3>1, <3>3
  <2> QED
    BY <2>2, <2>3
<1>10. IsCut(t, S, R, limit)
  BY <1>1, <1>3, <1>5, <1>8, <1>9 DEF IsCut
<1> QED
  BY <1>4, <1>10

-----------------------------------------------------------------------------
(* The stop list.                                                          *)

Listed == [id : DOMAIN db.stops, name : Names]

(* Normalising leaves the text of a name.                                  *)
LEMMA NormalName ==
  ASSUME NEW n \in Names
  PROVE  /\ normalize_stop_name(n) \in Names
         /\ normalize_stop_name(n).text = n.text
         /\ normalize_stop_name(n).positions <= n.positions
BY DEF normalize_stop_name, Names

(* The loop with seen_names: every name is listed once, by a stop of the   *)
(* rows that has it.                                                       *)
LEMMA GroupedRows ==
  ASSUME DatabaseOK(db), NEW rows \in Seq(DOMAIN db.stops)
  PROVE  /\ Grouped(rows) \in Seq(Listed)
         /\ \A k \in DOMAIN Grouped(rows) :
              Grouped(rows)[k].name = ListedName(Grouped(rows)[k].id)
         /\ \A k, l \in DOMAIN Grouped(rows) :
              Grouped(rows)[k].name = Grouped(rows)[l].name => k = l
         /\ \A j \in DOMAIN rows : \E k \in DOMAIN Grouped(rows) :
              Grouped(rows)[k].name = ListedName(rows[j])
         /\ \A k \in DOMAIN Grouped(rows) : \E j \in DOMAIN rows :
              Grouped(rows)[k].name = ListedName(rows[j])
<1> DEFINE Step(list, n) ==
             IF \E k \in DOMAIN list : SameStop(list[k].id, rows[n])
             THEN list
             ELSE Append(list, [id |-> rows[n], name |-> ListedName(rows[n])])
           N == Len(rows)
           T == Seq(Listed)
           G == [x \in T \X (1 .. N) |-> Step(x[1], x[2])]
           Good(g) == g = [n \in 0 .. N |-> IF n = 0 THEN <<>> ELSE Step(g[n - 1], n)]
           result == CHOOSE g : Good(g)
<1>1. N \in Nat /\ \A n \in 1 .. N : rows[n] \in DOMAIN db.stops
  OBVIOUS
<1>2. \A i \in DOMAIN db.stops : ListedName(i) \in Names
  BY NormalName DEF DatabaseOK, ListedName
<1>3. ASSUME NEW list \in T, NEW n \in 1 .. N
      PROVE  Step(list, n) \in T
  <2>1. [id |-> rows[n], name |-> ListedName(rows[n])] \in Listed
    BY <1>1, <1>2 DEF Listed
  <2> QED
    BY <2>1
<1>4. <<>> \in T
  OBVIOUS
<1>5. \E g : Good(g)
  <2>1. G \in [T \X (1 .. N) -> T]
    BY <1>3
  <2>2. PICK f \in [0 .. N -> T] :
          /\ f[0] = <<>>
          /\ \A n \in 1 .. N : f[n] = G[<<f[n - 1], n>>]
    <3>1. PICK T0 : T0 = T
      OBVIOUS
    <3>2. PICK G0 : G0 = G
      OBVIOUS
    <3> HIDE DEF T, G
    <3>3. <<>> \in T0 /\ N \in Nat /\ G0 \in Steps(T0, N)
      BY <1>1, <1>4, <2>1, <3>1, <3>2 DEF Steps
    <3>4. PICK f : Recursion(f, T0, <<>>, N, G0)
      <4> HIDE DEF N
      <4> QED
        BY <3>3, RecursiveFunction
    <3> QED
      BY <3>1, <3>2, <3>4 DEF Recursion
  <2>3. \A n \in 1 .. N : f[n] = Step(f[n - 1], n)
    <3> SUFFICES ASSUME NEW n \in 1 .. N PROVE f[n] = Step(f[n - 1], n)
      OBVIOUS
    <3>1. n - 1 \in 0 .. N
      BY <1>1
    <3>2. f[n - 1] \in T
      BY <2>2, <3>1
    <3>3. G[<<f[n - 1], n>>] = Step(f[n - 1], n)
      <4>1. PICK list \in T : list = f[n - 1]
        BY <3>2
      <4>2. <<list, n>> \in T \X (1 .. N)
        BY <4>1
      <4>3. G[<<list, n>>] = Step(list, n)
        <5> HIDE DEF Step, T, N
        <5> QED
          BY <4>2
      <4> HIDE DEF Step, G
      <4> QED
        BY <4>1, <4>3
    <3> QED
      BY <2>2, <3>3
  <2>4. \A n \in 0 .. N :
          f[n] = IF n = 0 THEN <<>> ELSE Step(f[n - 1], n)
    <3> HIDE DEF Step, T, G
    <3> QED
      BY <1>1, <2>2, <2>3
  <2>5. f = [n \in 0 .. N |-> IF n = 0 THEN <<>> ELSE Step(f[n - 1], n)]
    <3> HIDE DEF Step, T, G
    <3> QED
      BY <2>2, <2>4
  <2> QED
    BY <2>5
<1>6. Good(result)
  <2> HIDE DEF Good
  <2> QED
    BY <1>5
<1>7. Grouped(rows) = result[N]
  BY DEF Grouped
<1> HIDE DEF result
<1>8. /\ result[0] = <<>>
      /\ \A n \in 1 .. N : result[n] = Step(result[n - 1], n)
  <2> HIDE DEF Step
  <2> QED
    BY <1>1, <1>6
<1> HIDE DEF Step, G, Good
<1> DEFINE Fits(list, n) ==
             /\ list \in T
             /\ \A k \in DOMAIN list : list[k].name = ListedName(list[k].id)
             /\ \A k, l \in DOMAIN list : list[k].name = list[l].name => k = l
             /\ \A j \in 1 .. n : \E k \in DOMAIN list : list[k].name = ListedName(rows[j])
             /\ \A k \in DOMAIN list : \E j \in 1 .. n : list[k].name = ListedName(rows[j])
           Q == {n \in Nat : n <= N => Fits(result[n], n)}
<1>9. 0 \in Q
  <2>1. <<>> \in T /\ DOMAIN <<>> = {} /\ 1 .. 0 = {}
    OBVIOUS
  <2>2. Fits(<<>>, 0)
    BY <2>1
  <2> HIDE DEF Fits
  <2> QED
    BY <1>1, <1>8, <2>2
<1>10. \A n \in Nat : n \in Q => n + 1 \in Q
  <2> SUFFICES ASSUME NEW n \in Nat, n + 1 <= N, Fits(result[n], n)
               PROVE  Fits(result[n + 1], n + 1)
    <3> HIDE DEF Fits
    <3>1. \A n \in Nat : n + 1 \in Nat /\ (n + 1 <= N => n <= N)
      BY <1>1
    <3>2. ASSUME NEW n \in Nat, n \in Q, n + 1 <= N
          PROVE  Fits(result[n], n)
      BY <3>1, <3>2
    <3>3. (\A n \in Nat : n + 1 <= N /\ Fits(result[n], n) => Fits(result[n + 1], n + 1))
            => \A n \in Nat : n \in Q => n + 1 \in Q
      BY <3>1, <3>2, Zenon
    <3> QED
      BY <3>3, Zenon
  <2> DEFINE row == rows[n + 1]
             new == [id |-> row, name |-> ListedName(row)]
  <2>1. PICK list \in T : list = result[n]
    OBVIOUS
  <2>2. n + 1 \in 1 .. N /\ (n + 1) - 1 = n /\ row \in DOMAIN db.stops
    BY <1>1
  <2>3. result[n + 1] = Step(list, n + 1)
    BY <1>8, <2>1, <2>2
  <2>4. Fits(list, n)
    BY <2>1
  <2> HIDE DEF Fits
  <2>5. CASE \E k \in DOMAIN list : SameStop(list[k].id, row)
    <3>1. result[n + 1] = list
      BY <2>3, <2>5 DEF Step
    <3>2. PICK k \in DOMAIN list : list[k].name = ListedName(row)
      BY <2>4, <2>5 DEF Fits, SameStop
    <3>3. Fits(list, n + 1)
      <4>1. \A j \in 1 .. n + 1 : j \in 1 .. n \/ rows[j] = row
        OBVIOUS
      <4>2. \A j \in 1 .. n : j \in 1 .. n + 1
        OBVIOUS
      <4> HIDE DEF T, row
      <4>3. \A j \in 1 .. n + 1 : \E l \in DOMAIN list : list[l].name = ListedName(rows[j])
        BY <2>4, <3>2, <4>1 DEF Fits
      <4>4. \A l \in DOMAIN list : \E j \in 1 .. n + 1 : list[l].name = ListedName(rows[j])
        BY <2>4, <4>2 DEF Fits
      <4> QED
        BY <2>4, <4>3, <4>4 DEF Fits
    <3> QED
      BY <3>1, <3>3
  <2>6. CASE \A k \in DOMAIN list : ~SameStop(list[k].id, row)
    <3>1. result[n + 1] = Append(list, new)
      BY <2>3, <2>6 DEF Step
    <3>2. new \in Listed /\ new.name = ListedName(row) /\ new.id = row
      BY <1>2, <2>2 DEF Listed
    <3>3. \A k \in DOMAIN list : list[k].name # ListedName(row)
      BY <2>4, <2>6 DEF Fits, SameStop
    <3>4. PICK longer : longer = Append(list, new)
      OBVIOUS
    <3>5. PICK m \in Nat : m = Len(list)
      BY <2>1
    <3>6. /\ longer \in T
          /\ DOMAIN longer = 1 .. m + 1 /\ DOMAIN list = 1 .. m
          /\ longer[m + 1] = new
          /\ \A k \in 1 .. m : longer[k] = list[k]
      <4> HIDE DEF new
      <4> QED
        BY <3>2, <3>4, <3>5
    <3> HIDE DEF new, row
    <3>7. \A k \in 1 .. m + 1 : k \in 1 .. m \/ k = m + 1
      OBVIOUS
    <3>8. \A k \in DOMAIN longer : longer[k].name = ListedName(longer[k].id)
      BY <2>4, <3>2, <3>6, <3>7 DEF Fits
    <3>9. \A k, l \in DOMAIN longer : longer[k].name = longer[l].name => k = l
      <4> SUFFICES ASSUME NEW k \in 1 .. m + 1, NEW l \in 1 .. m + 1,
                          longer[k].name = longer[l].name
                   PROVE  k = l
        BY <3>6
      <4>1. CASE k \in 1 .. m /\ l \in 1 .. m
        <5>1. \A i, j \in DOMAIN list : list[i].name = list[j].name => i = j
          BY <2>4 DEF Fits
        <5> HIDE DEF T
        <5> QED
          BY <3>6, <4>1, <5>1
      <4>2. CASE k = m + 1 /\ l \in 1 .. m
        BY <3>2, <3>3, <3>6, <4>2
      <4>3. CASE k \in 1 .. m /\ l = m + 1
        BY <3>2, <3>3, <3>6, <4>3
      <4> QED
        BY <3>7, <4>1, <4>2, <4>3
    <3>10. \A j \in 1 .. n + 1 :
             \E k \in DOMAIN longer : longer[k].name = ListedName(rows[j])
      <4> SUFFICES ASSUME NEW j \in 1 .. n + 1
                   PROVE  \E k \in 1 .. m + 1 : longer[k].name = ListedName(rows[j])
        BY <3>6
      <4>1. CASE j \in 1 .. n
        <5>1. PICK k \in 1 .. m : list[k].name = ListedName(rows[j])
          BY <2>4, <3>6, <4>1 DEF Fits
        <5> QED
          BY <3>6, <5>1
      <4>2. CASE j = n + 1
        BY <3>2, <3>6, <4>2 DEF row
      <4> QED
        BY <4>1, <4>2
    <3>11. \A k \in DOMAIN longer :
             \E j \in 1 .. n + 1 : longer[k].name = ListedName(rows[j])
      <4> SUFFICES ASSUME NEW k \in 1 .. m + 1
                   PROVE  \E j \in 1 .. n + 1 : longer[k].name = ListedName(rows[j])
        BY <3>6
      <4>1. CASE k \in 1 .. m
        <5>1. PICK j \in 1 .. n : list[k].name = ListedName(rows[j])
          BY <2>4, <3>6, <4>1 DEF Fits
        <5> QED
          BY <3>6, <4>1, <5>1
      <4>2. CASE k = m + 1
        BY <3>2, <3>6, <4>2 DEF row
      <4> QED
        BY <4>1, <4>2
    <3>12. Fits(longer, n + 1)
      <4> HIDE DEF T
      <4> QED
        BY <3>6, <3>8, <3>9, <3>10, <3>11 DEF Fits
    <3> QED
      BY <3>1, <3>4, <3>12
  <2> QED
    BY <2>5, <2>6
<1> HIDE DEF Q
<1>11. N \in Q
  BY <1>1, <1>9, <1>10, NaturalInduction
<1>12. Fits(Grouped(rows), N)
  BY <1>1, <1>7, <1>11 DEF Q
<1>13. DOMAIN rows = 1 .. N
  OBVIOUS
<1>14. PICK g : g = Grouped(rows)
  OBVIOUS
<1>15. Fits(g, N)
  <2> HIDE DEF Fits
  <2> QED
    BY <1>12, <1>14
<1> HIDE DEF N
<1> QED
  BY <1>13, <1>14, <1>15

(* The stops in the order of the list, as pairs.                           *)
StopOrder == {p \in (DOMAIN db.stops) \X (DOMAIN db.stops) : StopBefore(p[1], p[2])}

(* The order of the list is one.                                           *)
LEMMA StopOrderIsOne ==
  ASSUME DatabaseOK(db)
  PROVE  /\ \A i \in DOMAIN db.stops : <<i, i>> \notin StopOrder
         /\ \A i, j, k \in DOMAIN db.stops :
              <<i, j>> \in StopOrder /\ <<j, k>> \in StopOrder => <<i, k>> \in StopOrder
<1>1. /\ DOMAIN db.stops \subseteq Nat
      /\ \A i \in DOMAIN db.stops :
           db.stops[i].text \in Nat /\ db.stops[i].positions \in Nat
  BY DEF DatabaseOK, Names
<1>2. \A i, j \in DOMAIN db.stops : <<i, j>> \in StopOrder <=> StopBefore(i, j)
  BY DEF StopOrder
<1>3. \A i \in DOMAIN db.stops : ~StopBefore(i, i)
  BY <1>1 DEF StopBefore, NameBefore
<1>4. \A i, j \in DOMAIN db.stops :
        StopBefore(i, j) <=>
          \/ db.stops[i].text < db.stops[j].text
          \/ /\ db.stops[i].text = db.stops[j].text
             /\ db.stops[i].positions < db.stops[j].positions
          \/ /\ db.stops[i].text = db.stops[j].text
             /\ db.stops[i].positions = db.stops[j].positions
             /\ i < j
  BY <1>1 DEF StopBefore, NameBefore, DatabaseOK, Names
<1>5. \A i, j, k \in DOMAIN db.stops :
        StopBefore(i, j) /\ StopBefore(j, k) => StopBefore(i, k)
  BY <1>1, <1>4
<1> QED
  BY <1>2, <1>3, <1>5

Hits(fragment) == {i \in DOMAIN db.stops : Sought(i, fragment)}

(* A list of the stops that are sought.                                    *)
LEMMA LimitedRows ==
  ASSUME DatabaseOK(db), NEW fragment, NEW rows \in LimitedStops(fragment)
  PROVE  /\ rows \in Seq(DOMAIN db.stops)
         /\ \A j \in DOMAIN rows : rows[j] \in Hits(fragment)
         /\ \/ \A i \in Hits(fragment) : \E j \in DOMAIN rows : rows[j] = i
            \/ /\ Len(rows) = Limit(fragment)
               /\ ~(Cardinality(Hits(fragment)) <= Limit(fragment))
<1>1. PICK S : S = Hits(fragment)
  OBVIOUS
<1>2. S \subseteq DOMAIN db.stops /\ IsFiniteSet(S)
  <2>1. PICK D : D = DOMAIN db.stops
    OBVIOUS
  <2>2. IsFiniteSet(D) /\ S \in SUBSET D
    BY <1>1, <2>1 DEF DatabaseOK, Hits
  <2> QED
    BY <2>1, <2>2, FS_Subset
<1>3. PICK s \in Sortings(S, StopBefore) : rows = First(s, Limit(fragment))
  BY <1>1 DEF LimitedStops, Hits
<1>4. PICK R : R = StopOrder
  OBVIOUS
<1>5. PICK limit \in Nat : limit = Limit(fragment)
  BY QueryAssumption DEF Limit
<1>6. IsSorting(s, S, R)
  BY <1>2, <1>3, <1>4 DEF Sortings, StopOrder, IsSorting
<1>7. IsCut(rows, S, R, limit)
  BY <1>2, <1>3, <1>5, <1>6, CutSorting
<1>8. DOMAIN rows = 1 .. Len(rows) /\ Len(rows) \in Nat /\ rows \in Seq(S)
  BY <1>7 DEF IsCut
<1>9. rows \in Seq(DOMAIN db.stops) /\ \A j \in DOMAIN rows : rows[j] \in S
  BY <1>2, <1>8
<1>10. PICK n \in Nat : n = Cardinality(S)
  BY <1>2, FS_CardinalityType
<1>11. \A x \in S : (\E j \in DOMAIN rows : rows[j] = x) \/ (Len(rows) = limit /\ limit < n)
  BY <1>7, <1>8, <1>10 DEF IsCut
<1> QED
  BY <1>1, <1>5, <1>8, <1>9, <1>10, <1>11

(* What holds of a list that a client is given.                            *)
ListingOK(list, fragment) ==
  /\ list \in Seq(Listed)
  /\ \A k \in DOMAIN list : list[k].name = ListedName(list[k].id)
  /\ \A k, l \in DOMAIN list : list[k].name = list[l].name => k = l
  /\ Cardinality(Hits(fragment)) <= Limit(fragment) =>
       {list[k].name : k \in DOMAIN list} = {ListedName(i) : i \in Hits(fragment)}

(* The stop list is such a list.                                           *)
LEMMA ListStops ==
  ASSUME DatabaseOK(db), NEW fragment, NEW list \in stops(fragment)
  PROVE  ListingOK(list, fragment)
<1>1. PICK rows \in LimitedStops(fragment) : list = Grouped(rows)
  BY DEF stops
<1>2. rows \in Seq(DOMAIN db.stops)
  BY LimitedRows
<1>3. /\ list \in Seq(Listed)
      /\ \A k \in DOMAIN list : list[k].name = ListedName(list[k].id)
      /\ \A k, l \in DOMAIN list : list[k].name = list[l].name => k = l
      /\ \A j \in DOMAIN rows : \E k \in DOMAIN list : list[k].name = ListedName(rows[j])
      /\ \A k \in DOMAIN list : \E j \in DOMAIN rows : list[k].name = ListedName(rows[j])
  <2>1. /\ Grouped(rows) \in Seq(Listed)
        /\ \A k \in DOMAIN Grouped(rows) :
             Grouped(rows)[k].name = ListedName(Grouped(rows)[k].id)
        /\ \A k, l \in DOMAIN Grouped(rows) :
             Grouped(rows)[k].name = Grouped(rows)[l].name => k = l
        /\ \A j \in DOMAIN rows : \E k \in DOMAIN Grouped(rows) :
             Grouped(rows)[k].name = ListedName(rows[j])
        /\ \A k \in DOMAIN Grouped(rows) : \E j \in DOMAIN rows :
             Grouped(rows)[k].name = ListedName(rows[j])
    BY <1>2, GroupedRows
  <2> QED
    BY <1>1, <2>1
<1>4. ASSUME Cardinality(Hits(fragment)) <= Limit(fragment)
      PROVE  {list[k].name : k \in DOMAIN list} = {ListedName(i) : i \in Hits(fragment)}
  <2>1. /\ \A j \in DOMAIN rows : rows[j] \in Hits(fragment)
        /\ \A i \in Hits(fragment) : \E j \in DOMAIN rows : rows[j] = i
    BY <1>4, LimitedRows
  <2>2. ASSUME NEW k \in DOMAIN list
        PROVE  \E i \in Hits(fragment) : list[k].name = ListedName(i)
    <3>1. PICK j \in DOMAIN rows : list[k].name = ListedName(rows[j])
      BY <1>3
    <3> QED
      BY <2>1, <3>1
  <2>3. ASSUME NEW i \in Hits(fragment)
        PROVE  \E k \in DOMAIN list : list[k].name = ListedName(i)
    <3>1. PICK j \in DOMAIN rows : rows[j] = i
      BY <2>1
    <3> QED
      BY <1>3, <3>1
  <2> QED
    BY <2>2, <2>3
<1> QED
  BY <1>3, <1>4 DEF ListingOK

(* A search for a listed name lists it again.                              *)
LEMMA SearchStops ==
  ASSUME DatabaseOK(db), NEW i \in DOMAIN db.stops,
         NEW rows \in LimitedStops(ListedName(i)),
         Len(rows) # FoundLimit
  PROVE  \E l \in DOMAIN Grouped(rows) : Grouped(rows)[l].name = ListedName(i)
<1>1. /\ db.stops[i] \in Names /\ db.stops[i].text # 0
  BY DEF DatabaseOK
<1>2. PICK name \in Names : name = ListedName(i)
  BY <1>1, NormalName DEF ListedName
<1>3. name.text = db.stops[i].text /\ name.positions <= db.stops[i].positions
  BY <1>1, <1>2, NormalName DEF ListedName
<1>4. name # NoName
  BY <1>1, <1>3 DEF NoName
<1>5. Limit(name) = FoundLimit
  BY <1>4 DEF Limit
<1>6. i \in Hits(name)
  BY <1>3 DEF Hits, Sought, Like
<1>7. rows \in Seq(DOMAIN db.stops) /\ \E j \in DOMAIN rows : rows[j] = i
  BY <1>2, <1>5, <1>6, LimitedRows
<1> QED
  BY <1>7, GroupedRows

-----------------------------------------------------------------------------
(* The schedule.                                                           *)

Queries == [today : Int, time : 0 .. DayLength - 1, count : Nat, name : Names]

(* The departures in the order of the schedule, as pairs.                  *)
BeforeOrder == {p \in Occurrences \X Occurrences : Before(p[1], p[2])}

(* What an occurrence is made of.                                          *)
LEMMA OccurrenceTypes ==
  ASSUME DatabaseOK(db), NEW o \in Occurrences
  PROVE  /\ o.departure \in db.departures /\ o.date \in Int
         /\ o.departure.trip \in Nat /\ o.departure.sequence \in Nat
         /\ o.departure.stop \in DOMAIN db.stops
         /\ o.departure.seconds \in 0 .. 2 * DayLength - 1
         /\ Scheduled(o) \in Int /\ Estimated(o) \in Int
         /\ Scheduled(o) = o.date * DayLength + o.departure.seconds
<1>1. PICK p \in db.departures \X db.service_dates :
        /\ o = [departure |-> p[1], date |-> p[2].date]
        /\ p[1].stop \in DOMAIN db.stops
  BY DEF Occurrences
<1>2. /\ p[1] \in [trip : Nat, sequence : Nat, stop : Nat, service : Nat,
                   seconds : 0 .. 2 * DayLength - 1]
      /\ p[2] \in [service : Nat, date : Int]
  BY DEF DatabaseOK
<1>3. /\ o.departure = p[1] /\ o.date = p[2].date
  BY <1>1
<1>4. o.departure.seconds \in Int /\ o.date \in Int /\ DayLength \in Int
  BY <1>2, <1>3, QueryAssumption
<1>5. Scheduled(o) = o.date * DayLength + o.departure.seconds
  BY DEF Scheduled
<1>6. Scheduled(o) \in Int
  BY <1>4, <1>5
<1>7. Delay(o) \in Int
  BY DEF Delay, DatabaseOK
<1>8. Estimated(o) \in Int
  BY <1>6, <1>7 DEF Estimated
<1> QED
  BY <1>1, <1>2, <1>3, <1>5, <1>6, <1>8

(* The order of the schedule is one, which leaves ties open.               *)
LEMMA BeforeOrderIsOne ==
  ASSUME DatabaseOK(db)
  PROVE  /\ \A o \in Occurrences : <<o, o>> \notin BeforeOrder
         /\ \A o, p, q \in Occurrences :
              <<o, p>> \in BeforeOrder /\ <<p, q>> \in BeforeOrder
                => <<o, q>> \in BeforeOrder
<1>1. \A o, p \in Occurrences : <<o, p>> \in BeforeOrder <=> Before(o, p)
  BY DEF BeforeOrder
<1>2. \A o \in Occurrences :
        /\ Estimated(o) \in Int /\ o.departure.trip \in Int
        /\ o.departure.sequence \in Int
  BY OccurrenceTypes
<1>3. \A o \in Occurrences : ~Before(o, o)
  BY <1>2 DEF Before
<1>4. \A o, p, q \in Occurrences : Before(o, p) /\ Before(p, q) => Before(o, q)
  BY <1>2 DEF Before
<1> QED
  BY <1>1, <1>3, <1>4

(* There are finitely many occurrences.                                    *)
LEMMA FiniteOccurrences ==
  ASSUME DatabaseOK(db)
  PROVE  IsFiniteSet(Occurrences)
<1>1. PICK D : D = db.departures
  OBVIOUS
<1>2. PICK E : E = db.service_dates
  OBVIOUS
<1>3. PICK O : O = Occurrences
  OBVIOUS
<1>4. IsFiniteSet(D) /\ IsFiniteSet(E)
  BY <1>1, <1>2 DEF DatabaseOK
<1>5. IsFiniteSet(D \X E)
  BY <1>4, FS_Product
<1>6. PICK P : P = {q \in D \X E : q[1].service = q[2].service /\ q[1].stop \in DOMAIN db.stops}
  OBVIOUS
<1>7. IsFiniteSet(P)
  BY <1>5, <1>6, FS_Subset
<1> DEFINE f == [p \in P |-> [departure |-> p[1], date |-> p[2].date]]
<1>8. O = {[departure |-> p[1], date |-> p[2].date] : p \in P}
  BY <1>1, <1>2, <1>3, <1>6 DEF Occurrences
<1>9. f \in Surjection(P, O)
  BY <1>8 DEF Surjection
<1> HIDE DEF f
<1>10. IsFiniteSet(O)
  BY <1>7, <1>9, FS_Surjection
<1> QED
  BY <1>3, <1>10

(* The answer to a request is the sorted selection, cut at its count.      *)
AnswerOK(a, q) == IsCut(a, Selected(q), BeforeOrder, q.count)

LEMMA Answers ==
  ASSUME DatabaseOK(db), NEW q \in Queries, NEW a \in schedule(q)
  PROVE  AnswerOK(a, q)
<1>1. PICK S : S = Selected(q)
  OBVIOUS
<1>2. PICK O : O = Occurrences
  OBVIOUS
<1>3. PICK R : R = BeforeOrder
  OBVIOUS
<1>4. S \subseteq Occurrences
  BY <1>1 DEF Selected
<1>5. IsFiniteSet(S)
  <2>1. IsFiniteSet(O) /\ S \in SUBSET O
    BY <1>2, <1>4, FiniteOccurrences
  <2> QED
    BY <2>1, FS_Subset
<1>6. PICK s \in Sortings(S, Before) : a = First(s, q.count)
  BY <1>1 DEF schedule, Rows
<1>7. IsSorting(s, S, R)
  <2>1. \A k, l \in 1 .. Cardinality(S) : k < l => s[k] # s[l] /\ ~Before(s[l], s[k])
    BY <1>6 DEF Sortings
  <2>2. s \in [1 .. Cardinality(S) -> S]
    BY <1>6 DEF Sortings
  <2> QED
    BY <1>3, <2>1, <2>2 DEF IsSorting, BeforeOrder
<1>8. PICK limit \in Nat : limit = q.count
  BY DEF Queries
<1>9. IsCut(a, S, R, limit)
  BY <1>5, <1>6, <1>7, <1>8, CutSorting
<1> QED
  BY <1>1, <1>3, <1>8, <1>9 DEF AnswerOK


-----------------------------------------------------------------------------
(* The clock and the two dates of the WHERE clause.                        *)

LEMMA DayProducts ==
  ASSUME NEW a \in Int
  PROVE  /\ a * DayLength \in Int
         /\ (a - 1) * DayLength = a * DayLength - DayLength
         /\ (a - 2) * DayLength = a * DayLength - 2 * DayLength
         /\ \A b \in Int : b <= a => b * DayLength <= a * DayLength
<1>1. PICK d \in Nat : d = DayLength
  BY QueryAssumption
<1>2. /\ a * d \in Int
      /\ (a - 1) * d = a * d - d
      /\ (a - 2) * d = a * d - 2 * d
  BY <1>1
<1>3. ASSUME NEW b \in Int, b <= a
      PROVE  b * d <= a * d
  <2>1. PICK c \in Nat : c = a - b
    BY <1>3
  <2>2. c * d \in Nat
    BY <1>1
  <2>3. a * d = b * d + c * d
    BY <2>1
  <2>4. b * d \in Int
    BY <1>1
  <2> QED
    BY <2>2, <2>3, <2>4
<1> QED
  BY <1>1, <1>2, <1>3

(* A departure that the clause selects is still to come, and it selects    *)
(* every such departure of today or an earlier date.                       *)
LEMMA TwoDatesReachFar ==
  ASSUME DatabaseOK(db), NEW q \in Queries, NEW o \in Occurrences
  PROVE  /\ TimeMatches(o, q) => Scheduled(o) >= q.today * DayLength + q.time
         /\ Scheduled(o) >= q.today * DayLength + q.time /\ o.date <= q.today
              => TimeMatches(o, q)
<1>1. PICK d \in Nat : d = DayLength /\ d > 0
  BY QueryAssumption
<1>2. PICK today \in Int : today = q.today
  BY DEF Queries
<1>3. PICK time \in Int : time = q.time /\ 0 <= time /\ time < d
  <2>1. q.time \in 0 .. DayLength - 1
    BY DEF Queries
  <2> QED
    BY <1>1, <2>1
<1>4. PICK date \in Int : date = o.date
  BY OccurrenceTypes
<1>5. PICK seconds \in Int : seconds = o.departure.seconds /\ 0 <= seconds /\ seconds < 2 * d
  <2>1. o.departure.seconds \in 0 .. 2 * DayLength - 1
    BY OccurrenceTypes
  <2> QED
    BY <1>1, <2>1
<1>6. Scheduled(o) = date * d + seconds
  BY <1>1, <1>4, <1>5, OccurrenceTypes
<1>7. TimeMatches(o, q) <=>
        \/ date = today /\ seconds >= time
        \/ date = today - 1 /\ seconds >= d + time
  BY <1>1, <1>2, <1>3, <1>4, <1>5 DEF TimeMatches
<1>8. PICK noon \in Int : noon = today * d
  BY <1>1
<1>9. PICK then \in Int : then = date * d
  BY <1>1
<1>10. /\ (today - 1) * d = noon - d
       /\ (today - 2) * d = noon - 2 * d
       /\ date <= today - 2 => date * d <= (today - 2) * d
  <2>1. /\ (today - 1) * d = noon - d
        /\ (today - 2) * d = noon - 2 * d
    BY <1>1, <1>8, DayProducts
  <2>2. today - 2 \in Int
    OBVIOUS
  <2>3. date <= today - 2 => date * d <= (today - 2) * d
    BY <1>1, <2>2, DayProducts
  <2> QED
    BY <2>1, <2>3
<1>11. date = today - 1 => then = noon - d
  BY <1>9, <1>10
<1>12. date = today => then = noon
  BY <1>8, <1>9
<1>13. date <= today - 2 => then <= noon - 2 * d
  BY <1>9, <1>10
<1>14. \/ date = today /\ seconds >= time
       \/ date = today - 1 /\ seconds >= d + time
       => then + seconds >= noon + time
  BY <1>11, <1>12
<1>15. then + seconds >= noon + time /\ date <= today
         => \/ date = today /\ seconds >= time
            \/ date = today - 1 /\ seconds >= d + time
  <2>1. CASE date = today
    BY <1>12, <2>1
  <2>2. CASE date = today - 1
    BY <1>11, <2>2
  <2>3. CASE date <= today - 2
    BY <1>3, <1>5, <1>13, <2>3
  <2> QED
    BY <2>1, <2>2, <2>3
<1>16. Scheduled(o) = then + seconds /\ q.today * DayLength + q.time = noon + time
  BY <1>1, <1>2, <1>3, <1>6, <1>8, <1>9
<1> QED
  BY <1>2, <1>4, <1>7, <1>14, <1>15, <1>16

(* The name clause selects the departures at the stops a name stands for.  *)
LEMMA NamesStops ==
  ASSUME NEW q, NEW o, o.departure.stop \in DOMAIN db.stops
  PROVE  NameMatches(o, q) <=> o.departure.stop \in StopsNamed(q.name)
BY DEF NameMatches, StopsNamed, AskedName

-----------------------------------------------------------------------------
(* The invariant.                                                          *)

ListInv == listing # <<>> => ListingOK(listing, sought)
AnswerInv ==
  \/ request = NoRequest /\ answer = <<>>
  \/ request \in Queries /\ AnswerOK(answer, request)
QueryInv == DatabaseOK(db) /\ ListInv /\ AnswerInv

(* A request whose answer is told leaves the tables alone.                 *)
LEMMA ListFrame ==
  ASSUME UNCHANGED db
  PROVE  ListingOK(listing, sought)' <=> ListingOK(listing', sought')
BY DEF ListingOK, Listed, ListedName, Hits, Sought, Limit

LEMMA AnswerFrame ==
  ASSUME UNCHANGED db
  PROVE  AnswerOK(answer, request)' <=> AnswerOK(answer', request')
BY DEF AnswerOK, IsCut, Selected, BeforeOrder, Before, Occurrences, Cancelled,
       Skipped, NameMatches, AskedName, TimeMatches, Estimated, Scheduled, Delay

(* Normalising the stored names leaves tables of the kind assumed.         *)
LEMMA NormalisedTables ==
  ASSUME DatabaseOK(db), initialize
  PROVE  DatabaseOK(db)'
<1>1. db' = [db EXCEPT !.stops =
               [i \in DOMAIN db.stops |-> normalize_stop_name(db.stops[i])]]
  BY DEF initialize
<1> DEFINE normal == [i \in DOMAIN db.stops |-> normalize_stop_name(db.stops[i])]
<1>2. DOMAIN normal = DOMAIN db.stops
  OBVIOUS
<1>3. ASSUME NEW i \in DOMAIN db.stops
      PROVE  normal[i] \in Names /\ normal[i].text # 0
  <2>1. db.stops[i] \in Names /\ db.stops[i].text # 0
    BY DEF DatabaseOK
  <2> QED
    BY <2>1, NormalName
<1> HIDE DEF normal
<1>4. /\ DOMAIN db' = DOMAIN db
      /\ db'.departures = db.departures /\ db'.service_dates = db.service_dates
      /\ db'.delays = db.delays
  BY <1>1
<1>5. db'.stops = normal
  BY <1>1 DEF normal, DatabaseOK
<1> QED
  BY <1>2, <1>3, <1>4, <1>5 DEF DatabaseOK


-----------------------------------------------------------------------------
(* Every step keeps the invariant.                                         *)

LEMMA InitInv ==
  Init => QueryInv
BY QueryAssumption DEF Init, QueryInv, ListInv, AnswerInv

LEMMA StopListStep ==
  ASSUME QueryInv, list_stops \/ search_stops
  PROVE  QueryInv'
<1>1. UNCHANGED <<db, request, answer>>
  BY DEF list_stops, search_stops
<1>2. DatabaseOK(db)'
  BY <1>1 DEF QueryInv, DatabaseOK
<1>3. listing' \in stops(sought')
  BY DEF list_stops, search_stops
<1>4. PICK list : list = listing'
  OBVIOUS
<1>5. PICK fragment : fragment = sought'
  OBVIOUS
<1>6. list \in stops(fragment)
  BY <1>3, <1>4, <1>5
<1>7. ListingOK(list, fragment)
  BY <1>6, ListStops DEF QueryInv
<1>8. ListInv'
  <2>1. ListingOK(listing', sought')
    BY <1>4, <1>5, <1>7
  <2> QED
    BY <1>1, <2>1, ListFrame DEF ListInv
<1>9. AnswerInv'
  <2>1. CASE request = NoRequest /\ answer = <<>>
    BY <1>1, <2>1 DEF AnswerInv
  <2>2. CASE request \in Queries /\ AnswerOK(answer, request)
    <3>1. AnswerOK(answer', request')
      BY <1>1, <2>2
    <3>2. request' \in Queries
      BY <1>1, <2>2
    <3> QED
      BY <1>1, <3>1, <3>2, AnswerFrame DEF AnswerInv, Queries
  <2> QED
    BY <2>1, <2>2 DEF QueryInv, AnswerInv
<1> QED
  BY <1>2, <1>8, <1>9 DEF QueryInv

LEMMA ScheduleStep ==
  ASSUME QueryInv, list_schedule \/ list_stop_schedule
  PROVE  QueryInv'
<1>1. UNCHANGED <<db, listing, sought>>
  BY DEF list_schedule, list_stop_schedule
<1>2. DatabaseOK(db)'
  BY <1>1 DEF QueryInv, DatabaseOK
<1>3. request' \in Queries
  <2>1. CASE list_schedule
    BY <2>1, QueryAssumption DEF list_schedule, Queries
  <2>2. CASE list_stop_schedule
    <3>1. PICK q \in Requests, k \in DOMAIN listing :
            request' = [q EXCEPT !.name = listing[k].name]
      BY <2>2 DEF list_stop_schedule
    <3>2. q \in Queries
      BY QueryAssumption DEF Queries
    <3>3. listing # <<>>
      BY <3>1
    <3>4. listing[k].name \in Names
      <4>1. listing \in Seq(Listed)
        BY <3>3 DEF QueryInv, ListInv, ListingOK
      <4>2. listing[k] \in Listed
        BY <4>1
      <4> QED
        BY <4>2 DEF Listed
    <3> QED
      BY <3>1, <3>2, <3>4 DEF Queries
  <2> QED
    BY <2>1, <2>2
<1>4. answer' \in schedule(request')
  BY DEF list_schedule, list_stop_schedule
<1>5. PICK q \in Queries : q = request'
  BY <1>3
<1>6. PICK a : a = answer'
  OBVIOUS
<1>7. a \in schedule(q)
  BY <1>4, <1>5, <1>6
<1>8. AnswerOK(a, q)
  BY <1>5, <1>7, Answers DEF QueryInv
<1>9. AnswerInv'
  <2>1. AnswerOK(answer', request')
    BY <1>5, <1>6, <1>8
  <2> QED
    BY <1>1, <1>3, <2>1, AnswerFrame DEF AnswerInv, Queries
<1>10. ListInv'
  <2>1. CASE listing = <<>>
    BY <1>1, <2>1 DEF ListInv
  <2>2. CASE listing # <<>>
    <3>1. ListingOK(listing', sought')
      BY <1>1, <2>2 DEF QueryInv, ListInv
    <3> QED
      BY <1>1, <3>1, ListFrame DEF ListInv
  <2> QED
    BY <2>1, <2>2
<1> QED
  BY <1>2, <1>9, <1>10 DEF QueryInv

LEMMA RestartStep ==
  ASSUME QueryInv, initialize
  PROVE  QueryInv'
<1>1. DatabaseOK(db)'
  BY NormalisedTables DEF QueryInv
<1>2. ListInv' /\ AnswerInv'
  BY DEF initialize, ListInv, AnswerInv, NoRequest, NoName
<1> QED
  BY <1>1, <1>2 DEF QueryInv

LEMMA StutterStep ==
  ASSUME QueryInv, UNCHANGED vars
  PROVE  QueryInv'
<1>1. UNCHANGED <<db, listing, sought, request, answer>>
  BY DEF vars
<1>2. DatabaseOK(db)'
  BY <1>1 DEF QueryInv, DatabaseOK
<1>3. ListInv'
  <2>1. CASE listing = <<>>
    BY <1>1, <2>1 DEF ListInv
  <2>2. CASE listing # <<>>
    <3>1. ListingOK(listing', sought')
      BY <1>1, <2>2 DEF QueryInv, ListInv
    <3> QED
      BY <1>1, <3>1, ListFrame DEF ListInv
  <2> QED
    BY <2>1, <2>2
<1>4. AnswerInv'
  <2>1. CASE request = NoRequest /\ answer = <<>>
    BY <1>1, <2>1 DEF AnswerInv
  <2>2. CASE request \in Queries /\ AnswerOK(answer, request)
    <3>1. AnswerOK(answer', request') /\ request' \in Queries
      BY <1>1, <2>2
    <3> QED
      BY <1>1, <3>1, AnswerFrame DEF AnswerInv, Queries
  <2> QED
    BY <2>1, <2>2 DEF QueryInv, AnswerInv
<1> QED
  BY <1>2, <1>3, <1>4 DEF QueryInv

(* The tables stay of the kind the importers leave, the last list and the  *)
(* last answer are right for them: no order of requests and restarts makes *)
(* a client hold an answer that the tables do not give.                    *)
THEOREM QueryInvariance == Spec => []QueryInv
<1>1. QueryInv /\ [Next]_vars => QueryInv'
  BY StopListStep, ScheduleStep, RestartStep, StutterStep DEF Next
<1> QED
  BY <1>1, InitInv, PTL DEF Spec

-----------------------------------------------------------------------------
(* What the invariant says of the last answer.                             *)

LEMMA InvType ==
  ASSUME QueryInv
  PROVE  TypeOK
<1>1. \A i \in DOMAIN db.stops : db.stops[i] \in Names
  BY DEF QueryInv, DatabaseOK
<1>2. \A k \in DOMAIN listing : listing[k].id \in DOMAIN db.stops
  <2>1. CASE listing = <<>>
    BY <2>1
  <2>2. CASE listing # <<>>
    <3>1. listing \in Seq(Listed)
      BY <2>2 DEF QueryInv, ListInv, ListingOK
    <3>2. \A k \in DOMAIN listing : listing[k] \in Listed
      BY <3>1
    <3> QED
      BY <3>2 DEF Listed
  <2> QED
    BY <2>1, <2>2
<1>3. (\A k \in DOMAIN answer : answer[k] \in Occurrences) /\ Len(answer) <= request.count
  <2>1. CASE request = NoRequest /\ answer = <<>>
    BY <2>1 DEF NoRequest
  <2>2. CASE request \in Queries /\ AnswerOK(answer, request)
    <3>1. answer \in Seq(Selected(request)) /\ Len(answer) <= request.count
      BY <2>2 DEF AnswerOK, IsCut
    <3>2. \A k \in DOMAIN answer : answer[k] \in Selected(request)
      BY <3>1
    <3> QED
      BY <3>1, <3>2 DEF Selected
  <2> QED
    BY <2>1, <2>2 DEF QueryInv, AnswerInv
<1> QED
  BY <1>1, <1>2, <1>3 DEF TypeOK

LEMMA InvUpcoming ==
  ASSUME QueryInv
  PROVE  UpcomingByClock
<1>1. CASE request = NoRequest /\ answer = <<>>
  <2>1. Len(answer) = request.count /\ Told = {}
    BY <1>1 DEF NoRequest, Told, ToSet
  <2> QED
    BY <2>1 DEF UpcomingByClock
<1>2. CASE request \in Queries /\ AnswerOK(answer, request)
  <2>1. PICK q \in Queries : q = request
    BY <1>2
  <2>2. DatabaseOK(db)
    BY DEF QueryInv
  <2>3. /\ answer \in Seq(Selected(q))
        /\ \A o \in Selected(q) : \/ \E k \in 1 .. Len(answer) : answer[k] = o
                                  \/ Len(answer) = q.count
    BY <1>2, <2>1 DEF AnswerOK, IsCut
  <2>4. DOMAIN answer = 1 .. Len(answer) /\ \A k \in DOMAIN answer : answer[k] \in Selected(q)
    BY <2>3
  <2>5. Told \subseteq Selected(q)
    BY <2>4 DEF Told, ToSet
  <2>6. \A o \in Selected(q) : o \in Told \/ Len(answer) = q.count
    BY <2>3, <2>4 DEF Told, ToSet
  <2>7. \A o \in Occurrences :
          /\ o.departure.stop \in DOMAIN db.stops
          /\ TimeMatches(o, q) => Scheduled(o) >= q.today * DayLength + q.time
          /\ Scheduled(o) >= q.today * DayLength + q.time /\ o.date <= q.today
               => TimeMatches(o, q)
    BY <2>2, OccurrenceTypes, TwoDatesReachFar
  <2>8. \A o \in Occurrences : NameMatches(o, q) <=> o.departure.stop \in StopsNamed(q.name)
    BY <2>7, NamesStops
  <2>9. \A o \in Told : Asked(o) /\ Scheduled(o) >= Now
    <3>1. TAKE o \in Told
    <3>2. /\ o \in Occurrences /\ ~Cancelled(o) /\ ~Skipped(o)
          /\ NameMatches(o, q) /\ TimeMatches(o, q)
      BY <2>5 DEF Selected
    <3> QED
      BY <2>1, <2>7, <2>8, <3>2 DEF Asked, Running, Now
  <2>10. ASSUME NEW o \in Occurrences, Asked(o), Scheduled(o) >= Now, o.date <= request.today
         PROVE  o \in Told \/ Len(answer) = request.count
    <3>1. TimeMatches(o, q)
      BY <2>1, <2>7, <2>10 DEF Now
    <3>2. NameMatches(o, q) /\ ~Cancelled(o) /\ ~Skipped(o)
      BY <2>1, <2>8, <2>10 DEF Asked, Running
    <3>3. o \in Selected(q)
      BY <3>1, <3>2 DEF Selected
    <3> QED
      BY <2>1, <2>6, <3>3
  <2> QED
    BY <2>9, <2>10 DEF UpcomingByClock
<1> QED
  BY <1>1, <1>2 DEF QueryInv, AnswerInv

LEMMA InvSoonest ==
  ASSUME QueryInv
  PROVE  SoonestAreKept
<1>1. CASE request = NoRequest /\ answer = <<>>
  BY <1>1 DEF SoonestAreKept
<1>2. CASE request \in Queries /\ AnswerOK(answer, request)
  <2>1. PICK S : S = Selected(request)
    OBVIOUS
  <2>2. /\ answer \in Seq(S)
        /\ \A k, l \in 1 .. Len(answer) :
             k < l => answer[k] # answer[l] /\ <<answer[l], answer[k]>> \notin BeforeOrder
        /\ \A o \in S : \/ \E k \in 1 .. Len(answer) : answer[k] = o
                        \/ \A k \in 1 .. Len(answer) : <<o, answer[k]>> \notin BeforeOrder
    BY <1>2, <2>1 DEF AnswerOK, IsCut
  <2>3. DOMAIN answer = 1 .. Len(answer) /\ \A k \in DOMAIN answer : answer[k] \in S
    BY <2>2
  <2>4. \A o \in S : o \in Occurrences
    BY <2>1 DEF Selected
  <2>5. \A o, p \in Occurrences : <<o, p>> \notin BeforeOrder => Estimated(p) <= Estimated(o)
    <3>1. TAKE o, p \in Occurrences
    <3>2. Estimated(o) \in Int /\ Estimated(p) \in Int
      BY OccurrenceTypes DEF QueryInv
    <3>3. ~Before(o, p) => ~(Estimated(o) < Estimated(p))
      BY DEF Before
    <3>4. <<o, p>> \notin BeforeOrder => ~Before(o, p)
      BY DEF BeforeOrder
    <3> QED
      BY <3>2, <3>3, <3>4
  <2>6. \A k, l \in DOMAIN answer :
          k < l => Estimated(answer[k]) <= Estimated(answer[l]) /\ answer[k] # answer[l]
    BY <2>2, <2>3, <2>4, <2>5
  <2>7. \A o \in S \ Told : \A k \in DOMAIN answer : Estimated(answer[k]) <= Estimated(o)
    <3>1. \A o \in S \ Told : \A k \in DOMAIN answer : answer[k] # o
      BY DEF Told, ToSet
    <3> QED
      BY <2>2, <2>3, <2>4, <2>5, <3>1
  <2> QED
    BY <2>1, <2>6, <2>7 DEF SoonestAreKept
<1> QED
  BY <1>1, <1>2 DEF QueryInv, AnswerInv

LEMMA InvListing ==
  ASSUME QueryInv
  PROVE  ListingGroupsStops
BY DEF QueryInv, ListInv, ListingOK, ListingGroupsStops, Shown, Hits

LEMMA InvSearch ==
  ASSUME QueryInv
  PROVE  ListedNamesAreSearched
<1>1. ASSUME NEW k \in DOMAIN listing, NEW rows \in LimitedStops(listing[k].name),
             Len(rows) # FoundLimit
      PROVE  \E l \in DOMAIN Grouped(rows) : Grouped(rows)[l].name = listing[k].name
  <2>1. listing # <<>>
    BY <1>1
  <2>2. ListingOK(listing, sought) /\ DatabaseOK(db)
    BY <2>1 DEF QueryInv, ListInv
  <2>3. listing[k] \in Listed /\ listing[k].name = ListedName(listing[k].id)
    BY <2>2 DEF ListingOK
  <2>4. PICK i \in DOMAIN db.stops : i = listing[k].id
    BY <2>3 DEF Listed
  <2>5. listing[k].name = ListedName(i)
    BY <2>3, <2>4
  <2>6. rows \in LimitedStops(ListedName(i))
    BY <2>5
  <2>7. \E l \in DOMAIN Grouped(rows) : Grouped(rows)[l].name = ListedName(i)
    BY <1>1, <2>2, <2>6, SearchStops
  <2> QED
    BY <2>5, <2>7
<1> QED
  BY <1>1 DEF ListedNamesAreSearched

-----------------------------------------------------------------------------
(* The theorems.                                                           *)

(* Lists and answers are made of stops and departures of the tables, and   *)
(* no answer is longer than asked for.                                     *)
THEOREM TypeCorrectness == Spec => []TypeOK
BY QueryInvariance, InvType, PTL

(* A client is told the departures still to come at the stops it asked     *)
(* for, and no other: two service dates are enough because no departure    *)
(* of the feed is later than the end of the next day.                      *)
THEOREM UpcomingDepartures == Spec => []UpcomingByClock
BY QueryInvariance, InvUpcoming, PTL

(* The limit cuts off the latest departures, and the list is in the order  *)
(* of the estimated times.                                                 *)
THEOREM SoonestDepartures == Spec => []SoonestAreKept
BY QueryInvariance, InvSoonest, PTL

(* The loop with seen_names lists every name once, and with no name lost.  *)
THEOREM GroupedListing == Spec => []ListingGroupsStops
BY QueryInvariance, InvListing, PTL

(* A name of a list leads a search back to it, although the search looks   *)
(* at stored names: a normalised name is a fragment of the stored one.     *)
THEOREM SearchOfListed == Spec => []ListedNamesAreSearched
BY QueryInvariance, InvSearch, PTL

-----------------------------------------------------------------------------
(* The orders leave ties open, but they always can be followed: at every   *)
(* time there is a stop list for every fragment and an answer to every     *)
(* request, so that what is said above of all answers is said of some.     *)
Answerable ==
  /\ \A fragment \in Names : stops(fragment) # {}
  /\ \A q \in Queries : schedule(q) # {}

LEMMA InvAnswerable ==
  ASSUME QueryInv
  PROVE  Answerable
<1>1. DatabaseOK(db)
  BY DEF QueryInv
<1>2. ASSUME NEW fragment \in Names
      PROVE  stops(fragment) # {}
  <2>1. PICK S : S = Hits(fragment)
    OBVIOUS
  <2>2. S \subseteq DOMAIN db.stops
    BY <2>1 DEF Hits
  <2>3. IsFiniteSet(S)
    <3>1. PICK D : D = DOMAIN db.stops
      OBVIOUS
    <3>2. IsFiniteSet(D) /\ S \in SUBSET D
      BY <1>1, <2>2, <3>1 DEF DatabaseOK
    <3> QED
      BY <3>2, FS_Subset
  <2>4. PICK R : R = StopOrder
    OBVIOUS
  <2>5. /\ \A x \in S : <<x, x>> \notin R
        /\ \A x, y, z \in S : <<x, y>> \in R /\ <<y, z>> \in R => <<x, z>> \in R
    BY <1>1, <2>2, <2>4, StopOrderIsOne
  <2>6. PICK s \in [1 .. Cardinality(S) -> S] :
          \A k, l \in 1 .. Cardinality(S) :
            k < l => s[k] # s[l] /\ <<s[l], s[k]>> \notin R
    BY <2>3, <2>5, SortingExists
  <2>7. \A i, j \in S : <<i, j>> \in R <=> StopBefore(i, j)
    BY <2>2, <2>4 DEF StopOrder
  <2>8. s \in Sortings(S, StopBefore)
    BY <2>6, <2>7 DEF Sortings
  <2>9. First(s, Limit(fragment)) \in LimitedStops(fragment)
    BY <2>1, <2>8 DEF LimitedStops, Hits
  <2> QED
    BY <2>9 DEF stops
<1>3. ASSUME NEW q \in Queries
      PROVE  schedule(q) # {}
  <2>1. PICK S : S = Selected(q)
    OBVIOUS
  <2>2. S \subseteq Occurrences
    BY <2>1 DEF Selected
  <2>3. IsFiniteSet(S)
    <3>1. PICK O : O = Occurrences
      OBVIOUS
    <3>2. IsFiniteSet(O) /\ S \in SUBSET O
      BY <1>1, <2>2, <3>1, FiniteOccurrences
    <3> QED
      BY <3>2, FS_Subset
  <2>4. PICK R : R = BeforeOrder
    OBVIOUS
  <2>5. /\ \A x \in S : <<x, x>> \notin R
        /\ \A x, y, z \in S : <<x, y>> \in R /\ <<y, z>> \in R => <<x, z>> \in R
    BY <1>1, <2>2, <2>4, BeforeOrderIsOne
  <2>6. PICK s \in [1 .. Cardinality(S) -> S] :
          \A k, l \in 1 .. Cardinality(S) :
            k < l => s[k] # s[l] /\ <<s[l], s[k]>> \notin R
    BY <2>3, <2>5, SortingExists
  <2>7. \A o, p \in S : <<o, p>> \in R <=> Before(o, p)
    BY <2>2, <2>4 DEF BeforeOrder
  <2>8. s \in Sortings(S, Before)
    BY <2>6, <2>7 DEF Sortings
  <2> QED
    BY <2>1, <2>8 DEF schedule
<1> QED
  BY <1>2, <1>3 DEF Answerable

(* No state refuses a request: the answers that the theorems above are     *)
(* about exist.                                                            *)
THEOREM EveryRequestIsAnswered == Spec => []Answerable
BY QueryInvariance, InvAnswerable, PTL

=============================================================================
