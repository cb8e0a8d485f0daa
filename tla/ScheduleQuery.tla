---------------------------- MODULE ScheduleQuery ----------------------------
(***************************************************************************)
(* What a client is told: stops() and schedule() of                        *)
(* app/repositories/transit_queries.py over the tables of one provider.  A *)
(* client asks for departures at any time, with or without the name of a   *)
(* stop, and may list or search the stops first; between two requests the  *)
(* service may restart, which normalises the stored names once more.       *)
(*                                                                         *)
(* Time is counted in units of which a day has DayLength (86400 seconds in *)
(* the code); a date is the number of a day.  Names are compared without   *)
(* regard to case.                                                         *)
(***************************************************************************)
EXTENDS Integers, Sequences, FiniteSets, SequencesExt

CONSTANTS
  DayLength,   \* 86400
  PartOf,      \* which texts of names are fragments of which
  EndOf,       \* and which of them are at the end
  StopLimit,   \* LIMIT of the stop list
  FoundLimit,  \* LIMIT of a search of stops
  Databases,   \* the contents of the tables
  Requests     \* the times, counts and names of requests

VARIABLES
  db,       \* the tables of the provider
  listing,  \* the last stop list a client was given
  sought,   \* the fragment it was searched with, or NoName
  request,  \* the last schedule request
  answer    \* and its answer

vars == <<db, listing, sought, request, answer>>

-----------------------------------------------------------------------------
(* Names.                                                                  *)

Names == [text : Nat, positions : Nat]

(* A name is a text and a number of two-digit boarding positions after it: *)
(* "Abrahama 01" is [text |-> Abrahama, positions |-> 1].  Texts are       *)
(* numbered in alphabetical order.  The digits of positions are not told   *)
(* apart.                                                                  *)
NoName == [text |-> 0, positions |-> 0]

(* normalize_stop_name removes one position from the end of a name.        *)
normalize_stop_name(n) ==
  IF n.positions > 0 THEN [n EXCEPT !.positions = @ - 1] ELSE n

(* name LIKE '%fragment%': a fragment with positions matches where its     *)
(* text ends the text of the name ("Station 01" in "Main Station 01").     *)
Like(n, fragment) ==
  \/ /\ n.text = fragment.text \/ <<fragment.text, n.text>> \in EndOf
     /\ fragment.positions <= n.positions
  \/ <<fragment.text, n.text>> \in PartOf /\ fragment.positions = 0

NameBefore(m, n) ==
  m.text < n.text \/ (m.text = n.text /\ m.positions < n.positions)

-----------------------------------------------------------------------------
(* What is asked of the tables.                                            *)

(* Every stop has a name that is not empty, and the importer refuses times *)
(* of the day after the next.                                              *)
DatabaseOK(d) ==
  /\ DOMAIN d = {"stops", "departures", "service_dates", "delays", "cancelled", "skipped"}
  /\ IsFiniteSet(DOMAIN d.stops) /\ DOMAIN d.stops \subseteq Nat
  /\ \A i \in DOMAIN d.stops : d.stops[i] \in Names /\ d.stops[i].text # 0
  /\ IsFiniteSet(d.departures) /\ IsFiniteSet(d.service_dates)
  /\ d.departures \subseteq
       [trip : Nat, sequence : Nat, stop : Nat, service : Nat,
        seconds : 0 .. 2 * DayLength - 1]
  /\ d.service_dates \subseteq [service : Nat, date : Int]
  /\ \A key \in DOMAIN d.delays : d.delays[key] \in Int

ASSUME QueryAssumption ==
  /\ DayLength \in Nat \ {0} /\ StopLimit \in Nat /\ FoundLimit \in Nat
  /\ \A d \in Databases : DatabaseOK(d)
  /\ Requests \subseteq
       [today : Int, time : 0 .. DayLength - 1, count : Nat, name : Names]

(* ORDER BY: any order in which no row comes before an earlier one.        *)
Sortings(rows, IsBefore(_, _)) ==
  {s \in [1 .. Cardinality(rows) -> rows] :
     \A k, l \in DOMAIN s : k < l => s[k] # s[l] /\ ~IsBefore(s[l], s[k])}

(* LIMIT.                                                                  *)
First(s, limit) == SubSeq(s, 1, IF Len(s) < limit THEN Len(s) ELSE limit)

-----------------------------------------------------------------------------
(* The stop list.                                                          *)

(* A search keeps the stops whose stored names have the fragment in them,  *)
(* which is not normalised.  A plausible bug: it looks for a whole name.   *)
SoughtExactly(i, fragment) == fragment = NoName \/ db.stops[i] = fragment
Sought(i, fragment) == fragment = NoName \/ Like(db.stops[i], fragment)

(* ORDER BY stop_name, stop_id LIMIT ..., then one stop for each           *)
(* normalised name, the first.                                             *)
StopBefore(i, j) ==
  \/ NameBefore(db.stops[i], db.stops[j])
  \/ db.stops[i] = db.stops[j] /\ i < j
Limit(fragment) == IF fragment = NoName THEN StopLimit ELSE FoundLimit
LimitedStops(fragment) ==
  {First(s, Limit(fragment)) :
     s \in Sortings({i \in DOMAIN db.stops : Sought(i, fragment)}, StopBefore)}
ListedName(i) == normalize_stop_name(db.stops[i])

(* Whether two rows become one stop.  A plausible bug: the names are       *)
(* compared as they are stored.                                            *)
SameStoredName(i, j) == db.stops[i] = db.stops[j]
SameStop(i, j) == ListedName(i) = ListedName(j)

(* The loop over the rows with seen_names.                                 *)
Grouped(rows) ==
  LET result[n \in 0 .. Len(rows)] ==
        IF n = 0 THEN <<>>
        ELSE IF \E k \in DOMAIN result[n - 1] :
                  SameStop(result[n - 1][k].id, rows[n])
        THEN result[n - 1]
        ELSE Append(result[n - 1], [id |-> rows[n], name |-> ListedName(rows[n])])
  IN  result[Len(rows)]

stops(fragment) == {Grouped(rows) : rows \in LimitedStops(fragment)}

-----------------------------------------------------------------------------
(* The schedule.                                                           *)

(* A departure of the feed at a known stop, on one of the dates of its     *)
(* service (the inner joins).                                              *)
Occurrences ==
  {[departure |-> p[1], date |-> p[2].date] :
     p \in {q \in db.departures \X db.service_dates :
              q[1].service = q[2].service /\ q[1].stop \in DOMAIN db.stops}}

Delay(o) ==
  LET key == <<o.departure.trip, o.departure.sequence>>
  IN  IF key \in DOMAIN db.delays THEN db.delays[key] ELSE 0
Cancelled(o) == o.departure.trip \in db.cancelled
Skipped(o) == <<o.departure.trip, o.departure.sequence>> \in db.skipped

(* scheduled_at and estimated_at, as times since date 0.                   *)
Scheduled(o) == o.date * DayLength + o.departure.seconds
Estimated(o) == Scheduled(o) + Delay(o)

(* No name asks for all stops; an exact name shadows fragments of names,   *)
(* also when no departure is left at the stop.                             *)
AskedName(q) == normalize_stop_name(q.name)
NameMatches(o, q) ==
  LET n == db.stops[o.departure.stop]
  IN  \/ q.name = NoName
      \/ n = AskedName(q)
      \/ /\ \A i \in DOMAIN db.stops : db.stops[i] # AskedName(q)
         /\ Like(n, AskedName(q))

(* A plausible bug: previous_day_seconds without the 86400 of a day.       *)
TimeMatchesSameDay(o, q) ==
  \/ o.date = q.today /\ o.departure.seconds >= q.time
  \/ o.date = q.today - 1 /\ o.departure.seconds >= q.time

(* The departures of today from now on, and those of yesterday's service   *)
(* that run past midnight.                                                 *)
TimeMatches(o, q) ==
  \/ o.date = q.today /\ o.departure.seconds >= q.time
  \/ o.date = q.today - 1 /\ o.departure.seconds >= DayLength + q.time

Selected(q) ==
  {o \in Occurrences :
     /\ ~Cancelled(o) /\ ~Skipped(o)
     /\ NameMatches(o, q)
     /\ TimeMatches(o, q)}

(* A plausible bug: ORDER BY the scheduled time.                           *)
BeforeScheduled(o, p) ==
  \/ Scheduled(o) < Scheduled(p)
  \/ /\ Scheduled(o) = Scheduled(p)
     /\ o.departure.trip < p.departure.trip

(* ORDER BY the estimated time, then trip_id, then stop_sequence.          *)
Before(o, p) ==
  \/ Estimated(o) < Estimated(p)
  \/ /\ Estimated(o) = Estimated(p)
     /\ \/ o.departure.trip < p.departure.trip
        \/ /\ o.departure.trip = p.departure.trip
           /\ o.departure.sequence < p.departure.sequence

(* LIMIT.  A plausible bug: one row too many.                              *)
RowsAndOne(q) == q.count + 1
Rows(q) == q.count

schedule(q) == {First(s, Rows(q)) : s \in Sortings(Selected(q), Before)}

-----------------------------------------------------------------------------
NoRequest == [today |-> 0, time |-> 0, count |-> 0, name |-> NoName]

Init ==
  /\ db \in Databases
  /\ listing = <<>> /\ sought = NoName
  /\ request = NoRequest
  /\ answer = <<>>

list_stops ==
  /\ listing' \in stops(NoName) /\ sought' = NoName
  /\ UNCHANGED <<db, request, answer>>

search_stops ==
  /\ \E q \in Requests :
       q.name # NoName /\ listing' \in stops(q.name) /\ sought' = q.name
  /\ UNCHANGED <<db, request, answer>>

list_schedule ==
  /\ \E q \in Requests : request' = q /\ answer' \in schedule(q)
  /\ UNCHANGED <<db, listing, sought>>

(* A request for a stop of the list.                                       *)
list_stop_schedule ==
  /\ \E q \in {r \in Requests : r.name = NoName}, k \in DOMAIN listing :
       /\ request' = [q EXCEPT !.name = listing[k].name]
       /\ answer' \in schedule(request')
  /\ UNCHANGED <<db, listing, sought>>

(* Database.initialize at the next start of the service.                   *)
initialize ==
  /\ db' = [db EXCEPT !.stops =
              [i \in DOMAIN db.stops |-> normalize_stop_name(db.stops[i])]]
  /\ listing' = <<>> /\ sought' = NoName /\ request' = NoRequest /\ answer' = <<>>

Next ==
  list_stops \/ search_stops \/ list_schedule \/ list_stop_schedule \/ initialize

Spec == Init /\ [][Next]_vars

-----------------------------------------------------------------------------
(* Answers are departures of the database, not more than asked for.        *)
TypeOK ==
  /\ \A i \in DOMAIN db.stops : db.stops[i] \in Names
  /\ \A k \in DOMAIN listing : listing[k].id \in DOMAIN db.stops
  /\ \A k \in DOMAIN answer : answer[k] \in Occurrences
  /\ Len(answer) <= request.count

(* The stops a name stands for, by the README: "An exact case-insensitive  *)
(* name match takes precedence; otherwise a partial-name match is used".   *)
StopsNamed(n) ==
  LET named == {i \in DOMAIN db.stops : db.stops[i] = normalize_stop_name(n)}
  IN  IF n = NoName THEN DOMAIN db.stops
      ELSE IF named # {} THEN named
      ELSE {i \in DOMAIN db.stops : Like(db.stops[i], normalize_stop_name(n))}

Now == request.today * DayLength + request.time
Running(o) == ~Cancelled(o) /\ ~Skipped(o)
Told == ToSet(answer)

(* Only departures still to come are told, at the stops asked for: an      *)
(* exact name never lets in a stop whose name merely contains it.  And     *)
(* every departure still to come of today's service or of any earlier date *)
(* is told, as far as the count reaches, however late after midnight it    *)
(* runs: the two branches of the WHERE clause on service_date achieve this *)
(* only because the importer refuses hours past 47.                        *)
Asked(o) == Running(o) /\ o.departure.stop \in StopsNamed(request.name)
UpcomingByClock ==
  /\ \A o \in Told : Asked(o) /\ Scheduled(o) >= Now
  /\ \A o \in Occurrences :
       Asked(o) /\ Scheduled(o) >= Now /\ o.date <= request.today =>
         o \in Told \/ Len(answer) = request.count

(* What the count cuts off is never sooner than what it leaves in, and the *)
(* list is in the order of the estimated times it shows.                   *)
SoonestAreKept ==
  /\ \A k, l \in DOMAIN answer :
       k < l => Estimated(answer[k]) <= Estimated(answer[l]) /\ answer[k] # answer[l]
  /\ \A o \in Selected(request) \ Told :
       \A k \in DOMAIN answer : Estimated(answer[k]) <= Estimated(o)

(* The stop list groups stops by the name it shows: no name twice, and     *)
(* every stop it is to show has its name listed when the limit does not    *)
(* cut the list.                                                           *)
Shown == {i \in DOMAIN db.stops : Sought(i, sought)}
ListingGroupsStops ==
  listing # <<>> =>
    /\ \A k, l \in DOMAIN listing :
         listing[k].name = listing[l].name => k = l
    /\ Cardinality(Shown) <= Limit(sought) =>
         {listing[k].name : k \in DOMAIN listing} = {ListedName(i) : i \in Shown}

(* A client that searches a name it has been shown is shown it again,      *)
(* although the search compares with stored names and the list shows       *)
(* normalised ones, as far as the limit reaches.                           *)
ListedNamesAreSearched ==
  \A k \in DOMAIN listing :
    \A rows \in LimitedStops(listing[k].name) :
      LET found == Grouped(rows)
      IN  \/ \E l \in DOMAIN found : found[l].name = listing[k].name
          \/ Len(rows) = FoundLimit

-----------------------------------------------------------------------------
(* What the README says and the code does not do.                          *)

(* "Results are ordered by lowest delay first and then scheduled time."    *)
OrderedByDelay ==
  \A k, l \in DOMAIN answer : k < l =>
    \/ Delay(answer[k]) < Delay(answer[l])
    \/ /\ Delay(answer[k]) = Delay(answer[l])
       /\ Scheduled(answer[k]) <= Scheduled(answer[l])

(* "Next departures across the provider.": when fewer are told than were   *)
(* asked for, no other departure is known.                                 *)
NextDepartures ==
  request # NoRequest /\ request.name = NoName /\ Len(answer) < request.count =>
    \A o \in Occurrences : Running(o) /\ Scheduled(o) >= Now => o \in Told

(* "This groups physical platforms into one stop for stop lists and lets   *)
(* schedule lookups use the human-readable name": a lookup of a listed     *)
(* name tells the departures of every stop listed under it.                *)
ListedNamesAreFound ==
  request.name \in {listing[k].name : k \in DOMAIN listing}
    /\ Len(answer) < request.count =>
  \A o \in Occurrences :
    Running(o) /\ ListedName(o.departure.stop) = request.name
      /\ TimeMatches(o, request) => o \in Told

=============================================================================
