---------------------------- MODULE StaticImport ----------------------------
(***************************************************************************)
(* The import of the archives of one provider into its staged database:    *)
(* app/repositories/gtfs_static.py as _build_static_database calls it with *)
(* the archives that FeedSelection has found.                              *)
(* One after the other the archives are downloaded and read row by row:    *)
(* the trips go in batches into a temporary table, then the stops and      *)
(* service dates into their tables, then the stop times in batches, joined *)
(* to the temporary table.  All of it is one transaction, which a download *)
(* that fails, a missing file or a row cut short rolls back.               *)
(*                                                                         *)
(* A field the parser refuses is Missing.  Texts of routes and             *)
(* destinations and the places of stops are left out: they ride along with *)
(* their rows.                                                             *)
(***************************************************************************)
EXTENDS FeedSelection

CONSTANT
  Batch      \* _INSERT_BATCH_SIZE

VARIABLES
  archives,           \* what the sites hold at the links of the provider
  index,              \* the archive being downloaded or read
  phase,              \* what is done with it; "waiting" before
  row,                \* the next row of the file being read
  batch,              \* rows not written yet
  gtfs_import_trips,  \* the temporary table: trip -> service
  stops,              \* the stop ids
  service_dates,      \* pairs of a service and a date
  departures          \* <<trip, stop, sequence>> -> its service and time

tables == <<stops, service_dates, departures>>
importVars == <<archives, index, phase, row, batch, gtfs_import_trips, tables>>
vars == <<selectionVars, importVars>>

-----------------------------------------------------------------------------
(* A file is a sequence of rows.  lacks names what an archive is short of: *)
(* a file, which then has no rows, or the fields of a row of trips.txt or  *)
(* of stop_times.txt that ends before one of its identifiers, which then   *)
(* has the rows before that row.  Of the calendars only rows with all      *)
(* fields are left.                                                        *)
Field == Nat \cup {Missing}
TripFaults == {"routes.txt", "trips.txt", "trip fields", "stops.txt"}
StopTimeFaults == {"stop_times.txt", "stop_time fields"}
ArchiveOK(a) ==
  /\ a.trips \in Seq([trip : Field, service : Field])
  /\ a.stop_times \in Seq([trip : Field, stop : Field, sequence : Int \cup {Missing},
                           time : (Nat \X Nat \X Nat) \cup {Missing}])
  /\ a.stops \in Seq(Field)
  /\ a.calendar \in Seq([service : Nat, start : Nat, end : Nat, days : SUBSET (0 .. 6)])
  /\ a.exceptions \in Seq([service : Nat, date : Nat, type : Nat])
  /\ a.lacks \subseteq TripFaults \cup StopTimeFaults

ASSUME ImportAssumption ==
  /\ Batch \in Nat \ {0} /\ Missing \notin Int
  /\ \A o \in Orders : \A u \in DOMAIN o.site : ArchiveOK(o.site[u])

(* Reading fields and rows.                                                *)

(* A plausible bug: hour 48 is let in.                                     *)
TimeSecondsTo48(t) ==
  IF t = Missing \/ t[1] > 48 \/ t[2] > 59 \/ t[3] > 59 THEN Missing
  ELSE t[1] * 3600 + t[2] * 60 + t[3]

(* _time_seconds_or_none: <<hour, minute, second>>, past midnight too.     *)
TimeSeconds(t) ==
  IF t = Missing \/ t[1] > 47 \/ t[2] > 59 \/ t[3] > 59 THEN Missing
  ELSE t[1] * 3600 + t[2] * 60 + t[3]

ValidTrip(r) == r.trip # Missing /\ r.service # Missing
ValidStopTime(r) ==
  /\ Missing \notin {r.trip, r.stop, r.sequence}
  /\ TimeSeconds(r.time) # Missing

(* _service_dates: the days of the week of every calendar row between its  *)
(* dates, then the exceptions in the order of their file.  Rows with a     *)
(* field that is refused are skipped there and left out here.              *)
Weekday(date) == date % 7
(* A plausible bug: range((end - start).days).                             *)
CalendarDatesBeforeEnd(calendar) ==
  UNION {{<<r.service, d>> : d \in {e \in r.start .. r.end - 1 : Weekday(e) \in r.days}} :
           r \in ToSet(calendar)}
CalendarDates(calendar) ==
  UNION {{<<r.service, d>> : d \in {e \in r.start .. r.end : Weekday(e) \in r.days}} :
           r \in ToSet(calendar)}
ApplyException(dates, x) ==
  CASE x.type = 1 -> dates \cup {<<x.service, x.date>>}
    [] x.type = 2 -> dates \ {<<x.service, x.date>>}
    [] OTHER      -> dates
ServiceDates(a) ==
  LET after[n \in 0 .. Len(a.exceptions)] ==
        IF n = 0 THEN CalendarDates(a.calendar)
        ELSE ApplyException(after[n - 1], a.exceptions[n])
  IN  after[Len(a.exceptions)]

(* INSERT OR REPLACE of rows, a function from their places to pairs of a   *)
(* key and a row: of those with the same key the last one stays.           *)
Upsert(table, pairs) ==
  LET At(key) == {k \in DOMAIN pairs : pairs[k][1] = key}
  IN  [key \in DOMAIN table \cup {pairs[k][1] : k \in DOMAIN pairs} |->
         IF At(key) = {} THEN table[key] ELSE pairs[Max(At(key))][2]]

Nothing == [k \in {} |-> 0]

(* The departures of stop times; those of unknown trips are dropped.       *)
Key(r) == <<r.trip, r.stop, r.sequence>>
Departures(rows, trips) ==
  [k \in {j \in DOMAIN rows : rows[j].trip \in DOMAIN trips} |->
     << Key(rows[k]),
        [service |-> trips[rows[k].trip], seconds |-> TimeSeconds(rows[k].time)] >>]

(* parse_static_feed reads one archive as a whole: its trips by identifier *)
(* (_trips), then the departures of known trips (_departures).             *)
ParsedTrips(a) ==
  Upsert(Nothing, [k \in {j \in DOMAIN a.trips : ValidTrip(a.trips[j])} |->
                     <<a.trips[k].trip, a.trips[k].service>>])
ParsedDepartures(a) ==
  Departures([k \in {j \in DOMAIN a.stop_times : ValidStopTime(a.stop_times[j])} |->
                a.stop_times[k]], ParsedTrips(a))

-----------------------------------------------------------------------------
Archive == archives[index]

(* _iter_csv raises for a file that an archive has to have and has not,    *)
(* and strip for a field that a short row leaves None.  A routes.txt or    *)
(* stops.txt with such a row counts as lacking, calendars with one as      *)
(* stops.txt: nothing is written between the readings of these.            *)
Lacks(files) == Archive.lacks \cap files # {}

Init ==
  /\ SelectionInit
  /\ archives = <<>>
  /\ index = 1 /\ phase = "waiting" /\ row = 1 /\ batch = <<>>
  /\ gtfs_import_trips = Nothing
  /\ stops = {} /\ service_dates = {} /\ departures = Nothing

(* The worker has the links of the provider.                               *)
BeginBuild ==
  /\ phase = "waiting" /\ stage = "resolved"
  /\ archives' = [k \in DOMAIN urls |-> order.site[urls[k]]]
  /\ phase' = "download"
  /\ UNCHANGED <<index, row, batch, gtfs_import_trips, tables>>

(* _download of the next archive, with what is imported of the others in   *)
(* the open transaction.                                                   *)
DownloadArchive ==
  /\ phase = "download"
  /\ phase' = "trips"
  /\ UNCHANGED <<archives, index, row, batch, gtfs_import_trips, tables>>

(* A full batch is written and cleared.                                    *)
StageTrip ==
  /\ phase = "trips" /\ row <= Len(Archive.trips) /\ ~Lacks({"routes.txt"})
  /\ LET r == Archive.trips[row]
         grown == IF ValidTrip(r) THEN Append(batch, <<r.trip, r.service>>) ELSE batch
     IN  IF Len(grown) >= Batch
         THEN batch' = <<>> /\ gtfs_import_trips' = Upsert(gtfs_import_trips, grown)
         ELSE batch' = grown /\ UNCHANGED gtfs_import_trips
  /\ row' = row + 1
  /\ UNCHANGED <<archives, index, phase, tables>>

(* The rest of the trips is written, then stops (INSERT OR REPLACE) and    *)
(* service dates (INSERT OR IGNORE).                                       *)
InsertStopsAndDates ==
  /\ phase = "trips" /\ row > Len(Archive.trips) /\ ~Lacks(TripFaults)
  /\ gtfs_import_trips' = Upsert(gtfs_import_trips, batch)
  /\ stops' = stops \cup (ToSet(Archive.stops) \ {Missing})
  /\ service_dates' = service_dates \cup ServiceDates(Archive)
  /\ phase' = "stop_times" /\ row' = 1 /\ batch' = <<>>
  /\ UNCHANGED <<archives, index, departures>>

InsertStopTime ==
  /\ phase = "stop_times" /\ row <= Len(Archive.stop_times)
  /\ LET r == Archive.stop_times[row]
         grown == IF ValidStopTime(r) THEN Append(batch, r) ELSE batch
     IN  IF Len(grown) >= Batch
         THEN batch' = <<>> /\ departures' = Upsert(departures, Departures(grown, gtfs_import_trips))
         ELSE batch' = grown /\ UNCHANGED departures
  /\ row' = row + 1
  /\ UNCHANGED <<archives, index, phase, gtfs_import_trips, stops, service_dates>>

(* DROP TABLE IF EXISTS.  A plausible bug: it is missing.                  *)
KeptTrips == gtfs_import_trips
DroppedTrips == Nothing

(* The rest of the stop times is written; the next archive is downloaded   *)
(* and starts with a temporary table of its own, or the import is done.    *)
FinishArchive ==
  /\ phase = "stop_times" /\ row > Len(Archive.stop_times) /\ ~Lacks(StopTimeFaults)
  /\ departures' = Upsert(departures, Departures(batch, gtfs_import_trips))
  /\ batch' = <<>> /\ row' = 1
  /\ gtfs_import_trips' = DroppedTrips
  /\ IF index < Len(archives) THEN index' = index + 1 /\ phase' = "download"
                              ELSE index' = index /\ phase' = "done"
  /\ UNCHANGED <<archives, stops, service_dates>>

(* An archive cannot be downloaded, lacks a file or has a row cut short:   *)
(* the build fails, and its transaction is rolled back: what earlier       *)
(* archives of the provider have brought is gone with it.                  *)
RefuseArchive ==
  /\ \/ phase = "download"
     \/ phase = "trips" /\ row = 1 /\ Lacks({"routes.txt", "trips.txt"})
     \/ phase = "trips" /\ row > Len(Archive.trips) /\ Lacks(TripFaults)
     \/ phase = "stop_times" /\ row > Len(Archive.stop_times) /\ Lacks(StopTimeFaults)
  /\ phase' = "raised"
  /\ batch' = <<>> /\ gtfs_import_trips' = Nothing
  /\ stops' = {} /\ service_dates' = {} /\ departures' = Nothing
  /\ UNCHANGED <<archives, index, row>>

ImportStep ==
  \/ BeginBuild \/ DownloadArchive \/ StageTrip \/ InsertStopsAndDates
  \/ InsertStopTime \/ FinishArchive \/ RefuseArchive

Next ==
  \/ SelectionStep /\ UNCHANGED importVars
  \/ ImportStep /\ UNCHANGED selectionVars

Spec == Init /\ [][Next]_vars

-----------------------------------------------------------------------------
LastSecond == 2 * 86400 - 1

(* Every departure ends within the day after its service date, as the      *)
(* queries assume when they look for yesterday's service and no earlier    *)
(* one; the batch is bounded by its size.                                  *)
TypeOK ==
  /\ stage \in {"arguments", "settings", "selected", "resolved", "refused", "raised"}
  /\ index \in 1 .. Len(archives) \/ phase = "waiting"
  /\ phase \in {"waiting", "download", "trips", "stop_times", "done", "raised"}
  /\ row \in Nat \ {0}
  /\ Len(batch) < Batch
  /\ stops \subseteq Nat
  /\ \A p \in service_dates : p \in Nat \X Nat
  /\ \A key \in DOMAIN departures : departures[key].seconds \in 0 .. LastSecond

(* The rows the archives stand for, whatever the size of a batch.          *)

FeedTrips(a) == {r.trip : r \in {x \in ToSet(a.trips) : ValidTrip(x)}}
TripRows(a, t) == {k \in DOMAIN a.trips : ValidTrip(a.trips[k]) /\ a.trips[k].trip = t}
StopTimeRows(a, key) ==
  {k \in DOMAIN a.stop_times :
     ValidStopTime(a.stop_times[k]) /\ a.stop_times[k].trip \in FeedTrips(a)
       /\ Key(a.stop_times[k]) = key}
FeedDeparture(a, key) ==
  [service |-> a.trips[Max(TripRows(a, key[1]))].service,
   seconds |-> TimeSeconds(a.stop_times[Max(StopTimeRows(a, key))].time)]
FeedKeys(a) ==
  {Key(r) : r \in {x \in ToSet(a.stop_times) : ValidStopTime(x) /\ x.trip \in FeedTrips(a)}}
FeedDepartures ==
  [key \in UNION {FeedKeys(a) : a \in ToSet(archives)} |->
     FeedDeparture(archives[Max({k \in DOMAIN archives : key \in FeedKeys(archives[k])})], key)]

(* A date is served when the last exception for it adds it, or when there  *)
(* is none and a calendar row covers it.                                   *)
RunsOn(a, s, d) ==
  LET about == {k \in DOMAIN a.exceptions :
                  /\ a.exceptions[k].service = s /\ a.exceptions[k].date = d
                  /\ a.exceptions[k].type \in {1, 2}}
  IN  IF about # {} THEN a.exceptions[Max(about)].type = 1
      ELSE \E r \in ToSet(a.calendar) :
             r.service = s /\ r.start <= d /\ d <= r.end /\ d % 7 \in r.days

(* Archives whose identifiers differ do not meet in the tables: what runs  *)
(* is what each of them says for itself.  Nothing of the code ensures that *)
(* they differ, and the keys of the tables do not hold the archive.        *)
Services(a) ==
  {r.service : r \in {x \in ToSet(a.trips) : ValidTrip(x)}}
    \cup {r.service : r \in ToSet(a.calendar)} \cup {x.service : x \in ToSet(a.exceptions)}
Disjoint ==
  \A k, l \in DOMAIN archives : k # l =>
    /\ FeedTrips(archives[k]) \cap FeedTrips(archives[l]) = {}
    /\ Services(archives[k]) \cap Services(archives[l]) = {}
Running(rows, dates) ==
  {<<q[1], q[2][2], rows[q[1]].seconds>> :
     q \in {p \in (DOMAIN rows) \X dates : p[2][1] = rows[p[1]].service}}
ArchivesKeepTheirTrips ==
  phase = "done" /\ Disjoint =>
    Running(departures, service_dates) =
      UNION {Running([key \in FeedKeys(a) |-> FeedDeparture(a, key)],
                     {p \in service_dates : RunsOn(a, p[1], p[2])}) : a \in ToSet(archives)}

(* The import writes exactly the departures of the archives: each stop     *)
(* time with the trip of its own archive, the last of equal rows, none     *)
(* lost at the end of a file or of a batch.  For one archive these are the *)
(* departures of parse_static_feed.  An archive that lacks a file or a     *)
(* field is never part of a schedule, nor are, when the next one cannot be *)
(* downloaded or read, the archives imported before it.                    *)
ImportIsFaithful ==
  /\ phase = "done" =>
       /\ departures = FeedDepartures
       /\ \A k \in DOMAIN archives : archives[k].lacks = {}
       /\ Len(archives) = 1 =>
            departures = Upsert(Nothing, ParsedDepartures(archives[1]))
  /\ phase = "raised" => departures = Nothing /\ stops = {} /\ service_dates = {}

(* The service dates are those of the calendars and their exceptions.      *)
DatesAreFaithful ==
  phase = "done" =>
    service_dates =
      {p \in (UNION {{<<r.service, d>> : d \in r.start .. r.end} :
                       r \in UNION {ToSet(a.calendar) : a \in ToSet(archives)}})
             \cup {<<x.service, x.date>> :
                      x \in UNION {ToSet(a.exceptions) : a \in ToSet(archives)}} :
         \E a \in ToSet(archives) : RunsOn(a, p[1], p[2])}

=============================================================================
