-------------------------- MODULE StoreTransactions --------------------------
(***************************************************************************)
(* The transactions of the shared database, statement by statement, as     *)
(* app/core/database.py, app/core/refresh.py and                           *)
(* app/repositories/gtfs_realtime.py run them: threads that write under    *)
(* Database._write_lock, requests that read at the same time, statements   *)
(* that fail, and a process that is killed between two statements.         *)
(*                                                                         *)
(* The rows of one provider in one table are represented by the            *)
(* publication they come from (for real-time rows: the publication their   *)
(* delays were computed from).                                             *)
(***************************************************************************)
EXTENDS Naturals, Sequences

CONSTANTS
  Slugs,       \* the provider slugs
  Threads,     \* worker threads of asyncio.to_thread that write
  Requests,    \* request threads that read
  MaxVersion,  \* bound on the publications of one provider
  NoRows,      \* a table has no rows of the provider
  Nobody       \* the write lock is free

ASSUME TransactionsAssumption ==
  /\ MaxVersion \in Nat \ {0}
  /\ NoRows \notin Nat
  /\ Nobody \notin Threads

VARIABLES
  disk,       \* committed rows: provider -> table -> publication
  lock,       \* the thread that holds _write_lock
  writer,     \* what each thread is writing, and its next statement
  work,       \* the rows each thread sees inside its transaction
  request,    \* what each request has read so far
  published   \* the newest publication of each provider

vars == <<disk, lock, writer, work, request, published>>

-----------------------------------------------------------------------------
ScheduleTables == {"stops", "service_dates", "departures"}
RealtimeTables == {"realtime_delays", "realtime_trip_cancellations",
                   "realtime_skipped_stops"}
Tables == ScheduleTables \cup RealtimeTables
Stamp == "static_updated_at"   \* the column of the providers row; that a
                               \* time stamp grows old is no write

IsRows(rows) ==
  /\ DOMAIN rows = Tables \cup {Stamp}
  /\ \A table \in Tables : rows[table] \in {NoRows} \cup (0 .. MaxVersion)
  /\ rows[Stamp] \in {"noRow", "never", "fresh"}

NoProvider == [c \in Tables \cup {Stamp} |-> IF c = Stamp THEN "noRow" ELSE NoRows]

Write(column, rows) == [column |-> column, rows |-> rows]
Delete(table) == Write(table, NoRows)

(* The tables that _install_static_database empties.  A plausible bug: the  *)
(* last one is missing from the list.                                      *)
EmptiedTablesButSkips ==
  <<"stops", "service_dates", "departures", "realtime_delays",
    "realtime_trip_cancellations">>
EmptiedTables ==
  <<"stops", "service_dates", "departures", "realtime_delays",
    "realtime_trip_cancellations", "realtime_skipped_stops">>

DeleteAll(tables) == [k \in DOMAIN tables |-> Delete(tables[k])]

(* The statements of _install_static_database after ATTACH: the deletes,   *)
(* three copies and the time stamp.                                        *)
InstallStatements(v) ==
  DeleteAll(EmptiedTables) \o
  << Write("stops", v), Write("service_dates", v), Write("departures", v),
     Write(Stamp, "fresh") >>

(* The statements of replace_realtime_delays after its SELECT: three       *)
(* deletes and three inserts.                                              *)
ObserveStatements(v) ==
  DeleteAll(<<"realtime_delays", "realtime_trip_cancellations",
              "realtime_skipped_stops">>) \o
  << Write("realtime_delays", v), Write("realtime_trip_cancellations", v),
     Write("realtime_skipped_stops", v) >>

Statements(w) ==
  IF w.op = "install" THEN InstallStatements(w.version)
                      ELSE ObserveStatements(w.version)

Idle == [op |-> "idle"]
Operation(op, s, v, next) == [op |-> op, slug |-> s, version |-> v, next |-> next]
Writing(t) == writer[t].op # "idle"
ServedBy(rows) == IF rows["departures"] = NoRows THEN 0 ELSE rows["departures"]

(* Requests read the tables of the one SELECT of schedule() in some order; *)
(* the schedule tables come first because the join starts from them.       *)
ReadOrder == <<"departures", "stops", "service_dates", "realtime_delays",
               "realtime_trip_cancellations", "realtime_skipped_stops">>

Waiting == [state |-> "waiting"]

(* Committed and uncommitted rows are rows; statements are counted.        *)
TypeOK ==
  /\ \A s \in Slugs : IsRows(disk[s])
  /\ lock \in Threads \cup {Nobody}
  /\ \A t \in Threads : Writing(t) =>
       /\ writer[t].slug \in Slugs
       /\ writer[t].version \in 0 .. MaxVersion
       /\ writer[t].next \in 0 .. Len(Statements(writer[t])) + 1
  /\ \A t \in Threads : IsRows(work[t])
  /\ published \in [Slugs -> 1 .. MaxVersion]

Init ==
  /\ disk = [s \in Slugs |-> NoProvider]
  /\ lock = Nobody
  /\ writer = [t \in Threads |-> Idle]
  /\ work = [t \in Threads |-> NoProvider]
  /\ request = [r \in Requests |-> Waiting]
  /\ published = [s \in Slugs |-> 1]

-----------------------------------------------------------------------------
(* Writers.                                                                *)

(* _ensure_provider: one statement, committed by itself.                   *)
EnsureProvider(s) ==
  /\ lock = Nobody
  /\ disk[s][Stamp] = "noRow"
  /\ disk' = [disk EXCEPT ![s][Stamp] = "never"]
  /\ UNCHANGED <<lock, writer, work, request, published>>

(* A thread is given a built database of a publication to install.  The    *)
(* refresh cycle never has two installs of different builds of a provider. *)
InstallRequested(t, s, v) ==
  /\ ~Writing(t)
  /\ disk[s][Stamp] # "noRow"
  /\ \A u \in Threads : Writing(u) /\ writer[u].op = "install" => writer[u].slug # s
  /\ v \in ServedBy(disk[s]) .. published[s] /\ v # 0
  /\ writer' = [writer EXCEPT ![t] = Operation("install", s, v, 0)]
  /\ UNCHANGED <<disk, lock, work, request, published>>

ObserveRequested(t, s) ==
  /\ ~Writing(t)
  /\ disk[s][Stamp] # "noRow"
  /\ writer' = [writer EXCEPT ![t] = Operation("observe", s, 0, 0)]
  /\ UNCHANGED <<disk, lock, work, request, published>>

(* Plausible bugs of a writer: it uses connection() without the lock; it   *)
(* does not expect a provider without a schedule; its connection is in     *)
(* autocommit mode.                                                        *)
LocksNothing(t) == lock' = lock
Locks(t) == lock = Nobody /\ lock' = t

BasisUnserved(t) == disk[writer[t].slug]["departures"]
Basis(t) == ServedBy(disk[writer[t].slug])

CommitsAtOnce(t, statement) ==
  disk' = [disk EXCEPT ![writer[t].slug][statement.column] = statement.rows]
StaysUncommitted(t, statement) == disk' = disk

(* write_connection: the lock is taken and a connection opened; delays are *)
(* computed from the schedule that this connection reads.                  *)
TransactionBegins(t) ==
  /\ Writing(t) /\ writer[t].next = 0
  /\ Locks(t)
  /\ work' = [work EXCEPT ![t] = disk[writer[t].slug]]
  /\ writer' = [writer EXCEPT
       ![t].next = 1,
       ![t].version = IF writer[t].op = "observe" THEN Basis(t) ELSE @]
  /\ UNCHANGED <<disk, request, published>>

StatementRuns(t) ==
  /\ Writing(t)
  /\ writer[t].next \in 1 .. Len(Statements(writer[t]))
  /\ LET statement == Statements(writer[t])[writer[t].next]
     IN  /\ work' = [work EXCEPT ![t][statement.column] = statement.rows]
         /\ StaysUncommitted(t, statement)
  /\ writer' = [writer EXCEPT ![t].next = @ + 1]
  /\ UNCHANGED <<lock, request, published>>

TransactionEnds(t) ==
  /\ writer' = [writer EXCEPT ![t] = Idle]
  /\ work' = [work EXCEPT ![t] = NoProvider]
  /\ lock' = Nobody

(* connection.commit() after the last statement.                           *)
TransactionCommits(t) ==
  /\ Writing(t)
  /\ writer[t].next = Len(Statements(writer[t])) + 1
  /\ disk' = [disk EXCEPT ![writer[t].slug] = work[t]]
  /\ TransactionEnds(t)
  /\ UNCHANGED <<request, published>>

(* A statement or the commit raises: connection.rollback().                *)
TransactionRollsBack(t) ==
  /\ Writing(t) /\ writer[t].next # 0
  /\ TransactionEnds(t)
  /\ UNCHANGED <<disk, request, published>>

-----------------------------------------------------------------------------
(* Requests.                                                               *)

(* The first page read by the SELECT fixes the snapshot (WAL).             *)
RequestBegins(r, s) ==
  /\ request[r].state # "reading"
  /\ request' = [request EXCEPT ![r] =
       [state |-> "reading", slug |-> s, snapshot |-> disk[s], rows |-> <<>>]]
  /\ UNCHANGED <<disk, lock, writer, work, published>>

(* What the SELECT sees of a table.  A plausible bug: one SELECT and one    *)
(* connection for each table.                                              *)
SeesLatest(r, table) == disk[request[r].slug][table]
Sees(r, table) == request[r].snapshot[table]

RequestReads(r) ==
  /\ request[r].state = "reading"
  /\ Len(request[r].rows) < Len(ReadOrder)
  /\ LET table == ReadOrder[Len(request[r].rows) + 1]
     IN  request' = [request EXCEPT ![r].rows = Append(@, Sees(r, table))]
  /\ UNCHANGED <<disk, lock, writer, work, published>>

RequestAnswers(r) ==
  /\ request[r].state = "reading"
  /\ Len(request[r].rows) = Len(ReadOrder)
  /\ request' = [request EXCEPT ![r] =
       [state |-> "answered", slug |-> request[r].slug, rows |-> request[r].rows]]
  /\ UNCHANGED <<disk, lock, writer, work, published>>

-----------------------------------------------------------------------------
(* The environment.                                                        *)

Publish(s) ==
  /\ published[s] < MaxVersion
  /\ published' = [published EXCEPT ![s] = @ + 1]
  /\ UNCHANGED <<disk, lock, writer, work, request>>

(* The process is killed: open transactions and requests are gone.         *)
Crash ==
  /\ lock' = Nobody
  /\ writer' = [t \in Threads |-> Idle]
  /\ work' = [t \in Threads |-> NoProvider]
  /\ request' = [r \in Requests |-> Waiting]
  /\ UNCHANGED <<disk, published>>

-----------------------------------------------------------------------------
WriterStep(t) ==
  \/ \E s \in Slugs : \/ ObserveRequested(t, s)
                     \/ \E v \in 1 .. MaxVersion : InstallRequested(t, s, v)
  \/ TransactionBegins(t) \/ StatementRuns(t)
  \/ TransactionCommits(t) \/ TransactionRollsBack(t)

RequestStep(r) ==
  (\E s \in Slugs : RequestBegins(r, s)) \/ RequestReads(r) \/ RequestAnswers(r)

Next ==
  \/ \E t \in Threads : WriterStep(t)
  \/ \E r \in Requests : RequestStep(r)
  \/ \E s \in Slugs : EnsureProvider(s) \/ Publish(s)
  \/ Crash

Spec == Init /\ [][Next]_vars

-----------------------------------------------------------------------------
(* What a request must never see: a schedule half replaced, or delays of   *)
(* another schedule.                                                       *)
Whole(rows) ==
  /\ \A table \in ScheduleTables : rows[table] = rows["departures"]
  /\ \A table \in RealtimeTables : rows[table] \in {NoRows, ServedBy(rows)}

(* Whatever fails and whenever the process is killed, what is committed is *)
(* one whole publication with real-time rows of that publication.          *)
CommittedIsWhole == \A s \in Slugs : Whole(disk[s])

(* Every answer comes from one publication, also while a thread replaces   *)
(* the tables the request is reading ("Creates short-lived SQLite          *)
(* connections safe for FastAPI worker threads").                          *)
AnswerRows(r) ==
  [table \in Tables |->
     request[r].rows[CHOOSE k \in DOMAIN ReadOrder : ReadOrder[k] = table]]
AnswersAreWhole ==
  \A r \in Requests : request[r].state = "answered" => Whole(AnswerRows(r))

(* A client that asks again about the same provider is not sent back to an *)
(* older schedule.                                                         *)
AnswersNeverGoBack ==
  [][\A r \in Requests :
       request[r].state = "answered" /\ request'[r].state = "reading"
         /\ request'[r].slug = request[r].slug =>
       ServedBy(AnswerRows(r)) <= ServedBy(request'[r].snapshot)]_vars

(* The transactions implement what ProviderStore promises: only a commit   *)
(* changes what is served, and it changes it by one abstract operation.    *)
Store == INSTANCE ProviderStore WITH
  NoOverlay <- NoRows,
  schedule <- [s \in Slugs |-> ServedBy(disk[s])],
  stamp <- [s \in Slugs |-> disk[s][Stamp]],
  overlay <- [s \in Slugs |-> disk[s]["realtime_delays"]]
ImplementsStore == Store!Spec

=============================================================================
