----------------------- MODULE StoreTransactionsProofs -----------------------
(***************************************************************************)
(* Proofs about StoreTransactions for any providers, threads, requests and *)
(* publications.                                                           *)
(*                                                                         *)
(* The inductive invariant says what an open transaction has made of the   *)
(* committed rows after each of its statements (View): whatever it has not *)
(* reached yet is still what is committed, because the thread that writes  *)
(* holds the write lock.  After the last statement the view is one whole   *)
(* publication, and a commit publishes just that.                          *)
(***************************************************************************)
EXTENDS StoreTransactions, SequenceTheorems, TLAPS

-----------------------------------------------------------------------------
Columns == Tables \cup {Stamp}
Value == {NoRows, "noRow", "never", "fresh"} \cup (0 .. MaxVersion)
Rows == {rows \in [Columns -> Value] : IsRows(rows)}
Operations == [op : {"install", "observe"}, slug : Slugs,
               version : 0 .. MaxVersion, next : Nat]
Readings == [state : {"reading"}, slug : Slugs, snapshot : Rows, rows : Seq(Value)]
Answers == [state : {"answered"}, slug : Slugs, rows : Seq(Value)]

(* A table whose rows statement number deleted removes and statement       *)
(* number inserted writes anew, before statement number n runs.            *)
Replaced(n, deleted, inserted, old, new) ==
  IF n <= deleted THEN old ELSE IF n <= inserted THEN NoRows ELSE new

InstallView(c, old, v, n) ==
  CASE c = "stops"           -> Replaced(n, 1, 7, old[c], v)
    [] c = "service_dates"   -> Replaced(n, 2, 8, old[c], v)
    [] c = "departures"      -> Replaced(n, 3, 9, old[c], v)
    [] c = "realtime_delays" -> IF n <= 4 THEN old[c] ELSE NoRows
    [] c = "realtime_trip_cancellations" -> IF n <= 5 THEN old[c] ELSE NoRows
    [] c = "realtime_skipped_stops"      -> IF n <= 6 THEN old[c] ELSE NoRows
    [] OTHER -> IF n <= 10 THEN old[c] ELSE "fresh"

ObserveView(c, old, v, n) ==
  CASE c = "realtime_delays"             -> Replaced(n, 1, 4, old[c], v)
    [] c = "realtime_trip_cancellations" -> Replaced(n, 2, 5, old[c], v)
    [] c = "realtime_skipped_stops"      -> Replaced(n, 3, 6, old[c], v)
    [] OTHER -> old[c]

Count(w) == IF w.op = "install" THEN 10 ELSE 6
View(c, old, w) == IF w.op = "install" THEN InstallView(c, old, w.version, w.next)
                                       ELSE ObserveView(c, old, w.version, w.next)

-----------------------------------------------------------------------------
(* The inductive invariant.                                                *)

TypeInv ==
  /\ disk \in [Slugs -> Rows]
  /\ lock \in Threads \cup {Nobody}
  /\ writer \in [Threads -> {Idle} \cup Operations]
  /\ work \in [Threads -> Rows]
  /\ request \in [Requests -> {Waiting} \cup Readings \cup Answers]
  /\ published \in [Slugs -> 1 .. MaxVersion]

Installing(t) == Writing(t) /\ writer[t].op = "install"
Target(t) == disk[writer[t].slug]

(* A transaction that is open has the lock and sees its own statements; an *)
(* install brings no older publication; delays are of the served schedule. *)
WriterInv ==
  /\ \A t \in Threads : Writing(t) /\ writer[t].next # 0 =>
       /\ lock = t
       /\ writer[t].next <= Count(writer[t]) + 1
       /\ \A c \in Columns : work[t][c] = View(c, Target(t), writer[t])
       /\ writer[t].op = "observe" => writer[t].version = ServedBy(Target(t))
  /\ \A t \in Threads : Installing(t) =>
       /\ writer[t].version \in 1 .. published[writer[t].slug]
       /\ ServedBy(Target(t)) <= writer[t].version
       /\ Target(t)[Stamp] # "noRow"
  /\ \A t, u \in Threads :
       Installing(t) /\ Installing(u) /\ writer[t].slug = writer[u].slug => t = u

StoreInv ==
  \A s \in Slugs : Whole(disk[s]) /\ ServedBy(disk[s]) <= published[s]

(* A request has read its snapshot only, which is whole and no newer than  *)
(* what is committed; the same holds for the answer it became.             *)
ReadingInv(r) ==
  LET q == request[r]
  IN  /\ Whole(q.snapshot) /\ ServedBy(q.snapshot) <= ServedBy(disk[q.slug])
      /\ Len(q.rows) <= 6
      /\ \A k \in 1 .. Len(q.rows) : q.rows[k] = q.snapshot[ReadOrder[k]]
AnswerInv(r) ==
  /\ Whole(AnswerRows(r))
  /\ ServedBy(AnswerRows(r)) \in 0 .. ServedBy(disk[request[r].slug])
RequestInv ==
  \A r \in Requests :
    /\ request[r].state = "reading" => ReadingInv(r)
    /\ request[r].state = "answered" => AnswerInv(r)

IInv == TypeInv /\ WriterInv /\ StoreInv /\ RequestInv

-----------------------------------------------------------------------------
(* What the statements of a transaction do.                                *)

(* The elements of a concatenation.                                        *)
LEMMA Joined ==
  ASSUME NEW S, NEW s \in Seq(S), NEW t \in Seq(S)
  PROVE  /\ Len(s \o t) = Len(s) + Len(t)
         /\ \A k \in 1 .. Len(s) : (s \o t)[k] = s[k]
         /\ \A k \in 1 .. Len(t) : (s \o t)[Len(s) + k] = t[k]
BY ConcatProperties, LenProperties

(* The statements of _install_static_database, one by one.                 *)
LEMMA InstallStatementsAre ==
  ASSUME NEW v
  PROVE  /\ Len(InstallStatements(v)) = 10
         /\ InstallStatements(v)[1] = Write("stops", NoRows)
         /\ InstallStatements(v)[2] = Write("service_dates", NoRows)
         /\ InstallStatements(v)[3] = Write("departures", NoRows)
         /\ InstallStatements(v)[4] = Write("realtime_delays", NoRows)
         /\ InstallStatements(v)[5] = Write("realtime_trip_cancellations", NoRows)
         /\ InstallStatements(v)[6] = Write("realtime_skipped_stops", NoRows)
         /\ InstallStatements(v)[7] = Write("stops", v)
         /\ InstallStatements(v)[8] = Write("service_dates", v)
         /\ InstallStatements(v)[9] = Write("departures", v)
         /\ InstallStatements(v)[10] = Write(Stamp, "fresh")
<1> DEFINE S == [column : Columns, rows : {NoRows, v, "fresh"}]
           del == DeleteAll(EmptiedTables)
           ins == << Write("stops", v), Write("service_dates", v),
                     Write("departures", v), Write(Stamp, "fresh") >>
<1>1. /\ del \in Seq(S) /\ Len(del) = 6
      /\ del[1] = Write("stops", NoRows) /\ del[2] = Write("service_dates", NoRows)
      /\ del[3] = Write("departures", NoRows) /\ del[4] = Write("realtime_delays", NoRows)
      /\ del[5] = Write("realtime_trip_cancellations", NoRows)
      /\ del[6] = Write("realtime_skipped_stops", NoRows)
  <2>1. del = << Delete("stops"), Delete("service_dates"), Delete("departures"),
                 Delete("realtime_delays"), Delete("realtime_trip_cancellations"),
                 Delete("realtime_skipped_stops") >>
    BY DEF DeleteAll, EmptiedTables
  <2> QED
    BY <2>1 DEF Delete, Write, Columns, Tables, ScheduleTables, RealtimeTables
<1>2. ins \in Seq(S) /\ Len(ins) = 4
  BY DEF Write, Columns, Tables, ScheduleTables, RealtimeTables
<1>3. InstallStatements(v) = del \o ins
  BY DEF InstallStatements
<1>4. /\ ins[1] = Write("stops", v) /\ ins[2] = Write("service_dates", v)
      /\ ins[3] = Write("departures", v) /\ ins[4] = Write(Stamp, "fresh")
  OBVIOUS
<1> HIDE DEF S, del, ins
<1>5. /\ Len(InstallStatements(v)) = 10
      /\ \A k \in 1 .. 6 : InstallStatements(v)[k] = del[k]
      /\ \A k \in 1 .. 4 : InstallStatements(v)[6 + k] = ins[k]
  <2>1. del \in Seq(S) /\ ins \in Seq(S)
    BY <1>1, <1>2
  <2>2. /\ Len(del \o ins) = Len(del) + Len(ins)
        /\ \A k \in 1 .. Len(del) : (del \o ins)[k] = del[k]
        /\ \A k \in 1 .. Len(ins) : (del \o ins)[Len(del) + k] = ins[k]
    BY <2>1, Joined
  <2>3. Len(del) = 6 /\ Len(ins) = 4
    BY <1>1, <1>2
  <2>4. Len(del) + Len(ins) = 10
    BY <2>3
  <2>5. Len(del \o ins) = 10
    BY <2>2, <2>4, Zenon
  <2>6. \A k \in 1 .. 6 : (del \o ins)[k] = del[k]
    BY <2>2, <2>3
  <2>7. \A k \in 1 .. 4 : (del \o ins)[6 + k] = ins[k]
    BY <2>2, <2>3
  <2> QED BY <1>3, <2>5, <2>6, <2>7, Zenon
<1> HIDE DEF InstallStatements
<1>6. /\ InstallStatements(v)[7] = ins[1] /\ InstallStatements(v)[8] = ins[2]
      /\ InstallStatements(v)[9] = ins[3] /\ InstallStatements(v)[10] = ins[4]
  <2>1. 7 = 6 + 1 /\ 8 = 6 + 2 /\ 9 = 6 + 3 /\ 10 = 6 + 4
    OBVIOUS
  <2> QED BY <1>5, <2>1
<1> QED
  BY <1>1, <1>4, <1>5, <1>6

(* The statements of replace_realtime_delays, one by one.                  *)
LEMMA ObserveStatementsAre ==
  ASSUME NEW v
  PROVE  /\ Len(ObserveStatements(v)) = 6
         /\ ObserveStatements(v)[1] = Write("realtime_delays", NoRows)
         /\ ObserveStatements(v)[2] = Write("realtime_trip_cancellations", NoRows)
         /\ ObserveStatements(v)[3] = Write("realtime_skipped_stops", NoRows)
         /\ ObserveStatements(v)[4] = Write("realtime_delays", v)
         /\ ObserveStatements(v)[5] = Write("realtime_trip_cancellations", v)
         /\ ObserveStatements(v)[6] = Write("realtime_skipped_stops", v)
<1> DEFINE S == [column : Columns, rows : {NoRows, v}]
           del == DeleteAll(<<"realtime_delays", "realtime_trip_cancellations",
                              "realtime_skipped_stops">>)
           ins == << Write("realtime_delays", v), Write("realtime_trip_cancellations", v),
                     Write("realtime_skipped_stops", v) >>
<1>1. /\ del \in Seq(S) /\ Len(del) = 3
      /\ del[1] = Write("realtime_delays", NoRows)
      /\ del[2] = Write("realtime_trip_cancellations", NoRows)
      /\ del[3] = Write("realtime_skipped_stops", NoRows)
  <2>1. del = << Delete("realtime_delays"), Delete("realtime_trip_cancellations"),
                 Delete("realtime_skipped_stops") >>
    BY DEF DeleteAll
  <2> HIDE DEF del
  <2> QED
    BY <2>1 DEF Delete, Write, Columns, Tables, ScheduleTables, RealtimeTables
<1>2. ins \in Seq(S) /\ Len(ins) = 3
  BY DEF Write, Columns, Tables, ScheduleTables, RealtimeTables
<1>3. ObserveStatements(v) = del \o ins
  BY DEF ObserveStatements
<1>4. /\ ins[1] = Write("realtime_delays", v)
      /\ ins[2] = Write("realtime_trip_cancellations", v)
      /\ ins[3] = Write("realtime_skipped_stops", v)
  OBVIOUS
<1> HIDE DEF S, del, ins
<1>5. /\ Len(ObserveStatements(v)) = 6
      /\ \A k \in 1 .. 3 : ObserveStatements(v)[k] = del[k]
      /\ \A k \in 1 .. 3 : ObserveStatements(v)[3 + k] = ins[k]
  <2>1. del \in Seq(S) /\ ins \in Seq(S)
    BY <1>1, <1>2
  <2>2. /\ Len(del \o ins) = Len(del) + Len(ins)
        /\ \A k \in 1 .. Len(del) : (del \o ins)[k] = del[k]
        /\ \A k \in 1 .. Len(ins) : (del \o ins)[Len(del) + k] = ins[k]
    BY <2>1, Joined
  <2>3. Len(del) = 3 /\ Len(ins) = 3
    BY <1>1, <1>2
  <2>4. Len(del) + Len(ins) = 6
    BY <2>3
  <2>5. Len(del \o ins) = 6
    BY <2>2, <2>4, Zenon
  <2>6. \A k \in 1 .. 3 : (del \o ins)[k] = del[k]
    BY <2>2, <2>3
  <2>7. \A k \in 1 .. 3 : (del \o ins)[3 + k] = ins[k]
    BY <2>2, <2>3
  <2> QED BY <1>3, <2>5, <2>6, <2>7, Zenon
<1>6. /\ ObserveStatements(v)[4] = ins[1] /\ ObserveStatements(v)[5] = ins[2]
      /\ ObserveStatements(v)[6] = ins[3]
  <2>1. 4 = 3 + 1 /\ 5 = 3 + 2 /\ 6 = 3 + 3
    OBVIOUS
  <2> QED BY <1>5, <2>1
<1> QED
  BY <1>1, <1>4, <1>5, <1>6

(* How many statements there are.                                         *)
LEMMA StatementCount ==
  ASSUME NEW w
  PROVE  Len(Statements(w)) = Count(w) /\ Count(w) \in {6, 10}
<1>1. CASE w.op = "install"
  <2>1. Statements(w) = InstallStatements(w.version) /\ Count(w) = 10
    BY <1>1 DEF Statements, Count
  <2>2. Len(InstallStatements(w.version)) = 10
    BY InstallStatementsAre
  <2> QED
    BY <2>1, <2>2
<1>2. CASE w.op # "install"
  <2>1. Statements(w) = ObserveStatements(w.version) /\ Count(w) = 6
    BY <1>2 DEF Statements, Count
  <2>2. Len(ObserveStatements(w.version)) = 6
    BY ObserveStatementsAre
  <2> QED
    BY <2>1, <2>2
<1> QED
  BY <1>1, <1>2

(* Running the next statement turns the view before it into the view after *)
(* it, and keeps rows rows.                                                *)
LEMMA StatementStep ==
  ASSUME NEW old, NEW w \in Operations, w.next \in 1 .. Count(w)
  PROVE  LET st == Statements(w)[w.next]
         IN  /\ st.column \in Columns
             /\ st.column = Stamp => st.rows = "fresh"
             /\ st.column # Stamp => st.rows \in {NoRows} \cup (0 .. MaxVersion)
             /\ \A c \in Columns :
                  (IF c = st.column THEN st.rows ELSE View(c, old, w))
                    = View(c, old, [w EXCEPT !.next = w.next + 1])
<1> DEFINE st == Statements(w)[w.next]
           n == w.next
           v == w.version
<1>1. w.version \in 0 .. MaxVersion /\ w.next \in Nat
  BY DEF Operations
<1>2. [w EXCEPT !.next = n + 1].op = w.op /\ [w EXCEPT !.next = n + 1].version = v
        /\ [w EXCEPT !.next = n + 1].next = n + 1
  BY DEF Operations
<1>3. CASE w.op = "install"
  <2>1. Statements(w) = InstallStatements(v) /\ Count(w) = 10
    BY <1>3 DEF Statements, Count
  <2>2. \/ n = 1 /\ st = Write("stops", NoRows)
        \/ n = 2 /\ st = Write("service_dates", NoRows)
        \/ n = 3 /\ st = Write("departures", NoRows)
        \/ n = 4 /\ st = Write("realtime_delays", NoRows)
        \/ n = 5 /\ st = Write("realtime_trip_cancellations", NoRows)
        \/ n = 6 /\ st = Write("realtime_skipped_stops", NoRows)
        \/ n = 7 /\ st = Write("stops", v)
        \/ n = 8 /\ st = Write("service_dates", v)
        \/ n = 9 /\ st = Write("departures", v)
        \/ n = 10 /\ st = Write(Stamp, "fresh")
    BY <2>1, InstallStatementsAre
  <2> HIDE DEF st, n, v
  <2>3. /\ st.column \in Columns
        /\ st.column = Stamp => st.rows = "fresh"
        /\ st.column # Stamp => st.rows \in {NoRows, v}
    BY <2>2 DEF Write, Columns, Tables, ScheduleTables, RealtimeTables, Stamp
  <2>4. ASSUME NEW c \in Columns
        PROVE  (IF c = st.column THEN st.rows ELSE InstallView(c, old, v, n))
                  = InstallView(c, old, v, n + 1)
    BY <2>2 DEF InstallView, Replaced, Write, Columns, Tables, ScheduleTables,
                RealtimeTables, Stamp
  <2>5. \A c \in Columns : /\ View(c, old, w) = InstallView(c, old, v, n)
                           /\ View(c, old, [w EXCEPT !.next = n + 1])
                                = InstallView(c, old, v, n + 1)
    BY <1>2, <1>3 DEF View, n, v
  <2> QED
    BY <1>1, <2>3, <2>4, <2>5 DEF st, n, v
<1>4. CASE w.op # "install"
  <2>1. Statements(w) = ObserveStatements(v) /\ Count(w) = 6
    BY <1>4 DEF Statements, Count
  <2>2. \/ n = 1 /\ st = Write("realtime_delays", NoRows)
        \/ n = 2 /\ st = Write("realtime_trip_cancellations", NoRows)
        \/ n = 3 /\ st = Write("realtime_skipped_stops", NoRows)
        \/ n = 4 /\ st = Write("realtime_delays", v)
        \/ n = 5 /\ st = Write("realtime_trip_cancellations", v)
        \/ n = 6 /\ st = Write("realtime_skipped_stops", v)
    BY <2>1, ObserveStatementsAre
  <2> HIDE DEF st, n, v
  <2>3. st.column \in Columns /\ st.column # Stamp /\ st.rows \in {NoRows, v}
    BY <2>2 DEF Write, Columns, Tables, ScheduleTables, RealtimeTables, Stamp
  <2>4. ASSUME NEW c \in Columns
        PROVE  (IF c = st.column THEN st.rows ELSE ObserveView(c, old, v, n))
                  = ObserveView(c, old, v, n + 1)
    BY <2>2 DEF ObserveView, Replaced, Write, Columns, Tables, ScheduleTables,
                RealtimeTables, Stamp
  <2>5. \A c \in Columns : /\ View(c, old, w) = ObserveView(c, old, v, n)
                           /\ View(c, old, [w EXCEPT !.next = n + 1])
                                = ObserveView(c, old, v, n + 1)
    BY <1>2, <1>4 DEF View, n, v
  <2> QED
    BY <1>1, <2>3, <2>4, <2>5 DEF st, n, v
<1> QED
  BY <1>3, <1>4

(* At the first statement the view is what is committed; after the last    *)
(* one of an install it is one whole publication with its time stamp, of   *)
(* an observation the same schedule with delays computed from it.          *)
LEMMA ViewBegins ==
  ASSUME NEW old, NEW w, w.next = 1, NEW c \in Columns
  PROVE  View(c, old, w) = old[c]
BY DEF View, InstallView, ObserveView, Replaced

(* After the last statement of an install.                                *)
LEMMA InstallEnds ==
  ASSUME NEW old, NEW rows, NEW w \in Operations, w.op = "install", w.next = 11,
         w.version # 0, \A c \in Columns : rows[c] = View(c, old, w)
  PROVE  /\ Whole(rows) /\ ServedBy(rows) = w.version
         /\ rows[Stamp] = "fresh" /\ rows["realtime_delays"] = NoRows
<1>1. /\ rows["stops"] = w.version /\ rows["service_dates"] = w.version
      /\ rows["departures"] = w.version /\ rows["realtime_delays"] = NoRows
      /\ rows["realtime_trip_cancellations"] = NoRows
      /\ rows["realtime_skipped_stops"] = NoRows /\ rows[Stamp] = "fresh"
  BY DEF View, InstallView, Replaced, Columns, Tables, ScheduleTables, RealtimeTables, Stamp
<1>2. w.version \in Nat /\ w.version # NoRows
  BY TransactionsAssumption DEF Operations
<1> QED
  BY <1>1, <1>2 DEF Whole, ServedBy, ScheduleTables, RealtimeTables

(* After the last statement of an observation.                            *)
LEMMA ObserveEnds ==
  ASSUME NEW old, NEW rows, NEW w \in Operations, w.op = "observe", w.next = 7,
         Whole(old), w.version = ServedBy(old), \A c \in Columns : rows[c] = View(c, old, w)
  PROVE  /\ Whole(rows) /\ ServedBy(rows) = ServedBy(old)
         /\ rows[Stamp] = old[Stamp] /\ rows["realtime_delays"] = ServedBy(old)
<1>1. /\ rows["stops"] = old["stops"] /\ rows["service_dates"] = old["service_dates"]
      /\ rows["departures"] = old["departures"] /\ rows["realtime_delays"] = w.version
      /\ rows["realtime_trip_cancellations"] = w.version
      /\ rows["realtime_skipped_stops"] = w.version /\ rows[Stamp] = old[Stamp]
  BY DEF View, ObserveView, Replaced, Columns, Tables, ScheduleTables, RealtimeTables, Stamp
<1> QED
  BY <1>1 DEF Whole, ServedBy, ScheduleTables, RealtimeTables

(* What an answer holds of each table is what its snapshot held.           *)
LEMMA AnswerOfSnapshot ==
  ASSUME NEW rows, NEW snapshot, \A k \in 1 .. 6 : rows[k] = snapshot[ReadOrder[k]],
         NEW table \in Tables
  PROVE  rows[CHOOSE k \in DOMAIN ReadOrder : ReadOrder[k] = table] = snapshot[table]
<1>1. \E k \in DOMAIN ReadOrder : ReadOrder[k] = table
  BY DEF ReadOrder, Tables, ScheduleTables, RealtimeTables
<1>2. DOMAIN ReadOrder = 1 .. 6
  BY DEF ReadOrder
<1> DEFINE k == CHOOSE k \in DOMAIN ReadOrder : ReadOrder[k] = table
<1>3. k \in 1 .. 6 /\ ReadOrder[k] = table
  BY <1>1, <1>2
<1> QED
  BY <1>3

-----------------------------------------------------------------------------
(* The invariant holds, action by action.                                  *)

(* A provider without rows serves nothing, whole.                         *)
LEMMA NothingIsRows == NoProvider \in Rows /\ Whole(NoProvider) /\ ServedBy(NoProvider) = 0
<1>1. NoProvider \in [Columns -> Value]
  BY DEF NoProvider, Columns, Value
<1>2. /\ DOMAIN NoProvider = Tables \cup {Stamp} /\ NoProvider[Stamp] = "noRow"
      /\ \A table \in Tables : NoProvider[table] = NoRows
  BY DEF NoProvider, Tables, ScheduleTables, RealtimeTables, Stamp
<1>3. "departures" \in Tables
  BY DEF Tables, ScheduleTables
<1> QED
  BY <1>1, <1>2, <1>3 DEF Rows, IsRows, Whole, ServedBy, Tables

(* The schedule served is a publication, or 0 for none.                   *)
LEMMA ServedIsVersion ==
  ASSUME NEW rows \in Rows
  PROVE  ServedBy(rows) \in 0 .. MaxVersion
BY TransactionsAssumption DEF Rows, IsRows, ServedBy, Tables, ScheduleTables

(* An empty database satisfies the invariant.                             *)
LEMMA InitInv == Init => IInv
<1> SUFFICES ASSUME Init PROVE IInv
  OBVIOUS
<1>1. TypeInv
  BY NothingIsRows, TransactionsAssumption DEF Init, TypeInv
<1>2. WriterInv
  BY DEF Init, WriterInv, Writing, Installing, Idle
<1>3. StoreInv
  <2> SUFFICES ASSUME NEW s \in Slugs
               PROVE  Whole(disk[s]) /\ ServedBy(disk[s]) <= published[s]
    BY DEF StoreInv
  <2>1. disk[s] = NoProvider /\ published[s] = 1
    BY DEF Init
  <2>2. Whole(disk[s]) /\ ServedBy(disk[s]) = 0
    BY <2>1, NothingIsRows, Zenon
  <2> QED
    BY <2>1, <2>2
<1>4. RequestInv
  BY DEF Init, RequestInv, Waiting
<1> QED
  BY <1>1, <1>2, <1>3, <1>4 DEF IInv

(* What is written is an operation.                                        *)
LEMMA WritersOperate ==
  ASSUME TypeInv, NEW t \in Threads
  PROVE  /\ Writing(t) <=> writer[t] \in Operations
         /\ Writing(t) => writer[t].slug \in Slugs /\ Target(t) \in Rows
                            /\ writer[t].version \in 0 .. MaxVersion /\ writer[t].next \in Nat
                            /\ writer[t].op \in {"install", "observe"}
         /\ ~Writing(t) => writer[t] = Idle
BY DEF TypeInv, Writing, Operations, Idle, Target

(* Requests do not mind a writer that serves no older schedule.            *)
LEMMA RequestsKept ==
  ASSUME TypeInv, RequestInv, request' = request,
         \A p \in Slugs : /\ ServedBy(disk[p]) \in 0 .. MaxVersion
                          /\ ServedBy(disk'[p]) \in 0 .. MaxVersion
                          /\ ServedBy(disk[p]) <= ServedBy(disk'[p])
  PROVE  RequestInv'
<1> SUFFICES ASSUME NEW r \in Requests
             PROVE  /\ request[r].state = "reading" => ReadingInv(r)'
                    /\ request[r].state = "answered" => AnswerInv(r)'
  BY DEF RequestInv
<1>1. CASE request[r].state = "reading"
  <2>1. request[r] \in Readings
    BY <1>1 DEF TypeInv, Waiting, Answers
  <2>2. request[r].slug \in Slugs /\ ServedBy(request[r].snapshot) \in 0 .. MaxVersion
    BY <2>1, ServedIsVersion DEF Readings
  <2>3. ReadingInv(r)
    BY <1>1 DEF RequestInv
  <2> QED
    BY <1>1, <2>2, <2>3 DEF ReadingInv
<1>2. CASE request[r].state = "answered"
  <2>1. request[r].slug \in Slugs
    BY <1>2 DEF TypeInv, Waiting, Readings, Answers
  <2>2. AnswerInv(r)
    BY <1>2 DEF RequestInv
  <2>3. AnswerRows(r)' = AnswerRows(r)
    BY DEF AnswerRows
  <2>4. Whole(AnswerRows(r))'
    BY <2>2, <2>3 DEF AnswerInv, Whole, ServedBy
  <2>5. ServedBy(AnswerRows(r))' = ServedBy(AnswerRows(r))
    BY <2>3 DEF ServedBy
  <2>6. ServedBy(disk[request[r].slug])' = ServedBy(disk'[request[r].slug])
    OBVIOUS
  <2>7. ServedBy(AnswerRows(r)) \in 0 .. ServedBy(disk'[request[r].slug])
    BY <2>1, <2>2 DEF AnswerInv
  <2> QED
    BY <1>2, <2>4, <2>5, <2>6, <2>7, Zenon DEF AnswerInv
<1> QED
  BY <1>1, <1>2

(* _ensure_provider writes the stamp only, and while nobody has the lock. *)
LEMMA EnsureProviderInv ==
  ASSUME IInv, NEW s \in Slugs, EnsureProvider(s)
  PROVE  IInv'
<1>1. /\ disk' \in [Slugs -> Rows]
      /\ \A p \in Slugs : /\ ServedBy(disk'[p]) = ServedBy(disk[p])
                          /\ Whole(disk[p]) => Whole(disk'[p])
                          /\ disk[p][Stamp] # "noRow" => disk'[p][Stamp] # "noRow"
  <2>1. disk \in [Slugs -> Rows]
    BY DEF IInv, TypeInv
  <2>2. ASSUME NEW rows \in Rows
        PROVE  LET new == [rows EXCEPT ![Stamp] = "never"]
               IN  /\ new \in Rows /\ ServedBy(new) = ServedBy(rows)
                   /\ Whole(rows) => Whole(new) /\ new[Stamp] = "never"
    BY DEF Rows, IsRows, Columns, Value, ServedBy, Whole, Tables, ScheduleTables,
           RealtimeTables, Stamp
  <2>3. disk' = [disk EXCEPT ![s] = [disk[s] EXCEPT ![Stamp] = "never"]]
    BY <2>1 DEF EnsureProvider
  <2>4. \A p \in Slugs : disk'[p] = IF p = s THEN [disk[s] EXCEPT ![Stamp] = "never"]
                                            ELSE disk[p]
    BY <2>1, <2>3
  <2>5. disk[s][Stamp] = "noRow"
    BY DEF EnsureProvider
  <2>6. disk' \in [Slugs -> Rows]
    BY <2>1, <2>2, <2>3
  <2>7. ASSUME NEW p \in Slugs
        PROVE  /\ ServedBy(disk'[p]) = ServedBy(disk[p])
               /\ Whole(disk[p]) => Whole(disk'[p])
               /\ disk[p][Stamp] # "noRow" => disk'[p][Stamp] # "noRow"
    <3>1. CASE p = s
      <4>1. disk[s] \in Rows
        BY <2>1
      <4> QED
        BY <3>1, <4>1, <2>2, <2>4, <2>5
    <3>2. CASE p # s
      BY <3>2, <2>4
    <3> QED
      BY <3>1, <3>2
  <2> QED
    BY <2>6, <2>7
<1>2. TypeInv'
  BY <1>1 DEF IInv, TypeInv, EnsureProvider
<1>3. WriterInv'
  <2>1. \A t \in Threads : Writing(t) => writer[t].next = 0
    BY TransactionsAssumption DEF IInv, WriterInv, EnsureProvider
  <2> QED
    BY <1>1, <2>1, WritersOperate DEF IInv, WriterInv, EnsureProvider, Writing, Installing, Target
<1>4. StoreInv'
  BY <1>1 DEF IInv, StoreInv, EnsureProvider
<1>5. RequestInv'
  <2>1. \A p \in Slugs : ServedBy(disk[p]) \in 0 .. MaxVersion
    BY ServedIsVersion DEF IInv, TypeInv
  <2>2. \A p \in Slugs : ServedBy(disk[p]) <= ServedBy(disk'[p])
    BY <1>1, <2>1
  <2>3. \A p \in Slugs : ServedBy(disk'[p]) \in 0 .. MaxVersion
    BY <1>1, <2>1
  <2> QED
    BY <2>1, <2>2, <2>3, RequestsKept DEF IInv, EnsureProvider
<1> QED
  BY <1>2, <1>3, <1>4, <1>5 DEF IInv


(* What writers do before they commit leaves the rest of the invariant.    *)
LEMMA CommittedKept ==
  ASSUME IInv, UNCHANGED <<disk, request, published>>
  PROVE  StoreInv' /\ RequestInv'
<1>1. StoreInv'
  BY DEF IInv, StoreInv, Whole, ServedBy
<1>2. \A p \in Slugs : /\ ServedBy(disk[p]) \in 0 .. MaxVersion
                       /\ ServedBy(disk'[p]) \in 0 .. MaxVersion
                       /\ ServedBy(disk[p]) <= ServedBy(disk'[p])
  BY ServedIsVersion DEF IInv, TypeInv
<1> QED
  BY <1>1, <1>2, RequestsKept DEF IInv

(* A new install is the only one of its provider and not an older one.    *)
LEMMA InstallRequestedInv ==
  ASSUME IInv, NEW t \in Threads, NEW s \in Slugs, NEW v \in 1 .. MaxVersion,
         InstallRequested(t, s, v)
  PROVE  IInv'
<1>1. Operation("install", s, v, 0) \in Operations
  BY TransactionsAssumption DEF Operation, Operations
<1>2. \A u \in Threads : writer'[u] = IF u = t THEN Operation("install", s, v, 0) ELSE writer[u]
  BY DEF IInv, TypeInv, InstallRequested
<1>3. TypeInv'
  BY <1>1 DEF IInv, TypeInv, InstallRequested
<1>4. WriterInv'
  <2>1. ASSUME NEW u \in Threads, u # t
        PROVE  writer'[u] = writer[u]
    BY <1>2, <2>1
  <2>2. /\ writer'[t].op = "install" /\ writer'[t].next = 0
        /\ writer'[t].slug = s /\ writer'[t].version = v
    BY <1>2 DEF Operation
  <2>3. /\ v \in 1 .. published[s] /\ ServedBy(disk[s]) <= v /\ disk[s][Stamp] # "noRow"
        /\ \A u \in Threads : Installing(u) => writer[u].slug # s
    <3>1. ServedBy(disk[s]) \in 0 .. MaxVersion
      BY ServedIsVersion DEF IInv, TypeInv
    <3> QED
      BY <3>1, TransactionsAssumption DEF InstallRequested, Installing, IInv, TypeInv
  <2>4. disk' = disk /\ lock' = lock /\ work' = work /\ published' = published
    BY DEF InstallRequested
  <2> QED
    BY <2>1, <2>2, <2>3, <2>4 DEF IInv, WriterInv, Writing, Installing, Target
<1>5. StoreInv' /\ RequestInv'
  BY CommittedKept DEF InstallRequested
<1> QED
  BY <1>3, <1>4, <1>5 DEF IInv

(* A new observation holds nothing yet.                                   *)
LEMMA ObserveRequestedInv ==
  ASSUME IInv, NEW t \in Threads, NEW s \in Slugs, ObserveRequested(t, s)
  PROVE  IInv'
<1>1. Operation("observe", s, 0, 0) \in Operations
  BY TransactionsAssumption DEF Operation, Operations
<1>2. \A u \in Threads : writer'[u] = IF u = t THEN Operation("observe", s, 0, 0) ELSE writer[u]
  BY DEF IInv, TypeInv, ObserveRequested
<1>3. TypeInv'
  BY <1>1 DEF IInv, TypeInv, ObserveRequested
<1>4. WriterInv'
  <2>1. \A u \in Threads : u # t => writer'[u] = writer[u]
    BY <1>2
  <2>2. writer'[t].op = "observe" /\ writer'[t].next = 0
    BY <1>2 DEF Operation
  <2>3. disk' = disk /\ lock' = lock /\ work' = work /\ published' = published
    BY DEF ObserveRequested
  <2> QED
    BY <2>1, <2>2, <2>3 DEF IInv, WriterInv, Writing, Installing, Target
<1>5. StoreInv' /\ RequestInv'
  BY CommittedKept DEF ObserveRequested
<1> QED
  BY <1>3, <1>4, <1>5 DEF IInv

(* The lock was free, so this transaction is the only open one, and its   *)
(* view is what is committed.                                             *)
LEMMA TransactionBeginsInv ==
  ASSUME IInv, NEW t \in Threads, TransactionBegins(t)
  PROVE  IInv'
<1> DEFINE w == [writer[t] EXCEPT !.next = 1,
                   !.version = IF writer[t].op = "observe" THEN Basis(t) ELSE writer[t].version]
<1>1. /\ writer[t] \in Operations /\ Target(t) \in Rows
      /\ ServedBy(Target(t)) \in 0 .. MaxVersion
  BY WritersOperate, ServedIsVersion DEF IInv, TransactionBegins
<1>2. /\ w \in Operations /\ w.next = 1 /\ w.op = writer[t].op /\ w.slug = writer[t].slug
      /\ w.op = "observe" => w.version = ServedBy(Target(t))
      /\ w.op # "observe" => w.version = writer[t].version
  BY <1>1 DEF Operations, Basis, Target
<1> HIDE DEF w
<1>3. \A u \in Threads : writer'[u] = IF u = t THEN w ELSE writer[u]
  BY DEF IInv, TypeInv, TransactionBegins, w
<1>4. \A u \in Threads : work'[u] = IF u = t THEN Target(t) ELSE work[u]
  BY DEF IInv, TypeInv, TransactionBegins, Target
<1>5. TypeInv'
  <2>1. writer' = [writer EXCEPT ![t] = w]
    BY DEF IInv, TypeInv, TransactionBegins, w
  <2>2. writer' \in [Threads -> {Idle} \cup Operations]
    BY <1>2, <2>1 DEF IInv, TypeInv
  <2>3. work' = [work EXCEPT ![t] = Target(t)]
    BY DEF TransactionBegins, Target
  <2>4. work' \in [Threads -> Rows]
    BY <1>1, <2>3 DEF IInv, TypeInv
  <2>5. /\ disk' \in [Slugs -> Rows] /\ lock' \in Threads \cup {Nobody}
        /\ request' \in [Requests -> {Waiting} \cup Readings \cup Answers]
        /\ published' \in [Slugs -> 1 .. MaxVersion]
    BY DEF IInv, TypeInv, TransactionBegins, Locks
  <2> QED
    BY <2>2, <2>3, <2>4, <2>5 DEF TypeInv
<1>6. WriterInv'
  <2>1. \A u \in Threads : u # t => writer'[u] = writer[u] /\ work'[u] = work[u]
    BY <1>3, <1>4
  <2>2. writer'[t] = w /\ work'[t] = Target(t)
    BY <1>3, <1>4
  <2>3. disk' = disk /\ lock' = t /\ published' = published
    BY DEF TransactionBegins, Locks
  <2>4. \A u \in Threads : Writing(u) => writer[u].next = 0
    BY TransactionsAssumption DEF IInv, WriterInv, TransactionBegins, Locks
  <2>5. 1 <= Count(w) + 1 /\ \A c \in Columns : Target(t)[c] = View(c, Target(t), w)
    BY <1>2, ViewBegins DEF Count
  <2>6. Writing(t)
    BY DEF TransactionBegins
  <2>7. Target(t)' = Target(t)
    BY <1>2, <2>2, <2>3 DEF Target
  <2>8. ASSUME NEW u \in Threads, Writing(u)', writer'[u].next # 0
        PROVE  /\ lock' = u /\ writer'[u].next <= Count(writer'[u]) + 1
               /\ \A c \in Columns : work'[u][c] = View(c, Target(u)', writer'[u])
               /\ writer'[u].op = "observe" => writer'[u].version = ServedBy(Target(u)')
    <3>1. u = t
      BY <2>1, <2>4, <2>8 DEF Writing
    <3> QED
      BY <1>2, <2>2, <2>3, <2>5, <2>7, <3>1
  <2>9. \A u \in Threads : /\ Installing(u)' <=> Installing(u)
                           /\ Writing(u)' => writer'[u].slug = writer[u].slug
                           /\ Installing(u) => writer'[u].version = writer[u].version
    BY <1>2, <2>1, <2>2, <2>6 DEF Installing, Writing
  <2>10. \A u \in Threads : Installing(u)' =>
           /\ writer'[u].version \in 1 .. published'[writer'[u].slug]
           /\ ServedBy(disk'[writer'[u].slug]) <= writer'[u].version
           /\ disk'[writer'[u].slug][Stamp] # "noRow"
    BY <2>3, <2>9 DEF IInv, WriterInv, Installing, Target
  <2>11. \A u, x \in Threads : Installing(u)' /\ Installing(x)'
                                  /\ writer'[u].slug = writer'[x].slug => u = x
    BY <2>9 DEF IInv, WriterInv, Installing
  <2> QED
    BY <2>8, <2>10, <2>11 DEF WriterInv, Target
<1>7. StoreInv' /\ RequestInv'
  BY CommittedKept DEF TransactionBegins
<1> QED
  BY <1>5, <1>6, <1>7 DEF IInv


(* A statement turns the view of its thread into the next view.           *)
LEMMA StatementRunsInv ==
  ASSUME IInv, NEW t \in Threads, StatementRuns(t)
  PROVE  IInv'
<1> DEFINE st == Statements(writer[t])[writer[t].next]
           w == [writer[t] EXCEPT !.next = writer[t].next + 1]
           rows == [work[t] EXCEPT ![st.column] = st.rows]
<1>1. /\ Writing(t) /\ writer[t] \in Operations /\ writer[t].next \in Nat
      /\ work[t] \in Rows /\ Target(t) \in Rows
  BY WritersOperate DEF IInv, TypeInv, StatementRuns
<1>2. /\ writer[t].next # 0 /\ writer[t].next <= Len(Statements(writer[t]))
      /\ writer[t].next \in 1 .. Count(writer[t])
  <2>1. Len(Statements(writer[t])) = Count(writer[t])
    BY StatementCount
  <2> QED
    BY <1>1, <2>1 DEF StatementRuns
<1>3. /\ st.column \in Columns
      /\ st.column = Stamp => st.rows = "fresh"
      /\ st.column # Stamp => st.rows \in {NoRows} \cup (0 .. MaxVersion)
      /\ \A c \in Columns : (IF c = st.column THEN st.rows ELSE View(c, Target(t), writer[t]))
                              = View(c, Target(t), w)
  <2> DEFINE old == Target(t)
             was == writer[t]
  <2>1. was \in Operations /\ was.next \in 1 .. Count(was)
    BY <1>1, <1>2
  <2> HIDE DEF st, w, was, old
  <2>2. LET next == Statements(was)[was.next]
        IN  /\ next.column \in Columns
            /\ next.column = Stamp => next.rows = "fresh"
            /\ next.column # Stamp => next.rows \in {NoRows} \cup (0 .. MaxVersion)
            /\ \A c \in Columns : (IF c = next.column THEN next.rows ELSE View(c, old, was))
                                    = View(c, old, [was EXCEPT !.next = was.next + 1])
    BY <2>1, StatementStep
  <2>3. st = Statements(was)[was.next] /\ w = [was EXCEPT !.next = was.next + 1]
    BY DEF st, w, was
  <2>4. Target(t) = old /\ writer[t] = was
    BY DEF old, was
  <2> QED
    BY <2>2, <2>3, <2>4, Zenon
<1>4. /\ w \in Operations /\ w.next = writer[t].next + 1 /\ w.op = writer[t].op
      /\ w.slug = writer[t].slug /\ w.version = writer[t].version
  BY <1>1 DEF Operations
<1>5. /\ writer' = [writer EXCEPT ![t] = w]
      /\ \A u \in Threads : writer'[u] = IF u = t THEN w ELSE writer[u]
  BY DEF IInv, TypeInv, StatementRuns
<1>6. /\ work' = [work EXCEPT ![t] = rows]
      /\ \A u \in Threads : work'[u] = IF u = t THEN rows ELSE work[u]
  BY DEF IInv, TypeInv, StatementRuns
<1>7. disk' = disk /\ lock' = lock /\ published' = published /\ request' = request
  BY DEF StatementRuns, StaysUncommitted
<1> HIDE DEF st, w
<1>8. rows \in Rows /\ \A c \in Columns : rows[c] = IF c = st.column THEN st.rows ELSE work[t][c]
  <2>1. rows \in [Columns -> Value]
    BY <1>1, <1>3 DEF Rows, Value
  <2>2. \A c \in Columns : rows[c] = IF c = st.column THEN st.rows ELSE work[t][c]
    BY <1>1 DEF Rows
  <2>3. \A c \in Columns : IF c = Stamp THEN work[t][c] \in {"noRow", "never", "fresh"}
                           ELSE work[t][c] \in {NoRows} \cup (0 .. MaxVersion)
    BY <1>1 DEF Rows, IsRows, Columns
  <2>4. \A c \in Columns : IF c = Stamp THEN rows[c] \in {"noRow", "never", "fresh"}
                           ELSE rows[c] \in {NoRows} \cup (0 .. MaxVersion)
    BY <1>3, <2>2, <2>3
  <2> HIDE DEF rows
  <2>5. Stamp \notin Tables
    BY DEF Stamp, Tables, ScheduleTables, RealtimeTables
  <2>6. IsRows(rows)
    BY <2>1, <2>4, <2>5 DEF IsRows, Columns
  <2> QED
    BY <2>1, <2>2, <2>6 DEF Rows
<1> HIDE DEF rows
<1>9. TypeInv'
  BY <1>4, <1>5, <1>6, <1>7, <1>8 DEF IInv, TypeInv
<1>10. WriterInv'
  <2>1. \A u \in Threads : u # t => writer'[u] = writer[u] /\ work'[u] = work[u]
    BY <1>5, <1>6
  <2>2. writer'[t] = w /\ work'[t] = rows
    BY <1>5, <1>6
  <2>3. /\ lock = t
        /\ \A c \in Columns : work[t][c] = View(c, Target(t), writer[t])
        /\ writer[t].op = "observe" => writer[t].version = ServedBy(Target(t))
    BY <1>1, <1>2 DEF IInv, WriterInv
  <2>4. \A u \in Threads : Writing(u) /\ writer[u].next # 0 => u = t
    BY <2>3 DEF IInv, WriterInv
  <2>5. \A c \in Columns : rows[c] = View(c, Target(t), w)
    BY <1>3, <1>8, <2>3
  <2>6. Target(t)' = Target(t)
    BY <1>4, <1>7, <2>2 DEF Target
  <2>7. w.next <= Count(w) + 1
    BY <1>1, <1>2, <1>4 DEF Count
  <2>8. ASSUME NEW u \in Threads, Writing(u)', writer'[u].next # 0
        PROVE  /\ lock' = u /\ writer'[u].next <= Count(writer'[u]) + 1
               /\ \A c \in Columns : work'[u][c] = View(c, Target(u)', writer'[u])
               /\ writer'[u].op = "observe" => writer'[u].version = ServedBy(Target(u)')
    <3>1. u = t
      BY <2>1, <2>4, <2>8 DEF Writing
    <3> QED
      BY <1>4, <1>7, <2>2, <2>3, <2>5, <2>6, <2>7, <3>1
  <2>9. \A u \in Threads : /\ Installing(u)' <=> Installing(u)
                           /\ Writing(u)' => writer'[u].slug = writer[u].slug
                           /\ Installing(u) => writer'[u].version = writer[u].version
    BY <1>1, <1>4, <2>1, <2>2 DEF Installing, Writing
  <2>10. \A u \in Threads : Installing(u)' =>
           /\ writer'[u].version \in 1 .. published'[writer'[u].slug]
           /\ ServedBy(disk'[writer'[u].slug]) <= writer'[u].version
           /\ disk'[writer'[u].slug][Stamp] # "noRow"
    BY <1>7, <2>9 DEF IInv, WriterInv, Installing, Target
  <2>11. \A u, x \in Threads : Installing(u)' /\ Installing(x)'
                                  /\ writer'[u].slug = writer'[x].slug => u = x
    BY <2>9 DEF IInv, WriterInv, Installing
  <2> QED
    BY <2>8, <2>10, <2>11 DEF WriterInv, Target
<1>11. StoreInv' /\ RequestInv'
  BY <1>7, CommittedKept
<1> QED
  BY <1>9, <1>10, <1>11 DEF IInv

(* What ends a transaction leaves every other thread as it is.             *)
LEMMA OthersKept ==
  ASSUME IInv, NEW t \in Threads, TransactionEnds(t)
  PROVE  /\ writer' \in [Threads -> {Idle} \cup Operations] /\ work' \in [Threads -> Rows]
         /\ \A u \in Threads : u # t => writer'[u] = writer[u]
         /\ ~Writing(t)' /\ lock' = Nobody
<1>1. writer' = [writer EXCEPT ![t] = Idle] /\ work' = [work EXCEPT ![t] = NoProvider]
  BY DEF TransactionEnds
<1>2. writer' \in [Threads -> {Idle} \cup Operations] /\ work' \in [Threads -> Rows]
  BY <1>1, NothingIsRows DEF IInv, TypeInv
<1>3. writer'[t] = Idle /\ \A u \in Threads : u # t => writer'[u] = writer[u]
  BY <1>1 DEF IInv, TypeInv
<1> QED
  BY <1>2, <1>3 DEF TransactionEnds, Writing, Idle

(* A rollback forgets the view.                                           *)
LEMMA TransactionRollsBackInv ==
  ASSUME IInv, NEW t \in Threads, TransactionRollsBack(t)
  PROVE  IInv'
<1>1. /\ writer' \in [Threads -> {Idle} \cup Operations] /\ work' \in [Threads -> Rows]
      /\ \A u \in Threads : u # t => writer'[u] = writer[u]
      /\ ~Writing(t)' /\ lock' = Nobody
      /\ UNCHANGED <<disk, request, published>>
  BY OthersKept DEF TransactionRollsBack
<1>2. \A u \in Threads : Writing(u) /\ writer[u].next # 0 => u = t
  BY DEF IInv, WriterInv, TransactionRollsBack
<1>3. TypeInv'
  BY <1>1 DEF IInv, TypeInv
<1>4. WriterInv'
  BY <1>1, <1>2 DEF IInv, WriterInv, Writing, Installing, Target
<1>5. StoreInv' /\ RequestInv'
  BY <1>1, CommittedKept
<1> QED
  BY <1>3, <1>4, <1>5 DEF IInv

(* What a commit publishes.                                                *)
LEMMA CommitPublishes ==
  ASSUME IInv, NEW t \in Threads, TransactionCommits(t)
  PROVE  /\ Writing(t) /\ writer[t] \in Operations /\ lock = t
         /\ work[t] \in Rows /\ Whole(work[t])
         /\ writer[t].op = "install" =>
              /\ ServedBy(work[t]) = writer[t].version /\ work[t][Stamp] = "fresh"
              /\ work[t]["realtime_delays"] = NoRows
         /\ writer[t].op # "install" =>
              /\ ServedBy(work[t]) = ServedBy(Target(t))
              /\ work[t][Stamp] = Target(t)[Stamp]
              /\ work[t]["realtime_delays"] = ServedBy(Target(t))
<1>1. /\ Writing(t) /\ writer[t] \in Operations /\ writer[t].op \in {"install", "observe"}
      /\ work[t] \in Rows /\ Target(t) \in Rows /\ writer[t].slug \in Slugs
  BY WritersOperate DEF IInv, TypeInv, TransactionCommits
<1>2. writer[t].next = Count(writer[t]) + 1 /\ Count(writer[t]) \in {6, 10}
  <2>1. Len(Statements(writer[t])) = Count(writer[t]) /\ Count(writer[t]) \in {6, 10}
    BY StatementCount
  <2> QED
    BY <2>1 DEF TransactionCommits
<1>3. /\ lock = t
      /\ \A c \in Columns : work[t][c] = View(c, Target(t), writer[t])
      /\ writer[t].op = "observe" => writer[t].version = ServedBy(Target(t))
  BY <1>1, <1>2 DEF IInv, WriterInv
<1>4. Whole(Target(t))
  BY <1>1 DEF IInv, StoreInv, Target
<1>5. CASE writer[t].op = "install"
  <2>1. writer[t].next = 11 /\ writer[t].version # 0
    BY <1>1, <1>2, <1>5 DEF Count, IInv, WriterInv, Installing
  <2> QED
    BY <1>1, <1>3, <1>5, <2>1, InstallEnds
<1>6. CASE writer[t].op = "observe"
  <2>1. writer[t].next = 7
    BY <1>2, <1>6 DEF Count
  <2> QED
    BY <1>1, <1>3, <1>4, <1>6, <2>1, ObserveEnds
<1> QED
  BY <1>1, <1>5, <1>6

(* A commit publishes one whole publication, not older than what it       *)
(* replaces; an observation leaves what other installs rely on.           *)
LEMMA TransactionCommitsInv ==
  ASSUME IInv, NEW t \in Threads, TransactionCommits(t)
  PROVE  IInv'
<1> DEFINE s == writer[t].slug
<1>1. /\ writer' \in [Threads -> {Idle} \cup Operations] /\ work' \in [Threads -> Rows]
      /\ \A u \in Threads : u # t => writer'[u] = writer[u]
      /\ ~Writing(t)' /\ lock' = Nobody
      /\ UNCHANGED <<request, published>>
  BY OthersKept DEF TransactionCommits
<1>2. /\ s \in Slugs /\ disk' = [disk EXCEPT ![s] = work[t]]
      /\ \A p \in Slugs : disk'[p] = IF p = s THEN work[t] ELSE disk[p]
  BY WritersOperate DEF IInv, TypeInv, TransactionCommits
<1>3. /\ work[t] \in Rows /\ Whole(work[t]) /\ lock = t
      /\ ServedBy(work[t]) \in 0 .. MaxVersion
  BY CommitPublishes, ServedIsVersion
<1>4. /\ \A p \in Slugs : ServedBy(disk[p]) \in 0 .. MaxVersion /\ published[p] \in 1 .. MaxVersion
      /\ MaxVersion \in Nat
  BY ServedIsVersion, TransactionsAssumption DEF IInv, TypeInv
<1>5. /\ ServedBy(disk[s]) <= ServedBy(work[t]) /\ ServedBy(work[t]) <= published[s]
      /\ ~Installing(t) => /\ ServedBy(work[t]) = ServedBy(disk[s])
                           /\ work[t][Stamp] = disk[s][Stamp]
  <2>1. CASE Installing(t)
    <3>1. ServedBy(work[t]) = writer[t].version
      BY <2>1, CommitPublishes DEF Installing
    <3> QED
      BY <1>2, <1>4, <2>1, <3>1 DEF IInv, WriterInv, Target
  <2>2. CASE ~Installing(t)
    <3>1. /\ ServedBy(work[t]) = ServedBy(disk[s])
          /\ work[t][Stamp] = disk[s][Stamp]
      BY <2>2, CommitPublishes DEF Installing, Target
    <3>2. ServedBy(disk[s]) <= published[s]
      BY <1>2 DEF IInv, StoreInv
    <3> QED
      BY <1>2, <1>4, <2>2, <3>1, <3>2
  <2> QED
    BY <2>1, <2>2
<1> HIDE DEF s
<1>6. TypeInv'
  BY <1>1, <1>2, <1>3 DEF IInv, TypeInv
<1>7. WriterInv'
  <2>1. \A u \in Threads : Writing(u) /\ writer[u].next # 0 => u = t
    BY <1>3 DEF IInv, WriterInv
  <2>2. \A u \in Threads : Installing(u)' => u # t /\ Installing(u)
    BY <1>1 DEF Installing, Writing
  <2>3. ASSUME NEW u \in Threads, Installing(u)'
        PROVE  /\ writer'[u].version \in 1 .. published'[writer'[u].slug]
               /\ ServedBy(disk'[writer'[u].slug]) <= writer'[u].version
               /\ disk'[writer'[u].slug][Stamp] # "noRow"
    <3>1. /\ u # t /\ Installing(u) /\ writer'[u] = writer[u]
          /\ writer[u].slug \in Slugs
      BY <1>1, <2>2, <2>3, WritersOperate DEF Installing, IInv
    <3>2. /\ writer[u].version \in 1 .. published[writer[u].slug]
          /\ ServedBy(disk[writer[u].slug]) <= writer[u].version
          /\ disk[writer[u].slug][Stamp] # "noRow"
      BY <3>1 DEF IInv, WriterInv, Target
    <3>3. CASE writer[u].slug = s
      <4>1. ~Installing(t)
        BY <3>1, <3>3 DEF IInv, WriterInv, s
      <4> QED
        BY <1>1, <1>2, <1>5, <3>1, <3>2, <3>3, <4>1
    <3>4. CASE writer[u].slug # s
      BY <1>1, <1>2, <3>1, <3>2, <3>4
    <3> QED
      BY <3>3, <3>4
  <2>4. \A u, x \in Threads : Installing(u)' /\ Installing(x)'
                                /\ writer'[u].slug = writer'[x].slug => u = x
    BY <1>1, <2>2 DEF IInv, WriterInv
  <2>5. \A u \in Threads : Writing(u)' => writer'[u].next = 0
    BY <1>1, <2>1 DEF Writing
  <2> QED
    BY <2>3, <2>4, <2>5 DEF WriterInv, Target
<1>8. StoreInv'
  <2> SUFFICES ASSUME NEW p \in Slugs
               PROVE  Whole(disk'[p]) /\ ServedBy(disk'[p]) <= published[p]
    BY <1>1 DEF StoreInv
  <2>1. CASE p = s
    BY <1>2, <1>3, <1>5, <2>1
  <2>2. CASE p # s
    BY <1>2, <2>2 DEF IInv, StoreInv
  <2> QED
    BY <2>1, <2>2
<1>9. RequestInv'
  <2>1. ASSUME NEW p \in Slugs
        PROVE  /\ ServedBy(disk'[p]) \in 0 .. MaxVersion
               /\ ServedBy(disk[p]) <= ServedBy(disk'[p])
    <3>1. CASE p = s
      BY <1>2, <1>3, <1>5, <3>1
    <3>2. CASE p # s
      BY <1>2, <1>4, <3>2
    <3> QED
      BY <3>1, <3>2
  <2> QED
    BY <1>1, <1>4, <2>1, RequestsKept DEF IInv
<1> QED
  BY <1>6, <1>7, <1>8, <1>9 DEF IInv


(* A request that takes a step leaves the rest of the invariant.           *)
LEMMA WritersKept ==
  ASSUME IInv, UNCHANGED <<disk, lock, writer, work, published>>
  PROVE  WriterInv' /\ StoreInv'
BY DEF IInv, WriterInv, StoreInv, Writing, Installing, Target, Whole, ServedBy

(* It is enough to look at the request that took the step.                 *)
LEMMA OneRequest ==
  ASSUME IInv, NEW r \in Requests, NEW q, request' = [request EXCEPT ![r] = q],
         UNCHANGED disk,
         q.state = "reading" => ReadingInv(r)',
         q.state = "answered" => AnswerInv(r)'
  PROVE  RequestInv'
<1>1. \A x \in Requests : request'[x] = IF x = r THEN q ELSE request[x]
  BY DEF IInv, TypeInv
<1> SUFFICES ASSUME NEW x \in Requests, x # r
             PROVE  /\ request[x].state = "reading" => ReadingInv(x)'
                    /\ request[x].state = "answered" => AnswerInv(x)'
  BY <1>1 DEF RequestInv
<1>2. request'[x] = request[x] /\ disk' = disk
  BY <1>1
<1>3. CASE request[x].state = "reading"
  BY <1>2, <1>3 DEF IInv, RequestInv, ReadingInv, Whole, ServedBy
<1>4. CASE request[x].state = "answered"
  <2>1. AnswerRows(x)' = AnswerRows(x)
    BY <1>2 DEF AnswerRows
  <2>2. AnswerInv(x)
    BY <1>4 DEF IInv, RequestInv
  <2>3. Whole(AnswerRows(x))' /\ ServedBy(AnswerRows(x))' = ServedBy(AnswerRows(x))
    BY <2>1, <2>2 DEF AnswerInv, Whole, ServedBy
  <2>4. ServedBy(disk[request[x].slug])' = ServedBy(disk[request[x].slug])
    BY <1>2 DEF ServedBy
  <2> QED
    BY <1>4, <2>2, <2>3, <2>4 DEF AnswerInv
<1> QED
  BY <1>3, <1>4

(* The snapshot of a request is what is committed.                        *)
LEMMA RequestBeginsInv ==
  ASSUME IInv, NEW r \in Requests, NEW s \in Slugs, RequestBegins(r, s)
  PROVE  IInv'
<1> DEFINE q == [state |-> "reading", slug |-> s, snapshot |-> disk[s], rows |-> <<>>]
<1>1. /\ request' = [request EXCEPT ![r] = q] /\ request'[r] = q
      /\ UNCHANGED <<disk, lock, writer, work, published>>
  BY DEF IInv, TypeInv, RequestBegins
<1>2. disk[s] \in Rows /\ Whole(disk[s]) /\ ServedBy(disk[s]) \in 0 .. MaxVersion
  BY ServedIsVersion DEF IInv, TypeInv, StoreInv
<1>3. TypeInv'
  <2>1. q \in Readings
    BY <1>2 DEF Readings
  <2> QED
    BY <1>1, <2>1 DEF IInv, TypeInv
<1>4. ReadingInv(r)'
  <2>1. Len(<<>>) = 0
    OBVIOUS
  <2> QED
    BY <1>1, <1>2, <2>1 DEF ReadingInv, Whole, ServedBy
<1>5. RequestInv'
  BY <1>1, <1>4, OneRequest
<1> QED
  BY <1>1, <1>3, <1>5, WritersKept DEF IInv

(* A request reads on in its snapshot.                                    *)
LEMMA RequestReadsInv ==
  ASSUME IInv, NEW r \in Requests, RequestReads(r)
  PROVE  IInv'
<1> DEFINE old == request[r]
           read == old.snapshot[ReadOrder[Len(old.rows) + 1]]
           q == [old EXCEPT !.rows = Append(old.rows, read)]
<1>1. old \in Readings /\ ReadingInv(r) /\ Len(old.rows) < 6 /\ Len(old.rows) \in Nat
  <2>1. Len(ReadOrder) = 6
    BY DEF ReadOrder
  <2> QED
    BY <2>1 DEF IInv, TypeInv, RequestInv, RequestReads, Waiting, Answers, Readings
<1>2. /\ request' = [request EXCEPT ![r] = q] /\ request'[r] = q
      /\ UNCHANGED <<disk, lock, writer, work, published>>
  BY DEF IInv, TypeInv, RequestReads, Sees
<1>3. ReadOrder[Len(old.rows) + 1] \in Columns
  <2>1. Len(old.rows) + 1 \in 1 .. 6 /\ \A k \in 1 .. 6 : ReadOrder[k] \in Columns
    BY <1>1 DEF ReadOrder, Columns, Tables, ScheduleTables, RealtimeTables
  <2> QED
    BY <2>1
<1>4. read \in Value
  BY <1>1, <1>3 DEF Readings, Rows
<1> HIDE DEF read
<1>5. /\ q \in Readings /\ q.slug = old.slug /\ q.snapshot = old.snapshot
      /\ q.rows = Append(old.rows, read) /\ q.state = "reading"
  <2> HIDE DEF old
  <2>1. old.rows \in Seq(Value)
    BY <1>1 DEF Readings
  <2>2. Append(old.rows, read) \in Seq(Value)
    BY <1>4, <2>1, AppendProperties
  <2> DEFINE new == Append(old.rows, read)
  <2>3. q = [old EXCEPT !.rows = new] /\ new \in Seq(Value)
    BY <2>2
  <2> HIDE DEF q, new
  <2>4. /\ q \in Readings /\ q.slug = old.slug /\ q.snapshot = old.snapshot
        /\ q.rows = new /\ q.state = "reading"
    BY <1>1, <2>3 DEF Readings
  <2> QED
    BY <2>4 DEF new
<1>6. /\ Len(q.rows) = Len(old.rows) + 1
      /\ \A k \in 1 .. Len(q.rows) : q.rows[k] = q.snapshot[ReadOrder[k]]
  <2>1. old.rows \in Seq(Value)
    BY <1>1 DEF Readings
  <2>2. /\ Len(Append(old.rows, read)) = Len(old.rows) + 1
        /\ \A k \in 1 .. Len(old.rows) : Append(old.rows, read)[k] = old.rows[k]
        /\ Append(old.rows, read)[Len(old.rows) + 1] = read
    BY <1>4, <2>1, AppendProperties
  <2>3. \A k \in 1 .. Len(old.rows) : old.rows[k] = old.snapshot[ReadOrder[k]]
    BY <1>1 DEF ReadingInv
  <2>4. read = old.snapshot[ReadOrder[Len(old.rows) + 1]]
    BY DEF read
  <2> HIDE DEF q, old
  <2>5. Len(q.rows) = Len(old.rows) + 1
    BY <1>5, <2>2
  <2>6. ASSUME NEW k \in 1 .. Len(q.rows)
        PROVE  q.rows[k] = old.snapshot[ReadOrder[k]]
    <3>1. CASE k = Len(old.rows) + 1
      BY <1>5, <2>2, <2>4, <3>1
    <3>2. CASE k # Len(old.rows) + 1
      <4>1. k \in 1 .. Len(old.rows)
        BY <1>1, <2>5, <3>2
      <4> QED
        BY <1>5, <2>2, <2>3, <4>1
    <3> QED
      BY <3>1, <3>2
  <2> QED
    BY <1>5, <2>5, <2>6
<1> HIDE DEF q
<1>7. ReadingInv(r)'
  <2>1. Whole(old.snapshot) /\ ServedBy(old.snapshot) <= ServedBy(disk[old.slug])
    BY <1>1 DEF ReadingInv
  <2>2. Len(q.rows) <= 6
    BY <1>1, <1>6
  <2>3. request'[r].snapshot = old.snapshot /\ request'[r].slug = old.slug
    BY <1>2, <1>5
  <2>4. Whole(request'[r].snapshot) /\ ServedBy(request'[r].snapshot) <= ServedBy(disk[request'[r].slug])
    BY <2>1, <2>3
  <2> HIDE DEF old
  <2> QED
    BY <1>2, <1>6, <2>2, <2>4 DEF ReadingInv
<1>8. TypeInv' /\ RequestInv'
  BY <1>2, <1>5, <1>7, OneRequest DEF IInv, TypeInv
<1> QED
  BY <1>2, <1>8, WritersKept DEF IInv

(* What a request answers is its snapshot, table by table.                *)
LEMMA RequestAnswersInv ==
  ASSUME IInv, NEW r \in Requests, RequestAnswers(r)
  PROVE  IInv'
<1> DEFINE old == request[r]
           q == [state |-> "answered", slug |-> old.slug, rows |-> old.rows]
<1>1. old \in Readings /\ ReadingInv(r) /\ Len(old.rows) = 6
  <2>1. Len(ReadOrder) = 6
    BY DEF ReadOrder
  <2> QED
    BY <2>1 DEF IInv, TypeInv, RequestInv, RequestAnswers, Waiting, Answers, Readings
<1>2. /\ request' = [request EXCEPT ![r] = q] /\ request'[r] = q
      /\ UNCHANGED <<disk, lock, writer, work, published>>
  BY DEF IInv, TypeInv, RequestAnswers
<1>3. q \in Answers /\ q.state = "answered" /\ old.slug \in Slugs /\ old.snapshot \in Rows
  BY <1>1 DEF Readings, Answers
<1>4. \A table \in Tables : AnswerRows(r)'[table] = old.snapshot[table]
  <2>1. \A k \in 1 .. 6 : old.rows[k] = old.snapshot[ReadOrder[k]]
    BY <1>1 DEF ReadingInv
  <2>2. ASSUME NEW table \in Tables
        PROVE  old.rows[CHOOSE k \in DOMAIN ReadOrder : ReadOrder[k] = table] = old.snapshot[table]
    <3> DEFINE rows == old.rows
               snapshot == old.snapshot
    <3>1. \A k \in 1 .. 6 : rows[k] = snapshot[ReadOrder[k]]
      BY <2>1
    <3> HIDE DEF rows, snapshot
    <3>2. rows[CHOOSE k \in DOMAIN ReadOrder : ReadOrder[k] = table] = snapshot[table]
      BY <3>1, AnswerOfSnapshot
    <3> QED
      BY <3>2 DEF rows, snapshot
  <2> QED
    BY <1>2, <2>2 DEF AnswerRows
<1>5. AnswerInv(r)'
  <2>1. /\ Whole(old.snapshot) /\ ServedBy(old.snapshot) \in 0 .. MaxVersion
        /\ ServedBy(old.snapshot) <= ServedBy(disk[old.slug])
        /\ ServedBy(disk[old.slug]) \in 0 .. MaxVersion
    BY <1>1, <1>3, ServedIsVersion DEF ReadingInv, IInv, TypeInv
  <2>2. Whole(AnswerRows(r)') /\ ServedBy(AnswerRows(r)') = ServedBy(old.snapshot)
    BY <1>4, <2>1 DEF Whole, ServedBy, Tables, ScheduleTables, RealtimeTables
  <2>3. request'[r].slug = old.slug /\ disk' = disk
    BY <1>2
  <2>4. ServedBy(AnswerRows(r)') \in 0 .. ServedBy(disk'[request'[r].slug])
    BY <2>1, <2>2, <2>3
  <2> QED
    BY <2>2, <2>4 DEF AnswerInv
<1>6. TypeInv' /\ RequestInv'
  BY <1>2, <1>3, <1>5, OneRequest DEF IInv, TypeInv
<1> QED
  BY <1>2, <1>6, WritersKept DEF IInv

(* A publication makes no schedule newer than the newest.                 *)
LEMMA PublishInv ==
  ASSUME IInv, NEW s \in Slugs, Publish(s)
  PROVE  IInv'
<1>1. /\ UNCHANGED <<disk, lock, writer, work, request>>
      /\ published' \in [Slugs -> 1 .. MaxVersion]
      /\ \A p \in Slugs : published[p] <= published'[p]
  BY TransactionsAssumption DEF IInv, TypeInv, Publish
<1>2. /\ \A p \in Slugs : ServedBy(disk[p]) \in 0 .. MaxVersion
      /\ published \in [Slugs -> 1 .. MaxVersion]
  BY ServedIsVersion DEF IInv, TypeInv
<1>3. TypeInv'
  BY <1>1 DEF IInv, TypeInv
<1>4. WriterInv'
  <2>1. \A t \in Threads : Installing(t) => /\ writer[t].slug \in Slugs
                                           /\ writer[t].version \in 1 .. published'[writer[t].slug]
    BY <1>1, <1>2, WritersOperate, TransactionsAssumption DEF IInv, WriterInv, Installing
  <2> QED
    BY <1>1, <2>1 DEF IInv, WriterInv, Writing, Installing, Target, ServedBy
<1>5. StoreInv'
  <2>1. \A p \in Slugs : Whole(disk[p]) /\ ServedBy(disk[p]) <= published'[p]
    BY <1>1, <1>2, TransactionsAssumption DEF IInv, StoreInv
  <2> QED
    BY <1>1, <2>1 DEF StoreInv, Whole, ServedBy
<1>6. RequestInv'
  BY <1>1, <1>2, RequestsKept DEF IInv
<1> QED
  BY <1>3, <1>4, <1>5, <1>6 DEF IInv

(* A kill leaves no writer, no request and what was committed.            *)
LEMMA CrashInv == IInv /\ Crash => IInv'
<1> SUFFICES ASSUME IInv, Crash PROVE IInv'
  OBVIOUS
<1>1. TypeInv'
  BY NothingIsRows DEF IInv, TypeInv, Crash
<1>2. WriterInv'
  BY DEF WriterInv, Crash, Writing, Installing, Idle
<1>3. StoreInv'
  BY DEF IInv, StoreInv, Crash, Whole, ServedBy
<1>4. RequestInv'
  BY DEF RequestInv, Crash, Waiting
<1> QED
  BY <1>1, <1>2, <1>3, <1>4 DEF IInv

(* Nothing changes when nothing happens.                                  *)
LEMMA StutterInv == IInv /\ UNCHANGED vars => IInv'
<1> SUFFICES ASSUME IInv, UNCHANGED vars PROVE IInv'
  OBVIOUS
<1>1. UNCHANGED <<disk, lock, writer, work, request, published>>
  BY DEF vars
<1>2. TypeInv'
  BY <1>1 DEF IInv, TypeInv
<1> QED
  BY <1>1, <1>2, WritersKept, CommittedKept DEF IInv


-----------------------------------------------------------------------------
(* Every reachable state satisfies the inductive invariant.                *)
THEOREM Invariance == Spec => []IInv
<1>1. IInv /\ [Next]_vars => IInv'
  <2> SUFFICES ASSUME IInv, [Next]_vars PROVE IInv'
    OBVIOUS
  <2>1. CASE \E t \in Threads : WriterStep(t)
    <3>1. PICK t \in Threads : WriterStep(t)
      BY <2>1
    <3> QED
      BY <3>1, InstallRequestedInv, ObserveRequestedInv, TransactionBeginsInv,
         StatementRunsInv, TransactionCommitsInv, TransactionRollsBackInv DEF WriterStep
  <2>2. CASE \E r \in Requests : RequestStep(r)
    BY <2>2, RequestBeginsInv, RequestReadsInv, RequestAnswersInv DEF RequestStep
  <2>3. CASE \E s \in Slugs : EnsureProvider(s) \/ Publish(s)
    BY <2>3, EnsureProviderInv, PublishInv
  <2>4. CASE Crash
    BY <2>4, CrashInv
  <2>5. CASE UNCHANGED vars
    BY <2>5, StutterInv
  <2> QED
    BY <2>1, <2>2, <2>3, <2>4, <2>5 DEF Next
<1> QED
  BY <1>1, InitInv, PTL DEF Spec

(* Committed and uncommitted rows are always rows of one table layout, and *)
(* no transaction runs past its last statement.                            *)
THEOREM TypeCorrect == Spec => []TypeOK
<1>1. IInv => TypeOK
  <2> SUFFICES ASSUME IInv PROVE TypeOK
    OBVIOUS
  <2>1. (\A s \in Slugs : IsRows(disk[s])) /\ (\A t \in Threads : IsRows(work[t]))
    BY DEF IInv, TypeInv, Rows
  <2>2. lock \in Threads \cup {Nobody} /\ published \in [Slugs -> 1 .. MaxVersion]
    BY DEF IInv, TypeInv
  <2>3. ASSUME NEW t \in Threads, Writing(t)
        PROVE  /\ writer[t].slug \in Slugs /\ writer[t].version \in 0 .. MaxVersion
               /\ writer[t].next \in 0 .. Len(Statements(writer[t])) + 1
    <3>1. /\ writer[t].slug \in Slugs /\ writer[t].version \in 0 .. MaxVersion
          /\ writer[t].next \in Nat
      BY <2>3, WritersOperate DEF IInv
    <3>2. Len(Statements(writer[t])) = Count(writer[t]) /\ Count(writer[t]) \in {6, 10}
      BY StatementCount
    <3>3. writer[t].next <= Count(writer[t]) + 1
      BY <2>3, <3>1, <3>2 DEF IInv, WriterInv
    <3> QED
      BY <3>1, <3>2, <3>3
  <2> QED
    BY <2>1, <2>2, <2>3 DEF TypeOK
<1> QED
  BY <1>1, Invariance, PTL

(* Whatever statement raises, whichever thread waits for the lock and      *)
(* whenever the process is killed, what is committed of each provider is   *)
(* one publication, with real-time rows of no other one                    *)
(* (_install_static_database, replace_realtime_delays).                    *)
THEOREM CommittedWhole == Spec => []CommittedIsWhole
<1>1. IInv => CommittedIsWhole
  BY DEF IInv, StoreInv, CommittedIsWhole
<1> QED
  BY <1>1, Invariance, PTL

(* An answer composed while the tables are replaced comes from one         *)
(* publication (schedule() reads them in one SELECT, so in one snapshot).  *)
THEOREM AnswersWhole == Spec => []AnswersAreWhole
<1>1. IInv => AnswersAreWhole
  BY DEF IInv, RequestInv, AnswerInv, AnswersAreWhole
<1> QED
  BY <1>1, Invariance, PTL

(* A request that asks again about a provider begins on a schedule that is *)
(* not older than the one of its last answer.                              *)
THEOREM NeverBack == Spec => AnswersNeverGoBack
<1> DEFINE Again(r) == /\ request[r].state = "answered" /\ request'[r].state = "reading"
                       /\ request'[r].slug = request[r].slug
<1>1. ASSUME IInv, Next, NEW r \in Requests, Again(r)
      PROVE  ServedBy(AnswerRows(r)) <= ServedBy(request'[r].snapshot)
  <2>1. PICK s \in Slugs : RequestBegins(r, s)
    <3>1. request'[r] # request[r]
      BY <1>1
    <3>2. ~Crash
      BY <1>1 DEF Crash, Waiting
    <3>3. ~\E t \in Threads : WriterStep(t)
      BY <3>1 DEF WriterStep, ObserveRequested, InstallRequested, TransactionBegins,
         StatementRuns, TransactionCommits, TransactionRollsBack
    <3>4. ~\E s \in Slugs : EnsureProvider(s) \/ Publish(s)
      BY <3>1 DEF EnsureProvider, Publish
    <3>5. PICK x \in Requests : RequestStep(x)
      BY <1>1, <3>2, <3>3, <3>4 DEF Next
    <3>6. x = r
      BY <1>1, <3>1, <3>5 DEF IInv, TypeInv, RequestStep, RequestBegins, RequestReads, RequestAnswers
    <3>7. ~RequestReads(r) /\ ~RequestAnswers(r)
      BY <1>1 DEF RequestReads, RequestAnswers
    <3> QED
      BY <3>5, <3>6, <3>7 DEF RequestStep
  <2>2. /\ request'[r].slug = s /\ request'[r].snapshot = disk[s]
    BY <1>1, <2>1 DEF RequestBegins, IInv, TypeInv
  <2>3. ServedBy(AnswerRows(r)) \in 0 .. ServedBy(disk[request[r].slug])
    BY <1>1 DEF IInv, RequestInv, AnswerInv
  <2>4. ServedBy(disk[s]) \in 0 .. MaxVersion /\ request[r].slug = s
    BY <1>1, <2>2, ServedIsVersion DEF IInv, TypeInv
  <2> QED
    BY <2>2, <2>3, <2>4
<1>2. IInv /\ [Next]_vars =>
        [\A r \in Requests :
           request[r].state = "answered" /\ request'[r].state = "reading"
             /\ request'[r].slug = request[r].slug =>
           ServedBy(AnswerRows(r)) <= ServedBy(request'[r].snapshot)]_vars
  BY <1>1
<1> QED
  BY <1>2, Invariance, PTL DEF Spec, AnswersNeverGoBack

-----------------------------------------------------------------------------
(* Each step of a transaction, of a request or of the environment is one   *)
(* operation of the store or leaves it alone.                              *)
LEMMA InitImplements == Init => Store!Init
<1> SUFFICES ASSUME Init PROVE Store!Init
  OBVIOUS
<1>1. \A s \in Slugs : disk[s] = NoProvider
  BY DEF Init
<1>2. \A s \in Slugs : /\ ServedBy(disk[s]) = 0 /\ disk[s][Stamp] = "noRow"
                       /\ disk[s]["realtime_delays"] = NoRows
  BY <1>1, NothingIsRows DEF NoProvider, Stamp, Tables, ScheduleTables, RealtimeTables
<1> QED
  BY <1>2 DEF Init, Store!Init

(* The commit of an install is Install, of an observation Observe.        *)
LEMMA CommitImplements ==
  ASSUME IInv, NEW t \in Threads, TransactionCommits(t)
  PROVE  Store!Next
<1>0. PICK s \in Slugs : writer[t].slug = s
  BY WritersOperate DEF IInv, TransactionCommits
<1> DEFINE served == [p \in Slugs |-> ServedBy(disk[p])]
           stamps == [p \in Slugs |-> disk[p][Stamp]]
           delays == [p \in Slugs |-> disk[p]["realtime_delays"]]
<1>1. /\ published' = published
      /\ \A p \in Slugs : disk'[p] = IF p = s THEN work[t] ELSE disk[p]
  BY <1>0 DEF IInv, TypeInv, TransactionCommits
<1>2. /\ served' = [served EXCEPT ![s] = ServedBy(work[t])]
      /\ stamps' = [stamps EXCEPT ![s] = work[t][Stamp]]
      /\ delays' = [delays EXCEPT ![s] = work[t]["realtime_delays"]]
  BY <1>1 DEF ServedBy
<1>3. CASE writer[t].op = "install"
  <2>1. /\ ServedBy(work[t]) = writer[t].version /\ work[t][Stamp] = "fresh"
        /\ work[t]["realtime_delays"] = NoRows /\ Installing(t)
    BY <1>3, CommitPublishes DEF Installing
  <2>2. /\ writer[t].version \in 1 .. published[s] /\ served[s] <= writer[t].version
        /\ stamps[s] # "noRow" /\ served[s] \in 0 .. MaxVersion
    BY <1>0, <2>1, ServedIsVersion DEF IInv, TypeInv, WriterInv, Target
  <2> HIDE DEF served, stamps, delays
  <2>3. /\ writer[t].version \in 1 .. published[s] /\ writer[t].version >= served[s]
        /\ served' = [served EXCEPT ![s] = writer[t].version]
        /\ delays' = [delays EXCEPT ![s] = NoRows]
        /\ stamps' = [stamps EXCEPT ![s] = "fresh"]
    <3>1. published[s] \in 1 .. MaxVersion
      BY <1>1 DEF IInv, TypeInv
    <3> QED
      BY <1>2, <2>1, <2>2, <3>1, TransactionsAssumption
  <2>4. Store!Install(s)
    BY <1>1, <2>2, <2>3 DEF Store!Install, served, stamps, delays
  <2> QED
    BY <2>4 DEF Store!Next
<1>4. CASE writer[t].op # "install"
  <2>1. /\ ServedBy(work[t]) = served[s] /\ work[t][Stamp] = stamps[s]
        /\ work[t]["realtime_delays"] = served[s]
    BY <1>0, <1>4, CommitPublishes DEF Target
  <2>2. served' = served /\ stamps' = stamps /\ delays' = [delays EXCEPT ![s] = served[s]]
    BY <1>2, <2>1
  <2> HIDE DEF served, stamps, delays
  <2>3. Store!Observe(s)
    BY <1>1, <2>2 DEF Store!Observe, served, stamps, delays
  <2> QED
    BY <2>3 DEF Store!Next
<1> QED
  BY <1>3, <1>4

(* _ensure_provider is Register.                                          *)
LEMMA RegisterImplements ==
  ASSUME IInv, NEW s \in Slugs, EnsureProvider(s)
  PROVE  Store!Next
<1>1. \A p \in Slugs : disk'[p] = IF p = s THEN [disk[s] EXCEPT ![Stamp] = "never"] ELSE disk[p]
  BY DEF IInv, TypeInv, EnsureProvider
<1>2. [disk[s] EXCEPT ![Stamp] = "never"][Stamp] = "never"
      /\ \A c \in Tables : [disk[s] EXCEPT ![Stamp] = "never"][c] = disk[s][c]
  BY DEF IInv, TypeInv, Rows, Columns, Stamp, Tables, ScheduleTables, RealtimeTables
<1>3. \A p \in Slugs : /\ ServedBy(disk'[p]) = ServedBy(disk[p])
                       /\ disk'[p]["realtime_delays"] = disk[p]["realtime_delays"]
                       /\ disk'[p][Stamp] = IF p = s THEN "never" ELSE disk[p][Stamp]
  BY <1>1, <1>2 DEF ServedBy, Tables, ScheduleTables, RealtimeTables
<1>4. disk[s][Stamp] = "noRow" /\ published' = published
  BY DEF EnsureProvider
<1>5. Store!Register(s)
  BY <1>3, <1>4 DEF Store!Register
<1> QED
  BY <1>5 DEF Store!Next

(* Every other step is Publish or leaves the store alone.                 *)
LEMMA StepImplements == IInv /\ [Next]_vars => [Store!Next]_(Store!vars)
<1> SUFFICES ASSUME IInv, [Next]_vars PROVE [Store!Next]_(Store!vars)
  OBVIOUS
<1>1. CASE UNCHANGED <<disk, published>>
  BY <1>1 DEF Store!vars
<1>2. ASSUME NEW s \in Slugs, Publish(s)
      PROVE  Store!Next
  <2>1. Store!Publish(s)
    BY <1>2 DEF Publish, Store!Publish
  <2> QED
    BY <2>1 DEF Store!Next
<1>3. CASE \E t \in Threads : WriterStep(t)
  <2>1. PICK t \in Threads : WriterStep(t)
    BY <1>3
  <2>2. TransactionCommits(t) \/ UNCHANGED <<disk, published>>
    BY <2>1 DEF WriterStep, ObserveRequested, InstallRequested, TransactionBegins,
       StatementRuns, StaysUncommitted, TransactionRollsBack
  <2> QED
    BY <1>1, <2>2, CommitImplements
<1>4. CASE \E r \in Requests : RequestStep(r)
  <2>1. UNCHANGED <<disk, published>>
    BY <1>4 DEF RequestStep, RequestBegins, RequestReads, RequestAnswers
  <2> QED
    BY <1>1, <2>1
<1>5. CASE \E s \in Slugs : EnsureProvider(s) \/ Publish(s)
  BY <1>2, <1>5, RegisterImplements
<1>6. CASE Crash \/ UNCHANGED vars
  <2>1. UNCHANGED <<disk, published>>
    BY <1>6 DEF Crash, vars
  <2> QED
    BY <1>1, <2>1
<1> QED
  BY <1>3, <1>4, <1>5, <1>6 DEF Next

(* Statement by statement, with rollbacks and kills, the transactions do   *)
(* what ProviderStore promises: only a commit changes what is served, and  *)
(* it changes it by one operation.                                         *)
THEOREM StoreTheorem == Spec => ImplementsStore
<1>1. Init => Store!Init
  BY InitImplements
<1>2. IInv /\ [Next]_vars => [Store!Next]_(Store!vars)
  BY StepImplements
<1> QED
  BY <1>1, <1>2, Invariance, PTL DEF Spec, ImplementsStore, Store!Spec

=============================================================================
