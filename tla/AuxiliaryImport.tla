-------------------------- MODULE AuxiliaryImport --------------------------
(***************************************************************************)
(* What one auxiliary refresh makes of the documents it has downloaded:    *)
(* app/repositories/gtfs_realtime.py collects the observations of every    *)
(* TripUpdates feed, turns predicted times into delays with the help of    *)
(* the schedule, and replaces the real-time tables;                        *)
(* app/repositories/ticket_machines.py then replaces the machines.         *)
(*                                                                         *)
(* Time is counted in units of which a day has DayLength; an instant is    *)
(* the number of units since midnight of day 0.  A feed that cannot be     *)
(* parsed and one without a version in its header are both invalid.        *)
(***************************************************************************)
EXTENDS Integers, Sequences, SequencesExt

CONSTANTS
  Inputs,     \* the documents, and the schedule they are read against
  DayLength,  \* units in a day
  Missing     \* a field that is absent or empty

ASSUME DayLengthAssumption == DayLength \in Nat \ {0}

(* Identifiers, sequence numbers, delays and instants are numbers.         *)
Optional == {Missing} \cup Int
Updates == [sequence : Optional, skipped : BOOLEAN,
            delay : Optional \X Optional, time : Optional \X Optional]
Entities == [trip : Optional, cancelled : BOOLEAN, updates : Seq(Updates)]
Payloads == [valid : BOOLEAN, entities : Seq(Entities)]
Machines == [id : ({Missing} \cup Nat) \X ({Missing} \cup Nat),
             name : Optional \X Optional]

(* There is a feed at least: without one nothing is downloaded.            *)
ASSUME InputsAssumption ==
  \A i \in Inputs :
    /\ i.payloads \in Seq(Payloads)
    /\ Len(i.payloads) >= 1
    /\ i.departures \subseteq
         [trip : Int, sequence : Int, service : Int, seconds : Int]
    /\ i.service_dates \subseteq [service : Int, date : Int]
    /\ i.document # Missing => i.document \in Seq(Machines)

VARIABLES
  input,      \* payloads, departures, service_dates, document
  phase,      \* "collect", "replace", "machines", "done" or "raised"
  feed,       \* the payload being read
  entity,     \* the next entity of it
  update,     \* the next stop_time_update of that entity
  observed,   \* delays, estimated_times, cancelled_trips, skipped_stops
  realtime,   \* the three real-time tables of the provider
  machines    \* ticket_machines of the provider

vars == <<input, phase, feed, entity, update, observed, realtime, machines>>

-----------------------------------------------------------------------------
(* _text, _delay and _estimated_time: the first field that has a value.    *)
FirstKnown(fields) ==
  IF \A k \in DOMAIN fields : fields[k] = Missing THEN Missing
  ELSE fields[CHOOSE k \in DOMAIN fields :
                /\ fields[k] # Missing
                /\ \A l \in 1 .. k - 1 : fields[l] = Missing]

NoRows == [key \in {} |-> 0]
NoObservations ==
  [delays |-> NoRows, estimated |-> NoRows, cancelled |-> {}, skipped |-> {}]
OldRealtime ==
  [delays |-> [key \in {<<0, 0>>} |-> 0], cancelled |-> {0}, skipped |-> {<<0, 0>>}]
OldMachines == {[id |-> 0, name |-> 0]}

(* A plausible bug: a delay of the arrival is not looked at.               *)
DelayOfDeparture(u) == u.delay[1]

(* Both fields of a stop_time_update hold the departure's value first.     *)
Delay(u) == FirstKnown(u.delay)
EstimatedTime(u) == FirstKnown(u.time)

Put(rows, key, value) ==
  [k \in DOMAIN rows \cup {key} |-> IF k = key THEN value ELSE rows[k]]

(* One stop_time_update: a later observation replaces an earlier one of    *)
(* its own kind.                                                           *)
Observe(trip, o, u) ==
  LET key == <<trip, u.sequence>>
  IN  IF u.sequence = Missing THEN o
      ELSE IF u.skipped THEN [o EXCEPT !.skipped = @ \cup {key}]
      ELSE IF Delay(u) # Missing THEN [o EXCEPT !.delays = Put(@, key, Delay(u))]
      ELSE IF EstimatedTime(u) # Missing
      THEN [o EXCEPT !.estimated = Put(@, key, EstimatedTime(u))]
      ELSE o

-----------------------------------------------------------------------------
(* _delays_from_absolute_times: predicted times against the schedule.      *)
LocalDate(time) == time \div DayLength
ScheduledTimestamp(date, seconds) == date * DayLength + seconds
Distance(t, u) == IF t < u THEN u - t ELSE t - u

PredictedDates(estimated) == {LocalDate(estimated[k]) : k \in DOMAIN estimated}

(* A plausible bug: the window begins with the first predicted date.       *)
WindowFromFirst(estimated) ==
  Min(PredictedDates(estimated)) .. Max(PredictedDates(estimated)) + 1

(* The service dates that are looked at for any of the predictions.        *)
Window(estimated) ==
  Min(PredictedDates(estimated)) - 1 .. Max(PredictedDates(estimated)) + 1

(* When the stop of a key is scheduled on the given service dates.         *)
Candidates(key, dates) ==
  {ScheduledTimestamp(p[2].date, p[1].seconds) :
     p \in {q \in input.departures \X input.service_dates :
              /\ <<q[1].trip, q[1].sequence>> = key
              /\ q[1].service = q[2].service
              /\ q[2].date \in dates}}

Nearest(time, candidates) ==
  {c \in candidates : \A other \in candidates : Distance(time, c) <= Distance(time, other)}

-----------------------------------------------------------------------------
Init ==
  /\ input \in Inputs
  /\ phase = "collect" /\ feed = 1 /\ entity = 1 /\ update = 1
  /\ observed = NoObservations
  /\ realtime = OldRealtime
  /\ machines = OldMachines

Payload == input.payloads[feed]

Entity == Payload.entities[entity]

(* _collect_observations at one entity of a feed.                          *)
AtEntity ==
  /\ phase = "collect" /\ Payload.valid
  /\ entity <= Len(Payload.entities)

(* An entity without a trip is passed over, a cancelled trip has no stops. *)
CollectTrip ==
  /\ AtEntity
  /\ Entity.trip = Missing \/ Entity.cancelled
  /\ observed' = IF Entity.trip = Missing THEN observed
                 ELSE [observed EXCEPT !.cancelled = @ \cup {Entity.trip}]
  /\ entity' = entity + 1
  /\ UNCHANGED <<input, phase, feed, update, realtime, machines>>

CollectUpdate ==
  /\ AtEntity
  /\ Entity.trip # Missing /\ ~Entity.cancelled
  /\ update <= Len(Entity.updates)
  /\ observed' = Observe(Entity.trip, observed, Entity.updates[update])
  /\ update' = update + 1
  /\ UNCHANGED <<input, phase, feed, entity, realtime, machines>>

FinishEntity ==
  /\ AtEntity
  /\ Entity.trip # Missing /\ ~Entity.cancelled
  /\ update > Len(Entity.updates)
  /\ entity' = entity + 1 /\ update' = 1
  /\ UNCHANGED <<input, phase, feed, observed, realtime, machines>>

(* A plausible bug: the position runs past the last payload.               *)
GoToNextFeed ==
  IF feed <= Len(input.payloads) THEN feed' = feed + 1 /\ phase' = phase
                                 ELSE feed' = feed /\ phase' = "replace"

GoOn ==
  IF feed < Len(input.payloads) THEN feed' = feed + 1 /\ phase' = phase
                                ELSE feed' = feed /\ phase' = "replace"

FinishFeed ==
  /\ phase = "collect" /\ Payload.valid
  /\ entity > Len(Payload.entities)
  /\ entity' = 1
  /\ GoOn
  /\ UNCHANGED <<input, update, observed, realtime, machines>>

(* A plausible bug: a feed without a valid header is passed over.          *)
SkipFeed ==
  /\ phase = "collect" /\ ~Payload.valid
  /\ GoOn
  /\ UNCHANGED <<input, entity, update, observed, realtime, machines>>

(* ParseFromString or the check of the header raises.                      *)
RefuseFeed ==
  /\ phase = "collect" /\ ~Payload.valid
  /\ phase' = "raised"
  /\ UNCHANGED <<input, feed, entity, update, observed, realtime, machines>>

(* replace_realtime_delays writes: a direct delay has precedence over one  *)
(* computed from a predicted time.  Of scheduled times that are equally    *)
(* near, the one whose row the database returns first is taken.            *)
ReplaceDelays ==
  /\ phase = "replace"
  /\ LET times(key) == Nearest(observed.estimated[key],
                               Candidates(key, Window(observed.estimated)))
         keys == {k \in DOMAIN observed.estimated : times(k) # {}}
     IN  \E scheduled \in [keys -> UNION {times(k) : k \in keys}] :
           /\ \A k \in keys : scheduled[k] \in times(k)
           /\ realtime' =
                [delays |-> [k \in DOMAIN observed.delays \cup keys |->
                               IF k \in DOMAIN observed.delays THEN observed.delays[k]
                               ELSE observed.estimated[k] - scheduled[k]],
                 cancelled |-> observed.cancelled, skipped |-> observed.skipped]
  /\ phase' = "machines"
  /\ UNCHANGED <<input, feed, entity, update, observed, machines>>

(* _records: a document of any other shape has no records.                 *)
Records == IF input.document = Missing THEN <<>> ELSE input.document

(* replace_ticket_machines: a record without an identifier is numbered by  *)
(* its position.                                                           *)
MachineRow(k) ==
  LET known == FirstKnown(Records[k].id)
      identifier == IF known # Missing THEN known ELSE k
      name == FirstKnown(Records[k].name)
  IN  [id |-> identifier, name |-> IF name # Missing THEN name ELSE identifier]

(* A plausible bug: the primary key does not hold the identifier.          *)
AcceptsRepetition == FALSE

RepeatsIdentifier ==
  \E k, l \in DOMAIN Records : k # l /\ MachineRow(k).id = MachineRow(l).id

ReplaceMachines ==
  /\ phase = "machines" /\ ~RepeatsIdentifier
  /\ machines' = {MachineRow(k) : k \in DOMAIN Records}
  /\ phase' = "done"
  /\ UNCHANGED <<input, feed, entity, update, observed, realtime>>

(* The primary key refuses a repeated identifier; the transaction is       *)
(* rolled back, the delays of the first one stay.                          *)
RefuseMachines ==
  /\ phase = "machines" /\ RepeatsIdentifier
  /\ phase' = "raised"
  /\ UNCHANGED <<input, feed, entity, update, observed, realtime, machines>>

Next == \/ CollectTrip \/ CollectUpdate \/ FinishEntity
        \/ FinishFeed \/ RefuseFeed
        \/ ReplaceDelays \/ ReplaceMachines \/ RefuseMachines

Spec == Init /\ [][Next]_vars

-----------------------------------------------------------------------------
(* The position stays within the payloads and every table within its type. *)
TypeOK ==
  /\ phase \in {"collect", "replace", "machines", "done", "raised"}
  /\ feed \in DOMAIN input.payloads
  /\ entity \in 1 .. Len(Payload.entities) + 1
  /\ update # 1 =>
       entity <= Len(Payload.entities) /\ update \in 1 .. Len(Entity.updates) + 1
  /\ \A key \in DOMAIN realtime.delays : realtime.delays[key] \in Int
  /\ \A row \in machines : row.id \in Nat

Written == phase \in {"machines", "done"}

(* The positions of the entities, and those of the stop_time_updates that  *)
(* tell something of a stop; Earlier is the order in which they are read.  *)
EntityAt(p) == input.payloads[p[1]].entities[p[2]]
UpdateAt(p) == EntityAt(p).updates[p[3]]
Told ==
  UNION {{<<f, e>> : e \in DOMAIN input.payloads[f].entities} :
           f \in DOMAIN input.payloads}
Cancellations == {p \in Told : EntityAt(p).trip # Missing /\ EntityAt(p).cancelled}
Live == {p \in Told : EntityAt(p).trip # Missing /\ ~EntityAt(p).cancelled}
Reports ==
  {r \in UNION {{<<p[1], p[2], u>> : u \in DOMAIN EntityAt(p).updates} : p \in Live} :
     UpdateAt(r).sequence # Missing}
Earlier(p, q) ==
  \/ p[1] < q[1]
  \/ p[1] = q[1] /\ p[2] < q[2]
  \/ p[1] = q[1] /\ p[2] = q[2] /\ p[3] < q[3]

KeyOf(r) == <<EntityAt(r).trip, UpdateAt(r).sequence>>
TellsDelay(r) ==
  /\ ~UpdateAt(r).skipped
  /\ UpdateAt(r).delay[1] # Missing \/ UpdateAt(r).delay[2] # Missing
DelayTold(r) ==
  LET fields == UpdateAt(r).delay
  IN  IF fields[1] # Missing THEN fields[1] ELSE fields[2]

(* What several feeds and several entities of a feed say is kept: a        *)
(* cancellation or a skipped stop whatever else is said of the trip, and   *)
(* the delay that was told last, which no predicted time overrides.        *)
ReportsAreKept ==
  Written =>
    /\ realtime.cancelled = {EntityAt(p).trip : p \in Cancellations}
    /\ realtime.skipped = {KeyOf(r) : r \in {q \in Reports : UpdateAt(q).skipped}}
    /\ \A r \in Reports :
         /\ TellsDelay(r)
         /\ \A q \in Reports : Earlier(r, q) /\ TellsDelay(q) => KeyOf(q) # KeyOf(r)
         => /\ KeyOf(r) \in DOMAIN realtime.delays
            /\ realtime.delays[KeyOf(r)] = DelayTold(r)

(* A predicted time becomes the delay of the occurrence it is nearest to,  *)
(* if that belongs to the service date of its day, the day before or the   *)
(* day after: a trip of yesterday that runs past midnight, a late one that *)
(* is expected after midnight, an early one before it.                     *)
PredictionsFindTheirOccurrence ==
  Written =>
    \A key \in DOMAIN observed.estimated \ DOMAIN observed.delays :
      LET time == observed.estimated[key]
          all == Candidates(key, {sd.date : sd \in input.service_dates})
          near == Candidates(key, LocalDate(time) - 1 .. LocalDate(time) + 1)
      IN  \A c \in near :
            (\A other \in all \ {c} : Distance(time, c) < Distance(time, other))
              => key \in DOMAIN realtime.delays /\ realtime.delays[key] = time - c

(* A refresh that fails leaves what it has not replaced as a whole: one    *)
(* invalid feed keeps the old real-time rows of every feed, and a refused  *)
(* machine document keeps the old machines under the new delays.           *)
FailureKeepsTheRest ==
  /\ phase = "raised" => machines = OldMachines
  /\ (\E f \in DOMAIN input.payloads : ~input.payloads[f].valid) => realtime = OldRealtime

(* No machine of a document is lost: each has a row and an identifier of   *)
(* its own, also where identifiers by position meet published ones.        *)
NoMachineIsLost ==
  phase = "done" =>
    /\ Cardinality(machines) = Len(Records)
    /\ \A m, n \in machines : m.id = n.id => m = n

=============================================================================
