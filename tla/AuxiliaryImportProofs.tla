------------------------ MODULE AuxiliaryImportProofs ------------------------
(***************************************************************************)
(* What the two auxiliary transactions write is what the documents say,    *)
(* for any number of feeds, entities and updates and for every schedule.   *)
(*                                                                         *)
(* The invariant says of the observations, at every position of the        *)
(* reading, what the properties say of the tables at its end: CollectInv.  *)
(* Predictions need no invariant of their own: ReplaceDelays looks at all  *)
(* of them at once, and its window covers the days around each of them     *)
(* because a finite set of dates has a first and a last one.               *)
(***************************************************************************)
EXTENDS AuxiliaryImport, FiniteSetTheorems, FiniteFacts, TLAPS

-----------------------------------------------------------------------------
(* The types.                                                              *)

(* A trip and a sequence number; a table has rows for some of these pairs. *)
Keys == Int \X Int
Rows == UNION {[K -> Int] : K \in SUBSET Keys}

(* There are finitely many predictions, so their dates have a first one.  *)
ObservedOK ==
  /\ observed \in [delays : Rows, estimated : Rows,
                   cancelled : SUBSET Int, skipped : SUBSET Keys]
  /\ IsFiniteSet(DOMAIN observed.estimated)

(* Only a live entity is read update by update.                            *)
PositionOK ==
  /\ input \in Inputs
  /\ phase \in {"collect", "replace", "machines", "done", "raised"}
  /\ feed \in DOMAIN input.payloads
  /\ entity \in 1 .. Len(Payload.entities) + 1
  /\ update # 1 =>
       /\ entity <= Len(Payload.entities)
       /\ update \in 1 .. Len(Entity.updates) + 1
       /\ Entity.trip # Missing /\ ~Entity.cancelled

TablesOK ==
  /\ realtime.delays \in Rows
  /\ \A row \in machines : row.id \in Nat

(* What the documents are made of.                                         *)
LEMMA InputTypes ==
  ASSUME NEW i \in Inputs
  PROVE  /\ Len(i.payloads) \in Nat \ {0}
         /\ DOMAIN i.payloads = 1 .. Len(i.payloads)
         /\ \A f \in DOMAIN i.payloads :
              /\ i.payloads[f].valid \in BOOLEAN
              /\ i.payloads[f].entities \in Seq(Entities)
              /\ Len(i.payloads[f].entities) \in Nat
              /\ DOMAIN i.payloads[f].entities = 1 .. Len(i.payloads[f].entities)
<1> DEFINE p == i.payloads
<1>1. p \in Seq(Payloads) /\ Len(p) >= 1
  BY InputsAssumption
<1> HIDE DEF p
<1>2. /\ Len(p) \in Nat \ {0}
      /\ DOMAIN p = 1 .. Len(p)
      /\ \A f \in DOMAIN p : p[f] \in Payloads
  BY <1>1
<1>3. ASSUME NEW f \in DOMAIN p
      PROVE  /\ p[f].valid \in BOOLEAN
             /\ p[f].entities \in Seq(Entities)
             /\ Len(p[f].entities) \in Nat
             /\ DOMAIN p[f].entities = 1 .. Len(p[f].entities)
  <2> DEFINE e == p[f].entities
  <2>1. p[f].valid \in BOOLEAN /\ e \in Seq(Entities)
    BY <1>2 DEF Payloads
  <2> HIDE DEF e
  <2>2. Len(e) \in Nat /\ DOMAIN e = 1 .. Len(e)
    BY <2>1
  <2> QED
    BY <2>1, <2>2 DEF e
<1> QED
  BY <1>2, <1>3 DEF p

(* What an entity and a stop_time_update are made of.                      *)
LEMMA EntityTypes ==
  ASSUME NEW i \in Inputs, NEW f \in DOMAIN i.payloads,
         NEW e \in DOMAIN i.payloads[f].entities
  PROVE  LET en == i.payloads[f].entities[e]
         IN  /\ en.trip \in Optional
             /\ en.cancelled \in BOOLEAN
             /\ Len(en.updates) \in Nat
             /\ DOMAIN en.updates = 1 .. Len(en.updates)
             /\ \A u \in DOMAIN en.updates : en.updates[u] \in Updates
<1> DEFINE en == i.payloads[f].entities[e]
<1>1. en \in Entities
  BY InputTypes
<1>2. en.trip \in Optional /\ en.cancelled \in BOOLEAN /\ en.updates \in Seq(Updates)
  BY <1>1 DEF Entities
<1> HIDE DEF en
<1>3. /\ Len(en.updates) \in Nat
      /\ DOMAIN en.updates = 1 .. Len(en.updates)
      /\ \A u \in DOMAIN en.updates : en.updates[u] \in Updates
  BY <1>2
<1> QED
  BY <1>2, <1>3 DEF en

(* The first known value of two fields.                                    *)
LEMMA FirstOfTwo ==
  ASSUME NEW S, NEW fields \in S \X S
  PROVE  FirstKnown(fields) = IF fields[1] # Missing THEN fields[1] ELSE fields[2]
<1>1. DOMAIN fields = {1, 2} /\ DOMAIN fields = 1 .. 2
  OBVIOUS
<1>2. CASE \A k \in DOMAIN fields : fields[k] = Missing
  BY <1>1, <1>2 DEF FirstKnown
<1>3. CASE fields[1] # Missing
  <2> DEFINE k == CHOOSE k \in DOMAIN fields :
                /\ fields[k] # Missing
                /\ \A l \in 1 .. k - 1 : fields[l] = Missing
  <2>1. /\ 1 \in DOMAIN fields /\ fields[1] # Missing
        /\ \A l \in 1 .. 1 - 1 : fields[l] = Missing
    BY <1>1, <1>3
  <2>2. k \in DOMAIN fields /\ \A l \in 1 .. k - 1 : fields[l] = Missing
    BY <2>1
  <2>3. k = 1
    BY <1>1, <1>3, <2>2
  <2> QED
    BY <1>1, <1>3, <2>3 DEF FirstKnown
<1>4. CASE fields[1] = Missing /\ fields[2] # Missing
  <2> DEFINE k == CHOOSE k \in DOMAIN fields :
                /\ fields[k] # Missing
                /\ \A l \in 1 .. k - 1 : fields[l] = Missing
  <2>1. /\ 2 \in DOMAIN fields /\ fields[2] # Missing
        /\ \A l \in 1 .. 2 - 1 : fields[l] = Missing
    BY <1>1, <1>4
  <2>2. k \in DOMAIN fields /\ fields[k] # Missing
    BY <2>1
  <2>3. k = 2
    BY <1>1, <1>4, <2>2
  <2> QED
    BY <1>1, <1>4, <2>3 DEF FirstKnown
<1> QED
  BY <1>1, <1>2, <1>3, <1>4

(* A row that is put into a table replaces one with the same key.          *)
LEMMA PutRow ==
  ASSUME NEW rows \in Rows, NEW key \in Keys, NEW value \in Int
  PROVE  LET put == Put(rows, key, value)
         IN  /\ put \in Rows
             /\ DOMAIN put = DOMAIN rows \cup {key}
             /\ put[key] = value
             /\ \A k \in DOMAIN rows : k # key => put[k] = rows[k]
<1> DEFINE put == Put(rows, key, value)
<1>1. PICK K \in SUBSET Keys : rows \in [K -> Int]
  BY DEF Rows
<1>2. /\ DOMAIN put = K \cup {key}
      /\ \A k \in K \cup {key} : put[k] = IF k = key THEN value ELSE rows[k]
      /\ put = [k \in K \cup {key} |-> IF k = key THEN value ELSE rows[k]]
  BY <1>1 DEF Put
<1> HIDE DEF put
<1>3. put \in [K \cup {key} -> Int]
  BY <1>1, <1>2
<1>4. put \in Rows
  BY <1>1, <1>3 DEF Rows
<1> QED
  BY <1>1, <1>2, <1>4 DEF put

(* One stop_time_update keeps the observations in their types.             *)
LEMMA ObserveTypes ==
  ASSUME ObservedOK, NEW trip \in Int, NEW u \in Updates
  PROVE  LET o == Observe(trip, observed, u)
         IN  /\ o \in [delays : Rows, estimated : Rows,
                       cancelled : SUBSET Int, skipped : SUBSET Keys]
             /\ IsFiniteSet(DOMAIN o.estimated)
<1> DEFINE key == <<trip, u.sequence>>
<1>1. u.sequence # Missing => key \in Keys
  BY DEF Updates, Optional, Keys
<1>2. Delay(u) \in Optional /\ EstimatedTime(u) \in Optional
  BY FirstOfTwo DEF Updates, Delay, EstimatedTime
<1>3. Delay(u) # Missing => Delay(u) \in Int
  BY <1>2 DEF Optional
<1>4. EstimatedTime(u) # Missing => EstimatedTime(u) \in Int
  BY <1>2 DEF Optional
<1> HIDE DEF key
<1>5. u.sequence # Missing /\ Delay(u) # Missing =>
        Put(observed.delays, key, Delay(u)) \in Rows
  BY <1>1, <1>3, PutRow DEF ObservedOK
<1>6. ASSUME u.sequence # Missing, EstimatedTime(u) # Missing
      PROVE  /\ Put(observed.estimated, key, EstimatedTime(u)) \in Rows
             /\ DOMAIN Put(observed.estimated, key, EstimatedTime(u))
                  = DOMAIN observed.estimated \cup {key}
  <2>1. observed.estimated \in Rows /\ key \in Keys /\ EstimatedTime(u) \in Int
    BY <1>1, <1>4, <1>6 DEF ObservedOK
  <2> QED
    BY <2>1, PutRow
<1>7. IsFiniteSet(DOMAIN observed.estimated \cup {key})
  BY FS_AddElement DEF ObservedOK
<1>8. CASE u.sequence = Missing
  BY <1>8 DEF Observe, ObservedOK
<1>9. CASE u.sequence # Missing /\ u.skipped
  BY <1>1, <1>9 DEF Observe, ObservedOK, key
<1>10. CASE u.sequence # Missing /\ ~u.skipped /\ Delay(u) # Missing
  BY <1>5, <1>10 DEF Observe, ObservedOK, key
<1>11. CASE u.sequence # Missing /\ ~u.skipped /\ Delay(u) = Missing
            /\ EstimatedTime(u) # Missing
  BY <1>6, <1>7, <1>11 DEF Observe, ObservedOK, key
<1>12. CASE u.sequence # Missing /\ ~u.skipped /\ Delay(u) = Missing
            /\ EstimatedTime(u) = Missing
  BY <1>12 DEF Observe, ObservedOK
<1> QED
  BY <1>8, <1>9, <1>10, <1>11, <1>12 DEF Updates

-----------------------------------------------------------------------------
(* What has been read so far.                                              *)

(* An entity has been finished when the reading is at the position here.   *)
EntityBefore(p, here) == p[1] < here[1] \/ (p[1] = here[1] /\ p[2] < here[2])

(* Where the reading is: behind the last payload when all have been read.  *)
Here == IF phase = "collect" THEN <<feed, entity, update>>
        ELSE <<Len(input.payloads) + 1, 1, 1>>

(* A report of a delay that no later one before the given position         *)
(* replaces.                                                               *)
LastDelay(r, here) ==
  /\ TellsDelay(r)
  /\ \A q \in Reports :
       Earlier(r, q) /\ Earlier(q, here) /\ TellsDelay(q) => KeyOf(q) # KeyOf(r)

(* The observations are what has been told before the given position.      *)
Collected(o, here) ==
  /\ o.cancelled = {EntityAt(p).trip : p \in {q \in Cancellations : EntityBefore(q, here)}}
  /\ o.skipped = {KeyOf(r) : r \in {q \in Reports : Earlier(q, here) /\ UpdateAt(q).skipped}}
  /\ \A r \in Reports :
       Earlier(r, here) /\ LastDelay(r, here) =>
         KeyOf(r) \in DOMAIN o.delays /\ o.delays[KeyOf(r)] = DelayTold(r)

(* At every position what has been told before it is held, until a feed    *)
(* raises.                                                                 *)
CollectInv == phase # "raised" => Collected(observed, Here)

(* The position of an entity.                                              *)
LEMMA ToldPosition ==
  ASSUME input \in Inputs, NEW p \in Told
  PROVE  /\ p = <<p[1], p[2]>>
         /\ p[1] \in DOMAIN input.payloads
         /\ p[2] \in DOMAIN input.payloads[p[1]].entities
         /\ p[1] \in Nat \ {0} /\ p[2] \in Nat \ {0}
         /\ p[1] <= Len(input.payloads)
<1>1. PICK f \in DOMAIN input.payloads :
        p \in {<<f, e>> : e \in DOMAIN input.payloads[f].entities}
  BY DEF Told
<1>2. PICK e \in DOMAIN input.payloads[f].entities : p = <<f, e>>
  BY <1>1
<1>3. f \in Nat \ {0} /\ f <= Len(input.payloads)
  BY InputTypes
<1>4. e \in Nat \ {0}
  BY InputTypes
<1> QED
  BY <1>2, <1>3, <1>4

(* The position of a report.                                               *)
LEMMA ReportPosition ==
  ASSUME input \in Inputs, NEW r \in Reports
  PROVE  /\ r[1] \in DOMAIN input.payloads
         /\ r[2] \in DOMAIN input.payloads[r[1]].entities
         /\ r[3] \in DOMAIN EntityAt(r).updates
         /\ EntityAt(r).trip # Missing /\ ~EntityAt(r).cancelled
         /\ UpdateAt(r).sequence # Missing
         /\ r[1] \in Nat \ {0} /\ r[2] \in Nat \ {0} /\ r[3] \in Nat \ {0}
         /\ r[1] <= Len(input.payloads)
         /\ r = <<r[1], r[2], r[3]>>
<1>0. PICK p \in Live : r \in {<<p[1], p[2], v>> : v \in DOMAIN EntityAt(p).updates}
  BY DEF Reports
<1>1. PICK u \in DOMAIN EntityAt(p).updates : r = <<p[1], p[2], u>>
  BY <1>0
<1>2. p \in Told /\ EntityAt(p).trip # Missing /\ ~EntityAt(p).cancelled
  BY DEF Live
<1>3. r[1] = p[1] /\ r[2] = p[2] /\ r[3] = u /\ EntityAt(r) = EntityAt(p)
  BY <1>1 DEF EntityAt
<1>4. /\ p[1] \in DOMAIN input.payloads
      /\ p[2] \in DOMAIN input.payloads[p[1]].entities
      /\ p[1] \in Nat \ {0} /\ p[2] \in Nat \ {0}
      /\ p[1] <= Len(input.payloads)
  BY <1>2, ToldPosition
<1>5. u \in Nat \ {0}
  <2>1. /\ Len(EntityAt(p).updates) \in Nat
        /\ DOMAIN EntityAt(p).updates = 1 .. Len(EntityAt(p).updates)
    BY <1>4, EntityTypes DEF EntityAt
  <2> QED
    BY <2>1
<1>6. UpdateAt(r).sequence # Missing
  BY DEF Reports
<1> QED
  BY <1>1, <1>2, <1>3, <1>4, <1>5, <1>6

(* The stop_time_update that is being read is a report of its own.         *)
LEMMA ReportHere ==
  ASSUME PositionOK, AtEntity, Entity.trip # Missing, ~Entity.cancelled,
         update \in DOMAIN Entity.updates,
         Entity.updates[update].sequence # Missing
  PROVE  <<feed, entity, update>> \in Reports
<1> DEFINE p == <<feed, entity>>
           r == <<feed, entity, update>>
<1>1. entity \in DOMAIN Payload.entities
  BY InputTypes DEF PositionOK, AtEntity, Payload
<1>2. p \in Told
  BY <1>1 DEF PositionOK, Told, Payload
<1>3. EntityAt(p) = Entity /\ EntityAt(r) = Entity
  BY DEF EntityAt, Entity, Payload
<1>4. p \in Live
  BY <1>2, <1>3 DEF Live
<1>5. UpdateAt(r).sequence # Missing
  BY <1>3 DEF UpdateAt
<1>6. r \in {<<p[1], p[2], u>> : u \in DOMAIN EntityAt(p).updates}
  BY <1>3
<1> HIDE DEF p, r
<1> QED
  BY <1>4, <1>5, <1>6 DEF Reports, r

(* The documents do not change, so neither does what they tell.            *)
LEMMA Frame ==
  ASSUME input' = input
  PROVE  CollectInv' <=> (phase' # "raised" => Collected(observed', Here'))
BY DEF CollectInv, Collected, LastDelay, Reports, Cancellations, Live, Told,
       EntityAt, UpdateAt, KeyOf, TellsDelay, DelayTold, EntityBefore, Earlier

(* A step behind which no more has been told.                              *)
LEMMA NothingNew ==
  ASSUME Collected(observed, Here), observed' = observed,
         \A q \in Cancellations : EntityBefore(q, Here') <=> EntityBefore(q, Here),
         \A r \in Reports : Earlier(r, Here') <=> Earlier(r, Here)
  PROVE  Collected(observed', Here')
<1>1. {q \in Cancellations : EntityBefore(q, Here')}
       = {q \in Cancellations : EntityBefore(q, Here)}
  OBVIOUS
<1>2. {q \in Reports : Earlier(q, Here') /\ UpdateAt(q).skipped}
       = {q \in Reports : Earlier(q, Here) /\ UpdateAt(q).skipped}
  OBVIOUS
<1>3. \A r \in Reports : LastDelay(r, Here') <=> LastDelay(r, Here)
  BY DEF LastDelay
<1> QED
  BY <1>1, <1>2, <1>3 DEF Collected

(* The position of the entity being read, as a number.                     *)
LEMMA EntityHere ==
  ASSUME PositionOK, AtEntity
  PROVE  /\ feed \in Nat \ {0} /\ entity \in Nat \ {0} /\ update \in Nat \ {0}
         /\ feed \in DOMAIN input.payloads
         /\ entity \in DOMAIN Payload.entities
         /\ Entity.trip \in Optional /\ Entity.cancelled \in BOOLEAN
         /\ Len(Entity.updates) \in Nat
         /\ DOMAIN Entity.updates = 1 .. Len(Entity.updates)
         /\ \A u \in DOMAIN Entity.updates : Entity.updates[u] \in Updates
         /\ Here = <<feed, entity, update>>
<1>1. entity \in DOMAIN Payload.entities /\ entity \in Nat \ {0}
  BY InputTypes DEF PositionOK, AtEntity, Payload
<1>2. feed \in Nat \ {0} /\ feed \in DOMAIN input.payloads
  BY InputTypes DEF PositionOK
<1>3. /\ Entity.trip \in Optional /\ Entity.cancelled \in BOOLEAN
      /\ Len(Entity.updates) \in Nat
      /\ DOMAIN Entity.updates = 1 .. Len(Entity.updates)
      /\ \A u \in DOMAIN Entity.updates : Entity.updates[u] \in Updates
  BY <1>1, <1>2, EntityTypes DEF PositionOK, Entity, Payload
<1>4. update \in Nat \ {0}
  BY <1>3 DEF PositionOK
<1>5. Here = <<feed, entity, update>>
  BY DEF AtEntity, Here
<1> QED
  BY <1>1, <1>2, <1>3, <1>4, <1>5

(* Reading an entity without stops: a cancelled trip is added.             *)
LEMMA CollectTripStep ==
  ASSUME PositionOK, ObservedOK, CollectInv, CollectTrip
  PROVE  Collected(observed', Here')
<1> USE DEF PositionOK
<1>1. AtEntity /\ Collected(observed, Here)
  BY DEF CollectTrip, AtEntity, CollectInv
<1>2. /\ Here = <<feed, entity, update>> /\ Here' = <<feed, entity + 1, update>>
      /\ update = 1
  BY <1>1, EntityHere DEF CollectTrip, Here, AtEntity
<1>3. \A r \in Reports : Earlier(r, Here') <=> Earlier(r, Here)
  <2> SUFFICES ASSUME NEW r \in Reports
               PROVE  Earlier(r, Here') <=> Earlier(r, Here)
    OBVIOUS
  <2>1. r[1] = feed => r[2] # entity
    BY ReportPosition DEF EntityAt, CollectTrip, Entity, Payload
  <2>2. r[1] \in Nat /\ r[2] \in Nat /\ r[3] \in Nat \ {0}
    BY ReportPosition
  <2> QED
    BY <1>1, <1>2, <2>1, <2>2, EntityHere DEF Earlier
<1>4. CASE Entity.trip = Missing
  <2>1. \A q \in Cancellations : EntityBefore(q, Here') <=> EntityBefore(q, Here)
    <3> SUFFICES ASSUME NEW q \in Cancellations
                 PROVE  EntityBefore(q, Here') <=> EntityBefore(q, Here)
      OBVIOUS
    <3>1. q \in Told /\ EntityAt(q).trip # Missing
      BY DEF Cancellations
    <3>2. q[1] \in Nat /\ q[2] \in Nat
      BY <3>1, ToldPosition
    <3>3. q[1] = feed => q[2] # entity
      BY <1>4, <3>1 DEF EntityAt, Entity, Payload
    <3> QED
      BY <1>1, <1>2, <3>2, <3>3, EntityHere DEF EntityBefore
  <2>2. observed' = observed
    BY <1>4 DEF CollectTrip
  <2> QED
    BY <1>1, <1>3, <2>1, <2>2, NothingNew
<1>5. CASE Entity.trip # Missing
  <2> DEFINE here == <<feed, entity>>
  <2>1. Entity.cancelled
    BY <1>5 DEF CollectTrip
  <2>2. here \in Cancellations /\ EntityAt(here) = Entity
    <3>1. here \in Told
      BY <1>1, EntityHere DEF Told, Payload
    <3>2. EntityAt(here) = Entity
      BY DEF EntityAt, Entity, Payload
    <3> QED
      BY <1>5, <2>1, <3>1, <3>2 DEF Cancellations
  <2>3. \A q \in Cancellations :
          EntityBefore(q, Here') <=> EntityBefore(q, Here) \/ q = here
    <3> SUFFICES ASSUME NEW q \in Cancellations
                 PROVE  EntityBefore(q, Here') <=> EntityBefore(q, Here) \/ q = here
      OBVIOUS
    <3>1. q \in Told
      BY DEF Cancellations
    <3>2. q[1] \in Nat /\ q[2] \in Nat /\ q = <<q[1], q[2]>>
      BY <3>1, ToldPosition
    <3> QED
      BY <1>1, <1>2, <3>2, EntityHere DEF EntityBefore
  <2>4. /\ observed'.cancelled = observed.cancelled \cup {Entity.trip}
        /\ observed'.skipped = observed.skipped
        /\ observed'.delays = observed.delays
    BY <1>5 DEF CollectTrip, ObservedOK
  <2> HIDE DEF here
  <2>5. observed'.cancelled =
          {EntityAt(p).trip : p \in {q \in Cancellations : EntityBefore(q, Here')}}
    BY <1>1, <2>2, <2>3, <2>4 DEF Collected
  <2>6. {q \in Reports : Earlier(q, Here') /\ UpdateAt(q).skipped}
         = {q \in Reports : Earlier(q, Here) /\ UpdateAt(q).skipped}
    BY <1>3
  <2>7. \A r \in Reports : LastDelay(r, Here') <=> LastDelay(r, Here)
    BY <1>3 DEF LastDelay
  <2> QED
    BY <1>1, <1>3, <2>4, <2>5, <2>6, <2>7 DEF Collected
<1> QED
  BY <1>4, <1>5

(* What one stop_time_update adds to the observations.                     *)
LEMMA Observed ==
  ASSUME ObservedOK, NEW trip \in Int, NEW u \in Updates, u.sequence # Missing,
         observed' = Observe(trip, observed, u)
  PROVE  LET key == <<trip, u.sequence>>
             tells == ~u.skipped /\ (u.delay[1] # Missing \/ u.delay[2] # Missing)
         IN  /\ observed'.cancelled = observed.cancelled
             /\ observed'.skipped = IF u.skipped THEN observed.skipped \cup {key}
                                    ELSE observed.skipped
             /\ ~tells => observed'.delays = observed.delays
             /\ tells =>
                  /\ DOMAIN observed'.delays = DOMAIN observed.delays \cup {key}
                  /\ observed'.delays[key] =
                       IF u.delay[1] # Missing THEN u.delay[1] ELSE u.delay[2]
                  /\ \A k \in DOMAIN observed.delays :
                       k # key => observed'.delays[k] = observed.delays[k]
<1> DEFINE key == <<trip, u.sequence>>
           told == IF u.delay[1] # Missing THEN u.delay[1] ELSE u.delay[2]
           tells == ~u.skipped /\ (u.delay[1] # Missing \/ u.delay[2] # Missing)
<1>1. u.delay \in Optional \X Optional /\ u.skipped \in BOOLEAN
  BY DEF Updates
<1>2. Delay(u) = told
  BY <1>1, FirstOfTwo DEF Delay
<1>3. told # Missing <=> (u.delay[1] # Missing \/ u.delay[2] # Missing)
  OBVIOUS
<1>4. key \in Keys
  BY DEF Updates, Optional, Keys
<1>5. told # Missing => told \in Int
  BY <1>1 DEF Optional
<1> HIDE DEF key, told
<1>6. CASE u.skipped
  BY <1>1, <1>6 DEF Observe, ObservedOK, key
<1>7. CASE ~u.skipped /\ told = Missing
  <2>1. \/ observed' = observed
        \/ observed' = [observed EXCEPT !.estimated = Put(@, key, EstimatedTime(u))]
    BY <1>2, <1>7 DEF Observe, key
  <2> QED
    BY <1>3, <1>7, <2>1 DEF ObservedOK
<1>8. CASE ~u.skipped /\ told # Missing
  <2> DEFINE rows == observed.delays
             put == Put(rows, key, told)
  <2>1. observed' = [observed EXCEPT !.delays = put]
    BY <1>2, <1>8 DEF Observe, key
  <2>2. /\ observed'.delays = put /\ observed'.cancelled = observed.cancelled
        /\ observed'.skipped = observed.skipped
    BY <2>1 DEF ObservedOK
  <2>3. /\ DOMAIN put = DOMAIN rows \cup {key}
        /\ put[key] = told
        /\ \A k \in DOMAIN rows : k # key => put[k] = rows[k]
    <3>1. put = [k \in DOMAIN rows \cup {key} |-> IF k = key THEN told ELSE rows[k]]
      BY DEF Put
    <3> HIDE DEF rows, put
    <3> QED
      BY <3>1
  <2> HIDE DEF put
  <2>4. tells
    BY <1>3, <1>8
  <2> QED
    BY <1>8, <2>2, <2>3, <2>4 DEF key, told
<1> QED
  BY <1>6, <1>7, <1>8

(* Reading a stop_time_update adds what it reports.                        *)
LEMMA CollectUpdateStep ==
  ASSUME PositionOK, ObservedOK, CollectInv, CollectUpdate
  PROVE  Collected(observed', Here')
<1> USE DEF PositionOK
<1> DEFINE here == <<feed, entity, update>>
           u == Entity.updates[update]
<1>1. AtEntity /\ Collected(observed, Here)
  BY DEF CollectUpdate, AtEntity, CollectInv
<1>2. /\ Here = here /\ Here' = <<feed, entity, update + 1>>
      /\ update \in DOMAIN Entity.updates
      /\ feed \in Nat /\ entity \in Nat /\ update \in Nat
  BY <1>1, EntityHere DEF CollectUpdate, Here, AtEntity
<1>3. /\ Entity.trip # Missing /\ ~Entity.cancelled /\ Entity.trip \in Int
      /\ u \in Updates
      /\ observed' = Observe(Entity.trip, observed, u)
  BY <1>1, <1>2, EntityHere DEF CollectUpdate, Optional
<1>4. EntityAt(here) = Entity /\ UpdateAt(here) = u
  BY DEF EntityAt, UpdateAt, Entity, Payload
<1>5. \A q \in Cancellations : EntityBefore(q, Here') <=> EntityBefore(q, Here)
  BY <1>2 DEF EntityBefore
<1>6. {q \in Cancellations : EntityBefore(q, Here')}
       = {q \in Cancellations : EntityBefore(q, Here)}
  BY <1>5
<1>7. \A r \in Reports : Earlier(r, Here') <=> Earlier(r, Here) \/ r = here
  <2> SUFFICES ASSUME NEW r \in Reports
               PROVE  Earlier(r, Here') <=> Earlier(r, Here) \/ r = here
    OBVIOUS
  <2>1. r[1] \in Nat /\ r[2] \in Nat /\ r[3] \in Nat /\ r = <<r[1], r[2], r[3]>>
    BY ReportPosition
  <2> QED
    BY <1>2, <2>1 DEF Earlier
<1>8. CASE u.sequence = Missing
  <2>1. observed' = observed
    BY <1>3, <1>8 DEF Observe
  <2>2. here \notin Reports
    BY <1>4, <1>8, ReportPosition
  <2>3. \A r \in Reports : Earlier(r, Here') <=> Earlier(r, Here)
    BY <1>7, <2>2
  <2> QED
    BY <1>1, <1>5, <2>1, <2>3, NothingNew
<1>9. CASE u.sequence # Missing
  <2>1. here \in Reports
    BY <1>1, <1>2, <1>3, <1>9, ReportHere
  <2> DEFINE key == <<Entity.trip, u.sequence>>
             told == IF u.delay[1] # Missing THEN u.delay[1] ELSE u.delay[2]
  <2>2. KeyOf(here) = key /\ DelayTold(here) = told
    BY <1>4 DEF KeyOf, DelayTold
  <2>3. /\ observed'.cancelled = observed.cancelled
        /\ observed'.skipped = IF u.skipped THEN observed.skipped \cup {key}
                                 ELSE observed.skipped
        /\ ~TellsDelay(here) => observed'.delays = observed.delays
        /\ TellsDelay(here) =>
             /\ DOMAIN observed'.delays = DOMAIN observed.delays \cup {key}
             /\ observed'.delays[key] = told
             /\ \A k \in DOMAIN observed.delays :
                  k # key => observed'.delays[k] = observed.delays[k]
    <3>1. PICK t \in Int, v \in Updates : t = Entity.trip /\ v = u
      BY <1>3
    <3>2. v.sequence # Missing /\ observed' = Observe(t, observed, v)
      BY <1>3, <1>9, <3>1
    <3> HIDE DEF u
    <3>3. TellsDelay(here) <=>
            ~v.skipped /\ (v.delay[1] # Missing \/ v.delay[2] # Missing)
      BY <1>4, <3>1 DEF TellsDelay
    <3>4. /\ observed'.cancelled = observed.cancelled
          /\ observed'.skipped = IF v.skipped
                THEN observed.skipped \cup {<<t, v.sequence>>} ELSE observed.skipped
          /\ ~TellsDelay(here) => observed'.delays = observed.delays
          /\ TellsDelay(here) =>
               /\ DOMAIN observed'.delays
                    = DOMAIN observed.delays \cup {<<t, v.sequence>>}
               /\ observed'.delays[<<t, v.sequence>>] =
                    IF v.delay[1] # Missing THEN v.delay[1] ELSE v.delay[2]
               /\ \A k \in DOMAIN observed.delays :
                    k # <<t, v.sequence>> => observed'.delays[k] = observed.delays[k]
      BY <3>2, <3>3, Observed
    <3> QED
      BY <3>1, <3>4
  <2> HIDE DEF key, told, here, u
  <2>4. observed'.skipped =
          {KeyOf(r) : r \in {q \in Reports : Earlier(q, Here') /\ UpdateAt(q).skipped}}
    <3>1. CASE u.skipped
      BY <1>1, <1>4, <1>7, <2>1, <2>2, <2>3, <3>1 DEF Collected
    <3>2. CASE ~u.skipped
      <4>1. {q \in Reports : Earlier(q, Here') /\ UpdateAt(q).skipped}
             = {q \in Reports : Earlier(q, Here) /\ UpdateAt(q).skipped}
        BY <1>4, <1>7, <3>2
      <4> QED
        BY <1>1, <2>3, <3>2, <4>1 DEF Collected
    <3> QED
      BY <3>1, <3>2
  <2>5. ASSUME NEW r \in Reports, Earlier(r, Here'), LastDelay(r, Here')
        PROVE  /\ KeyOf(r) \in DOMAIN observed'.delays
               /\ observed'.delays[KeyOf(r)] = DelayTold(r)
    <3>1. CASE r = here
      BY <2>2, <2>3, <2>5, <3>1 DEF LastDelay
    <3>2. CASE r # here
      <4>1. Earlier(r, Here)
        BY <1>7, <2>5, <3>2
      <4>2. LastDelay(r, Here)
        BY <1>7, <2>5 DEF LastDelay
      <4>3. /\ KeyOf(r) \in DOMAIN observed.delays
            /\ observed.delays[KeyOf(r)] = DelayTold(r)
        BY <1>1, <4>1, <4>2 DEF Collected
      <4>4. TellsDelay(here) => KeyOf(r) # key
        BY <1>2, <1>7, <2>1, <2>2, <2>5, <4>1 DEF LastDelay
      <4> QED
        BY <2>3, <4>3, <4>4
    <3> QED
      BY <3>1, <3>2
  <2> QED
    BY <1>1, <1>6, <2>3, <2>4, <2>5 DEF Collected
<1> QED
  BY <1>8, <1>9

(* Leaving an entity or a feed, all of whose reports have been read, tells *)
(* nothing new.                                                            *)
LEMMA FinishEntityStep ==
  ASSUME PositionOK, CollectInv, FinishEntity
  PROVE  Collected(observed', Here')
<1> USE DEF PositionOK
<1>1. AtEntity /\ Collected(observed, Here)
  BY DEF FinishEntity, AtEntity, CollectInv
<1>2. /\ Here = <<feed, entity, update>> /\ Here' = <<feed, entity + 1, 1>>
      /\ feed \in Nat /\ entity \in Nat /\ update \in Nat
      /\ observed' = observed
  BY <1>1, EntityHere DEF FinishEntity, Here, AtEntity
<1>3. \A r \in Reports : Earlier(r, Here') <=> Earlier(r, Here)
  <2> SUFFICES ASSUME NEW r \in Reports
               PROVE  Earlier(r, Here') <=> Earlier(r, Here)
    OBVIOUS
  <2>1. r[1] \in Nat /\ r[2] \in Nat /\ r[3] \in Nat \ {0}
    BY ReportPosition
  <2>2. ASSUME r[1] = feed, r[2] = entity PROVE r[3] < update
    <3>1. r[3] \in DOMAIN Entity.updates
      BY <2>2, ReportPosition DEF EntityAt, Entity, Payload
    <3>2. Len(Entity.updates) \in Nat /\ DOMAIN Entity.updates = 1 .. Len(Entity.updates)
      BY <1>1, EntityHere
    <3> QED
      BY <1>2, <3>1, <3>2 DEF FinishEntity
  <2> QED
    BY <1>2, <2>1, <2>2 DEF Earlier
<1>4. \A q \in Cancellations : EntityBefore(q, Here') <=> EntityBefore(q, Here)
  <2> SUFFICES ASSUME NEW q \in Cancellations
               PROVE  EntityBefore(q, Here') <=> EntityBefore(q, Here)
    OBVIOUS
  <2>1. q \in Told /\ EntityAt(q).cancelled
    BY DEF Cancellations
  <2>2. q[1] \in Nat /\ q[2] \in Nat
    BY <2>1, ToldPosition
  <2>3. q[1] = feed => q[2] # entity
    BY <2>1 DEF EntityAt, Entity, Payload, FinishEntity
  <2> QED
    BY <1>2, <2>2, <2>3 DEF EntityBefore
<1> QED
  BY <1>1, <1>2, <1>3, <1>4, NothingNew

(* Leaving a feed, all of whose entities have been read.                   *)
LEMMA FinishFeedStep ==
  ASSUME PositionOK, CollectInv, FinishFeed
  PROVE  Collected(observed', Here')
<1> USE DEF PositionOK
<1>1. /\ Collected(observed, Here) /\ observed' = observed
      /\ entity > Len(Payload.entities) /\ update = 1
  <2>1. Len(Payload.entities) \in Nat
    BY InputTypes DEF Payload
  <2> QED
    BY <2>1 DEF FinishFeed, CollectInv
<1>2. feed \in Nat /\ Len(input.payloads) \in Nat /\ feed <= Len(input.payloads)
  BY InputTypes
<1>3. Len(Payload.entities) \in Nat /\ entity \in Nat
      /\ DOMAIN Payload.entities = 1 .. Len(Payload.entities)
  BY InputTypes DEF Payload
<1>4. Here = <<feed, entity, 1>> /\ Here' = <<feed + 1, 1, 1>>
  BY <1>1, <1>2 DEF FinishFeed, GoOn, Here
<1>5. \A r \in Reports : Earlier(r, Here') <=> Earlier(r, Here)
  <2> SUFFICES ASSUME NEW r \in Reports
               PROVE  Earlier(r, Here') <=> Earlier(r, Here)
    OBVIOUS
  <2>1. r[1] \in Nat /\ r[2] \in Nat \ {0} /\ r[3] \in Nat \ {0}
    BY ReportPosition
  <2>2. r[1] = feed => r[2] < entity
    BY <1>1, <1>3, ReportPosition DEF Payload
  <2> QED
    BY <1>2, <1>3, <1>4, <2>1, <2>2 DEF Earlier
<1>6. \A q \in Cancellations : EntityBefore(q, Here') <=> EntityBefore(q, Here)
  <2> SUFFICES ASSUME NEW q \in Cancellations
               PROVE  EntityBefore(q, Here') <=> EntityBefore(q, Here)
    OBVIOUS
  <2>1. q \in Told
    BY DEF Cancellations
  <2>2. q[1] \in Nat /\ q[2] \in Nat \ {0}
    BY <2>1, ToldPosition
  <2>3. q[1] = feed => q[2] < entity
    BY <1>1, <1>3, <2>1, ToldPosition DEF Payload
  <2> QED
    BY <1>2, <1>3, <1>4, <2>2, <2>3 DEF EntityBefore
<1> QED
  BY <1>1, <1>5, <1>6, NothingNew

(* After the last feed everything has been read.                           *)
LEMMA AllRead ==
  ASSUME PositionOK, phase # "collect"
  PROVE  /\ \A r \in Reports : Earlier(r, Here)
         /\ \A q \in Cancellations : EntityBefore(q, Here)
<1>1. Here = <<Len(input.payloads) + 1, 1, 1>> /\ Len(input.payloads) \in Nat
  BY InputTypes DEF Here, PositionOK
<1>2. \A r \in Reports : r[1] \in Nat /\ r[1] <= Len(input.payloads)
  BY ReportPosition DEF PositionOK
<1>3. \A q \in Cancellations : q[1] \in Nat /\ q[1] <= Len(input.payloads)
  BY ToldPosition DEF Cancellations, PositionOK
<1> QED
  BY <1>1, <1>2, <1>3 DEF Earlier, EntityBefore

(* Every step keeps the observations equal to what has been told so far.   *)
LEMMA CollectStep ==
  ASSUME PositionOK, ObservedOK, CollectInv, [Next]_vars
  PROVE  CollectInv'
<1>1. input' = input
  BY DEF Next, vars, CollectTrip, CollectUpdate, FinishEntity, FinishFeed,
     RefuseFeed, ReplaceDelays, ReplaceMachines, RefuseMachines
<1> SUFFICES ASSUME phase' # "raised" PROVE Collected(observed', Here')
  BY <1>1, Frame
<1>2. CASE CollectTrip
  BY <1>2, CollectTripStep
<1>3. CASE CollectUpdate
  BY <1>3, CollectUpdateStep
<1>4. CASE FinishEntity
  BY <1>4, FinishEntityStep
<1>5. CASE FinishFeed
  BY <1>5, FinishFeedStep
<1>6. CASE ReplaceDelays \/ ReplaceMachines \/ UNCHANGED vars
  <2>1. observed' = observed /\ Here' = Here /\ phase # "raised"
    BY <1>6 DEF ReplaceDelays, ReplaceMachines, Here, vars
  <2> QED
    BY <2>1, NothingNew DEF CollectInv
<1> QED
  BY <1>2, <1>3, <1>4, <1>5, <1>6 DEF Next, RefuseFeed, RefuseMachines

-----------------------------------------------------------------------------
(* Predicted times.                                                        *)

(* Scheduled times are numbers, and more dates have more of them.          *)
LEMMA CandidateFacts ==
  ASSUME input \in Inputs, NEW key, NEW D \in SUBSET Int, NEW E \in SUBSET Int,
         D \cap {sd.date : sd \in input.service_dates} \subseteq E
  PROVE  Candidates(key, D) \subseteq Int /\ Candidates(key, D) \subseteq Candidates(key, E)
<1>1. ASSUME NEW p \in input.departures \X input.service_dates
      PROVE  /\ ScheduledTimestamp(p[2].date, p[1].seconds) \in Int
             /\ p[2].date \in {sd.date : sd \in input.service_dates}
  <2>1. p[1].seconds \in Int /\ p[2].date \in Int /\ p[2] \in input.service_dates
    BY InputsAssumption
  <2> QED
    BY <2>1, DayLengthAssumption DEF ScheduledTimestamp
<1> QED
  BY <1>1 DEF Candidates

(* The window of service dates holds the day of every prediction, the day  *)
(* before it and the day after it.                                         *)
LEMMA WindowHolds ==
  ASSUME ObservedOK, NEW key \in DOMAIN observed.estimated
  PROVE  LET time == observed.estimated[key]
         IN  /\ time \in Int /\ LocalDate(time) \in Int
             /\ LocalDate(time) - 1 .. LocalDate(time) + 1 \subseteq Window(observed.estimated)
             /\ Window(observed.estimated) \subseteq Int
<1> DEFINE est == observed.estimated
           dates == PredictedDates(est)
<1>1. \A k \in DOMAIN est : est[k] \in Int
  BY DEF ObservedOK, Rows
<1>2. \A k \in DOMAIN est : LocalDate(est[k]) \in Int
  BY <1>1, DayLengthAssumption DEF LocalDate
<1>3. dates \subseteq Int /\ LocalDate(est[key]) \in dates
  BY <1>2 DEF PredictedDates
<1>4. IsFiniteSet(dates)
  <2> DEFINE f == [k \in DOMAIN est |-> LocalDate(est[k])]
  <2>1. f \in Surjection(DOMAIN est, dates)
    BY DEF Surjection, PredictedDates
  <2> QED
    BY <2>1, FS_Surjection DEF ObservedOK
<1>5. Window(est) = Min(dates) - 1 .. Max(dates) + 1
  BY DEF Window
<1> HIDE DEF est, dates
<1>6. dates # {}
  BY <1>3
<1>7. /\ Min(dates) \in dates /\ \A d \in dates : Min(dates) <= d
      /\ Max(dates) \in dates /\ \A d \in dates : d <= Max(dates)
  BY <1>3, <1>4, <1>6, FiniteBounds DEF Min, Max
<1>8. Min(dates) \in Int /\ Max(dates) \in Int
  BY <1>3, <1>7
<1>9. LocalDate(est[key]) - 1 .. LocalDate(est[key]) + 1 \subseteq Window(est)
  <2> DEFINE d == LocalDate(est[key])
             first == Min(dates)
             last == Max(dates)
  <2>1. /\ d \in Int /\ first \in Int /\ last \in Int
        /\ first <= d /\ d <= last
    BY <1>3, <1>7, <1>8
  <2>2. Window(est) = first - 1 .. last + 1
    BY <1>5
  <2> HIDE DEF d, first, last
  <2>3. d - 1 .. d + 1 \subseteq Window(est)
    BY <2>1, <2>2
  <2> QED
    BY <2>3 DEF d
<1> QED
  BY <1>1, <1>2, <1>5, <1>8, <1>9 DEF est

(* Computed delays are numbers, reported ones are kept.                    *)
LEMMA ReplaceDelaysStep ==
  ASSUME PositionOK, ObservedOK, ReplaceDelays
  PROVE  /\ realtime'.delays \in Rows
         /\ realtime'.cancelled = observed.cancelled
         /\ realtime'.skipped = observed.skipped
         /\ \A k \in DOMAIN observed.delays :
              k \in DOMAIN realtime'.delays /\ realtime'.delays[k] = observed.delays[k]
         /\ \A k \in DOMAIN observed.estimated \ DOMAIN observed.delays :
              LET time == observed.estimated[k]
                  near == Nearest(time, Candidates(k, Window(observed.estimated)))
              IN  near # {} =>
                    /\ k \in DOMAIN realtime'.delays
                    /\ \E c \in near : realtime'.delays[k] = time - c
<1> DEFINE est == observed.estimated
           times(k) == Nearest(est[k], Candidates(k, Window(est)))
           keys == {k \in DOMAIN est : times(k) # {}}
           told == observed.delays
<1>1. PICK scheduled \in [keys -> UNION {times(k) : k \in keys}] :
        /\ \A k \in keys : scheduled[k] \in times(k)
        /\ realtime' =
             [delays |-> [k \in DOMAIN told \cup keys |->
                            IF k \in DOMAIN told THEN told[k]
                            ELSE est[k] - scheduled[k]],
              cancelled |-> observed.cancelled, skipped |-> observed.skipped]
  BY DEF ReplaceDelays
<1>2. \A k \in DOMAIN est : est[k] \in Int /\ times(k) \subseteq Int
  <2> SUFFICES ASSUME NEW k \in DOMAIN est
               PROVE  est[k] \in Int /\ times(k) \subseteq Int
    OBVIOUS
  <2>1. est[k] \in Int /\ Window(est) \subseteq Int
    BY WindowHolds
  <2>2. PICK W \in SUBSET Int : W = Window(est)
    BY <2>1
  <2>3. Candidates(k, W) \subseteq Int
    BY CandidateFacts DEF PositionOK
  <2> QED
    BY <2>1, <2>2, <2>3 DEF Nearest
<1>3. DOMAIN told \subseteq Keys /\ DOMAIN est \subseteq Keys
      /\ \A k \in DOMAIN told : told[k] \in Int
  BY DEF ObservedOK, Rows
<1> HIDE DEF est, told, times
<1>4. \A k \in keys : scheduled[k] \in Int /\ est[k] \in Int
  BY <1>1, <1>2
<1>5. realtime'.delays \in [DOMAIN told \cup keys -> Int]
  BY <1>1, <1>3, <1>4
<1>6. DOMAIN told \cup keys \in SUBSET Keys
  BY <1>3
<1>7. realtime'.delays \in Rows
  BY <1>5, <1>6 DEF Rows
<1>8. /\ realtime'.cancelled = observed.cancelled
      /\ realtime'.skipped = observed.skipped
      /\ \A k \in DOMAIN told :
           k \in DOMAIN realtime'.delays /\ realtime'.delays[k] = told[k]
      /\ \A k \in keys \ DOMAIN told :
           /\ k \in DOMAIN realtime'.delays
           /\ realtime'.delays[k] = est[k] - scheduled[k]
           /\ scheduled[k] \in times(k)
  BY <1>1
<1> QED
  BY <1>7, <1>8 DEF est, told, times

(* The occurrence that is strictly the nearest of all is among the         *)
(* candidates and the only one that is nearest among them.                 *)
LEMMA PredictionStep ==
  ASSUME PositionOK, ObservedOK, ReplaceDelays
  PROVE  PredictionsFindTheirOccurrence'
<1>1. UNCHANGED <<input, observed>>
  BY DEF ReplaceDelays
<1> SUFFICES ASSUME NEW key \in DOMAIN observed.estimated \ DOMAIN observed.delays,
                    NEW c \in Candidates(key,
                          LocalDate(observed.estimated[key]) - 1
                            .. LocalDate(observed.estimated[key]) + 1),
                    \A other \in Candidates(key, {sd.date : sd \in input.service_dates}) \ {c} :
                      Distance(observed.estimated[key], c)
                        < Distance(observed.estimated[key], other)
             PROVE  /\ key \in DOMAIN realtime'.delays
                    /\ realtime'.delays[key] = observed.estimated[key] - c
  BY <1>1 DEF PredictionsFindTheirOccurrence, Candidates
<1> DEFINE time == observed.estimated[key]
           all == {sd.date : sd \in input.service_dates}
           near == LocalDate(time) - 1 .. LocalDate(time) + 1
           window == Window(observed.estimated)
<1>2. /\ time \in Int /\ near \subseteq window /\ window \in SUBSET Int
      /\ near \in SUBSET Int
  BY WindowHolds
<1>3. all \in SUBSET Int
  BY InputsAssumption DEF PositionOK
<1>4. PICK N \in SUBSET Int, W \in SUBSET Int, A \in SUBSET Int :
        N = near /\ W = window /\ A = all
  BY <1>2, <1>3
<1>5. Candidates(key, N) \subseteq Candidates(key, W)
  BY <1>2, <1>4, CandidateFacts DEF PositionOK
<1>6. Candidates(key, W) \subseteq Candidates(key, A) /\ Candidates(key, W) \subseteq Int
  BY <1>4, CandidateFacts DEF PositionOK
<1>7. c \in Candidates(key, W)
  BY <1>4, <1>5
<1> HIDE DEF time, all, near, window
<1>8. \A d \in Candidates(key, W) \ {c} : Distance(time, c) < Distance(time, d)
  BY <1>4, <1>6 DEF time, all
<1>9. \A d \in Candidates(key, W) : d \in Int /\ Distance(time, d) \in Int
  BY <1>2, <1>6 DEF Distance
<1>10. Nearest(time, Candidates(key, W)) = {c}
  <2> DEFINE dist(d) == Distance(time, d)
             C == Candidates(key, W)
  <2>1. /\ c \in C
        /\ \A d \in C : dist(d) \in Int
        /\ \A d \in C \ {c} : dist(c) < dist(d)
    BY <1>7, <1>8, <1>9
  <2>2. Nearest(time, C) = {d \in C : \A other \in C : dist(d) <= dist(other)}
    BY DEF Nearest
  <2> HIDE DEF dist, C
  <2>3. c \in Nearest(time, C)
    BY <2>1, <2>2
  <2>4. \A d \in Nearest(time, C) : d = c
    BY <2>1, <2>2
  <2> QED
    BY <2>3, <2>4 DEF C
<1>11. /\ key \in DOMAIN realtime'.delays
       /\ \E d \in Nearest(time, Candidates(key, W)) : realtime'.delays[key] = time - d
  BY <1>4, <1>10, ReplaceDelaysStep DEF time, window
<1> QED
  BY <1>10, <1>11 DEF time

(* What ReportsAreKept says of the tables.                                 *)
Kept(table) ==
  /\ table.cancelled = {EntityAt(p).trip : p \in Cancellations}
  /\ table.skipped = {KeyOf(r) : r \in {q \in Reports : UpdateAt(q).skipped}}
  /\ \A r \in Reports :
       /\ TellsDelay(r)
       /\ \A q \in Reports : Earlier(r, q) /\ TellsDelay(q) => KeyOf(q) # KeyOf(r)
       => /\ KeyOf(r) \in DOMAIN table.delays
          /\ table.delays[KeyOf(r)] = DelayTold(r)

(* The documents do not change, so neither does what is to be kept.        *)
LEMMA KeptFrame ==
  ASSUME input' = input
  PROVE  ReportsAreKept' <=> (Written' => Kept(realtime'))
BY DEF ReportsAreKept, Kept, Reports, Cancellations, Live, Told, EntityAt,
       UpdateAt, KeyOf, TellsDelay, DelayTold, Earlier

(* What has been collected is what the tables hold.                        *)
LEMMA ReportsStep ==
  ASSUME PositionOK, ObservedOK, CollectInv, ReplaceDelays
  PROVE  ReportsAreKept'
<1>1. Collected(observed, Here) /\ input' = input
  BY DEF ReplaceDelays, CollectInv
<1>2. /\ \A r \in Reports : Earlier(r, Here)
      /\ \A q \in Cancellations : EntityBefore(q, Here)
  BY AllRead DEF ReplaceDelays
<1>3. /\ realtime'.cancelled = observed.cancelled
      /\ realtime'.skipped = observed.skipped
      /\ \A k \in DOMAIN observed.delays :
           k \in DOMAIN realtime'.delays /\ realtime'.delays[k] = observed.delays[k]
  BY ReplaceDelaysStep
<1>4. realtime'.cancelled = {EntityAt(p).trip : p \in Cancellations}
  <2>1. {q \in Cancellations : EntityBefore(q, Here)} = Cancellations
    BY <1>2
  <2> QED
    BY <1>1, <1>3, <2>1 DEF Collected
<1>5. realtime'.skipped = {KeyOf(r) : r \in {q \in Reports : UpdateAt(q).skipped}}
  <2>1. {q \in Reports : Earlier(q, Here) /\ UpdateAt(q).skipped}
         = {q \in Reports : UpdateAt(q).skipped}
    BY <1>2
  <2> QED
    BY <1>1, <1>3, <2>1 DEF Collected
<1>6. ASSUME NEW r \in Reports, TellsDelay(r),
             \A q \in Reports : Earlier(r, q) /\ TellsDelay(q) => KeyOf(q) # KeyOf(r)
      PROVE  /\ KeyOf(r) \in DOMAIN realtime'.delays
             /\ realtime'.delays[KeyOf(r)] = DelayTold(r)
  BY <1>1, <1>2, <1>3, <1>6 DEF Collected, LastDelay
<1>7. Kept(realtime')
  BY <1>4, <1>5, <1>6 DEF Kept
<1> QED
  BY <1>1, <1>7, KeptFrame

-----------------------------------------------------------------------------
(* The inductive invariant.                                                *)

(* Until a table is replaced it is the old one, and a feed that has been   *)
(* read was valid.                                                         *)
FailureInv ==
  /\ phase # "done" => machines = OldMachines
  /\ phase \in {"collect", "replace"} => realtime = OldRealtime
  /\ \A f \in DOMAIN input.payloads :
       f < feed \/ phase \in {"replace", "machines", "done"} => input.payloads[f].valid
  /\ FailureKeepsTheRest

(* The machines are those of an accepted document, a row for each record.  *)
MachinesInv ==
  phase = "done" =>
    ~RepeatsIdentifier /\ machines = {MachineRow(k) : k \in DOMAIN Records}

IInv ==
  /\ PositionOK /\ ObservedOK /\ TablesOK
  /\ CollectInv /\ FailureInv /\ MachinesInv
  /\ ReportsAreKept /\ PredictionsFindTheirOccurrence

(* Nothing has been read at first.                                         *)
LEMMA InitIInv == Init => IInv
<1> SUFFICES ASSUME Init PROVE IInv
  OBVIOUS
<1>1. input \in Inputs /\ phase = "collect" /\ feed = 1 /\ entity = 1 /\ update = 1
  BY DEF Init
<1>2. PositionOK
  BY <1>1, InputTypes DEF PositionOK, Payload
<1>3. NoRows \in Rows /\ DOMAIN NoRows = {}
  <2>1. NoRows \in [{} -> Int] /\ {} \in SUBSET Keys
    BY DEF NoRows
  <2> QED
    BY <2>1 DEF Rows, NoRows
<1>4. ObservedOK
  BY <1>3, FS_EmptySet DEF Init, ObservedOK, NoObservations
<1>5. TablesOK
  <2>1. OldRealtime.delays \in [{<<0, 0>>} -> Int] /\ {<<0, 0>>} \in SUBSET Keys
    BY DEF OldRealtime, Keys
  <2> QED
    BY <2>1 DEF Init, TablesOK, Rows, OldMachines
<1>6. CollectInv
  <2>1. Here = <<1, 1, 1>>
    BY <1>1 DEF Here
  <2>2. \A q \in Cancellations : ~EntityBefore(q, Here)
    <3> SUFFICES ASSUME NEW q \in Cancellations PROVE ~EntityBefore(q, Here)
      OBVIOUS
    <3>1. q[1] \in Nat \ {0} /\ q[2] \in Nat \ {0}
      BY <1>1, ToldPosition DEF Cancellations
    <3> QED
      BY <2>1, <3>1 DEF EntityBefore
  <2>3. \A r \in Reports : ~Earlier(r, Here)
    <3> SUFFICES ASSUME NEW r \in Reports PROVE ~Earlier(r, Here)
      OBVIOUS
    <3>1. r[1] \in Nat \ {0} /\ r[2] \in Nat \ {0} /\ r[3] \in Nat \ {0}
      BY <1>1, ReportPosition
    <3> QED
      BY <2>1, <3>1 DEF Earlier
  <2>4. observed.cancelled = {} /\ observed.skipped = {}
    BY DEF Init, NoObservations
  <2> QED
    BY <2>2, <2>3, <2>4 DEF CollectInv, Collected
<1>7. FailureInv
  <2>1. \A f \in DOMAIN input.payloads : ~(f < feed)
    BY <1>1, InputTypes
  <2> QED
    BY <1>1, <2>1 DEF Init, FailureInv, FailureKeepsTheRest
<1> QED
  BY <1>1, <1>2, <1>4, <1>5, <1>6, <1>7
     DEF IInv, MachinesInv, ReportsAreKept, PredictionsFindTheirOccurrence, Written

(* The position stays within the documents.                                *)
LEMMA PositionStep ==
  ASSUME PositionOK, [Next]_vars
  PROVE  PositionOK'
<1> USE DEF PositionOK
<1>1. Len(input.payloads) \in Nat \ {0} /\ DOMAIN input.payloads = 1 .. Len(input.payloads)
  BY InputTypes
<1>2. Len(Payload.entities) \in Nat
  BY InputTypes DEF Payload
<1>3. CASE CollectTrip
  <2>1. update = 1
    BY <1>3 DEF CollectTrip
  <2> QED
    BY <1>2, <1>3, <2>1 DEF CollectTrip, AtEntity, Payload
<1>4. CASE CollectUpdate
  <2>1. AtEntity
    BY <1>4 DEF CollectUpdate
  <2>2. update \in Nat \ {0} /\ Len(Entity.updates) \in Nat
    BY <2>1, EntityHere
  <2>3. /\ UNCHANGED <<input, phase, feed, entity>>
        /\ update' = update + 1 /\ update <= Len(Entity.updates)
        /\ Entity.trip # Missing /\ ~Entity.cancelled
    BY <1>4 DEF CollectUpdate
  <2>4. Payload' = Payload /\ Entity' = Entity
    BY <2>3 DEF Payload, Entity
  <2>5. update' \in 1 .. Len(Entity.updates) + 1
    BY <2>2, <2>3
  <2>6. entity <= Len(Payload.entities)
    BY <2>1 DEF AtEntity
  <2> QED
    BY <2>3, <2>4, <2>5, <2>6
<1>5. CASE FinishEntity
  BY <1>2, <1>5 DEF FinishEntity, AtEntity, Payload
<1>6. CASE FinishFeed
  <2>1. update = 1
    BY <1>2, <1>6 DEF FinishFeed
  <2>2. feed' \in DOMAIN input'.payloads /\ phase' \in {"collect", "replace"}
    BY <1>1, <1>6 DEF FinishFeed, GoOn
  <2>3. Len(Payload'.entities) \in Nat
    BY <1>6, <2>2, InputTypes DEF FinishFeed, Payload
  <2> QED
    BY <1>6, <2>1, <2>2, <2>3 DEF FinishFeed
<1>7. CASE RefuseFeed \/ ReplaceDelays \/ ReplaceMachines \/ RefuseMachines
  BY <1>7 DEF RefuseFeed, ReplaceDelays, ReplaceMachines, RefuseMachines,
     Payload, Entity
<1>8. CASE UNCHANGED vars
  BY <1>8 DEF vars, Payload, Entity
<1> QED
  BY <1>3, <1>4, <1>5, <1>6, <1>7, <1>8 DEF Next

(* The observations and the tables stay in their types.                    *)
LEMMA TablesStep ==
  ASSUME PositionOK, ObservedOK, TablesOK, [Next]_vars
  PROVE  ObservedOK' /\ TablesOK'
<1>1. CASE CollectTrip
  <2>1. Entity.trip = Missing \/ Entity.trip \in Int
    BY <1>1, EntityHere DEF CollectTrip, Optional
  <2> QED
    BY <1>1, <2>1 DEF CollectTrip, ObservedOK, TablesOK
<1>2. CASE CollectUpdate
  <2>1. /\ AtEntity /\ Entity.trip # Missing /\ update <= Len(Entity.updates)
    BY <1>2 DEF CollectUpdate
  <2>2. update \in DOMAIN Entity.updates
    BY <2>1, EntityHere
  <2>3. PICK t \in Int, u \in Updates : t = Entity.trip /\ u = Entity.updates[update]
    BY <2>1, <2>2, EntityHere DEF Optional
  <2>4. observed' = Observe(t, observed, u)
    BY <1>2, <2>3 DEF CollectUpdate
  <2>5. ObservedOK'
    BY <2>4, ObserveTypes DEF ObservedOK
  <2> QED
    BY <1>2, <2>5 DEF CollectUpdate, TablesOK
<1>3. CASE ReplaceDelays
  BY <1>3, ReplaceDelaysStep DEF ReplaceDelays, ObservedOK, TablesOK
<1>4. CASE ReplaceMachines
  <2>1. ASSUME NEW k \in DOMAIN Records PROVE MachineRow(k).id \in Nat
    <3>1. Records \in Seq(Machines)
      BY InputsAssumption DEF Records, PositionOK
    <3>2. Records[k] \in Machines /\ k \in Nat
      BY <3>1
    <3>3. Records[k].id \in ({Missing} \cup Nat) \X ({Missing} \cup Nat)
      BY <3>2 DEF Machines
    <3>4. PICK fields \in ({Missing} \cup Nat) \X ({Missing} \cup Nat) :
            fields = Records[k].id
      BY <3>3
    <3>5. FirstKnown(fields) \in {Missing} \cup Nat
      BY FirstOfTwo
    <3> QED
      BY <3>2, <3>4, <3>5 DEF MachineRow
  <2> QED
    BY <1>4, <2>1 DEF ReplaceMachines, ObservedOK, TablesOK
<1>5. CASE FinishEntity \/ FinishFeed \/ RefuseFeed \/ RefuseMachines \/ UNCHANGED vars
  BY <1>5 DEF FinishEntity, FinishFeed, RefuseFeed, RefuseMachines, vars,
     ObservedOK, TablesOK
<1> QED
  BY <1>1, <1>2, <1>3, <1>4, <1>5 DEF Next

(* A failure keeps what has not been replaced.                             *)
LEMMA FailureStep ==
  ASSUME PositionOK, FailureInv, [Next]_vars
  PROVE  FailureInv'
<1> USE DEF FailureInv, FailureKeepsTheRest, PositionOK
<1>1. \A f \in DOMAIN input.payloads :
        f \in Nat /\ f <= Len(input.payloads) /\ Len(input.payloads) \in Nat
  BY InputTypes
<1>2. CASE CollectTrip \/ CollectUpdate \/ FinishEntity
  BY <1>2 DEF CollectTrip, CollectUpdate, FinishEntity, AtEntity
<1>3. CASE FinishFeed
  <2>1. /\ input' = input /\ Payload.valid /\ phase = "collect"
        /\ realtime' = realtime /\ machines' = machines
        /\ \/ feed < Len(input.payloads) /\ feed' = feed + 1 /\ phase' = "collect"
           \/ feed >= Len(input.payloads) /\ feed' = feed /\ phase' = "replace"
    BY <1>1, <1>3 DEF FinishFeed, GoOn
  <2>2. \A f \in DOMAIN input.payloads : f <= feed => input.payloads[f].valid
    BY <1>1, <2>1 DEF Payload
  <2> QED
    BY <1>1, <2>1, <2>2
<1>4. CASE RefuseFeed
  BY <1>4 DEF RefuseFeed
<1>5. CASE ReplaceDelays
  BY <1>5 DEF ReplaceDelays
<1>6. CASE ReplaceMachines \/ RefuseMachines
  BY <1>6 DEF ReplaceMachines, RefuseMachines
<1>7. CASE UNCHANGED vars
  BY <1>7 DEF vars
<1> QED
  BY <1>2, <1>3, <1>4, <1>5, <1>6, <1>7 DEF Next

(* Once written, the machines are the rows of the document.                *)
LEMMA MachinesStep ==
  ASSUME MachinesInv, [Next]_vars
  PROVE  MachinesInv'
<1>1. CASE ReplaceMachines
  BY <1>1 DEF ReplaceMachines, MachinesInv, RepeatsIdentifier, MachineRow, Records
<1>2. CASE phase' # "done"
  BY <1>2 DEF MachinesInv
<1>3. CASE UNCHANGED vars
  BY <1>3 DEF vars, MachinesInv, RepeatsIdentifier, MachineRow, Records
<1> QED
  BY <1>1, <1>2, <1>3 DEF Next, CollectTrip, CollectUpdate, FinishEntity,
     FinishFeed, GoOn, RefuseFeed, ReplaceDelays, RefuseMachines, AtEntity

(* What the real-time tables hold stays as it was written.                 *)
LEMMA WrittenStep ==
  ASSUME PositionOK, ObservedOK, CollectInv, ReportsAreKept,
         PredictionsFindTheirOccurrence, [Next]_vars
  PROVE  ReportsAreKept' /\ PredictionsFindTheirOccurrence'
<1>1. CASE ReplaceDelays
  BY <1>1, ReportsStep, PredictionStep
<1>2. CASE ReplaceMachines \/ UNCHANGED vars
  <2>1. UNCHANGED <<input, observed, realtime>> /\ (Written' => Written)
    BY <1>2 DEF ReplaceMachines, vars, Written
  <2>2. ReportsAreKept'
    BY <2>1, KeptFrame DEF ReportsAreKept, Kept
  <2>3. PredictionsFindTheirOccurrence'
    BY <2>1 DEF PredictionsFindTheirOccurrence, Candidates
  <2> QED
    BY <2>2, <2>3
<1>3. CASE phase' \notin {"machines", "done"}
  BY <1>3 DEF ReportsAreKept, PredictionsFindTheirOccurrence, Written
<1> QED
  BY <1>1, <1>2, <1>3 DEF Next, CollectTrip, CollectUpdate, FinishEntity,
     FinishFeed, GoOn, RefuseFeed, RefuseMachines, AtEntity

-----------------------------------------------------------------------------
(* The theorems.                                                           *)

(* The strengthened invariant holds after every step.                      *)
THEOREM Invariance == Spec => []IInv
<1>1. Init => IInv
  BY InitIInv
<1>2. IInv /\ [Next]_vars => IInv'
  <2> SUFFICES ASSUME IInv, [Next]_vars PROVE IInv'
    OBVIOUS
  <2>1. /\ PositionOK /\ ObservedOK /\ TablesOK /\ CollectInv /\ FailureInv
        /\ MachinesInv /\ ReportsAreKept /\ PredictionsFindTheirOccurrence
    BY DEF IInv
  <2>2. PositionOK'
    BY <2>1, PositionStep
  <2>3. ObservedOK' /\ TablesOK'
    BY <2>1, TablesStep
  <2>4. CollectInv'
    BY <2>1, CollectStep
  <2>5. FailureInv'
    BY <2>1, FailureStep
  <2>6. MachinesInv'
    BY <2>1, MachinesStep
  <2>7. ReportsAreKept' /\ PredictionsFindTheirOccurrence'
    BY <2>1, WrittenStep
  <2> QED
    BY <2>2, <2>3, <2>4, <2>5, <2>6, <2>7 DEF IInv
<1> QED
  BY <1>1, <1>2, PTL DEF Spec

(* The reading stays within the documents, delays are numbers and machine  *)
(* identifiers as well.                                                    *)
THEOREM TypeCorrect == Spec => []TypeOK
<1>1. IInv => TypeOK
  <2> SUFFICES ASSUME IInv PROVE TypeOK
    OBVIOUS
  <2>1. \A key \in DOMAIN realtime.delays : realtime.delays[key] \in Int
    BY DEF IInv, TablesOK, Rows
  <2> QED
    BY <2>1 DEF IInv, PositionOK, TablesOK, TypeOK
<1> QED
  BY <1>1, Invariance, PTL

(* What the feeds say of cancellations, skipped stops and delays is what   *)
(* the real-time tables say, the later report of a delay for the earlier.  *)
THEOREM ReportsTheorem == Spec => []ReportsAreKept
<1>1. IInv => ReportsAreKept
  BY DEF IInv
<1> QED
  BY <1>1, Invariance, PTL

(* A predicted time becomes the delay of the occurrence it is nearest to,  *)
(* for every schedule and every set of predictions.                        *)
THEOREM PredictionsTheorem == Spec => []PredictionsFindTheirOccurrence
<1>1. IInv => PredictionsFindTheirOccurrence
  BY DEF IInv
<1> QED
  BY <1>1, Invariance, PTL

(* A failed refresh keeps what it has not replaced as a whole.             *)
THEOREM FailureTheorem == Spec => []FailureKeepsTheRest
<1>1. IInv => FailureKeepsTheRest
  BY DEF IInv, FailureInv
<1> QED
  BY <1>1, Invariance, PTL

(* A document of n machines that is accepted leaves n rows, one for each:  *)
(* their numbering is a bijection.                                         *)
THEOREM MachinesTheorem == Spec => []NoMachineIsLost
<1>1. IInv => NoMachineIsLost
  <2> SUFFICES ASSUME IInv, phase = "done"
               PROVE  /\ Cardinality(machines) = Len(Records)
                      /\ \A m, n \in machines : m.id = n.id => m = n
    BY DEF NoMachineIsLost
  <2>1. /\ \A k, l \in DOMAIN Records : MachineRow(k).id = MachineRow(l).id => k = l
        /\ machines = {MachineRow(k) : k \in DOMAIN Records}
    BY DEF IInv, MachinesInv, RepeatsIdentifier
  <2>2. Records \in Seq(Machines)
    BY InputsAssumption DEF IInv, PositionOK, Records
  <2>3. Len(Records) \in Nat /\ DOMAIN Records = 1 .. Len(Records)
    BY <2>2
  <2> DEFINE row == [k \in 1 .. Len(Records) |-> MachineRow(k)]
  <2>4. row \in Bijection(1 .. Len(Records), machines)
    BY <2>1, <2>3 DEF Bijection, Injection, Surjection, IsInjective
  <2>5. PICK n \in Nat : n = Len(Records)
    BY <2>3
  <2>6. PICK M : M = machines
    OBVIOUS
  <2>7. ExistsBijection(1 .. n, M)
    BY <2>4, <2>5, <2>6 DEF ExistsBijection
  <2>8. Cardinality(M) = n
    BY <2>7, FS_CountingElements
  <2> QED
    BY <2>1, <2>5, <2>6, <2>8
<1> QED
  BY <1>1, Invariance, PTL

=============================================================================
