---------------------------- MODULE ProviderStore ----------------------------
(***************************************************************************)
(* What the shared database promises the API, with no word on how the      *)
(* refresh achieves it.  For each provider there is one served schedule,   *)
(* possibly none yet; it is replaced as a whole and never by an older      *)
(* publication; real-time rows belong to the schedule they are served      *)
(* with, and a replacement drops them.  "Atomically copy one completed     *)
(* worker database into the shared API database" (app/core/refresh.py).    *)
(*                                                                         *)
(* RefreshService and StoreTransactions implement this specification.      *)
(***************************************************************************)
EXTENDS Naturals

CONSTANTS
  Slugs,       \* the provider slugs
  MaxVersion,  \* bound on the publications of one provider
  NoOverlay    \* no real-time rows at all

VARIABLES
  schedule,  \* the publication served for each provider, 0 when none
  stamp,     \* the providers row and its static_updated_at
  overlay,   \* the publication the served real-time rows were computed from
  published  \* the newest publication

vars == <<schedule, stamp, overlay, published>>

Init ==
  /\ schedule = [s \in Slugs |-> 0]
  /\ stamp = [s \in Slugs |-> "noRow"]
  /\ overlay = [s \in Slugs |-> NoOverlay]
  /\ published = [s \in Slugs |-> 1]

(* The row of a provider appears (_ensure_provider).                       *)
Register(s) ==
  /\ stamp[s] = "noRow"
  /\ stamp' = [stamp EXCEPT ![s] = "never"]
  /\ UNCHANGED <<schedule, overlay, published>>

(* The schedule is replaced (_install_static_database).                    *)
Install(s) ==
  /\ stamp[s] # "noRow"
  /\ \E v \in 1 .. published[s] :
       v >= schedule[s] /\ schedule' = [schedule EXCEPT ![s] = v]
  /\ overlay' = [overlay EXCEPT ![s] = NoOverlay]
  /\ stamp' = [stamp EXCEPT ![s] = "fresh"]
  /\ UNCHANGED published

(* The real-time rows are replaced (replace_realtime_delays).              *)
Observe(s) ==
  /\ overlay' = [overlay EXCEPT ![s] = schedule[s]]
  /\ UNCHANGED <<schedule, stamp, published>>

(* The schedule becomes due (_static_refresh_due).                         *)
Expire(s) ==
  /\ stamp[s] = "fresh"
  /\ stamp' = [stamp EXCEPT ![s] = "stale"]
  /\ UNCHANGED <<schedule, overlay, published>>

Publish(s) ==
  /\ published[s] < MaxVersion
  /\ published' = [published EXCEPT ![s] = @ + 1]
  /\ UNCHANGED <<schedule, stamp, overlay>>

Next ==
  \E s \in Slugs :
    Register(s) \/ Install(s) \/ Observe(s) \/ Expire(s) \/ Publish(s)

Spec == Init /\ [][Next]_vars

=============================================================================
