-------------------------- MODULE MCScheduleQuery --------------------------
(* Values of the constants of ScheduleQuery for model checking.  A day has *)
(* three units.  Trip 1 runs on any of three days around the request,      *)
(* trip 2 on the day of the request; both may run past midnight.           *)
EXTENDS ScheduleQuery

Name(t, p) == [text |-> t, positions |-> p]
Departure(t, i, s, secs) ==
  [trip |-> t, sequence |-> 1, stop |-> i, service |-> s, seconds |-> secs]

(* The text of name 1 is a part of the text of name 2, and ends it.        *)
MCPartOf == {<<1, 2>>}
MCEndOf == {<<1, 2>>}

Database(second, secs1, secs2, dates, delays, withdrawn) ==
  [stops |-> [i \in 1 .. 2 |-> IF i = 1 THEN Name(1, 0) ELSE second],
   departures |-> {Departure(1, 1, 1, secs1), Departure(2, 2, 2, secs2)},
   service_dates |-> {[service |-> 1, date |-> d] : d \in dates}
                       \cup {[service |-> 2, date |-> 2]},
   delays |-> delays,
   cancelled |-> IF withdrawn = "trip" THEN {1} ELSE {},
   skipped |-> IF withdrawn = "stop" THEN {<<2, 1>>} ELSE {}]

NoDelays == [key \in {} |-> 0]
Delays(d) == [key \in {<<1, 1>>} |-> d]

MCDatabases ==
  {Database(second, secs1, secs2, dates, live[1], live[2]) :
     second \in {Name(1, 0), Name(1, 1), Name(2, 0), Name(2, 1)},
     secs1 \in {0, 2, 3, 5}, secs2 \in {2, 4},
     dates \in {{}, {2}, {1, 2}, {1, 3}, {2, 3}},
     live \in {<<NoDelays, "none">>, <<Delays(-1), "none">>, <<Delays(2), "none">>,
               <<Delays(2), "trip">>, <<NoDelays, "stop">>}}

MCRequests ==
  [today : {2}, time : 0 .. 2, count : {1, 3},
   name : {NoName, Name(1, 0), Name(1, 1), Name(2, 0)}]

=============================================================================
