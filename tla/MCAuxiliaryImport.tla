------------------------- MODULE MCAuxiliaryImport -------------------------
(* Values of the constants of AuxiliaryImport for model checking.  A day   *)
(* has four units.  The documents of the first kind vary what is told of   *)
(* one stop in two feeds, those of the second kind the schedule around one *)
(* or two predictions, those of the third kind the machines.               *)
EXTENDS AuxiliaryImport

None == <<Missing, Missing>>
Update(seq, skipped, delay, time) ==
  [sequence |-> seq, skipped |-> skipped, delay |-> delay, time |-> time]
MCEntity(t, cancelled, updates) ==
  [trip |-> t, cancelled |-> cancelled, updates |-> updates]
Feed(entities) == [valid |-> TRUE, entities |-> entities]
Invalid == [valid |-> FALSE, entities |-> <<>>]

Departure(t, s, secs) == [trip |-> t, sequence |-> 1, service |-> s, seconds |-> secs]
Input(payloads, departures, dates, document) ==
  [payloads |-> payloads, departures |-> departures,
   service_dates |-> {[service |-> 1, date |-> d] : d \in dates},
   document |-> document]

MCUpdates ==
  {Update(1, FALSE, <<2, 1>>, None), Update(1, FALSE, <<Missing, 3>>, <<9, 9>>),
   Update(1, FALSE, None, <<Missing, 9>>), Update(1, TRUE, <<2, 2>>, None),
   Update(Missing, FALSE, <<2, 2>>, None), Update(1, FALSE, None, None)}
MCEntities ==
  {MCEntity(1, FALSE, <<u>>) : u \in MCUpdates}
    \cup {MCEntity(1, TRUE, <<>>),
          MCEntity(Missing, FALSE, <<Update(1, FALSE, <<2, 2>>, None)>>),
          MCEntity(1, FALSE, <<Update(1, TRUE, None, None), Update(1, FALSE, <<4, 1>>, None)>>)}
MCReports ==
  {Input(<<Feed(<<e, f>>), p>>, {Departure(1, 1, 1)}, {1, 2}, Missing) :
     e \in MCEntities, f \in MCEntities, p \in {Feed(<<g>>) : g \in MCEntities} \cup {Invalid}}

Predicted(t, time) ==
  Feed(<<MCEntity(t, FALSE, <<Update(1, FALSE, None, <<time, Missing>>)>>)>>)
MCPredictions ==
  {Input(<<Predicted(1, time)>>, {Departure(1, 1, secs)} \cup d, dates, Missing) :
     time \in 8 .. 15, secs \in 0 .. 7, d \in {{}, {Departure(1, 1, 2)}},
     dates \in SUBSET (0 .. 4)}
    \cup {Input(<<Predicted(1, 8), Predicted(2, time)>>,
                {Departure(1, 1, 7), Departure(2, 1, secs)}, dates, Missing) :
            time \in {6, 10, 17}, secs \in {0, 3, 6}, dates \in SUBSET (0 .. 4)}

Machine(i, n) == [id |-> <<Missing, i>>, name |-> <<n, Missing>>]
MCMachines == {Machine(i, n) : i \in {Missing, 1, 2}, n \in {Missing, 3}}
MCDocuments ==
  {Input(<<Feed(<<>>)>>, {}, {}, document) : document \in SeqOf(MCMachines, 3)}

MCInputs == MCReports \cup MCPredictions \cup MCDocuments

=============================================================================
