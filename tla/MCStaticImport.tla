--------------------------- MODULE MCStaticImport ---------------------------
(* Values of the constants of StaticImport for model checking: batches of  *)
(* two rows, files of up to three rows with equal keys, malformed fields   *)
(* and unknown trips, lists of one and of two archives, some of them short *)
(* of a file or of a field; catalogs of two links around the ends of their *)
(* validity; good and bad command lines.                                   *)
EXTENDS StaticImport

Trip(t, s) == [trip |-> t, service |-> s]
StopTime(t, time) == [trip |-> t, stop |-> 1, sequence |-> 1, time |-> time]
Exception(d, type) == [service |-> 1, date |-> d, type |-> type]

MCTrips == SeqOf({Trip(1, 1), Trip(1, 2), Trip(2, Missing)}, 2)
MCStopTimes ==
  SeqOf({StopTime(1, <<8, 0, 0>>), StopTime(1, <<47, 59, 59>>),
         StopTime(1, <<48, 0, 0>>), StopTime(2, <<8, 0, 0>>)}, 3)
MCCalendars ==
  {<<>>, <<[service |-> 1, start |-> 6, end |-> 8, days |-> {0, 1}]>>,
   <<[service |-> 1, start |-> 6, end |-> 6, days |-> {6}],
     [service |-> 1, start |-> 7, end |-> 6, days |-> 0 .. 6]>>}
MCExceptions ==
  SeqOf({Exception(7, 1), Exception(7, 2), Exception(8, 2), Exception(7, 3)}, 3)

Feed(trips, stop_times, calendar, exceptions) ==
  [trips |-> trips, stop_times |-> stop_times, stops |-> <<1, Missing>>,
   calendar |-> calendar, exceptions |-> exceptions, lacks |-> {}]
Without(feed, file) ==
  [feed EXCEPT !.lacks = {file},
               !.trips = IF file = "trips.txt" THEN <<>> ELSE @,
               !.stop_times = IF file = "stop_times.txt" THEN <<>> ELSE @]

(* A third trip of the second archive, with dates of its own.              *)
OwnTrips == <<Trip(3, 3)>>
OwnDates == <<[service |-> 3, date |-> 9, type |-> 1]>>

MCArchives ==
  {<<Feed(t, st, <<>>, <<>>)>> : t \in MCTrips, st \in MCStopTimes}
    \cup {<<Feed(<<>>, <<>>, c, x)>> : c \in MCCalendars, x \in MCExceptions}
    \cup {<<Feed(<<Trip(1, 1)>>, <<StopTime(1, <<8, 0, 0>>)>>, <<>>, <<Exception(7, 1)>>),
            Feed(t, st, c, <<Exception(8, 2)>>)>> :
            t \in {<<>>, <<Trip(1, 2)>>, <<Trip(2, 1)>>},
            st \in {s \in MCStopTimes : Len(s) <= 2}, c \in MCCalendars}
    \cup {<<Feed(<<Trip(1, 1)>>, <<StopTime(1, <<8, 0, 0>>)>>, <<>>, <<Exception(7, 1)>>),
            Feed(OwnTrips, <<StopTime(t, <<9, 0, 0>>), StopTime(3, <<9, 0, 0>>)>>, <<>>, OwnDates)>> :
            t \in 1 .. 3}
    \cup {<<Feed(<<Trip(1, 1)>>, <<StopTime(1, <<8, 0, 0>>)>>, <<>>, <<Exception(7, 1)>>),
            Without(Feed(OwnTrips, <<StopTime(3, <<9, 0, 0>>)>>, <<>>, OwnDates), file)>> :
            file \in TripFaults \cup StopTimeFaults}

-----------------------------------------------------------------------------
(* A provider of one archive, one with two, and the two with a catalog.    *)
Provider(catalog, additional) ==
  [catalog |-> catalog, static_url |-> 1, additional |-> additional]
MCRegistry ==
  [p |-> Provider("none", <<>>), k |-> Provider("none", <<2>>),
   o |-> Provider("olsztyn", <<>>), w |-> Provider("wroclaw", <<>>)]
Names == {"p", "k", "o", "w", "W", "x"}
MCSlug == [n \in Names |-> IF n = "W" THEN "w" ELSE n]

Arguments(providers, refresh, static_refresh) ==
  [providers |-> providers, refresh |-> refresh, static_refresh |-> static_refresh]
Order(arguments, catalog, today, site) ==
  [arguments |-> arguments, catalog |-> catalog, today |-> today, site |-> site]

Empty == Feed(<<>>, <<>>, <<>>, <<>>)
Site(feeds) == [u \in 1 .. 4 |-> IF u \in DOMAIN feeds THEN feeds[u] ELSE Empty]

Link(u, trusted, start, until) ==
  [url |-> u, trusted |-> trusted, start |-> start, until |-> until]
Ranges ==
  {<<<<2026, 6, 27>>, <<8, 31>>>>, <<<<2026, 7, 31>>, <<8, 31>>>>,
   <<<<2025, 12, 20>>, <<1, 10>>>>, <<<<2025, 8, 31>>, <<8, 30>>>>,
   <<<<2026, 2, 30>>, <<8, 31>>>>, <<<<2025, 3, 1>>, <<2, 29>>>>}
Links(u) == {Link(u, t, r[1], r[2]) : t \in BOOLEAN, r \in Ranges}
Today == {<<2026, 8, 28>>, <<2026, 8, 31>>, <<2026, 1, 5>>, <<2026, 7, 31>>}

MCOrders ==
  {Order(Arguments(<<IF Len(f) = 1 THEN "p" ELSE "k">>, 60, 86400), <<>>, <<2026, 8, 28>>, Site(f)) :
     f \in MCArchives}
    \cup {Order(Arguments(<<"o">>, 60, 86400), <<l, m>>, today, Site(<<>>)) :
            l \in Links(3), m \in Links(4), today \in Today}
    \cup {Order(Arguments(names, refresh, static), catalog, <<2026, 8, 28>>, Site(<<>>)) :
            names \in {<<>>, <<"W">>, <<"k", "k">>, <<"p", "x">>},
            refresh \in {14, 15}, static \in {14, 15, 16},
            catalog \in {<<>>, <<Link(3, FALSE, <<2026, 1, 1>>, <<1, 1>>),
                                Link(4, TRUE, <<2026, 1, 1>>, <<1, 1>>)>>}}

=============================================================================
