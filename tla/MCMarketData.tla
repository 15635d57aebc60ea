---------------------------- MODULE MCMarketData ----------------------------
(***************************************************************************)
(* Small topics for module MarketData: three matches whose sizes tell     *)
(* which of them a volume counts, after an order's open log or not, and   *)
(* with the last logs stored again after a restart of the engine.         *)
(***************************************************************************)
EXTENDS MarketData

MCMatch(times, prices, n) ==
    [type |-> "match", seq |-> n, time |-> times[n], price |-> prices[n], size |-> 2^(n - 1)]

MCMatches(times, prices) == [n \in 1 .. 3 |-> MCMatch(times, prices, n)]

\* Logs 1 and 2 stored again before log 3.
MCRepeated(ms) == SubSeq(ms, 1, 2) \o ms

\* Preceded by a log of another type.
MCOpened(ms) ==
    <<[type |-> "other", seq |-> 1, time |-> ms[1].time, price |-> 0, size |-> 0]>>
    \o [n \in 1 .. 3 |-> [ms[n] EXCEPT !.seq = n + 1]]

MCTopics ==
    {MCRepeated(MCMatches(<<0, 0, 1>>, <<2, 1, 3>>)),
     MCRepeated(MCMatches(<<1, 2, 2>>, <<2, 3, 1>>)),
     MCOpened(MCMatches(<<0, 1, 2>>, <<2, 1, 3>>)),
     MCOpened(MCMatches(<<1, 1, 1>>, <<2, 3, 1>>))}

MCMinutes == <<1, 2>>
=============================================================================
