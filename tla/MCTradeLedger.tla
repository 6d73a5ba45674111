--------------------------- MODULE MCTradeLedger ---------------------------
(***************************************************************************)
(* Small instances of TradeLedger for TLC.                                 *)
(***************************************************************************)
EXTENDS TradeLedger, MCSizing, TLC

CONSTANTS c1, c2

UnevenRatios == {[spot |-> 4, perp |-> 4], [spot |-> 3, perp |-> 4]}
SomeRatios == {[spot |-> 4, perp |-> 4], [spot |-> 2, perp |-> 4], [spot |-> 4, perp |-> 0]}

\* The keys of the two requests, and what else can happen: they race for a
\* ticket while settings change; the trader competes with one request, while
\* quotes are renewed or across a crash; paper trades, across a crash or of both
\* requests at once.
Keys(of1, of2) == c1 :> of1 @@ c2 :> of2
Tickets  == [keys |-> Keys({1}, {1, 2}),
             requested |-> {"open", "close"}, switched |-> {"settings", "pause", "resume"}]
Trading  == [keys |-> Keys({1}, {}),
             requested |-> {"close"}, switched |-> {"enabled", "quote", "resume"}]
Restarts == [keys |-> Keys({1}, {}),
             requested |-> {"close"}, switched |-> {"enabled", "crash", "resume"}]
Paper    == [keys |-> Keys({1, 2}, {}),
             requested |-> {"paper"}, switched |-> {"crash"}]
Racing   == [keys |-> Keys({1, 2}, {3}),
             requested |-> {"paper"}, switched |-> {}]
EveryScenario == {Tickets, Trading, Restarts, Paper, Racing}
=============================================================================
