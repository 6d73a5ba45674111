------------------------ MODULE MCInternalTransfers ------------------------
(***************************************************************************)
(* Small instances of InternalTransfers for TLC.                           *)
(***************************************************************************)
EXTENDS InternalTransfers

\* An exchange whose history is searched by the client's id, and one with none.
TwoVenues  == {"bitget", "gate"}
NoQuery    == {"gate"}

OneAmount == {1}

\* A daily limit that two transfers reach, and one that a single one reaches.
TwoLimits == {[per |-> 1, daily |-> 2], [per |-> 1, daily |-> 1]}
OneLimit == {[per |-> 1, daily |-> 2]}

PauseAndResume == {"pause", "resume"}
Nothing == {}
=============================================================================
