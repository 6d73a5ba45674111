-------------------------- MODULE MCMultiLegTasks --------------------------
(***************************************************************************)
(* Small instances of MultiLegTasks for TLC: two legs, an anchor in chunks *)
(* and its hedge.                                                          *)
(***************************************************************************)
EXTENDS MultiLegTasks

TwoAndTwo == [leg \in Legs |-> 2]
ThreeAndThree == [leg \in Legs |-> 3]
AnchorByTwo == [leg \in Legs |-> IF leg = Anchor THEN 2 ELSE 0]
FinestGrid == [leg \in Legs |-> 1]
NoPaper == {}
FirstIsPaper == {1}
AnchorMakes == {Anchor}
EveryWord == [leg \in Legs |-> [live |-> LiveWords, done |-> DoneWords]]
\* No exchange calls an order filled that is not.
NeverShort == [leg \in Legs |-> [live |-> LiveWords, done |-> DoneWords \ {"filled"}]]
Raising == {"raise"}
EveryFault == {"raise", "refuse"}
OnlyResumed == {"ready"}
AnyControl == {"ready", "paused"}
=============================================================================
