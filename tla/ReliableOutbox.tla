--------------------------- MODULE ReliableOutbox ---------------------------
(***************************************************************************)
(* What an outbox promises to whoever hands it a message: an accepted      *)
(* message stays open until it is sent or given up, it is called sent only *)
(* when it was delivered, it is given up only after Attempts attempts, and *)
(* what is closed is never opened again.  A message may be delivered more  *)
(* than once.                                                              *)
(***************************************************************************)
EXTENDS Naturals

CONSTANTS
    Messages,
    Attempts     \* attempts before a message is given up

VARIABLES
    outcome,     \* "none" before a message is accepted, then "open", then closed
    tries,       \* attempts made to deliver each message
    delivered    \* messages that have arrived at least once

outbox == <<outcome, tries, delivered>>

Closed == {"sent", "dead"}

Init ==
    /\ outcome = [m \in Messages |-> "none"]
    /\ tries = [m \in Messages |-> 0]
    /\ delivered = {}

\* An event is announced on several channels at once, each a message.
Accept(S) ==
    /\ \A m \in S : outcome[m] = "none"
    /\ outcome' = [m \in Messages |-> IF m \in S THEN "open" ELSE outcome[m]]
    /\ UNCHANGED <<tries, delivered>>

Try(S) ==
    /\ \A m \in S : outcome[m] = "open"
    /\ tries' = [m \in Messages |-> IF m \in S THEN tries[m] + 1 ELSE tries[m]]
    /\ UNCHANGED <<outcome, delivered>>

Deliver(m) ==
    /\ tries[m] > 0
    /\ delivered' = delivered \cup {m}
    /\ UNCHANGED <<outcome, tries>>

Close(m) ==
    /\ outcome[m] = "open"
    /\ \/ m \in delivered /\ outcome' = [outcome EXCEPT ![m] = "sent"]
       \/ tries[m] >= Attempts /\ outcome' = [outcome EXCEPT ![m] = "dead"]
    /\ UNCHANGED <<tries, delivered>>

\* Closed messages may be forgotten, and accepted again.
Forget(S) ==
    /\ \A m \in S : outcome[m] \in Closed
    /\ outcome' = [m \in Messages |-> IF m \in S THEN "none" ELSE outcome[m]]
    /\ tries' = [m \in Messages |-> IF m \in S THEN 0 ELSE tries[m]]
    /\ delivered' = delivered \ S

Next ==
    \/ \E S \in SUBSET Messages : Accept(S) \/ Try(S) \/ Forget(S)
    \/ \E m \in Messages : Deliver(m) \/ Close(m)

Spec == Init /\ [][Next]_outbox

\* Every accepted message is closed in the end.
EventuallyClosed == \A m \in Messages : outcome[m] = "open" ~> outcome[m] # "open"
=============================================================================
