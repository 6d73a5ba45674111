--------------------------- MODULE MCLiveTrading ---------------------------
(***************************************************************************)
(* Small instances of LiveTrading for TLC.  The numbers are in the .cfg    *)
(* files; the scenarios, which faults and which control actions an         *)
(* instance admits, are named here.                                        *)
(***************************************************************************)
EXTENDS LiveTrading

Nothing == {}

\* The ordinary faults: a preflight, a query, a handler fails, the worker dies.
GentleFaults == {"preflight", "lookup", "account"}
WorkerFaults == {"crash", "preflight", "lookup", "account"}
PreflightFaults == {"preflight"}
CrashOnly == {"crash"}
LateRequests == {"late"}

EveryControl == {"pause", "resume", "request", "emergency"}
ResumeOnly == {"resume"}
PauseOnly == {"pause"}
NoResume == {"pause", "emergency"}
=============================================================================
