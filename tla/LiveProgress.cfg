\* Liveness: an open and a close, pauses and emergency closes, no resume.
CONSTANTS
    MaxIntents = 2
    MaxOpens = 1
    Lot = 1
    SpotGrid = 1
    PerpGrid = 1
    Sequential = FALSE
    Faults <- PreflightFaults
    Controls <- NoResume
SPECIFICATION FairSpec
PROPERTIES
    GroupsResolve
    CompensationsResolve
