\* A dry run of an AI suggestion to disable a policy deletes it.
SPECIFICATION Spec
CONSTANTS
    r1 = r1
    r2 = r2
    v1 = v1
    v2 = v2
    Req = {r1}
    Values = {v1, v2}
    Inputs <- AllAsks
    HandManifests <- Tuned
    MaxEdits = 0
    MaxExits = 0
    Absent = Absent
INVARIANTS
    DryRunChangesNothing
CHECK_DEADLOCK FALSE
