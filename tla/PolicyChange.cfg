\* Two requests at a time on one policy, an edit by hand and a process exit.
SPECIFICATION Spec
CONSTANTS
    r1 = r1
    r2 = r2
    v1 = v1
    v2 = v2
    Req = {r1, r2}
    Values = {v1, v2}
    Inputs <- Asks
    HandManifests <- ByHand
    MaxEdits = 1
    MaxExits = 1
    Absent = Absent
INVARIANTS
    TypeOK
    ProtectedOnlyByHand
    WritesAreRecorded
    RefusedChangesNothing
    MergedIntoLive
    ExemptUnlessByHand
PROPERTIES
    ImplementsAudited
SYMMETRY Symmetric
CHECK_DEADLOCK FALSE
