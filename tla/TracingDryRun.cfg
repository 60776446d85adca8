SPECIFICATION TuningSpec
CONSTANTS
    Values <- MCValues
    Below <- MCBelow
    Hooks = {"open", "exec"}
    Arguments = {"arg0"}
    Keys = {"app", "partOf"}
    SelfLabel = "partOf"
    SelfValue = "self"
    None = "none"
    Manifests <- MCManifests
    Requests <- MCRequests
    Events <- MCEvents
    MaxEdits = 5
    MaxValues = 2
    MaxSamples = 2
    Happening <- MCHappening
    Scopes <- MCScopes
INVARIANTS
    DryRunSeesExclusions
CHECK_DEADLOCK FALSE
