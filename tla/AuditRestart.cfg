\* The ids start again at 1: the table keeps the old row, the new one is gone.
SPECIFICATION Spec
CONSTANTS
    Cap = 2
    Matching = {1}
    Bounds = {0, 2}
    Limits = {1}
    MaxLimit = 2
    DefaultLimit = 1
    Widen = 2
    MaxRows = 3
    DefaultRows = 1
    MaxRecords = 2
    MaxRestarts = 1
INVARIANTS
    SavedIsKept
