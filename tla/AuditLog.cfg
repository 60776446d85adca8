\* Two process lives: the ring trims, saves race, queries see both stores; the
\* first life refines the abstract trail, and every save ends.
SPECIFICATION FairSpec
CONSTANTS
    Cap = 2
    Matching = {1}
    Bounds = {0, 2}
    Limits = {1, 2}
    MaxLimit = 2
    DefaultLimit = 1
    Widen = 2
    MaxRows = 3
    DefaultRows = 1
    MaxRecords = 3
    MaxRestarts = 1
INVARIANTS
    TypeOK
    RingHoldsNewest
    TableHolds
    AnswerMissesNothing
PROPERTIES
    ImplementsTrail
    EveryEntrySettles
