\* Alerts in any order of their times, three changes of the route table.
SPECIFICATION FairSpec
CONSTANTS
    Subjects <- Raised
    Routes <- AllRoutes
    Tables <- AllTables
    Deaf <- NoAnswer
    MaxTime = 4
    Brief = 1
    Window = 3
    MaxAlerts = 3
    MaxChanges = 2
    Never = Never
INVARIANTS
    TypeOK
    EveryAlertIsHeard
    StatsAddUp
    RemovedGetsOneMore
PROPERTIES
    ImplementsNotices
    DeliveriesEnd
CHECK_DEADLOCK FALSE
