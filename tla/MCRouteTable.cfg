SPECIFICATION RouteSpec
CONSTANTS
    NodeId <- Four
    local_id = 2
    Scale = 2
    One = 8
    MaxUpdates = 1
INVARIANTS
    RouteTypeOK
    RoutesOptimal
PROPERTIES
    SettledForGood
    Progress
    Terminates
CHECK_DEADLOCK FALSE
