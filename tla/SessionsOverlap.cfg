\* Two tabs of one browser, at most two calls in flight.
CONSTANTS
    Tabs = {t1, t2}
    Users = {ann}
    MaxGrants = 2
    MaxFlows = 1
    MaxCalls = 2
SPECIFICATION Spec
INVARIANTS
    TypeOK
    SessionKept
PROPERTIES
    LeavesLoading
