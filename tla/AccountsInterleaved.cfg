\* Two requests in flight: an admin, and somebody else.
CONSTANTS
    ann = ann
    root = root
    a1 = a1
    a2 = a2
    People <- MCPeople
    Email <- MCEmail
    Founders <- MCFounders
    Roles = {"admin"}
    Items = {f1}
    Reports = {m1}
    Requests = {r1, r2}
SYMMETRY AnyRequest
CHECK_DEADLOCK FALSE
SPECIFICATION Spec
INVARIANTS
    TypeOK
    NothingOwnerless
PROPERTIES
    RecordKept
    LastAdminLeavesKnowingly
