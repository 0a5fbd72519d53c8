\* Two requests in flight at a time, every interleaving.
CONSTANTS
    ann = ann
    ben = ben
    root = root
    Editors <- MCEditors
    Admins <- MCAdmins
    Creator = ann
    NBars = 1
    Payloads <- OneBarPayloads
    Threshold = 1
    Requests = {r1, r2}
SPECIFICATION Spec
INVARIANTS
    TypeOK
    EarnedApproval
PROPERTIES
    GateNotBypassed
