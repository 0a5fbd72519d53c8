\* Requests that do not overlap: what the workflow promises.
CONSTANTS
    ann = ann
    ben = ben
    root = root
    Editors <- MCEditors
    Admins <- MCAdmins
    Creator = ann
    NBars = 2
    Payloads <- TwoBarPayloads
    Threshold = 1
    Requests = {r1, r2}
SPECIFICATION SerialSpec
INVARIANTS
    ApprovedContentReviewed
    StagesContained
PROPERTIES
    RefinesWorkflow
    RejectionStands
