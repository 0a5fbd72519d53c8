\* Two requests in flight: an edit commits between the phases of an approval.
CONSTANTS
    ann = ann
    ben = ben
    root = root
    Editors <- MCEditors
    Admins <- MCAdmins
    Creator = ann
    NBars = 2
    Payloads <- TwoBarPayloads
    Threshold = 1
    Requests = {r1, r2}
SPECIFICATION Spec
INVARIANT ApprovedContentReviewed
