\* A run of the seed script on a new or a seeded installation, beside a request.
CONSTANTS
    Editions <- MCEditions
    Starts = {"new", "seeded"}
    Runs = {"all", "functions"}
    Readers = {r1}
    Requests <- MCRequests
    MaxRuns = 1
SPECIFICATION FairSpec
INVARIANTS
    TypeOK
    CacheFresh
    FilesArrive
    ReportsAreLeftovers
    WholePageTranslated
    LocaleWidensSearch
PROPERTY CacheConverges
