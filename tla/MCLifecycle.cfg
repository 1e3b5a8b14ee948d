\* An account that is activated, removed and activated again, while a call of Onboard and
\* deletion jobs fail and a run of a manager ends early.  It may be removed at any moment.
SPECIFICATION FairSpec
CONSTANTS
    Caller = {c1, c2}
    External = {e1}
    Internal = {i1}
    Job = {j1, j2}
    NoJob = NoJob
    MaxDeaths = 1
    Mishap = {"onboard_fails", "deletion_fails"}
INVARIANTS
    TypeOK
    DocumentsAgree
    RemovedLeavesNothing
    HistoryInOrder
PROPERTIES
    LiveRowsKept
    OffboardingEnds
    OnboardingEnds
