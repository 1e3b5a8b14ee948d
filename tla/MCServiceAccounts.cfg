\* Three calls, for three customers or for fewer, and two tasks that create accounts at once:
\* a project is full with two accounts, a refill creates two, and is asked for when none is
\* left, so that the third customer may find the pool empty, at the first attempt or after
\* one that was aborted.  Beyond Max, Google allows one account for the second task and one
\* for the step that may fail.
SPECIFICATION Spec
CONSTANTS
    Customer = {k1, k2, k3}
    Call = {r1, r2, r3}
    Task = {t1, t2}
    Batch = 2
    Max = 2
    Threshold = 1
    FreeThreshold = 0
    Quota = 4
    MaxProjects = 9
    MaxFailures = 1
    Mishap = {"attempt_aborted", "call_fails", "queue_fails", "task_fails", "account_lost",
              "count_lost"}
    NoAccount = NoAccount
SYMMETRY Symmetry
INVARIANTS
    TypeOK
    AttachedIsGiven
    ProjectsFollow
    QuotaKept
    LowIsBeingRefilled
    SuccessMeansAttached
PROPERTY PoolKept
CHECK_DEADLOCK FALSE
