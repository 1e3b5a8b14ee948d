-------------------------- MODULE InternalPipeline --------------------------
(***************************************************************************)
(* The internal half of the Flexsave standalone billing import             *)
(* (flexsavestandalone/gcp/billing/application/internal_manager.go): in    *)
(* every iteration the manager chooses a segment of each account's local   *)
(* table, lets cloud-task workers copy the segments to one temporary       *)
(* table, and appends the rows of the accounts whose copy succeeded to the *)
(* unified table with a single job.  A run that does not get to its end    *)
(* leaves the manager's document in the state it had reached, and a later  *)
(* invocation recovers from there.                                         *)
(*                                                                         *)
(* Export times are the numbers 1..MaxRecord, as in ExternalPipeline.      *)
(* Every account is active, and there is no offboarding.                   *)
(***************************************************************************)
EXTENDS Naturals, Sequences, FiniteSets

CONSTANTS
    BA,            \* the billing accounts
    Run,           \* manager invocations that can be alive at the same time
    Worker,        \* cloud-task deliveries that can be alive at the same time
    Interval,      \* the longest segment (OnboardingSegmentIntervalInMonths)
    Mishap,        \* what may go wrong beyond single failed calls, see Mishaps
    MaxRecord,     \* bound: the newest export time a local table reaches
    MaxIteration   \* bound: iterations of the manager

\* "copy_abandoned": a run ends between the insertion of the job that appends to
\* the unified table and the record of its outcome.  "copy_stuck": that job
\* outlasts its deadline, its cancellation and the extra time.
\* "copy_unanswered": that job is inserted although the request for it has failed.
\* "recovery_abandoned": a run ends in a recovery that is failing an iteration.
\* "worker_outlives": a worker inserts its job in a later iteration, within the 15
\* minutes of its context (the manager gave up on the task, and its run has 85).
Mishaps == {"copy_abandoned", "copy_stuck", "copy_unanswered", "recovery_abandoned",
            "worker_outlives"}

ASSUME InternalBoundsAssumption ==
    MaxRecord \in Nat /\ MaxIteration \in Nat /\ Interval \in Nat \ {0}
ASSUME MishapAssumption == Mishap \subseteq Mishaps
ASSUME AccountsAssumption == BA # {}

VARIABLES
    newest,    \* local table: newest export time of each account (0: no rows)
    mm,        \* InternalManagerMetadata
    itm,       \* InternalTaskMetadata of each account
    run,       \* where each manager invocation is
    tasks,     \* cloud tasks created so far; any of them may be delivered again
    worker,    \* cloud-task deliveries being handled
    jobs,      \* BigQuery jobs, in the order of their insertion
    tmp,       \* iterations whose temporary table exists
    unified    \* unified table: copies of each record of each account

vars == <<newest, mm, itm, run, tasks, worker, jobs, tmp, unified>>

workVars == <<tasks, worker, jobs>>

-----------------------------------------------------------------------------
Records == 1..MaxRecord

ManagerState == {"started", "tmp_table_created", "tasks_updated", "tasks_created",
                 "tasks_done", "copied_to_unified", "notified", "done", "failed"}

TaskState == {"onboarding", "initializing", "pending", "running", "verified",
              "notified", "done", "failed", "skipped"}

\* "expired" and "recExpired" are what the clock says of TTL and RecoveringTTL.
Manager == [state : ManagerState, iteration : Nat, expired : BOOLEAN,
            recovering : BOOLEAN, recExpired : BOOLEAN]

\* "job" and "late" are those of FromLocalTableToTmpTable: its id (0: none yet) and
\* whether WaitToStartTimeout is over.
Itm == [state : TaskState, iteration : Nat, start : Nat, end : Nat, job : Nat,
        late : BOOLEAN]

\* A job from a local table has the account and its segment; the job that appends
\* to the unified table has the accounts whose rows it takes.
Job == [kind : {"to_tmp", "to_unified"}, iteration : Nat, bas : SUBSET BA,
        start : Nat, end : Nat, status : {"running", "done", "failed"}]

Terminal(j) == j.status \in {"done", "failed"}

CloudTask == [ba : BA, iteration : Nat]

\* The steps of RunInternalManager; Failing are those in which a recovery gives an
\* iteration up.
Failing == {"rec_delete", "rec_failed", "rec_list", "rec_fail"}

\* The steps of the run that has caught an iteration.
OfIteration == {"table", "list_active", "update", "list_pending", "create",
                "list_waiting", "wait", "copy", "copying", "list_verified", "notify",
                "life_cycle", "tear_down", "list_notified", "settle"}

Step == {"idle", "claim", "rec_done", "rec_list_notify", "rec_notify",
         "rec_list_settle", "rec_settle", "list_all", "single", "catch"}
          \cup Failing \cup OfIteration

\* A run keeps the iteration it read, the accounts it has still to visit, those of
\* them that SingleRecovery is to mark as failed, and the jobs it is waiting for.
RunRec == [at : Step, iteration : Nat, todo : SUBSET BA, toFail : SUBSET BA,
           job : [BA -> Nat], copy : Nat]

NoJobs  == [b \in BA |-> 0]
IdleRun == [at |-> "idle", iteration |-> 0, todo |-> {}, toFail |-> {},
            job |-> NoJobs, copy |-> 0]

WorkerRec == [at : {"idle", "begun", "inserted"}, ba : BA, iteration : Nat,
              start : Nat, end : Nat, job : Nat, late : BOOLEAN]

IdleWorker == [at |-> "idle", ba |-> CHOOSE b \in BA : TRUE, iteration |-> 0,
               start |-> 0, end |-> 0, job |-> 0, late |-> FALSE]

Init ==
    /\ newest  = [b \in BA |-> 0]
    /\ mm      = [state |-> "done", iteration |-> 0, expired |-> FALSE,
                  recovering |-> FALSE, recExpired |-> FALSE]
    /\ itm     = [b \in BA |-> [state |-> "onboarding", iteration |-> 0, start |-> 0,
                                end |-> 0, job |-> 0, late |-> FALSE]]
    /\ run     = [r \in Run |-> IdleRun]
    /\ tasks   = {}
    /\ worker  = [w \in Worker |-> IdleWorker]
    /\ jobs    = <<>>
    /\ tmp     = {}
    /\ unified = [b \in BA |-> [x \in Records |-> 0]]

-----------------------------------------------------------------------------
(***************************************************************************)
(* The external pipeline, the clock and BigQuery.                          *)
(***************************************************************************)

\* The external pipeline appends rows to the local table.
RecordsArrive(b) ==
    /\ newest[b] < MaxRecord
    /\ newest' = [newest EXCEPT ![b] = @ + 1]
    /\ UNCHANGED <<mm, itm, run, workVars, tmp, unified>>

\* markOnboardingDone of the external manager hands the account over.
MarkOnboardingDone(b) ==
    /\ itm[b].state = "onboarding"
    /\ newest[b] > 0
    /\ itm' = [itm EXCEPT ![b].state = "initializing"]
    /\ UNCHANGED <<newest, mm, run, workVars, tmp, unified>>

TTLExpires ==
    /\ mm.state \notin {"done", "failed"}
    /\ ~mm.expired
    /\ mm' = [mm EXCEPT !.expired = TRUE]
    /\ UNCHANGED <<newest, itm, run, workVars, tmp, unified>>

RecoveringTTLExpires ==
    /\ mm.recovering /\ ~mm.recExpired
    /\ mm' = [mm EXCEPT !.recExpired = TRUE]
    /\ UNCHANGED <<newest, itm, run, workVars, tmp, unified>>

\* WaitToStartTimeout passes, for the manager and for the worker alike.
DeadlinePasses(b) ==
    /\ ~itm[b].late
    /\ \/ itm[b].state \in {"pending", "running"}
       \/ \E w \in Worker : worker[w].at # "idle" /\ worker[w].ba = b
    /\ itm' = [itm EXCEPT ![b].late = TRUE]
    /\ worker' = [w \in Worker |->
          IF worker[w].ba = b /\ worker[w].at # "idle"
          THEN [worker[w] EXCEPT !.late = TRUE] ELSE worker[w]]
    /\ UNCHANGED <<newest, mm, run, tasks, jobs, tmp, unified>>

\* The rows of record x of account b that the temporary table of iteration i holds.
TmpCopies(i, b, x) ==
    Cardinality({n \in DOMAIN jobs :
        /\ jobs[n].kind = "to_tmp" /\ jobs[n].status = "done"
        /\ jobs[n].iteration = i /\ b \in jobs[n].bas
        /\ jobs[n].start < x /\ x <= jobs[n].end})

\* A job appends all of its rows or none.  Its destination is created if needed; the
\* job to the unified table may fail, or still succeed, if the temporary table is
\* deleted under it.
JobFinishes(n) ==
    /\ jobs[n].status = "running"
    /\ \/ /\ jobs' = [jobs EXCEPT ![n].status = "failed"]
          /\ UNCHANGED <<tmp, unified>>
       \/ /\ jobs[n].kind = "to_tmp"
          /\ jobs' = [jobs EXCEPT ![n].status = "done"]
          /\ tmp' = tmp \cup {jobs[n].iteration}
          /\ UNCHANGED unified
       \/ /\ jobs[n].kind = "to_unified"
          /\ jobs' = [jobs EXCEPT ![n].status = "done"]
          /\ unified' = [b \in BA |-> [x \in Records |->
                IF b \in jobs[n].bas
                THEN unified[b][x] + TmpCopies(jobs[n].iteration, b, x)
                ELSE unified[b][x]]]
          /\ UNCHANGED tmp
    /\ UNCHANGED <<newest, mm, itm, run, tasks, worker>>

-----------------------------------------------------------------------------
(***************************************************************************)
(* What the steps of a run are made of.                                    *)
(***************************************************************************)
Goes(r, step) == run' = [run EXCEPT ![r].at = step]

Ends(r) == run' = [run EXCEPT ![r] = IdleRun]

\* Lists the accounts whose task is in one of these states, of the run's iteration.
Lists(r, from, states, to) ==
    /\ run[r].at = from
    /\ run' = [run EXCEPT ![r].at = to, ![r].todo =
                 {b \in BA : itm[b].state \in states
                               /\ itm[b].iteration = run[r].iteration}]
    /\ UNCHANGED <<newest, mm, itm, workVars, tmp, unified>>

\* Is done with an account; only its task may change.
Visits(r, step, b) ==
    /\ run[r].at = step
    /\ b \in run[r].todo
    /\ run' = [run EXCEPT ![r].todo = @ \ {b}]
    /\ UNCHANGED <<newest, mm, jobs, worker, tmp, unified>>

\* Sets the state of the task, whatever it has become since it was listed.
Sets(r, step, b, state) ==
    /\ Visits(r, step, b)
    /\ itm' = [itm EXCEPT ![b].state = state]
    /\ UNCHANGED tasks

\* When all accounts are done, saves the state of the manager, whatever it was.
Saves(r, from, state, to) ==
    /\ run[r].at = from
    /\ run[r].todo = {}
    /\ mm' = [mm EXCEPT !.state = state]
    /\ Goes(r, to)
    /\ UNCHANGED <<newest, itm, workVars, tmp, unified>>

DeletesTmpTable(r, from, to) ==
    /\ run[r].at = from
    /\ tmp' = tmp \ {run[r].iteration}
    /\ Goes(r, to)
    /\ UNCHANGED <<newest, mm, itm, workVars, unified>>

-----------------------------------------------------------------------------
(***************************************************************************)
(* RunInternalManager: recovery.                                           *)
(***************************************************************************)

\* Mutant: an iteration that has not ended is never recovered.
GeneralRecoveryWaits(r) ==
    /\ run[r].at = "idle"
    /\ mm.state \in {"done", "failed"}
    /\ Goes(r, IF mm.state = "done" THEN "list_all" ELSE "claim")
    /\ UNCHANGED <<newest, mm, itm, workVars, tmp, unified>>

\* An invocation while an older run has time left ends at once.  While another
\* recovery has time left this one is skipped, and the run goes on.
GeneralRecovery(r) ==
    /\ run[r].at = "idle"
    /\ mm.state \in {"done", "failed"} \/ mm.expired
    /\ Goes(r, IF mm.state = "done" \/ (mm.recovering /\ ~mm.recExpired)
               THEN "list_all" ELSE "claim")
    /\ UNCHANGED <<newest, mm, itm, workVars, tmp, unified>>

\* Where recovery starts, for each state of the manager.
RecoveryStep(state) ==
    CASE state = "done"              -> "rec_done"
      [] state = "copied_to_unified" -> "rec_list_notify"
      [] state = "notified"          -> "rec_list_settle"
      [] OTHER                       -> "rec_delete"

ClaimRecovery(r) ==
    /\ run[r].at = "claim"
    /\ ~(mm.recovering /\ ~mm.recExpired)
    /\ mm' = [mm EXCEPT !.recovering = TRUE, !.recExpired = FALSE]
    /\ run' = [run EXCEPT ![r].at = RecoveryStep(mm.state), ![r].iteration = mm.iteration]
    /\ UNCHANGED <<newest, itm, workVars, tmp, unified>>

\* The iteration is given up: its table is deleted, and its verified tasks fail.
RecoveryDeletes(r) == DeletesTmpTable(r, "rec_delete", "rec_failed")
RecoveryFails(r)   == Saves(r, "rec_failed", "failed", "rec_list")
ListVerifiedToFail(r) == Lists(r, "rec_list", {"verified"}, "rec_fail")

MarkTaskAsFailed(r, b) ==
    Sets(r, "rec_fail", b, IF itm[b].state \in {"onboarding", "initializing", "skipped"}
                           THEN itm[b].state ELSE "failed")

TasksMarkedAsFailed(r) ==
    /\ run[r].at = "rec_fail" /\ run[r].todo = {}
    /\ Goes(r, "list_all")
    /\ UNCHANGED <<newest, mm, itm, workVars, tmp, unified>>

RecoveryDone(r) == Saves(r, "rec_done", "done", "list_all")

\* The rows are in the unified table: the iteration goes on with notifyAll.
RecoveryLists(r) == Lists(r, "rec_list_notify", {"verified"}, "rec_notify")
RecoveryNotified(r) == Saves(r, "rec_notify", "notified", "list_all")

\* Notified tasks of any iteration are done.  After that recovery looks again at the
\* state it read at the start, and so repeats itself until its time is up.
ListNotifiedToSettle(r) ==
    /\ run[r].at = "rec_list_settle" /\ ~mm.recExpired
    /\ run' = [run EXCEPT ![r].at = "rec_settle",
                          ![r].todo = {b \in BA : itm[b].state = "notified"}]
    /\ UNCHANGED <<newest, mm, itm, workVars, tmp, unified>>
RecoverySettled(r) == Saves(r, "rec_settle", "done", "rec_list_settle")

\* The check at the head of recovery.
RecoveryTimeIsUp(r) ==
    /\ run[r].at = "rec_list_settle" /\ mm.recExpired
    /\ Ends(r)
    /\ UNCHANGED <<newest, mm, itm, workVars, tmp, unified>>

\* Mutant: a running task is left to its worker.
ListAllButRunning(r) ==
    /\ run[r].at = "list_all"
    /\ run' = [run EXCEPT ![r].at = "single",
          ![r].todo   = {b \in BA : itm[b].state \in {"verified", "notified", "pending"}},
          ![r].toFail = {b \in BA : itm[b].state = "pending"}]
    /\ UNCHANGED <<newest, mm, itm, workVars, tmp, unified>>

\* SingleRecovery reads all tasks, then sets the ones an older run left behind.
ListAllTasks(r) ==
    /\ run[r].at = "list_all"
    /\ run' = [run EXCEPT ![r].at = "single",
          ![r].todo   = {b \in BA : itm[b].state \in
                                {"verified", "notified", "pending", "running"}},
          ![r].toFail = {b \in BA : itm[b].state \in {"pending", "running"}}]
    /\ UNCHANGED <<newest, mm, itm, workVars, tmp, unified>>

SingleRecovery(r, b) ==
    Sets(r, "single", b, IF b \in run[r].toFail THEN "failed" ELSE "done")

TasksRecovered(r) ==
    /\ run[r].at = "single" /\ run[r].todo = {}
    /\ Goes(r, "catch")
    /\ UNCHANGED <<newest, mm, itm, workVars, tmp, unified>>

-----------------------------------------------------------------------------
(***************************************************************************)
(* RunInternalManager: an iteration.                                       *)
(***************************************************************************)

\* Mutant: the new iteration is not saved.
CatchSameIteration(r) ==
    /\ run[r].at = "catch"
    /\ mm.state \in {"done", "failed"}
    /\ mm' = [mm EXCEPT !.state = "started", !.expired = FALSE, !.recovering = FALSE,
                        !.recExpired = FALSE]
    /\ run' = [run EXCEPT ![r].at = "table", ![r].iteration = mm.iteration + 1]
    /\ UNCHANGED <<newest, itm, workVars, tmp, unified>>

\* The read of the iteration and the transaction are one step: a Catch that comes
\* between them makes the transaction fail, and so would its new state.
Catch(r) ==
    /\ run[r].at = "catch"
    /\ mm.state \in {"done", "failed"}
    /\ mm.iteration < MaxIteration
    /\ (\E w \in Worker : worker[w].at # "idle" /\ ~worker[w].late)
          => "worker_outlives" \in Mishap
    /\ mm' = [mm EXCEPT !.state = "started", !.iteration = @ + 1, !.expired = FALSE,
                        !.recovering = FALSE, !.recExpired = FALSE]
    /\ run' = [run EXCEPT ![r].at = "table", ![r].iteration = mm.iteration + 1]
    /\ UNCHANGED <<newest, itm, workVars, tmp, unified>>

CatchFails(r) ==
    /\ run[r].at = "catch"
    /\ mm.state \notin {"done", "failed"} \/ mm.iteration >= MaxIteration
    /\ Ends(r)
    /\ UNCHANGED <<newest, mm, itm, workVars, tmp, unified>>

CreateTmpTable(r) ==
    /\ run[r].at = "table"
    /\ tmp' = tmp \cup {run[r].iteration}
    /\ mm' = [mm EXCEPT !.state = "tmp_table_created"]
    /\ Goes(r, "list_active")
    /\ UNCHANGED <<newest, itm, workVars, unified>>

ListActiveTasks(r) ==
    /\ run[r].at = "list_active"
    /\ run' = [run EXCEPT ![r].at = "update", ![r].todo = BA]
    /\ UNCHANGED <<newest, mm, itm, workVars, tmp, unified>>

\* calculateNextSegment: from the end of the last segment to the newest row, but no
\* further than the interval.
NextSegment(t, latest) ==
    [t EXCEPT !.start = t.end,
              !.end   = IF t.end + Interval < latest THEN t.end + Interval ELSE latest]

\* Mutant: a task that is retried keeps the id of its last job.
RetryKeepsJob(t, i, latest) ==
    CASE t.state = "failed" -> [t EXCEPT !.state = "pending", !.iteration = i, !.late = FALSE]
      [] t.state \in {"done", "initializing"} ->
           [NextSegment(t, latest) EXCEPT !.state = "pending", !.iteration = i, !.late = FALSE]
      [] OTHER -> t

\* Mutant: a task that failed moves on to the next segment.
RetryMovesOn(t, i, latest) ==
    IF t.state \in {"done", "initializing", "failed"}
    THEN [NextSegment(t, latest) EXCEPT !.state = "pending", !.iteration = i,
                                        !.job = 0, !.late = FALSE]
    ELSE t

\* updateTaskMetadata.  A task in any other state is left alone.
UpdatedTask(t, i, latest) ==
    LET fresh == [t EXCEPT !.iteration = i, !.job = 0, !.late = FALSE]
        next  == NextSegment(fresh, latest)
    IN  CASE t.state = "skipped" ->
               [t EXCEPT !.iteration = i, !.state = IF t.end # latest THEN "done" ELSE @]
          [] t.state = "done" ->
               [next EXCEPT !.state = IF next.start = next.end THEN "skipped" ELSE "pending"]
          [] t.state = "onboarding" -> [t EXCEPT !.iteration = i]
          [] t.state = "initializing" -> [next EXCEPT !.state = "pending"]
          [] t.state = "failed" ->
               [(IF t.end = 0 THEN next ELSE fresh) EXCEPT !.state = "pending"]
          [] OTHER -> t

UpdateTaskMetadata(r, b) ==
    /\ Visits(r, "update", b)
    /\ itm' = [itm EXCEPT ![b] = UpdatedTask(@, run[r].iteration, newest[b])]
    /\ UNCHANGED tasks

TasksUpdated(r) == Saves(r, "update", "tasks_updated", "list_pending")
ListPending(r)  == Lists(r, "list_pending", {"pending"}, "create")

CreateCloudTask(r, b) ==
    /\ Visits(r, "create", b)
    /\ tasks' = tasks \cup {[ba |-> b, iteration |-> run[r].iteration]}
    /\ UNCHANGED itm

CreateCloudTaskFails(r, b) == Sets(r, "create", b, "failed")

TasksCreated(r) == Saves(r, "create", "tasks_created", "list_waiting")

ListWaiting(r) ==
    /\ run[r].at = "list_waiting"
    /\ run' = [run EXCEPT ![r].at = "wait", ![r].job = NoJobs, ![r].todo =
                 {b \in BA : itm[b].state \in {"pending", "running"}
                               /\ itm[b].iteration = run[r].iteration}]
    /\ UNCHANGED <<newest, mm, itm, workVars, tmp, unified>>

\* waitUntilJobStarts: the worker has saved the id of its job.
JobStarts(r, b) ==
    /\ run[r].at = "wait" /\ b \in run[r].todo /\ run[r].job[b] = 0
    /\ itm[b].state \notin {"failed", "onboarding"} /\ itm[b].job # 0
    /\ run' = [run EXCEPT ![r].job[b] = itm[b].job]
    /\ UNCHANGED <<newest, mm, itm, workVars, tmp, unified>>

\* The task has failed, or no job has started in time.
JobDoesNotStart(r, b) ==
    /\ run[r].job[b] = 0
    /\ itm[b].state \in {"failed", "onboarding"} \/ itm[b].late
    /\ Sets(r, "wait", b, "failed")

\* HandleRunningJob: the job has ended, by itself or because it was cancelled.
JobHandled(r, b) ==
    LET j == jobs[run[r].job[b]] IN
    /\ run[r].job[b] # 0
    /\ Terminal(j)
    /\ Sets(r, "wait", b, IF j.status = "done" THEN "verified" ELSE "failed")

\* The task or its job cannot be read, the job cannot be cancelled, or it outlasts its
\* deadline, its cancellation and the extra time: the task fails at once.
WaitFails(r, b) == Sets(r, "wait", b, "failed")

\* The metadata of one account cannot be read or written: the others go on.
VisitFails(r, b) ==
    /\ \E step \in {"update", "create", "wait", "notify", "rec_notify", "settle"} :
          Visits(r, step, b)
    /\ UNCHANGED <<itm, tasks>>

\* Mutant: the state that recovery takes for a copy under way.
TasksDoneMarked(r) == Saves(r, "wait", "marked", "copy")

TasksDone(r) == Saves(r, "wait", "tasks_done", "copy")

Verified(r) == {b \in BA : itm[b].state = "verified" /\ itm[b].iteration = run[r].iteration}

\* copyRowsToUnifiedTable: one job for all verified accounts.
NothingToCopy(r) ==
    /\ Verified(r) = {}
    /\ Saves(r, "copy", "copied_to_unified", "list_verified")

\* The job that appends the rows of these accounts to the unified table.
InsertsCopyJob(r, bas) ==
    jobs' = Append(jobs, [kind |-> "to_unified", iteration |-> run[r].iteration,
                          bas |-> bas, start |-> 0, end |-> 0, status |-> "running"])

InsertCopyJob(r) ==
    /\ run[r].at = "copy"
    /\ Verified(r) # {}
    /\ InsertsCopyJob(r, Verified(r))
    /\ run' = [run EXCEPT ![r].at = "copying", ![r].copy = Len(jobs) + 1]
    /\ UNCHANGED <<newest, mm, itm, tasks, worker, tmp, unified>>

\* The request fails: the iteration has failed, whatever BigQuery makes of the job.
InsertCopyJobFails(r) ==
    /\ run[r].at = "copy"
    /\ Verified(r) # {}
    /\ \/ UNCHANGED jobs
       \/ "copy_unanswered" \in Mishap /\ InsertsCopyJob(r, Verified(r))
    /\ mm' = [mm EXCEPT !.state = "failed"]
    /\ Ends(r)
    /\ UNCHANGED <<newest, itm, tasks, worker, tmp, unified>>

\* Mutant: the job is taken for done as soon as it is inserted.
CopyJobNotAwaited(r) ==
    /\ run[r].at = "copying"
    /\ mm' = [mm EXCEPT !.state = "copied_to_unified"]
    /\ Goes(r, "list_verified")
    /\ UNCHANGED <<newest, itm, workVars, tmp, unified>>

CopyJobDone(r) ==
    /\ run[r].at = "copying" /\ jobs[run[r].copy].status = "done"
    /\ mm' = [mm EXCEPT !.state = "copied_to_unified"]
    /\ Goes(r, "list_verified")
    /\ UNCHANGED <<newest, itm, workVars, tmp, unified>>

CopyJobFailed(r) ==
    /\ run[r].at = "copying"
    /\ \/ jobs[run[r].copy].status = "failed"
       \/ jobs[run[r].copy].status = "running" /\ "copy_stuck" \in Mishap
    /\ mm' = [mm EXCEPT !.state = "failed"]
    /\ Ends(r)
    /\ UNCHANGED <<newest, itm, workVars, tmp, unified>>

\* notifyAll.  A task whose events cannot be created stays verified (VisitFails).
ListVerified(r) == Lists(r, "list_verified", {"verified"}, "notify")
NotifyTask(r, b) == \E step \in {"notify", "rec_notify"} : Sets(r, step, b, "notified")
Notified(r)     == Saves(r, "notify", "notified", "life_cycle")

\* handleLifeCycleChanges saves the same state once more.
LifeCycleHandled(r) == Saves(r, "life_cycle", "notified", "tear_down")

\* tearDown, and the end of the run.
TearDown(r)      == DeletesTmpTable(r, "tear_down", "list_notified")
ListNotified(r)  == Lists(r, "list_notified", {"notified"}, "settle")
SettleTask(r, b) ==
    \/ Sets(r, "settle", b, "done")
    \/ Sets(r, "rec_settle", b, IF itm[b].state = "notified" THEN "done" ELSE itm[b].state)
RunDone(r) ==
    /\ run[r].at = "settle" /\ run[r].todo = {}
    /\ mm' = [mm EXCEPT !.state = "done"]
    /\ Ends(r)
    /\ UNCHANGED <<newest, itm, workVars, tmp, unified>>

\* A call fails that the run does not survive, its context is over, or the process
\* stops.  The manager's document stays as it is.
RunFails(r) ==
    /\ run[r].at # "idle"
    /\ run[r].at = "copying" => "copy_abandoned" \in Mishap
    /\ run[r].at \in Failing /\ ~mm.recExpired => "recovery_abandoned" \in Mishap
    /\ Ends(r)
    /\ UNCHANGED <<newest, mm, itm, workVars, tmp, unified>>

-----------------------------------------------------------------------------
(***************************************************************************)
(* RunInternalTask, delivered at least once for each cloud task.           *)
(***************************************************************************)
SetRunning(w, t) ==
    /\ worker[w].at = "idle"
    /\ itm[t.ba].state = "pending"
    /\ itm[t.ba].iteration = t.iteration
    /\ itm' = [itm EXCEPT ![t.ba].state = "running"]
    /\ worker' = [worker EXCEPT ![w] =
          [at |-> "begun", ba |-> t.ba, iteration |-> t.iteration,
           start |-> itm[t.ba].start, end |-> itm[t.ba].end, job |-> 0,
           late |-> itm[t.ba].late]]
    /\ UNCHANGED <<newest, mm, run, tasks, jobs, tmp, unified>>

\* A request that is under way when the context ends may still be carried out.
CopyFromLocalToTmpTable(w) ==
    LET v == worker[w] IN
    /\ v.at = "begun"
    /\ jobs' = Append(jobs, [kind |-> "to_tmp", iteration |-> v.iteration,
                             bas |-> {v.ba}, start |-> v.start, end |-> v.end,
                             status |-> "running"])
    /\ worker' = [worker EXCEPT ![w].at = "inserted", ![w].job = Len(jobs) + 1]
    /\ UNCHANGED <<newest, mm, itm, run, tasks, tmp, unified>>

CopyFromLocalToTmpTableFails(w) ==
    /\ worker[w].at = "begun" /\ ~worker[w].late
    /\ itm' = [itm EXCEPT ![worker[w].ba].state = "failed"]
    /\ worker' = [worker EXCEPT ![w] = IdleWorker]
    /\ UNCHANGED <<newest, mm, run, tasks, jobs, tmp, unified>>

RecordJob(w) ==
    LET v == worker[w] IN
    /\ v.at = "inserted" /\ ~v.late
    /\ itm[v.ba].iteration = v.iteration
    /\ itm' = [itm EXCEPT ![v.ba].job = v.job]
    /\ worker' = [worker EXCEPT ![w] = IdleWorker]
    /\ UNCHANGED <<newest, mm, run, tasks, jobs, tmp, unified>>

WorkerEnds(w) ==
    /\ worker[w].at # "idle"
    /\ worker' = [worker EXCEPT ![w] = IdleWorker]
    /\ UNCHANGED <<newest, mm, itm, run, tasks, jobs, tmp, unified>>

-----------------------------------------------------------------------------
RecoveryAction(r) ==
    \/ ClaimRecovery(r) \/ RecoveryDeletes(r) \/ RecoveryFails(r)
    \/ ListVerifiedToFail(r) \/ TasksMarkedAsFailed(r) \/ RecoveryDone(r)
    \/ RecoveryLists(r) \/ RecoveryNotified(r) \/ ListNotifiedToSettle(r)
    \/ RecoverySettled(r) \/ RecoveryTimeIsUp(r) \/ ListAllTasks(r) \/ TasksRecovered(r)

IterationAction(r) ==
    \/ Catch(r) \/ CreateTmpTable(r) \/ ListActiveTasks(r) \/ TasksUpdated(r)
    \/ ListPending(r) \/ TasksCreated(r) \/ ListWaiting(r) \/ TasksDone(r)
    \/ NothingToCopy(r) \/ InsertCopyJob(r) \/ CopyJobDone(r) \/ CopyJobFailed(r)
    \/ ListVerified(r) \/ Notified(r) \/ LifeCycleHandled(r) \/ TearDown(r)
    \/ ListNotified(r) \/ RunDone(r)

TaskAction(r, b) ==
    \/ MarkTaskAsFailed(r, b) \/ SingleRecovery(r, b) \/ UpdateTaskMetadata(r, b)
    \/ CreateCloudTask(r, b) \/ JobStarts(r, b) \/ JobDoesNotStart(r, b)
    \/ JobHandled(r, b) \/ NotifyTask(r, b) \/ SettleTask(r, b)

\* What a run does when all its calls succeed, and what it does when one fails.
Works(r) ==
    \/ GeneralRecovery(r) \/ RecoveryAction(r) \/ IterationAction(r) \/ CatchFails(r)
    \/ \E b \in BA : TaskAction(r, b)

Falters(r) ==
    \/ RunFails(r) \/ InsertCopyJobFails(r)
    \/ \E b \in BA : CreateCloudTaskFails(r, b) \/ WaitFails(r, b) \/ VisitFails(r, b)

WorkerAction(w) ==
    \/ \E t \in tasks : SetRunning(w, t)
    \/ CopyFromLocalToTmpTable(w) \/ CopyFromLocalToTmpTableFails(w)
    \/ RecordJob(w) \/ WorkerEnds(w)

Environment ==
    \/ TTLExpires \/ RecoveringTTLExpires
    \/ \E b \in BA : RecordsArrive(b) \/ MarkOnboardingDone(b) \/ DeadlinePasses(b)
    \/ \E n \in DOMAIN jobs : JobFinishes(n)

Next == \/ \E r \in Run : Works(r) \/ Falters(r)
        \/ \E w \in Worker : WorkerAction(w)
        \/ Environment

Spec == Init /\ [][Next]_vars

\* The scheduler keeps invoking the manager, an invocation does not stand still,
\* time passes and BigQuery ends every job it is given.
Progress ==
    /\ \A r \in Run : WF_vars(Works(r))
    /\ WF_vars(TTLExpires) /\ WF_vars(RecoveringTTLExpires)
    /\ \A b \in BA : WF_vars(DeadlinePasses(b))
    /\ WF_vars(\E n \in DOMAIN jobs : JobFinishes(n))

\* The recovery's time is not over every time before it has read its list.
RecoveryHasTime == \A r \in Run : SF_vars(ListNotifiedToSettle(r))

\* From some time on no run is cut short, but for the ends that Works has too
\* (CatchFails and RecoveryTimeIsUp leave the same state).  Nothing is assumed of the
\* workers, of the jobs' success, or of the calls that a run survives.
RunsSurvive == <>[][\A r \in Run : RunFails(r) => Works(r)]_vars

FairSpec == Spec /\ Progress /\ RecoveryHasTime /\ RunsSurvive

-----------------------------------------------------------------------------
(***************************************************************************)
(* Properties.                                                             *)
(***************************************************************************)

\* The documents, jobs and tables have the shape that the code gives them.
TypeOK ==
    /\ newest  \in [BA -> Nat]
    /\ mm      \in Manager
    /\ itm     \in [BA -> Itm]
    /\ run     \in [Run -> RunRec]
    /\ tasks   \subseteq CloudTask
    /\ worker  \in [Worker -> WorkerRec]
    /\ jobs    \in Seq(Job)
    /\ tmp     \subseteq Nat
    /\ unified \in [BA -> [Records -> Nat]]

\* No recovery, retry, duplicate delivery or late job makes a row of a local table
\* arrive twice in the unified table.
NoRowTwice == \A b \in BA : \A x \in Records : unified[b][x] <= 1

\* While the job that appends to the unified table runs, the manager waits for it,
\* the tasks it copies stay verified in its iteration, and its source is kept.
CopyJobAwaited ==
    \A n \in DOMAIN jobs :
        jobs[n].kind = "to_unified" /\ jobs[n].status = "running" =>
            /\ \E r \in Run : run[r].at = "copying" /\ run[r].copy = n
            /\ \A b \in jobs[n].bas : /\ itm[b].state = "verified"
                                       /\ itm[b].iteration = jobs[n].iteration
            /\ jobs[n].iteration \in tmp

\* What the state of a task says is so: the rows of a verified task are in the temporary
\* table exactly once, so that the copy to the unified table can neither miss nor duplicate
\* one, and those of a task that counts as copied are in the unified table.
VerifiedMeansCopied ==
    \A b \in BA, x \in Records :
        LET wanted == IF itm[b].start < x /\ x <= itm[b].end THEN 1 ELSE 0 IN
        /\ itm[b].state = "verified" => TmpCopies(itm[b].iteration, b, x) = wanted
        /\ itm[b].state \in {"notified", "done", "skipped"} => unified[b][x] >= wanted

\* However often an iteration is cut short, recovered, retried or run into by the next
\* invocation, the manager inserts one job into the unified table for it at most.
OneCopyJobPerIteration ==
    \A m, n \in DOMAIN jobs :
        /\ jobs[m].kind = "to_unified" /\ jobs[n].kind = "to_unified"
        /\ jobs[m].iteration = jobs[n].iteration
        => m = n

\* Runs may overlap when one outlives its TTL, and then a recovery may work on the
\* iteration of a living run; but an iteration has one run.
OneRunPerIteration ==
    \A q, r \in Run :
        /\ run[q].at \in OfIteration /\ run[r].at \in OfIteration
        /\ run[q].iteration = run[r].iteration
        => q = r

\* Whatever state a run leaves behind, a later invocation brings the manager to a
\* state in which the next iteration can start.
ManagerRests ==
    LET Rest == mm.state \in {"done", "failed"} IN ~Rest ~> Rest

\* No task is left behind in a state that only a run of its own iteration changes.
TasksRest ==
    \A b \in BA :
        LET Left == itm[b].state \in {"pending", "running", "verified", "notified"}
        IN  Left ~> ~Left

-----------------------------------------------------------------------------
\* Seen from the segments and the unified table alone, the manager copies segments.
Copy == INSTANCE SegmentCopy WITH
    segment <- [b \in BA |-> [start |-> itm[b].start, end |-> itm[b].end]],
    table   <- unified

\* Behind recovery and retries the manager copies every segment of an account in one
\* step, exactly once, and chooses the next only then (against SegmentCopy).
CopiesSegments == Copy!SegmentSpec
=============================================================================
