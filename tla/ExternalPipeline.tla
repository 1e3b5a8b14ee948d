-------------------------- MODULE ExternalPipeline --------------------------
(***************************************************************************)
(* The external half of the Flexsave standalone billing import             *)
(* (flexsavestandalone/gcp/billing): a manager, invoked by a scheduler,    *)
(* copies each customer's billing export table, one segment of export      *)
(* times after another, to a bucket folder and from there to the local     *)
(* table of that billing account.                                          *)
(*                                                                         *)
(* Processes: manager runs (RunExternalManager), with one goroutine per    *)
(* billing account; cloud-task workers (RunExternalToBucketTask and        *)
(* RunFromBucketExternalTask); BigQuery jobs; the clock.  They share the   *)
(* Firestore documents of the manager (lease) and of the accounts (etm),   *)
(* which change only in transactions.                                      *)
(*                                                                         *)
(* Export times are the numbers 1..MaxRecord; the customer's oldest record *)
(* is 1, so a segment that does not exist yet and the segment (0, 0] have  *)
(* the same successor.                                                     *)
(***************************************************************************)
EXTENDS Naturals, Sequences, FiniteSets

CONSTANTS
    BA,            \* the billing accounts
    Unreachable,   \* those whose BigQuery client cannot be created
    Run,           \* manager invocations that can be alive at the same time
    Worker,        \* cloud-task deliveries that can be alive at the same time
    MaxRecord,     \* bound: the newest export time a customer table reaches
    MaxIteration   \* bound: attempts per billing account

ASSUME BoundsAssumption == MaxRecord \in Nat /\ MaxIteration \in Nat
ASSUME AccountsAssumption == BA # {} /\ Unreachable \subseteq BA

VARIABLES
    newest,     \* customer table: newest export time of each account (0: no rows)
    lease,      \* ExternalManagerMetadata
    etm,        \* ExternalTaskMetadata of each account
    itmState,   \* InternalTaskMetadata of each account: still onboarding or not
    run,        \* where each manager invocation is
    gor,        \* the goroutine of each manager invocation for each account
    tasks,      \* cloud tasks created so far; any of them may be delivered again
    worker,     \* cloud-task deliveries being handled
    jobs,       \* BigQuery jobs of each account, in the order of their insertion
    files,      \* bucket folders of each account: the records found in each
    deletions,  \* <<account, folder>> that deleteBucketFiles is to remove
    local       \* local table of each account: copies of each record

managerVars == <<lease, run>>
dataVars    == <<newest, jobs, files, deletions, local>>
vars == <<newest, lease, etm, itmState, run, gor, tasks, worker, jobs, files,
          deletions, local>>

-----------------------------------------------------------------------------
Records == 1..MaxRecord
Kind    == {"to", "from"}

\* The three states a task goes through in each direction.
Waiting   == [to |-> "waiting_for_to_bucket",    from |-> "waiting_for_from_bucket"]
Scheduled == [to |-> "task_to_bucket_scheduled", from |-> "task_from_bucket_scheduled"]
Copying   == [to |-> "to_bucket",                from |-> "from_bucket"]

ExternalTaskState ==
    {"pending", "failed", "done_onboarding"}
      \cup {Waiting[k] : k \in Kind} \cup {Scheduled[k] : k \in Kind}
      \cup {Copying[k] : k \in Kind}

JobStatus == {"none", "pending", "created", "done", "failed", "timeout",
              "schedule_timeout", "canceling", "canceled"}

\* A job as the metadata sees it.  "due" is what the clock says of its two
\* deadlines: WaitToStartTimeout comes before WaitToFinishTimeout.
JobMeta == [status : JobStatus, id : Nat, due : {"none", "start", "finish"}]

NoJobMeta      == [status |-> "none",    id |-> 0, due |-> "none"]
PendingJobMeta == [status |-> "pending", id |-> 0, due |-> "none"]
DoneJobMeta    == [status |-> "done",    id |-> 0, due |-> "none"]

Etm == [state : ExternalTaskState, iteration : Nat, start : Nat, end : Nat,
        folder : Nat, job : [Kind -> JobMeta], onBoarding : BOOLEAN]

\* A job as BigQuery sees it; its id is its place in jobs[b].
Job == [kind : Kind, iteration : Nat, start : Nat, end : Nat, folder : Nat,
        status : {"running", "done", "failed"}]

Terminal(j) == j.status \in {"done", "failed"}

Segment(x) == (x.start + 1)..x.end

CloudTask == [ba : BA, kind : Kind, iteration : Nat]

\* A goroutine keeps the iteration it read, and the job it is looking up.
Gor == [pc : {"off", "lost", "lookup", "write", "update", "dispatch", "mark", "done"},
        iteration : Nat, kind : Kind, job : JobMeta]

GorAt(pc, i, k, j) == [pc |-> pc, iteration |-> i, kind |-> k, job |-> j]
GorOff  == GorAt("off",  0, "to", NoJobMeta)
GorLost == GorAt("lost", 0, "to", NoJobMeta)
GorDone == GorAt("done", 0, "to", NoJobMeta)

\* A delivery keeps what its initTask transaction returned.  "late" tells that
\* its context, which ends at WaitToStartTimeout, is over.
WorkerRec == [pc : {"idle", "begun", "bucket", "inserted"}, ba : BA, kind : Kind,
              iteration : Nat, start : Nat, end : Nat, folder : Nat,
              job : Nat, late : BOOLEAN]

AnyBA == CHOOSE b \in BA : TRUE

IdleWorker == [pc |-> "idle", ba |-> AnyBA, kind |-> "to", iteration |-> 0,
               start |-> 0, end |-> 0, folder |-> 0, job |-> 0, late |-> FALSE]

NewEtm == [state |-> "pending", iteration |-> 0, start |-> 0, end |-> 0,
           folder |-> 0, job |-> [k \in Kind |-> DoneJobMeta],
           onBoarding |-> TRUE]

\* An account that CreateMetadataForNewBillingID has just registered and that
\* the life cycle has made active.
Init ==
    /\ newest    = [b \in BA |-> 0]
    /\ lease     \in [running : {FALSE}, expired : {FALSE}, holder : Run]
    /\ etm       = [b \in BA |-> NewEtm]
    /\ itmState  = [b \in BA |-> "onboarding"]
    /\ run       = [r \in Run |-> "idle"]
    /\ gor       = [r \in Run |-> [b \in BA |-> GorOff]]
    /\ tasks     = {}
    /\ worker    = [w \in Worker |-> IdleWorker]
    /\ jobs      = [b \in BA |-> <<>>]
    /\ files     = [b \in BA |-> <<>>]
    /\ deletions = {}
    /\ local     = [b \in BA |-> [x \in Records |-> 0]]

-----------------------------------------------------------------------------
(***************************************************************************)
(* The customer and the clock.                                             *)
(***************************************************************************)

\* The customer's export appends rows; export times only grow.
RecordsArrive(b) ==
    /\ newest[b] < MaxRecord
    /\ newest' = [newest EXCEPT ![b] = @ + 1]
    /\ UNCHANGED <<lease, etm, itmState, run, gor, tasks, worker, jobs, files,
                   deletions, local>>

\* The lease's TTL goes by.
LeaseExpires ==
    /\ lease.running /\ ~lease.expired
    /\ lease' = [lease EXCEPT !.expired = TRUE]
    /\ UNCHANGED <<etm, itmState, run, gor, tasks, worker, dataVars>>

\* Mutant: the worker's context does not end at WaitToStartTimeout.
DeadlinePassesUnnoticed(b, k) ==
    LET j == etm[b].job[k] IN
    /\ \/ j.due = "none"  /\ j.status \in {"pending", "created"}
       \/ j.due = "start" /\ j.status = "created"
    /\ etm' = [etm EXCEPT ![b].job[k].due =
                   IF @ = "none" THEN "start" ELSE "finish"]
    /\ UNCHANGED <<lease, itmState, run, gor, tasks, worker, dataVars>>

\* A deadline of the account's job of kind k goes by.  WaitToStartTimeout is
\* also the end of the context of the worker that is to start that job.
DeadlinePasses(b, k) ==
    LET j == etm[b].job[k] IN
    /\ \/ j.due = "none"  /\ j.status \in {"pending", "created"}
       \/ j.due = "start" /\ j.status = "created"
    /\ etm' = [etm EXCEPT ![b].job[k].due =
                   IF @ = "none" THEN "start" ELSE "finish"]
    /\ worker' = [w \in Worker |->
                     IF worker[w].pc # "idle" /\ worker[w].ba = b /\ worker[w].kind = k
                     THEN [worker[w] EXCEPT !.late = TRUE] ELSE worker[w]]
    /\ UNCHANGED <<lease, itmState, run, gor, tasks, dataVars>>

-----------------------------------------------------------------------------
(***************************************************************************)
(* A manager run.                                                          *)
(***************************************************************************)

\* CatchExternalManagerMetadata, lease free: the run starts.  The manager's
\* iteration number is only compared with the one a run was given, so
\* lease.holder, the run that caught the lease last, stands for it.
Catch(r) ==
    /\ run[r] = "idle"
    /\ ~lease.running
    /\ lease' = [running |-> TRUE, expired |-> FALSE, holder |-> r]
    /\ run' = [run EXCEPT ![r] = "caught"]
    /\ UNCHANGED <<etm, itmState, gor, tasks, worker, dataVars>>

\* Mutant: a lease past its TTL gets a new TTL and stays taken.
ReclaimRenews(r) ==
    /\ run[r] = "idle"
    /\ lease.running /\ lease.expired
    /\ lease' = [lease EXCEPT !.expired = FALSE]
    /\ UNCHANGED <<etm, itmState, run, gor, tasks, worker, dataVars>>

\* CatchExternalManagerMetadata, lease past its TTL: it is released, and this
\* invocation ends; a later one catches it.
Reclaim(r) ==
    /\ run[r] = "idle"
    /\ lease.running /\ lease.expired
    /\ lease' = [lease EXCEPT !.running = FALSE]
    /\ UNCHANGED <<etm, itmState, run, gor, tasks, worker, dataVars>>

\* Mutant: a job whose start timed out is never looked up.
SnapshotWithoutLookup(e) == GorAt("update", e.iteration, "to", NoJobMeta)

\* What a goroutine starts with: a job whose start timed out is looked up first.
Snapshot(e) ==
    LET lost == {k \in Kind : e.job[k].status = "schedule_timeout"}
        k    == IF "to" \in lost THEN "to" ELSE "from" IN
    IF lost = {} THEN GorAt("update", e.iteration, "to", NoJobMeta)
    ELSE GorAt("lookup", e.iteration, k, e.job[k])

\* manageExternalTasks reads the active accounts and starts a goroutine for each.
\* One that gets no client returns before it has deferred tasks.Done().
ListActiveTasks(r) ==
    /\ run[r] = "caught"
    /\ run' = [run EXCEPT ![r] = "managing"]
    /\ gor' = [gor EXCEPT ![r] = [b \in BA |->
                  IF b \in Unreachable THEN GorLost ELSE Snapshot(etm[b])]]
    /\ UNCHANGED <<lease, etm, itmState, tasks, worker, dataVars>>

\* Mutant: the prefix that is looked up never matches a job.
PrecalculateFindsNothing(r, b) ==
    /\ gor[r][b].pc = "lookup"
    /\ gor' = [gor EXCEPT ![r][b] = [@ EXCEPT !.pc = "write", !.job.status = "failed"]]
    /\ UNCHANGED <<managerVars, etm, itmState, tasks, worker, dataVars>>

\* precalculateJobsId: was a job inserted under the prefix of this iteration?
PrecalculateJobsId(r, b) ==
    LET g     == gor[r][b]
        found == {i \in DOMAIN jobs[b] : /\ jobs[b][i].kind = g.kind
                                         /\ jobs[b][i].iteration = g.iteration} IN
    /\ g.pc = "lookup"
    /\ \/ /\ found = {}
          /\ gor' = [gor EXCEPT ![r][b] = [@ EXCEPT !.pc = "write", !.job.status = "failed"]]
       \/ \E i \in found :
             gor' = [gor EXCEPT ![r][b] =
                       [@ EXCEPT !.pc = "write", !.job.status = "timeout", !.job.id = i]]
    /\ UNCHANGED <<managerVars, etm, itmState, tasks, worker, dataVars>>

\* The transaction that follows replaces the whole job and has no guard; the
\* document it returns is the one the goroutine goes on with.
SavePrecalculatedJob(r, b) ==
    LET g == gor[r][b] IN
    /\ g.pc = "write"
    /\ etm' = [etm EXCEPT ![b].job[g.kind] = g.job]
    /\ gor' = [gor EXCEPT ![r][b] = GorAt("update", etm[b].iteration, "to", NoJobMeta)]
    /\ UNCHANGED <<managerVars, itmState, tasks, worker, dataVars>>

\* updateExternalTask is one transaction, guarded by the iteration the goroutine
\* read.  UpdateTo(r, b, e) commits the document e and goes on to createCloudTask,
\* which has work to do only when e waits for a worker.
UpdateTo(r, b, e) ==
    /\ etm' = [etm EXCEPT ![b] = e]
    /\ gor' = [gor EXCEPT ![r][b] =
                  IF e.state = Waiting.to        THEN GorAt("dispatch", e.iteration, "to", NoJobMeta)
                  ELSE IF e.state = Waiting.from THEN GorAt("dispatch", e.iteration, "from", NoJobMeta)
                  ELSE GorDone]
    /\ UNCHANGED <<managerVars, itmState, tasks, worker, newest, jobs, files, local>>

CanUpdate(r, b) ==
    /\ gor[r][b].pc = "update"
    /\ gor[r][b].iteration = etm[b].iteration

\* Mutant: the segment is left behind once its export is done, loaded or not.
NextSegmentAfterExport(e, last) ==
    IF e.job["to"].status = "done"
    THEN [e EXCEPT !.iteration = @ + 1, !.start = e.end, !.end = last]
    ELSE [e EXCEPT !.iteration = @ + 1]

\* calculateNextSegment: only when both jobs of the previous attempt are done;
\* otherwise the attempt is repeated with the same segment.
NextSegment(e, last) ==
    IF \A k \in Kind : e.job[k].status = "done"
    THEN [e EXCEPT !.iteration = @ + 1, !.start = e.end, !.end = last]
    ELSE [e EXCEPT !.iteration = @ + 1]

\* State pending.  With no new rows, or none at all, only the iteration and the
\* empty segment are saved; otherwise the files of the previous attempt are to be
\* deleted and a worker is awaited.
UpdatePending(r, b) ==
    LET e == etm[b]
        n == NextSegment(e, newest[b]) IN
    /\ CanUpdate(r, b)
    /\ e.state = "pending"
    /\ e.iteration < MaxIteration
    /\ \/ /\ \A k \in Kind : e.job[k].status = "done"
          /\ ~(n.start < n.end)
          /\ UpdateTo(r, b, n)
          /\ UNCHANGED deletions
       \/ /\ (\A k \in Kind : e.job[k].status = "done") => n.start < n.end
          /\ UpdateTo(r, b, [n EXCEPT
                 !.state = Waiting.to, !.folder = 0,
                 !.job = [k \in Kind |-> IF k = "to" THEN PendingJobMeta ELSE NoJobMeta]])
          /\ deletions' = deletions \cup ({<<b, e.folder>>} \ {<<b, 0>>})

\* The commit may fail after the body has started deleteBucketFiles.
UpdatePendingAborts(r, b) ==
    LET e == etm[b] IN
    /\ CanUpdate(r, b)
    /\ e.state = "pending"
    /\ (\A k \in Kind : e.job[k].status = "done") => e.end < newest[b]
    /\ e.folder # 0
    /\ deletions' = deletions \cup {<<b, e.folder>>}
    /\ gor' = [gor EXCEPT ![r][b] = GorDone]
    /\ UNCHANGED <<managerVars, etm, itmState, tasks, worker, newest, jobs, files, local>>

\* States waiting_for_... and task_..._scheduled: the worker has until
\* WaitToStartTimeout to say that its job was created.
UpdateStarting(r, b, k) ==
    LET e == etm[b]
        j == e.job[k] IN
    /\ CanUpdate(r, b)
    /\ e.state \in {Waiting[k], Scheduled[k]}
    /\ UpdateTo(r, b,
          IF e.state = Scheduled[k] /\ j.status = "created"
          THEN [e EXCEPT !.state = Copying[k]]
          ELSE IF j.due # "none"
               THEN [e EXCEPT !.state = "failed", !.job[k].status = "schedule_timeout"]
               ELSE e)
    /\ UNCHANGED deletions

\* handleJob, and what follows a finished job: the other direction, or the end.
AfterJob(e, k) ==
    IF k = "to"
    THEN [e EXCEPT !.state = Waiting.from, !.job["to"].status = "done",
                   !.job["from"] = PendingJobMeta]
    ELSE [e EXCEPT !.state = IF e.onBoarding THEN "done_onboarding" ELSE "pending",
                   !.job["from"].status = "done"]

UpdateCopying(r, b, k) ==
    LET e == etm[b]
        j == jobs[b][e.job[k].id] IN
    /\ CanUpdate(r, b)
    /\ e.state = Copying[k]
    /\ e.job[k].id \in DOMAIN jobs[b]
    /\ UpdateTo(r, b,
          IF j.status = "done" THEN AfterJob(e, k)
          ELSE IF j.status = "failed"
               THEN [e EXCEPT !.state = "failed", !.job[k].status = "failed"]
          ELSE IF e.job[k].due = "finish"
               THEN [e EXCEPT !.state = "failed", !.job[k].status = "timeout"]
          ELSE e)
    /\ UNCHANGED deletions

\* handleFailedJob.  The result is the new job status and whether it failed.  A
\* timed-out job is canceled, and the run waits until BigQuery says how it ended;
\* it gives up when its lease is over or a call to BigQuery fails.
LeaseOver(r) == lease.holder # r \/ lease.expired

\* Mutant: nobody waits until BigQuery has ended the job.
FailedJobResultsAtOnce(r, b, j) ==
    IF LeaseOver(r) THEN {[err |-> TRUE, status |-> j.status]}
    ELSE {[err |-> FALSE,
           status |-> IF j.status \in {"timeout", "canceling"} THEN "canceled"
                      ELSE IF j.status = "canceled" THEN "failed" ELSE j.status]}

FailedJobResults(r, b, j) ==
    LET GivesUp(s) == [err |-> TRUE,  status |-> s]
        Ends(s)    == [err |-> FALSE, status |-> s]
        ended      == {i \in DOMAIN jobs[b] : i = j.id /\ Terminal(jobs[b][i])} IN
    IF LeaseOver(r) THEN {GivesUp(j.status)}
    ELSE IF j.status \in {"timeout", "canceling"}
         THEN {GivesUp(s) : s \in {j.status, "canceling"}} \cup
              {Ends(IF jobs[b][i].status = "done" THEN "done" ELSE "canceled") : i \in ended}
    ELSE IF j.status = "canceled" THEN {Ends("failed")}
    ELSE {Ends(j.status)}

\* Mutant: giving up on a load starts the attempt again, as for an export.
UpdateFailedGivesUp(r, b) ==
    LET e == etm[b]
        k == IF e.job["to"].status # "done" THEN "to" ELSE "from" IN
    /\ CanUpdate(r, b)
    /\ e.state = "failed"
    /\ IF e.job[k].status = "done" THEN UpdateTo(r, b, e)
       ELSE \E res \in FailedJobResults(r, b, e.job[k]) :
              UpdateTo(r, b, [e EXCEPT
                    !.state = IF res.err \/ res.status = "failed" THEN "pending"
                              ELSE IF res.status = "done"
                                   THEN (IF k = "to" THEN Copying.to ELSE "pending")
                              ELSE "failed",
                    !.job[k].status = res.status])
    /\ UNCHANGED deletions

\* handleFailedFlow.  Giving up on an export only starts the attempt again;
\* giving up on a load aborts the transaction (GoroutineFails).
UpdateFailed(r, b) ==
    LET e == etm[b]
        k == IF e.job["to"].status # "done" THEN "to" ELSE "from" IN
    /\ CanUpdate(r, b)
    /\ e.state = "failed"
    /\ IF e.job[k].status = "done" THEN UpdateTo(r, b, e)
       ELSE \E res \in FailedJobResults(r, b, e.job[k]) :
              /\ res.err => k = "to"
              /\ UpdateTo(r, b, [e EXCEPT
                    !.state = IF res.err \/ res.status = "failed" THEN "pending"
                              ELSE IF res.status = "done"
                                   THEN (IF k = "to" THEN Copying.to ELSE "pending")
                              ELSE "failed",
                    !.job[k].status = res.status])
    /\ UNCHANGED deletions

\* done_onboarding waits for MarkOnboardingDone: the document is saved unchanged.
UpdateDoneOnboarding(r, b) ==
    /\ CanUpdate(r, b)
    /\ etm[b].state = "done_onboarding"
    /\ UpdateTo(r, b, etm[b])
    /\ UNCHANGED deletions

UpdateExternalTask(r, b) ==
    \/ UpdatePending(r, b)
    \/ \E k \in Kind : UpdateStarting(r, b, k) \/ UpdateCopying(r, b, k)
    \/ UpdateFailed(r, b)
    \/ UpdateDoneOnboarding(r, b)

\* createCloudTask: also for a task that an earlier run has already created.
CreateCloudTask(r, b) ==
    LET g == gor[r][b] IN
    /\ g.pc = "dispatch"
    /\ tasks' = tasks \cup {[ba |-> b, kind |-> g.kind, iteration |-> g.iteration]}
    /\ gor' = [gor EXCEPT ![r][b] = GorDone]
    /\ UNCHANGED <<managerVars, etm, itmState, worker, dataVars>>

\* Any call of a goroutine may fail (a stale iteration always does): the error is
\* logged, nothing is saved, and the other accounts go on.
GoroutineFails(r, b) ==
    /\ gor[r][b].pc \in {"lookup", "write", "update", "dispatch", "mark"}
    /\ gor' = [gor EXCEPT ![r][b] = GorDone]
    /\ UNCHANGED <<managerVars, etm, itmState, tasks, worker, dataVars>>

\* Mutant: the run skips markOnboardingDone.
AllTasksDispatchedUnmarked(r) ==
    /\ run[r] = "managing"
    /\ \A b \in BA : gor[r][b].pc = "done"
    /\ run' = [run EXCEPT ![r] = "marking"]
    /\ UNCHANGED <<lease, etm, itmState, gor, tasks, worker, dataVars>>

\* tasks.Wait() returns, and markOnboardingDone starts a goroutine per account.
AllTasksDispatched(r) ==
    /\ run[r] = "managing"
    /\ \A b \in BA : gor[r][b].pc = "done"
    /\ run' = [run EXCEPT ![r] = "marking"]
    /\ gor' = [gor EXCEPT ![r] = [b \in BA |-> GorAt("mark", 0, "to", NoJobMeta)]]
    /\ UNCHANGED <<lease, etm, itmState, tasks, worker, dataVars>>

\* Mutant: the state is not checked again in the transaction.
MarkOnboardingDoneAnyway(r, b) ==
    /\ gor[r][b].pc = "mark"
    /\ gor' = [gor EXCEPT ![r][b] = GorDone]
    /\ etm' = [etm EXCEPT ![b].state = "pending", ![b].onBoarding = FALSE]
    /\ itmState' = [itmState EXCEPT ![b] = "initializing"]
    /\ UNCHANGED <<managerVars, tasks, worker, dataVars>>

\* Mutant: the account is handed over as pending, not as initializing.
MarkOnboardingDonePending(r, b) ==
    /\ gor[r][b].pc = "mark"
    /\ gor' = [gor EXCEPT ![r][b] = GorDone]
    /\ IF etm[b].state = "done_onboarding"
       THEN /\ etm' = [etm EXCEPT ![b].state = "pending", ![b].onBoarding = FALSE]
            /\ itmState' = [itmState EXCEPT ![b] = "pending"]
       ELSE UNCHANGED <<etm, itmState>>
    /\ UNCHANGED <<managerVars, tasks, worker, dataVars>>

\* One transaction on the external and the internal document of the account.
MarkOnboardingDone(r, b) ==
    /\ gor[r][b].pc = "mark"
    /\ gor' = [gor EXCEPT ![r][b] = GorDone]
    /\ IF etm[b].state = "done_onboarding"
       THEN /\ etm' = [etm EXCEPT ![b].state = "pending", ![b].onBoarding = FALSE]
            /\ itmState' = [itmState EXCEPT ![b] = "initializing"]
       ELSE UNCHANGED <<etm, itmState>>
    /\ UNCHANGED <<managerVars, tasks, worker, dataVars>>

\* tearDown releases the lease unless another run has caught it since.
TearDown(r) ==
    /\ run[r] = "marking"
    /\ \A b \in BA : gor[r][b].pc = "done"
    /\ lease' = IF lease.holder = r THEN [lease EXCEPT !.running = FALSE] ELSE lease
    /\ run' = [run EXCEPT ![r] = "idle"]
    /\ gor' = [gor EXCEPT ![r] = [b \in BA |-> GorOff]]
    /\ UNCHANGED <<etm, itmState, tasks, worker, dataVars>>

\* An error, a crash or the end of the run's context ends it where it is and
\* leaves the lease taken.
RunDies(r) ==
    /\ run[r] # "idle"
    /\ run' = [run EXCEPT ![r] = "idle"]
    /\ gor' = [gor EXCEPT ![r] = [b \in BA |-> GorOff]]
    /\ UNCHANGED <<lease, etm, itmState, tasks, worker, dataVars>>

\* deleteBucketFiles runs in a goroutine of its own.
DeleteBucketFiles(b, f) ==
    /\ <<b, f>> \in deletions
    /\ deletions' = deletions \ {<<b, f>>}
    /\ files' = [files EXCEPT ![b][f] = {}]
    /\ UNCHANGED <<managerVars, etm, itmState, gor, tasks, worker, newest, jobs, local>>

-----------------------------------------------------------------------------
(***************************************************************************)
(* A cloud-task worker.  A delivery whose initTask guard fails changes     *)
(* nothing.                                                                *)
(***************************************************************************)
\* Mutant: the delivery checks the iteration but not the state.
InitTaskAnyState(w, t) ==
    LET e == etm[t.ba] IN
    /\ worker[w].pc = "idle"
    /\ t \in tasks
    /\ e.iteration = t.iteration
    /\ etm' = [etm EXCEPT ![t.ba].state = Scheduled[t.kind]]
    /\ worker' = [worker EXCEPT ![w] =
          [pc |-> "begun", ba |-> t.ba, kind |-> t.kind, iteration |-> e.iteration,
           start |-> e.start, end |-> e.end, folder |-> e.folder, job |-> 0,
           late |-> e.job[t.kind].due # "none"]]
    /\ UNCHANGED <<managerVars, itmState, gor, tasks, dataVars>>

InitTask(w, t) ==
    LET e == etm[t.ba] IN
    /\ worker[w].pc = "idle"
    /\ t \in tasks
    /\ e.iteration = t.iteration
    /\ e.state = Waiting[t.kind]
    /\ etm' = [etm EXCEPT ![t.ba].state = Scheduled[t.kind]]
    /\ worker' = [worker EXCEPT ![w] =
          [pc |-> "begun", ba |-> t.ba, kind |-> t.kind, iteration |-> e.iteration,
           start |-> e.start, end |-> e.end, folder |-> e.folder, job |-> 0,
           late |-> e.job[t.kind].due # "none"]]
    /\ UNCHANGED <<managerVars, itmState, gor, tasks, dataVars>>

\* copyToBucket names a new folder and saves it, whatever the document says.
SetBucket(w) ==
    LET v == worker[w]
        f == Len(files[v.ba]) + 1 IN
    /\ v.pc = "begun" /\ v.kind = "to" /\ ~v.late
    /\ files' = [files EXCEPT ![v.ba] = Append(@, {})]
    /\ etm' = [etm EXCEPT ![v.ba].folder = f]
    /\ worker' = [worker EXCEPT ![w].pc = "bucket", ![w].folder = f]
    /\ UNCHANGED <<managerVars, itmState, gor, tasks, newest, jobs, deletions, local>>

\* The export or load job is inserted.  BigQuery refuses a load from no folder.
InsertJob(w) ==
    LET v == worker[w] IN
    /\ ~v.late
    /\ v.folder # 0
    /\ v.pc = IF v.kind = "to" THEN "bucket" ELSE "begun"
    /\ jobs' = [jobs EXCEPT ![v.ba] = Append(@,
          [kind |-> v.kind, iteration |-> v.iteration, start |-> v.start,
           end |-> v.end, folder |-> v.folder, status |-> "running"])]
    /\ worker' = [worker EXCEPT ![w].pc = "inserted", ![w].job = Len(jobs[v.ba]) + 1]
    /\ UNCHANGED <<managerVars, etm, itmState, gor, tasks, newest, files, deletions, local>>

\* The last transaction saves the job's id; it has no guard.
RecordJob(w) ==
    LET v == worker[w] IN
    /\ v.pc = "inserted" /\ ~v.late
    /\ etm' = [etm EXCEPT ![v.ba].job[v.kind].id = v.job,
                          ![v.ba].job[v.kind].status = "created",
                          ![v.ba].state = Scheduled[v.kind]]
    /\ worker' = [worker EXCEPT ![w] = IdleWorker]
    /\ UNCHANGED <<managerVars, itmState, gor, tasks, dataVars>>

\* An error, a crash, or the end of the worker's context.
WorkerDies(w) ==
    /\ worker[w].pc # "idle"
    /\ worker' = [worker EXCEPT ![w] = IdleWorker]
    /\ UNCHANGED <<managerVars, etm, itmState, gor, tasks, dataVars>>

-----------------------------------------------------------------------------
(***************************************************************************)
(* BigQuery.  An export that fails may leave some of its files.  A load    *)
(* appends all the rows it finds in its folder, or none; an empty folder   *)
(* makes it fail.                                                          *)
(***************************************************************************)
Finish(b, i, status) ==
    jobs' = [jobs EXCEPT ![b][i].status = status]

ExportFinishes(b, i) ==
    LET j == jobs[b][i] IN
    /\ i \in DOMAIN jobs[b] /\ j.kind = "to" /\ j.status = "running"
    /\ \/ /\ Finish(b, i, "done")
          /\ files' = [files EXCEPT ![b][j.folder] = Segment(j)]
       \/ /\ Finish(b, i, "failed")
          /\ \E some \in SUBSET Segment(j) : files' = [files EXCEPT ![b][j.folder] = some]
    /\ UNCHANGED <<managerVars, etm, itmState, gor, tasks, worker, newest, deletions, local>>

LoadFinishes(b, i) ==
    LET j == jobs[b][i] IN
    /\ i \in DOMAIN jobs[b] /\ j.kind = "from" /\ j.status = "running"
    /\ \/ /\ files[b][j.folder] # {}
          /\ Finish(b, i, "done")
          /\ local' = [local EXCEPT ![b] =
                [x \in Records |-> IF x \in files[b][j.folder] THEN @[x] + 1 ELSE @[x]]]
       \/ /\ Finish(b, i, "failed")
          /\ UNCHANGED local
    /\ UNCHANGED <<managerVars, etm, itmState, gor, tasks, worker, newest, files, deletions>>

-----------------------------------------------------------------------------
RunStep(r) ==
    \/ Catch(r) \/ Reclaim(r) \/ ListActiveTasks(r) \/ AllTasksDispatched(r)
    \/ TearDown(r) \/ RunDies(r)
    \/ \E b \in BA : \/ PrecalculateJobsId(r, b) \/ SavePrecalculatedJob(r, b)
                     \/ UpdateExternalTask(r, b) \/ UpdatePendingAborts(r, b)
                     \/ CreateCloudTask(r, b)
                     \/ GoroutineFails(r, b) \/ MarkOnboardingDone(r, b)

WorkerStep(w) ==
    \/ \E t \in tasks : InitTask(w, t)
    \/ SetBucket(w) \/ InsertJob(w) \/ RecordJob(w) \/ WorkerDies(w)

Environment ==
    \/ LeaseExpires
    \/ \E b \in BA : \/ RecordsArrive(b)
                     \/ \E k \in Kind : DeadlinePasses(b, k)
                     \/ \E i \in DOMAIN jobs[b] : ExportFinishes(b, i) \/ LoadFinishes(b, i)
    \/ \E d \in deletions : DeleteBucketFiles(d[1], d[2])

Next == \/ \E r \in Run : RunStep(r)
        \/ \E w \in Worker : WorkerStep(w)
        \/ Environment

Spec == Init /\ [][Next]_vars

\* The scheduler keeps invoking the manager, an invocation does not stand still,
\* time passes and BigQuery ends every job it is given.
Progress ==
    /\ \A r \in Run : WF_vars(RunStep(r))
    /\ WF_vars(LeaseExpires)
    /\ \A b \in BA :
          /\ \A k \in Kind : WF_vars(DeadlinePasses(b, k))
          /\ WF_vars(\E i \in DOMAIN jobs[b] : ExportFinishes(b, i) \/ LoadFinishes(b, i))

\* No call of a manager run fails, or comes after the end of the lease, every time
\* it is made.  Nothing is assumed of the workers, nor of the jobs' success.
CallsSucceed ==
    \A r \in Run :
        /\ SF_vars(~LeaseOver(r) /\ ListActiveTasks(r))
        /\ SF_vars(AllTasksDispatched(r))
        /\ \A b \in BA : /\ SF_vars(~LeaseOver(r) /\ PrecalculateJobsId(r, b))
                          /\ SF_vars(~LeaseOver(r) /\ SavePrecalculatedJob(r, b))
                          /\ SF_vars(~LeaseOver(r) /\ UpdateExternalTask(r, b))
                          /\ SF_vars(MarkOnboardingDone(r, b))

FairSpec == Spec /\ Progress /\ CallsSucceed

-----------------------------------------------------------------------------
(***************************************************************************)
(* Properties.                                                             *)
(***************************************************************************)

\* The documents, jobs and tables have the shape that the code gives them.
TypeOK ==
    /\ newest    \in [BA -> Nat]
    /\ lease     \in [running : BOOLEAN, expired : BOOLEAN, holder : Run]
    /\ etm       \in [BA -> Etm]
    /\ itmState  \in [BA -> {"onboarding", "initializing"}]
    /\ run       \in [Run -> {"idle", "caught", "managing", "marking"}]
    /\ gor       \in [Run -> [BA -> Gor]]
    /\ tasks     \subseteq CloudTask
    /\ worker    \in [Worker -> WorkerRec]
    /\ jobs      \in [BA -> Seq(Job)]
    /\ files     \in [BA -> Seq(SUBSET Nat)]
    /\ deletions \subseteq (BA \X Nat)
    /\ local     \in [BA -> [Records -> Nat]]

\* No retry, duplicate delivery or late answer makes a row of the customer's table
\* arrive twice in the local table.
NoRowTwice == \A b \in BA : \A x \in Records : local[b][x] <= 1

\* However often a cloud task is created and delivered, an attempt inserts at most
\* one job in each direction.
OneJobPerAttempt ==
    \A b \in BA : \A i, j \in DOMAIN jobs[b] :
        /\ jobs[b][i].kind = jobs[b][j].kind
        /\ jobs[b][i].iteration = jobs[b][j].iteration
        => i = j

\* The transactions by which a worker saves the bucket and the job have no guard;
\* still, as long as its context lives, the task is waiting for this worker only.
LiveWorkerOwnsTask ==
    \A w \in Worker :
        LET v == worker[w] IN
        v.pc # "idle" /\ ~v.late =>
            /\ etm[v.ba].iteration = v.iteration
            /\ etm[v.ba].state = Scheduled[v.kind]
            /\ \A u \in Worker \ {w} :
                  ~(worker[u].pc # "idle" /\ ~worker[u].late /\ worker[u].ba = v.ba)

\* A load job that is still running belongs to the current attempt: a new attempt
\* never starts, and no segment is chosen, under a load that may yet append.
LoadsSettled ==
    \A b \in BA : \A i \in DOMAIN jobs[b] :
        jobs[b][i].kind = "from" /\ jobs[b][i].status = "running" =>
            /\ jobs[b][i].iteration = etm[b].iteration
            /\ etm[b].state \in {Scheduled.from, Copying.from, "failed"}

\* The files that a load reads are not deleted under it.
FilesKeptWhileLoading ==
    \A b \in BA : \A i \in DOMAIN jobs[b] :
        jobs[b][i].kind = "from" /\ jobs[b][i].status = "running" =>
            /\ <<b, jobs[b][i].folder>> \notin deletions
            /\ files[b][jobs[b][i].folder] = Segment(jobs[b][i])

\* The internal pipeline may start on an account only when the whole first segment
\* of its history, all that its export jobs covered, is in the local table.
OnboardedHistoryLoaded ==
    \A b \in BA : itmState[b] = "initializing" =>
        \E i \in DOMAIN jobs[b] :
            /\ jobs[b][i].start = 0
            /\ \A x \in Segment(jobs[b][i]) : local[b][x] >= 1

\* No state of an attempt is a trap: whatever fails, dies or comes late, the account
\* gets back to where the next attempt can start or its onboarding can end.
AttemptEnds ==
    LET Rest(b) == etm[b].state \in {"pending", "done_onboarding"}
    IN  \A b \in BA : ~Rest(b) ~> Rest(b)

\* An account whose history is loaded is handed over to the internal pipeline.
OnboardingMarked ==
    \A b \in BA \ Unreachable :
        etm[b].state = "done_onboarding" ~> itmState[b] = "initializing"

\* Whatever happens to the run that holds it, the lease becomes free again.
LeaseReleased == lease.running ~> ~lease.running

-----------------------------------------------------------------------------
\* Seen from the segment and the table alone, the pipeline copies segments.
Copy == INSTANCE SegmentCopy WITH
    segment <- [b \in BA |-> [start |-> etm[b].start, end |-> etm[b].end]],
    table   <- local

\* Behind all its retries the pipeline copies every segment in one step, exactly
\* once, and moves to the next only then (updateExternalTask and the workers
\* against the abstract specification SegmentCopy).
CopiesSegments == Copy!SegmentSpec

\* The local table is the customer's table up to one of the bounds of the account's
\* segment: the internal pipeline, which takes its newest row for the end of what is
\* there to copy (calculateNextSegment), meets no half segment and no gap in it.
LocalIsPrefix == Copy!TableIsPrefix
=============================================================================
