----------------------- MODULE InternalPipelineProofs -----------------------
(***************************************************************************)
(* For any accounts, any number of overlapping manager runs and deliveries *)
(* and any mishaps: type correctness of the internal pipeline, and at most *)
(* one run and one copy job for each iteration.                            *)
(*                                                                         *)
(* For a single invocation of the manager that is repeated (SingleRun),    *)
(* and under the mishaps that each lemma allows: what the states of the    *)
(* tasks say of the tables is so, the copy to the unified table is         *)
(* awaited, no row arrives there twice, and the manager implements         *)
(* SegmentCopy.  InternalRunsProofs has the theorems, for any number of    *)
(* runs of which at most one is under way.                                 *)
(***************************************************************************)
EXTENDS InternalPipeline, FiniteSetTheorems, SequenceTheorems, TLAPS

-----------------------------------------------------------------------------
(***************************************************************************)
(* Type correctness.                                                       *)
(***************************************************************************)

LEMMA IdleTypes == IdleRun \in RunRec /\ IdleWorker \in WorkerRec
<1>1. (CHOOSE b \in BA : TRUE) \in BA
  BY AccountsAssumption
<1> QED
  BY <1>1 DEF IdleRun, RunRec, NoJobs, Step, IdleWorker, WorkerRec

LEMMA InitTypes == Init => TypeOK
<1> SUFFICES ASSUME Init PROVE TypeOK
  OBVIOUS
<1>1. <<>> \in Seq(Job)
  OBVIOUS
<1>2. mm \in Manager
  BY DEF Init, Manager, ManagerState
<1>3. itm \in [BA -> Itm]
  BY DEF Init, Itm, TaskState
<1> QED
  BY <1>1, <1>2, <1>3, IdleTypes DEF Init, TypeOK

LEMMA StepNames ==
    {"idle", "claim", "rec_done", "rec_list_notify", "rec_notify", "rec_list_settle",
     "rec_settle", "list_all", "single", "catch", "rec_delete", "rec_failed", "rec_list",
     "rec_fail", "table", "list_active", "update", "list_pending", "create",
     "list_waiting", "wait", "copy", "copying", "list_verified", "notify", "life_cycle",
     "tear_down", "list_notified", "settle"} \subseteq Step
  BY DEF Step, Failing, OfIteration

\* The record of a run that goes to another step.
LEMMA GoesTypes ==
    ASSUME run \in [Run -> RunRec], NEW r \in Run, NEW step \in Step, Goes(r, step)
    PROVE  run' \in [Run -> RunRec]
BY ZenonT(60) DEF Goes, RunRec

LEMMA EndsTypes ==
    ASSUME run \in [Run -> RunRec], NEW r \in Run, Ends(r)
    PROVE  run' \in [Run -> RunRec]
BY IdleTypes DEF Ends

LEMMA ManagerTypes ==
    ASSUME NEW m \in Manager, NEW state \in ManagerState
    PROVE  [m EXCEPT !.state = state] \in Manager
BY DEF Manager

LEMMA TaskTypes ==
    ASSUME NEW t \in Itm, NEW state \in TaskState
    PROVE  [t EXCEPT !.state = state] \in Itm
BY DEF Itm

\* A run that lists accounts and goes to another step.
LEMMA ListedTypes ==
    ASSUME run \in [Run -> RunRec], NEW r \in Run, NEW step \in Step,
           NEW bas \in SUBSET BA
    PROVE  [run EXCEPT ![r].at = step, ![r].todo = bas] \in [Run -> RunRec]
BY ZenonT(60) DEF RunRec

LEMMA ListsAllTypes ==
    ASSUME run \in [Run -> RunRec], NEW r \in Run, NEW step \in Step,
           NEW bas \in SUBSET BA, NEW failing \in SUBSET BA
    PROVE  [run EXCEPT ![r].at = step, ![r].todo = bas, ![r].toFail = failing]
             \in [Run -> RunRec]
BY ZenonT(90) DEF RunRec

LEMMA ListsTypes ==
    ASSUME TypeOK, NEW r \in Run, NEW from, NEW states, NEW to \in Step,
           Lists(r, from, states, to)
    PROVE  TypeOK'
<1> DEFINE bas == {b \in BA : itm[b].state \in states
                                /\ itm[b].iteration = run[r].iteration}
<1>1. run' = [run EXCEPT ![r].at = to, ![r].todo = bas]
  BY DEF Lists
<1>2. bas \in SUBSET BA
  OBVIOUS
<1>3. run' \in [Run -> RunRec]
  BY Zenon, <1>1, <1>2, ListedTypes DEF TypeOK
<1> QED
  BY <1>3 DEF TypeOK, Lists, workVars

LEMMA VisitsTypes ==
    ASSUME TypeOK, NEW r \in Run, NEW step, NEW b \in BA, Visits(r, step, b),
           itm' \in [BA -> Itm], tasks' \subseteq CloudTask
    PROVE  TypeOK'
<1>1. run[r] \in RunRec /\ run[r].todo \ {b} \in SUBSET BA
  BY DEF TypeOK, RunRec
<1>2. [run[r] EXCEPT !.todo = run[r].todo \ {b}] \in RunRec
  BY <1>1 DEF RunRec
<1>3. run' \in [Run -> RunRec]
  BY <1>2 DEF TypeOK, Visits
<1> QED
  BY <1>3 DEF TypeOK, Visits

LEMMA SetsTypes ==
    ASSUME TypeOK, NEW r \in Run, NEW step, NEW b \in BA, NEW state \in TaskState,
           Sets(r, step, b, state)
    PROVE  TypeOK'
<1>1. itm' \in [BA -> Itm]
  <2>1. itm[b] \in Itm /\ itm' = [itm EXCEPT ![b] = [itm[b] EXCEPT !.state = state]]
    BY DEF Sets, TypeOK
  <2> QED
    BY <2>1, TaskTypes DEF TypeOK
<1> QED
  BY <1>1, VisitsTypes DEF Sets, TypeOK

LEMMA SavesTypes ==
    ASSUME TypeOK, NEW r \in Run, NEW from, NEW state \in ManagerState, NEW to \in Step,
           Saves(r, from, state, to)
    PROVE  TypeOK'
BY GoesTypes, ManagerTypes DEF TypeOK, Saves, workVars

\* A run that goes to another step, or ends, and may save its state.
LEMMA MovesTypes ==
    ASSUME TypeOK, run' \in [Run -> RunRec], mm' \in Manager,
           UNCHANGED <<newest, itm, workVars, tmp, unified>>
    PROVE  TypeOK'
BY DEF TypeOK, workVars

LEMMA DeletesTypes ==
    ASSUME TypeOK, NEW r \in Run, NEW from, NEW to \in Step, DeletesTmpTable(r, from, to)
    PROVE  TypeOK'
BY GoesTypes DEF TypeOK, DeletesTmpTable, workVars

LEMMA RecoveryTypes ==
    ASSUME TypeOK, NEW r \in Run, GeneralRecovery(r) \/ RecoveryAction(r)
    PROVE  TypeOK'
<1> USE StepNames
<1>0. run \in [Run -> RunRec] /\ mm \in Manager
  BY DEF TypeOK
<1>1. CASE GeneralRecovery(r)
  BY <1>0, <1>1, GoesTypes, MovesTypes DEF GeneralRecovery
<1>2. CASE ClaimRecovery(r)
  <2>1. RecoveryStep(mm.state) \in Step /\ mm.iteration \in Nat
    BY <1>0 DEF RecoveryStep, Manager
  <2>2. run' \in [Run -> RunRec]
    <3>1. [run[r] EXCEPT !.at = RecoveryStep(mm.state), !.iteration = mm.iteration]
             \in RunRec
      BY <1>0, <2>1 DEF RunRec
    <3> QED
      BY <1>0, <1>2, <3>1 DEF ClaimRecovery
  <2>3. mm' \in Manager
    BY <1>0, <1>2 DEF ClaimRecovery, Manager
  <2> QED
    BY <1>2, <2>2, <2>3, MovesTypes DEF ClaimRecovery
<1>3. CASE RecoveryDeletes(r)
  BY <1>3, DeletesTypes DEF RecoveryDeletes
<1>4. CASE RecoveryFails(r) \/ RecoveryDone(r) \/ RecoveryNotified(r) \/ RecoverySettled(r)
  BY <1>4, SavesTypes
     DEF RecoveryFails, RecoveryDone, RecoveryNotified, RecoverySettled, ManagerState
<1>5. CASE ListVerifiedToFail(r) \/ RecoveryLists(r)
  BY <1>5, ListsTypes DEF ListVerifiedToFail, RecoveryLists
<1>6. CASE TasksMarkedAsFailed(r) \/ TasksRecovered(r)
  BY <1>0, <1>6, GoesTypes, MovesTypes DEF TasksMarkedAsFailed, TasksRecovered
<1>7. CASE ListNotifiedToSettle(r)
  BY Zenon, <1>0, <1>7, ListedTypes, MovesTypes DEF ListNotifiedToSettle
<1>8. CASE RecoveryTimeIsUp(r)
  BY <1>0, <1>8, EndsTypes, MovesTypes DEF RecoveryTimeIsUp
<1>9. CASE ListAllTasks(r)
  <2> DEFINE bas     == {b \in BA : itm[b].state \in
                               {"verified", "notified", "pending", "running"}}
             failing == {b \in BA : itm[b].state \in {"pending", "running"}}
  <2>1. run' = [run EXCEPT ![r].at = "single", ![r].todo = bas, ![r].toFail = failing]
    BY Zenon, <1>9 DEF ListAllTasks
  <2>2. bas \in SUBSET BA /\ failing \in SUBSET BA /\ "single" \in Step
    BY SMTT(40) DEF Step
  <2> HIDE DEF bas, failing
  <2>3. run' \in [Run -> RunRec]
    BY ZenonT(60), <1>0, <2>1, <2>2, ListsAllTypes
  <2> QED
    BY Zenon, <1>0, <1>9, <2>3, MovesTypes DEF ListAllTasks
<1> QED
  BY <1>1, <1>2, <1>3, <1>4, <1>5, <1>6, <1>7, <1>8, <1>9 DEF RecoveryAction

LEMMA AppendTypes ==
    ASSUME jobs \in Seq(Job), NEW j \in Job
    PROVE  Append(jobs, j) \in Seq(Job)
OBVIOUS

LEMMA InsertsTypes ==
    ASSUME TypeOK, NEW r \in Run, NEW bas \in SUBSET BA, InsertsCopyJob(r, bas)
    PROVE  jobs' \in Seq(Job)
<1> DEFINE j == [kind |-> "to_unified", iteration |-> run[r].iteration, bas |-> bas,
                 start |-> 0, end |-> 0, status |-> "running"]
<1>1. j \in Job
  BY DEF Job, TypeOK, RunRec
<1>2. jobs \in Seq(Job) /\ jobs' = Append(jobs, j)
  BY DEF TypeOK, InsertsCopyJob
<1> QED
  BY <1>1, <1>2, AppendTypes

LEMMA IterationTypes ==
    ASSUME TypeOK, NEW r \in Run, IterationAction(r) \/ CatchFails(r) \/ InsertCopyJobFails(r)
    PROVE  TypeOK'
<1> USE StepNames
<1>0. run \in [Run -> RunRec] /\ mm \in Manager /\ jobs \in Seq(Job)
  BY DEF TypeOK
<1>1. CASE Catch(r)
  <2>1. mm.iteration \in Nat /\ mm.iteration + 1 \in Nat /\ "started" \in ManagerState
    BY <1>0 DEF Manager, ManagerState
  <2>2. mm' \in Manager
    <3>1. [mm EXCEPT !.state = "started", !.iteration = mm.iteration + 1,
                     !.expired = FALSE, !.recovering = FALSE, !.recExpired = FALSE]
             \in Manager
      BY <1>0, <2>1 DEF Manager
    <3> QED
      BY <1>1, <3>1 DEF Catch
  <2>3. run' \in [Run -> RunRec]
    <3>1. [run[r] EXCEPT !.at = "table", !.iteration = mm.iteration + 1] \in RunRec
      BY <1>0, <2>1 DEF RunRec
    <3> QED
      BY <1>0, <1>1, <3>1 DEF Catch
  <2> QED
    BY <1>1, <2>2, <2>3, MovesTypes DEF Catch
<1>2. CASE CatchFails(r)
  BY <1>0, <1>2, EndsTypes, MovesTypes DEF CatchFails
<1>3. CASE CreateTmpTable(r)
  <2>1. run[r].iteration \in Nat
    BY <1>0 DEF RunRec
  <2>2. mm' \in Manager
    BY <1>0, <1>3, ManagerTypes DEF CreateTmpTable, ManagerState
  <2>3. run' \in [Run -> RunRec]
    BY <1>0, <1>3, GoesTypes DEF CreateTmpTable
  <2> QED
    BY <1>3, <2>1, <2>2, <2>3 DEF CreateTmpTable, TypeOK, workVars
<1>4. CASE ListActiveTasks(r)
  BY Zenon, <1>0, <1>4, ListedTypes, MovesTypes DEF ListActiveTasks
<1>5. CASE TasksUpdated(r) \/ TasksCreated(r) \/ TasksDone(r) \/ Notified(r)
           \/ LifeCycleHandled(r)
  BY <1>5, SavesTypes
     DEF TasksUpdated, TasksCreated, TasksDone, Notified, LifeCycleHandled, ManagerState
<1>6. CASE ListPending(r) \/ ListVerified(r) \/ ListNotified(r)
  BY <1>6, ListsTypes DEF ListPending, ListVerified, ListNotified
<1>7. CASE ListWaiting(r)
  <2>1. run' \in [Run -> RunRec]
    BY ZenonT(90), <1>0, <1>7 DEF ListWaiting, RunRec, NoJobs
  <2> QED
    BY <1>0, <1>7, <2>1, MovesTypes DEF ListWaiting
<1>8. CASE NothingToCopy(r)
  BY <1>8, SavesTypes DEF NothingToCopy, ManagerState
<1>9. CASE InsertCopyJob(r)
  <2>1. jobs' \in Seq(Job)
    BY <1>9, InsertsTypes DEF InsertCopyJob, Verified
  <2>2. run' \in [Run -> RunRec]
    <3>1. Len(jobs) + 1 \in Nat
      BY <1>0
    <3> QED
      BY ZenonT(90), <1>0, <1>9, <3>1 DEF InsertCopyJob, RunRec
  <2> QED
    BY <1>9, <2>1, <2>2 DEF InsertCopyJob, TypeOK
<1>10. CASE InsertCopyJobFails(r)
  <2>1. jobs' \in Seq(Job)
    BY <1>0, <1>10, InsertsTypes DEF InsertCopyJobFails, Verified
  <2>2. run' \in [Run -> RunRec] /\ mm' \in Manager
    BY <1>0, <1>10, EndsTypes, ManagerTypes DEF InsertCopyJobFails, ManagerState
  <2> QED
    BY <1>10, <2>1, <2>2 DEF InsertCopyJobFails, TypeOK
<1>11. CASE CopyJobDone(r)
  BY <1>0, <1>11, GoesTypes, ManagerTypes, MovesTypes DEF CopyJobDone, ManagerState
<1>12. CASE CopyJobFailed(r)
  BY <1>0, <1>12, EndsTypes, ManagerTypes, MovesTypes DEF CopyJobFailed, ManagerState
<1>13. CASE TearDown(r)
  BY <1>13, DeletesTypes DEF TearDown
<1>14. CASE RunDone(r)
  BY <1>0, <1>14, EndsTypes, ManagerTypes, MovesTypes DEF RunDone, ManagerState
<1> QED
  BY <1>1, <1>2, <1>3, <1>4, <1>5, <1>6, <1>7, <1>8, <1>9, <1>10, <1>11, <1>12, <1>13,
     <1>14 DEF IterationAction

LEMMA NextSegmentTypes ==
    ASSUME NEW t \in Itm, NEW latest \in Nat
    PROVE  NextSegment(t, latest) \in Itm
<1>1. t.end \in Nat /\ t.end + Interval \in Nat
  BY InternalBoundsAssumption DEF Itm
<1> QED
  BY <1>1 DEF NextSegment, Itm

LEMMA UpdatedTaskTypes ==
    ASSUME NEW t \in Itm, NEW i \in Nat, NEW latest \in Nat
    PROVE  UpdatedTask(t, i, latest) \in Itm
<1> DEFINE fresh == [t EXCEPT !.iteration = i, !.job = 0, !.late = FALSE]
           next  == NextSegment(fresh, latest)
<1>1. fresh \in Itm
  BY DEF Itm
<1>2. next \in Itm
  BY <1>1, NextSegmentTypes
<1>3. [t EXCEPT !.iteration = i] \in Itm
  BY DEF Itm
<1>4. {"done", "skipped", "pending"} \subseteq TaskState
  BY DEF TaskState
<1>5. t.state = "skipped" =>
        [t EXCEPT !.iteration = i, !.state = IF t.end # latest THEN "done" ELSE @] \in Itm
  BY <1>4 DEF Itm
<1> HIDE DEF fresh, next
<1>6. /\ \A s \in {"skipped", "pending"} : [next EXCEPT !.state = s] \in Itm
      /\ [fresh EXCEPT !.state = "pending"] \in Itm
  BY <1>1, <1>2, <1>4, TaskTypes
<1> QED
  BY <1>3, <1>5, <1>6 DEF UpdatedTask, fresh, next

LEMMA TaskActionTypes ==
    ASSUME TypeOK, NEW r \in Run, NEW b \in BA,
           \/ TaskAction(r, b) \/ CreateCloudTaskFails(r, b)
           \/ WaitFails(r, b) \/ VisitFails(r, b)
    PROVE  TypeOK'
<1>0. /\ run \in [Run -> RunRec] /\ mm \in Manager /\ itm \in [BA -> Itm]
      /\ tasks \subseteq CloudTask /\ newest[b] \in Nat
  BY DEF TypeOK
<1>1. itm[b].state \in TaskState /\ {"failed", "done", "verified", "notified"} \subseteq TaskState
  BY <1>0 DEF Itm, TaskState
<1>2. run[r].iteration \in Nat
  BY <1>0 DEF RunRec
<1>3. CASE MarkTaskAsFailed(r, b) \/ SingleRecovery(r, b) \/ NotifyTask(r, b)
           \/ SettleTask(r, b) \/ JobDoesNotStart(r, b) \/ JobHandled(r, b)
           \/ CreateCloudTaskFails(r, b) \/ WaitFails(r, b)
  BY <1>1, <1>3, SetsTypes
     DEF MarkTaskAsFailed, SingleRecovery, NotifyTask, SettleTask, JobDoesNotStart,
         JobHandled, CreateCloudTaskFails, WaitFails
<1>4. CASE UpdateTaskMetadata(r, b)
  <2>1. UpdatedTask(itm[b], run[r].iteration, newest[b]) \in Itm
    BY <1>0, <1>2, UpdatedTaskTypes
  <2>2. itm' \in [BA -> Itm]
    BY <1>0, <1>4, <2>1 DEF UpdateTaskMetadata
  <2> QED
    BY <1>0, <1>4, <2>2, VisitsTypes DEF UpdateTaskMetadata
<1>5. CASE CreateCloudTask(r, b)
  <2>1. tasks' \subseteq CloudTask
    BY <1>0, <1>2, <1>5 DEF CreateCloudTask, CloudTask
  <2> QED
    BY <1>0, <1>5, <2>1, VisitsTypes DEF CreateCloudTask
<1>6. CASE JobStarts(r, b)
  <2>1. itm[b].job \in Nat
    BY <1>0 DEF Itm
  <2>2. [run[r].job EXCEPT ![b] = itm[b].job] \in [BA -> Nat]
    BY <1>0, <2>1 DEF RunRec
  <2>3. [run[r] EXCEPT !.job = [run[r].job EXCEPT ![b] = itm[b].job]] \in RunRec
    BY ZenonT(60), <1>0, <2>2 DEF RunRec
  <2>4. run' = [run EXCEPT ![r] =
                  [run[r] EXCEPT !.job = [run[r].job EXCEPT ![b] = itm[b].job]]]
    BY <1>6 DEF JobStarts
  <2>5. run' \in [Run -> RunRec]
    BY <1>0, <2>3, <2>4
  <2> QED
    BY <1>0, <1>6, <2>5, MovesTypes DEF JobStarts
<1>7. CASE VisitFails(r, b)
  BY <1>0, <1>7, VisitsTypes DEF VisitFails
<1> QED
  BY <1>3, <1>4, <1>5, <1>6, <1>7 DEF TaskAction

LEMMA WorkerActionTypes ==
    ASSUME TypeOK, NEW w \in Worker, WorkerAction(w)
    PROVE  TypeOK'
<1>0. /\ itm \in [BA -> Itm] /\ worker \in [Worker -> WorkerRec] /\ jobs \in Seq(Job)
      /\ worker[w] \in WorkerRec /\ Len(jobs) + 1 \in Nat
  BY DEF TypeOK
<1>1. ASSUME NEW t \in tasks, SetRunning(w, t)
      PROVE  TypeOK'
  <2>1. t \in CloudTask /\ t.ba \in BA /\ itm[t.ba] \in Itm
    BY <1>0 DEF TypeOK, CloudTask
  <2>2. itm' \in [BA -> Itm]
    BY <1>0, <1>1, <2>1, TaskTypes DEF SetRunning, TaskState
  <2>3. worker' \in [Worker -> WorkerRec]
    BY <1>0, <1>1, <2>1 DEF SetRunning, WorkerRec, Itm, CloudTask
  <2> QED
    BY <1>1, <2>2, <2>3 DEF SetRunning, TypeOK
<1>2. CASE CopyFromLocalToTmpTable(w)
  <2> DEFINE v == worker[w]
             j == [kind |-> "to_tmp", iteration |-> v.iteration, bas |-> {v.ba},
                   start |-> v.start, end |-> v.end, status |-> "running"]
  <2>1. j \in Job
    BY <1>0 DEF Job, WorkerRec
  <2>2. jobs' \in Seq(Job)
    BY <1>0, <1>2, <2>1, AppendTypes DEF CopyFromLocalToTmpTable
  <2>3. worker' \in [Worker -> WorkerRec]
    BY <1>0, <1>2 DEF CopyFromLocalToTmpTable, WorkerRec
  <2> QED
    BY <1>2, <2>2, <2>3 DEF CopyFromLocalToTmpTable, TypeOK
<1>3. CASE CopyFromLocalToTmpTableFails(w)
  <2>1. worker[w].ba \in BA /\ itm[worker[w].ba] \in Itm /\ "failed" \in TaskState
    BY <1>0 DEF WorkerRec, TaskState
  <2>2. itm' \in [BA -> Itm]
    BY <1>0, <1>3, <2>1, TaskTypes DEF CopyFromLocalToTmpTableFails
  <2> QED
    BY <1>0, <1>3, <2>2, IdleTypes DEF CopyFromLocalToTmpTableFails, TypeOK
<1>4. CASE RecordJob(w)
  <2>1. worker[w].ba \in BA /\ itm[worker[w].ba] \in Itm /\ worker[w].job \in Nat
    BY <1>0 DEF WorkerRec
  <2>2. itm' \in [BA -> Itm]
    BY <1>0, <1>4, <2>1 DEF RecordJob, Itm
  <2> QED
    BY <1>0, <1>4, <2>2, IdleTypes DEF RecordJob, TypeOK
<1>5. CASE WorkerEnds(w)
  BY <1>0, <1>5, IdleTypes DEF WorkerEnds, TypeOK
<1> QED
  BY <1>1, <1>2, <1>3, <1>4, <1>5 DEF WorkerAction

LEMMA TmpCopiesType ==
    ASSUME TypeOK, NEW i, NEW b, NEW x
    PROVE  TmpCopies(i, b, x) \in Nat
<1> DEFINE S == {n \in DOMAIN jobs :
                   /\ jobs[n].kind = "to_tmp" /\ jobs[n].status = "done"
                   /\ jobs[n].iteration = i /\ b \in jobs[n].bas
                   /\ jobs[n].start < x /\ x <= jobs[n].end}
<1>1. DOMAIN jobs = 1..Len(jobs) /\ Len(jobs) \in Nat
  BY DEF TypeOK
<1>2. IsFiniteSet(DOMAIN jobs)
  BY <1>1, FS_Interval
<1>3. IsFiniteSet(S)
  BY <1>2, FS_Subset
<1>4. Cardinality(S) \in Nat
  BY <1>3, FS_CardinalityType
<1> QED
  BY <1>4 DEF TmpCopies

LEMMA JobFinishesTypes ==
    ASSUME TypeOK, NEW n \in DOMAIN jobs, JobFinishes(n)
    PROVE  TypeOK'
<1>0. jobs \in Seq(Job) /\ n \in 1..Len(jobs)
  BY DEF TypeOK
<1>1. jobs \in Seq(Job) /\ n \in 1..Len(jobs) /\ jobs[n] \in Job /\ jobs[n].iteration \in Nat
  <2>1. jobs[n] \in Job
    BY <1>0
  <2> QED
    BY <1>0, <2>1 DEF Job
<1>2. \A s \in {"done", "failed"} : [jobs EXCEPT ![n].status = s] \in Seq(Job)
  <2> SUFFICES ASSUME NEW s \in {"done", "failed"}
               PROVE  [jobs EXCEPT ![n].status = s] \in Seq(Job)
    OBVIOUS
  <2>1. [jobs[n] EXCEPT !.status = s] \in Job
    BY <1>1 DEF Job
  <2>2. [jobs EXCEPT ![n] = [jobs[n] EXCEPT !.status = s]] \in Seq(Job)
    BY <1>1, <2>1, ExceptSeq
  <2> QED
    BY <2>2
<1>3. jobs' \in Seq(Job)
  BY <1>2 DEF JobFinishes
<1>4. tmp' \subseteq Nat
  BY <1>1 DEF JobFinishes, TypeOK
<1>5. unified' \in [BA -> [Records -> Nat]]
  <2>1. \A i, b, x : TmpCopies(i, b, x) \in Nat
    BY TmpCopiesType
  <2> DEFINE more == [b \in BA |-> [x \in Records |->
                        IF b \in jobs[n].bas
                        THEN unified[b][x] + TmpCopies(jobs[n].iteration, b, x)
                        ELSE unified[b][x]]]
  <2>2. unified' = unified \/ unified' = more
    BY DEF JobFinishes
  <2>3. ASSUME NEW b \in BA, NEW x \in Records
        PROVE  /\ unified[b][x] \in Nat
               /\ unified[b][x] + TmpCopies(jobs[n].iteration, b, x) \in Nat
    BY <2>1 DEF TypeOK
  <2>4. more \in [BA -> [Records -> Nat]]
    BY <2>3
  <2> QED
    BY <2>2, <2>4 DEF TypeOK
<1> QED
  BY <1>3, <1>4, <1>5 DEF JobFinishes, TypeOK

LEMMA EnvironmentTypes ==
    ASSUME TypeOK, Environment
    PROVE  TypeOK'
<1>0. mm \in Manager /\ itm \in [BA -> Itm] /\ worker \in [Worker -> WorkerRec]
  BY DEF TypeOK
<1>1. CASE TTLExpires \/ RecoveringTTLExpires
  <2>1. mm' \in Manager
    BY <1>0, <1>1 DEF TTLExpires, RecoveringTTLExpires, Manager
  <2> QED
    BY <1>1, <2>1 DEF TTLExpires, RecoveringTTLExpires, TypeOK, workVars
<1>2. ASSUME NEW b \in BA, RecordsArrive(b)
      PROVE  TypeOK'
  BY <1>2 DEF RecordsArrive, TypeOK, workVars
<1>3. ASSUME NEW b \in BA, MarkOnboardingDone(b)
      PROVE  TypeOK'
  <2>1. itm' \in [BA -> Itm]
    BY <1>0, <1>3, TaskTypes DEF MarkOnboardingDone, TaskState
  <2> QED
    BY <1>3, <2>1 DEF MarkOnboardingDone, TypeOK, workVars
<1>4. ASSUME NEW b \in BA, DeadlinePasses(b)
      PROVE  TypeOK'
  <2>1. itm' \in [BA -> Itm]
    BY ZenonT(60), <1>0, <1>4 DEF DeadlinePasses, Itm
  <2>2. \A w \in Worker : [worker[w] EXCEPT !.late = TRUE] \in WorkerRec
    BY ZenonT(60), <1>0 DEF WorkerRec
  <2>3. worker' \in [Worker -> WorkerRec]
    BY <1>0, <1>4, <2>2 DEF DeadlinePasses
  <2> QED
    BY <1>4, <2>1, <2>3 DEF DeadlinePasses, TypeOK
<1>5. ASSUME NEW n \in DOMAIN jobs, JobFinishes(n)
      PROVE  TypeOK'
  BY <1>5, JobFinishesTypes
<1> QED
  BY <1>1, <1>2, <1>3, <1>4, <1>5 DEF Environment

LEMMA RunFailsTypes ==
    ASSUME TypeOK, NEW r \in Run, RunFails(r)
    PROVE  TypeOK'
<1>1. run \in [Run -> RunRec] /\ mm \in Manager
  BY DEF TypeOK
<1> QED
  BY <1>1, EndsTypes, MovesTypes DEF RunFails

LEMMA StepTypes == TypeOK /\ [Next]_vars => TypeOK'
<1> SUFFICES ASSUME TypeOK, [Next]_vars PROVE TypeOK'
  OBVIOUS
<1>1. ASSUME NEW r \in Run, Works(r)
      PROVE  TypeOK'
  BY <1>1, RecoveryTypes, IterationTypes, TaskActionTypes DEF Works
<1>2. ASSUME NEW r \in Run, Falters(r)
      PROVE  TypeOK'
  BY <1>2, RunFailsTypes, IterationTypes, TaskActionTypes DEF Falters
<1>3. CASE UNCHANGED vars
  BY <1>3 DEF vars, TypeOK
<1> QED
  BY <1>1, <1>2, <1>3, WorkerActionTypes, EnvironmentTypes DEF Next

\* The documents, jobs and tables of the internal pipeline keep their shape,
\* whatever fails, overlaps or comes late (TypeOK).
THEOREM TypeCorrect == Spec => []TypeOK
  BY InitTypes, StepTypes, PTL DEF Spec

-----------------------------------------------------------------------------
(***************************************************************************)
(* One run and one copy job for each iteration.                            *)
(***************************************************************************)

\* The steps of a run that has caught an iteration and has not yet copied.
ToCopy == {"table", "list_active", "update", "list_pending", "create", "list_waiting",
           "wait", "copy"}

InIteration(r) == run[r].at \in OfIteration

CopyJobs == {n \in DOMAIN jobs : jobs[n].kind = "to_unified"}

\* Nothing is ahead of the manager's document, so that a catch starts afresh.
NothingAhead ==
    /\ \A r \in Run : InIteration(r) => run[r].iteration <= mm.iteration
    /\ \A n \in CopyJobs : jobs[n].iteration <= mm.iteration

OneRun ==
    \A q, r \in Run :
        InIteration(q) /\ InIteration(r) /\ run[q].iteration = run[r].iteration => q = r

OneCopyJob ==
    \A m, n \in CopyJobs : jobs[m].iteration = jobs[n].iteration => m = n

\* As long as a run has yet to copy, its iteration has no copy job.
NotYetCopied ==
    \A r \in Run : run[r].at \in ToCopy =>
        \A n \in CopyJobs : jobs[n].iteration # run[r].iteration

IterationInv == NothingAhead /\ OneRun /\ OneCopyJob /\ NotYetCopied

LEMMA InitIteration == Init => IterationInv
<1> SUFFICES ASSUME Init PROVE IterationInv
  OBVIOUS
<1>1. \A r \in Run : run[r].at = "idle"
  BY DEF Init, IdleRun
<1>2. CopyJobs = {}
  BY DEF Init, CopyJobs
<1> QED
  BY <1>1, <1>2 DEF IterationInv, NothingAhead, OneRun, OneCopyJob, NotYetCopied,
     InIteration, OfIteration, ToCopy

\* A step by which no run enters an iteration or goes back in one, and no copy job
\* is inserted.
RunsGoOn ==
    \A r \in Run : InIteration(r)' =>
        /\ InIteration(r)
        /\ run'[r].iteration = run[r].iteration
        /\ run'[r].at \in ToCopy => run[r].at \in ToCopy

NoNewCopyJob ==
    \A n \in CopyJobs' : n \in CopyJobs /\ jobs'[n].iteration = jobs[n].iteration

Quiet == RunsGoOn /\ NoNewCopyJob /\ mm'.iteration = mm.iteration

LEMMA QuietStep ==
    ASSUME IterationInv, Quiet
    PROVE  IterationInv'
<1>1. \A r \in Run : run'[r].at \in ToCopy => InIteration(r)'
  BY DEF InIteration, OfIteration, ToCopy
<1>2. NothingAhead'
  BY DEF IterationInv, NothingAhead, Quiet, RunsGoOn, NoNewCopyJob
<1>3. OneRun'
  BY DEF IterationInv, OneRun, Quiet, RunsGoOn
<1>4. OneCopyJob'
  BY DEF IterationInv, OneCopyJob, Quiet, NoNewCopyJob
<1>5. NotYetCopied'
  BY <1>1 DEF IterationInv, NotYetCopied, Quiet, RunsGoOn, NoNewCopyJob
<1> QED
  BY <1>2, <1>3, <1>4, <1>5 DEF IterationInv

LEMMA SameJobs ==
    ASSUME UNCHANGED jobs
    PROVE  NoNewCopyJob
BY DEF NoNewCopyJob, CopyJobs

LEMMA SameRuns ==
    ASSUME UNCHANGED run
    PROVE  RunsGoOn
BY DEF RunsGoOn, InIteration

\* A run may leave its iteration, or go on in it but not back to a step before the
\* copy.
Onward(from, to) ==
    \/ to \notin OfIteration
    \/ from \in OfIteration /\ (to \in ToCopy => from \in ToCopy)

LEMMA OneRunMoves ==
    ASSUME NEW r \in Run, \A q \in Run \ {r} : run'[q] = run[q],
           Onward(run[r].at, run'[r].at),
           run'[r].at \in OfIteration => run'[r].iteration = run[r].iteration
    PROVE  RunsGoOn
<1> SUFFICES ASSUME NEW q \in Run, InIteration(q)'
             PROVE  /\ InIteration(q)
                    /\ run'[q].iteration = run[q].iteration
                    /\ run'[q].at \in ToCopy => run[q].at \in ToCopy
  BY DEF RunsGoOn
<1>1. CASE q = r
  BY <1>1 DEF InIteration, Onward
<1>2. CASE q # r
  BY <1>2 DEF InIteration
<1> QED
  BY <1>1, <1>2

LEMMA GoesQuiet ==
    ASSUME TypeOK, NEW r \in Run, NEW to, Goes(r, to), Onward(run[r].at, to),
           UNCHANGED jobs, mm'.iteration = mm.iteration
    PROVE  Quiet
<1>1. /\ \A q \in Run \ {r} : run'[q] = run[q]
      /\ run'[r].at = to /\ run'[r].iteration = run[r].iteration
  BY DEF Goes, TypeOK, RunRec
<1> QED
  BY <1>1, OneRunMoves, SameJobs DEF Quiet

LEMMA EndsQuiet ==
    ASSUME TypeOK, NEW r \in Run, Ends(r), UNCHANGED jobs, mm'.iteration = mm.iteration
    PROVE  Quiet
<1>1. /\ \A q \in Run \ {r} : run'[q] = run[q]
      /\ run'[r].at = "idle"
  BY DEF Ends, TypeOK, IdleRun
<1>2. Onward(run[r].at, "idle") /\ "idle" \notin OfIteration
  BY DEF Onward, OfIteration
<1> QED
  BY <1>1, <1>2, OneRunMoves, SameJobs DEF Quiet

LEMMA ListedQuiet ==
    ASSUME TypeOK, NEW r \in Run, NEW to, NEW bas,
           run' = [run EXCEPT ![r].at = to, ![r].todo = bas], Onward(run[r].at, to),
           UNCHANGED <<jobs, mm>>
    PROVE  Quiet
<1>1. /\ \A q \in Run \ {r} : run'[q] = run[q]
      /\ run'[r].at = to /\ run'[r].iteration = run[r].iteration
  BY DEF TypeOK, RunRec
<1> QED
  BY <1>1, OneRunMoves, SameJobs DEF Quiet

LEMMA ListsQuiet ==
    ASSUME TypeOK, NEW r \in Run, NEW from, NEW states, NEW to, Onward(from, to),
           Lists(r, from, states, to)
    PROVE  Quiet
BY ListedQuiet DEF Lists, workVars

LEMMA VisitsQuiet ==
    ASSUME TypeOK, NEW r \in Run, NEW step, NEW b \in BA, Visits(r, step, b)
    PROVE  Quiet
<1>1. /\ \A q \in Run \ {r} : run'[q] = run[q]
      /\ run'[r].at = run[r].at /\ run'[r].iteration = run[r].iteration
  BY DEF Visits, TypeOK, RunRec
<1>2. Onward(run[r].at, run[r].at)
  BY DEF Onward
<1> QED
  BY <1>1, <1>2, OneRunMoves, SameJobs DEF Quiet, Visits

LEMMA StateQuiet ==
    ASSUME TypeOK, NEW state, mm' = [mm EXCEPT !.state = state]
    PROVE  mm'.iteration = mm.iteration
BY DEF TypeOK, Manager

LEMMA SavesQuiet ==
    ASSUME TypeOK, NEW r \in Run, NEW from, NEW state, NEW to, Onward(from, to),
           Saves(r, from, state, to)
    PROVE  Quiet
BY GoesQuiet, StateQuiet DEF Saves, workVars

LEMMA RecoveryQuiet ==
    ASSUME TypeOK, NEW r \in Run, GeneralRecovery(r) \/ RecoveryAction(r)
    PROVE  Quiet
<1>0. \A from : \A to \in {"claim", "rec_failed", "rec_list", "rec_fail", "list_all",
                           "rec_notify", "rec_settle", "rec_list_settle", "single",
                           "catch", "rec_done", "rec_list_notify", "rec_delete"} :
          Onward(from, to)
  BY DEF Onward, OfIteration
<1>1. CASE GeneralRecovery(r)
  BY <1>0, <1>1, GoesQuiet DEF GeneralRecovery, workVars
<1>2. CASE ClaimRecovery(r)
  <2>1. RecoveryStep(mm.state) \in {"rec_done", "rec_list_notify", "rec_list_settle",
                                    "rec_delete"}
    BY DEF RecoveryStep
  <2>2. /\ \A q \in Run \ {r} : run'[q] = run[q]
        /\ run'[r].at = RecoveryStep(mm.state)
    BY <1>2 DEF ClaimRecovery, TypeOK, RunRec
  <2>3. run'[r].at \notin OfIteration
    BY <2>1, <2>2 DEF OfIteration
  <2>4. mm'.iteration = mm.iteration
    BY <1>2 DEF ClaimRecovery, TypeOK, Manager
  <2>5. Onward(run[r].at, run'[r].at)
    BY <2>3 DEF Onward
  <2> QED
    BY <1>2, <2>2, <2>3, <2>4, <2>5, OneRunMoves, SameJobs
       DEF ClaimRecovery, workVars, Quiet
<1>3. CASE RecoveryDeletes(r)
  BY <1>0, <1>3, GoesQuiet DEF RecoveryDeletes, DeletesTmpTable, workVars
<1>4. CASE RecoveryFails(r) \/ RecoveryDone(r) \/ RecoveryNotified(r) \/ RecoverySettled(r)
  BY <1>0, <1>4, SavesQuiet
     DEF RecoveryFails, RecoveryDone, RecoveryNotified, RecoverySettled
<1>5. CASE ListVerifiedToFail(r) \/ RecoveryLists(r)
  BY <1>0, <1>5, ListsQuiet DEF ListVerifiedToFail, RecoveryLists
<1>6. CASE TasksMarkedAsFailed(r) \/ TasksRecovered(r)
  BY <1>0, <1>6, GoesQuiet DEF TasksMarkedAsFailed, TasksRecovered, workVars
<1>7. CASE ListNotifiedToSettle(r)
  BY SMTT(40), <1>0, <1>7, ListedQuiet DEF ListNotifiedToSettle, workVars
<1>8. CASE RecoveryTimeIsUp(r)
  BY <1>8, EndsQuiet DEF RecoveryTimeIsUp, workVars
<1>9. CASE ListAllTasks(r)
  <2>1. /\ \A q \in Run \ {r} : run'[q] = run[q]
        /\ run'[r].at = "single" /\ run'[r].iteration = run[r].iteration
    BY ZenonT(60), <1>9 DEF ListAllTasks, TypeOK, RunRec
  <2> QED
    BY ZenonT(60), <1>0, <1>9, <2>1, OneRunMoves, SameJobs DEF ListAllTasks, workVars, Quiet
<1> QED
  BY <1>1, <1>2, <1>3, <1>4, <1>5, <1>6, <1>7, <1>8, <1>9 DEF RecoveryAction

\* The steps of an iteration that neither begin it nor insert its copy job.
LEMMA IterationQuiet ==
    ASSUME TypeOK, NEW r \in Run, IterationAction(r) \/ CatchFails(r),
           ~Catch(r), ~InsertCopyJob(r)
    PROVE  Quiet
<1> USE DEF Onward, OfIteration, ToCopy
<1>1. CASE CatchFails(r)
  BY <1>1, EndsQuiet DEF CatchFails, workVars
<1>2. CASE CreateTmpTable(r)
  BY <1>2, GoesQuiet, StateQuiet DEF CreateTmpTable, workVars
<1>3. CASE ListActiveTasks(r)
  BY <1>3, ListedQuiet DEF ListActiveTasks, workVars
<1>4. CASE TasksUpdated(r) \/ TasksCreated(r) \/ TasksDone(r) \/ Notified(r)
           \/ LifeCycleHandled(r) \/ NothingToCopy(r)
  BY <1>4, SavesQuiet
     DEF TasksUpdated, TasksCreated, TasksDone, Notified, LifeCycleHandled, NothingToCopy
<1>5. CASE ListPending(r) \/ ListVerified(r) \/ ListNotified(r)
  BY <1>5, ListsQuiet DEF ListPending, ListVerified, ListNotified
<1>6. CASE ListWaiting(r)
  <2>1. /\ \A q \in Run \ {r} : run'[q] = run[q]
        /\ run'[r].at = "wait" /\ run'[r].iteration = run[r].iteration
    BY <1>6 DEF ListWaiting, TypeOK, RunRec
  <2> QED
    BY <1>6, <2>1, OneRunMoves, SameJobs DEF ListWaiting, workVars, Quiet
<1>7. CASE CopyJobDone(r)
  BY <1>7, GoesQuiet, StateQuiet DEF CopyJobDone, workVars
<1>8. CASE CopyJobFailed(r) \/ RunDone(r)
  BY <1>8, EndsQuiet, StateQuiet DEF CopyJobFailed, RunDone, workVars
<1>9. CASE TearDown(r)
  BY <1>9, GoesQuiet DEF TearDown, DeletesTmpTable, workVars
<1> QED
  BY <1>1, <1>2, <1>3, <1>4, <1>5, <1>6, <1>7, <1>8, <1>9 DEF IterationAction

LEMMA TaskActionQuiet ==
    ASSUME TypeOK, NEW r \in Run, NEW b \in BA,
           \/ TaskAction(r, b) \/ CreateCloudTaskFails(r, b)
           \/ WaitFails(r, b) \/ VisitFails(r, b)
    PROVE  Quiet
<1>1. CASE JobStarts(r, b)
  <2>1. /\ \A q \in Run \ {r} : run'[q] = run[q]
        /\ run'[r].at = run[r].at /\ run'[r].iteration = run[r].iteration
    BY <1>1 DEF JobStarts, TypeOK, RunRec
  <2>2. Onward(run[r].at, run[r].at)
    BY DEF Onward
  <2> QED
    BY <1>1, <2>1, <2>2, OneRunMoves, SameJobs DEF JobStarts, workVars, Quiet
<1>2. CASE ~JobStarts(r, b)
  <2>1. \E step : Visits(r, step, b)
    BY <1>2 DEF TaskAction, MarkTaskAsFailed, SingleRecovery, UpdateTaskMetadata,
       CreateCloudTask, JobDoesNotStart, JobHandled, NotifyTask, SettleTask,
       CreateCloudTaskFails, WaitFails, VisitFails, Sets
  <2> QED
    BY <2>1, VisitsQuiet
<1> QED
  BY <1>1, <1>2

LEMMA WorkerActionQuiet ==
    ASSUME TypeOK, NEW w \in Worker, WorkerAction(w)
    PROVE  Quiet
<1>1. UNCHANGED <<run, mm>>
  BY DEF WorkerAction, SetRunning, CopyFromLocalToTmpTable, CopyFromLocalToTmpTableFails,
     RecordJob, WorkerEnds
<1>2. CASE CopyFromLocalToTmpTable(w)
  <2> DEFINE v == worker[w]
             j == [kind |-> "to_tmp", iteration |-> v.iteration, bas |-> {v.ba},
                   start |-> v.start, end |-> v.end, status |-> "running"]
  <2>1. jobs \in Seq(Job) /\ jobs' = Append(jobs, j)
    BY <1>2 DEF CopyFromLocalToTmpTable, TypeOK
  <2>2. \A n \in DOMAIN jobs' :
            (n \in DOMAIN jobs /\ jobs'[n] = jobs[n]) \/ jobs'[n] = j
    BY <2>1
  <2>3. NoNewCopyJob
    BY <2>2 DEF NoNewCopyJob, CopyJobs
  <2> QED
    BY <1>1, <2>3, SameRuns DEF Quiet
<1>3. CASE ~CopyFromLocalToTmpTable(w)
  <2>1. UNCHANGED jobs
    BY <1>3 DEF WorkerAction, SetRunning, CopyFromLocalToTmpTableFails, RecordJob,
       WorkerEnds
  <2> QED
    BY SMTT(40), <1>1, <2>1, SameRuns, SameJobs DEF Quiet
<1> QED
  BY <1>2, <1>3

LEMMA EnvironmentQuiet ==
    ASSUME TypeOK, Environment
    PROVE  Quiet
<1>1. UNCHANGED run /\ mm'.iteration = mm.iteration
  BY DEF Environment, TTLExpires, RecoveringTTLExpires, RecordsArrive, MarkOnboardingDone,
     DeadlinePasses, JobFinishes, TypeOK, Manager
<1>2. ASSUME NEW n \in DOMAIN jobs, JobFinishes(n)
      PROVE  NoNewCopyJob
  <2>1. \E s : jobs' = [jobs EXCEPT ![n].status = s]
    BY <1>2 DEF JobFinishes
  <2>2. jobs[n] \in Job
    BY DEF TypeOK
  <2>3. /\ DOMAIN jobs' = DOMAIN jobs
        /\ \A m \in DOMAIN jobs : /\ jobs'[m].kind = jobs[m].kind
                                  /\ jobs'[m].iteration = jobs[m].iteration
    BY <2>1, <2>2 DEF Job
  <2> QED
    BY <2>3 DEF NoNewCopyJob, CopyJobs
<1>3. CASE ~\E n \in DOMAIN jobs : JobFinishes(n)
  <2>1. UNCHANGED jobs
    BY <1>3 DEF Environment, TTLExpires, RecoveringTTLExpires, RecordsArrive,
       MarkOnboardingDone, DeadlinePasses, workVars
  <2> QED
    BY <1>1, <2>1, SameRuns, SameJobs DEF Quiet
<1> QED
  BY <1>1, <1>2, <1>3, SameRuns DEF Quiet

-----------------------------------------------------------------------------
\* A catch starts an iteration that no run and no copy job belongs to.
LEMMA CatchKeeps ==
    ASSUME TypeOK, IterationInv, NEW r \in Run, Catch(r)
    PROVE  IterationInv'
<1> DEFINE i == mm.iteration + 1
<1>1. mm.iteration \in Nat /\ mm'.iteration = i
  BY DEF Catch, TypeOK, Manager
<1>2. /\ \A q \in Run \ {r} : run'[q] = run[q]
      /\ run'[r].at = "table" /\ run'[r].iteration = i
  BY DEF Catch, TypeOK, RunRec
<1>3. /\ \A q \in Run : InIteration(q) => run[q].iteration < i /\ run[q].iteration \in Nat
      /\ \A n \in CopyJobs : jobs[n].iteration < i /\ jobs[n].iteration \in Nat
  <2>1. \A q \in Run : run[q].iteration \in Nat
    BY DEF TypeOK, RunRec
  <2>2. \A n \in CopyJobs : jobs[n].iteration \in Nat
    <3> SUFFICES ASSUME NEW n \in CopyJobs
                 PROVE  jobs[n].iteration \in Nat
      OBVIOUS
    <3>1. jobs \in Seq(Job) /\ n \in 1..Len(jobs)
      BY DEF CopyJobs, TypeOK
    <3>2. jobs[n] \in Job
      BY <3>1
    <3> QED
      BY <3>2 DEF Job
  <2> QED
    BY <1>1, <2>1, <2>2 DEF IterationInv, NothingAhead
<1>4. jobs' = jobs /\ CopyJobs' = CopyJobs
  BY DEF Catch, workVars, CopyJobs
<1>5. \A q \in Run \ {r} : InIteration(q)' => InIteration(q)
  BY <1>2 DEF InIteration
<1> HIDE DEF i
<1>6. NothingAhead'
  BY <1>1, <1>2, <1>3, <1>4, <1>5 DEF NothingAhead, i
<1>7. OneRun'
  BY <1>1, <1>2, <1>3, <1>5 DEF IterationInv, OneRun, i
<1>8. OneCopyJob'
  BY <1>4 DEF IterationInv, OneCopyJob
<1>9. NotYetCopied'
  <2>1. \A n \in CopyJobs : jobs[n].iteration # i
    BY <1>1, <1>3 DEF i
  <2> QED
    BY <1>2, <1>4, <2>1 DEF IterationInv, NotYetCopied
<1> QED
  BY <1>6, <1>7, <1>8, <1>9 DEF IterationInv

\* The copy job of an iteration is inserted by its only run, at the only step at
\* which it inserts one.
LEMMA InsertKeeps ==
    ASSUME TypeOK, IterationInv, NEW r \in Run, NEW bas \in SUBSET BA,
           run[r].at = "copy", InsertsCopyJob(r, bas), mm'.iteration = mm.iteration,
           \A q \in Run \ {r} : run'[q] = run[q],
           \/ run'[r].at = "copying" /\ run'[r].iteration = run[r].iteration
           \/ run'[r].at = "idle"
    PROVE  IterationInv'
<1> DEFINE k == Len(jobs) + 1
           i == run[r].iteration
<1>1. jobs \in Seq(Job) /\ k \in Nat /\ Len(jobs) \in Nat /\ DOMAIN jobs = 1..Len(jobs)
  BY DEF TypeOK
<1>2. /\ DOMAIN jobs' = DOMAIN jobs \cup {k} /\ k \notin DOMAIN jobs
      /\ \A n \in DOMAIN jobs : jobs'[n] = jobs[n]
      /\ jobs'[k].kind = "to_unified" /\ jobs'[k].iteration = i
  BY <1>1 DEF InsertsCopyJob
<1>3. InIteration(r) /\ run[r].at \in ToCopy /\ run'[r].at \notin ToCopy
  BY DEF InIteration, OfIteration, ToCopy
<1>4. \A q \in Run : InIteration(q)' => InIteration(q) /\ run'[q].iteration = run[q].iteration
  BY <1>3 DEF InIteration, OfIteration
<1>5. CopyJobs' = CopyJobs \cup {k} /\ k \notin CopyJobs
  BY <1>2 DEF CopyJobs
<1>6. \A n \in CopyJobs : jobs'[n].iteration = jobs[n].iteration /\ jobs[n].iteration # i
  BY <1>2, <1>3 DEF IterationInv, NotYetCopied, CopyJobs
<1> HIDE DEF k, i
<1>7. NothingAhead'
  <2>1. i <= mm.iteration
    BY <1>3 DEF IterationInv, NothingAhead, i
  <2> QED
    BY <1>2, <1>4, <1>5, <1>6, <2>1 DEF IterationInv, NothingAhead
<1>8. OneRun'
  BY <1>4 DEF IterationInv, OneRun
<1>9. OneCopyJob'
  BY <1>2, <1>5, <1>6 DEF IterationInv, OneCopyJob
<1>10. NotYetCopied'
  <2> SUFFICES ASSUME NEW q \in Run, run'[q].at \in ToCopy, NEW n \in CopyJobs'
               PROVE  jobs'[n].iteration # run'[q].iteration
    BY DEF NotYetCopied
  <2>1. q # r /\ run'[q] = run[q] /\ InIteration(q)
    BY <1>3 DEF InIteration, OfIteration, ToCopy
  <2>2. run[q].iteration # i
    BY <1>3, <2>1 DEF IterationInv, OneRun, i
  <2>3. CASE n = k
    BY <1>2, <2>1, <2>2, <2>3
  <2>4. CASE n \in CopyJobs
    BY <1>6, <2>1, <2>4 DEF IterationInv, NotYetCopied
  <2> QED
    BY <1>5, <2>3, <2>4
<1> QED
  BY <1>7, <1>8, <1>9, <1>10 DEF IterationInv

LEMMA InsertCopyJobKeeps ==
    ASSUME TypeOK, IterationInv, NEW r \in Run, InsertCopyJob(r)
    PROVE  IterationInv'
<1>1. /\ \A q \in Run \ {r} : run'[q] = run[q]
      /\ run'[r].at = "copying" /\ run'[r].iteration = run[r].iteration
  BY DEF InsertCopyJob, TypeOK, RunRec
<1>2. Verified(r) \in SUBSET BA
  BY DEF Verified
<1> QED
  BY <1>1, <1>2, InsertKeeps DEF InsertCopyJob

LEMMA InsertCopyJobFailsKeeps ==
    ASSUME TypeOK, IterationInv, NEW r \in Run, InsertCopyJobFails(r)
    PROVE  IterationInv'
<1>1. /\ \A q \in Run \ {r} : run'[q] = run[q]
      /\ run'[r].at = "idle"
  BY DEF InsertCopyJobFails, Ends, IdleRun, TypeOK
<1>2. Verified(r) \in SUBSET BA
  BY DEF Verified
<1>3. mm'.iteration = mm.iteration
  BY StateQuiet DEF InsertCopyJobFails
<1>4. CASE InsertsCopyJob(r, Verified(r))
  BY <1>1, <1>2, <1>3, <1>4, InsertKeeps DEF InsertCopyJobFails
<1>5. CASE UNCHANGED jobs
  BY <1>3, <1>5, EndsQuiet, QuietStep DEF InsertCopyJobFails
<1> QED
  BY <1>4, <1>5 DEF InsertCopyJobFails

LEMMA StepIteration == TypeOK /\ IterationInv /\ [Next]_vars => IterationInv'
<1> SUFFICES ASSUME TypeOK, IterationInv, [Next]_vars PROVE IterationInv'
  OBVIOUS
<1>1. ASSUME NEW r \in Run, Works(r)
      PROVE  IterationInv'
  <2>1. CASE Catch(r)
    BY <2>1, CatchKeeps
  <2>2. CASE InsertCopyJob(r)
    BY <2>2, InsertCopyJobKeeps
  <2>3. CASE ~Catch(r) /\ ~InsertCopyJob(r)
    <3>1. Quiet
      BY <1>1, <2>3, RecoveryQuiet, IterationQuiet, TaskActionQuiet DEF Works
    <3> QED
      BY <3>1, QuietStep
  <2> QED
    BY <2>1, <2>2, <2>3
<1>2. ASSUME NEW r \in Run, Falters(r)
      PROVE  IterationInv'
  <2>1. CASE InsertCopyJobFails(r)
    BY <2>1, InsertCopyJobFailsKeeps
  <2>2. CASE RunFails(r)
    BY <2>2, EndsQuiet, QuietStep DEF RunFails, workVars
  <2>3. ASSUME NEW b \in BA, CreateCloudTaskFails(r, b) \/ WaitFails(r, b) \/ VisitFails(r, b)
        PROVE  IterationInv'
    BY <2>3, TaskActionQuiet, QuietStep
  <2> QED
    BY <1>2, <2>1, <2>2, <2>3 DEF Falters
<1>3. ASSUME NEW w \in Worker, WorkerAction(w)
      PROVE  IterationInv'
  BY <1>3, WorkerActionQuiet, QuietStep
<1>4. CASE Environment
  BY <1>4, EnvironmentQuiet, QuietStep
<1>5. CASE UNCHANGED vars
  <2>1. UNCHANGED <<run, jobs, mm>>
    BY <1>5 DEF vars
  <2> QED
    BY <2>1, SameRuns, SameJobs, QuietStep DEF Quiet
<1> QED
  BY <1>1, <1>2, <1>3, <1>4, <1>5 DEF Next

\* However many invocations of the manager overlap, and whatever mishap occurs, an
\* iteration belongs to one run (OneRunPerIteration) and inserts at most one job into the
\* unified table: CatchInternalManagerMetadata is fence enough.
THEOREM OneRunOneCopy == Spec => [](OneCopyJobPerIteration /\ OneRunPerIteration)
<1>1. IterationInv => OneCopyJobPerIteration /\ OneRunPerIteration
  BY DEF IterationInv, OneRun, OneCopyJob, CopyJobs, InIteration, OneCopyJobPerIteration,
         OneRunPerIteration
<1>2. Spec => []IterationInv
  BY InitIteration, StepIteration, TypeCorrect, PTL DEF Spec
<1> QED
  BY <1>1, <1>2, PTL
-----------------------------------------------------------------------------
(* A single invocation, repeated: it starts again only after it has ended. *)
(* What the tasks say is then so, whatever became of it before and however *)
(* many deliveries of cloud tasks are alive.                               *)

SingleRun == \A q, r \in Run : q = r

Recovering == Failing \cup {"rec_done", "rec_list_notify", "rec_notify", "rec_list_settle",
                            "rec_settle"}

\* The states of a task that an iteration has in hand.
Open == {"pending", "running", "verified", "notified"}

\* The job n copies a segment of account b in iteration i.
CopyOf(n, b, i) ==
    n \in DOMAIN jobs /\ jobs[n].kind = "to_tmp" /\ jobs[n].bas = {b} /\ jobs[n].iteration = i

Busy(w, b, i) == worker[w].at # "idle" /\ worker[w].ba = b /\ worker[w].iteration = i

\* The iterations that documents, workers and jobs name: those of workers and jobs are not
\* ahead of their task, and that of a task not ahead of the manager.
Numbered ==
    /\ \A b \in BA : itm[b].iteration <= mm.iteration
    /\ \A r \in Run :
          /\ run[r].at \in Recovering \cup OfIteration => run[r].iteration = mm.iteration
          /\ run[r].at \in {"table", "list_active"} =>
                \A b \in BA : itm[b].iteration < mm.iteration
          /\ run[r].at = "update" => \A b \in run[r].todo : itm[b].iteration < mm.iteration
    /\ \A w \in Worker :
          worker[w].at # "idle" => worker[w].iteration <= itm[worker[w].ba].iteration
    /\ \A n \in DOMAIN jobs : jobs[n].kind = "to_tmp" =>
          \E b \in BA : jobs[n].bas = {b} /\ jobs[n].iteration <= itm[b].iteration

\* An account is attempted once in an iteration: by one worker, which inserts one job, of
\* the segment that the task has in that iteration.
Attempts ==
    /\ \A v, w \in Worker, b \in BA : \A i \in Nat : Busy(v, b, i) /\ Busy(w, b, i) => v = w
    /\ \A b \in BA : \A i \in Nat : \A m, n \in DOMAIN jobs :
          CopyOf(m, b, i) /\ CopyOf(n, b, i) => m = n
    /\ \A w \in Worker :
          /\ worker[w].at = "begun" =>
                \A n \in DOMAIN jobs : ~CopyOf(n, worker[w].ba, worker[w].iteration)
          /\ worker[w].at = "inserted" =>
                CopyOf(worker[w].job, worker[w].ba, worker[w].iteration)
          /\ worker[w].at = "begun" /\ worker[w].iteration = itm[worker[w].ba].iteration =>
                /\ worker[w].start = itm[worker[w].ba].start
                /\ worker[w].end = itm[worker[w].ba].end
    /\ \A b \in BA : \A n \in DOMAIN jobs : CopyOf(n, b, itm[b].iteration) =>
          jobs[n].start = itm[b].start /\ jobs[n].end = itm[b].end

\* A pending task has not been attempted, one that is waited for has no job but its own,
\* and that of a verified one is done.
Attempted ==
    \A b \in BA :
        /\ itm[b].state = "pending" =>
              /\ \A w \in Worker : ~Busy(w, b, itm[b].iteration)
              /\ \A n \in DOMAIN jobs : ~CopyOf(n, b, itm[b].iteration)
        /\ itm[b].state \in {"pending", "running"} /\ itm[b].job # 0 =>
              CopyOf(itm[b].job, b, itm[b].iteration)
        /\ itm[b].state = "verified" =>
              \E n \in DOMAIN jobs : CopyOf(n, b, itm[b].iteration) /\ jobs[n].status = "done"

\* The states of the tasks at the steps of a run.
Phases ==
    \A r \in Run :
        /\ run[r].at \in {"catch", "table", "list_active"} =>
              \A b \in BA : itm[b].state \notin Open
        /\ run[r].at = "update" => \A b \in BA :
              /\ itm[b].state \notin Open \ {"pending", "running"}
              /\ b \in run[r].todo => itm[b].state \notin Open
        /\ run[r].at \in {"list_pending", "create", "list_waiting"} =>
              \A b \in BA : itm[b].state \notin {"verified", "notified"}
        /\ run[r].at = "wait" =>
              /\ \A b \in BA : itm[b].state # "notified"
              /\ \A b \in run[r].todo :
                    /\ itm[b].state \in {"pending", "running", "failed"}
                    /\ run[r].job[b] # 0 => CopyOf(run[r].job[b], b, itm[b].iteration)
        /\ run[r].at = "single" => \A b \in BA :
              /\ itm[b].state \in Open => b \in run[r].todo
              /\ itm[b].state \in {"pending", "running"} => b \in run[r].toFail

TaskInv == Numbered /\ Attempts /\ Attempted /\ Phases

-----------------------------------------------------------------------------
(* What the steps do.                                                      *)

LEMMA GoesParts ==
    ASSUME TypeOK, NEW r \in Run, NEW to, Goes(r, to)
    PROVE  /\ run'[r].at = to /\ run'[r].todo = run[r].todo /\ run'[r].toFail = run[r].toFail
           /\ run'[r].iteration = run[r].iteration /\ run'[r].job = run[r].job
           /\ run'[r].copy = run[r].copy
  BY DEF Goes, TypeOK, RunRec

LEMMA EndsParts ==
    ASSUME TypeOK, NEW r \in Run, Ends(r)
    PROVE  run'[r].at = "idle"
  BY DEF Ends, TypeOK, IdleRun

LEMMA ListsParts ==
    ASSUME TypeOK, NEW r \in Run, NEW from, NEW states, NEW to, Lists(r, from, states, to)
    PROVE  /\ run[r].at = from /\ run'[r].at = to /\ run'[r].iteration = run[r].iteration
           /\ \A b : b \in run'[r].todo <=>
                 b \in BA /\ itm[b].state \in states /\ itm[b].iteration = run[r].iteration
           /\ UNCHANGED <<newest, mm, itm, tasks, worker, jobs, tmp, unified>>
  BY DEF Lists, TypeOK, RunRec, workVars

LEMMA VisitsParts ==
    ASSUME TypeOK, NEW r \in Run, NEW step, NEW b \in BA, Visits(r, step, b)
    PROVE  /\ run[r].at = step /\ run'[r].at = step /\ b \in run[r].todo
           /\ run'[r].iteration = run[r].iteration /\ run'[r].job = run[r].job
           /\ run'[r].toFail = run[r].toFail /\ run'[r].copy = run[r].copy
           /\ run'[r].todo = run[r].todo \ {b}
           /\ UNCHANGED <<newest, mm, worker, jobs, tmp, unified>>
  BY DEF Visits, TypeOK, RunRec

LEMMA SetsParts ==
    ASSUME TypeOK, NEW r \in Run, NEW step, NEW b \in BA, NEW state, Sets(r, step, b, state)
    PROVE  /\ itm'[b].state = state /\ itm'[b].iteration = itm[b].iteration
           /\ itm'[b].start = itm[b].start /\ itm'[b].end = itm[b].end
           /\ itm'[b].job = itm[b].job
           /\ \A a \in BA \ {b} : itm'[a] = itm[a]
  BY DEF Sets, TypeOK, Itm

\* What updateTaskMetadata makes of a task that no iteration has in hand.
LEMMA UpdatedParts ==
    ASSUME NEW t \in Itm, NEW i \in Nat, NEW latest \in Nat, t.state \notin Open
    PROVE  LET u == UpdatedTask(t, i, latest) IN
           /\ u \in Itm /\ u.iteration = i
           /\ u.state \notin {"running", "verified", "notified", "failed"}
           /\ u.state = "pending" => u.job = 0
           /\ u.state \in {"onboarding", "initializing"} => u.state = t.state
           /\ \/ u.start = t.start /\ u.end = t.end
                 /\ (u.state = "pending" => t.state = "failed")
                 /\ (u.state = "done" => t.state = "skipped")
                 /\ (u.state = "skipped" => t.state = "skipped")
              \/ /\ u.start = t.end
                 /\ u.end = IF t.end + Interval < latest THEN t.end + Interval ELSE latest
                 /\ \/ t.state = "done" \/ t.state = "initializing"
                    \/ t.state = "failed" /\ t.end = 0
                 /\ u.state = "pending" \/ (u.state = "skipped" /\ u.start = u.end)
  <1> DEFINE fresh == [t EXCEPT !.iteration = i, !.job = 0, !.late = FALSE]
             next  == NextSegment(fresh, latest)
  <1>u. UpdatedTask(t, i, latest) \in Itm
    BY UpdatedTaskTypes
  <1>1. /\ fresh.iteration = i /\ fresh.job = 0 /\ fresh.start = t.start /\ fresh.end = t.end
        /\ fresh.state = t.state /\ fresh \in Itm
    BY DEF Itm
  <1>2. /\ next.iteration = i /\ next.job = 0 /\ next.start = t.end /\ next.state = t.state
        /\ next.end = (IF t.end + Interval < latest THEN t.end + Interval ELSE latest)
        /\ next \in Itm
    BY ZenonT(90), <1>1, NextSegmentTypes DEF NextSegment, Itm
  <1>3. \A d \in Itm : \A s : LET n == [d EXCEPT !.state = s] IN
            /\ n.state = s /\ n.iteration = d.iteration /\ n.job = d.job
            /\ n.start = d.start /\ n.end = d.end
    BY DEF Itm
  <1>4. /\ t.state = "skipped" => LET n == [t EXCEPT !.iteration = i, !.state =
                                       IF t.end # latest THEN "done" ELSE @] IN
             /\ n.iteration = i /\ n.start = t.start /\ n.end = t.end
             /\ n.state \in {"done", "skipped"}
        /\ LET n == [t EXCEPT !.iteration = i] IN
             n.iteration = i /\ n.start = t.start /\ n.end = t.end /\ n.state = t.state
    BY DEF Itm
  <1> HIDE DEF fresh, next
  <1>5. CASE t.state = "skipped"
    BY <1>u, <1>4, <1>5 DEF UpdatedTask
  <1>6. CASE t.state = "done"
    <2>1. UpdatedTask(t, i, latest) =
             [next EXCEPT !.state = IF next.start = next.end THEN "skipped" ELSE "pending"]
      BY <1>6 DEF UpdatedTask, fresh, next
    <2> QED  BY <1>u, <1>2, <1>3, <1>6, <2>1
  <1>7. CASE t.state = "onboarding"
    BY <1>u, <1>4, <1>7 DEF UpdatedTask
  <1>8. CASE t.state = "initializing"
    <2>1. UpdatedTask(t, i, latest) = [next EXCEPT !.state = "pending"]
      BY <1>8 DEF UpdatedTask, fresh, next
    <2> QED  BY <1>u, <1>2, <1>3, <1>8, <2>1
  <1>9. CASE t.state = "failed"
    <2>1. UpdatedTask(t, i, latest) =
             [(IF t.end = 0 THEN next ELSE fresh) EXCEPT !.state = "pending"]
      BY <1>9 DEF UpdatedTask, fresh, next
    <2> QED  BY <1>u, <1>1, <1>2, <1>3, <1>9, <2>1
  <1> QED  BY <1>5, <1>6, <1>7, <1>8, <1>9 DEF Open, Itm, TaskState

-----------------------------------------------------------------------------
(* The attempts at each account.                                           *)

\* No job that copies a segment is inserted, and none changes but for its status.
NoNewAttempt ==
    /\ \A n \in DOMAIN jobs :
          /\ n \in DOMAIN jobs' /\ jobs'[n].kind = jobs[n].kind /\ jobs'[n].bas = jobs[n].bas
          /\ jobs'[n].iteration = jobs[n].iteration
          /\ jobs'[n].start = jobs[n].start /\ jobs'[n].end = jobs[n].end
          /\ jobs[n].status = "done" => jobs'[n].status = "done"
    /\ \A n \in DOMAIN jobs' : jobs'[n].kind = "to_tmp" => n \in DOMAIN jobs

SameSegments ==
    \A b \in BA : /\ itm'[b].iteration = itm[b].iteration
                  /\ itm'[b].start = itm[b].start /\ itm'[b].end = itm[b].end

\* No delivery is begun and none inserts a job.
WorkersKept ==
    \A w \in Worker :
        \/ worker'[w].at = "idle"
        \/ /\ worker'[w].at = worker[w].at /\ worker'[w].ba = worker[w].ba
           /\ worker'[w].iteration = worker[w].iteration /\ worker'[w].job = worker[w].job
           /\ worker'[w].start = worker[w].start /\ worker'[w].end = worker[w].end

\* No run enters the steps at which the tasks are behind the manager, and what it works on
\* is the manager's iteration.
RunsKept ==
    \A r \in Run :
        /\ run'[r].at \in Recovering \cup OfIteration => run'[r].iteration = mm'.iteration
        /\ run'[r].at \in {"table", "list_active"} => run[r].at \in {"table", "list_active"}
        /\ run'[r].at = "update" => \/ run[r].at = "list_active"
                                    \/ run[r].at = "update" /\ run'[r].todo \subseteq run[r].todo

LEMMA SameAttempts ==
    ASSUME NoNewAttempt
    PROVE  \A n, b, i : CopyOf(n, b, i)' <=> CopyOf(n, b, i)
  BY DEF NoNewAttempt, CopyOf

LEMMA JobTypes ==
    ASSUME TypeOK
    PROVE  /\ jobs \in Seq(Job) /\ Len(jobs) \in Nat /\ DOMAIN jobs = 1..Len(jobs)
           /\ \A n \in DOMAIN jobs :
                 /\ jobs[n] \in Job /\ jobs[n].kind \in {"to_tmp", "to_unified"}
                 /\ jobs[n].iteration \in Nat /\ jobs[n].bas \in SUBSET BA
                 /\ jobs[n].start \in Nat /\ jobs[n].end \in Nat
                 /\ jobs[n].status \in {"running", "done", "failed"}
  <1>1. jobs \in Seq(Job) /\ Len(jobs) \in Nat /\ DOMAIN jobs = 1..Len(jobs)
    BY DEF TypeOK
  <1>2. \A n \in DOMAIN jobs : jobs[n] \in Job
    BY <1>1
  <1> QED  BY <1>1, <1>2 DEF Job

LEMMA TaskParts ==
    ASSUME TypeOK, NEW b \in BA
    PROVE  /\ itm[b] \in Itm /\ itm[b].iteration \in Nat /\ itm[b].start \in Nat
           /\ itm[b].end \in Nat /\ itm[b].job \in Nat /\ itm[b].state \in TaskState
           /\ newest[b] \in Nat /\ mm.iteration \in Nat
  BY DEF TypeOK, Itm, Manager

LEMMA WorkerParts ==
    ASSUME TypeOK, NEW w \in Worker
    PROVE  /\ worker[w] \in WorkerRec /\ worker[w].ba \in BA /\ worker[w].iteration \in Nat
           /\ worker[w].job \in Nat /\ worker[w].at \in {"idle", "begun", "inserted"}
           /\ worker[w].start \in Nat /\ worker[w].end \in Nat
  BY DEF TypeOK, WorkerRec

\* The job that appends to the unified table is not an attempt.
LEMMA InsertsAttempt ==
    ASSUME TypeOK, NEW r \in Run, NEW bas, InsertsCopyJob(r, bas)
    PROVE  NoNewAttempt
  BY JobTypes DEF InsertsCopyJob, NoNewAttempt

LEMMA FinishesAttempt ==
    ASSUME TypeOK, NEW n \in DOMAIN jobs, JobFinishes(n)
    PROVE  NoNewAttempt
  <1>1. PICK s \in {"done", "failed"} : jobs' = [jobs EXCEPT ![n].status = s]
    BY DEF JobFinishes
  <1>2. jobs[n].status = "running" /\ jobs[n] \in Job
    BY JobTypes DEF JobFinishes
  <1>3. \A d \in Job : LET k == [d EXCEPT !.status = s] IN
            /\ k.kind = d.kind /\ k.bas = d.bas /\ k.iteration = d.iteration
            /\ k.start = d.start /\ k.end = d.end /\ k.status = s
    BY DEF Job
  <1>4. /\ DOMAIN jobs' = DOMAIN jobs
        /\ \A m \in DOMAIN jobs :
              jobs'[m] = IF m = n THEN [jobs[n] EXCEPT !.status = s] ELSE jobs[m]
    BY <1>1
  <1>5. ASSUME NEW m \in DOMAIN jobs
        PROVE  /\ m \in DOMAIN jobs' /\ jobs'[m].kind = jobs[m].kind /\ jobs'[m].bas = jobs[m].bas
               /\ jobs'[m].iteration = jobs[m].iteration
               /\ jobs'[m].start = jobs[m].start /\ jobs'[m].end = jobs[m].end
               /\ jobs[m].status = "done" => jobs'[m].status = "done"
    <2>1. CASE m # n
      BY <1>4, <2>1
    <2>2. CASE m = n
      BY ZenonT(60), <1>2, <1>3, <1>4, <2>2
    <2> QED  BY <2>1, <2>2
  <1> QED  BY <1>4, <1>5 DEF NoNewAttempt

LEMMA NumberedKept ==
    ASSUME TypeOK, TypeOK', Numbered, NoNewAttempt, SameSegments, WorkersKept, RunsKept,
           mm'.iteration = mm.iteration
    PROVE  Numbered'
  <1>1. \A b \in BA : itm'[b].iteration <= mm'.iteration
    BY DEF Numbered, SameSegments
  <1>2. ASSUME NEW r \in Run
        PROVE  /\ run'[r].at \in Recovering \cup OfIteration => run'[r].iteration = mm'.iteration
               /\ run'[r].at \in {"table", "list_active"} =>
                     \A b \in BA : itm'[b].iteration < mm'.iteration
               /\ run'[r].at = "update" => \A b \in run'[r].todo : itm'[b].iteration < mm'.iteration
    <2>t. run'[r].todo \subseteq BA
      BY DEF TypeOK, RunRec
    <2>2. run[r].at = "list_active" => \A b \in BA : itm'[b].iteration < mm'.iteration
      BY DEF Numbered, SameSegments
    <2>3. ASSUME run'[r].at = "update", NEW b \in run'[r].todo
          PROVE  itm'[b].iteration < mm'.iteration
      <3>1. b \in BA
        BY <2>3, <2>t
      <3> QED  BY <2>2, <2>3, <3>1 DEF Numbered, RunsKept, SameSegments
    <2>4. run'[r].at \in {"table", "list_active"} => \A b \in BA : itm'[b].iteration < mm'.iteration
      BY DEF Numbered, RunsKept, SameSegments
    <2> QED  BY <2>3, <2>4 DEF RunsKept
  <1>3. \A w \in Worker :
          worker'[w].at # "idle" => worker'[w].iteration <= itm'[worker'[w].ba].iteration
    BY WorkerParts DEF Numbered, SameSegments, WorkersKept
  <1>4. \A n \in DOMAIN jobs' : jobs'[n].kind = "to_tmp" =>
          \E b \in BA : jobs'[n].bas = {b} /\ jobs'[n].iteration <= itm'[b].iteration
    BY DEF Numbered, SameSegments, NoNewAttempt
  <1> QED  BY <1>1, <1>2, <1>3, <1>4 DEF Numbered

LEMMA AttemptsKept ==
    ASSUME TypeOK, Attempts, NoNewAttempt, SameSegments, WorkersKept
    PROVE  Attempts'
  <1>1. \A n, b, i : CopyOf(n, b, i)' <=> CopyOf(n, b, i)
    BY SameAttempts
  <1>2. \A b, i : \A w \in Worker : Busy(w, b, i)' => Busy(w, b, i)
    BY DEF WorkersKept, Busy
  <1>3. \A n, b, i : CopyOf(n, b, i) => n \in DOMAIN jobs /\ n \in DOMAIN jobs'
    BY DEF CopyOf, NoNewAttempt
  <1>4. \A v, w \in Worker, b \in BA : \A i \in Nat : Busy(v, b, i)' /\ Busy(w, b, i)' => v = w
    BY <1>2 DEF Attempts
  <1>5. \A b \in BA : \A i \in Nat : \A m, n \in DOMAIN jobs' :
          CopyOf(m, b, i)' /\ CopyOf(n, b, i)' => m = n
    BY <1>1, <1>3 DEF Attempts
  <1>6. ASSUME NEW w \in Worker
        PROVE  /\ worker'[w].at = "begun" =>
                     \A n \in DOMAIN jobs' : ~CopyOf(n, worker[w].ba, worker[w].iteration)'
               /\ worker'[w].at = "inserted" =>
                     CopyOf(worker[w].job, worker[w].ba, worker[w].iteration)'
               /\ worker'[w].at = "begun" /\ worker'[w].iteration = itm'[worker'[w].ba].iteration =>
                     /\ worker'[w].start = itm'[worker'[w].ba].start
                     /\ worker'[w].end = itm'[worker'[w].ba].end
    <2>1. PICK b \in BA, i \in Nat, k \in Nat :
             b = worker[w].ba /\ i = worker[w].iteration /\ k = worker[w].job
      BY WorkerParts
    <2>2. worker'[w].at # "idle" => /\ b = worker'[w].ba /\ i = worker'[w].iteration
                                    /\ k = worker'[w].job /\ worker'[w].at = worker[w].at
                                    /\ worker'[w].start = worker[w].start
                                    /\ worker'[w].end = worker[w].end
      BY <2>1 DEF WorkersKept
    <2>3. worker[w].at = "begun" => \A n \in DOMAIN jobs : ~CopyOf(n, b, i)
      BY <2>1 DEF Attempts
    <2>4. worker[w].at = "inserted" => CopyOf(k, b, i)
      BY <2>1 DEF Attempts
    <2>5. worker'[w].at = "begun" => \A n \in DOMAIN jobs' : ~CopyOf(n, b, i)'
      BY <1>1, <1>3, <2>2, <2>3
    <2>6. worker'[w].at = "inserted" => CopyOf(k, b, i)'
      BY <1>1, <2>2, <2>4
    <2>7. worker'[w].at = "begun" => \A n \in DOMAIN jobs' :
                                        ~CopyOf(n, worker[w].ba, worker[w].iteration)'
      BY <2>2, <2>5 DEF CopyOf
    <2>8. worker'[w].at = "inserted" => CopyOf(worker[w].job, worker[w].ba, worker[w].iteration)'
      BY <2>2, <2>6 DEF CopyOf
    <2>9. worker'[w].at = "begun" /\ worker'[w].iteration = itm'[worker'[w].ba].iteration
             => /\ worker'[w].start = itm'[worker'[w].ba].start
                /\ worker'[w].end = itm'[worker'[w].ba].end
      <3>1. /\ worker[w].at = "begun" /\ i = itm[b].iteration =>
                   worker[w].start = itm[b].start /\ worker[w].end = itm[b].end
            /\ itm'[b].iteration = itm[b].iteration /\ itm'[b].start = itm[b].start
            /\ itm'[b].end = itm[b].end
        BY <2>1 DEF Attempts, SameSegments
      <3> QED  BY <2>2, <3>1
    <2> QED  BY <2>7, <2>8, <2>9
  <1>7. \A b \in BA : \A n \in DOMAIN jobs' : CopyOf(n, b, itm[b].iteration)' =>
          jobs'[n].start = itm'[b].start /\ jobs'[n].end = itm'[b].end
    BY DEF Attempts, NoNewAttempt, SameSegments, CopyOf
  <1> QED  BY <1>4, <1>5, <1>6, <1>7 DEF Attempts

\* No task is made pending, waits for another job or is verified.
StatesKept ==
    \A b \in BA :
        /\ itm'[b].state = "pending" => itm[b].state = "pending"
        /\ itm'[b].state \in {"pending", "running"} =>
              itm[b].state \in {"pending", "running"} /\ itm'[b].job = itm[b].job
        /\ itm'[b].state = "verified" => itm[b].state = "verified"

LEMMA AttemptedKept ==
    ASSUME TypeOK, Attempted, NoNewAttempt, SameSegments, WorkersKept, StatesKept
    PROVE  Attempted'
  <1>1. \A n, b, i : CopyOf(n, b, i)' <=> CopyOf(n, b, i)
    BY SameAttempts
  <1>2. \A b, i : \A w \in Worker : Busy(w, b, i)' => Busy(w, b, i)
    BY DEF WorkersKept, Busy
  <1>3. \A n, b, i : CopyOf(n, b, i) => n \in DOMAIN jobs
    BY DEF CopyOf
  <1> SUFFICES ASSUME NEW b \in BA
               PROVE  /\ itm'[b].state = "pending" =>
                            /\ \A w \in Worker : ~Busy(w, b, itm[b].iteration)'
                            /\ \A n \in DOMAIN jobs' : ~CopyOf(n, b, itm[b].iteration)'
                      /\ itm'[b].state \in {"pending", "running"} /\ itm'[b].job # 0 =>
                            CopyOf(itm[b].job, b, itm[b].iteration)'
                      /\ itm'[b].state = "verified" => \E n \in DOMAIN jobs' :
                            CopyOf(n, b, itm[b].iteration)' /\ jobs'[n].status = "done"
    BY DEF Attempted
  <1>4. PICK i \in Nat, k \in Nat : i = itm[b].iteration /\ k = itm[b].job
    BY TaskParts
  <1>5. i = itm'[b].iteration
    BY <1>4 DEF SameSegments
  <1>6. itm'[b].state = "pending" => /\ \A w \in Worker : ~Busy(w, b, i)'
                                     /\ \A n \in DOMAIN jobs' : ~CopyOf(n, b, i)'
    <2>1. itm[b].state = "pending" => /\ \A w \in Worker : ~Busy(w, b, i)
                                      /\ \A n \in DOMAIN jobs : ~CopyOf(n, b, i)
      BY <1>4 DEF Attempted
    <2> QED  BY <1>1, <1>2, <1>3, <2>1 DEF StatesKept
  <1>7. itm'[b].state \in {"pending", "running"} /\ itm'[b].job # 0 =>
           CopyOf(k, b, i)' /\ k = itm'[b].job
    <2>1. itm[b].state \in {"pending", "running"} /\ k # 0 => CopyOf(k, b, i)
      BY <1>4 DEF Attempted
    <2> QED  BY <1>1, <1>4, <2>1 DEF StatesKept
  <1>8. itm'[b].state = "verified" =>
           \E n \in DOMAIN jobs' : CopyOf(n, b, i)' /\ jobs'[n].status = "done"
    <2>1. itm[b].state = "verified" =>
             \E n \in DOMAIN jobs : CopyOf(n, b, i) /\ jobs[n].status = "done"
      BY <1>4 DEF Attempted
    <2> QED  BY <1>1, <2>1 DEF StatesKept, NoNewAttempt
  <1> QED  BY <1>4, <1>5, <1>6, <1>7, <1>8 DEF Busy, CopyOf

\* What others than the run do to its tasks.
TasksDrift ==
    /\ SameSegments
    /\ \A b \in BA :
        \/ itm'[b].state = itm[b].state
        \/ itm'[b].state = "failed"
        \/ itm[b].state = "pending" /\ itm'[b].state = "running"
        \/ itm[b].state = "onboarding" /\ itm'[b].state = "initializing"

LEMMA PhasesKept ==
    ASSUME TypeOK, Phases, TasksDrift, UNCHANGED run,
           \A n, b, i : CopyOf(n, b, i) => CopyOf(n, b, i)'
    PROVE  Phases'
  <1> SUFFICES ASSUME NEW r \in Run
               PROVE  /\ run[r].at \in {"catch", "table", "list_active"} =>
                            \A b \in BA : itm'[b].state \notin Open
                      /\ run[r].at = "update" => \A b \in BA :
                            /\ itm'[b].state \notin Open \ {"pending", "running"}
                            /\ b \in run[r].todo => itm'[b].state \notin Open
                      /\ run[r].at \in {"list_pending", "create", "list_waiting"} =>
                            \A b \in BA : itm'[b].state \notin {"verified", "notified"}
                      /\ run[r].at = "wait" =>
                            /\ \A b \in BA : itm'[b].state # "notified"
                            /\ \A b \in run[r].todo :
                                  /\ itm'[b].state \in {"pending", "running", "failed"}
                                  /\ run[r].job[b] # 0 =>
                                        CopyOf(run[r].job[b], b, itm[b].iteration)'
                      /\ run[r].at = "single" => \A b \in BA :
                            /\ itm'[b].state \in Open => b \in run[r].todo
                            /\ itm'[b].state \in {"pending", "running"} => b \in run[r].toFail
    BY DEF Phases
  <1>1. run[r].todo \subseteq BA
    BY DEF TypeOK, RunRec
  <1>2. run[r].at \in {"catch", "table", "list_active"} =>
           \A b \in BA : itm'[b].state \notin Open
    BY DEF Phases, TasksDrift, Open
  <1>3. run[r].at = "update" => \A b \in BA :
           /\ itm'[b].state \notin Open \ {"pending", "running"}
           /\ b \in run[r].todo => itm'[b].state \notin Open
    BY DEF Phases, TasksDrift, Open
  <1>4. run[r].at \in {"list_pending", "create", "list_waiting"} =>
           \A b \in BA : itm'[b].state \notin {"verified", "notified"}
    BY DEF Phases, TasksDrift
  <1>5. ASSUME run[r].at = "wait"
        PROVE  /\ \A b \in BA : itm'[b].state # "notified"
               /\ \A b \in run[r].todo :
                     /\ itm'[b].state \in {"pending", "running", "failed"}
                     /\ run[r].job[b] # 0 => CopyOf(run[r].job[b], b, itm[b].iteration)'
    <2>1. \A b \in BA : itm'[b].state # "notified"
      BY <1>5 DEF Phases, TasksDrift
    <2>2. \A b \in run[r].todo : itm'[b].state \in {"pending", "running", "failed"}
      BY <1>1, <1>5 DEF Phases, TasksDrift
    <2>3. ASSUME NEW b \in run[r].todo, run[r].job[b] # 0
          PROVE  CopyOf(run[r].job[b], b, itm[b].iteration)'
      <3>1. PICK k, i : k = run[r].job[b] /\ i = itm[b].iteration
        OBVIOUS
      <3>2. CopyOf(k, b, i)
        BY <1>5, <2>3, <3>1 DEF Phases
      <3>3. CopyOf(k, b, i)' /\ k = run'[r].job[b] /\ i = itm'[b].iteration
        BY <1>1, <3>1, <3>2 DEF TasksDrift, SameSegments
      <3> QED  BY <3>3 DEF CopyOf
    <2> QED  BY <2>1, <2>2, <2>3
  <1>6. run[r].at = "single" => \A b \in BA :
           /\ itm'[b].state \in Open => b \in run[r].todo
           /\ itm'[b].state \in {"pending", "running"} => b \in run[r].toFail
    BY DEF Phases, TasksDrift, Open
  <1> QED  BY <1>2, <1>3, <1>4, <1>5, <1>6

LEMMA KeepsTasks ==
    ASSUME TypeOK, TypeOK', TaskInv, NoNewAttempt, SameSegments, WorkersKept, StatesKept,
           RunsKept, mm'.iteration = mm.iteration
    PROVE  Numbered' /\ Attempts' /\ Attempted'
  BY NumberedKept, AttemptsKept, AttemptedKept DEF TaskInv

\* Nothing that the tasks rest on changes.
LEMMA SameTasks ==
    ASSUME UNCHANGED <<itm, worker>>
    PROVE  SameSegments /\ WorkersKept /\ StatesKept
  BY DEF SameSegments, WorkersKept, StatesKept

-----------------------------------------------------------------------------
(* The steps of a run that leave the tasks alone.                          *)

LEMMA NoneInserted ==
    ASSUME UNCHANGED jobs
    PROVE  NoNewAttempt
  BY DEF NoNewAttempt

LEMMA RunsOn ==
    ASSUME TypeOK, Numbered, SingleRun, NEW r \in Run, mm'.iteration = mm.iteration,
           \/ run'[r].at \notin Recovering \cup OfIteration
           \/ /\ run[r].at \in Recovering \cup OfIteration
              /\ run'[r].iteration = run[r].iteration
              /\ run'[r].at \notin {"table", "list_active"} \/ run[r].at = "table"
              /\ run'[r].at = "update" => run[r].at = "list_active"
    PROVE  RunsKept
  BY DEF SingleRun, RunsKept, Numbered, Recovering, OfIteration, Failing

LEMMA ListNotifiedParts ==
    ASSUME TypeOK, NEW r \in Run, ListNotifiedToSettle(r)
    PROVE  /\ run'[r].at = "rec_settle" /\ run'[r].iteration = run[r].iteration
           /\ \A b : b \in run'[r].todo <=> b \in BA /\ itm[b].state = "notified"
  <1> DEFINE S == {b \in BA : itm[b].state = "notified"}
  <1>1. run' = [run EXCEPT ![r].at = "rec_settle", ![r].todo = S]
    BY DEF ListNotifiedToSettle
  <1>2. \A b : b \in S <=> b \in BA /\ itm[b].state = "notified"
    OBVIOUS
  <1> HIDE DEF S
  <1> QED  BY <1>1, <1>2 DEF TypeOK, RunRec

LEMMA RecoverySteps ==
    ASSUME TypeOK, TypeOK', TaskInv, SingleRun, NEW r \in Run,
           \/ GeneralRecovery(r) \/ RecoveryAction(r) \/ CatchFails(r) \/ RunFails(r)
    PROVE  UNCHANGED <<itm, worker, jobs>> /\ RunsKept /\ mm'.iteration = mm.iteration
  <1> USE DEF Recovering, OfIteration, Failing, workVars
  <1>m. mm \in Manager /\ mm'.iteration \in Nat
    BY DEF TypeOK, Manager
  <1>s. \A s : [mm EXCEPT !.state = s].iteration = mm.iteration
    BY <1>m DEF Manager
  <1>1. CASE GeneralRecovery(r)
    BY <1>1, GoesParts, RunsOn DEF GeneralRecovery, TaskInv
  <1>2. CASE CatchFails(r)
    BY <1>2, EndsParts, RunsOn DEF CatchFails, TaskInv
  <1>3. CASE RunFails(r)
    BY <1>3, EndsParts, RunsOn DEF RunFails, TaskInv
  <1>4. CASE ClaimRecovery(r)
    <2>1. /\ run'[r].at = RecoveryStep(mm.state) /\ run'[r].iteration = mm.iteration
          /\ mm'.iteration = mm.iteration
      BY <1>4 DEF ClaimRecovery, TypeOK, RunRec, Manager
    <2>2. RunsKept
      BY <2>1 DEF RunsKept, SingleRun, RecoveryStep
    <2> QED  BY <1>4, <2>1, <2>2 DEF ClaimRecovery
  <1>5. CASE RecoveryDeletes(r)
    BY <1>5, GoesParts, RunsOn DEF RecoveryDeletes, DeletesTmpTable, TaskInv
  <1>6. CASE RecoveryFails(r)
    BY <1>6, <1>s, GoesParts, RunsOn DEF RecoveryFails, Saves, TaskInv
  <1>7. CASE ListVerifiedToFail(r)
    BY <1>7, ListsParts, RunsOn DEF ListVerifiedToFail, TaskInv
  <1>8. CASE TasksMarkedAsFailed(r)
    BY <1>8, GoesParts, RunsOn DEF TasksMarkedAsFailed, TaskInv
  <1>9. CASE RecoveryDone(r)
    BY <1>9, <1>s, GoesParts, RunsOn DEF RecoveryDone, Saves, TaskInv
  <1>10. CASE RecoveryLists(r)
    BY <1>10, ListsParts, RunsOn DEF RecoveryLists, TaskInv
  <1>11. CASE RecoveryNotified(r)
    BY <1>11, <1>s, GoesParts, RunsOn DEF RecoveryNotified, Saves, TaskInv
  <1>12. CASE ListNotifiedToSettle(r)
    <2>1. run'[r].at = "rec_settle" /\ run'[r].iteration = run[r].iteration
      BY <1>12, ListNotifiedParts
    <2> QED  BY <1>12, <2>1, RunsOn DEF ListNotifiedToSettle, TaskInv
  <1>13. CASE RecoverySettled(r)
    BY <1>13, <1>s, GoesParts, RunsOn DEF RecoverySettled, Saves, TaskInv
  <1>14. CASE RecoveryTimeIsUp(r)
    BY SMTT(40), <1>14, EndsParts, RunsOn DEF RecoveryTimeIsUp, TaskInv
  <1>15. CASE ListAllTasks(r)
    <2>1. run'[r].at = "single"
      BY ZenonT(60), <1>15 DEF ListAllTasks, TypeOK, RunRec
    <2> QED  BY ZenonT(60), <1>15, <2>1, RunsOn DEF ListAllTasks, TaskInv
  <1>16. CASE TasksRecovered(r)
    BY <1>16, GoesParts, RunsOn DEF TasksRecovered, TaskInv
  <1> QED  BY <1>1, <1>2, <1>3, <1>4, <1>5, <1>6, <1>7, <1>8, <1>9, <1>10, <1>11, <1>12, <1>13,
              <1>14, <1>15, <1>16 DEF RecoveryAction

\* Where nothing is said of the tasks.
Unsaid == Step \ {"catch", "table", "list_active", "update", "list_pending", "create",
                  "list_waiting", "wait", "single"}

LEMMA RecoveryPhases ==
    ASSUME TypeOK, TypeOK', TaskInv, SingleRun, NEW r \in Run, UNCHANGED itm,
           \/ GeneralRecovery(r) \/ RecoveryAction(r) \/ CatchFails(r) \/ RunFails(r)
    PROVE  Phases'
  <1> USE DEF Unsaid
  <1>u. run'[r].at \in Unsaid => Phases'
    BY DEF Phases, SingleRun
  <1>1. CASE GeneralRecovery(r)
    BY <1>1, <1>u, GoesParts, StepNames DEF GeneralRecovery
  <1>2. CASE CatchFails(r)
    BY <1>2, <1>u, EndsParts, StepNames DEF CatchFails
  <1>3. CASE RunFails(r)
    BY <1>3, <1>u, EndsParts, StepNames DEF RunFails
  <1>4. CASE ClaimRecovery(r)
    <2>1. run'[r].at = RecoveryStep(mm.state)
      BY <1>4 DEF ClaimRecovery, TypeOK, RunRec
    <2> QED  BY <1>u, <2>1, StepNames DEF RecoveryStep
  <1>5. CASE RecoveryDeletes(r)
    BY <1>5, <1>u, GoesParts, StepNames DEF RecoveryDeletes, DeletesTmpTable
  <1>6. CASE RecoveryFails(r)
    BY <1>6, <1>u, GoesParts, StepNames DEF RecoveryFails, Saves
  <1>7. CASE ListVerifiedToFail(r)
    BY <1>7, <1>u, ListsParts, StepNames DEF ListVerifiedToFail
  <1>8. CASE TasksMarkedAsFailed(r)
    BY <1>8, <1>u, GoesParts, StepNames DEF TasksMarkedAsFailed
  <1>9. CASE RecoveryDone(r)
    BY <1>9, <1>u, GoesParts, StepNames DEF RecoveryDone, Saves
  <1>10. CASE RecoveryLists(r)
    BY <1>10, <1>u, ListsParts, StepNames DEF RecoveryLists
  <1>11. CASE RecoveryNotified(r)
    BY <1>11, <1>u, GoesParts, StepNames DEF RecoveryNotified, Saves
  <1>12. CASE ListNotifiedToSettle(r)
    <2>1. run'[r].at = "rec_settle"
      BY <1>12, ListNotifiedParts
    <2> QED  BY <2>1, <1>u, StepNames
  <1>13. CASE RecoverySettled(r)
    BY <1>13, <1>u, GoesParts, StepNames DEF RecoverySettled, Saves
  <1>14. CASE RecoveryTimeIsUp(r)
    BY <1>14, <1>u, EndsParts, StepNames DEF RecoveryTimeIsUp
  <1>15. CASE ListAllTasks(r)
    <2>1. /\ run'[r].at = "single"
          /\ \A b \in BA : itm[b].state \in Open => b \in run'[r].todo
          /\ \A b \in BA : itm[b].state \in {"pending", "running"} => b \in run'[r].toFail
      BY ZenonT(60), <1>15 DEF ListAllTasks, TypeOK, RunRec, Open
    <2> QED  BY SMTT(40), <2>1 DEF Phases, SingleRun
  <1>16. CASE TasksRecovered(r)
    <2>1. run'[r].at = "catch" /\ \A b \in BA : itm[b].state \notin Open
      BY <1>16, GoesParts DEF TasksRecovered, TaskInv, Phases
    <2> QED  BY <2>1 DEF Phases, SingleRun
  <1> QED  BY <1>1, <1>2, <1>3, <1>4, <1>5, <1>6, <1>7, <1>8, <1>9, <1>10, <1>11, <1>12, <1>13,
              <1>14, <1>15, <1>16 DEF RecoveryAction

LEMMA IterationSteps ==
    ASSUME TypeOK, TypeOK', TaskInv, SingleRun, NEW r \in Run,
           IterationAction(r) \/ InsertCopyJobFails(r), ~Catch(r)
    PROVE  /\ UNCHANGED <<itm, worker>> /\ NoNewAttempt /\ RunsKept
           /\ mm'.iteration = mm.iteration
  <1> USE NoneInserted DEF Recovering, OfIteration, Failing, workVars
  <1>m. mm \in Manager /\ mm'.iteration \in Nat
    BY DEF TypeOK, Manager
  <1>s. \A s : [mm EXCEPT !.state = s].iteration = mm.iteration
    BY <1>m DEF Manager
  <1>1. CASE CreateTmpTable(r)
    BY <1>1, <1>s, GoesParts, RunsOn DEF CreateTmpTable, TaskInv
  <1>2. CASE ListActiveTasks(r)
    <2>1. run'[r].at = "update" /\ run'[r].iteration = run[r].iteration
      BY <1>2 DEF ListActiveTasks, TypeOK, RunRec
    <2> QED  BY <1>2, <2>1, RunsOn DEF ListActiveTasks, TaskInv
  <1>3. CASE TasksUpdated(r)
    BY <1>3, <1>s, GoesParts, RunsOn DEF TasksUpdated, Saves, TaskInv
  <1>4. CASE ListPending(r)
    BY <1>4, ListsParts, RunsOn DEF ListPending, TaskInv
  <1>5. CASE TasksCreated(r)
    BY SMTT(40), <1>5, <1>s, GoesParts, RunsOn DEF TasksCreated, Saves, TaskInv
  <1>6. CASE ListWaiting(r)
    <2>1. run'[r].at = "wait" /\ run'[r].iteration = run[r].iteration
      BY ZenonT(60), <1>6 DEF ListWaiting, TypeOK, RunRec
    <2> QED  BY <1>6, <2>1, RunsOn DEF ListWaiting, TaskInv
  <1>7. CASE TasksDone(r)
    BY <1>7, <1>s, GoesParts, RunsOn DEF TasksDone, Saves, TaskInv
  <1>8. CASE NothingToCopy(r)
    BY <1>8, <1>s, GoesParts, RunsOn DEF NothingToCopy, Saves, TaskInv
  <1>9. CASE InsertCopyJob(r)
    <2>1. run'[r].at = "copying" /\ run'[r].iteration = run[r].iteration
      BY <1>9 DEF InsertCopyJob, TypeOK, RunRec
    <2> QED  BY <1>9, <2>1, RunsOn, InsertsAttempt DEF InsertCopyJob, TaskInv
  <1>10. CASE CopyJobDone(r)
    BY <1>10, <1>s, GoesParts, RunsOn DEF CopyJobDone, TaskInv
  <1>11. CASE CopyJobFailed(r)
    BY <1>11, <1>s, EndsParts, RunsOn DEF CopyJobFailed, TaskInv
  <1>12. CASE ListVerified(r)
    BY <1>12, ListsParts, RunsOn DEF ListVerified, TaskInv
  <1>13. CASE Notified(r)
    BY <1>13, <1>s, GoesParts, RunsOn DEF Notified, Saves, TaskInv
  <1>14. CASE LifeCycleHandled(r)
    BY <1>14, <1>s, GoesParts, RunsOn DEF LifeCycleHandled, Saves, TaskInv
  <1>15. CASE TearDown(r)
    BY <1>15, GoesParts, RunsOn DEF TearDown, DeletesTmpTable, TaskInv
  <1>16. CASE ListNotified(r)
    BY <1>16, ListsParts, RunsOn DEF ListNotified, TaskInv
  <1>17. CASE RunDone(r)
    BY <1>17, <1>s, EndsParts, RunsOn DEF RunDone, TaskInv
  <1>18. CASE InsertCopyJobFails(r)
    <2>1. NoNewAttempt
      BY <1>18, InsertsAttempt DEF InsertCopyJobFails
    <2> QED  BY <1>18, <1>s, <2>1, EndsParts, RunsOn DEF InsertCopyJobFails, TaskInv
  <1> QED  BY <1>1, <1>2, <1>3, <1>4, <1>5, <1>6, <1>7, <1>8, <1>9, <1>10, <1>11, <1>12, <1>13,
              <1>14, <1>15, <1>16, <1>17, <1>18 DEF IterationAction

LEMMA IterationPhases ==
    ASSUME TypeOK, TypeOK', TaskInv, SingleRun, NEW r \in Run, UNCHANGED itm,
           IterationAction(r) \/ InsertCopyJobFails(r), ~Catch(r)
    PROVE  Phases'
  <1> USE DEF Unsaid
  <1>u. run'[r].at \in Unsaid => Phases'
    BY DEF Phases, SingleRun
  <1>1. CASE CreateTmpTable(r)
    <2>1. run'[r].at = "list_active" /\ \A b \in BA : itm[b].state \notin Open
      BY <1>1, GoesParts DEF CreateTmpTable, TaskInv, Phases
    <2> QED  BY <2>1 DEF Phases, SingleRun
  <1>2. CASE ListActiveTasks(r)
    <2>1. run'[r].at = "update" /\ \A b \in BA : itm[b].state \notin Open
      BY <1>2 DEF ListActiveTasks, TypeOK, RunRec, TaskInv, Phases
    <2> QED  BY <2>1 DEF Phases, SingleRun
  <1>3. CASE TasksUpdated(r)
    <2>1. run'[r].at = "list_pending" /\ \A b \in BA : itm[b].state \notin {"verified", "notified"}
      BY <1>3, GoesParts DEF TasksUpdated, Saves, TaskInv, Phases, Open
    <2> QED  BY <2>1 DEF Phases, SingleRun
  <1>4. CASE ListPending(r)
    <2>1. run'[r].at = "create" /\ \A b \in BA : itm[b].state \notin {"verified", "notified"}
      BY <1>4, ListsParts DEF ListPending, TaskInv, Phases, Open
    <2> QED  BY <2>1 DEF Phases, SingleRun
  <1>5. CASE TasksCreated(r)
    <2>1. run'[r].at = "list_waiting" /\ \A b \in BA : itm[b].state \notin {"verified", "notified"}
      BY <1>5, GoesParts DEF TasksCreated, Saves, TaskInv, Phases, Open
    <2> QED  BY <2>1 DEF Phases, SingleRun
  <1>6. CASE ListWaiting(r)
    <2>1. /\ run'[r].at = "wait" /\ \A b \in BA : itm[b].state \notin {"verified", "notified"}
          /\ \A b \in run'[r].todo : itm[b].state \in {"pending", "running"} /\ run'[r].job[b] = 0
      BY ZenonT(60), <1>6 DEF ListWaiting, TypeOK, RunRec, TaskInv, Phases, NoJobs
    <2> QED  BY SMTT(40), <2>1 DEF Phases, SingleRun
  <1>7. CASE TasksDone(r)
    BY <1>7, <1>u, GoesParts, StepNames DEF TasksDone, Saves
  <1>8. CASE NothingToCopy(r)
    BY <1>8, <1>u, GoesParts, StepNames DEF NothingToCopy, Saves
  <1>9. CASE InsertCopyJob(r)
    <2>1. run'[r].at = "copying"
      BY <1>9 DEF InsertCopyJob, TypeOK, RunRec
    <2> QED  BY <2>1, <1>u, StepNames
  <1>10. CASE CopyJobDone(r)
    BY <1>10, <1>u, GoesParts, StepNames DEF CopyJobDone
  <1>11. CASE CopyJobFailed(r)
    BY <1>11, <1>u, EndsParts, StepNames DEF CopyJobFailed
  <1>12. CASE ListVerified(r)
    BY <1>12, <1>u, ListsParts, StepNames DEF ListVerified
  <1>13. CASE Notified(r)
    BY <1>13, <1>u, GoesParts, StepNames DEF Notified, Saves
  <1>14. CASE LifeCycleHandled(r)
    BY <1>14, <1>u, GoesParts, StepNames DEF LifeCycleHandled, Saves
  <1>15. CASE TearDown(r)
    BY <1>15, <1>u, GoesParts, StepNames DEF TearDown, DeletesTmpTable
  <1>16. CASE ListNotified(r)
    BY <1>16, <1>u, ListsParts, StepNames DEF ListNotified
  <1>17. CASE RunDone(r)
    BY <1>17, <1>u, EndsParts, StepNames DEF RunDone
  <1>18. CASE InsertCopyJobFails(r)
    BY <1>18, <1>u, EndsParts, StepNames DEF InsertCopyJobFails
  <1> QED  BY <1>1, <1>2, <1>3, <1>4, <1>5, <1>6, <1>7, <1>8, <1>9, <1>10, <1>11, <1>12, <1>13,
              <1>14, <1>15, <1>16, <1>17, <1>18 DEF IterationAction

LEMMA CatchTasks ==
    ASSUME TypeOK, TypeOK', TaskInv, SingleRun, NEW r \in Run, Catch(r)
    PROVE  TaskInv'
  <1>1. /\ run[r].at = "catch" /\ run'[r].at = "table"
        /\ run'[r].iteration = mm.iteration + 1 /\ mm'.iteration = mm.iteration + 1
        /\ UNCHANGED <<itm, worker, jobs>>
    BY DEF Catch, TypeOK, RunRec, Manager, workVars
  <1>2. SameSegments /\ WorkersKept /\ StatesKept /\ NoNewAttempt
    BY <1>1, SameTasks, NoneInserted
  <1>3. Attempts' /\ Attempted'
    BY <1>2, AttemptsKept, AttemptedKept DEF TaskInv
  <1>4. Numbered'
    <2>1. \A b \in BA : itm[b].iteration \in Nat /\ mm.iteration \in Nat
      BY TaskParts
    <2>2. \A b \in BA : itm'[b].iteration < mm'.iteration
      BY <1>1, <2>1 DEF TaskInv, Numbered
    <2>3. \A b \in BA : itm'[b].iteration <= mm'.iteration
      BY <1>1, <2>1, <2>2
    <2>4. \A q \in Run : /\ run'[q].at = "table" /\ run'[q].iteration = mm'.iteration
      BY <1>1 DEF SingleRun
    <2>5. /\ \A w \in Worker : worker'[w].at # "idle" =>
                worker'[w].iteration <= itm'[worker'[w].ba].iteration
          /\ \A n \in DOMAIN jobs' : jobs'[n].kind = "to_tmp" =>
                \E b \in BA : jobs'[n].bas = {b} /\ jobs'[n].iteration <= itm'[b].iteration
      BY <1>1 DEF TaskInv, Numbered
    <2> QED  BY <2>2, <2>3, <2>4, <2>5 DEF Numbered
  <1>5. Phases'
    <2>1. \A b \in BA : itm'[b].state \notin Open
      BY <1>1 DEF TaskInv, Phases
    <2> QED  BY <1>1, <2>1 DEF Phases, SingleRun
  <1> QED  BY <1>3, <1>4, <1>5 DEF TaskInv

LEMMA RunTasks ==
    ASSUME TypeOK, TypeOK', TaskInv, SingleRun, NEW r \in Run,
           \/ GeneralRecovery(r) \/ RecoveryAction(r) \/ CatchFails(r) \/ RunFails(r)
           \/ IterationAction(r) \/ InsertCopyJobFails(r)
    PROVE  TaskInv'
  <1>1. CASE Catch(r)
    BY <1>1, CatchTasks
  <1>2. CASE (IterationAction(r) \/ InsertCopyJobFails(r)) /\ ~Catch(r)
    BY <1>2, IterationSteps, IterationPhases, SameTasks, KeepsTasks DEF TaskInv
  <1>3. CASE GeneralRecovery(r) \/ RecoveryAction(r) \/ CatchFails(r) \/ RunFails(r)
    BY <1>3, RecoverySteps, RecoveryPhases, NoneInserted, SameTasks, KeepsTasks DEF TaskInv
  <1> QED  BY <1>1, <1>2, <1>3

-----------------------------------------------------------------------------
(* The steps at one account.                                               *)

LEMMA VisitSteps ==
    ASSUME TypeOK, Numbered, SingleRun, NEW r \in Run, NEW step, NEW b \in BA,
           Visits(r, step, b)
    PROVE  NoNewAttempt /\ WorkersKept /\ RunsKept /\ mm'.iteration = mm.iteration
  <1>1. NoNewAttempt /\ WorkersKept /\ mm'.iteration = mm.iteration
    BY VisitsParts, NoneInserted DEF WorkersKept
  <1>2. RunsKept
    BY VisitsParts DEF RunsKept, SingleRun, Numbered
  <1> QED  BY <1>1, <1>2

LEMMA VisitPhases ==
    ASSUME TypeOK, TypeOK', TaskInv, SingleRun, NEW r \in Run, NEW step, NEW b \in BA,
           Visits(r, step, b), SameSegments,
           \A a \in BA \ {b} : itm'[a].state = itm[a].state,
           \/ step \in Unsaid
           \/ step \in {"update", "create", "wait"} /\ itm'[b].state = itm[b].state
           \/ step \in {"create", "wait"} /\ itm'[b].state = "failed"
           \/ step = "wait" /\ itm'[b].state = "verified"
           \/ step = "single" /\ itm'[b].state \in {"failed", "done"}
    PROVE  Phases'
  <1>1. /\ run[r].at = step /\ run'[r].at = step /\ run'[r].job = run[r].job
        /\ run'[r].toFail = run[r].toFail
        /\ run'[r].todo = run[r].todo \ {b} /\ UNCHANGED jobs
    BY VisitsParts
  <1>t. run[r].todo \subseteq BA
    BY DEF TypeOK, RunRec
  <1>2. CASE step \in Unsaid
    BY <1>1, <1>2 DEF Phases, SingleRun, Unsaid
  <1>3. CASE step = "update" /\ itm'[b].state = itm[b].state
    <2>1. \A a \in BA : itm'[a].state = itm[a].state
      BY <1>3
    <2> QED  BY <1>1, <1>3, <2>1 DEF Phases, SingleRun, TaskInv
  <1>4. CASE step = "create" /\ (itm'[b].state = itm[b].state \/ itm'[b].state = "failed")
    <2>1. \A a \in BA : itm'[a].state \notin {"verified", "notified"}
      BY <1>1, <1>4 DEF Phases, TaskInv
    <2> QED  BY <1>1, <1>4, <2>1 DEF Phases, SingleRun
  <1>5. CASE /\ step = "wait"
             /\ itm'[b].state = itm[b].state \/ itm'[b].state \in {"failed", "verified"}
    <2>1. \A a \in BA : itm'[a].state # "notified"
      BY <1>1, <1>5 DEF Phases, TaskInv
    <2>2. ASSUME NEW a \in run'[r].todo
          PROVE  /\ itm'[a].state \in {"pending", "running", "failed"}
                 /\ run'[r].job[a] # 0 => CopyOf(run[r].job[a], a, itm[a].iteration)'
      <3>1. a \in BA \ {b} /\ a \in run[r].todo
        BY <1>1, <1>t
      <3>2. PICK k, i : k = run[r].job[a] /\ i = itm[a].iteration
        OBVIOUS
      <3>3. k = run'[r].job[a] /\ i = itm'[a].iteration
        BY <1>1, <3>1, <3>2 DEF SameSegments
      <3>4. itm[a].state \in {"pending", "running", "failed"} /\ (k # 0 => CopyOf(k, a, i))
        BY <1>1, <1>5, <3>1, <3>2 DEF Phases, TaskInv
      <3> QED  BY <1>1, <3>1, <3>3, <3>4 DEF CopyOf
    <2> QED  BY <1>1, <1>5, <2>1, <2>2 DEF Phases, SingleRun
  <1>6. CASE step = "single" /\ itm'[b].state \in {"failed", "done"}
    <2>1. \A a \in BA : /\ itm'[a].state \in Open => a \in run'[r].todo
                        /\ itm'[a].state \in {"pending", "running"} => a \in run'[r].toFail
      BY <1>1, <1>6 DEF Phases, TaskInv, Open
    <2> QED  BY <1>1, <1>6, <2>1 DEF Phases, SingleRun
  <1> QED  BY <1>2, <1>3, <1>4, <1>5, <1>6

LEMMA SetsTasks ==
    ASSUME TypeOK, TypeOK', TaskInv, SingleRun, NEW r \in Run, NEW step, NEW b \in BA,
           NEW state, Sets(r, step, b, state),
           state \in {"pending", "running", "verified"} => state = itm[b].state,
           \/ step \in Unsaid
           \/ step \in {"create", "wait"} /\ state = "failed"
           \/ step = "single" /\ state \in {"failed", "done"}
    PROVE  TaskInv'
  <1>1. SameSegments /\ StatesKept /\ \A a \in BA \ {b} : itm'[a].state = itm[a].state
    BY SetsParts DEF SameSegments, StatesKept
  <1>2. Visits(r, step, b)
    BY DEF Sets
  <1>3. itm'[b].state = state
    BY SetsParts
  <1>4. Phases'
    BY <1>1, <1>2, <1>3, VisitPhases
  <1> QED  BY <1>1, <1>2, <1>4, VisitSteps, KeepsTasks DEF TaskInv

\* The task stays as it is.
LEMMA PassesTasks ==
    ASSUME TypeOK, TypeOK', TaskInv, SingleRun, NEW r \in Run, NEW step, NEW b \in BA,
           Visits(r, step, b), UNCHANGED itm,
           step \in {"update", "create", "wait"} \/ step \in Unsaid
    PROVE  TaskInv'
  <1>1. SameSegments /\ StatesKept /\ \A a \in BA \ {b} : itm'[a].state = itm[a].state
    BY DEF SameSegments, StatesKept
  <1>2. Phases'
    BY <1>1, VisitPhases
  <1> QED  BY <1>1, <1>2, VisitSteps, KeepsTasks DEF TaskInv

LEMMA UpdateTasks ==
    ASSUME TypeOK, TypeOK', TaskInv, SingleRun, NEW r \in Run, NEW b \in BA,
           UpdateTaskMetadata(r, b)
    PROVE  TaskInv'
  <1>1. /\ run[r].at = "update" /\ run'[r].at = "update" /\ b \in run[r].todo
        /\ run'[r].iteration = run[r].iteration /\ run'[r].todo = run[r].todo \ {b}
        /\ UNCHANGED <<newest, mm, worker, jobs>>
    BY VisitsParts DEF UpdateTaskMetadata
  <1>2. run[r].iteration = mm.iteration /\ itm[b].iteration < mm.iteration
    BY <1>1 DEF TaskInv, Numbered, OfIteration
  <1>t. itm[b] \in Itm /\ mm.iteration \in Nat /\ newest[b] \in Nat /\ itm[b].iteration \in Nat
    BY TaskParts
  <1>3. itm[b].state \notin Open
    BY <1>1 DEF TaskInv, Phases
  <1>4. itm'[b] = UpdatedTask(itm[b], run[r].iteration, newest[b])
    BY DEF UpdateTaskMetadata, TypeOK
  <1>5. \A a \in BA \ {b} : itm'[a] = itm[a]
    BY DEF UpdateTaskMetadata, TypeOK
  <1>6. /\ itm'[b].iteration = mm.iteration
        /\ itm'[b].state \notin {"running", "verified", "notified", "failed"}
        /\ itm'[b].state = "pending" => itm'[b].job = 0
    BY <1>2, <1>3, <1>4, <1>t, UpdatedParts
  <1>7. \A w \in Worker : ~Busy(w, b, mm.iteration)
    <2>1. \A w \in Worker : worker[w].iteration \in Nat
      BY WorkerParts
    <2> QED  BY <1>2, <1>t, <2>1 DEF TaskInv, Numbered, Busy
  <1>8. \A n : ~CopyOf(n, b, mm.iteration)
    <2> SUFFICES ASSUME NEW n, CopyOf(n, b, mm.iteration) PROVE FALSE
      OBVIOUS
    <2>1. PICK a \in BA : jobs[n].bas = {a} /\ jobs[n].iteration <= itm[a].iteration
      BY DEF CopyOf, TaskInv, Numbered
    <2> QED  BY <1>2, <1>t, <2>1 DEF CopyOf
  <1>9. PICK k \in Nat : k = mm.iteration
    BY <1>t
  <1>10. Numbered'
    <2>1. \A a \in BA : itm[a].iteration <= mm.iteration /\ itm[a].iteration \in Nat
      BY TaskParts DEF TaskInv, Numbered
    <2>2. \A a \in BA : itm[a].iteration <= itm'[a].iteration /\ itm'[a].iteration <= mm'.iteration
      BY <1>1, <1>2, <1>5, <1>6, <1>t, <2>1
    <2>3. \A a \in BA : itm'[a].iteration \in Nat
      BY DEF TypeOK, Itm
    <2>4. \A q \in Run :
             /\ run'[q].at = "update" /\ run'[q].iteration = mm'.iteration
             /\ \A a \in run'[q].todo : itm'[a].iteration < mm'.iteration
      <3>1. run[r].todo \subseteq BA
        BY DEF TypeOK, RunRec
      <3> QED  BY <1>1, <1>2, <1>5, <3>1 DEF SingleRun, TaskInv, Numbered
    <2>5. \A w \in Worker : worker'[w].at # "idle" =>
             worker'[w].iteration <= itm'[worker'[w].ba].iteration
      <3>1. \A w \in Worker : worker[w].iteration \in Nat /\ worker[w].ba \in BA
        BY WorkerParts
      <3>2. \A w \in Worker : worker[w].at # "idle" =>
               worker[w].iteration <= itm[worker[w].ba].iteration
        BY DEF TaskInv, Numbered
      <3> QED  BY <1>1, <2>1, <2>2, <2>3, <3>1, <3>2
    <2>6. \A n \in DOMAIN jobs' : jobs'[n].kind = "to_tmp" =>
             \E a \in BA : jobs'[n].bas = {a} /\ jobs'[n].iteration <= itm'[a].iteration
      <3>1. \A n \in DOMAIN jobs : jobs[n].iteration \in Nat
        BY JobTypes
      <3>2. \A n \in DOMAIN jobs : jobs[n].kind = "to_tmp" =>
               \E a \in BA : jobs[n].bas = {a} /\ jobs[n].iteration <= itm[a].iteration
        BY DEF TaskInv, Numbered
      <3> QED  BY <1>1, <2>1, <2>2, <2>3, <3>1, <3>2
    <2> QED  BY <2>2, <2>4, <2>5, <2>6 DEF Numbered
  <1>11. Attempts'
    <2>1. \A v, w \in Worker, a \in BA : \A i \in Nat : Busy(v, a, i)' /\ Busy(w, a, i)' => v = w
      BY <1>1 DEF Busy, TaskInv, Attempts
    <2>2. \A a \in BA : \A i \in Nat : \A m, n \in DOMAIN jobs' :
             CopyOf(m, a, i)' /\ CopyOf(n, a, i)' => m = n
      BY <1>1 DEF CopyOf, TaskInv, Attempts
    <2>3. ASSUME NEW w \in Worker
          PROVE  /\ worker'[w].at = "begun" =>
                       \A n \in DOMAIN jobs' : ~CopyOf(n, worker[w].ba, worker[w].iteration)'
                 /\ worker'[w].at = "inserted" =>
                       CopyOf(worker[w].job, worker[w].ba, worker[w].iteration)'
      BY <1>1 DEF CopyOf, TaskInv, Attempts
    <2>4. ASSUME NEW w \in Worker, worker'[w].at = "begun",
                 worker'[w].iteration = itm'[worker'[w].ba].iteration
          PROVE  /\ worker'[w].start = itm'[worker'[w].ba].start
                 /\ worker'[w].end = itm'[worker'[w].ba].end
      <3>1. worker[w].ba # b
        BY <1>1, <1>6, <1>7, <2>4 DEF Busy
      <3> QED  BY <1>1, <1>5, <2>4, <3>1, WorkerParts DEF TaskInv, Attempts
    <2>5. ASSUME NEW a \in BA, NEW n \in DOMAIN jobs', CopyOf(n, a, itm[a].iteration)'
          PROVE  jobs'[n].start = itm'[a].start /\ jobs'[n].end = itm'[a].end
      <3>1. a # b
        BY <1>1, <1>6, <1>8, <2>5 DEF CopyOf
      <3> QED  BY <1>1, <1>5, <2>5, <3>1 DEF TaskInv, Attempts, CopyOf
    <2> QED  BY <2>1, <2>2, <2>3, <2>4, <2>5 DEF Attempts
  <1>12. Attempted'
    <2>1. ASSUME NEW a \in BA, a # b
          PROVE  /\ itm'[a].state = "pending" =>
                       /\ \A w \in Worker : ~Busy(w, a, itm[a].iteration)'
                       /\ \A n \in DOMAIN jobs' : ~CopyOf(n, a, itm[a].iteration)'
                 /\ itm'[a].state \in {"pending", "running"} /\ itm'[a].job # 0 =>
                       CopyOf(itm[a].job, a, itm[a].iteration)'
                 /\ itm'[a].state = "verified" => \E n \in DOMAIN jobs' :
                       CopyOf(n, a, itm[a].iteration)' /\ jobs'[n].status = "done"
      BY <1>1, <1>5, <2>1 DEF TaskInv, Attempted, CopyOf, Busy
    <2>2. /\ \A w \in Worker : ~Busy(w, b, itm[b].iteration)'
          /\ \A n \in DOMAIN jobs' : ~CopyOf(n, b, itm[b].iteration)'
      BY <1>1, <1>6, <1>7, <1>8 DEF Busy, CopyOf
    <2> QED  BY <1>6, <2>1, <2>2 DEF Attempted
  <1>13. Phases'
    <2>1. \A a \in BA : /\ itm'[a].state \notin Open \ {"pending", "running"}
                        /\ a \in run'[r].todo => itm'[a].state \notin Open
      BY <1>1, <1>5, <1>6 DEF TaskInv, Phases, Open
    <2> QED  BY <1>1, <2>1 DEF Phases, SingleRun
  <1> QED  BY <1>10, <1>11, <1>12, <1>13 DEF TaskInv

LEMMA HandledTasks ==
    ASSUME TypeOK, TypeOK', TaskInv, SingleRun, NEW r \in Run, NEW b \in BA, JobHandled(r, b)
    PROVE  TaskInv'
  <1> DEFINE s == IF jobs[run[r].job[b]].status = "done" THEN "verified" ELSE "failed"
  <1>1. run[r].job[b] # 0 /\ Sets(r, "wait", b, s)
    BY DEF JobHandled
  <1>2. CASE s = "failed"
    BY <1>1, <1>2, SetsTasks
  <1>3. CASE s = "verified"
    <2>1. Sets(r, "wait", b, "verified") /\ jobs[run[r].job[b]].status = "done"
      BY <1>1, <1>3
    <2>2. Visits(r, "wait", b)
      BY <2>1 DEF Sets
    <2>3. /\ SameSegments /\ \A a \in BA \ {b} : itm'[a] = itm[a]
          /\ itm'[b].state = "verified"
      BY <2>1, SetsParts DEF SameSegments
    <2>4. Phases'
      BY <2>2, <2>3, VisitPhases
    <2>5. NoNewAttempt /\ WorkersKept /\ RunsKept /\ mm'.iteration = mm.iteration
      BY <2>2, VisitSteps DEF TaskInv
    <2>6. Numbered' /\ Attempts'
      BY <2>3, <2>5, NumberedKept, AttemptsKept DEF TaskInv
    <2>7. run[r].at = "wait" /\ b \in run[r].todo /\ UNCHANGED <<jobs, worker>>
      BY <2>2, VisitsParts
    <2>8. CopyOf(run[r].job[b], b, itm[b].iteration)
      BY <1>1, <2>7 DEF TaskInv, Phases
    <2>9. Attempted'
      <3>1. \A a \in BA \ {b} :
               /\ itm'[a].state = "pending" =>
                     /\ \A w \in Worker : ~Busy(w, a, itm[a].iteration)'
                     /\ \A n \in DOMAIN jobs' : ~CopyOf(n, a, itm[a].iteration)'
               /\ itm'[a].state \in {"pending", "running"} /\ itm'[a].job # 0 =>
                     CopyOf(itm[a].job, a, itm[a].iteration)'
               /\ itm'[a].state = "verified" => \E n \in DOMAIN jobs' :
                     CopyOf(n, a, itm[a].iteration)' /\ jobs'[n].status = "done"
        BY <2>3, <2>7 DEF TaskInv, Attempted, CopyOf, Busy
      <3>2. \E n \in DOMAIN jobs' : CopyOf(n, b, itm[b].iteration)' /\ jobs'[n].status = "done"
        BY <2>1, <2>3, <2>7, <2>8 DEF CopyOf, SameSegments
      <3> QED  BY <2>3, <3>1, <3>2 DEF Attempted
    <2> QED  BY <2>4, <2>6, <2>9 DEF TaskInv
  <1> QED  BY <1>2, <1>3

LEMMA StartsTasks ==
    ASSUME TypeOK, TypeOK', TaskInv, SingleRun, NEW r \in Run, NEW b \in BA, JobStarts(r, b)
    PROVE  TaskInv'
  <1>1. /\ run[r].at = "wait" /\ b \in run[r].todo /\ run'[r].at = "wait"
        /\ run'[r].todo = run[r].todo /\ run'[r].iteration = run[r].iteration
        /\ run'[r].job = [run[r].job EXCEPT ![b] = itm[b].job]
        /\ itm[b].state # "failed" /\ itm[b].job # 0
        /\ UNCHANGED <<mm, itm, worker, jobs>>
    BY DEF JobStarts, TypeOK, RunRec, workVars
  <1>2. CopyOf(itm[b].job, b, itm[b].iteration)
    BY <1>1 DEF TaskInv, Phases, Attempted
  <1>3. RunsKept
    BY <1>1 DEF RunsKept, SingleRun, TaskInv, Numbered
  <1>4. Numbered' /\ Attempts' /\ Attempted'
    BY <1>1, <1>3, SameTasks, NoneInserted, KeepsTasks
  <1>5. Phases'
    <2>1. run[r].todo \subseteq BA /\ run[r].job \in [BA -> Nat]
      BY DEF TypeOK, RunRec
    <2>2. ASSUME NEW a \in run[r].todo
          PROVE  /\ itm[a].state \in {"pending", "running", "failed"}
                 /\ run'[r].job[a] # 0 => CopyOf(run[r].job[a], a, itm[a].iteration)'
      <3>1. CASE a = b
        <4>1. run'[r].job[b] = itm[b].job
          BY <1>1, <2>1
        <4> QED  BY <1>1, <1>2, <3>1, <4>1 DEF CopyOf, TaskInv, Phases
      <3>2. CASE a # b
        <4>1. run'[r].job[a] = run[r].job[a] /\ a \in BA
          BY <1>1, <2>1, <3>2
        <4> QED  BY <1>1, <4>1 DEF CopyOf, TaskInv, Phases
      <3> QED  BY <3>1, <3>2
    <2>3. \A a \in BA : itm[a].state # "notified"
      BY <1>1 DEF TaskInv, Phases
    <2> QED  BY ZenonT(60), <1>1, <2>2, <2>3 DEF Phases, SingleRun
  <1> QED  BY <1>4, <1>5 DEF TaskInv

LEMMA AccountTasks ==
    ASSUME TypeOK, TypeOK', TaskInv, SingleRun, NEW r \in Run, NEW b \in BA,
           \/ TaskAction(r, b) \/ CreateCloudTaskFails(r, b) \/ WaitFails(r, b) \/ VisitFails(r, b)
    PROVE  TaskInv'
  <1> USE DEF Unsaid
  <1>1. CASE MarkTaskAsFailed(r, b)
    BY <1>1, StepNames, SetsTasks DEF MarkTaskAsFailed
  <1>2. CASE SingleRecovery(r, b)
    BY <1>2, SetsTasks DEF SingleRecovery
  <1>3. CASE UpdateTaskMetadata(r, b)
    BY <1>3, UpdateTasks
  <1>4. CASE CreateCloudTask(r, b)
    BY <1>4, PassesTasks DEF CreateCloudTask
  <1>5. CASE JobStarts(r, b)
    BY <1>5, StartsTasks
  <1>6. CASE JobDoesNotStart(r, b)
    BY <1>6, SetsTasks DEF JobDoesNotStart
  <1>7. CASE JobHandled(r, b)
    BY <1>7, HandledTasks
  <1>8. CASE NotifyTask(r, b)
    BY <1>8, StepNames, SetsTasks DEF NotifyTask
  <1>9. CASE SettleTask(r, b)
    BY <1>9, StepNames, SetsTasks DEF SettleTask
  <1>10. CASE CreateCloudTaskFails(r, b)
    BY <1>10, SetsTasks DEF CreateCloudTaskFails
  <1>11. CASE WaitFails(r, b)
    BY <1>11, SetsTasks DEF WaitFails
  <1>12. CASE VisitFails(r, b)
    BY <1>12, StepNames, PassesTasks DEF VisitFails
  <1> QED  BY <1>1, <1>2, <1>3, <1>4, <1>5, <1>6, <1>7, <1>8, <1>9, <1>10, <1>11, <1>12
           DEF TaskAction

-----------------------------------------------------------------------------
(* The steps of deliveries, the clock and BigQuery.                        *)

LEMMA SameRunsKept ==
    ASSUME TypeOK, Numbered, UNCHANGED run, mm'.iteration = mm.iteration
    PROVE  RunsKept
  BY DEF RunsKept, Numbered

LEMMA DriftTasks ==
    ASSUME TypeOK, TypeOK', TaskInv, NoNewAttempt, WorkersKept, TasksDrift, StatesKept,
           UNCHANGED run, mm'.iteration = mm.iteration
    PROVE  TaskInv'
  <1>1. Numbered' /\ Attempts' /\ Attempted'
    BY SameRunsKept, KeepsTasks DEF TaskInv, TasksDrift
  <1>2. Phases'
    BY SameAttempts, PhasesKept DEF TaskInv
  <1> QED  BY <1>1, <1>2 DEF TaskInv

LEMMA RunningTasks ==
    ASSUME TypeOK, TypeOK', TaskInv, NEW w \in Worker, NEW t \in tasks, SetRunning(w, t)
    PROVE  TaskInv'
  <1>1. PICK b \in BA, i \in Nat : b = t.ba /\ i = t.iteration
    BY DEF TypeOK, CloudTask
  <1>2. /\ worker[w].at = "idle" /\ itm[b].state = "pending" /\ itm[b].iteration = i
        /\ UNCHANGED <<mm, run, jobs>>
    BY <1>1 DEF SetRunning
  <1>3. /\ itm'[b].state = "running" /\ itm'[b].iteration = i /\ itm'[b].job = itm[b].job
        /\ itm'[b].start = itm[b].start /\ itm'[b].end = itm[b].end
        /\ \A a \in BA \ {b} : itm'[a] = itm[a]
    BY <1>1, <1>2 DEF SetRunning, TypeOK, Itm
  <1>4. /\ worker'[w].at = "begun" /\ worker'[w].ba = b /\ worker'[w].iteration = i
        /\ worker'[w].start = itm[b].start /\ worker'[w].end = itm[b].end
        /\ \A v \in Worker \ {w} : worker'[v] = worker[v]
    BY <1>1 DEF SetRunning, TypeOK
  <1>5. (\A v \in Worker : ~Busy(v, b, i)) /\ (\A n \in DOMAIN jobs : ~CopyOf(n, b, i))
    BY <1>2 DEF TaskInv, Attempted
  <1>6. TasksDrift /\ NoNewAttempt
    BY <1>2, <1>3, NoneInserted DEF TasksDrift, SameSegments
  <1>7. Phases'
    BY <1>2, <1>6, SameAttempts, PhasesKept DEF TaskInv
  <1>8. Numbered'
    <2>1. \A a \in BA : itm'[a].iteration = itm[a].iteration
      BY <1>6 DEF TasksDrift, SameSegments
    <2>2. /\ \A a \in BA : itm'[a].iteration <= mm'.iteration
          /\ \A n \in DOMAIN jobs' : jobs'[n].kind = "to_tmp" =>
                \E a \in BA : jobs'[n].bas = {a} /\ jobs'[n].iteration <= itm'[a].iteration
      BY <1>2, <2>1 DEF TaskInv, Numbered
    <2>3. ASSUME NEW v \in Worker, worker'[v].at # "idle"
          PROVE  worker'[v].iteration <= itm'[worker'[v].ba].iteration
      <3>1. CASE v = w
        BY <1>3, <1>4, <3>1
      <3>2. CASE v # w
        BY <1>4, <2>1, <2>3, <3>2, WorkerParts DEF TaskInv, Numbered
      <3> QED  BY <3>1, <3>2
    <2>4. \A q \in Run : run[q].todo \subseteq BA
      BY DEF TypeOK, RunRec
    <2> QED  BY <1>2, <2>1, <2>2, <2>3, <2>4 DEF TaskInv, Numbered
  <1>9. Attempts'
    <2>1. ASSUME NEW v \in Worker, NEW u \in Worker, NEW a \in BA, NEW j \in Nat,
                 Busy(v, a, j)', Busy(u, a, j)'
          PROVE  v = u
      <3>1. CASE v # w /\ u # w
        BY <1>4, <2>1, <3>1 DEF TaskInv, Attempts, Busy
      <3>2. CASE v = w /\ u # w
        BY <1>4, <1>5, <2>1, <3>2 DEF Busy
      <3>3. CASE v # w /\ u = w
        BY <1>4, <1>5, <2>1, <3>3 DEF Busy
      <3> QED  BY <3>1, <3>2, <3>3
    <2>2. \A a \in BA : \A j \in Nat : \A m, n \in DOMAIN jobs' :
             CopyOf(m, a, j)' /\ CopyOf(n, a, j)' => m = n
      BY <1>2 DEF CopyOf, TaskInv, Attempts
    <2>3. ASSUME NEW v \in Worker
          PROVE  /\ worker'[v].at = "begun" =>
                       \A n \in DOMAIN jobs' : ~CopyOf(n, worker[v].ba, worker[v].iteration)'
                 /\ worker'[v].at = "inserted" =>
                       CopyOf(worker[v].job, worker[v].ba, worker[v].iteration)'
      <3>1. CASE v = w
        BY <1>2, <1>4, <1>5, <3>1 DEF CopyOf
      <3>2. CASE v # w
        BY <1>2, <1>4, <3>2 DEF CopyOf, TaskInv, Attempts
      <3> QED  BY <3>1, <3>2
    <2>4. ASSUME NEW v \in Worker, worker'[v].at = "begun",
                 worker'[v].iteration = itm'[worker'[v].ba].iteration
          PROVE  /\ worker'[v].start = itm'[worker'[v].ba].start
                 /\ worker'[v].end = itm'[worker'[v].ba].end
      <3>1. CASE v = w
        BY <1>3, <1>4, <3>1
      <3>2. CASE v # w
        BY <1>4, <1>6, <2>4, <3>2, WorkerParts DEF TaskInv, Attempts, TasksDrift, SameSegments
      <3> QED  BY <3>1, <3>2
    <2>5. \A a \in BA : \A n \in DOMAIN jobs' : CopyOf(n, a, itm[a].iteration)' =>
             jobs'[n].start = itm'[a].start /\ jobs'[n].end = itm'[a].end
      BY <1>2, <1>6 DEF CopyOf, TaskInv, Attempts, TasksDrift, SameSegments
    <2> QED  BY <2>1, <2>2, <2>3, <2>4, <2>5 DEF Attempts
  <1>10. Attempted'
    <2>1. ASSUME NEW a \in BA \ {b}
          PROVE  /\ itm'[a].state = "pending" =>
                       /\ \A v \in Worker : ~Busy(v, a, itm[a].iteration)'
                       /\ \A n \in DOMAIN jobs' : ~CopyOf(n, a, itm[a].iteration)'
                 /\ itm'[a].state \in {"pending", "running"} /\ itm'[a].job # 0 =>
                       CopyOf(itm[a].job, a, itm[a].iteration)'
                 /\ itm'[a].state = "verified" => \E n \in DOMAIN jobs' :
                       CopyOf(n, a, itm[a].iteration)' /\ jobs'[n].status = "done"
      <3>1. \A v \in Worker : Busy(v, a, itm[a].iteration)' => Busy(v, a, itm[a].iteration)
        BY <1>3, <1>4 DEF Busy
      <3>2. \A n : CopyOf(n, a, itm[a].iteration)' <=> CopyOf(n, a, itm[a].iteration)
        BY <1>2, <1>3 DEF CopyOf
      <3>3. CopyOf(itm[a].job, a, itm[a].iteration)' <=> CopyOf(itm[a].job, a, itm[a].iteration)
        BY <1>2, <1>3 DEF CopyOf
      <3> QED  BY <1>2, <1>3, <3>1, <3>2, <3>3 DEF TaskInv, Attempted
    <2>2. itm'[b].job # 0 => CopyOf(itm[b].job, b, itm[b].iteration)'
      BY <1>2, <1>3 DEF TaskInv, Attempted, CopyOf
    <2> QED  BY <1>3, <2>1, <2>2 DEF Attempted
  <1> QED  BY <1>7, <1>8, <1>9, <1>10 DEF TaskInv

LEMMA RecordTasks ==
    ASSUME TypeOK, TypeOK', TaskInv, NEW w \in Worker, RecordJob(w)
    PROVE  TaskInv'
  <1>1. PICK b \in BA, i \in Nat, k \in Nat :
           b = worker[w].ba /\ i = worker[w].iteration /\ k = worker[w].job
    BY WorkerParts
  <1>2. /\ worker[w].at = "inserted" /\ itm[b].iteration = i /\ UNCHANGED <<mm, run, jobs>>
        /\ worker'[w].at = "idle" /\ \A v \in Worker \ {w} : worker'[v] = worker[v]
    BY <1>1 DEF RecordJob, TypeOK, IdleWorker
  <1>3. /\ itm'[b].state = itm[b].state /\ itm'[b].iteration = i /\ itm'[b].job = k
        /\ itm'[b].start = itm[b].start /\ itm'[b].end = itm[b].end
        /\ \A a \in BA \ {b} : itm'[a] = itm[a]
    BY <1>1, <1>2 DEF RecordJob, TypeOK, Itm
  <1>4. TasksDrift /\ NoNewAttempt /\ WorkersKept /\ SameSegments
    BY <1>2, <1>3, NoneInserted DEF TasksDrift, SameSegments, WorkersKept
  <1>5. Phases'
    BY <1>2, <1>4, SameAttempts, PhasesKept DEF TaskInv
  <1>6. Numbered' /\ Attempts'
    BY <1>2, <1>4, SameRunsKept, NumberedKept, AttemptsKept DEF TaskInv
  <1>7. CopyOf(k, b, i)
    BY <1>1, <1>2 DEF TaskInv, Attempts
  <1>8. Attempted'
    <2>1. ASSUME NEW a \in BA
          PROVE  /\ itm'[a].state = "pending" =>
                       /\ \A v \in Worker : ~Busy(v, a, itm[a].iteration)'
                       /\ \A n \in DOMAIN jobs' : ~CopyOf(n, a, itm[a].iteration)'
                 /\ itm'[a].state = "verified" => \E n \in DOMAIN jobs' :
                       CopyOf(n, a, itm[a].iteration)' /\ jobs'[n].status = "done"
      <3>1. \A v \in Worker : Busy(v, a, itm[a].iteration)' => Busy(v, a, itm[a].iteration)
        BY <1>4 DEF Busy, WorkersKept, SameSegments
      <3>2. \A n : CopyOf(n, a, itm[a].iteration)' <=> CopyOf(n, a, itm[a].iteration)
        BY <1>2, <1>4 DEF CopyOf, SameSegments
      <3>3. itm'[a].state = itm[a].state
        BY <1>3
      <3> QED  BY <1>2, <3>1, <3>2, <3>3 DEF TaskInv, Attempted
    <2>2. ASSUME NEW a \in BA, itm'[a].state \in {"pending", "running"}, itm'[a].job # 0
          PROVE  CopyOf(itm[a].job, a, itm[a].iteration)'
      <3>1. CASE a = b
        BY <1>2, <1>3, <1>7, <3>1 DEF CopyOf
      <3>2. CASE a # b
        <4>1. itm'[a] = itm[a]
          BY <1>3, <3>2
        <4> QED  BY <1>2, <2>2, <4>1 DEF TaskInv, Attempted, CopyOf
      <3> QED  BY <3>1, <3>2
    <2> QED  BY <2>1, <2>2 DEF Attempted
  <1> QED  BY <1>5, <1>6, <1>8 DEF TaskInv

\* The delivery of an attempt inserts its job.
LEMMA CopyTasks ==
    ASSUME TypeOK, TypeOK', TaskInv, NEW w \in Worker, CopyFromLocalToTmpTable(w)
    PROVE  TaskInv'
  <1>1. PICK b \in BA, i \in Nat, s \in Nat, e \in Nat :
           b = worker[w].ba /\ i = worker[w].iteration /\ s = worker[w].start /\ e = worker[w].end
    BY WorkerParts
  <1>2. PICK k \in Nat : k = Len(jobs) + 1
    BY JobTypes
  <1>3. worker[w].at = "begun" /\ UNCHANGED <<mm, itm, run>>
    BY DEF CopyFromLocalToTmpTable
  <1>4. /\ jobs' = Append(jobs, [kind |-> "to_tmp", iteration |-> i, bas |-> {b}, start |-> s,
                                 end |-> e, status |-> "running"])
        /\ worker' = [worker EXCEPT ![w].at = "inserted", ![w].job = k]
    BY <1>1, <1>2 DEF CopyFromLocalToTmpTable
  <1>5. /\ DOMAIN jobs' = DOMAIN jobs \cup {k} /\ k \notin DOMAIN jobs
        /\ \A n \in DOMAIN jobs : jobs'[n] = jobs[n]
        /\ jobs'[k] = [kind |-> "to_tmp", iteration |-> i, bas |-> {b}, start |-> s,
                       end |-> e, status |-> "running"]
    BY <1>2, <1>4, JobTypes
  <1>6. /\ worker'[w].at = "inserted" /\ worker'[w].ba = b /\ worker'[w].iteration = i
        /\ worker'[w].job = k /\ \A v \in Worker \ {w} : worker'[v] = worker[v]
    BY <1>1, <1>4, WorkerParts DEF TypeOK, WorkerRec
  <1>7. \A n : \A a, j : CopyOf(n, a, j)' <=> CopyOf(n, a, j) \/ (n = k /\ a = b /\ j = i)
    BY <1>5 DEF CopyOf
  <1>8. \A v \in Worker : \A a, j : Busy(v, a, j)' <=> Busy(v, a, j)
    BY <1>1, <1>3, <1>6 DEF Busy
  <1>9. \A n \in DOMAIN jobs : ~CopyOf(n, b, i)
    BY <1>1, <1>3 DEF TaskInv, Attempts
  <1>10. Busy(w, b, i)
    BY <1>1, <1>3 DEF Busy
  <1>11. SameSegments /\ TasksDrift
    BY <1>3 DEF SameSegments, TasksDrift
  <1>12. Phases'
    BY <1>3, <1>7, <1>11, PhasesKept DEF TaskInv
  <1>13. Numbered'
    <2>1. \A v \in Worker : worker'[v].at # "idle" =>
             worker'[v].iteration <= itm'[worker'[v].ba].iteration
      BY <1>1, <1>3, <1>6 DEF TaskInv, Numbered
    <2>2. \A n \in DOMAIN jobs' : jobs'[n].kind = "to_tmp" =>
             \E a \in BA : jobs'[n].bas = {a} /\ jobs'[n].iteration <= itm'[a].iteration
      BY <1>1, <1>3, <1>5 DEF TaskInv, Numbered
    <2> QED  BY <1>3, <2>1, <2>2 DEF TaskInv, Numbered
  <1>14. Attempts'
    <2>1. \A u, v \in Worker, a \in BA : \A j \in Nat : Busy(u, a, j)' /\ Busy(v, a, j)' => u = v
      BY <1>8 DEF TaskInv, Attempts
    <2>2. \A a \in BA : \A j \in Nat : \A m, n \in DOMAIN jobs' :
             CopyOf(m, a, j)' /\ CopyOf(n, a, j)' => m = n
      BY <1>5, <1>7, <1>9 DEF TaskInv, Attempts, CopyOf
    <2>3. ASSUME NEW v \in Worker
          PROVE  /\ worker'[v].at = "begun" =>
                       \A n \in DOMAIN jobs' : ~CopyOf(n, worker[v].ba, worker[v].iteration)'
                 /\ worker'[v].at = "inserted" =>
                       CopyOf(worker[v].job, worker[v].ba, worker[v].iteration)'
      <3>1. CASE v = w
        BY <1>5, <1>6, <3>1 DEF CopyOf
      <3>2. CASE v # w
        <4>1. PICK a \in BA, j \in Nat, m \in Nat :
                 a = worker[v].ba /\ j = worker[v].iteration /\ m = worker[v].job
          BY WorkerParts
        <4>2. worker'[v] = worker[v]
          BY <1>6, <3>2
        <4>3. worker[v].at = "begun" => ~(a = b /\ j = i)
          BY <1>1, <1>10, <3>2, <4>1 DEF TaskInv, Attempts, Busy
        <4>4. /\ worker[v].at = "begun" => \A n \in DOMAIN jobs : ~CopyOf(n, a, j)
              /\ worker[v].at = "inserted" => CopyOf(m, a, j)
          BY <4>1 DEF TaskInv, Attempts
        <4>5. /\ worker[v].at = "begun" => \A n \in DOMAIN jobs' : ~CopyOf(n, a, j)'
              /\ worker[v].at = "inserted" => CopyOf(m, a, j)'
          <5>1. ASSUME worker[v].at = "begun", NEW n \in DOMAIN jobs'  PROVE ~CopyOf(n, a, j)'
            BY <1>5, <1>7, <4>3, <4>4, <5>1 DEF CopyOf
          <5>2. worker[v].at = "inserted" => CopyOf(m, a, j)'
            BY <1>7, <4>4
          <5> QED  BY <5>1, <5>2
        <4> QED  BY <4>1, <4>2, <4>5 DEF CopyOf
      <3> QED  BY <3>1, <3>2
    <2>4. ASSUME NEW v \in Worker, worker'[v].at = "begun",
                 worker'[v].iteration = itm'[worker'[v].ba].iteration
          PROVE  /\ worker'[v].start = itm'[worker'[v].ba].start
                 /\ worker'[v].end = itm'[worker'[v].ba].end
      <3>1. v # w
        BY <1>6, <2>4
      <3> QED  BY <1>3, <1>6, <2>4, <3>1 DEF TaskInv, Attempts
    <2>5. ASSUME NEW a \in BA, NEW n \in DOMAIN jobs', CopyOf(n, a, itm[a].iteration)'
          PROVE  jobs'[n].start = itm'[a].start /\ jobs'[n].end = itm'[a].end
      <3>1. CASE n = k
        <4>1. a = b /\ itm[a].iteration = i
          BY <1>3, <1>5, <2>5, <3>1 DEF CopyOf
        <4> QED  BY <1>1, <1>3, <1>5, <3>1, <4>1 DEF TaskInv, Attempts
      <3>2. CASE n # k
        BY <1>3, <1>5, <2>5, <3>2 DEF TaskInv, Attempts, CopyOf
      <3> QED  BY <3>1, <3>2
    <2> QED  BY <2>1, <2>2, <2>3, <2>4, <2>5 DEF Attempts
  <1>15. Attempted'
    <2> SUFFICES ASSUME NEW a \in BA
                 PROVE  /\ itm[a].state = "pending" =>
                              /\ \A v \in Worker : ~Busy(v, a, itm[a].iteration)'
                              /\ \A n \in DOMAIN jobs' : ~CopyOf(n, a, itm[a].iteration)'
                        /\ itm[a].state \in {"pending", "running"} /\ itm[a].job # 0 =>
                              CopyOf(itm[a].job, a, itm[a].iteration)'
                        /\ itm[a].state = "verified" => \E n \in DOMAIN jobs' :
                              CopyOf(n, a, itm[a].iteration)' /\ jobs'[n].status = "done"
      BY <1>3 DEF Attempted
    <2>1. PICK j \in Nat, m \in Nat : j = itm[a].iteration /\ m = itm[a].job
      BY TaskParts
    <2>2. /\ itm[a].state = "pending" => /\ \A v \in Worker : ~Busy(v, a, j)
                                         /\ \A n \in DOMAIN jobs : ~CopyOf(n, a, j)
          /\ itm[a].state \in {"pending", "running"} /\ m # 0 => CopyOf(m, a, j)
          /\ itm[a].state = "verified" => \E n \in DOMAIN jobs :
                CopyOf(n, a, j) /\ jobs[n].status = "done"
      BY <2>1 DEF TaskInv, Attempted
    <2>3. itm[a].state = "pending" => ~(a = b /\ j = i)
      BY <1>10, <2>2
    <2>4. /\ itm[a].state = "pending" => /\ \A v \in Worker : ~Busy(v, a, j)'
                                         /\ \A n \in DOMAIN jobs' : ~CopyOf(n, a, j)'
          /\ itm[a].state \in {"pending", "running"} /\ m # 0 => CopyOf(m, a, j)'
          /\ itm[a].state = "verified" => \E n \in DOMAIN jobs' :
                CopyOf(n, a, j)' /\ jobs'[n].status = "done"
      <3>1. ASSUME itm[a].state = "pending"
            PROVE  /\ \A v \in Worker : ~Busy(v, a, j)'
                   /\ \A n \in DOMAIN jobs' : ~CopyOf(n, a, j)'
        <4>1. (\A v \in Worker : ~Busy(v, a, j)) /\ \A n : ~CopyOf(n, a, j)
          BY <2>2, <3>1 DEF CopyOf
        <4> QED  BY <1>7, <1>8, <2>3, <3>1, <4>1
      <3>2. itm[a].state \in {"pending", "running"} /\ m # 0 => CopyOf(m, a, j)'
        BY <1>7, <2>2
      <3>3. ASSUME itm[a].state = "verified"
            PROVE  \E n \in DOMAIN jobs' : CopyOf(n, a, j)' /\ jobs'[n].status = "done"
        <4>1. PICK n \in DOMAIN jobs : CopyOf(n, a, j) /\ jobs[n].status = "done"
          BY <2>2, <3>3
        <4>2. n \in DOMAIN jobs' /\ CopyOf(n, a, j)' /\ jobs'[n].status = "done"
          BY <1>5, <1>7, <4>1
        <4> QED  BY <4>2
      <3> QED  BY <3>1, <3>2, <3>3
    <2>5. j = itm'[a].iteration /\ m = itm'[a].job
      BY <1>3, <2>1
    <2> QED  BY <2>1, <2>4, <2>5 DEF Busy, CopyOf
  <1> QED  BY <1>12, <1>13, <1>14, <1>15 DEF TaskInv

LEMMA WorkerTasks ==
    ASSUME TypeOK, TypeOK', TaskInv, NEW w \in Worker, WorkerAction(w)
    PROVE  TaskInv'
  <1>1. CASE \E t \in tasks : SetRunning(w, t)
    BY <1>1, RunningTasks
  <1>2. CASE CopyFromLocalToTmpTable(w)
    BY <1>2, CopyTasks
  <1>3. CASE CopyFromLocalToTmpTableFails(w)
    <2>1. PICK b \in BA : b = worker[w].ba
      BY WorkerParts
    <2>2. UNCHANGED <<mm, run, jobs>> /\ itm' = [itm EXCEPT ![b].state = "failed"]
      BY <1>3, <2>1 DEF CopyFromLocalToTmpTableFails
    <2>3. TasksDrift /\ StatesKept
      BY ZenonT(90), <2>2 DEF TasksDrift, SameSegments, StatesKept, TypeOK, Itm
    <2>4. WorkersKept
      BY <1>3 DEF CopyFromLocalToTmpTableFails, WorkersKept, TypeOK, IdleWorker
    <2> QED  BY <2>2, <2>3, <2>4, NoneInserted, DriftTasks
  <1>4. CASE RecordJob(w)
    BY <1>4, RecordTasks
  <1>5. CASE WorkerEnds(w)
    <2>1. UNCHANGED <<mm, itm, run, jobs>>
      BY <1>5 DEF WorkerEnds
    <2>2. TasksDrift /\ StatesKept
      BY <2>1 DEF TasksDrift, SameSegments, StatesKept
    <2>3. WorkersKept
      BY <1>5 DEF WorkerEnds, WorkersKept, TypeOK, IdleWorker
    <2> QED  BY <2>1, <2>2, <2>3, NoneInserted, DriftTasks
  <1> QED  BY <1>1, <1>2, <1>3, <1>4, <1>5 DEF WorkerAction

LEMMA EnvironmentTasks ==
    ASSUME TypeOK, TypeOK', TaskInv, Environment
    PROVE  TaskInv'
  <1> USE DEF workVars
  <1>n. UNCHANGED itm => TasksDrift
    BY DEF TasksDrift, SameSegments
  <1>w. UNCHANGED worker => WorkersKept
    BY DEF WorkersKept
  <1>1. CASE TTLExpires \/ RecoveringTTLExpires
    <2>1. mm'.iteration = mm.iteration /\ UNCHANGED <<run, itm, worker, jobs>>
      BY <1>1 DEF TTLExpires, RecoveringTTLExpires, TypeOK, Manager
    <2> QED  BY <1>n, <2>1, SameTasks, NoneInserted, DriftTasks
  <1>2. ASSUME NEW b \in BA, RecordsArrive(b)  PROVE TaskInv'
    BY <1>2, <1>n, SameTasks, NoneInserted, DriftTasks DEF RecordsArrive
  <1>3. ASSUME NEW b \in BA, MarkOnboardingDone(b)  PROVE TaskInv'
    <2>1. /\ itm[b].state = "onboarding" /\ UNCHANGED <<mm, run, worker, jobs>>
          /\ itm' = [itm EXCEPT ![b].state = "initializing"]
      BY <1>3 DEF MarkOnboardingDone
    <2>2. TasksDrift /\ StatesKept
      BY ZenonT(60), <2>1 DEF TasksDrift, SameSegments, StatesKept, TypeOK, Itm
    <2> QED  BY <1>w, <2>1, <2>2, NoneInserted, DriftTasks
  <1>4. ASSUME NEW b \in BA, DeadlinePasses(b)  PROVE TaskInv'
    <2>1. /\ UNCHANGED <<mm, run, jobs>> /\ itm' = [itm EXCEPT ![b].late = TRUE]
      BY <1>4 DEF DeadlinePasses
    <2>2. TasksDrift /\ StatesKept
      BY ZenonT(90), <2>1 DEF TasksDrift, SameSegments, StatesKept, TypeOK, Itm
    <2>3. WorkersKept
      BY <1>4 DEF DeadlinePasses, WorkersKept, TypeOK, WorkerRec
    <2> QED  BY <2>1, <2>2, <2>3, NoneInserted, DriftTasks
  <1>5. ASSUME NEW n \in DOMAIN jobs, JobFinishes(n)  PROVE TaskInv'
    <2>1. UNCHANGED <<mm, itm, run, worker>>
      BY SMTT(40), <1>5 DEF JobFinishes
    <2> QED  BY <1>5, <1>n, <2>1, SameTasks, FinishesAttempt, DriftTasks
  <1> QED  BY <1>1, <1>2, <1>3, <1>4, <1>5 DEF Environment

LEMMA SameIsSame ==
    ASSUME TaskInv, UNCHANGED vars
    PROVE  TaskInv'
  BY SMTT(40) DEF TaskInv, Numbered, Attempts, Attempted, Phases, CopyOf, Busy, vars

LEMMA InitTasks == Init => TaskInv
  <1> SUFFICES ASSUME Init PROVE TaskInv
    OBVIOUS
  <1>1. /\ \A b \in BA : itm[b].iteration = 0 /\ itm[b].state = "onboarding"
        /\ mm.iteration = 0 /\ jobs = <<>>
        /\ \A r \in Run : run[r].at = "idle"
        /\ \A w \in Worker : worker[w].at = "idle"
    BY DEF Init, IdleRun, IdleWorker
  <1>2. Numbered
    BY <1>1 DEF Numbered, Recovering, OfIteration, Failing
  <1>3. Attempts
    BY <1>1 DEF Attempts, Busy, CopyOf
  <1>4. Attempted /\ Phases
    BY <1>1 DEF Attempted, Phases
  <1> QED  BY <1>2, <1>3, <1>4 DEF TaskInv

LEMMA StepTasks ==
    ASSUME SingleRun, TypeOK, TaskInv, [Next]_vars
    PROVE  TaskInv'
  <1>t. TypeOK'
    BY StepTypes
  <1>1. CASE UNCHANGED vars
    BY <1>1, SameIsSame
  <1>2. ASSUME NEW r \in Run, Works(r)  PROVE TaskInv'
    BY <1>t, <1>2, RunTasks, AccountTasks DEF Works
  <1>3. ASSUME NEW r \in Run, Falters(r)  PROVE TaskInv'
    BY <1>t, <1>3, RunTasks, AccountTasks DEF Falters
  <1>4. ASSUME NEW w \in Worker, WorkerAction(w)  PROVE TaskInv'
    BY <1>t, <1>4, WorkerTasks
  <1>5. CASE Environment
    BY <1>t, <1>5, EnvironmentTasks
  <1> QED  BY <1>1, <1>2, <1>3, <1>4, <1>5 DEF Next

-----------------------------------------------------------------------------
(* What the states of the tasks say of the unified table, provided that    *)
(* a recovery that gives an iteration up gets to its end or to its time.   *)

Wanted(b, x) == IF itm[b].start < x /\ x <= itm[b].end THEN 1 ELSE 0

Covered(b) == \A x \in Records : unified[b][x] >= Wanted(b, x)

\* The states of the manager from which a recovery takes the rows for copied.
Resting == {"done", "copied_to_unified", "notified"}

\* A verified task whose rows are missing is of the manager's iteration, which is still at
\* work on them, or is left to a recovery that gives the iteration up.
Pursued ==
    \A b \in BA : itm[b].state = "verified" /\ ~Covered(b) =>
        /\ itm[b].iteration = mm.iteration
        /\ mm.state \notin Resting
        /\ \A r \in Run :
              \/ run[r].at \in {"wait", "copy", "copying", "rec_delete", "rec_failed", "rec_list"}
              \/ run[r].at \in {"idle", "claim"} /\ (mm.recovering => mm.recExpired)
              \/ run[r].at = "rec_fail" /\ b \in run[r].todo

\* What a run relies on.
Relied ==
    \A r \in Run :
        /\ run[r].at \in OfIteration => ~mm.recovering
        /\ run[r].at \in Failing \cup {"list_pending", "create", "list_waiting", "wait", "copy",
                                       "copying"} => mm.state \notin Resting
        /\ run[r].at = "wait" => \A b \in run[r].todo : itm[b].iteration = mm.iteration
        /\ run[r].at \in {"notify", "rec_notify", "settle", "rec_settle"} =>
              \A b \in run[r].todo : Covered(b)
        /\ run[r].at = "single" => \A b \in run[r].todo \ run[r].toFail : Covered(b)
        /\ run[r].at = "copying" =>
              /\ run[r].copy \in DOMAIN jobs /\ jobs[run[r].copy].kind = "to_unified"
              /\ jobs[run[r].copy].iteration = mm.iteration
              /\ \A b \in BA : itm[b].state = "verified" /\ ~Covered(b) =>
                    b \in jobs[run[r].copy].bas /\ jobs[run[r].copy].status # "done"

Copied == \A b \in BA : itm[b].state \in {"notified", "done", "skipped"} => Covered(b)

CopyInv == TaskInv /\ Copied /\ Pursued /\ Relied

\* The rows of a verified task are once in the temporary table.
LEMMA VerifiedCopies ==
    ASSUME TypeOK, TaskInv, NEW b \in BA, NEW x \in Records, itm[b].state = "verified"
    PROVE  TmpCopies(itm[b].iteration, b, x) = Wanted(b, x)
  <1>1. PICK n \in DOMAIN jobs : CopyOf(n, b, itm[b].iteration) /\ jobs[n].status = "done"
    BY DEF TaskInv, Attempted
  <1>2. \A m \in DOMAIN jobs :
           jobs[m].kind = "to_tmp" /\ jobs[m].iteration = itm[b].iteration /\ b \in jobs[m].bas
           <=> m = n
    <2>1. ASSUME NEW m \in DOMAIN jobs, jobs[m].kind = "to_tmp", b \in jobs[m].bas,
                 jobs[m].iteration = itm[b].iteration
          PROVE  m = n
      <3>1. CopyOf(m, b, itm[b].iteration)
        BY <2>1 DEF CopyOf, TaskInv, Numbered
      <3> QED  BY <1>1, <3>1, TaskParts DEF TaskInv, Attempts
    <2> QED  BY <1>1, <2>1 DEF CopyOf
  <1>3. jobs[n].start = itm[b].start /\ jobs[n].end = itm[b].end
    BY <1>1 DEF TaskInv, Attempts
  <1> DEFINE S == {m \in DOMAIN jobs :
                     /\ jobs[m].kind = "to_tmp" /\ jobs[m].status = "done"
                     /\ jobs[m].iteration = itm[b].iteration /\ b \in jobs[m].bas
                     /\ jobs[m].start < x /\ x <= jobs[m].end}
  <1>4. TmpCopies(itm[b].iteration, b, x) = Cardinality(S)
    BY DEF TmpCopies
  <1>5. CASE itm[b].start < x /\ x <= itm[b].end
    <2>1. S = {n}
      BY <1>1, <1>2, <1>3, <1>5
    <2> QED  BY <1>4, <1>5, <2>1, FS_Singleton DEF Wanted
  <1>6. CASE ~(itm[b].start < x /\ x <= itm[b].end)
    <2>1. S = {}
      BY <1>2, <1>3, <1>6
    <2> QED  BY <1>4, <1>6, <2>1, FS_EmptySet DEF Wanted
  <1> QED  BY <1>5, <1>6

LEMMA CopyInvMeans == TypeOK /\ CopyInv => VerifiedMeansCopied
  <1> SUFFICES ASSUME TypeOK, CopyInv, NEW b \in BA, NEW x \in Records
               PROVE  /\ itm[b].state = "verified" =>
                            TmpCopies(itm[b].iteration, b, x) = Wanted(b, x)
                      /\ itm[b].state \in {"notified", "done", "skipped"} =>
                            unified[b][x] >= Wanted(b, x)
    BY DEF VerifiedMeansCopied, Wanted
  <1> QED  BY VerifiedCopies DEF CopyInv, Copied, Covered

LEMMA CoveredKept ==
    ASSUME TypeOK, TypeOK', SameSegments,
           \A b \in BA : \A x \in Records : unified'[b][x] >= unified[b][x]
    PROVE  \A b \in BA : Covered(b) => Covered(b)'
  <1>1. \A b \in BA : \A x \in Records :
           unified[b][x] \in Nat /\ unified'[b][x] \in Nat /\ Wanted(b, x) \in Nat
    BY DEF TypeOK, Wanted
  <1>2. \A b \in BA : \A x \in Records : Wanted(b, x)' = Wanted(b, x)
    BY DEF SameSegments, Wanted
  <1> QED  BY <1>1, <1>2 DEF Covered

LEMMA SameCovered ==
    ASSUME SameSegments, UNCHANGED unified
    PROVE  \A b \in BA : Covered(b)' <=> Covered(b)
  BY DEF SameSegments, Covered, Wanted

-----------------------------------------------------------------------------
(* The steps of a run that leave the tasks alone.                          *)

\* The account has a verified task whose rows are missing.
Uncopied(b) == itm[b].state = "verified" /\ ~Covered(b)

LEMMA RunCopies ==
    ASSUME TypeOK, Copied, SingleRun, NEW r \in Run, UNCHANGED <<itm, unified>>,
           \A b \in BA : Uncopied(b) =>
              /\ itm[b].iteration = mm'.iteration
              /\ mm'.state \notin Resting
              /\ \/ run'[r].at \in {"wait", "copy", "copying", "rec_delete", "rec_failed",
                                    "rec_list"}
                 \/ run'[r].at \in {"idle", "claim"} /\ (mm'.recovering => mm'.recExpired)
                 \/ run'[r].at = "rec_fail" /\ b \in run'[r].todo,
           run'[r].at \in OfIteration => ~mm'.recovering,
           run'[r].at \in Failing \cup {"list_pending", "create", "list_waiting", "wait", "copy",
                                        "copying"} => mm'.state \notin Resting,
           run'[r].at = "wait" =>
              \A b \in run'[r].todo : b \in BA /\ itm[b].iteration = mm'.iteration,
           run'[r].at \in {"notify", "rec_notify", "settle", "rec_settle"} =>
              \A b \in run'[r].todo : b \in BA /\ Covered(b),
           run'[r].at = "single" =>
              \A b \in run'[r].todo \ run'[r].toFail : b \in BA /\ Covered(b),
           run'[r].at = "copying" =>
              /\ run'[r].copy \in DOMAIN jobs' /\ jobs'[run'[r].copy].kind = "to_unified"
              /\ jobs'[run'[r].copy].iteration = mm'.iteration
              /\ \A b \in BA : Uncopied(b) =>
                    b \in jobs'[run'[r].copy].bas /\ jobs'[run'[r].copy].status # "done"
    PROVE  Copied' /\ Pursued' /\ Relied'
  <1>1. \A b \in BA : Covered(b)' <=> Covered(b)
    BY SameCovered DEF SameSegments
  <1>2. Copied'
    BY <1>1 DEF Copied
  <1>3. Pursued'
    BY <1>1 DEF Pursued, Uncopied, SingleRun
  <1>4. Relied'
    <2> SUFFICES /\ run'[r].at \in OfIteration => ~mm'.recovering
                 /\ run'[r].at \in Failing \cup {"list_pending", "create", "list_waiting",
                                                 "wait", "copy", "copying"} =>
                       mm'.state \notin Resting
                 /\ run'[r].at = "wait" =>
                       \A b \in run'[r].todo : itm'[b].iteration = mm'.iteration
                 /\ run'[r].at \in {"notify", "rec_notify", "settle", "rec_settle"} =>
                       \A b \in run'[r].todo : Covered(b)'
                 /\ run'[r].at = "single" => \A b \in run'[r].todo \ run'[r].toFail : Covered(b)'
                 /\ run'[r].at = "copying" =>
                       /\ run'[r].copy \in DOMAIN jobs'
                       /\ jobs'[run'[r].copy].kind = "to_unified"
                       /\ jobs'[run'[r].copy].iteration = mm'.iteration
                       /\ \A b \in BA : itm'[b].state = "verified" /\ ~Covered(b)' =>
                             b \in jobs'[run'[r].copy].bas /\ jobs'[run'[r].copy].status # "done"
      BY DEF Relied, SingleRun
    <2> QED  BY <1>1 DEF Uncopied
  <1> QED  BY <1>2, <1>3, <1>4

\* What the invariant says of a verified task whose rows are missing.
LEMMA UncopiedParts ==
    ASSUME CopyInv, NEW r \in Run, NEW b \in BA, Uncopied(b)
    PROVE  /\ itm[b].iteration = mm.iteration
           /\ mm.state \notin Resting
           /\ \/ run[r].at \in {"wait", "copy", "copying", "rec_delete", "rec_failed", "rec_list"}
              \/ run[r].at \in {"idle", "claim"} /\ (mm.recovering => mm.recExpired)
              \/ run[r].at = "rec_fail" /\ b \in run[r].todo
           /\ run[r].at = "copying" =>
                 b \in jobs[run[r].copy].bas /\ jobs[run[r].copy].status # "done"
  BY DEF CopyInv, Pursued, Relied, Uncopied

LEMMA RecoveryCopies ==
    ASSUME TypeOK, TypeOK', CopyInv, SingleRun, "recovery_abandoned" \notin Mishap, NEW r \in Run,
           \/ GeneralRecovery(r) \/ RecoveryAction(r) \/ CatchFails(r) \/ RunFails(r)
    PROVE  Copied' /\ Pursued' /\ Relied'
  <1> USE UncopiedParts DEF Failing, OfIteration, workVars, Resting
  <1>m. mm \in Manager
    BY DEF TypeOK, Manager
  <1>s. \A s : LET m == [mm EXCEPT !.state = s] IN
           /\ m.state = s /\ m.iteration = mm.iteration /\ m.recovering = mm.recovering
           /\ m.recExpired = mm.recExpired
    BY <1>m DEF Manager
  <1>c. Copied
    BY DEF CopyInv
  <1>v. \A b \in BA : itm[b].state = "verified" /\ ~Uncopied(b) => Covered(b)
    BY DEF Uncopied
  <1>r. Relied
    BY DEF CopyInv
  <1>i. run[r].at \in Recovering \cup OfIteration => run[r].iteration = mm.iteration
    BY DEF CopyInv, TaskInv, Numbered
  <1>u. \A b \in BA : Uncopied(b) => itm[b].state = "verified"
    BY DEF Uncopied
  <1>1. CASE GeneralRecovery(r)
    BY <1>1, <1>c, GoesParts, RunCopies DEF GeneralRecovery
  <1>2. CASE CatchFails(r)
    BY SMTT(40), <1>2, <1>c, EndsParts, RunCopies DEF CatchFails
  <1>3. CASE RunFails(r)
    BY <1>3, <1>c, <1>r, EndsParts, RunCopies DEF RunFails, Relied
  <1>4. CASE ClaimRecovery(r)
    <2>1. /\ run'[r].at = RecoveryStep(mm.state) /\ mm'.iteration = mm.iteration
          /\ mm'.state = mm.state /\ run[r].at = "claim" /\ UNCHANGED <<itm, unified, jobs>>
      BY <1>4, <1>m DEF ClaimRecovery, TypeOK, RunRec, Manager
    <2>2. \/ mm.state = "done" /\ run'[r].at = "rec_done"
          \/ mm.state = "copied_to_unified" /\ run'[r].at = "rec_list_notify"
          \/ mm.state = "notified" /\ run'[r].at = "rec_list_settle"
          \/ mm.state \notin Resting /\ run'[r].at = "rec_delete"
      BY <2>1 DEF RecoveryStep
    <2> QED  BY <1>c, <2>1, <2>2, RunCopies
  <1>5. CASE RecoveryDeletes(r)
    BY <1>5, <1>c, <1>r, GoesParts, RunCopies DEF RecoveryDeletes, DeletesTmpTable, Relied
  <1>6. CASE RecoveryFails(r)
    BY <1>6, <1>s, <1>c, GoesParts, RunCopies DEF RecoveryFails, Saves
  <1>7. CASE ListVerifiedToFail(r)
    BY <1>7, <1>c, <1>r, <1>i, <1>u, ListsParts, RunCopies
       DEF ListVerifiedToFail, Relied, Recovering
  <1>8. CASE TasksMarkedAsFailed(r)
    BY <1>8, <1>c, GoesParts, RunCopies DEF TasksMarkedAsFailed
  <1>9. CASE RecoveryDone(r)
    BY <1>9, <1>s, <1>c, GoesParts, RunCopies DEF RecoveryDone, Saves
  <1>10. CASE RecoveryLists(r)
    BY <1>10, <1>c, <1>v, ListsParts, RunCopies DEF RecoveryLists
  <1>11. CASE RecoveryNotified(r)
    BY <1>11, <1>s, <1>c, GoesParts, RunCopies DEF RecoveryNotified, Saves
  <1>12. CASE ListNotifiedToSettle(r)
    <2>1. run[r].at = "rec_list_settle" /\ UNCHANGED <<mm, itm, jobs, unified>>
      BY <1>12 DEF ListNotifiedToSettle
    <2> QED  BY <1>12, <1>c, <2>1, ListNotifiedParts, RunCopies DEF Copied
  <1>13. CASE RecoverySettled(r)
    BY <1>13, <1>s, <1>c, GoesParts, RunCopies DEF RecoverySettled, Saves
  <1>14. CASE RecoveryTimeIsUp(r)
    BY <1>14, <1>c, EndsParts, RunCopies DEF RecoveryTimeIsUp
  <1>15. CASE ListAllTasks(r)
    <2>1. /\ run[r].at = "list_all" /\ run'[r].at = "single"
          /\ \A b \in run'[r].todo \ run'[r].toFail :
                b \in BA /\ itm[b].state \in {"verified", "notified"}
          /\ UNCHANGED <<mm, itm, jobs, unified>>
      BY ZenonT(60), <1>15 DEF ListAllTasks, TypeOK, RunRec
    <2> QED  BY SMTT(40), <1>c, <1>v, <2>1, RunCopies DEF Copied
  <1>16. CASE TasksRecovered(r)
    BY <1>16, <1>c, GoesParts, RunCopies DEF TasksRecovered
  <1> QED  BY <1>1, <1>2, <1>3, <1>4, <1>5, <1>6, <1>7, <1>8, <1>9, <1>10, <1>11, <1>12, <1>13,
              <1>14, <1>15, <1>16 DEF RecoveryAction

LEMMA IterationCopies ==
    ASSUME TypeOK, TypeOK', CopyInv, SingleRun, NEW r \in Run,
           IterationAction(r) \/ InsertCopyJobFails(r)
    PROVE  Copied' /\ Pursued' /\ Relied'
  <1> USE UncopiedParts DEF Failing, OfIteration, workVars, Resting
  <1>m. mm \in Manager
    BY DEF TypeOK, Manager
  <1>s. \A s : LET m == [mm EXCEPT !.state = s] IN
           /\ m.state = s /\ m.iteration = mm.iteration /\ m.recovering = mm.recovering
           /\ m.recExpired = mm.recExpired
    BY <1>m DEF Manager
  <1>c. Copied
    BY DEF CopyInv
  <1>v. \A b \in BA : itm[b].state = "verified" /\ ~Uncopied(b) => Covered(b)
    BY DEF Uncopied
  <1>r. Relied
    BY DEF CopyInv
  <1>i. run[r].at \in Recovering \cup OfIteration => run[r].iteration = mm.iteration
    BY DEF CopyInv, TaskInv, Numbered
  <1>u. \A b \in BA : Uncopied(b) => itm[b].state = "verified"
    BY DEF Uncopied
  <1>1. CASE Catch(r)
    <2>1. /\ run[r].at = "catch" /\ run'[r].at = "table" /\ ~mm'.recovering
          /\ UNCHANGED <<itm, jobs, unified>>
      BY <1>1, <1>m DEF Catch, TypeOK, RunRec, Manager
    <2> QED  BY <1>c, <2>1, RunCopies
  <1>2. CASE CreateTmpTable(r)
    BY <1>2, <1>s, <1>c, <1>r, GoesParts, RunCopies DEF CreateTmpTable, Relied
  <1>3. CASE ListActiveTasks(r)
    <2>1. /\ run[r].at = "list_active" /\ run'[r].at = "update"
          /\ UNCHANGED <<mm, itm, jobs, unified>>
      BY <1>3 DEF ListActiveTasks, TypeOK, RunRec
    <2> QED  BY <1>c, <1>r, <2>1, RunCopies DEF Relied
  <1>4. CASE TasksUpdated(r)
    BY SMTT(40), <1>4, <1>s, <1>c, <1>r, GoesParts, RunCopies DEF TasksUpdated, Saves, Relied
  <1>5. CASE ListPending(r)
    BY SMTT(40), <1>5, <1>c, <1>r, ListsParts, RunCopies DEF ListPending, Relied
  <1>6. CASE TasksCreated(r)
    BY SMTT(40), <1>6, <1>s, <1>c, <1>r, GoesParts, RunCopies DEF TasksCreated, Saves, Relied
  <1>7. CASE ListWaiting(r)
    <2>1. /\ run[r].at = "list_waiting" /\ run'[r].at = "wait"
          /\ UNCHANGED <<mm, itm, jobs, unified>>
          /\ \A b \in run'[r].todo : b \in BA /\ itm[b].iteration = run[r].iteration
      BY ZenonT(60), <1>7 DEF ListWaiting, TypeOK, RunRec
    <2> QED  BY SMTT(40), <1>c, <1>i, <1>r, <2>1, RunCopies DEF Relied
  <1>8. CASE TasksDone(r)
    BY <1>8, <1>s, <1>c, <1>r, GoesParts, RunCopies DEF TasksDone, Saves, Relied
  <1>9. CASE NothingToCopy(r)
    <2>1. \A b \in BA : ~Uncopied(b)
      BY SMTT(40), <1>9, <1>i, <1>u DEF NothingToCopy, Saves, Verified
    <2> QED  BY <1>9, <1>s, <1>c, <1>r, <2>1, GoesParts, RunCopies DEF NothingToCopy, Saves, Relied
  <1>10. CASE InsertCopyJob(r)
    <2>1. /\ run[r].at = "copy" /\ run'[r].at = "copying" /\ run'[r].copy = Len(jobs) + 1
          /\ InsertsCopyJob(r, Verified(r)) /\ UNCHANGED <<mm, itm, unified>>
      BY <1>10 DEF InsertCopyJob, TypeOK, RunRec
    <2>2. /\ run'[r].copy \in DOMAIN jobs' /\ jobs'[run'[r].copy].kind = "to_unified"
          /\ jobs'[run'[r].copy].iteration = run[r].iteration
          /\ jobs'[run'[r].copy].bas = Verified(r)
          /\ jobs'[run'[r].copy].status = "running"
      BY <2>1, JobTypes DEF InsertsCopyJob
    <2>3. \A b \in BA : Uncopied(b) => b \in Verified(r)
      BY SMTT(40), <1>i, <1>u, <2>1 DEF Verified
    <2> QED  BY <1>c, <1>i, <1>r, <2>1, <2>2, <2>3, RunCopies DEF Relied
  <1>11. CASE CopyJobDone(r)
    BY SMTT(40), <1>11, <1>s, <1>c, <1>r, GoesParts, RunCopies DEF CopyJobDone, Relied
  <1>12. CASE CopyJobFailed(r)
    BY <1>12, <1>s, <1>c, <1>r, EndsParts, RunCopies DEF CopyJobFailed, Relied
  <1>13. CASE ListVerified(r)
    BY <1>13, <1>c, <1>r, <1>v, ListsParts, RunCopies DEF ListVerified, Relied
  <1>14. CASE Notified(r)
    BY <1>14, <1>s, <1>c, <1>r, GoesParts, RunCopies DEF Notified, Saves, Relied
  <1>15. CASE LifeCycleHandled(r)
    BY SMTT(40), <1>15, <1>s, <1>c, <1>r, GoesParts, RunCopies DEF LifeCycleHandled, Saves, Relied
  <1>16. CASE TearDown(r)
    BY SMTT(40), <1>16, <1>c, <1>r, GoesParts, RunCopies DEF TearDown, DeletesTmpTable, Relied
  <1>17. CASE ListNotified(r)
    BY SMTT(40), <1>17, <1>c, <1>r, ListsParts, RunCopies DEF ListNotified, Copied, Relied
  <1>18. CASE RunDone(r)
    BY SMTT(40), <1>18, <1>s, <1>c, <1>r, EndsParts, RunCopies DEF RunDone, Relied
  <1>19. CASE InsertCopyJobFails(r)
    BY <1>19, <1>s, <1>c, <1>r, EndsParts, RunCopies DEF InsertCopyJobFails, Relied
  <1> QED  BY <1>1, <1>2, <1>3, <1>4, <1>5, <1>6, <1>7, <1>8, <1>9, <1>10, <1>11, <1>12, <1>13,
              <1>14, <1>15, <1>16, <1>17, <1>18, <1>19 DEF IterationAction

-----------------------------------------------------------------------------
(* The steps at one account.                                               *)

LEMMA VisitCopies ==
    ASSUME TypeOK, TypeOK', CopyInv, SingleRun, NEW r \in Run, NEW step, NEW b \in BA,
           Visits(r, step, b), SameSegments, \A a \in BA \ {b} : itm'[a] = itm[a],
           step # "rec_fail" \/ itm'[b].state # "verified",
           itm'[b].state \in {"notified", "done", "skipped"} => Covered(b),
           \/ itm'[b].state # "verified" \/ itm[b].state = "verified"
           \/ step = "wait" /\ itm[b].iteration = mm.iteration
    PROVE  Copied' /\ Pursued' /\ Relied'
  <1>1. /\ run[r].at = step /\ run'[r].at = step /\ run'[r].copy = run[r].copy
        /\ run'[r].todo = run[r].todo \ {b} /\ run'[r].toFail = run[r].toFail
        /\ UNCHANGED <<mm, jobs, unified>>
    BY VisitsParts
  <1>2. \A a \in BA : Covered(a)' <=> Covered(a)
    BY <1>1, SameCovered
  <1>t. run[r].todo \subseteq BA
    BY DEF TypeOK, RunRec
  <1>3. Copied'
    BY <1>2 DEF CopyInv, Copied
  <1>4. Pursued'
    <2> SUFFICES ASSUME NEW a \in BA, itm'[a].state = "verified", ~Covered(a)
                 PROVE  /\ itm'[a].iteration = mm'.iteration
                        /\ mm'.state \notin Resting
                        /\ \/ run'[r].at \in {"wait", "copy", "copying", "rec_delete",
                                              "rec_failed", "rec_list"}
                           \/ /\ run'[r].at \in {"idle", "claim"}
                              /\ mm'.recovering => mm'.recExpired
                           \/ run'[r].at = "rec_fail" /\ a \in run'[r].todo
      BY <1>2 DEF Pursued, SingleRun
    <2>1. CASE itm[a].state = "verified"
      <3>1. Uncopied(a)
        BY <2>1 DEF Uncopied
      <3>2. step = "rec_fail" => a # b
        OBVIOUS
      <3> QED  BY <1>1, <3>1, <3>2, UncopiedParts DEF SameSegments
    <2>2. CASE itm[a].state # "verified"
      <3>1. a = b /\ step = "wait" /\ itm[b].iteration = mm.iteration
        BY <2>2
      <3> QED  BY <1>1, <3>1 DEF CopyInv, Relied, SameSegments
    <2> QED  BY <2>1, <2>2
  <1>5. Relied'
    <2>1. /\ run'[r].at \in OfIteration => ~mm'.recovering
          /\ run'[r].at \in Failing \cup {"list_pending", "create", "list_waiting",
                                          "wait", "copy", "copying"} => mm'.state \notin Resting
      BY <1>1 DEF CopyInv, Relied
    <2>4. run'[r].at = "wait" => \A a \in run'[r].todo : itm'[a].iteration = mm'.iteration
      BY <1>1, <1>t DEF CopyInv, Relied, SameSegments
    <2>2. /\ run'[r].at \in {"notify", "rec_notify", "settle", "rec_settle"} =>
                \A a \in run'[r].todo : Covered(a)'
          /\ run'[r].at = "single" => \A a \in run'[r].todo \ run'[r].toFail : Covered(a)'
      BY <1>1, <1>2, <1>t DEF CopyInv, Relied
    <2>3. ASSUME run'[r].at = "copying"
          PROVE  /\ run'[r].copy \in DOMAIN jobs'
                 /\ jobs'[run'[r].copy].kind = "to_unified"
                 /\ jobs'[run'[r].copy].iteration = mm'.iteration
                 /\ \A a \in BA : itm'[a].state = "verified" /\ ~Covered(a)' =>
                       a \in jobs'[run'[r].copy].bas /\ jobs'[run'[r].copy].status # "done"
      BY <1>1, <1>2, <2>3 DEF CopyInv, Relied
    <2> QED  BY <2>1, <2>2, <2>3, <2>4 DEF Relied, SingleRun
  <1> QED  BY <1>3, <1>4, <1>5

LEMMA SetsCopies ==
    ASSUME TypeOK, TypeOK', CopyInv, SingleRun, NEW r \in Run, NEW step, NEW b \in BA,
           NEW state, Sets(r, step, b, state),
           \/ state = "verified" /\ step = "wait"
           \/ state \notin {"verified", "notified", "done", "skipped"}
           \/ state = itm[b].state /\ step # "rec_fail"
           \/ state = itm[b].state /\ state # "verified"
           \/ state \notin {"verified"} /\ Covered(b)
    PROVE  Copied' /\ Pursued' /\ Relied'
  <1>1. /\ SameSegments /\ itm'[b].state = state /\ \A a \in BA \ {b} : itm'[a] = itm[a]
    BY SetsParts DEF SameSegments
  <1>2. Visits(r, step, b)
    BY DEF Sets
  <1>3. run[r].at = step /\ b \in run[r].todo
    BY <1>2, VisitsParts
  <1>4. step = "wait" => itm[b].iteration = mm.iteration
    BY <1>3 DEF CopyInv, Relied
  <1>5. itm[b].state \in {"notified", "done", "skipped"} => Covered(b)
    BY DEF CopyInv, Copied
  <1> QED  BY <1>1, <1>2, <1>4, <1>5, VisitCopies

LEMMA PassesCopies ==
    ASSUME TypeOK, TypeOK', CopyInv, SingleRun, NEW r \in Run, NEW step, NEW b \in BA,
           Visits(r, step, b), UNCHANGED itm, step # "rec_fail"
    PROVE  Copied' /\ Pursued' /\ Relied'
  <1>1. itm[b].state \in {"notified", "done", "skipped"} => Covered(b)
    BY DEF CopyInv, Copied
  <1> QED  BY <1>1, VisitCopies DEF SameSegments

LEMMA UpdateCopies ==
    ASSUME TypeOK, TypeOK', CopyInv, SingleRun, NEW r \in Run, NEW b \in BA,
           UpdateTaskMetadata(r, b)
    PROVE  Copied' /\ Pursued' /\ Relied'
  <1>1. /\ run[r].at = "update" /\ run'[r].at = "update" /\ b \in run[r].todo
        /\ UNCHANGED <<mm, unified>>
    BY VisitsParts DEF UpdateTaskMetadata
  <1>2. itm'[b] = UpdatedTask(itm[b], run[r].iteration, newest[b])
    BY DEF UpdateTaskMetadata, TypeOK
  <1>3. \A a \in BA \ {b} : itm'[a] = itm[a]
    BY DEF UpdateTaskMetadata, TypeOK
  <1>t. itm[b] \in Itm /\ run[r].iteration \in Nat /\ newest[b] \in Nat /\ itm'[b] \in Itm
    BY TaskParts DEF TypeOK, RunRec
  <1>4. itm[b].state \notin Open
    BY <1>1 DEF CopyInv, TaskInv, Phases
  <1>5. /\ itm'[b].state \notin {"running", "verified", "notified", "failed"}
        /\ \/ itm'[b].start = itm[b].start /\ itm'[b].end = itm[b].end
              /\ (itm'[b].state = "done" => itm[b].state = "skipped")
              /\ (itm'[b].state = "skipped" => itm[b].state = "skipped")
           \/ itm'[b].state = "pending"
           \/ itm'[b].state = "skipped" /\ itm'[b].start = itm'[b].end
    BY SMTT(40), <1>2, <1>4, <1>t, UpdatedParts
  <1>6. \A a \in BA \ {b} : Covered(a)' <=> Covered(a)
    BY <1>1, <1>3 DEF Covered, Wanted
  <1>7. itm'[b].state \in {"notified", "done", "skipped"} => Covered(b)'
    <2>1. CASE /\ itm'[b].start = itm[b].start /\ itm'[b].end = itm[b].end
               /\ itm[b].state = "skipped"
      BY <1>1, <2>1 DEF Covered, Wanted, CopyInv, Copied
    <2>2. CASE itm'[b].start = itm'[b].end
      <3>1. \A x \in Records : Wanted(b, x)' = 0
        BY <1>t, <2>2 DEF Wanted, Itm, Records
      <3>2. \A x \in Records : unified'[b][x] \in Nat
        BY DEF TypeOK
      <3> QED  BY <3>1, <3>2 DEF Covered
    <2>3. CASE itm'[b].state = "pending"
      BY <2>3
    <2> QED  BY <1>5, <2>1, <2>2, <2>3
  <1>8. Copied'
    BY <1>3, <1>6, <1>7 DEF CopyInv, Copied
  <1>9. \A a \in BA : itm'[a].state # "verified"
    <2>1. \A a \in BA : itm[a].state # "verified"
      BY <1>1 DEF CopyInv, TaskInv, Phases, Open
    <2> QED  BY <1>3, <1>5, <2>1
  <1>10. Pursued'
    BY <1>9 DEF Pursued
  <1>11. Relied'
    <2>1. ~mm.recovering
      BY <1>1 DEF CopyInv, Relied, OfIteration
    <2> QED  BY <1>1, <2>1 DEF Relied, SingleRun, Failing
  <1> QED  BY <1>8, <1>10, <1>11

LEMMA AccountCopies ==
    ASSUME TypeOK, TypeOK', CopyInv, SingleRun, NEW r \in Run, NEW b \in BA,
           \/ TaskAction(r, b) \/ CreateCloudTaskFails(r, b) \/ WaitFails(r, b) \/ VisitFails(r, b)
    PROVE  Copied' /\ Pursued' /\ Relied'
  <1>1. CASE MarkTaskAsFailed(r, b)
    BY <1>1, SetsCopies DEF MarkTaskAsFailed
  <1>2. CASE SingleRecovery(r, b)
    <2>1. Visits(r, "single", b)
      BY <1>2 DEF SingleRecovery, Sets
    <2>2. b \notin run[r].toFail => Covered(b)
      BY <2>1, VisitsParts DEF CopyInv, Relied
    <2> QED  BY <1>2, <2>2, SetsCopies DEF SingleRecovery
  <1>3. CASE UpdateTaskMetadata(r, b)
    BY <1>3, UpdateCopies
  <1>4. CASE CreateCloudTask(r, b)
    BY <1>4, PassesCopies DEF CreateCloudTask
  <1>5. CASE JobStarts(r, b)
    <2>1. /\ run[r].at = "wait" /\ run'[r].at = "wait" /\ run'[r].todo = run[r].todo
          /\ UNCHANGED <<mm, itm, jobs, unified>>
      BY <1>5 DEF JobStarts, TypeOK, RunRec, workVars
    <2>2. \A a \in BA : Uncopied(a) => itm[a].iteration = mm.iteration /\ mm.state \notin Resting
      BY UncopiedParts
    <2>3. /\ Copied /\ ~mm.recovering /\ mm.state \notin Resting
          /\ \A a \in run[r].todo : itm[a].iteration = mm.iteration
      BY <2>1 DEF CopyInv, Relied, OfIteration
    <2>4. run[r].todo \subseteq BA
      BY DEF TypeOK, RunRec
    <2> QED  BY <2>1, <2>2, <2>3, <2>4, RunCopies
  <1>6. CASE JobDoesNotStart(r, b)
    BY <1>6, SetsCopies DEF JobDoesNotStart
  <1>7. CASE JobHandled(r, b)
    BY <1>7, SetsCopies DEF JobHandled
  <1>8. CASE NotifyTask(r, b)
    <2>1. PICK step \in {"notify", "rec_notify"} : Sets(r, step, b, "notified")
      BY <1>8 DEF NotifyTask
    <2>2. Visits(r, step, b)
      BY <2>1 DEF Sets
    <2>3. Covered(b)
      BY <2>2, VisitsParts DEF CopyInv, Relied
    <2> QED  BY <2>1, <2>3, SetsCopies
  <1>9. CASE SettleTask(r, b)
    <2>1. PICK step \in {"settle", "rec_settle"}, state \in {"done", itm[b].state} :
             Sets(r, step, b, state)
      BY <1>9 DEF SettleTask
    <2>2. Visits(r, step, b)
      BY <2>1 DEF Sets
    <2>3. Covered(b)
      BY <2>2, VisitsParts DEF CopyInv, Relied
    <2> QED  BY <2>1, <2>3, SetsCopies
  <1>10. CASE CreateCloudTaskFails(r, b)
    BY <1>10, SetsCopies DEF CreateCloudTaskFails
  <1>11. CASE WaitFails(r, b)
    BY <1>11, SetsCopies DEF WaitFails
  <1>12. CASE VisitFails(r, b)
    BY <1>12, PassesCopies DEF VisitFails
  <1> QED  BY <1>1, <1>2, <1>3, <1>4, <1>5, <1>6, <1>7, <1>8, <1>9, <1>10, <1>11, <1>12
           DEF TaskAction

-----------------------------------------------------------------------------
(* The steps of deliveries, the clock and BigQuery.                        *)

LEMMA DriftCopies ==
    ASSUME TypeOK, TypeOK', CopyInv, SingleRun, TasksDrift, UNCHANGED run,
           mm'.iteration = mm.iteration, mm'.state = mm.state, mm'.recovering = mm.recovering,
           mm.recExpired => mm'.recExpired,
           \A b \in BA : \A x \in Records : unified'[b][x] >= unified[b][x],
           \A r \in Run : run[r].at = "copying" =>
              LET n == run[r].copy IN
              /\ n \in DOMAIN jobs' /\ jobs'[n].kind = jobs[n].kind
              /\ jobs'[n].iteration = jobs[n].iteration /\ jobs'[n].bas = jobs[n].bas
              /\ \/ jobs'[n].status = "done" => jobs[n].status = "done"
                 \/ \A b \in BA : Uncopied(b) => Covered(b)'
    PROVE  Copied' /\ Pursued' /\ Relied'
  <1>1. \A b \in BA : Covered(b) => Covered(b)'
    BY CoveredKept DEF TasksDrift
  <1>2. \A b \in BA : itm'[b].state \in {"notified", "done", "skipped", "verified"} =>
                         itm'[b].state = itm[b].state
    BY DEF TasksDrift
  <1>3. Copied'
    BY <1>1, <1>2 DEF CopyInv, Copied
  <1>4. \A b \in BA : itm'[b].state = "verified" /\ ~Covered(b)' =>
           /\ itm[b].state = "verified" /\ ~Covered(b)
           /\ itm'[b].iteration = itm[b].iteration
    BY <1>1, <1>2 DEF TasksDrift, SameSegments
  <1>5. Pursued'
    BY <1>4 DEF CopyInv, Pursued
  <1>6. Relied'
    <2> SUFFICES ASSUME NEW r \in Run
                 PROVE  /\ run[r].at \in OfIteration => ~mm'.recovering
                        /\ run[r].at \in Failing \cup {"list_pending", "create", "list_waiting",
                                                       "wait", "copy", "copying"} =>
                              mm'.state \notin Resting
                        /\ run[r].at = "wait" =>
                              \A b \in run[r].todo : itm'[b].iteration = mm'.iteration
                        /\ run[r].at \in {"notify", "rec_notify", "settle", "rec_settle"} =>
                              \A b \in run[r].todo : Covered(b)'
                        /\ run[r].at = "single" =>
                              \A b \in run[r].todo \ run[r].toFail : Covered(b)'
                        /\ run[r].at = "copying" =>
                              /\ run[r].copy \in DOMAIN jobs'
                              /\ jobs'[run[r].copy].kind = "to_unified"
                              /\ jobs'[run[r].copy].iteration = mm'.iteration
                              /\ \A b \in BA : itm'[b].state = "verified" /\ ~Covered(b)' =>
                                    /\ b \in jobs'[run[r].copy].bas
                                    /\ jobs'[run[r].copy].status # "done"
      BY DEF Relied
    <2>t. run[r].todo \subseteq BA
      BY DEF TypeOK, RunRec
    <2>1. /\ run[r].at \in OfIteration => ~mm'.recovering
          /\ run[r].at \in Failing \cup {"list_pending", "create", "list_waiting", "wait", "copy",
                                         "copying"} => mm'.state \notin Resting
      BY DEF CopyInv, Relied
    <2>4. run[r].at = "wait" => \A b \in run[r].todo : itm'[b].iteration = mm'.iteration
      BY <2>t DEF CopyInv, Relied, TasksDrift, SameSegments
    <2>2. /\ run[r].at \in {"notify", "rec_notify", "settle", "rec_settle"} =>
                \A b \in run[r].todo : Covered(b)'
          /\ run[r].at = "single" => \A b \in run[r].todo \ run[r].toFail : Covered(b)'
      BY <1>1, <2>t DEF CopyInv, Relied
    <2>3. ASSUME run[r].at = "copying"
          PROVE  /\ run[r].copy \in DOMAIN jobs' /\ jobs'[run[r].copy].kind = "to_unified"
                 /\ jobs'[run[r].copy].iteration = mm'.iteration
                 /\ \A b \in BA : itm'[b].state = "verified" /\ ~Covered(b)' =>
                       b \in jobs'[run[r].copy].bas /\ jobs'[run[r].copy].status # "done"
      BY <1>4, <2>3 DEF CopyInv, Relied, Uncopied
    <2> QED  BY <2>1, <2>2, <2>3, <2>4
  <1> QED  BY <1>3, <1>5, <1>6

\* A row of the local table is never taken from the unified table.
LEMMA FinishesRows ==
    ASSUME TypeOK, NEW n \in DOMAIN jobs, JobFinishes(n)
    PROVE  \A b \in BA : \A x \in Records : unified'[b][x] >= unified[b][x]
  <1> SUFFICES ASSUME NEW b \in BA, NEW x \in Records
               PROVE  unified'[b][x] >= unified[b][x]
    OBVIOUS
  <1>1. unified[b][x] \in Nat /\ TmpCopies(jobs[n].iteration, b, x) \in Nat
    BY TmpCopiesType DEF TypeOK
  <1> QED  BY <1>1 DEF JobFinishes

LEMMA FinishesCopies ==
    ASSUME TypeOK, TypeOK', CopyInv, SingleRun, NEW n \in DOMAIN jobs, JobFinishes(n)
    PROVE  Copied' /\ Pursued' /\ Relied'
  <1>1. UNCHANGED <<mm, itm, run>>
    BY DEF JobFinishes
  <1>2. TasksDrift
    BY <1>1 DEF TasksDrift, SameSegments
  <1>3. NoNewAttempt
    BY FinishesAttempt
  <1>4. ASSUME NEW r \in Run, run[r].at = "copying"
        PROVE  LET k == run[r].copy IN
               /\ k \in DOMAIN jobs' /\ jobs'[k].kind = jobs[k].kind
               /\ jobs'[k].iteration = jobs[k].iteration /\ jobs'[k].bas = jobs[k].bas
               /\ \/ jobs'[k].status = "done" => jobs[k].status = "done"
                  \/ \A b \in BA : Uncopied(b) => Covered(b)'
    <2>1. PICK k \in DOMAIN jobs : k = run[r].copy
      BY <1>4 DEF CopyInv, Relied
    <2>2. jobs[k].kind = "to_unified" /\ jobs[k].iteration = mm.iteration
      BY <1>4, <2>1 DEF CopyInv, Relied
    <2>3. /\ k \in DOMAIN jobs' /\ jobs'[k].kind = jobs[k].kind
          /\ jobs'[k].iteration = jobs[k].iteration /\ jobs'[k].bas = jobs[k].bas
      BY <1>3 DEF NoNewAttempt
    <2>4. CASE k # n
      BY <2>1, <2>3, <2>4 DEF JobFinishes
    <2>5. CASE k = n
      <3>1. CASE jobs' = [jobs EXCEPT ![n].status = "failed"]
        BY <2>1, <2>3, <2>5, <3>1, JobTypes DEF Job
      <3>2. CASE jobs' = [jobs EXCEPT ![n].status = "done"]
        <4>0. jobs[n] \in Job /\ jobs'[n].status = "done"
          BY <3>2, JobTypes DEF Job
        <4>1. unified' = [b \in BA |-> [x \in Records |->
                  IF b \in jobs[n].bas
                  THEN unified[b][x] + TmpCopies(jobs[n].iteration, b, x)
                  ELSE unified[b][x]]]
          BY <2>2, <2>5, <3>2, <4>0 DEF JobFinishes, Job
        <4>2. ASSUME NEW b \in BA, Uncopied(b)
              PROVE  Covered(b)'
          <5>1. /\ b \in jobs[n].bas /\ itm[b].state = "verified"
                /\ itm[b].iteration = jobs[n].iteration
            BY <1>4, <2>1, <2>2, <2>5, <4>2, UncopiedParts DEF Uncopied
          <5> SUFFICES ASSUME NEW x \in Records PROVE unified'[b][x] >= Wanted(b, x)'
            BY DEF Covered
          <5>2. TmpCopies(jobs[n].iteration, b, x) = Wanted(b, x)
            BY <5>1, VerifiedCopies DEF CopyInv
          <5>3. unified'[b][x] = unified[b][x] + Wanted(b, x)
            BY <4>1, <5>1, <5>2
          <5>4. Wanted(b, x)' = Wanted(b, x) /\ Wanted(b, x) \in Nat /\ unified[b][x] \in Nat
            BY <1>1 DEF Wanted, TypeOK
          <5> QED  BY <5>3, <5>4
        <4> QED  BY <2>1, <2>3, <4>2
      <3> QED  BY <3>1, <3>2 DEF JobFinishes
    <2> QED  BY <2>4, <2>5
  <1> QED  BY <1>1, <1>2, <1>4, FinishesRows, DriftCopies

LEMMA OthersCopies ==
    ASSUME TypeOK, TypeOK', CopyInv, SingleRun,
           Environment \/ \E w \in Worker : WorkerAction(w)
    PROVE  Copied' /\ Pursued' /\ Relied'
  <1> USE DEF workVars
  <1>u. \A b \in BA : \A x \in Records : unified[b][x] \in Nat
    BY DEF TypeOK
  <1>c. \A r \in Run : run[r].at = "copying" => run[r].copy \in DOMAIN jobs
    BY DEF CopyInv, Relied
  <1>r. UNCHANGED itm => TasksDrift
    BY DEF TasksDrift, SameSegments
  <1>1. CASE TTLExpires \/ RecoveringTTLExpires
    <2>1. /\ mm'.iteration = mm.iteration /\ mm'.state = mm.state
          /\ mm'.recovering = mm.recovering /\ (mm.recExpired => mm'.recExpired)
          /\ UNCHANGED <<run, itm, jobs, unified>>
      BY <1>1 DEF TTLExpires, RecoveringTTLExpires, TypeOK, Manager
    <2> QED  BY <1>c, <1>r, <1>u, <2>1, DriftCopies
  <1>2. ASSUME UNCHANGED <<run, mm, unified>>, TasksDrift,
               \A n \in DOMAIN jobs : n \in DOMAIN jobs' /\ jobs'[n] = jobs[n]
        PROVE  Copied' /\ Pursued' /\ Relied'
    BY <1>c, <1>u, <1>2, DriftCopies
  <1>3. ASSUME NEW b \in BA, RecordsArrive(b)  PROVE Copied' /\ Pursued' /\ Relied'
    BY <1>2, <1>3, <1>r DEF RecordsArrive
  <1>4. ASSUME NEW b \in BA, MarkOnboardingDone(b)  PROVE Copied' /\ Pursued' /\ Relied'
    <2>1. TasksDrift
      BY ZenonT(60), <1>4 DEF MarkOnboardingDone, TasksDrift, SameSegments, TypeOK, Itm
    <2> QED  BY <1>2, <1>4, <2>1 DEF MarkOnboardingDone
  <1>5. ASSUME NEW b \in BA, DeadlinePasses(b)  PROVE Copied' /\ Pursued' /\ Relied'
    <2>1. TasksDrift
      BY SMTT(40), <1>5 DEF DeadlinePasses, TasksDrift, SameSegments, TypeOK, Itm
    <2> QED  BY <1>2, <1>5, <2>1 DEF DeadlinePasses
  <1>6. ASSUME NEW n \in DOMAIN jobs, JobFinishes(n)  PROVE Copied' /\ Pursued' /\ Relied'
    BY <1>6, FinishesCopies
  <1>7. ASSUME NEW w \in Worker, NEW t \in tasks, SetRunning(w, t)
        PROVE  Copied' /\ Pursued' /\ Relied'
    <2>1. TasksDrift
      BY <1>7 DEF SetRunning, TasksDrift, SameSegments, TypeOK, Itm, CloudTask
    <2> QED  BY <1>2, <1>7, <2>1 DEF SetRunning
  <1>8. ASSUME NEW w \in Worker, CopyFromLocalToTmpTable(w)
        PROVE  Copied' /\ Pursued' /\ Relied'
    <2>1. \A n \in DOMAIN jobs : n \in DOMAIN jobs' /\ jobs'[n] = jobs[n]
      BY <1>8, JobTypes DEF CopyFromLocalToTmpTable
    <2> QED  BY <1>2, <1>8, <1>r, <2>1 DEF CopyFromLocalToTmpTable
  <1>9. ASSUME NEW w \in Worker, CopyFromLocalToTmpTableFails(w)
        PROVE  Copied' /\ Pursued' /\ Relied'
    <2>1. TasksDrift
      <3>1. worker[w].ba \in BA
        BY WorkerParts
      <3> QED  BY SMTT(40), <1>9, <3>1
               DEF CopyFromLocalToTmpTableFails, TasksDrift, SameSegments, TypeOK, Itm
    <2> QED  BY <1>2, <1>9, <2>1 DEF CopyFromLocalToTmpTableFails
  <1>10. ASSUME NEW w \in Worker, RecordJob(w)  PROVE Copied' /\ Pursued' /\ Relied'
    <2>1. TasksDrift
      <3>1. worker[w].ba \in BA
        BY WorkerParts
      <3> QED  BY SMTT(40), <1>10, <3>1 DEF RecordJob, TasksDrift, SameSegments, TypeOK, Itm
    <2> QED  BY <1>2, <1>10, <2>1 DEF RecordJob
  <1>11. ASSUME NEW w \in Worker, WorkerEnds(w)  PROVE Copied' /\ Pursued' /\ Relied'
    BY <1>2, <1>11, <1>r DEF WorkerEnds
  <1>12. ASSUME NEW w \in Worker, WorkerAction(w)  PROVE Copied' /\ Pursued' /\ Relied'
    BY <1>7, <1>8, <1>9, <1>10, <1>11, <1>12 DEF WorkerAction
  <1>13. CASE Environment
    BY <1>1, <1>3, <1>4, <1>5, <1>6, <1>13 DEF Environment
  <1> QED  BY <1>12, <1>13

LEMMA InitCopies == Init => CopyInv
  <1> SUFFICES ASSUME Init PROVE CopyInv
    OBVIOUS
  <1>1. /\ \A b \in BA : itm[b].state = "onboarding"
        /\ \A r \in Run : run[r].at = "idle"
    BY DEF Init, IdleRun
  <1> QED  BY <1>1, InitTasks DEF CopyInv, Copied, Pursued, Relied, OfIteration, Failing

LEMMA StepCopies ==
    ASSUME SingleRun, "recovery_abandoned" \notin Mishap, TypeOK, CopyInv, [Next]_vars
    PROVE  CopyInv'
  <1>t. TypeOK'
    BY StepTypes
  <1>0. TaskInv'
    BY StepTasks DEF CopyInv
  <1>1. CASE UNCHANGED vars
    BY <1>0, <1>1 DEF CopyInv, Copied, Pursued, Relied, Covered, Wanted, vars
  <1>2. ASSUME NEW r \in Run, Works(r)  PROVE Copied' /\ Pursued' /\ Relied'
    BY <1>t, <1>2, RecoveryCopies, IterationCopies, AccountCopies DEF Works
  <1>3. ASSUME NEW r \in Run, Falters(r)  PROVE Copied' /\ Pursued' /\ Relied'
    BY <1>t, <1>3, RecoveryCopies, IterationCopies, AccountCopies DEF Falters
  <1>4. CASE Environment \/ \E w \in Worker : WorkerAction(w)
    BY <1>0, <1>t, <1>4, OthersCopies DEF CopyInv
  <1> QED  BY <1>0, <1>1, <1>2, <1>3, <1>4 DEF Next, CopyInv

\* A single invocation of the manager, repeated: what the states of the tasks say is so
\* (VerifiedMeansCopied).  InternalRunsProofs says it of runs that follow each other.
LEMMA SingleRunCopies ==
    ASSUME SingleRun, "recovery_abandoned" \notin Mishap
    PROVE  Spec => []VerifiedMeansCopied
  <1>1. Init => TypeOK /\ CopyInv
    BY InitTypes, InitCopies
  <1>2. TypeOK /\ CopyInv /\ [Next]_vars => (TypeOK /\ CopyInv)'
    BY StepTypes, StepCopies
  <1>3. TypeOK /\ CopyInv => VerifiedMeansCopied
    BY CopyInvMeans
  <1> QED  BY <1>1, <1>2, <1>3, PTL DEF Spec

-----------------------------------------------------------------------------
(* The job that appends to the unified table is awaited, provided that a   *)
(* run does not end under it, that it ends in its time and is inserted     *)
(* only if its request succeeds, and that no delivery outlives its         *)
(* iteration.                                                              *)

Awaiting == Mishap \cap {"copy_abandoned", "copy_stuck", "copy_unanswered", "worker_outlives"} = {}

\* What is not late is of the manager's iteration.
OnTime ==
    /\ \A w \in Worker :
          worker[w].at # "idle" /\ ~worker[w].late => worker[w].iteration = mm.iteration
    /\ \A b \in BA : itm[b].state = "pending" => itm[b].iteration = mm.iteration

\* A delivery that has not inserted its job yet is of a task that has got no further, and a
\* run takes up only tasks that are verified.
Undisturbed ==
    /\ \A w \in Worker :
          worker[w].at = "begun" /\ worker[w].iteration = itm[worker[w].ba].iteration =>
             itm[worker[w].ba].state \in {"running", "failed"}
    /\ \A r \in Run :
          /\ run[r].at \in {"notify", "rec_notify", "settle", "rec_settle"} =>
                \A b \in run[r].todo : itm[b].state \in {"verified", "notified", "done"}
          /\ run[r].at = "single" =>
                \A b \in run[r].todo \ run[r].toFail : itm[b].state \in {"verified", "notified"}

\* The steps at which the temporary table of the iteration is there.
Tabled == OfIteration \ {"table", "list_notified", "settle"}

Appends(n) == jobs[n].kind = "to_unified" /\ jobs[n].status = "running"

Awaited ==
    /\ \A n \in DOMAIN jobs :
          Appends(n) => \E r \in Run : run[r].at = "copying" /\ run[r].copy = n
    /\ \A r \in Run :
          /\ run[r].at \in Tabled => mm.iteration \in tmp
          /\ run[r].at = "copying" =>
                /\ run[r].copy \in DOMAIN jobs
                /\ jobs[run[r].copy].iteration = mm.iteration
                /\ \A b \in jobs[run[r].copy].bas :
                      b \in BA /\ itm[b].state = "verified" /\ itm[b].iteration = mm.iteration

AwaitInv == TaskInv /\ OnTime /\ Undisturbed /\ Awaited

LEMMA AwaitInvMeans == TypeOK /\ AwaitInv => CopyJobAwaited
  <1> SUFFICES ASSUME TypeOK, AwaitInv, NEW n \in DOMAIN jobs, Appends(n)
               PROVE  /\ \E r \in Run : run[r].at = "copying" /\ run[r].copy = n
                      /\ \A b \in jobs[n].bas : /\ itm[b].state = "verified"
                                                /\ itm[b].iteration = jobs[n].iteration
                      /\ jobs[n].iteration \in tmp
    BY DEF CopyJobAwaited, Appends
  <1>1. PICK r \in Run : run[r].at = "copying" /\ run[r].copy = n
    BY DEF AwaitInv, Awaited
  <1>2. run[r].at \in Tabled
    BY <1>1 DEF Tabled, OfIteration
  <1> QED  BY <1>1, <1>2 DEF AwaitInv, Awaited

LEMMA InsertsParts ==
    ASSUME TypeOK, NEW r \in Run, NEW bas, InsertsCopyJob(r, bas)
    PROVE  /\ DOMAIN jobs' = DOMAIN jobs \cup {Len(jobs) + 1}
           /\ \A n \in DOMAIN jobs : jobs'[n] = jobs[n]
           /\ jobs'[Len(jobs) + 1].kind = "to_unified"
           /\ jobs'[Len(jobs) + 1].iteration = run[r].iteration
           /\ jobs'[Len(jobs) + 1].bas = bas
           /\ jobs'[Len(jobs) + 1].status = "running"
  BY JobTypes DEF InsertsCopyJob

LEMMA RunAwaits ==
    ASSUME TypeOK, OnTime, Undisturbed, SingleRun, NEW r \in Run,
           UNCHANGED <<itm, worker>>, mm'.iteration = mm.iteration,
           run'[r].at \in {"notify", "rec_notify", "settle", "rec_settle"} =>
              \A b \in run'[r].todo : itm[b].state \in {"verified", "notified", "done"},
           run'[r].at = "single" =>
              \A b \in run'[r].todo \ run'[r].toFail : itm[b].state \in {"verified", "notified"},
           \A n \in DOMAIN jobs' : Appends(n)' => run'[r].at = "copying" /\ run'[r].copy = n,
           run'[r].at \in Tabled => mm.iteration \in tmp',
           run'[r].at = "copying" =>
              /\ run'[r].copy \in DOMAIN jobs'
              /\ jobs'[run'[r].copy].iteration = mm.iteration
              /\ \A b \in jobs'[run'[r].copy].bas :
                    b \in BA /\ itm[b].state = "verified" /\ itm[b].iteration = mm.iteration
    PROVE  OnTime' /\ Undisturbed' /\ Awaited'
  <1>1. OnTime'
    BY DEF OnTime
  <1>2. Undisturbed'
    BY DEF Undisturbed, SingleRun
  <1>3. \A n \in DOMAIN jobs' :
           Appends(n)' => \E q \in Run : run'[q].at = "copying" /\ run'[q].copy = n
    OBVIOUS
  <1>4. \A q \in Run :
           /\ run'[q].at \in Tabled => mm'.iteration \in tmp'
           /\ run'[q].at = "copying" =>
                 /\ run'[q].copy \in DOMAIN jobs'
                 /\ jobs'[run'[q].copy].iteration = mm'.iteration
                 /\ \A b \in jobs'[run'[q].copy].bas :
                       /\ b \in BA /\ itm'[b].state = "verified"
                       /\ itm'[b].iteration = mm'.iteration
    BY DEF SingleRun
  <1> QED  BY <1>1, <1>2, <1>3, <1>4 DEF Awaited

\* Unless the run is at the job that appends to the unified table, there is none.
LEMMA NoAppending ==
    ASSUME Awaited, SingleRun, NEW r \in Run, run[r].at # "copying", UNCHANGED jobs
    PROVE  \A n \in DOMAIN jobs' : ~Appends(n)'
  BY DEF Awaited, SingleRun, Appends

LEMMA RecoveryAwaits ==
    ASSUME TypeOK, TypeOK', AwaitInv, SingleRun, Awaiting, NEW r \in Run,
           \/ GeneralRecovery(r) \/ RecoveryAction(r) \/ CatchFails(r) \/ RunFails(r)
    PROVE  OnTime' /\ Undisturbed' /\ Awaited'
  <1> USE DEF Tabled, OfIteration, workVars, Awaiting
  <1>c. OnTime /\ Undisturbed
    BY DEF AwaitInv
  <1>n. run[r].at # "copying" /\ UNCHANGED jobs => \A n \in DOMAIN jobs' : ~Appends(n)'
    BY NoAppending DEF AwaitInv
  <1>k. UNCHANGED <<itm, worker, jobs>> /\ mm'.iteration = mm.iteration
    BY RecoverySteps DEF AwaitInv
  <1>t. run[r].todo \subseteq BA
    BY DEF TypeOK, RunRec
  <1> USE <1>c, <1>n, <1>k, RunAwaits
  <1>1. CASE GeneralRecovery(r)
    BY <1>1, GoesParts DEF GeneralRecovery
  <1>2. CASE CatchFails(r)
    BY <1>2, EndsParts DEF CatchFails
  <1>3. CASE RunFails(r)
    BY <1>3, EndsParts DEF RunFails
  <1>4. CASE ClaimRecovery(r)
    <2>1. run'[r].at = RecoveryStep(mm.state) /\ run[r].at = "claim"
      BY <1>4 DEF ClaimRecovery, TypeOK, RunRec
    <2>2. run'[r].at \in {"rec_done", "rec_list_notify", "rec_list_settle", "rec_delete"}
      BY <2>1 DEF RecoveryStep
    <2> QED  BY SMTT(40), <2>1, <2>2
  <1>5. CASE RecoveryDeletes(r)
    BY <1>5, GoesParts DEF RecoveryDeletes, DeletesTmpTable
  <1>6. CASE RecoveryFails(r)
    BY <1>6, GoesParts DEF RecoveryFails, Saves
  <1>7. CASE ListVerifiedToFail(r)
    BY <1>7, ListsParts DEF ListVerifiedToFail
  <1>8. CASE TasksMarkedAsFailed(r)
    BY <1>8, GoesParts DEF TasksMarkedAsFailed
  <1>9. CASE RecoveryDone(r)
    BY <1>9, GoesParts DEF RecoveryDone, Saves
  <1>10. CASE RecoveryLists(r)
    BY <1>10, ListsParts DEF RecoveryLists
  <1>11. CASE RecoveryNotified(r)
    BY <1>11, GoesParts DEF RecoveryNotified, Saves
  <1>12. CASE ListNotifiedToSettle(r)
    <2>1. run[r].at = "rec_list_settle"
      BY <1>12 DEF ListNotifiedToSettle
    <2> QED  BY <1>12, <2>1, ListNotifiedParts
  <1>13. CASE RecoverySettled(r)
    BY <1>13, GoesParts DEF RecoverySettled, Saves
  <1>14. CASE RecoveryTimeIsUp(r)
    BY <1>14, EndsParts DEF RecoveryTimeIsUp
  <1>15. CASE ListAllTasks(r)
    <2>1. /\ run[r].at = "list_all" /\ run'[r].at = "single"
          /\ \A b \in run'[r].todo \ run'[r].toFail : itm[b].state \in {"verified", "notified"}
      BY ZenonT(60), <1>15 DEF ListAllTasks, TypeOK, RunRec
    <2> QED  BY SMTT(40), <2>1
  <1>16. CASE TasksRecovered(r)
    BY <1>16, GoesParts DEF TasksRecovered
  <1> QED  BY <1>1, <1>2, <1>3, <1>4, <1>5, <1>6, <1>7, <1>8, <1>9, <1>10, <1>11, <1>12, <1>13,
              <1>14, <1>15, <1>16 DEF RecoveryAction

LEMMA CatchAwaits ==
    ASSUME TypeOK, TypeOK', AwaitInv, SingleRun, Awaiting, NEW r \in Run, Catch(r)
    PROVE  OnTime' /\ Undisturbed' /\ Awaited'
  <1>1. /\ run[r].at = "catch" /\ run'[r].at = "table"
        /\ mm'.iteration = mm.iteration + 1
        /\ \A w \in Worker : worker[w].at # "idle" => worker[w].late
        /\ UNCHANGED <<itm, worker, jobs>>
    BY DEF Catch, TypeOK, RunRec, Manager, workVars, Awaiting
  <1>2. \A b \in BA : itm[b].state \notin Open
    BY <1>1 DEF AwaitInv, TaskInv, Phases
  <1>3. OnTime'
    BY <1>1, <1>2 DEF OnTime, Open
  <1>4. Undisturbed'
    BY <1>1 DEF AwaitInv, Undisturbed, SingleRun
  <1>5. Awaited'
    <2>1. \A n \in DOMAIN jobs' : ~Appends(n)'
      BY <1>1, NoAppending DEF AwaitInv
    <2> QED  BY <1>1, <2>1 DEF Awaited, SingleRun, Tabled
  <1> QED  BY <1>3, <1>4, <1>5

LEMMA IterationAwaits ==
    ASSUME TypeOK, TypeOK', AwaitInv, SingleRun, Awaiting, NEW r \in Run,
           IterationAction(r) \/ InsertCopyJobFails(r), ~Catch(r)
    PROVE  OnTime' /\ Undisturbed' /\ Awaited'
  <1> USE DEF Tabled, OfIteration, workVars, Awaiting
  <1>c. OnTime /\ Undisturbed
    BY DEF AwaitInv
  <1>n. run[r].at # "copying" /\ UNCHANGED jobs => \A n \in DOMAIN jobs' : ~Appends(n)'
    BY NoAppending DEF AwaitInv
  <1>k. UNCHANGED <<itm, worker>> /\ mm'.iteration = mm.iteration
    BY IterationSteps DEF AwaitInv
  <1>r. run[r].at \in Tabled => mm.iteration \in tmp
    BY DEF AwaitInv, Awaited
  <1>i. run[r].at \in OfIteration => run[r].iteration = mm.iteration
    BY DEF AwaitInv, TaskInv, Numbered
  <1> USE <1>c, <1>n, <1>k, <1>r, RunAwaits
  <1>2. CASE CreateTmpTable(r)
    BY <1>2, <1>i, GoesParts DEF CreateTmpTable
  <1>3. CASE ListActiveTasks(r)
    <2>1. /\ run[r].at = "list_active" /\ run'[r].at = "update" /\ UNCHANGED <<jobs, tmp>>
      BY <1>3 DEF ListActiveTasks, TypeOK, RunRec
    <2> QED  BY <2>1
  <1>4. CASE TasksUpdated(r)
    BY <1>4, GoesParts DEF TasksUpdated, Saves
  <1>5. CASE ListPending(r)
    BY <1>5, ListsParts DEF ListPending
  <1>6. CASE TasksCreated(r)
    BY <1>6, GoesParts DEF TasksCreated, Saves
  <1>7. CASE ListWaiting(r)
    <2>1. /\ run[r].at = "list_waiting" /\ run'[r].at = "wait" /\ UNCHANGED <<jobs, tmp>>
      BY ZenonT(60), <1>7 DEF ListWaiting, TypeOK, RunRec
    <2> QED  BY SMTT(40), <2>1
  <1>8. CASE TasksDone(r)
    BY <1>8, GoesParts DEF TasksDone, Saves
  <1>9. CASE NothingToCopy(r)
    BY <1>9, GoesParts DEF NothingToCopy, Saves
  <1>10. CASE InsertCopyJob(r)
    <2>1. /\ run[r].at = "copy" /\ run'[r].at = "copying" /\ run'[r].copy = Len(jobs) + 1
          /\ InsertsCopyJob(r, Verified(r)) /\ UNCHANGED tmp
      BY <1>10 DEF InsertCopyJob, TypeOK, RunRec
    <2>2. /\ run'[r].copy \in DOMAIN jobs'
          /\ jobs'[run'[r].copy].iteration = mm.iteration
          /\ jobs'[run'[r].copy].bas = Verified(r)
          /\ \A n \in DOMAIN jobs' : n = run'[r].copy \/ (n \in DOMAIN jobs /\ jobs'[n] = jobs[n])
      <3>1. /\ DOMAIN jobs' = DOMAIN jobs \cup {Len(jobs) + 1}
            /\ \A n \in DOMAIN jobs : jobs'[n] = jobs[n]
            /\ jobs'[Len(jobs) + 1].iteration = run[r].iteration
            /\ jobs'[Len(jobs) + 1].bas = Verified(r)
        BY <2>1, InsertsParts
      <3> QED  BY <1>i, <2>1, <3>1
    <2>3. \A n \in DOMAIN jobs : ~Appends(n)
      BY <2>1 DEF AwaitInv, Awaited, SingleRun
    <2>4. \A n \in DOMAIN jobs' : Appends(n)' => run'[r].copy = n
      BY <2>2, <2>3 DEF Appends
    <2>5. \A b \in Verified(r) :
             b \in BA /\ itm[b].state = "verified" /\ itm[b].iteration = mm.iteration
      BY <1>i, <2>1 DEF Verified
    <2> QED  BY <2>1, <2>2, <2>4, <2>5
  <1>11. CASE CopyJobDone(r)
    <2>1. /\ run[r].at = "copying" /\ jobs[run[r].copy].status = "done" /\ UNCHANGED <<jobs, tmp>>
          /\ run'[r].at = "list_verified"
      BY <1>11, GoesParts DEF CopyJobDone
    <2>2. \A n \in DOMAIN jobs' : ~Appends(n)'
      BY <2>1 DEF AwaitInv, Awaited, SingleRun, Appends
    <2> QED  BY <2>1, <2>2
  <1>12. CASE CopyJobFailed(r)
    <2>1. /\ run[r].at = "copying" /\ jobs[run[r].copy].status = "failed" /\ UNCHANGED jobs
          /\ run'[r].at = "idle"
      BY <1>12, EndsParts DEF CopyJobFailed
    <2>2. \A n \in DOMAIN jobs' : ~Appends(n)'
      BY <2>1 DEF AwaitInv, Awaited, SingleRun, Appends
    <2> QED  BY <2>1, <2>2
  <1>13. CASE ListVerified(r)
    BY <1>13, ListsParts DEF ListVerified
  <1>14. CASE Notified(r)
    BY <1>14, GoesParts DEF Notified, Saves
  <1>15. CASE LifeCycleHandled(r)
    BY <1>15, GoesParts DEF LifeCycleHandled, Saves
  <1>16. CASE TearDown(r)
    BY <1>16, GoesParts DEF TearDown, DeletesTmpTable
  <1>17. CASE ListNotified(r)
    BY <1>17, ListsParts DEF ListNotified
  <1>18. CASE RunDone(r)
    BY <1>18, EndsParts DEF RunDone
  <1>19. CASE InsertCopyJobFails(r)
    BY <1>19, EndsParts DEF InsertCopyJobFails
  <1> QED  BY <1>2, <1>3, <1>4, <1>5, <1>6, <1>7, <1>8, <1>9, <1>10, <1>11, <1>12, <1>13,
              <1>14, <1>15, <1>16, <1>17, <1>18, <1>19 DEF IterationAction

LEMMA VisitAwaits ==
    ASSUME TypeOK, TypeOK', AwaitInv, SingleRun, NEW r \in Run, NEW step, NEW b \in BA,
           Visits(r, step, b), step # "copying", SameSegments, \A a \in BA \ {b} : itm'[a] = itm[a],
           itm'[b].state = "pending" => itm[b].state = "pending",
           \A w \in Worker : Busy(w, b, itm[b].iteration) /\ worker[w].at = "begun" =>
              itm'[b].state \in {"running", "failed"}
    PROVE  OnTime' /\ Undisturbed' /\ Awaited'
  <1>1. /\ run[r].at = step /\ run'[r].at = step /\ run'[r].copy = run[r].copy
        /\ run'[r].todo = run[r].todo \ {b} /\ run'[r].toFail = run[r].toFail
        /\ b \in run[r].todo
        /\ UNCHANGED <<mm, worker, jobs, tmp>>
    BY VisitsParts
  <1>t. run[r].todo \subseteq BA
    BY DEF TypeOK, RunRec
  <1>2. OnTime'
    BY <1>1 DEF AwaitInv, OnTime, SameSegments
  <1>3. Undisturbed'
    <2>1. ASSUME NEW w \in Worker, worker'[w].at = "begun",
                 worker'[w].iteration = itm'[worker'[w].ba].iteration
          PROVE  itm'[worker'[w].ba].state \in {"running", "failed"}
      <3>1. CASE worker[w].ba = b
        BY <1>1, <2>1, <3>1 DEF Busy, SameSegments
      <3>2. CASE worker[w].ba # b
        BY <1>1, <2>1, <3>2, WorkerParts DEF AwaitInv, Undisturbed
      <3> QED  BY <3>1, <3>2
    <2>2. /\ run'[r].at \in {"notify", "rec_notify", "settle", "rec_settle"} =>
                \A a \in run'[r].todo : itm'[a].state \in {"verified", "notified", "done"}
          /\ run'[r].at = "single" => \A a \in run'[r].todo \ run'[r].toFail :
                itm'[a].state \in {"verified", "notified"}
      BY <1>1, <1>t DEF AwaitInv, Undisturbed
    <2> QED  BY <2>1, <2>2 DEF Undisturbed, SingleRun
  <1>4. Awaited'
    <2>1. \A n \in DOMAIN jobs' : ~Appends(n)'
      BY <1>1, NoAppending DEF AwaitInv
    <2> QED  BY <1>1, <2>1 DEF AwaitInv, Awaited, SingleRun
  <1> QED  BY <1>2, <1>3, <1>4

LEMMA SetsAwaits ==
    ASSUME TypeOK, TypeOK', AwaitInv, SingleRun, NEW r \in Run, NEW step, NEW b \in BA,
           NEW state, Sets(r, step, b, state), step # "copying",
           \/ state = "failed" \/ state = itm[b].state
           \/ state # "pending" /\ itm[b].state \in {"verified", "notified", "done"}
    PROVE  OnTime' /\ Undisturbed' /\ Awaited'
  <1>1. /\ SameSegments /\ itm'[b].state = state /\ \A a \in BA \ {b} : itm'[a] = itm[a]
    BY SetsParts DEF SameSegments
  <1>2. Visits(r, step, b)
    BY DEF Sets
  <1>3. \A w \in Worker : Busy(w, b, itm[b].iteration) /\ worker[w].at = "begun" =>
           itm[b].state \in {"running", "failed"}
    BY DEF AwaitInv, Undisturbed, Busy
  <1> QED  BY <1>1, <1>2, <1>3, VisitAwaits

LEMMA PassesAwaits ==
    ASSUME TypeOK, TypeOK', AwaitInv, SingleRun, NEW r \in Run, NEW step, NEW b \in BA,
           Visits(r, step, b), step # "copying", UNCHANGED itm
    PROVE  OnTime' /\ Undisturbed' /\ Awaited'
  <1>1. \A w \in Worker : Busy(w, b, itm[b].iteration) /\ worker[w].at = "begun" =>
           itm[b].state \in {"running", "failed"}
    BY DEF AwaitInv, Undisturbed, Busy
  <1> QED  BY <1>1, VisitAwaits DEF SameSegments

LEMMA UpdateAwaits ==
    ASSUME TypeOK, TypeOK', AwaitInv, SingleRun, NEW r \in Run, NEW b \in BA,
           UpdateTaskMetadata(r, b)
    PROVE  OnTime' /\ Undisturbed' /\ Awaited'
  <1>1. /\ run[r].at = "update" /\ run'[r].at = "update" /\ b \in run[r].todo
        /\ UNCHANGED <<mm, worker, jobs, tmp>>
    BY VisitsParts DEF UpdateTaskMetadata
  <1>t. itm[b] \in Itm /\ mm.iteration \in Nat /\ newest[b] \in Nat
    BY TaskParts
  <1>2. run[r].iteration = mm.iteration /\ itm[b].iteration < mm.iteration
    BY <1>1 DEF AwaitInv, TaskInv, Numbered, OfIteration
  <1>3. itm[b].state \notin Open
    BY <1>1 DEF AwaitInv, TaskInv, Phases
  <1>4. itm'[b] = UpdatedTask(itm[b], run[r].iteration, newest[b])
    BY DEF UpdateTaskMetadata, TypeOK
  <1>5. \A a \in BA \ {b} : itm'[a] = itm[a]
    BY DEF UpdateTaskMetadata, TypeOK
  <1>6. itm'[b].iteration = mm.iteration
    BY <1>2, <1>3, <1>4, <1>t, UpdatedParts
  <1>7. \A w \in Worker : ~Busy(w, b, mm.iteration)
    <2>1. \A w \in Worker : worker[w].iteration \in Nat
      BY WorkerParts
    <2>2. itm[b].iteration \in Nat
      BY TaskParts
    <2> QED  BY <1>2, <1>t, <2>1, <2>2 DEF AwaitInv, TaskInv, Numbered, Busy
  <1>8. OnTime'
    BY <1>1, <1>5, <1>6 DEF AwaitInv, OnTime
  <1>9. Undisturbed'
    <2>1. ASSUME NEW w \in Worker, worker'[w].at = "begun",
                 worker'[w].iteration = itm'[worker'[w].ba].iteration
          PROVE  itm'[worker'[w].ba].state \in {"running", "failed"}
      <3>1. worker[w].ba # b
        BY <1>1, <1>6, <1>7, <2>1 DEF Busy
      <3> QED  BY <1>1, <1>5, <2>1, <3>1, WorkerParts DEF AwaitInv, Undisturbed
    <2> QED  BY <1>1, <2>1 DEF Undisturbed, SingleRun
  <1>10. Awaited'
    <2>1. \A n \in DOMAIN jobs' : ~Appends(n)'
      BY <1>1, NoAppending DEF AwaitInv
    <2> QED  BY <1>1, <2>1 DEF AwaitInv, Awaited, SingleRun
  <1> QED  BY <1>8, <1>9, <1>10

LEMMA AccountAwaits ==
    ASSUME TypeOK, TypeOK', AwaitInv, SingleRun, NEW r \in Run, NEW b \in BA,
           \/ TaskAction(r, b) \/ CreateCloudTaskFails(r, b) \/ WaitFails(r, b) \/ VisitFails(r, b)
    PROVE  OnTime' /\ Undisturbed' /\ Awaited'
  <1>1. CASE MarkTaskAsFailed(r, b)
    BY <1>1, SetsAwaits DEF MarkTaskAsFailed
  <1>2. CASE SingleRecovery(r, b)
    <2>1. Visits(r, "single", b)
      BY <1>2 DEF SingleRecovery, Sets
    <2>2. b \notin run[r].toFail => itm[b].state \in {"verified", "notified"}
      BY <2>1, VisitsParts DEF AwaitInv, Undisturbed
    <2> QED  BY <1>2, <2>2, SetsAwaits DEF SingleRecovery
  <1>3. CASE UpdateTaskMetadata(r, b)
    BY <1>3, UpdateAwaits
  <1>4. CASE CreateCloudTask(r, b)
    BY <1>4, PassesAwaits DEF CreateCloudTask
  <1>5. CASE JobStarts(r, b)
    <2>1. /\ run[r].at = "wait" /\ run'[r].at = "wait"
          /\ UNCHANGED <<mm, itm, worker, jobs, tmp>>
      BY <1>5 DEF JobStarts, TypeOK, RunRec, workVars
    <2>2. \A n \in DOMAIN jobs' : ~Appends(n)'
      BY <2>1, NoAppending DEF AwaitInv
    <2>3. OnTime /\ Undisturbed /\ mm.iteration \in tmp
      BY <2>1 DEF AwaitInv, Awaited, Tabled, OfIteration
    <2> QED  BY <2>1, <2>2, <2>3, RunAwaits
  <1>6. CASE JobDoesNotStart(r, b)
    BY <1>6, SetsAwaits DEF JobDoesNotStart
  <1>7. CASE JobHandled(r, b)
    <2>1. PICK state \in {"verified", "failed"} : Sets(r, "wait", b, state)
      BY <1>7 DEF JobHandled
    <2>2. Visits(r, "wait", b) /\ run[r].job[b] # 0
      BY <1>7, <2>1 DEF JobHandled, Sets
    <2>3. CopyOf(run[r].job[b], b, itm[b].iteration)
      BY <2>2, VisitsParts DEF AwaitInv, TaskInv, Phases
    <2>4. \A w \in Worker : ~(Busy(w, b, itm[b].iteration) /\ worker[w].at = "begun")
      BY <2>3 DEF AwaitInv, TaskInv, Attempts, Busy, CopyOf
    <2>5. /\ SameSegments /\ itm'[b].state = state /\ \A a \in BA \ {b} : itm'[a] = itm[a]
      BY <2>1, SetsParts DEF SameSegments
    <2> QED  BY <2>2, <2>4, <2>5, VisitAwaits
  <1>8. CASE NotifyTask(r, b)
    <2>1. PICK step \in {"notify", "rec_notify"} : Sets(r, step, b, "notified")
      BY <1>8 DEF NotifyTask
    <2>2. Visits(r, step, b)
      BY <2>1 DEF Sets
    <2>3. itm[b].state \in {"verified", "notified", "done"}
      BY <2>2, VisitsParts DEF AwaitInv, Undisturbed
    <2> QED  BY <2>1, <2>3, SetsAwaits
  <1>9. CASE SettleTask(r, b)
    <2>1. PICK step \in {"settle", "rec_settle"}, state \in {"done", itm[b].state} :
             Sets(r, step, b, state)
      BY <1>9 DEF SettleTask
    <2>2. Visits(r, step, b)
      BY <2>1 DEF Sets
    <2>3. itm[b].state \in {"verified", "notified", "done"}
      BY <2>2, VisitsParts DEF AwaitInv, Undisturbed
    <2> QED  BY <2>1, <2>3, SetsAwaits
  <1>10. CASE CreateCloudTaskFails(r, b)
    BY <1>10, SetsAwaits DEF CreateCloudTaskFails
  <1>11. CASE WaitFails(r, b)
    BY <1>11, SetsAwaits DEF WaitFails
  <1>12. CASE VisitFails(r, b)
    BY <1>12, PassesAwaits DEF VisitFails
  <1> QED  BY <1>1, <1>2, <1>3, <1>4, <1>5, <1>6, <1>7, <1>8, <1>9, <1>10, <1>11, <1>12
           DEF TaskAction

\* What others than the run do.
LEMMA DriftAwaits ==
    ASSUME TypeOK, TypeOK', AwaitInv, TasksDrift, UNCHANGED run, mm'.iteration = mm.iteration,
           tmp \subseteq tmp',
           \A b \in BA :
              \/ itm'[b].state = itm[b].state
              \/ itm[b].state \in {"pending", "running", "failed"} /\ itm'[b].state = "failed"
              \/ itm[b].state = "pending" /\ itm'[b].state = "running"
              \/ itm[b].state = "onboarding" /\ itm'[b].state = "initializing",
           \A w \in Worker :
              \/ worker'[w].at = "idle"
              \/ /\ worker'[w].ba = worker[w].ba /\ worker'[w].iteration = worker[w].iteration
                 /\ worker[w].at # "idle"
                 /\ worker'[w].at = "begun" => worker[w].at = "begun"
                 /\ ~worker'[w].late => ~worker[w].late,
           \A n \in DOMAIN jobs :
              /\ n \in DOMAIN jobs' /\ jobs'[n].iteration = jobs[n].iteration
              /\ jobs'[n].bas = jobs[n].bas,
           \A n \in DOMAIN jobs' : Appends(n)' => n \in DOMAIN jobs /\ Appends(n)
    PROVE  OnTime' /\ Undisturbed' /\ Awaited'
  <1>1. OnTime'
    BY DEF AwaitInv, OnTime, TasksDrift, SameSegments
  <1>t. \A r \in Run : run[r].todo \subseteq BA
    BY DEF TypeOK, RunRec
  <1>2. Undisturbed'
    <2>1. ASSUME NEW w \in Worker, worker'[w].at = "begun",
                 worker'[w].iteration = itm'[worker'[w].ba].iteration
          PROVE  itm'[worker'[w].ba].state \in {"running", "failed"}
      <3>1. PICK b \in BA : b = worker[w].ba
        BY WorkerParts
      <3>2. /\ worker'[w].ba = b /\ worker[w].at = "begun"
            /\ worker[w].iteration = itm[b].iteration
        BY <2>1, <3>1 DEF TasksDrift, SameSegments
      <3>3. itm[b].state \in {"running", "failed"}
        BY <3>1, <3>2 DEF AwaitInv, Undisturbed
      <3> QED  BY <3>1, <3>2, <3>3
    <2>2. ASSUME NEW r \in Run
          PROVE  /\ run'[r].at \in {"notify", "rec_notify", "settle", "rec_settle"} =>
                       \A b \in run'[r].todo : itm'[b].state \in {"verified", "notified", "done"}
                 /\ run'[r].at = "single" => \A b \in run'[r].todo \ run'[r].toFail :
                       itm'[b].state \in {"verified", "notified"}
      BY <1>t DEF AwaitInv, Undisturbed
    <2> QED  BY <2>1, <2>2 DEF Undisturbed
  <1>3. Awaited'
    <2>1. \A n \in DOMAIN jobs' :
             Appends(n)' => \E r \in Run : run'[r].at = "copying" /\ run'[r].copy = n
      BY DEF AwaitInv, Awaited
    <2>2. ASSUME NEW r \in Run, run[r].at = "copying"
          PROVE  /\ run[r].copy \in DOMAIN jobs'
                 /\ jobs'[run[r].copy].iteration = mm.iteration
                 /\ \A b \in jobs'[run[r].copy].bas :
                       b \in BA /\ itm'[b].state = "verified" /\ itm'[b].iteration = mm.iteration
      BY <2>2 DEF AwaitInv, Awaited, TasksDrift, SameSegments
    <2>3. \A r \in Run : run[r].at \in Tabled => mm.iteration \in tmp'
      BY DEF AwaitInv, Awaited
    <2> QED  BY <2>1, <2>2, <2>3 DEF Awaited
  <1> QED  BY <1>1, <1>2, <1>3

LEMMA RunningAwaits ==
    ASSUME TypeOK, TypeOK', AwaitInv, NEW w \in Worker, NEW t \in tasks, SetRunning(w, t)
    PROVE  OnTime' /\ Undisturbed' /\ Awaited'
  <1>1. PICK b \in BA, i \in Nat : b = t.ba /\ i = t.iteration
    BY DEF TypeOK, CloudTask
  <1>2. /\ itm[b].state = "pending" /\ itm[b].iteration = i
        /\ UNCHANGED <<mm, run, jobs, tmp>>
    BY <1>1 DEF SetRunning
  <1>3. /\ itm'[b].state = "running" /\ itm'[b].iteration = i
        /\ \A a \in BA \ {b} : itm'[a] = itm[a]
    BY <1>1, <1>2 DEF SetRunning, TypeOK, Itm
  <1>4. /\ worker'[w].ba = b /\ worker'[w].iteration = i
        /\ \A v \in Worker \ {w} : worker'[v] = worker[v]
    BY <1>1 DEF SetRunning, TypeOK
  <1>5. i = mm.iteration
    BY <1>2 DEF AwaitInv, OnTime
  <1>6. OnTime'
    BY <1>2, <1>3, <1>4, <1>5 DEF AwaitInv, OnTime
  <1>7. Undisturbed'
    <2>1. ASSUME NEW v \in Worker, worker'[v].at = "begun",
                 worker'[v].iteration = itm'[worker'[v].ba].iteration
          PROVE  itm'[worker'[v].ba].state \in {"running", "failed"}
      <3>1. CASE worker'[v].ba = b
        BY <1>3, <3>1
      <3>2. CASE worker'[v].ba # b
        BY <1>3, <1>4, <2>1, <3>2, WorkerParts DEF AwaitInv, Undisturbed
      <3> QED  BY <3>1, <3>2
    <2>2. \A r \in Run : run[r].todo \subseteq BA
      BY DEF TypeOK, RunRec
    <2>3. ASSUME NEW r \in Run
          PROVE  /\ run[r].at \in {"notify", "rec_notify", "settle", "rec_settle"} =>
                       \A a \in run[r].todo : itm'[a].state \in {"verified", "notified", "done"}
                 /\ run[r].at = "single" => \A a \in run[r].todo \ run[r].toFail :
                       itm'[a].state \in {"verified", "notified"}
      BY <1>2, <1>3, <2>2 DEF AwaitInv, Undisturbed
    <2> QED  BY <1>2, <2>1, <2>3 DEF Undisturbed
  <1>8. Awaited'
    <2>1. ASSUME NEW r \in Run, run[r].at = "copying"
          PROVE  \A a \in jobs[run[r].copy].bas :
                    a \in BA /\ itm'[a].state = "verified" /\ itm'[a].iteration = mm.iteration
      BY <1>2, <1>3, <2>1 DEF AwaitInv, Awaited
    <2> QED  BY <1>2, <2>1 DEF AwaitInv, Awaited, Appends
  <1> QED  BY <1>6, <1>7, <1>8

\* The task of a delivery that fails before it has inserted its job is still open.
LEMMA DeliveryFails ==
    ASSUME TypeOK, AwaitInv, NEW w \in Worker, worker[w].at = "begun", ~worker[w].late
    PROVE  itm[worker[w].ba].state \in {"running", "failed"}
  <1>1. PICK b \in BA : b = worker[w].ba
    BY WorkerParts
  <1>2. worker[w].iteration = mm.iteration
    BY DEF AwaitInv, OnTime
  <1>3. worker[w].iteration <= itm[b].iteration /\ itm[b].iteration <= mm.iteration
    BY <1>1 DEF AwaitInv, TaskInv, Numbered
  <1>4. worker[w].iteration = itm[b].iteration
    BY <1>2, <1>3, TaskParts, WorkerParts
  <1> QED  BY <1>1, <1>4 DEF AwaitInv, Undisturbed

LEMMA WorkerAwaits ==
    ASSUME TypeOK, TypeOK', AwaitInv, NEW w \in Worker, WorkerAction(w)
    PROVE  OnTime' /\ Undisturbed' /\ Awaited'
  <1>j. UNCHANGED jobs =>
           /\ \A n \in DOMAIN jobs : /\ n \in DOMAIN jobs' /\ jobs'[n].bas = jobs[n].bas
                                     /\ jobs'[n].iteration = jobs[n].iteration
           /\ \A n \in DOMAIN jobs' : Appends(n)' => n \in DOMAIN jobs /\ Appends(n)
    BY DEF Appends
  <1>i. UNCHANGED itm => TasksDrift
    BY DEF TasksDrift, SameSegments
  <1>1. CASE \E t \in tasks : SetRunning(w, t)
    BY <1>1, RunningAwaits
  <1>2. CASE CopyFromLocalToTmpTable(w)
    <2>1. /\ \A n \in DOMAIN jobs : n \in DOMAIN jobs' /\ jobs'[n] = jobs[n]
          /\ \A n \in DOMAIN jobs' : n \in DOMAIN jobs \/ jobs'[n].kind = "to_tmp"
          /\ worker[w].at = "begun" /\ UNCHANGED <<mm, itm, run, tmp>>
      BY <1>2, JobTypes DEF CopyFromLocalToTmpTable
    <2>2. /\ worker'[w].at = "inserted" /\ worker'[w].ba = worker[w].ba
          /\ worker'[w].iteration = worker[w].iteration /\ worker'[w].late = worker[w].late
          /\ \A v \in Worker \ {w} : worker'[v] = worker[v]
      BY <1>2 DEF CopyFromLocalToTmpTable, TypeOK, WorkerRec
    <2>3. \A v \in Worker :
             \/ worker'[v].at = "idle"
             \/ /\ worker'[v].ba = worker[v].ba /\ worker'[v].iteration = worker[v].iteration
                /\ worker[v].at # "idle"
                /\ worker'[v].at = "begun" => worker[v].at = "begun"
                /\ ~worker'[v].late => ~worker[v].late
      BY <2>1, <2>2
    <2>4. \A n \in DOMAIN jobs' : Appends(n)' => n \in DOMAIN jobs /\ Appends(n)
      BY <2>1 DEF Appends
    <2> QED  BY <1>i, <2>1, <2>3, <2>4, DriftAwaits
  <1>3. CASE CopyFromLocalToTmpTableFails(w)
    <2>1. PICK b \in BA : b = worker[w].ba
      BY WorkerParts
    <2>2. /\ worker[w].at = "begun" /\ ~worker[w].late /\ UNCHANGED <<mm, run, jobs, tmp>>
          /\ itm' = [itm EXCEPT ![b].state = "failed"]
          /\ worker'[w].at = "idle" /\ \A v \in Worker \ {w} : worker'[v] = worker[v]
      BY <1>3, <2>1 DEF CopyFromLocalToTmpTableFails, TypeOK, IdleWorker
    <2>3. itm[b].state \in {"running", "failed"}
      BY <2>1, <2>2, DeliveryFails
    <2>4. TasksDrift /\ itm'[b].state = "failed" /\ \A a \in BA \ {b} : itm'[a] = itm[a]
      BY ZenonT(60), <2>2 DEF TasksDrift, SameSegments, TypeOK, Itm
    <2>5. \A v \in Worker : worker'[v].at = "idle" \/ worker'[v] = worker[v]
      BY <2>2
    <2> QED  BY <1>j, <2>2, <2>3, <2>4, <2>5, DriftAwaits
  <1>4. CASE RecordJob(w)
    <2>1. PICK b \in BA, k \in Nat : b = worker[w].ba /\ k = worker[w].job
      BY WorkerParts
    <2>2. /\ UNCHANGED <<mm, run, jobs, tmp>> /\ itm' = [itm EXCEPT ![b].job = k]
          /\ worker'[w].at = "idle" /\ \A v \in Worker \ {w} : worker'[v] = worker[v]
      BY <1>4, <2>1 DEF RecordJob, TypeOK, IdleWorker
    <2>3. TasksDrift /\ \A a \in BA : itm'[a].state = itm[a].state
      BY ZenonT(90), <2>2 DEF TasksDrift, SameSegments, TypeOK, Itm
    <2>4. \A v \in Worker : worker'[v].at = "idle" \/ worker'[v] = worker[v]
      BY <2>2
    <2> QED  BY <1>j, <2>2, <2>3, <2>4, DriftAwaits
  <1>5. CASE WorkerEnds(w)
    <2>1. /\ UNCHANGED <<mm, itm, run, jobs, tmp>>
          /\ worker'[w].at = "idle" /\ \A v \in Worker \ {w} : worker'[v] = worker[v]
      BY <1>5 DEF WorkerEnds, TypeOK, IdleWorker
    <2>2. \A v \in Worker : worker'[v].at = "idle" \/ worker'[v] = worker[v]
      BY <2>1
    <2> QED  BY <1>i, <1>j, <2>1, <2>2, DriftAwaits
  <1> QED  BY <1>1, <1>2, <1>3, <1>4, <1>5 DEF WorkerAction

LEMMA EnvironmentAwaits ==
    ASSUME TypeOK, TypeOK', AwaitInv, Environment
    PROVE  OnTime' /\ Undisturbed' /\ Awaited'
  <1> USE DEF workVars
  <1>j. UNCHANGED jobs =>
           /\ \A n \in DOMAIN jobs : /\ n \in DOMAIN jobs' /\ jobs'[n].bas = jobs[n].bas
                                     /\ jobs'[n].iteration = jobs[n].iteration
           /\ \A n \in DOMAIN jobs' : Appends(n)' => n \in DOMAIN jobs /\ Appends(n)
    BY DEF Appends
  <1>i. UNCHANGED itm => TasksDrift
    BY DEF TasksDrift, SameSegments
  <1>1. CASE TTLExpires \/ RecoveringTTLExpires
    <2>1. mm'.iteration = mm.iteration /\ UNCHANGED <<run, itm, worker, jobs, tmp>>
      BY <1>1 DEF TTLExpires, RecoveringTTLExpires, TypeOK, Manager
    <2> QED  BY <1>i, <1>j, <2>1, DriftAwaits
  <1>2. ASSUME NEW b \in BA, RecordsArrive(b)  PROVE OnTime' /\ Undisturbed' /\ Awaited'
    <2>1. UNCHANGED <<mm, run, itm, worker, jobs, tmp>>
      BY <1>2 DEF RecordsArrive
    <2> QED  BY <1>i, <1>j, <2>1, DriftAwaits
  <1>3. ASSUME NEW b \in BA, MarkOnboardingDone(b)  PROVE OnTime' /\ Undisturbed' /\ Awaited'
    <2>1. /\ itm[b].state = "onboarding" /\ UNCHANGED <<mm, run, worker, jobs, tmp>>
          /\ itm' = [itm EXCEPT ![b].state = "initializing"]
      BY <1>3 DEF MarkOnboardingDone
    <2>2. TasksDrift /\ itm'[b].state = "initializing" /\ \A a \in BA \ {b} : itm'[a] = itm[a]
      BY ZenonT(60), <2>1 DEF TasksDrift, SameSegments, TypeOK, Itm
    <2> QED  BY <1>j, <2>1, <2>2, DriftAwaits
  <1>4. ASSUME NEW b \in BA, DeadlinePasses(b)  PROVE OnTime' /\ Undisturbed' /\ Awaited'
    <2>1. UNCHANGED <<mm, run, jobs, tmp>> /\ itm' = [itm EXCEPT ![b].late = TRUE]
      BY <1>4 DEF DeadlinePasses
    <2>2. TasksDrift /\ \A a \in BA : itm'[a].state = itm[a].state
      BY ZenonT(60), <2>1 DEF TasksDrift, SameSegments, TypeOK, Itm
    <2>3. \A w \in Worker : worker'[w] = worker[w] \/ worker'[w] = [worker[w] EXCEPT !.late = TRUE]
      BY <1>4 DEF DeadlinePasses
    <2>4. \A w \in Worker : /\ worker'[w].at = worker[w].at /\ worker'[w].ba = worker[w].ba
                            /\ worker'[w].iteration = worker[w].iteration
                            /\ ~worker'[w].late => ~worker[w].late
      BY SMTT(40), <2>3 DEF TypeOK, WorkerRec
    <2> QED  BY <1>j, <2>1, <2>2, <2>4, DriftAwaits
  <1>5. ASSUME NEW n \in DOMAIN jobs, JobFinishes(n)  PROVE OnTime' /\ Undisturbed' /\ Awaited'
    <2>1. UNCHANGED <<mm, itm, run, worker>> /\ tmp \subseteq tmp'
      BY <1>5 DEF JobFinishes
    <2>2. NoNewAttempt
      BY <1>5, FinishesAttempt
    <2>3. PICK s \in {"done", "failed"} : jobs' = [jobs EXCEPT ![n].status = s]
      BY <1>5 DEF JobFinishes
    <2>4. jobs'[n].status # "running" /\ \A m \in DOMAIN jobs \ {n} : jobs'[m] = jobs[m]
      BY <2>3, JobTypes DEF Job
    <2>5. DOMAIN jobs' = DOMAIN jobs
      BY <2>3
    <2>6. \A m \in DOMAIN jobs' : Appends(m)' => m \in DOMAIN jobs /\ Appends(m)
      BY <2>4, <2>5 DEF Appends
    <2> QED  BY <1>i, <2>1, <2>2, <2>6, DriftAwaits DEF NoNewAttempt
  <1> QED  BY <1>1, <1>2, <1>3, <1>4, <1>5 DEF Environment

LEMMA InitAwaits == Init => AwaitInv
  <1> SUFFICES ASSUME Init PROVE AwaitInv
    OBVIOUS
  <1>1. /\ \A b \in BA : itm[b].state = "onboarding"
        /\ \A r \in Run : run[r].at = "idle"
        /\ \A w \in Worker : worker[w].at = "idle"
        /\ jobs = <<>>
    BY DEF Init, IdleRun, IdleWorker
  <1> QED  BY <1>1, InitTasks DEF AwaitInv, OnTime, Undisturbed, Awaited, Tabled, OfIteration

LEMMA StepAwaits ==
    ASSUME SingleRun, Awaiting, TypeOK, AwaitInv, [Next]_vars
    PROVE  AwaitInv'
  <1>t. TypeOK'
    BY StepTypes
  <1>0. TaskInv'
    BY StepTasks DEF AwaitInv
  <1>1. CASE UNCHANGED vars
    BY <1>0, <1>1 DEF AwaitInv, OnTime, Undisturbed, Awaited, Appends, vars
  <1>2. ASSUME NEW r \in Run, Works(r)  PROVE OnTime' /\ Undisturbed' /\ Awaited'
    BY <1>t, <1>2, RecoveryAwaits, CatchAwaits, IterationAwaits, AccountAwaits DEF Works
  <1>3. ASSUME NEW r \in Run, Falters(r)  PROVE OnTime' /\ Undisturbed' /\ Awaited'
    BY <1>t, <1>3, RecoveryAwaits, CatchAwaits, IterationAwaits, AccountAwaits DEF Falters
  <1>4. ASSUME NEW w \in Worker, WorkerAction(w)  PROVE OnTime' /\ Undisturbed' /\ Awaited'
    BY <1>t, <1>4, WorkerAwaits
  <1>5. CASE Environment
    BY <1>0, <1>t, <1>5, EnvironmentAwaits DEF AwaitInv
  <1> QED  BY <1>0, <1>1, <1>2, <1>3, <1>4, <1>5 DEF Next, AwaitInv

\* A single invocation of the manager, repeated, awaits its copy job (CopyJobAwaited).
LEMMA SingleRunAwaits ==
    ASSUME SingleRun, Awaiting
    PROVE  Spec => []CopyJobAwaited
  <1>1. Init => TypeOK /\ AwaitInv
    BY InitTypes, InitAwaits
  <1>2. TypeOK /\ AwaitInv /\ [Next]_vars => (TypeOK /\ AwaitInv)'
    BY StepTypes, StepAwaits
  <1>3. TypeOK /\ AwaitInv => CopyJobAwaited
    BY AwaitInvMeans
  <1> QED  BY <1>1, <1>2, <1>3, PTL DEF Spec

-----------------------------------------------------------------------------
(* Without mishaps, the manager copies one segment after another.          *)

Missing(b) == \A x \in Records : itm[b].start < x /\ x <= itm[b].end => unified[b][x] = 0

\* The rows of a segment are not in the unified table until the job of its iteration has
\* ended, and none is there twice or ahead of its segment.
Segments ==
    \A b \in BA :
        /\ itm[b].start <= itm[b].end /\ itm[b].end <= newest[b]
        /\ itm[b].state \in {"onboarding", "initializing"} => itm[b].end = 0
        /\ \A x \in Records : unified[b][x] <= 1 /\ (x > itm[b].end => unified[b][x] = 0)

Unrepeated ==
    \A b \in BA :
        /\ itm[b].state \in {"pending", "running", "failed"} => Missing(b)
        /\ itm[b].state = "verified" /\ ~Missing(b) =>
              \/ mm.state \in Resting
              \/ \E r \in Run : run[r].at = "copying" /\ jobs[run[r].copy].status = "done"

\* The accounts that a run may mark as failed.
Failable ==
    \A r \in Run :
        /\ run[r].at = "rec_fail" => \A b \in run[r].todo : itm[b].state = "verified"
        /\ run[r].at = "create" =>
              \A b \in run[r].todo : itm[b].state \in {"pending", "running", "failed"}
        /\ run[r].at = "single" => \A b \in run[r].todo \cap run[r].toFail :
              itm[b].state \in {"pending", "running", "failed"}

Exact == Segments /\ Unrepeated /\ Failable

ExactInv == CopyInv /\ AwaitInv /\ Exact

LEMMA SameMissing ==
    ASSUME SameSegments, UNCHANGED unified
    PROVE  \A b \in BA : Missing(b)' <=> Missing(b)
  BY DEF SameSegments, Missing

LEMMA SameSegmentsKept ==
    ASSUME TypeOK, TypeOK', Segments, SameSegments, UNCHANGED unified,
           \A b \in BA : newest[b] <= newest'[b],
           \A b \in BA : itm'[b].state \in {"onboarding", "initializing"} =>
              itm[b].state \in {"onboarding", "initializing"}
    PROVE  Segments'
  <1> SUFFICES ASSUME NEW b \in BA
               PROVE  /\ itm'[b].start <= itm'[b].end /\ itm'[b].end <= newest'[b]
                      /\ itm'[b].state \in {"onboarding", "initializing"} => itm'[b].end = 0
                      /\ \A x \in Records :
                            unified'[b][x] <= 1 /\ (x > itm'[b].end => unified'[b][x] = 0)
    BY DEF Segments
  <1>1. /\ itm[b].end \in Nat /\ newest[b] \in Nat /\ newest'[b] \in Nat
    BY TaskParts DEF TypeOK
  <1> QED  BY <1>1 DEF Segments, SameSegments

LEMMA RunExact ==
    ASSUME TypeOK, TypeOK', Segments, Unrepeated, SingleRun, NEW r \in Run,
           UNCHANGED <<newest, itm, unified>>,
           \A b \in BA : itm[b].state = "verified" /\ ~Missing(b) =>
              \/ mm'.state \in Resting
              \/ run'[r].at = "copying" /\ jobs'[run'[r].copy].status = "done",
           run'[r].at = "rec_fail" =>
              \A b \in run'[r].todo : itm[b].state = "verified",
           run'[r].at = "create" =>
              \A b \in run'[r].todo : itm[b].state \in {"pending", "running", "failed"},
           run'[r].at = "single" => \A b \in run'[r].todo \cap run'[r].toFail :
              itm[b].state \in {"pending", "running", "failed"}
    PROVE  Exact'
  <1>0. SameSegments /\ \A b \in BA : newest[b] <= newest'[b]
    BY DEF SameSegments, TypeOK
  <1>1. \A b \in BA : Missing(b)' <=> Missing(b)
    BY <1>0, SameMissing
  <1>2. Segments'
    BY <1>0, SameSegmentsKept
  <1>3. Unrepeated'
    BY <1>1 DEF Unrepeated
  <1>4. Failable'
    BY DEF Failable, SingleRun
  <1> QED  BY <1>2, <1>3, <1>4 DEF Exact

\* A verified task whose rows are not all missing, at the steps of a run.
LEMMA AppendedParts ==
    ASSUME Unrepeated, SingleRun, NEW r \in Run, NEW b \in BA, itm[b].state = "verified",
           ~Missing(b)
    PROVE  \/ mm.state \in Resting
           \/ run[r].at = "copying" /\ jobs[run[r].copy].status = "done"
  BY DEF Unrepeated, SingleRun

LEMMA RecoveryExact ==
    ASSUME TypeOK, TypeOK', ExactInv, SingleRun, Mishap = {}, NEW r \in Run,
           \/ GeneralRecovery(r) \/ RecoveryAction(r) \/ CatchFails(r) \/ RunFails(r)
    PROVE  Exact'
  <1> USE DEF Failing, OfIteration, workVars
  <1>s. \A s : [mm EXCEPT !.state = s].state = s
    BY DEF TypeOK, Manager
  <1>c. Segments /\ Unrepeated
    BY DEF ExactInv, Exact
  <1>a. \A b \in BA : itm[b].state = "verified" /\ ~Missing(b) =>
           \/ mm.state \in Resting
           \/ run[r].at = "copying" /\ jobs[run[r].copy].status = "done"
    BY <1>c, AppendedParts
  <1>r. run[r].at \in Failing => mm.state \notin Resting
    BY DEF ExactInv, CopyInv, Relied
  <1>f. \A b \in run[r].todo : run[r].at = "rec_fail" => itm[b].state = "verified"
    BY DEF ExactInv, Exact, Failable
  <1> USE <1>a, <1>c, <1>r, RunExact
  <1>1. CASE GeneralRecovery(r)
    BY <1>1, GoesParts DEF GeneralRecovery
  <1>2. CASE CatchFails(r)
    BY <1>2, EndsParts DEF CatchFails
  <1>3. CASE RunFails(r)
    BY <1>3, EndsParts DEF RunFails
  <1>4. CASE ClaimRecovery(r)
    <2>1. /\ run'[r].at = RecoveryStep(mm.state) /\ run[r].at = "claim" /\ mm'.state = mm.state
          /\ UNCHANGED <<newest, itm, unified, jobs>>
      BY <1>4 DEF ClaimRecovery, TypeOK, RunRec, Manager
    <2>2. run'[r].at \in {"rec_done", "rec_list_notify", "rec_list_settle", "rec_delete"}
      BY <2>1 DEF RecoveryStep
    <2> QED  BY SMTT(40), <2>1, <2>2
  <1>5. CASE RecoveryDeletes(r)
    BY <1>5, GoesParts DEF RecoveryDeletes, DeletesTmpTable
  <1>6. CASE RecoveryFails(r)
    BY <1>6, <1>s, GoesParts DEF RecoveryFails, Saves
  <1>7. CASE ListVerifiedToFail(r)
    BY <1>7, ListsParts DEF ListVerifiedToFail
  <1>8. CASE TasksMarkedAsFailed(r)
    BY <1>8, GoesParts DEF TasksMarkedAsFailed
  <1>9. CASE RecoveryDone(r)
    BY <1>9, <1>s, GoesParts DEF RecoveryDone, Saves, Resting
  <1>10. CASE RecoveryLists(r)
    BY <1>10, ListsParts DEF RecoveryLists
  <1>11. CASE RecoveryNotified(r)
    BY <1>11, <1>s, GoesParts DEF RecoveryNotified, Saves, Resting
  <1>12. CASE ListNotifiedToSettle(r)
    <2>1. run[r].at = "rec_list_settle" /\ UNCHANGED <<newest, mm, itm, unified, jobs>>
      BY <1>12 DEF ListNotifiedToSettle
    <2> QED  BY <1>12, <2>1, ListNotifiedParts
  <1>13. CASE RecoverySettled(r)
    BY <1>13, <1>s, GoesParts DEF RecoverySettled, Saves, Resting
  <1>14. CASE RecoveryTimeIsUp(r)
    BY <1>14, EndsParts DEF RecoveryTimeIsUp
  <1>15. CASE ListAllTasks(r)
    <2>1. /\ run[r].at = "list_all" /\ run'[r].at = "single"
          /\ \A b \in run'[r].toFail : itm[b].state \in {"pending", "running"}
          /\ UNCHANGED <<newest, mm, itm, unified, jobs>>
      BY ZenonT(60), <1>15 DEF ListAllTasks, TypeOK, RunRec
    <2> QED  BY SMTT(40), <2>1
  <1>16. CASE TasksRecovered(r)
    BY <1>16, GoesParts DEF TasksRecovered
  <1> QED  BY <1>1, <1>2, <1>3, <1>4, <1>5, <1>6, <1>7, <1>8, <1>9, <1>10, <1>11, <1>12, <1>13,
              <1>14, <1>15, <1>16 DEF RecoveryAction

LEMMA IterationExact ==
    ASSUME TypeOK, TypeOK', ExactInv, SingleRun, Mishap = {}, NEW r \in Run,
           IterationAction(r) \/ InsertCopyJobFails(r)
    PROVE  Exact'
  <1> USE DEF workVars
  <1>s. \A s : [mm EXCEPT !.state = s].state = s
    BY DEF TypeOK, Manager
  <1>c. Segments /\ Unrepeated
    BY DEF ExactInv, Exact
  <1>a. \A b \in BA : itm[b].state = "verified" /\ ~Missing(b) =>
           \/ mm.state \in Resting
           \/ run[r].at = "copying" /\ jobs[run[r].copy].status = "done"
    BY <1>c, AppendedParts
  <1>r. run[r].at \in {"list_pending", "create", "list_waiting", "wait", "copy", "copying"} =>
           mm.state \notin Resting
    BY DEF ExactInv, CopyInv, Relied
  <1>v. run[r].at \in {"catch", "table", "list_active", "update", "list_pending", "create",
                       "list_waiting"} => \A b \in BA : itm[b].state # "verified"
    BY DEF ExactInv, CopyInv, TaskInv, Phases, Open
  <1> USE <1>a, <1>c, <1>r, <1>v, RunExact
  <1>1. CASE Catch(r)
    <2>1. run[r].at = "catch" /\ run'[r].at = "table" /\ UNCHANGED <<newest, itm, unified>>
      BY <1>1 DEF Catch, TypeOK, RunRec
    <2> QED  BY <2>1
  <1>2. CASE CreateTmpTable(r)
    BY <1>2, GoesParts DEF CreateTmpTable
  <1>3. CASE ListActiveTasks(r)
    <2>1. /\ run[r].at = "list_active" /\ run'[r].at = "update"
          /\ UNCHANGED <<newest, itm, unified>>
      BY <1>3 DEF ListActiveTasks, TypeOK, RunRec
    <2> QED  BY <2>1
  <1>4. CASE TasksUpdated(r)
    BY <1>4, GoesParts DEF TasksUpdated, Saves
  <1>5. CASE ListPending(r)
    BY <1>5, ListsParts DEF ListPending
  <1>6. CASE TasksCreated(r)
    BY <1>6, GoesParts DEF TasksCreated, Saves
  <1>7. CASE ListWaiting(r)
    <2>1. /\ run[r].at = "list_waiting" /\ run'[r].at = "wait"
          /\ UNCHANGED <<newest, itm, unified>>
      BY ZenonT(60), <1>7 DEF ListWaiting, TypeOK, RunRec
    <2> QED  BY SMTT(40), <2>1
  <1>8. CASE TasksDone(r)
    BY <1>8, GoesParts DEF TasksDone, Saves
  <1>9. CASE NothingToCopy(r)
    BY <1>9, GoesParts DEF NothingToCopy, Saves
  <1>10. CASE InsertCopyJob(r)
    <2>1. /\ run[r].at = "copy" /\ run'[r].at = "copying" /\ UNCHANGED <<newest, itm, unified>>
      BY <1>10 DEF InsertCopyJob, TypeOK, RunRec
    <2> QED  BY <2>1
  <1>11. CASE CopyJobDone(r)
    BY <1>11, <1>s, GoesParts DEF CopyJobDone, Resting
  <1>12. CASE CopyJobFailed(r)
    BY <1>12, EndsParts DEF CopyJobFailed
  <1>13. CASE ListVerified(r)
    BY <1>13, ListsParts DEF ListVerified
  <1>14. CASE Notified(r)
    BY <1>14, <1>s, GoesParts DEF Notified, Saves, Resting
  <1>15. CASE LifeCycleHandled(r)
    BY <1>15, <1>s, GoesParts DEF LifeCycleHandled, Saves, Resting
  <1>16. CASE TearDown(r)
    BY <1>16, GoesParts DEF TearDown, DeletesTmpTable
  <1>17. CASE ListNotified(r)
    BY <1>17, ListsParts DEF ListNotified
  <1>18. CASE RunDone(r)
    BY <1>18, <1>s, EndsParts DEF RunDone, Resting
  <1>19. CASE InsertCopyJobFails(r)
    BY <1>19, EndsParts DEF InsertCopyJobFails
  <1> QED  BY <1>1, <1>2, <1>3, <1>4, <1>5, <1>6, <1>7, <1>8, <1>9, <1>10, <1>11, <1>12, <1>13,
              <1>14, <1>15, <1>16, <1>17, <1>18, <1>19 DEF IterationAction

LEMMA VisitExact ==
    ASSUME TypeOK, TypeOK', ExactInv, SingleRun, NEW r \in Run, NEW step, NEW b \in BA,
           Visits(r, step, b), step # "copying", SameSegments,
           \A a \in BA \ {b} : itm'[a] = itm[a],
           itm'[b].state \in {"onboarding", "initializing"} =>
              itm[b].state \in {"onboarding", "initializing"},
           itm'[b].state \in {"pending", "running", "failed"} => Missing(b),
           itm'[b].state = "verified" => itm[b].state = "verified" \/ Missing(b)
    PROVE  Exact'
  <1>1. /\ run[r].at = step /\ run'[r].at = step
        /\ run'[r].todo = run[r].todo \ {b} /\ run'[r].toFail = run[r].toFail
        /\ UNCHANGED <<newest, mm, jobs, unified>>
    BY VisitsParts
  <1>t. run[r].todo \subseteq BA
    BY DEF TypeOK, RunRec
  <1>2. \A a \in BA : Missing(a)' <=> Missing(a)
    BY <1>1, SameMissing
  <1>c. Segments /\ Unrepeated /\ Failable
    BY DEF ExactInv, Exact
  <1>3. Segments'
    <2>1. \A a \in BA : newest[a] <= newest'[a]
      BY <1>1 DEF TypeOK
    <2> QED  BY <1>1, <1>c, <2>1, SameSegmentsKept
  <1>4. Unrepeated'
    <2> SUFFICES ASSUME NEW a \in BA
                 PROVE  /\ itm'[a].state \in {"pending", "running", "failed"} => Missing(a)
                        /\ itm'[a].state = "verified" /\ ~Missing(a) => mm'.state \in Resting
      BY <1>2 DEF Unrepeated
    <2>1. itm[a].state = "verified" /\ ~Missing(a) => mm.state \in Resting
      BY <1>1, <1>c, AppendedParts
    <2> QED  BY <1>1, <1>c, <2>1 DEF Unrepeated
  <1>5. Failable'
    BY <1>1, <1>c, <1>t DEF Failable, SingleRun
  <1> QED  BY <1>3, <1>4, <1>5 DEF Exact

LEMMA SetsExact ==
    ASSUME TypeOK, TypeOK', ExactInv, SingleRun, NEW r \in Run, NEW step, NEW b \in BA,
           NEW state, Sets(r, step, b, state), step # "copying",
           \/ state = itm[b].state
           \/ state \in {"notified", "done"}
           \/ state \in {"verified", "failed"} /\ Missing(b)
    PROVE  Exact'
  <1>1. /\ SameSegments /\ itm'[b].state = state /\ \A a \in BA \ {b} : itm'[a] = itm[a]
    BY SetsParts DEF SameSegments
  <1>2. Visits(r, step, b)
    BY DEF Sets
  <1>3. itm[b].state \in {"pending", "running", "failed"} => Missing(b)
    BY DEF ExactInv, Exact, Unrepeated
  <1> QED  BY <1>1, <1>2, <1>3, VisitExact

LEMMA PassesExact ==
    ASSUME TypeOK, TypeOK', ExactInv, SingleRun, NEW r \in Run, NEW step, NEW b \in BA,
           Visits(r, step, b), step # "copying", UNCHANGED itm
    PROVE  Exact'
  <1>1. itm[b].state \in {"pending", "running", "failed"} => Missing(b)
    BY DEF ExactInv, Exact, Unrepeated
  <1> QED  BY <1>1, VisitExact DEF SameSegments

\* What updateTaskMetadata does to the segment.
LEMMA UpdateSegment ==
    ASSUME TypeOK, TypeOK', ExactInv, NEW r \in Run, NEW b \in BA, UpdateTaskMetadata(r, b)
    PROVE  /\ UNCHANGED <<newest, unified>> /\ \A a \in BA \ {b} : itm'[a] = itm[a]
           /\ itm'[b].state \notin {"running", "verified", "notified", "failed"}
           /\ \/ /\ itm'[b].start = itm[b].start /\ itm'[b].end = itm[b].end
                 /\ itm'[b].state = "pending" => itm[b].state = "failed"
                 /\ itm'[b].state \in {"onboarding", "initializing"} =>
                       itm[b].state \in {"onboarding", "initializing"}
              \/ /\ itm'[b].start = itm[b].end
                 /\ itm[b].end <= itm'[b].end /\ itm'[b].end <= newest[b]
                 /\ itm[b].state = "done" \/ itm[b].end = 0
                 /\ itm'[b].state \in {"pending", "skipped"}
  <1>1. run[r].at = "update" /\ b \in run[r].todo /\ UNCHANGED <<newest, unified>>
    BY VisitsParts DEF UpdateTaskMetadata
  <1>2. itm'[b] = UpdatedTask(itm[b], run[r].iteration, newest[b])
    BY DEF UpdateTaskMetadata, TypeOK
  <1>3. \A a \in BA \ {b} : itm'[a] = itm[a]
    BY DEF UpdateTaskMetadata, TypeOK
  <1>t. /\ itm[b] \in Itm /\ run[r].iteration \in Nat /\ newest[b] \in Nat
        /\ itm[b].end \in Nat
    BY TaskParts DEF TypeOK, RunRec
  <1>4. itm[b].state \notin Open
    BY <1>1 DEF ExactInv, CopyInv, TaskInv, Phases
  <1>5. itm[b].end <= newest[b] /\ (itm[b].state = "initializing" => itm[b].end = 0)
    BY DEF ExactInv, Exact, Segments
  <1>6. LET u == UpdatedTask(itm[b], run[r].iteration, newest[b]) IN
        /\ u.state \notin {"running", "verified", "notified", "failed"}
        /\ u.state \in {"onboarding", "initializing"} => u.state = itm[b].state
        /\ \/ u.start = itm[b].start /\ u.end = itm[b].end
              /\ (u.state = "pending" => itm[b].state = "failed")
           \/ /\ u.start = itm[b].end
              /\ u.end = IF itm[b].end + Interval < newest[b] THEN itm[b].end + Interval
                         ELSE newest[b]
              /\ \/ itm[b].state = "done" \/ itm[b].state = "initializing"
                 \/ itm[b].state = "failed" /\ itm[b].end = 0
              /\ u.state = "pending" \/ u.state = "skipped"
    BY SMTT(40), <1>4, <1>t, UpdatedParts
  <1> QED  BY <1>1, <1>2, <1>3, <1>5, <1>6, <1>t, InternalBoundsAssumption

LEMMA UpdateExact ==
    ASSUME TypeOK, TypeOK', ExactInv, SingleRun, NEW r \in Run, NEW b \in BA,
           UpdateTaskMetadata(r, b)
    PROVE  Exact'
  <1>1. /\ run[r].at = "update" /\ run'[r].at = "update" /\ UNCHANGED <<mm, jobs>>
    BY VisitsParts DEF UpdateTaskMetadata
  <1>2. UNCHANGED <<newest, unified>> /\ \A a \in BA \ {b} : itm'[a] = itm[a]
    BY UpdateSegment
  <1>3. \A a \in BA \ {b} : Missing(a)' <=> Missing(a)
    BY <1>2 DEF Missing
  <1>c. Segments /\ Unrepeated
    BY DEF ExactInv, Exact
  <1>t. /\ itm[b].start \in Nat /\ itm[b].end \in Nat /\ newest[b] \in Nat
        /\ itm'[b].start \in Nat /\ itm'[b].end \in Nat
    BY TaskParts DEF TypeOK, Itm
  <1>4. CASE /\ itm'[b].start = itm[b].start /\ itm'[b].end = itm[b].end
             /\ itm'[b].state = "pending" => itm[b].state = "failed"
             /\ itm'[b].state \in {"onboarding", "initializing"} =>
                   itm[b].state \in {"onboarding", "initializing"}
             /\ itm'[b].state \notin {"running", "verified", "notified", "failed"}
    <2>1. Missing(b)' <=> Missing(b)
      BY <1>2, <1>4 DEF Missing
    <2>2. Segments'
      BY <1>2, <1>4, <1>c DEF Segments
    <2>3. Unrepeated'
      <3>1. itm'[b].state \in {"pending", "running", "failed"} => Missing(b)'
        BY <1>4, <1>c, <2>1 DEF Unrepeated
      <3> QED  BY <1>1, <1>2, <1>3, <1>4, <1>c, <3>1, AppendedParts DEF Unrepeated
    <2>4. Failable'
      BY <1>1 DEF Failable, SingleRun
    <2> QED  BY <2>2, <2>3, <2>4 DEF Exact
  <1>5. CASE /\ itm'[b].start = itm[b].end
             /\ itm[b].end <= itm'[b].end /\ itm'[b].end <= newest[b]
             /\ itm'[b].state \in {"pending", "skipped"}
    <2>1. Missing(b)'
      BY <1>2, <1>5, <1>c DEF Missing, Segments
    <2>2. Segments'
      <3>1. \A x \in Records : unified[b][x] <= 1 /\ (x > itm'[b].end => unified[b][x] = 0)
        BY <1>5, <1>c, <1>t DEF Segments, Records
      <3> QED  BY <1>2, <1>5, <1>c, <3>1 DEF Segments
    <2>3. Unrepeated'
      BY <1>1, <1>2, <1>3, <1>5, <1>c, <2>1, AppendedParts DEF Unrepeated
    <2>4. Failable'
      BY <1>1 DEF Failable, SingleRun
    <2> QED  BY <2>2, <2>3, <2>4 DEF Exact
  <1> QED  BY <1>4, <1>5, UpdateSegment

LEMMA AccountExact ==
    ASSUME TypeOK, TypeOK', ExactInv, SingleRun, NEW r \in Run, NEW b \in BA,
           \/ TaskAction(r, b) \/ CreateCloudTaskFails(r, b) \/ WaitFails(r, b) \/ VisitFails(r, b)
    PROVE  Exact'
  <1>m. itm[b].state \in {"pending", "running", "failed"} => Missing(b)
    BY DEF ExactInv, Exact, Unrepeated
  <1>w. run[r].at = "wait" /\ b \in run[r].todo => Missing(b)
    BY <1>m DEF ExactInv, CopyInv, TaskInv, Phases
  <1>f. \A step, state : Sets(r, step, b, state) => run[r].at = step /\ b \in run[r].todo
    BY DEF Sets, Visits
  <1>1. CASE MarkTaskAsFailed(r, b)
    <2>1. run[r].at = "rec_fail" /\ b \in run[r].todo
      BY <1>1, <1>f DEF MarkTaskAsFailed
    <2>2. itm[b].state = "verified" /\ mm.state \notin Resting
      BY <2>1 DEF ExactInv, Exact, Failable, CopyInv, Relied, Failing
    <2>3. Missing(b)
      BY <2>1, <2>2, AppendedParts DEF ExactInv, Exact
    <2> QED  BY <1>1, <2>3, SetsExact DEF MarkTaskAsFailed
  <1>2. CASE SingleRecovery(r, b)
    <2>1. run[r].at = "single" /\ b \in run[r].todo
      BY <1>2, <1>f DEF SingleRecovery
    <2>2. b \in run[r].toFail => Missing(b)
      BY <1>m, <2>1 DEF ExactInv, Exact, Failable
    <2> QED  BY <1>2, <2>2, SetsExact DEF SingleRecovery
  <1>3. CASE UpdateTaskMetadata(r, b)
    BY <1>3, UpdateExact
  <1>4. CASE CreateCloudTask(r, b)
    BY <1>4, PassesExact DEF CreateCloudTask
  <1>5. CASE JobStarts(r, b)
    <2>1. /\ run[r].at = "wait" /\ run'[r].at = "wait"
          /\ UNCHANGED <<newest, mm, itm, jobs, unified>>
      BY <1>5 DEF JobStarts, TypeOK, RunRec, workVars
    <2>2. Segments /\ Unrepeated
      BY DEF ExactInv, Exact
    <2> QED  BY <2>1, <2>2, AppendedParts, RunExact
  <1>6. CASE JobDoesNotStart(r, b)
    BY <1>6, <1>f, <1>w, SetsExact DEF JobDoesNotStart
  <1>7. CASE JobHandled(r, b)
    BY <1>7, <1>f, <1>w, SetsExact DEF JobHandled
  <1>8. CASE NotifyTask(r, b)
    BY <1>8, SetsExact DEF NotifyTask
  <1>9. CASE SettleTask(r, b)
    BY <1>9, SetsExact DEF SettleTask
  <1>10. CASE CreateCloudTaskFails(r, b)
    <2>1. run[r].at = "create" /\ b \in run[r].todo
      BY <1>10, <1>f DEF CreateCloudTaskFails
    <2>2. Missing(b)
      BY <1>m, <2>1 DEF ExactInv, Exact, Failable
    <2> QED  BY <1>10, <2>2, SetsExact DEF CreateCloudTaskFails
  <1>11. CASE WaitFails(r, b)
    BY <1>11, <1>f, <1>w, SetsExact DEF WaitFails
  <1>12. CASE VisitFails(r, b)
    BY <1>12, PassesExact DEF VisitFails
  <1> QED  BY <1>1, <1>2, <1>3, <1>4, <1>5, <1>6, <1>7, <1>8, <1>9, <1>10, <1>11, <1>12
           DEF TaskAction

\* What others than the run do, unless they append to the unified table.
LEMMA DriftExact ==
    ASSUME TypeOK, TypeOK', ExactInv, SameSegments, UNCHANGED <<run, unified>>,
           mm'.state = mm.state,
           \A b \in BA : newest[b] <= newest'[b],
           \A b \in BA :
              \/ itm'[b].state = itm[b].state
              \/ itm[b].state \in {"pending", "running", "failed"} /\ itm'[b].state = "failed"
              \/ itm[b].state = "pending" /\ itm'[b].state = "running"
              \/ itm[b].state = "onboarding" /\ itm'[b].state = "initializing",
           \A n \in DOMAIN jobs : jobs[n].status = "done" => jobs'[n].status = "done"
    PROVE  Exact'
  <1>c. Segments /\ Unrepeated /\ Failable
    BY DEF ExactInv, Exact
  <1>1. \A b \in BA : Missing(b)' <=> Missing(b)
    BY SameMissing
  <1>2. Segments'
    <2>1. \A b \in BA : itm'[b].state \in {"onboarding", "initializing"} =>
             itm[b].state \in {"onboarding", "initializing"}
      OBVIOUS
    <2> QED  BY <1>c, <2>1, SameSegmentsKept
  <1>3. Unrepeated'
    <2>1. \A r \in Run : run[r].at = "copying" => run[r].copy \in DOMAIN jobs
      BY DEF ExactInv, CopyInv, Relied
    <2> QED  BY <1>1, <1>c, <2>1 DEF Unrepeated
  <1>4. Failable'
    <2>1. \A r \in Run : run[r].todo \subseteq BA
      BY DEF TypeOK, RunRec
    <2> QED  BY <1>c, <2>1 DEF Failable
  <1> QED  BY <1>2, <1>3, <1>4 DEF Exact

LEMMA WorkerExact ==
    ASSUME TypeOK, TypeOK', ExactInv, NEW w \in Worker, WorkerAction(w)
    PROVE  Exact'
  <1>j. UNCHANGED jobs => \A n \in DOMAIN jobs : jobs[n].status = "done" => jobs'[n].status = "done"
    OBVIOUS
  <1>i. UNCHANGED itm => SameSegments /\ \A b \in BA : itm'[b].state = itm[b].state
    BY DEF SameSegments
  <1>n. UNCHANGED newest => \A b \in BA : newest[b] <= newest'[b]
    BY DEF TypeOK
  <1>1. ASSUME NEW t \in tasks, SetRunning(w, t)  PROVE Exact'
    <2>1. PICK b \in BA : b = t.ba
      BY DEF TypeOK, CloudTask
    <2>2. /\ itm[b].state = "pending" /\ itm' = [itm EXCEPT ![b].state = "running"]
          /\ UNCHANGED <<newest, mm, run, jobs, unified>>
      BY <1>1, <2>1 DEF SetRunning
    <2>3. /\ SameSegments /\ itm'[b].state = "running"
          /\ \A a \in BA \ {b} : itm'[a].state = itm[a].state
      BY ZenonT(60), <2>2 DEF SameSegments, TypeOK, Itm
    <2> QED  BY <1>j, <1>n, <2>2, <2>3, DriftExact
  <1>2. CASE CopyFromLocalToTmpTable(w)
    <2>1. /\ \A n \in DOMAIN jobs : n \in DOMAIN jobs' /\ jobs'[n] = jobs[n]
          /\ UNCHANGED <<newest, mm, itm, run, unified>>
      BY <1>2, JobTypes DEF CopyFromLocalToTmpTable
    <2> QED  BY <1>i, <1>n, <2>1, DriftExact
  <1>3. CASE CopyFromLocalToTmpTableFails(w)
    <2>1. PICK b \in BA : b = worker[w].ba
      BY WorkerParts
    <2>2. /\ worker[w].at = "begun" /\ ~worker[w].late
          /\ UNCHANGED <<newest, mm, run, jobs, unified>>
          /\ itm' = [itm EXCEPT ![b].state = "failed"]
      BY <1>3, <2>1 DEF CopyFromLocalToTmpTableFails
    <2>3. itm[b].state \in {"running", "failed"}
      BY <2>1, <2>2, DeliveryFails DEF ExactInv
    <2>4. /\ SameSegments /\ itm'[b].state = "failed"
          /\ \A a \in BA \ {b} : itm'[a].state = itm[a].state
      BY ZenonT(60), <2>2 DEF SameSegments, TypeOK, Itm
    <2> QED  BY <1>j, <1>n, <2>2, <2>3, <2>4, DriftExact
  <1>4. CASE RecordJob(w)
    <2>1. PICK b \in BA, k \in Nat : b = worker[w].ba /\ k = worker[w].job
      BY WorkerParts
    <2>2. UNCHANGED <<newest, mm, run, jobs, unified>> /\ itm' = [itm EXCEPT ![b].job = k]
      BY <1>4, <2>1 DEF RecordJob
    <2>3. SameSegments /\ \A a \in BA : itm'[a].state = itm[a].state
      BY ZenonT(60), <2>2 DEF SameSegments, TypeOK, Itm
    <2> QED  BY <1>j, <1>n, <2>2, <2>3, DriftExact
  <1>5. CASE WorkerEnds(w)
    <2>1. UNCHANGED <<newest, mm, itm, run, jobs, unified>>
      BY <1>5 DEF WorkerEnds
    <2> QED  BY <1>i, <1>j, <1>n, <2>1, DriftExact
  <1> QED  BY <1>1, <1>2, <1>3, <1>4, <1>5 DEF WorkerAction

\* The job that appends to the unified table takes the rows of verified tasks, all of them
\* missing so far, and a job that does not append leaves that table alone.
LEMMA AppendParts ==
    ASSUME TypeOK, ExactInv, SingleRun, NEW n \in DOMAIN jobs, JobFinishes(n)
    PROVE  /\ UNCHANGED <<newest, mm, itm, run>>
           /\ \/ UNCHANGED unified
              \/ /\ jobs[n].bas \subseteq BA /\ jobs'[n].status = "done"
                 /\ \E r \in Run : run[r].at = "copying" /\ run[r].copy = n
                 /\ \A b \in jobs[n].bas : itm[b].state = "verified" /\ Missing(b)
                 /\ unified' = [b \in BA |-> [x \in Records |->
                       IF b \in jobs[n].bas /\ itm[b].start < x /\ x <= itm[b].end
                       THEN 1 ELSE unified[b][x]]]
  <1>1. UNCHANGED <<newest, mm, itm, run>> /\ jobs[n] \in Job /\ jobs[n].status = "running"
    BY JobTypes DEF JobFinishes
  <1>2. CASE /\ jobs[n].kind = "to_unified" /\ jobs' = [jobs EXCEPT ![n].status = "done"]
             /\ unified' = [b \in BA |-> [x \in Records |->
                   IF b \in jobs[n].bas
                   THEN unified[b][x] + TmpCopies(jobs[n].iteration, b, x)
                   ELSE unified[b][x]]]
    <2>1. jobs[n].bas \subseteq BA /\ jobs'[n].status = "done"
      BY <1>1, <1>2, JobTypes DEF Job
    <2>2. PICK r \in Run : run[r].at = "copying" /\ run[r].copy = n
      BY <1>1, <1>2 DEF ExactInv, AwaitInv, Awaited, Appends
    <2>3. mm.state \notin Resting /\ jobs[n].iteration = mm.iteration
      BY <2>2 DEF ExactInv, CopyInv, Relied
    <2>4. \A b \in jobs[n].bas : itm[b].state = "verified" /\ itm[b].iteration = mm.iteration
      BY <2>2 DEF ExactInv, AwaitInv, Awaited
    <2>5. \A b \in jobs[n].bas : Missing(b)
      BY <1>1, <2>1, <2>2, <2>3, <2>4, AppendedParts DEF ExactInv, Exact
    <2>6. ASSUME NEW b \in BA, NEW x \in Records
          PROVE  (IF b \in jobs[n].bas THEN unified[b][x] + TmpCopies(jobs[n].iteration, b, x)
                  ELSE unified[b][x])
                 = (IF b \in jobs[n].bas /\ itm[b].start < x /\ x <= itm[b].end THEN 1
                    ELSE unified[b][x])
      <3>1. CASE b \in jobs[n].bas
        <4>1. TmpCopies(jobs[n].iteration, b, x) = Wanted(b, x)
          BY <2>3, <2>4, <3>1, VerifiedCopies DEF ExactInv, CopyInv
        <4>2. itm[b].start < x /\ x <= itm[b].end => unified[b][x] = 0
          BY <2>5, <3>1 DEF Missing
        <4>3. unified[b][x] \in Nat
          BY DEF TypeOK
        <4> QED  BY <3>1, <4>1, <4>2, <4>3 DEF Wanted
      <3> QED  BY <3>1
    <2> QED  BY <1>1, <1>2, <2>1, <2>2, <2>4, <2>5, <2>6
  <1> QED  BY <1>1, <1>2 DEF JobFinishes

LEMMA FinishesExact ==
    ASSUME TypeOK, TypeOK', ExactInv, SingleRun, NEW n \in DOMAIN jobs, JobFinishes(n)
    PROVE  Exact'
  <1>1. UNCHANGED <<newest, mm, itm, run>>
    BY AppendParts
  <1>2. \A m \in DOMAIN jobs : jobs[m].status = "done" => jobs'[m].status = "done"
    BY FinishesAttempt DEF NoNewAttempt
  <1>c. Segments /\ Unrepeated /\ Failable
    BY DEF ExactInv, Exact
  <1>3. CASE UNCHANGED unified
    <2>1. /\ SameSegments /\ \A b \in BA : newest[b] <= newest'[b]
          /\ \A b \in BA : itm'[b].state = itm[b].state
      BY <1>1 DEF SameSegments, TypeOK
    <2> QED  BY <1>1, <1>2, <1>3, <2>1, DriftExact
  <1>4. ASSUME NEW r \in Run, run[r].at = "copying", run[r].copy = n, jobs'[n].status = "done",
               \A b \in jobs[n].bas : itm[b].state = "verified",
               unified' = [b \in BA |-> [x \in Records |->
                  IF b \in jobs[n].bas /\ itm[b].start < x /\ x <= itm[b].end
                  THEN 1 ELSE unified[b][x]]]
        PROVE  Exact'
    <2>1. Segments'
      <3>1. ASSUME NEW b \in BA, NEW x \in Records
            PROVE  unified'[b][x] <= 1 /\ (x > itm[b].end => unified'[b][x] = 0)
        <4>1. itm[b].end \in Nat
          BY TaskParts
        <4> QED  BY <1>4, <1>c, <4>1 DEF Segments, Records
      <3> QED  BY <1>1, <1>c, <3>1 DEF Segments
    <2>2. \A b \in BA \ jobs[n].bas : Missing(b)' <=> Missing(b)
      BY <1>1, <1>4 DEF Missing
    <2>3. Unrepeated'
      BY <1>1, <1>4, <1>c, <2>2 DEF Unrepeated
    <2>4. Failable'
      BY <1>1, <1>c DEF Failable
    <2> QED  BY <2>1, <2>3, <2>4 DEF Exact
  <1> QED  BY <1>3, <1>4, AppendParts

LEMMA EnvironmentExact ==
    ASSUME TypeOK, TypeOK', ExactInv, SingleRun, Environment
    PROVE  Exact'
  <1> USE DEF workVars
  <1>j. UNCHANGED jobs => \A n \in DOMAIN jobs : jobs[n].status = "done" => jobs'[n].status = "done"
    OBVIOUS
  <1>i. UNCHANGED itm => SameSegments /\ \A b \in BA : itm'[b].state = itm[b].state
    BY DEF SameSegments
  <1>n. UNCHANGED newest => \A b \in BA : newest[b] <= newest'[b]
    BY DEF TypeOK
  <1>1. CASE TTLExpires \/ RecoveringTTLExpires
    <2>1. mm'.state = mm.state /\ UNCHANGED <<newest, run, itm, jobs, unified>>
      BY <1>1 DEF TTLExpires, RecoveringTTLExpires, TypeOK, Manager
    <2> QED  BY <1>i, <1>j, <1>n, <2>1, DriftExact
  <1>2. ASSUME NEW b \in BA, RecordsArrive(b)  PROVE Exact'
    <2>1. /\ UNCHANGED <<mm, run, itm, jobs, unified>>
          /\ \A a \in BA : newest[a] <= newest'[a]
      BY <1>2 DEF RecordsArrive, TypeOK
    <2> QED  BY <1>i, <1>j, <2>1, DriftExact
  <1>3. ASSUME NEW b \in BA, MarkOnboardingDone(b)  PROVE Exact'
    <2>1. /\ itm[b].state = "onboarding" /\ UNCHANGED <<newest, mm, run, jobs, unified>>
          /\ itm' = [itm EXCEPT ![b].state = "initializing"]
      BY <1>3 DEF MarkOnboardingDone
    <2>2. /\ SameSegments /\ itm'[b].state = "initializing"
          /\ \A a \in BA \ {b} : itm'[a].state = itm[a].state
      BY SMTT(40), <2>1 DEF SameSegments, TypeOK, Itm
    <2> QED  BY <1>j, <1>n, <2>1, <2>2, DriftExact
  <1>4. ASSUME NEW b \in BA, DeadlinePasses(b)  PROVE Exact'
    <2>1. UNCHANGED <<newest, mm, run, jobs, unified>> /\ itm' = [itm EXCEPT ![b].late = TRUE]
      BY <1>4 DEF DeadlinePasses
    <2>2. SameSegments /\ \A a \in BA : itm'[a].state = itm[a].state
      BY ZenonT(60), <2>1 DEF SameSegments, TypeOK, Itm
    <2> QED  BY <1>j, <1>n, <2>1, <2>2, DriftExact
  <1>5. ASSUME NEW n \in DOMAIN jobs, JobFinishes(n)  PROVE Exact'
    BY <1>5, FinishesExact
  <1> QED  BY <1>1, <1>2, <1>3, <1>4, <1>5 DEF Environment

LEMMA InitExact == Init => ExactInv
  <1> SUFFICES ASSUME Init PROVE ExactInv
    OBVIOUS
  <1>1. /\ \A b \in BA : /\ itm[b].state = "onboarding" /\ itm[b].start = 0 /\ itm[b].end = 0
                         /\ newest[b] = 0 /\ \A x \in Records : unified[b][x] = 0
        /\ \A r \in Run : run[r].at = "idle"
    BY DEF Init, IdleRun
  <1>2. Segments
    BY <1>1 DEF Segments
  <1>3. Unrepeated /\ Failable
    BY <1>1 DEF Unrepeated, Failable
  <1> QED  BY <1>2, <1>3, InitCopies, InitAwaits DEF ExactInv, Exact

LEMMA StepExact ==
    ASSUME SingleRun, Mishap = {}, TypeOK, ExactInv, [Next]_vars
    PROVE  ExactInv'
  <1>t. TypeOK'
    BY StepTypes
  <1>m. Awaiting /\ "recovery_abandoned" \notin Mishap
    BY DEF Awaiting
  <1>0. CopyInv' /\ AwaitInv'
    BY <1>m, StepCopies, StepAwaits DEF ExactInv
  <1>1. ASSUME UNCHANGED vars  PROVE Exact'
    <2>1. UNCHANGED <<newest, mm, itm, run, jobs, unified>> /\ Segments /\ Unrepeated /\ Failable
      BY <1>1 DEF vars, ExactInv, Exact
    <2>2. Segments'
      BY <2>1 DEF Segments
    <2>3. Unrepeated'
      BY <2>1 DEF Unrepeated, Missing
    <2>4. Failable'
      BY <2>1 DEF Failable
    <2> QED  BY <2>2, <2>3, <2>4 DEF Exact
  <1>2. ASSUME NEW r \in Run, Works(r)  PROVE Exact'
    BY <1>t, <1>2, RecoveryExact, IterationExact, AccountExact DEF Works
  <1>3. ASSUME NEW r \in Run, Falters(r)  PROVE Exact'
    BY <1>t, <1>3, RecoveryExact, IterationExact, AccountExact DEF Falters
  <1>4. ASSUME NEW w \in Worker, WorkerAction(w)  PROVE Exact'
    BY <1>t, <1>4, WorkerExact
  <1>5. ASSUME Environment  PROVE Exact'
    BY <1>t, <1>5, EnvironmentExact
  <1> QED  BY <1>0, <1>1, <1>2, <1>3, <1>4, <1>5 DEF Next, ExactInv

\* A single invocation of the manager, repeated, copies no row twice (NoRowTwice).
LEMMA SingleRunCopiesOnce ==
    ASSUME SingleRun, Mishap = {}
    PROVE  Spec => []NoRowTwice
  <1>1. Init => TypeOK /\ ExactInv
    BY InitTypes, InitExact
  <1>2. TypeOK /\ ExactInv /\ [Next]_vars => (TypeOK /\ ExactInv)'
    BY StepTypes, StepExact
  <1>3. ExactInv => NoRowTwice
    BY DEF ExactInv, Exact, Segments, NoRowTwice
  <1> QED  BY <1>1, <1>2, <1>3, PTL DEF Spec

-----------------------------------------------------------------------------
(* The manager implements SegmentCopy.                                     *)

SameBounds == \A b \in BA : itm'[b].start = itm[b].start /\ itm'[b].end = itm[b].end

\* A run changes the segments only where it updates the task of an account, and the rest of
\* SegmentCopy's state never.
LEMMA RunSegments ==
    ASSUME TypeOK, NEW r \in Run, Works(r) \/ Falters(r)
    PROVE  /\ UNCHANGED <<newest, unified>>
           /\ SameBounds \/ \E b \in BA : UpdateTaskMetadata(r, b)
  <1> USE DEF workVars
  <1>i. UNCHANGED itm => SameBounds
    BY DEF SameBounds
  <1>1. CASE GeneralRecovery(r) \/ CatchFails(r) \/ RunFails(r)
    BY SMTT(40), <1>1, <1>i DEF GeneralRecovery, CatchFails, RunFails
  <1>2. CASE RecoveryAction(r)
    BY ZenonT(60), <1>2, <1>i DEF RecoveryAction, ClaimRecovery, RecoveryDeletes, RecoveryFails,
       ListVerifiedToFail, TasksMarkedAsFailed, RecoveryDone, RecoveryLists, RecoveryNotified,
       ListNotifiedToSettle, RecoverySettled, RecoveryTimeIsUp, ListAllTasks, TasksRecovered,
       Saves, Lists, DeletesTmpTable
  <1>3. CASE IterationAction(r) \/ InsertCopyJobFails(r)
    BY <1>3, <1>i DEF IterationAction, Catch, CreateTmpTable, ListActiveTasks, TasksUpdated,
       ListPending, TasksCreated, ListWaiting, TasksDone, NothingToCopy, InsertCopyJob,
       CopyJobDone, CopyJobFailed, ListVerified, Notified, LifeCycleHandled, TearDown,
       ListNotified, RunDone, InsertCopyJobFails, Saves, Lists, DeletesTmpTable
  <1>4. ASSUME NEW b \in BA,
               \/ TaskAction(r, b) \/ CreateCloudTaskFails(r, b) \/ WaitFails(r, b)
               \/ VisitFails(r, b)
        PROVE  /\ UNCHANGED <<newest, unified>>
               /\ SameBounds \/ UpdateTaskMetadata(r, b)
    <2>1. ASSUME NEW step, NEW state, Sets(r, step, b, state)
          PROVE  UNCHANGED <<newest, unified>> /\ SameBounds
      BY <2>1, SetsParts DEF Sets, Visits, SameBounds
    <2>2. CASE CreateCloudTask(r, b) \/ VisitFails(r, b) \/ JobStarts(r, b)
      BY <2>2, <1>i DEF CreateCloudTask, VisitFails, JobStarts, Visits
    <2>3. CASE UpdateTaskMetadata(r, b)
      BY <2>3 DEF UpdateTaskMetadata, Visits
    <2> QED  BY <1>4, <2>1, <2>2, <2>3 DEF TaskAction, MarkTaskAsFailed, SingleRecovery,
                JobDoesNotStart, JobHandled, NotifyTask, SettleTask, CreateCloudTaskFails, WaitFails
  <1> QED  BY <1>1, <1>2, <1>3, <1>4 DEF Works, Falters

\* updateTaskMetadata keeps the segment, or chooses the next one when all rows of this one
\* are in the unified table.
LEMMA UpdateAdvances ==
    ASSUME TypeOK, TypeOK', ExactInv, SingleRun, NEW r \in Run, NEW b \in BA,
           UpdateTaskMetadata(r, b)
    PROVE  SameBounds \/ Copy!Advance(b)
  <1> DEFINE Seg == [a \in BA |-> [start |-> itm[a].start, end |-> itm[a].end]]
  <1>1. UNCHANGED <<newest, unified>> /\ \A a \in BA \ {b} : itm'[a] = itm[a]
    BY UpdateSegment
  <1>t. /\ itm[b].start \in Nat /\ itm[b].end \in Nat /\ newest[b] \in Nat
        /\ itm'[b].start \in Nat /\ itm'[b].end \in Nat
    BY TaskParts DEF TypeOK, Itm
  <1>2. ASSUME itm'[b].start = itm[b].end, itm[b].end <= itm'[b].end, itm'[b].end <= newest[b],
               itm[b].state = "done" \/ itm[b].end = 0
        PROVE  Copy!Advance(b)
    <2>1. ASSUME NEW x \in 1..MaxRecord, itm[b].start < x, x <= itm[b].end
          PROVE  unified[b][x] = 1
      <3>1. itm[b].state = "done"
        BY <1>2, <1>t, <2>1
      <3>2. unified[b][x] >= 1
        BY <2>1, <3>1 DEF ExactInv, CopyInv, Copied, Covered, Wanted, Records
      <3>3. unified[b][x] <= 1 /\ unified[b][x] \in Nat
        BY <2>1 DEF ExactInv, Exact, Segments, Records, TypeOK
      <3> QED  BY <3>2, <3>3
    <2>2. Seg' = [Seg EXCEPT ![b] = [start |-> @.end, end |-> itm'[b].end]]
      BY <1>1, <1>2
    <2>3. itm'[b].end \in itm[b].end .. newest[b]
      BY <1>2, <1>t
    <2>4. Seg[b].start = itm[b].start /\ Seg[b].end = itm[b].end
      OBVIOUS
    <2> HIDE DEF Seg
    <2> QED  BY <1>1, <2>1, <2>2, <2>3, <2>4 DEF Copy!Advance, Copy!InSegment, Copy!Record, Seg
  <1> QED  BY <1>1, <1>2, UpdateSegment DEF SameBounds

LEMMA StepCopiesSegments ==
    ASSUME SingleRun, Mishap = {}, TypeOK, ExactInv, [Next]_vars
    PROVE  [Copy!SegmentNext]_(Copy!segmentVars)
  <1> DEFINE Seg == [a \in BA |-> [start |-> itm[a].start, end |-> itm[a].end]]
  <1>t. TypeOK'
    BY StepTypes
  <1>1. ASSUME UNCHANGED <<newest, unified>>, SameBounds
        PROVE  UNCHANGED Copy!segmentVars
    <2>1. Seg' = Seg
      BY <1>1 DEF SameBounds
    <2> QED  BY <1>1, <2>1 DEF Copy!segmentVars
  <1>i. UNCHANGED itm => SameBounds
    BY DEF SameBounds
  <1>2. CASE UNCHANGED vars
    BY <1>1, <1>2, <1>i DEF vars
  <1>3. ASSUME NEW r \in Run, Works(r) \/ Falters(r)
        PROVE  UNCHANGED Copy!segmentVars \/ Copy!SegmentNext
    <2>1. CASE SameBounds
      BY <1>1, <1>3, <2>1, RunSegments
    <2>2. ASSUME NEW b \in BA, UpdateTaskMetadata(r, b)
          PROVE  UNCHANGED Copy!segmentVars \/ Copy!Advance(b)
      BY <1>1, <1>3, <1>t, <2>2, RunSegments, UpdateAdvances
    <2> QED  BY <1>3, <2>1, <2>2, RunSegments DEF Copy!SegmentNext
  <1>4. ASSUME NEW w \in Worker, WorkerAction(w)  PROVE UNCHANGED Copy!segmentVars
    <2>1. UNCHANGED <<newest, unified>>
      BY <1>4 DEF WorkerAction, SetRunning, CopyFromLocalToTmpTable,
         CopyFromLocalToTmpTableFails, RecordJob, WorkerEnds
    <2>2. SameBounds
      <3>1. PICK b \in BA, k \in Nat : b = worker[w].ba /\ k = worker[w].job
        BY WorkerParts
      <3>2. ASSUME NEW t \in tasks, SetRunning(w, t)  PROVE SameBounds
        BY ZenonT(60), <3>2 DEF SetRunning, SameBounds, TypeOK, CloudTask, Itm
      <3>3. CASE CopyFromLocalToTmpTable(w) \/ WorkerEnds(w)
        BY <1>i, <3>3 DEF CopyFromLocalToTmpTable, WorkerEnds
      <3>4. CASE CopyFromLocalToTmpTableFails(w)
        BY ZenonT(60), <3>1, <3>4 DEF CopyFromLocalToTmpTableFails, SameBounds, TypeOK, Itm
      <3>5. CASE RecordJob(w)
        BY <3>1, <3>5 DEF RecordJob, SameBounds, TypeOK, Itm
      <3> QED  BY <1>4, <3>2, <3>3, <3>4, <3>5 DEF WorkerAction
    <2> QED  BY SMTT(40), <1>1, <2>1, <2>2
  <1>5. ASSUME NEW n \in DOMAIN jobs, JobFinishes(n)
        PROVE  UNCHANGED Copy!segmentVars \/ \E bas \in SUBSET BA : Copy!CopySegments(bas)
    <2>1. UNCHANGED <<newest, itm>>
      BY <1>5, AppendParts
    <2>2. CASE UNCHANGED unified
      BY <1>1, <1>i, <2>1, <2>2
    <2>3. ASSUME jobs[n].bas \subseteq BA, \A b \in jobs[n].bas : Missing(b),
                 unified' = [b \in BA |-> [x \in Records |->
                    IF b \in jobs[n].bas /\ itm[b].start < x /\ x <= itm[b].end
                    THEN 1 ELSE unified[b][x]]]
          PROVE  Copy!CopySegments(jobs[n].bas)
      <3>1. Seg' = Seg
        BY <2>1
      <3>2. \A b \in BA : Seg[b].start = itm[b].start /\ Seg[b].end = itm[b].end
        OBVIOUS
      <3> HIDE DEF Seg
      <3> QED  BY <2>1, <2>3, <3>1, <3>2
               DEF Copy!CopySegments, Copy!InSegment, Copy!Record, Seg, Missing, Records
    <2> QED  BY <1>5, <2>2, <2>3, AppendParts
  <1>6. ASSUME NEW b \in BA, RecordsArrive(b)  PROVE Copy!Arrive(b)
    <2>1. Seg' = Seg
      BY <1>6 DEF RecordsArrive
    <2> QED  BY <1>6, <2>1 DEF RecordsArrive, Copy!Arrive
  <1>7. ASSUME NEW b \in BA, MarkOnboardingDone(b) \/ DeadlinePasses(b)
        PROVE  UNCHANGED Copy!segmentVars
    <2>1. \/ itm' = [itm EXCEPT ![b].state = "initializing"]
          \/ itm' = [itm EXCEPT ![b].late = TRUE]
      BY <1>7 DEF MarkOnboardingDone, DeadlinePasses
    <2>2. SameBounds
      <3>1. CASE itm' = [itm EXCEPT ![b].state = "initializing"]
        BY <3>1 DEF SameBounds, TypeOK, Itm
      <3>2. CASE itm' = [itm EXCEPT ![b].late = TRUE]
        BY <3>2 DEF SameBounds, TypeOK, Itm
      <3> QED  BY <2>1, <3>1, <3>2
    <2> QED  BY <1>1, <1>7, <2>2 DEF MarkOnboardingDone, DeadlinePasses, workVars
  <1>8. CASE TTLExpires \/ RecoveringTTLExpires
    BY <1>1, <1>8, <1>i DEF TTLExpires, RecoveringTTLExpires
  <1> QED  BY <1>2, <1>3, <1>4, <1>5, <1>6, <1>7, <1>8 DEF Next, Environment, Copy!SegmentNext

LEMMA InitCopiesSegments == Init => Copy!SegmentInit
  BY DEF Init, Copy!SegmentInit, Records, Copy!Record

\* Under the same hypotheses every step chooses the next segment of an account whose current one
\* is in the unified table, or adds the missing segments of some accounts to that table, or is
\* a step of the customer's data, or changes none of this (CopiesSegments).
LEMMA SingleRunCopiesSegments ==
    ASSUME SingleRun, Mishap = {}
    PROVE  Spec => CopiesSegments
  <1>1. Init => TypeOK /\ ExactInv
    BY InitTypes, InitExact
  <1>2. TypeOK /\ ExactInv /\ [Next]_vars => (TypeOK /\ ExactInv)'
    BY StepTypes, StepExact
  <1>3. TypeOK /\ ExactInv /\ [Next]_vars => [Copy!SegmentNext]_(Copy!segmentVars)
    BY StepCopiesSegments
  <1> QED  BY <1>1, <1>2, <1>3, InitCopiesSegments, PTL DEF Spec, CopiesSegments, Copy!SegmentSpec

=============================================================================
