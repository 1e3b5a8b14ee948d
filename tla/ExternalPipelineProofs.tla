----------------------- MODULE ExternalPipelineProofs -----------------------
(***************************************************************************)
(* The external pipeline, for any accounts, any number of deliveries at    *)
(* the same time and any bounds.                                           *)
(*                                                                         *)
(* Type correctness holds however many manager runs overlap.  The rest is  *)
(* said of runs that do not overlap (RunsInTurn), which the lease ensures  *)
(* for runs that end within it (LeaseKeepsRunsApart): one that dies or     *)
(* ends is followed by others.  It follows from one inductive invariant,   *)
(* AccountsInv, which speaks of every account apart: the statuses of its   *)
(* two jobs in each state, the jobs of its attempt, the delivery that its  *)
(* document waits for, its folders, its loads, its rows, and its first     *)
(* segment.  Each step concerns one account, and the lemmas on a step show *)
(* first that it keeps the invariant of that one.                          *)
(***************************************************************************)
EXTENDS ExternalPipeline, SequenceTheorems, TLAPS

USE DEF Kind, Waiting, Scheduled, Copying

LEMMA StateNames ==
    ASSUME NEW k \in Kind
    PROVE  {Waiting[k], Scheduled[k], Copying[k]} \subseteq ExternalTaskState
  BY DEF ExternalTaskState

LEMMA JobMetaTypes ==
    {NoJobMeta, PendingJobMeta, DoneJobMeta} \subseteq JobMeta
  BY DEF NoJobMeta, PendingJobMeta, DoneJobMeta, JobMeta, JobStatus

LEMMA GorTypes ==
    /\ GorOff \in Gor /\ GorDone \in Gor /\ GorLost \in Gor
    /\ \A i \in Nat, k \in Kind, pc \in {"update", "dispatch", "mark"} :
          GorAt(pc, i, k, NoJobMeta) \in Gor
  BY JobMetaTypes DEF GorOff, GorDone, GorLost, GorAt, Gor

LEMMA IdleWorkerType == IdleWorker \in WorkerRec
<1>1. AnyBA \in BA
  BY AccountsAssumption DEF AnyBA
<1> QED
  BY <1>1 DEF IdleWorker, WorkerRec

LEMMA SnapshotType ==
    ASSUME NEW e \in Etm
    PROVE  Snapshot(e) \in Gor
<1>1. e.iteration \in Nat /\ \A k \in Kind : e.job[k] \in JobMeta
  BY DEF Etm
<1> QED
  BY <1>1, JobMetaTypes DEF Snapshot, GorAt, Gor

LEMMA SegmentType ==
    ASSUME NEW j \in Job
    PROVE  Segment(j) \subseteq Nat
  BY DEF Segment, Job

LEMMA SeqExcept ==
    ASSUME NEW S, NEW s \in Seq(S), NEW i, NEW v \in S
    PROVE  [s EXCEPT ![i] = v] \in Seq(S)
<1>1. CASE i \in 1..Len(s)
  BY <1>1, ExceptSeq
<1>2. CASE i \notin 1..Len(s)
  <2>1. [s EXCEPT ![i] = v] = [x \in 1..Len(s) |-> s[x]]
    BY <1>2
  <2>2. Len(s) \in Nat /\ \A x \in 1..Len(s) : s[x] \in S
    OBVIOUS
  <2>3. [x \in 1..Len(s) |-> s[x]] \in [1..Len(s) -> S]
    BY <2>2
  <2>4. [1..Len(s) -> S] \subseteq Seq(S)
    BY <2>2, SeqDef
  <2> QED
    BY <2>1, <2>3, <2>4
<1> QED
  BY <1>1, <1>2

LEMMA InitTypes == Init => TypeOK
<1> SUFFICES ASSUME Init PROVE TypeOK
  OBVIOUS
<1>1. NewEtm \in Etm
  BY JobMetaTypes DEF NewEtm, Etm, ExternalTaskState
<1>2. <<>> \in Seq(Job) /\ <<>> \in Seq(SUBSET Nat)
  OBVIOUS
<1> QED
  BY <1>1, <1>2, GorTypes, IdleWorkerType DEF Init, TypeOK

-----------------------------------------------------------------------------
(***************************************************************************)
(* updateExternalTask.                                                     *)
(***************************************************************************)

LEMMA UpdateToTypes ==
    ASSUME TypeOK, NEW r \in Run, NEW b \in BA, NEW e \in Etm, UpdateTo(r, b, e),
           deletions' \subseteq BA \X Nat
    PROVE  TypeOK'
<1>1. etm' \in [BA -> Etm]
  BY DEF TypeOK, UpdateTo
<1>2. gor' \in [Run -> [BA -> Gor]]
  <2>1. e.iteration \in Nat
    BY DEF Etm
  <2> QED
    BY <2>1, GorTypes DEF TypeOK, UpdateTo
<1> QED
  BY <1>1, <1>2 DEF TypeOK, UpdateTo, managerVars

LEMMA NextSegmentTypes ==
    ASSUME NEW e \in Etm, NEW last \in Nat
    PROVE  NextSegment(e, last) \in Etm
<1>1. e.end \in Nat /\ e.iteration + 1 \in Nat
  BY DEF Etm
<1>2. [e EXCEPT !.iteration = @ + 1] \in Etm
  BY <1>1 DEF Etm
<1>3. [e EXCEPT !.iteration = @ + 1, !.start = e.end, !.end = last] \in Etm
  BY <1>1 DEF Etm
<1> QED
  BY <1>2, <1>3 DEF NextSegment

LEMMA JobStatusChange ==
    ASSUME NEW e \in Etm, NEW k \in Kind, NEW s \in JobStatus, NEW st \in ExternalTaskState
    PROVE  [e EXCEPT !.state = st, !.job[k].status = s] \in Etm
<1>1. [e.job[k] EXCEPT !.status = s] \in JobMeta
  BY DEF Etm, JobMeta
<1>2. [e.job EXCEPT ![k].status = s] \in [Kind -> JobMeta]
  BY <1>1 DEF Etm
<1> QED
  BY <1>2 DEF Etm

LEMMA AfterJobTypes ==
    ASSUME NEW e \in Etm, NEW k \in Kind
    PROVE  AfterJob(e, k) \in Etm
<1>1. {"pending", "done_onboarding", Waiting.from} \subseteq ExternalTaskState
  BY DEF ExternalTaskState
<1>2. \A j \in JobMeta : [j EXCEPT !.status = "done"] \in JobMeta
  BY DEF JobMeta, JobStatus
<1> QED
  BY ZenonT(60), <1>1, <1>2, JobMetaTypes DEF AfterJob, Etm

LEMMA FailedJobTypes ==
    ASSUME NEW r \in Run, NEW b \in BA, NEW j \in JobMeta,
           NEW res \in FailedJobResults(r, b, j)
    PROVE  res.status \in JobStatus
  BY DEF FailedJobResults, JobMeta, JobStatus

LEMMA UpdatePendingTypes ==
    ASSUME TypeOK, NEW r \in Run, NEW b \in BA, UpdatePending(r, b)
    PROVE  TypeOK'
<1> DEFINE e == etm[b]
           n == NextSegment(e, newest[b])
           w == [n EXCEPT
                 !.state = Waiting.to, !.folder = 0,
                 !.job = [k \in Kind |-> IF k = "to" THEN PendingJobMeta ELSE NoJobMeta]]
<1>1. e \in Etm /\ newest[b] \in Nat /\ e.folder \in Nat
  BY DEF TypeOK, Etm
<1>2. n \in Etm
  BY <1>1, NextSegmentTypes
<1>3. w \in Etm
  <2>1. Waiting.to \in ExternalTaskState
    BY DEF ExternalTaskState
  <2> QED
    BY <1>2, <2>1, JobMetaTypes DEF Etm
<1>4. CASE UpdateTo(r, b, n) /\ UNCHANGED deletions
  BY <1>2, <1>4, UpdateToTypes DEF TypeOK
<1>5. CASE UpdateTo(r, b, w) /\ deletions' = deletions \cup ({<<b, e.folder>>} \ {<<b, 0>>})
  <2>1. deletions' \subseteq BA \X Nat
    BY <1>1, <1>5 DEF TypeOK
  <2> QED
    BY <1>3, <1>5, <2>1, UpdateToTypes
<1> QED
  BY <1>4, <1>5 DEF UpdatePending

LEMMA UpdateStartingTypes ==
    ASSUME TypeOK, NEW r \in Run, NEW b \in BA, NEW k \in Kind, UpdateStarting(r, b, k)
    PROVE  TypeOK'
<1> DEFINE e == etm[b]
           copying == [e EXCEPT !.state = Copying[k]]
           failed  == [e EXCEPT !.state = "failed", !.job[k].status = "schedule_timeout"]
<1>1. e \in Etm
  BY DEF TypeOK
<1>2. copying \in Etm
  BY <1>1, StateNames DEF Etm
<1>3. failed \in Etm
  BY Zenon, <1>1, JobStatusChange DEF ExternalTaskState, JobStatus
<1>4. deletions' \subseteq BA \X Nat
  BY DEF UpdateStarting, TypeOK
<1>5. UpdateTo(r, b, copying) \/ UpdateTo(r, b, failed) \/ UpdateTo(r, b, e)
  BY DEF UpdateStarting
<1> QED
  BY <1>1, <1>2, <1>3, <1>4, <1>5, UpdateToTypes

LEMMA UpdateCopyingTypes ==
    ASSUME TypeOK, NEW r \in Run, NEW b \in BA, NEW k \in Kind, UpdateCopying(r, b, k)
    PROVE  TypeOK'
<1> DEFINE e == etm[b]
           failed(s) == [e EXCEPT !.state = "failed", !.job[k].status = s]
<1>1. e \in Etm
  BY DEF TypeOK
<1>2. failed("failed") \in Etm /\ failed("timeout") \in Etm
  BY Zenon, <1>1, JobStatusChange DEF ExternalTaskState, JobStatus
<1>3. deletions' \subseteq BA \X Nat
  BY SMTT(40) DEF UpdateCopying, TypeOK
<1>4. \/ UpdateTo(r, b, AfterJob(e, k)) \/ UpdateTo(r, b, failed("failed"))
      \/ UpdateTo(r, b, failed("timeout")) \/ UpdateTo(r, b, e)
  BY DEF UpdateCopying
<1>5. AfterJob(e, k) \in Etm
  BY <1>1, AfterJobTypes
<1> QED
  BY <1>1, <1>2, <1>3, <1>4, <1>5, UpdateToTypes

LEMMA UpdateFailedTypes ==
    ASSUME TypeOK, NEW r \in Run, NEW b \in BA, UpdateFailed(r, b)
    PROVE  TypeOK'
<1> DEFINE e == etm[b]
           k == IF e.job["to"].status # "done" THEN "to" ELSE "from"
           after(res) == [e EXCEPT
                    !.state = IF res.err \/ res.status = "failed" THEN "pending"
                              ELSE IF res.status = "done"
                                   THEN (IF k = "to" THEN Copying.to ELSE "pending")
                              ELSE "failed",
                    !.job[k].status = res.status]
<1>1. e \in Etm /\ k \in Kind
  BY DEF TypeOK
<1>2. e.job[k] \in JobMeta
  BY <1>1 DEF Etm
<1>3. ASSUME NEW res \in FailedJobResults(r, b, e.job[k])
      PROVE  after(res) \in Etm
  <2>1. res.status \in JobStatus
    BY <1>2, FailedJobTypes
  <2>2. {"pending", "failed", Copying.to} \subseteq ExternalTaskState
    BY DEF ExternalTaskState
  <2> QED
    BY Zenon, <1>1, <2>1, <2>2, JobStatusChange
<1>4. deletions' \subseteq BA \X Nat
  BY Zenon DEF UpdateFailed, TypeOK
<1>5. \/ UpdateTo(r, b, e)
      \/ \E res \in FailedJobResults(r, b, e.job[k]) : UpdateTo(r, b, after(res))
  BY Zenon DEF UpdateFailed
<1> QED
  BY Zenon, <1>1, <1>3, <1>4, <1>5, UpdateToTypes

LEMMA UpdateExternalTaskTypes ==
    ASSUME TypeOK, NEW r \in Run, NEW b \in BA, UpdateExternalTask(r, b)
    PROVE  TypeOK'
<1>1. CASE UpdateDoneOnboarding(r, b)
  <2>1. etm[b] \in Etm /\ deletions' \subseteq BA \X Nat
    BY <1>1 DEF TypeOK, UpdateDoneOnboarding
  <2> QED
    BY <1>1, <2>1, UpdateToTypes DEF UpdateDoneOnboarding
<1> QED
  BY <1>1, UpdatePendingTypes, UpdateStartingTypes, UpdateCopyingTypes,
     UpdateFailedTypes DEF UpdateExternalTask

-----------------------------------------------------------------------------
(***************************************************************************)
(* The other steps of a manager run.                                       *)
(***************************************************************************)

LEMMA GoroutineTypes ==
    ASSUME TypeOK, NEW r \in Run, NEW b \in BA,
           \/ PrecalculateJobsId(r, b) \/ SavePrecalculatedJob(r, b)
           \/ UpdatePendingAborts(r, b) \/ CreateCloudTask(r, b)
           \/ GoroutineFails(r, b) \/ MarkOnboardingDone(r, b)
    PROVE  TypeOK'
<1> DEFINE g == gor[r][b]
<1>1. /\ g \in Gor /\ etm[b] \in Etm /\ etm[b].iteration \in Nat
      /\ etm[b].folder \in Nat /\ g.kind \in Kind /\ g.iteration \in Nat
      /\ g.job \in JobMeta
  BY DEF TypeOK, Gor, Etm
<1>2. ASSUME PrecalculateJobsId(r, b)
      PROVE  TypeOK'
  <2>1. ASSUME NEW s \in {"failed", "timeout"}, NEW i \in Nat
        PROVE  /\ [g EXCEPT !.pc = "write", !.job.status = s] \in Gor
               /\ [g EXCEPT !.pc = "write", !.job.status = s, !.job.id = i] \in Gor
    <3>1. /\ [g.job EXCEPT !.status = s] \in JobMeta
          /\ [g.job EXCEPT !.status = s, !.id = i] \in JobMeta
      BY <1>1 DEF JobMeta, JobStatus
    <3> QED
      BY <1>1, <3>1 DEF Gor
  <2>2. DOMAIN jobs[b] \subseteq Nat
    BY DEF TypeOK
  <2>3. gor' \in [Run -> [BA -> Gor]]
    <3>1. PICK n \in Gor : gor' = [gor EXCEPT ![r][b] = n]
      BY Zenon, <1>2, <2>1, <2>2 DEF PrecalculateJobsId
    <3> QED
      BY <3>1 DEF TypeOK
  <2> QED
    BY Zenon, <1>2, <2>3 DEF PrecalculateJobsId, TypeOK, managerVars, dataVars
<1>3. ASSUME SavePrecalculatedJob(r, b)
      PROVE  TypeOK'
  <2>1. [etm[b] EXCEPT !.job[g.kind] = g.job] \in Etm
    BY <1>1 DEF Etm
  <2>2. etm' \in [BA -> Etm]
    BY <1>3, <2>1 DEF SavePrecalculatedJob, TypeOK
  <2>3. gor' \in [Run -> [BA -> Gor]]
    BY <1>1, <1>3, GorTypes DEF SavePrecalculatedJob, TypeOK
  <2> QED
    BY <1>3, <2>2, <2>3 DEF SavePrecalculatedJob, TypeOK, managerVars, dataVars
<1>4. ASSUME UpdatePendingAborts(r, b)
      PROVE  TypeOK'
  BY SMTT(40), <1>1, <1>4, GorTypes DEF UpdatePendingAborts, TypeOK, managerVars
<1>5. ASSUME CreateCloudTask(r, b)
      PROVE  TypeOK'
  BY SMTT(40), <1>1, <1>5, GorTypes DEF CreateCloudTask, TypeOK, CloudTask, managerVars, dataVars
<1>6. ASSUME GoroutineFails(r, b)
      PROVE  TypeOK'
  BY <1>6, GorTypes DEF GoroutineFails, TypeOK, managerVars, dataVars
<1>7. ASSUME MarkOnboardingDone(r, b)
      PROVE  TypeOK'
  <2>1. [etm[b] EXCEPT !.state = "pending", !.onBoarding = FALSE] \in Etm
    BY <1>1 DEF Etm, ExternalTaskState
  <2>2. etm' \in [BA -> Etm]
    BY ZenonT(60), <1>7, <2>1 DEF MarkOnboardingDone, TypeOK
  <2> QED
    BY <1>7, <2>2, GorTypes DEF MarkOnboardingDone, TypeOK, managerVars, dataVars
<1> QED
  BY <1>2, <1>3, <1>4, <1>5, <1>6, <1>7

LEMMA RunStepTypes ==
    ASSUME TypeOK, NEW r \in Run, RunStep(r)
    PROVE  TypeOK'
<1>1. CASE Catch(r) \/ Reclaim(r)
  <2>1. lease' \in [running : BOOLEAN, expired : BOOLEAN, holder : Run]
    <3>1. CASE Catch(r)
      BY <3>1 DEF Catch
    <3>2. CASE Reclaim(r)
      BY <3>2 DEF Reclaim, TypeOK
    <3> QED
      BY <1>1, <3>1, <3>2
  <2>2. run' \in [Run -> {"idle", "caught", "managing", "marking"}]
    BY ZenonT(60), <1>1 DEF Catch, Reclaim, TypeOK
  <2> QED
    BY <1>1, <2>1, <2>2 DEF Catch, Reclaim, TypeOK, dataVars
<1>2. CASE ListActiveTasks(r)
  <2>1. \A b \in BA : Snapshot(etm[b]) \in Gor
    BY SnapshotType DEF TypeOK
  <2>2. gor' \in [Run -> [BA -> Gor]]
    BY <1>2, <2>1, GorTypes DEF ListActiveTasks, TypeOK
  <2> QED
    BY <1>2, <2>2 DEF ListActiveTasks, TypeOK, dataVars
<1>3. CASE AllTasksDispatched(r)
  <2>1. gor' \in [Run -> [BA -> Gor]]
    BY <1>3, GorTypes DEF AllTasksDispatched, TypeOK
  <2> QED
    BY <1>3, <2>1 DEF AllTasksDispatched, TypeOK, dataVars
<1>4. CASE TearDown(r) \/ RunDies(r)
  <2>1. gor' = [gor EXCEPT ![r] = [b \in BA |-> GorOff]]
    BY <1>4 DEF TearDown, RunDies
  <2>2. gor' \in [Run -> [BA -> Gor]]
    BY <2>1, GorTypes DEF TypeOK
  <2>3. lease' \in [running : BOOLEAN, expired : BOOLEAN, holder : Run]
    BY ZenonT(90), <1>4 DEF TearDown, RunDies, TypeOK
  <2> QED
    BY <1>4, <2>2, <2>3 DEF TearDown, RunDies, TypeOK, dataVars
<1> QED
  BY <1>1, <1>2, <1>3, <1>4, GoroutineTypes, UpdateExternalTaskTypes DEF RunStep

-----------------------------------------------------------------------------
(***************************************************************************)
(* The workers and the environment.                                        *)
(***************************************************************************)

LEMMA WorkerStepTypes ==
    ASSUME TypeOK, NEW w \in Worker, WorkerStep(w)
    PROVE  TypeOK'
<1> DEFINE v == worker[w]
<1>1. /\ v \in WorkerRec /\ v.ba \in BA /\ v.kind \in Kind /\ v.job \in Nat
      /\ etm[v.ba] \in Etm /\ jobs[v.ba] \in Seq(Job) /\ files[v.ba] \in Seq(SUBSET Nat)
  BY DEF TypeOK, WorkerRec
<1>2. ASSUME NEW t \in tasks, InitTask(w, t)
      PROVE  TypeOK'
  <2>1. /\ t.ba \in BA /\ t.kind \in Kind /\ t.iteration \in Nat
    BY DEF TypeOK, CloudTask
  <2>2. etm[t.ba] \in Etm
    BY <2>1 DEF TypeOK
  <2>3. etm' \in [BA -> Etm]
    BY <1>2, <2>1, <2>2, StateNames DEF InitTask, TypeOK, Etm
  <2>4. worker' \in [Worker -> WorkerRec]
    BY <1>2, <2>1, <2>2 DEF InitTask, TypeOK, Etm, WorkerRec
  <2> QED
    BY <1>2, <2>3, <2>4 DEF InitTask, TypeOK, managerVars, dataVars
<1>3. ASSUME SetBucket(w)
      PROVE  TypeOK'
  <2>1. Len(files[v.ba]) + 1 \in Nat /\ Append(files[v.ba], {}) \in Seq(SUBSET Nat)
    BY <1>1
  <2>2. etm' \in [BA -> Etm]
    BY <1>1, <1>3, <2>1 DEF SetBucket, TypeOK, Etm
  <2>3. worker' \in [Worker -> WorkerRec]
    BY ZenonT(60), <1>1, <1>3, <2>1 DEF SetBucket, TypeOK, WorkerRec
  <2>4. files' \in [BA -> Seq(SUBSET Nat)]
    BY <1>1, <1>3, <2>1 DEF SetBucket, TypeOK
  <2> QED
    BY <1>3, <2>2, <2>3, <2>4 DEF SetBucket, TypeOK, managerVars
<1>4. ASSUME InsertJob(w)
      PROVE  TypeOK'
  <2> DEFINE j == [kind |-> v.kind, iteration |-> v.iteration, start |-> v.start,
                   end |-> v.end, folder |-> v.folder, status |-> "running"]
  <2>1. j \in Job
    BY <1>1 DEF WorkerRec, Job
  <2>2. Append(jobs[v.ba], j) \in Seq(Job) /\ Len(jobs[v.ba]) + 1 \in Nat
    BY <1>1, <2>1
  <2>3. jobs' \in [BA -> Seq(Job)]
    BY <1>1, <1>4, <2>2 DEF InsertJob, TypeOK
  <2>4. worker' \in [Worker -> WorkerRec]
    BY ZenonT(60), <1>1, <1>4, <2>2 DEF InsertJob, TypeOK, WorkerRec
  <2> QED
    BY <1>4, <2>3, <2>4 DEF InsertJob, TypeOK, managerVars
<1>5. ASSUME RecordJob(w)
      PROVE  TypeOK'
  <2>1. [etm[v.ba].job[v.kind] EXCEPT !.id = v.job, !.status = "created"] \in JobMeta
    <3>1. etm[v.ba].job[v.kind] \in JobMeta
      BY SMTT(40), <1>1 DEF Etm
    <3> QED
      BY <1>1, <3>1 DEF JobMeta, JobStatus
  <2>2. [etm[v.ba] EXCEPT !.job[v.kind].id = v.job, !.job[v.kind].status = "created",
                          !.state = Scheduled[v.kind]] \in Etm
    BY ZenonT(60), <1>1, <2>1, StateNames DEF Etm
  <2>3. etm' \in [BA -> Etm]
    BY ZenonT(60), <1>1, <1>5, <2>2 DEF RecordJob, TypeOK
  <2> QED
    BY Zenon, <1>5, <2>3, IdleWorkerType DEF RecordJob, TypeOK, managerVars, dataVars
<1>6. ASSUME WorkerDies(w)
      PROVE  TypeOK'
  BY SMTT(40), <1>6, IdleWorkerType DEF WorkerDies, TypeOK, managerVars, dataVars
<1> QED
  BY <1>2, <1>3, <1>4, <1>5, <1>6 DEF WorkerStep

LEMMA JobStepTypes ==
    ASSUME TypeOK, NEW b \in BA, NEW i \in DOMAIN jobs[b],
           ExportFinishes(b, i) \/ LoadFinishes(b, i)
    PROVE  TypeOK'
<1> DEFINE j == jobs[b][i]
<1>1. jobs[b] \in Seq(Job) /\ files[b] \in Seq(SUBSET Nat) /\ j \in Job /\ i \in 1..Len(jobs[b])
  BY DEF TypeOK
<1>2. jobs' \in [BA -> Seq(Job)]
  <2>1. ASSUME NEW s \in {"done", "failed"}
        PROVE  [jobs[b] EXCEPT ![i].status = s] \in Seq(Job)
    <3>1. [j EXCEPT !.status = s] \in Job
      BY <1>1 DEF Job
    <3> QED
      BY <1>1, <3>1, ExceptSeq
  <2> QED
    BY <2>1 DEF ExportFinishes, LoadFinishes, Finish, TypeOK
<1>3. ASSUME ExportFinishes(b, i)
      PROVE  files' \in [BA -> Seq(SUBSET Nat)]
  <2>1. ASSUME NEW some \in SUBSET Nat
        PROVE  [files[b] EXCEPT ![j.folder] = some] \in Seq(SUBSET Nat)
    BY <1>1, <2>1, SeqExcept
  <2>2. Segment(j) \subseteq Nat
    BY <1>1, SegmentType
  <2>3. PICK some \in SUBSET Nat : files' = [files EXCEPT ![b][j.folder] = some]
    BY <1>3, <2>2 DEF ExportFinishes
  <2>4. files' = [files EXCEPT ![b] = [files[b] EXCEPT ![j.folder] = some]]
    BY <2>3
  <2> QED
    BY <2>1, <2>4 DEF TypeOK
<1>4. ASSUME LoadFinishes(b, i)
      PROVE  local' \in [BA -> [Records -> Nat]]
  <2>1. local[b] \in [Records -> Nat]
    BY DEF TypeOK
  <2>2. [x \in Records |-> IF x \in files[b][j.folder] THEN local[b][x] + 1 ELSE local[b][x]]
          \in [Records -> Nat]
    BY <2>1
  <2> QED
    BY <1>4, <2>2 DEF LoadFinishes, TypeOK
<1> QED
  BY <1>2, <1>3, <1>4 DEF ExportFinishes, LoadFinishes, TypeOK, managerVars

LEMMA EnvironmentTypes ==
    ASSUME TypeOK, Environment
    PROVE  TypeOK'
<1>1. CASE LeaseExpires
  BY <1>1 DEF LeaseExpires, TypeOK, dataVars
<1>2. ASSUME NEW b \in BA, RecordsArrive(b)
      PROVE  TypeOK'
  BY <1>2 DEF RecordsArrive, TypeOK
<1>3. ASSUME NEW b \in BA, NEW k \in Kind, DeadlinePasses(b, k)
      PROVE  TypeOK'
  <2>1. ASSUME NEW s \in {"start", "finish"}
        PROVE  [etm[b] EXCEPT !.job[k].due = s] \in Etm
    <3>1. etm[b] \in Etm /\ etm[b].job \in [Kind -> JobMeta]
      BY DEF TypeOK, Etm
    <3>2. [etm[b].job[k] EXCEPT !.due = s] \in JobMeta
      BY <3>1 DEF JobMeta
    <3>3. [etm[b].job EXCEPT ![k].due = s] \in [Kind -> JobMeta]
      BY <3>1, <3>2
    <3> QED
      BY <3>1, <3>3 DEF Etm
  <2>2. etm' \in [BA -> Etm]
    BY <1>3, <2>1 DEF DeadlinePasses, TypeOK
  <2>3. worker' \in [Worker -> WorkerRec]
    <3>1. \A w \in Worker : [worker[w] EXCEPT !.late = TRUE] \in WorkerRec
      <4>1. \A v \in WorkerRec : [v EXCEPT !.late = TRUE] \in WorkerRec
        BY DEF WorkerRec
      <4> QED
        BY <4>1 DEF TypeOK
    <3> QED
      BY <1>3, <3>1 DEF DeadlinePasses, TypeOK
  <2> QED
    BY <1>3, <2>2, <2>3 DEF DeadlinePasses, TypeOK, dataVars
<1>4. ASSUME NEW d \in deletions, DeleteBucketFiles(d[1], d[2])
      PROVE  TypeOK'
  <2>1. d[1] \in BA /\ d[2] \in Nat
    BY DEF TypeOK
  <2>2. [files[d[1]] EXCEPT ![d[2]] = {}] \in Seq(SUBSET Nat)
    BY <2>1, SeqExcept DEF TypeOK
  <2>3. files' \in [BA -> Seq(SUBSET Nat)]
    BY <1>4, <2>1, <2>2 DEF DeleteBucketFiles, TypeOK
  <2> QED
    BY <1>4, <2>1, <2>3 DEF DeleteBucketFiles, TypeOK, managerVars
<1> QED
  BY <1>1, <1>2, <1>3, <1>4, JobStepTypes DEF Environment

-----------------------------------------------------------------------------
\* The documents, jobs and tables keep their shape whatever the runs, the workers
\* and BigQuery do (TypeOK): no state name, job status or job reference outside
\* what the managers' switch statements expect is ever written.
THEOREM TypeCorrect == Spec => []TypeOK
<1>1. TypeOK /\ [Next]_vars => TypeOK'
  <2> SUFFICES ASSUME TypeOK, [Next]_vars
               PROVE  TypeOK'
    OBVIOUS
  <2>1. CASE UNCHANGED vars
    BY <2>1 DEF vars, TypeOK
  <2> QED
    BY <2>1, RunStepTypes, WorkerStepTypes, EnvironmentTypes DEF Next
<1> QED
  BY <1>1, InitTypes, PTL DEF Spec
-----------------------------------------------------------------------------
(* One run at a time, of however many there are.  What is said of an       *)
(* account then depends on its own documents, jobs, files and deliveries   *)
(* alone.                                                                  *)

RunsInTurn == \A q, r \in Run : run[q] # "idle" /\ run[r] # "idle" => q = r

\* A run that is not under way has no goroutine.
IdleRuns == \A r \in Run : run[r] = "idle" => \A b \in BA : gor[r][b].pc = "off"

\* No run but r has a goroutine for account b.
Alone(r, b) == \A q \in Run : q # r => gor[q][b].pc = "off"

\* What can be said of the job of an attempt that did not succeed.
Broken == {"schedule_timeout", "failed", "timeout", "canceling", "canceled"}

\* The status that the document keeps of an account's job of kind k.
Status(b, k) == etm[b].job[k].status

\* The statuses of the two jobs in each state.
Shape(b) ==
    /\ etm[b].state = "pending" =>
          \/ Status(b, "to") = "done" /\ Status(b, "from") \in {"done", "failed"}
          \/ Status(b, "to") \in Broken /\ Status(b, "from") = "none"
    /\ etm[b].state = Waiting.to => Status(b, "to") = "pending" /\ Status(b, "from") = "none"
    /\ etm[b].state = Scheduled.to =>
          Status(b, "to") \in {"pending", "created"} /\ Status(b, "from") = "none"
    /\ etm[b].state = Copying.to =>
          Status(b, "to") \in {"created", "done"} /\ Status(b, "from") = "none"
    /\ etm[b].state = Waiting.from => Status(b, "to") = "done" /\ Status(b, "from") = "pending"
    /\ etm[b].state = Scheduled.from =>
          Status(b, "to") = "done" /\ Status(b, "from") \in {"pending", "created"}
    /\ etm[b].state = Copying.from => Status(b, "to") = "done" /\ Status(b, "from") = "created"
    /\ etm[b].state = "failed" =>
          \/ Status(b, "to") = "done" /\ Status(b, "from") \in Broken
          \/ Status(b, "to") \in Broken /\ Status(b, "from") = "none"
    /\ etm[b].state = "done_onboarding" => Status(b, "to") = "done" /\ Status(b, "from") = "done"

\* The job n of an account is the one of kind k of the current attempt.
JobOf(n, b, k) ==
    n \in DOMAIN jobs[b] /\ jobs[b][n].kind = k /\ jobs[b][n].iteration = etm[b].iteration

\* The job that the document names for kind k.
JobId(b, k) == etm[b].job[k].id

\* An attempt has at most one job of each kind, of its segment and its folder; the document
\* names it once it is said to exist.
Attempt(b) ==
    /\ \A n \in DOMAIN jobs[b] : jobs[b][n].iteration <= etm[b].iteration
    /\ \A m, n \in DOMAIN jobs[b] :
          jobs[b][m].kind = jobs[b][n].kind /\ jobs[b][m].iteration = jobs[b][n].iteration => m = n
    /\ \A k \in Kind : \A n \in DOMAIN jobs[b] : JobOf(n, b, k) =>
          /\ jobs[b][n].start = etm[b].start /\ jobs[b][n].end = etm[b].end
          /\ jobs[b][n].folder = etm[b].folder
          /\ etm[b].state # Waiting[k] /\ Status(b, k) # "none"
    /\ \A k \in Kind : Status(b, k) \in {"created", "timeout", "canceling", "canceled"} =>
          JobOf(JobId(b, k), b, k)
    /\ etm[b].state = Copying.to =>
          /\ JobOf(JobId(b, "to"), b, "to")
          /\ Status(b, "to") = "done" => jobs[b][JobId(b, "to")].status = "done"

\* Worker w has a delivery for account b.
Serves(w, b) == worker[w].ba = b

\* A delivery for account b whose context is not over.
Live(w, b) == worker[w].pc # "idle" /\ ~worker[w].late /\ worker[w].ba = b

\* The account has no more than one such delivery, which is what its document waits for.
Owned(b) ==
    /\ \A v, w \in Worker : Live(v, b) /\ Live(w, b) => v = w
    /\ \A w \in Worker : Live(w, b) =>
          /\ worker[w].iteration = etm[b].iteration
          /\ etm[b].state = Scheduled[worker[w].kind]
          /\ Status(b, worker[w].kind) = "pending" /\ etm[b].job[worker[w].kind].due = "none"
          /\ worker[w].start = etm[b].start /\ worker[w].end = etm[b].end
          /\ worker[w].pc \in {"begun", "bucket"} =>
                \A n \in DOMAIN jobs[b] : ~JobOf(n, b, worker[w].kind)
          /\ worker[w].pc = "inserted" => JobOf(worker[w].job, b, worker[w].kind)
          /\ worker[w].pc = "bucket" => worker[w].kind = "to"
          /\ worker[w].pc = "bucket" \/ worker[w].kind = "from" =>
                worker[w].folder = etm[b].folder

\* The export of the attempt is done and its load is not.
Loading(b) == \/ etm[b].state \in {Waiting.from, Scheduled.from, Copying.from}
              \/ etm[b].state = "failed" /\ Status(b, "to") = "done"

\* No other export writes to the folder of an attempt, nothing deletes its files before it is
\* over, and they are the segment when it is loaded.
Folders(b) ==
    /\ etm[b].folder = 0 \/ etm[b].folder \in DOMAIN files[b]
    /\ etm[b].state = Waiting.to => etm[b].folder = 0
    /\ \A n \in DOMAIN jobs[b] : jobs[b][n].folder \in DOMAIN files[b]
    /\ \A f : <<b, f>> \in deletions =>
          f \in DOMAIN files[b] /\ (f = etm[b].folder => etm[b].state = "pending")
    /\ etm[b].state # "pending" =>
          \A n \in DOMAIN jobs[b] :
             jobs[b][n].kind = "to" /\ jobs[b][n].folder = etm[b].folder =>
                /\ jobs[b][n].iteration = etm[b].iteration
                /\ jobs[b][n].status = "done" => files[b][etm[b].folder] = Segment(etm[b])
    /\ Loading(b) =>
          /\ etm[b].folder # 0 /\ files[b][etm[b].folder] = Segment(etm[b])
          /\ \A n \in DOMAIN jobs[b] : JobOf(n, b, "to") => jobs[b][n].status = "done"

\* A load that runs is of the current attempt, and the rows of one that is done are there.
Loads(b) ==
    \A n \in DOMAIN jobs[b] : jobs[b][n].kind = "from" =>
        /\ jobs[b][n].end <= newest[b]
        /\ jobs[b][n].status = "running" => jobs[b][n].iteration = etm[b].iteration /\ Loading(b)
        /\ jobs[b][n].status = "done" => \A x \in Segment(jobs[b][n]) : local[b][x] >= 1
        /\ jobs[b][n].iteration = etm[b].iteration /\ Status(b, "from") \in {"failed", "canceled"}
              => jobs[b][n].status = "failed"
        /\ jobs[b][n].iteration = etm[b].iteration /\ Status(b, "from") = "done"
              => jobs[b][n].status = "done"

\* A row of the segment is in the local table only when the load of the attempt is done, all
\* of them are when the document says so, and none is there twice or ahead of its segment.
Counted(b) ==
    /\ newest[b] <= MaxRecord /\ etm[b].start <= etm[b].end /\ etm[b].end <= newest[b]
    /\ \A x \in Records : local[b][x] <= 1 /\ (x > etm[b].end => local[b][x] = 0)
    /\ \A x \in Segment(etm[b]) : local[b][x] = 0 \/ Status(b, "from") = "done"
          \/ \E n \in DOMAIN jobs[b] : JobOf(n, b, "from") /\ jobs[b][n].status = "done"
    /\ Status(b, "from") = "done" => \A x \in Segment(etm[b]) : local[b][x] >= 1

\* The first segment of the account is in the local table.
History(b) ==
    \E n \in DOMAIN jobs[b] :
        /\ jobs[b][n].start = 0 /\ jobs[b][n].end <= newest[b]
        /\ \A x \in Segment(jobs[b][n]) : local[b][x] >= 1

Histories(b) ==
    \/ itmState[b] = "initializing" \/ etm[b].state = "done_onboarding" \/ etm[b].start # 0
    \/ etm[b].end # 0 /\ Status(b, "from") = "done"
    => History(b)

\* What a goroutine has read is still so when it writes.
Looked(b) ==
    \A r \in Run :
        /\ gor[r][b].pc \in {"lookup", "write", "update"} => gor[r][b].iteration = etm[b].iteration
        /\ gor[r][b].pc \in {"lookup", "write"} => Status(b, gor[r][b].kind) = "schedule_timeout"
        /\ gor[r][b].pc = "write" =>
              \/ /\ gor[r][b].job.status = "failed"
                 /\ \A n \in DOMAIN jobs[b] : ~JobOf(n, b, gor[r][b].kind)
              \/ gor[r][b].job.status = "timeout" /\ JobOf(gor[r][b].job.id, b, gor[r][b].kind)

AccountInv(b) == /\ Shape(b) /\ Attempt(b) /\ Owned(b) /\ Folders(b) /\ Loads(b)
                 /\ Counted(b) /\ Histories(b)

AccountsInv == \A b \in BA : AccountInv(b) /\ Looked(b)

-----------------------------------------------------------------------------
(* What the shapes give.                                                   *)

LEMMA EtmParts ==
    ASSUME TypeOK, NEW b \in BA
    PROVE  /\ etm[b] \in Etm /\ etm[b].iteration \in Nat /\ etm[b].start \in Nat
           /\ etm[b].end \in Nat /\ etm[b].folder \in Nat /\ newest[b] \in Nat
           /\ etm[b].state \in ExternalTaskState
           /\ \A k \in Kind : etm[b].job[k] \in JobMeta /\ Status(b, k) \in JobStatus
                                 /\ JobId(b, k) \in Nat
  BY DEF TypeOK, Etm, JobMeta, Status, JobId

LEMMA JobParts ==
    ASSUME TypeOK, NEW b \in BA, NEW n \in DOMAIN jobs[b]
    PROVE  /\ jobs[b][n] \in Job /\ jobs[b][n].iteration \in Nat /\ jobs[b][n].start \in Nat
           /\ jobs[b][n].end \in Nat /\ jobs[b][n].folder \in Nat /\ jobs[b][n].kind \in Kind
           /\ jobs[b][n].status \in {"running", "done", "failed"}
  <1>1. jobs[b] \in Seq(Job)
    BY DEF TypeOK
  <1>2. jobs[b][n] \in Job
    BY <1>1
  <1> QED  BY <1>2 DEF Job

LEMMA WorkerParts ==
    ASSUME TypeOK, NEW w \in Worker
    PROVE  /\ worker[w] \in WorkerRec /\ worker[w].ba \in BA /\ worker[w].kind \in Kind
           /\ worker[w].iteration \in Nat /\ worker[w].start \in Nat /\ worker[w].end \in Nat
           /\ worker[w].folder \in Nat /\ worker[w].job \in Nat
  BY DEF TypeOK, WorkerRec

\* The task of an account is where it was, and so are its jobs and its rows.
SameTask(b) ==
    /\ etm'[b].state = etm[b].state /\ etm'[b].iteration = etm[b].iteration
    /\ etm'[b].start = etm[b].start /\ etm'[b].end = etm[b].end
    /\ etm'[b].folder = etm[b].folder
    /\ \A k \in Kind : Status(b, k)' = Status(b, k) /\ JobId(b, k)' = JobId(b, k)
    /\ jobs'[b] = jobs[b] /\ local'[b] = local[b] /\ itmState'[b] = itmState[b]
    /\ newest[b] <= newest'[b] /\ newest'[b] <= MaxRecord

LEMMA TaskKept ==
    ASSUME TypeOK, TypeOK', NEW b \in BA, AccountInv(b), SameTask(b)
    PROVE  /\ Shape(b)' /\ Attempt(b)' /\ Loads(b)' /\ Counted(b)' /\ Histories(b)'
           /\ \A k \in Kind : \A n : JobOf(n, b, k)' <=> JobOf(n, b, k)
           /\ Loading(b)' <=> Loading(b)
           /\ Segment(etm'[b]) = Segment(etm[b])
  <1>1. \A k \in Kind : \A n : JobOf(n, b, k)' <=> JobOf(n, b, k)
    BY DEF JobOf, SameTask
  <1>2. Loading(b)' <=> Loading(b)
    BY DEF Loading, SameTask
  <1>3. Segment(etm'[b]) = Segment(etm[b])
    BY DEF Segment, SameTask
  <1>4. Shape(b)'
    BY SMTT(40) DEF AccountInv, Shape, SameTask
  <1>5. Attempt(b)'
    <2>1. \A k \in Kind : \A n \in DOMAIN jobs[b] : JobOf(n, b, k) =>
             /\ jobs[b][n].start = etm[b].start /\ jobs[b][n].end = etm[b].end
             /\ jobs[b][n].folder = etm[b].folder
             /\ etm[b].state # Waiting[k] /\ Status(b, k) # "none"
      BY DEF AccountInv, Attempt
    <2>2. \A k \in Kind : Status(b, k) \in {"created", "timeout", "canceling", "canceled"} =>
             JobOf(JobId(b, k), b, k)
      BY DEF AccountInv, Attempt
    <2>3. /\ \A n \in DOMAIN jobs[b] : jobs[b][n].iteration <= etm[b].iteration
          /\ \A m, n \in DOMAIN jobs[b] :
                jobs[b][m].kind = jobs[b][n].kind /\ jobs[b][m].iteration = jobs[b][n].iteration
                   => m = n
          /\ etm[b].state = Copying.to =>
                /\ JobOf(JobId(b, "to"), b, "to")
                /\ Status(b, "to") = "done" => jobs[b][JobId(b, "to")].status = "done"
      BY DEF AccountInv, Attempt
    <2> QED  BY SMTT(20), <1>1, <2>1, <2>2, <2>3 DEF Attempt, SameTask
  <1>6. Loads(b)'
    <2>1. \A n \in DOMAIN jobs[b] :
             jobs[b][n].end \in Nat /\ newest[b] \in Nat /\ newest'[b] \in Nat
      BY ZenonT(60), JobParts DEF TypeOK
    <2> QED  BY <1>2, <2>1 DEF AccountInv, Loads, Segment, SameTask
  <1>7. Counted(b)'
    <2>1. etm[b].end \in Nat /\ newest[b] \in Nat /\ newest'[b] \in Nat
      BY EtmParts DEF TypeOK
    <2> QED  BY <1>1, <2>1 DEF AccountInv, Counted, Segment, SameTask
  <1>8. Histories(b)'
    <2>1. \A n \in DOMAIN jobs[b] :
             jobs[b][n].end \in Nat /\ newest[b] \in Nat /\ newest'[b] \in Nat
      BY JobParts DEF TypeOK
    <2> QED  BY <2>1 DEF AccountInv, Histories, History, Segment, SameTask
  <1> QED  BY <1>1, <1>2, <1>3, <1>4, <1>5, <1>6, <1>7, <1>8

\* What is said of the deliveries only loses some of them.
LEMMA OwnedKept ==
    ASSUME TypeOK, TypeOK', NEW b \in BA, AccountInv(b), SameTask(b),
           \A w \in Worker : Live(w, b)' =>
              /\ worker'[w] = worker[w]
              /\ etm'[b].job[worker[w].kind].due = etm[b].job[worker[w].kind].due
    PROVE  Owned(b)'
  <1>1. \A w \in Worker : worker[w].kind \in Kind
    BY WorkerParts
  <1>2. \A w \in Worker : Live(w, b)' => Live(w, b) /\ worker'[w] = worker[w]
    BY DEF Live
  <1>3. \A k \in Kind : \A n : JobOf(n, b, k)' <=> JobOf(n, b, k)
    BY TaskKept
  <1> QED  BY SMTT(20), <1>1, <1>2, <1>3 DEF AccountInv, Owned, SameTask

\* An account that a step does not touch, except that its customer's table may grow.
SameAccount(b) ==
    /\ etm'[b] = etm[b] /\ jobs'[b] = jobs[b] /\ files'[b] = files[b] /\ local'[b] = local[b]
    /\ itmState'[b] = itmState[b]
    /\ newest[b] <= newest'[b] /\ newest'[b] <= MaxRecord
    /\ \A f : <<b, f>> \in deletions' => <<b, f>> \in deletions
    /\ \A w \in Worker : Live(w, b)' => worker'[w] = worker[w]

LEMMA AccountKept ==
    ASSUME TypeOK, TypeOK', NEW b \in BA, AccountInv(b), SameAccount(b)
    PROVE  AccountInv(b)'
  <1>1. SameTask(b)
    BY DEF SameAccount, SameTask, Status, JobId
  <1>2. Owned(b)'
    BY <1>1, OwnedKept DEF SameAccount
  <1>3. \A n : JobOf(n, b, "to")' <=> JobOf(n, b, "to")
    BY <1>1, TaskKept
  <1>4. Loading(b)' <=> Loading(b)
    BY <1>1, TaskKept
  <1>5. Folders(b)'
    BY <1>3, <1>4 DEF AccountInv, Folders, Segment, SameAccount
  <1> QED  BY <1>1, <1>2, <1>5, TaskKept DEF AccountInv

\* A goroutine that looks up a job whose start timed out is right as long as that job stays
\* as it is.
LEMMA LookedKept ==
    ASSUME TypeOK, NEW b \in BA, Looked(b), etm'[b].iteration = etm[b].iteration,
           \A k \in Kind : Status(b, k) = "schedule_timeout" =>
              /\ Status(b, k)' = "schedule_timeout"
              /\ \A n : JobOf(n, b, k)' <=> JobOf(n, b, k),
           \A r \in Run : \/ gor'[r][b] = gor[r][b]
                          \/ gor'[r][b].pc \notin {"lookup", "write", "update"}
    PROVE  Looked(b)'
  <1> SUFFICES ASSUME NEW r \in Run, gor'[r][b].pc \in {"lookup", "write", "update"}
               PROVE  /\ gor'[r][b].iteration = etm'[b].iteration
                      /\ gor'[r][b].pc \in {"lookup", "write"} =>
                            Status(b, gor[r][b].kind)' = "schedule_timeout"
                      /\ gor'[r][b].pc = "write" =>
                            \/ /\ gor'[r][b].job.status = "failed"
                               /\ \A n \in DOMAIN jobs'[b] : ~JobOf(n, b, gor[r][b].kind)'
                            \/ /\ gor'[r][b].job.status = "timeout"
                               /\ JobOf(gor[r][b].job.id, b, gor[r][b].kind)'
    BY DEF Looked
  <1>1. gor'[r][b] = gor[r][b]
    OBVIOUS
  <1>2. PICK k \in Kind : k = gor[r][b].kind
    <2>1. gor[r][b] \in Gor
      BY DEF TypeOK
    <2> QED  BY <2>1 DEF Gor
  <1>3. /\ gor[r][b].iteration = etm[b].iteration
        /\ gor[r][b].pc \in {"lookup", "write"} => Status(b, k) = "schedule_timeout"
        /\ gor[r][b].pc = "write" =>
              \/ gor[r][b].job.status = "failed" /\ \A n \in DOMAIN jobs[b] : ~JobOf(n, b, k)
              \/ gor[r][b].job.status = "timeout" /\ JobOf(gor[r][b].job.id, b, k)
    BY <1>1, <1>2 DEF Looked
  <1>4. gor'[r][b].kind = k
    BY <1>1, <1>2
  <1>5. (\A n \in DOMAIN jobs[b] : ~JobOf(n, b, k)) => \A n : ~JobOf(n, b, k)
    BY DEF JobOf
  <1> QED  BY <1>1, <1>3, <1>4, <1>5

\* A step of a run that keeps the iteration of an account, its segment and its folder.
LEMMA UpdateKeeps ==
    ASSUME TypeOK, TypeOK', NEW b \in BA, AccountInv(b),
           etm'[b].iteration = etm[b].iteration, etm'[b].folder = etm[b].folder,
           etm'[b].start = etm[b].start, etm'[b].end = etm[b].end,
           UNCHANGED <<newest, jobs, files, deletions, local, worker>>,
           Shape(b)',
           \A w \in Worker : ~Live(w, b),
           \A k \in Kind : etm'[b].state = Waiting[k] => \A n \in DOMAIN jobs[b] : ~JobOf(n, b, k),
           \A k \in Kind : Status(b, k)' = "none" => Status(b, k) = "none",
           \A k \in Kind : Status(b, k)' \in {"created", "timeout", "canceling", "canceled"} =>
              JobOf(JobId(b, k)', b, k),
           etm'[b].state = Copying.to =>
              /\ JobOf(JobId(b, "to")', b, "to")
              /\ Status(b, "to")' = "done" => jobs[b][JobId(b, "to")'].status = "done",
           etm'[b].state # Waiting.to,
           etm[b].state = "pending" => etm'[b].state = "pending",
           Loading(b)' => Loading(b) \/ \E n \in DOMAIN jobs[b] :
              JobOf(n, b, "to") /\ jobs[b][n].status = "done" /\ etm[b].state # "pending",
           \A n \in DOMAIN jobs[b] : JobOf(n, b, "from") =>
              /\ jobs[b][n].status = "running" => Loading(b)'
              /\ Status(b, "from")' \in {"failed", "canceled"} => jobs[b][n].status = "failed"
              /\ Status(b, "from")' = "done" => jobs[b][n].status = "done",
           Status(b, "from") = "done" => Status(b, "from")' = "done",
           Status(b, "from")' = "done" => Status(b, "from") = "done"
              \/ \E n \in DOMAIN jobs[b] : JobOf(n, b, "from") /\ jobs[b][n].status = "done",
           etm'[b].state = "done_onboarding" =>
              \E n \in DOMAIN jobs[b] : JobOf(n, b, "from") /\ jobs[b][n].status = "done",
           itmState'[b] = "initializing" =>
              itmState[b] = "initializing" \/ etm[b].state = "done_onboarding"
    PROVE  AccountInv(b)'
  <1>1. /\ newest' = newest /\ jobs' = jobs /\ files' = files /\ deletions' = deletions
        /\ local' = local /\ worker' = worker
    BY SMTT(40)
  <1>2. \A n, k : JobOf(n, b, k)' <=> JobOf(n, b, k)
    BY <1>1 DEF JobOf
  <1>3. /\ etm[b].iteration \in Nat /\ etm[b].start \in Nat /\ etm[b].end \in Nat
        /\ \A x : x \in Segment(etm'[b]) <=> x \in Segment(etm[b])
    BY EtmParts DEF Segment
  <1>4. Attempt(b)'
    <2>1. \A n \in DOMAIN jobs[b] : JobOf(n, b, "to") \/ JobOf(n, b, "from") =>
             /\ jobs[b][n].start = etm[b].start /\ jobs[b][n].end = etm[b].end
             /\ jobs[b][n].folder = etm[b].folder
      BY DEF AccountInv, Attempt
    <2>2. \A k \in Kind : \A n \in DOMAIN jobs[b] : JobOf(n, b, k) => Status(b, k) # "none"
      BY DEF AccountInv, Attempt
    <2>3. /\ \A n \in DOMAIN jobs[b] : jobs[b][n].iteration <= etm[b].iteration
          /\ \A m, n \in DOMAIN jobs[b] :
                jobs[b][m].kind = jobs[b][n].kind /\ jobs[b][m].iteration = jobs[b][n].iteration
                   => m = n
      BY DEF AccountInv, Attempt
    <2>4. \A k \in Kind : \A n \in DOMAIN jobs[b] : JobOf(n, b, k) =>
             etm'[b].state # Waiting[k] /\ Status(b, k)' # "none"
      BY <2>2
    <2> QED  BY <1>1, <1>2, <2>1, <2>3, <2>4 DEF Attempt
  <1>5. Owned(b)'
    BY <1>1 DEF Owned, Live
  <1>6. Folders(b)'
    <2>1. /\ etm[b].folder = 0 \/ etm[b].folder \in DOMAIN files[b]
          /\ \A n \in DOMAIN jobs[b] : jobs[b][n].folder \in DOMAIN files[b]
          /\ \A f : <<b, f>> \in deletions =>
                f \in DOMAIN files[b] /\ (f = etm[b].folder => etm'[b].state = "pending")
      BY DEF AccountInv, Folders
    <2>2. etm'[b].state # "pending" =>
            \A n \in DOMAIN jobs[b] :
               jobs[b][n].kind = "to" /\ jobs[b][n].folder = etm[b].folder =>
                  /\ jobs[b][n].iteration = etm[b].iteration
                  /\ jobs[b][n].status = "done" => files[b][etm[b].folder] = Segment(etm'[b])
      <3>1. CASE etm[b].state = "pending"
        BY <3>1
      <3>2. CASE etm[b].state # "pending"
        BY <3>2, <1>3 DEF AccountInv, Folders, Segment
      <3> QED  BY <3>1, <3>2
    <2>3. Loading(b)' =>
             /\ etm[b].folder # 0 /\ files[b][etm[b].folder] = Segment(etm'[b])
             /\ \A n \in DOMAIN jobs[b] : JobOf(n, b, "to") => jobs[b][n].status = "done"
      <3>1. CASE Loading(b)
        BY <3>1 DEF AccountInv, Folders, Segment
      <3>2. ASSUME NEW n \in DOMAIN jobs[b], JobOf(n, b, "to"), jobs[b][n].status = "done",
                   etm[b].state # "pending"
            PROVE  /\ etm[b].folder # 0 /\ files[b][etm[b].folder] = Segment(etm'[b])
                   /\ \A m \in DOMAIN jobs[b] : JobOf(m, b, "to") => m = n
        <4>1. jobs[b][n].folder = etm[b].folder /\ jobs[b][n].kind = "to"
          BY <3>2 DEF AccountInv, Attempt, JobOf
        <4>2. etm[b].folder \in DOMAIN files[b] /\ files[b][etm[b].folder] = Segment(etm[b])
          BY <3>2, <4>1 DEF AccountInv, Folders
        <4>3. files[b] \in Seq(SUBSET Nat)
          BY SMTT(40) DEF TypeOK
        <4>4. \A m \in DOMAIN jobs[b] : JobOf(m, b, "to") => m = n
          BY <3>2 DEF AccountInv, Attempt, JobOf
        <4> QED  BY SMTT(40), <4>2, <4>3, <4>4 DEF Segment
      <3> QED  BY <3>1, <3>2
    <2> QED  BY <1>1, <1>2, <2>1, <2>2, <2>3 DEF Folders
  <1>7. Loads(b)'
    <2>1. \A n \in DOMAIN jobs[b] : jobs[b][n].kind = "from" =>
             /\ jobs[b][n].end <= newest[b]
             /\ jobs[b][n].status = "running" => jobs[b][n].iteration = etm[b].iteration
             /\ jobs[b][n].status = "done" => \A x \in Segment(jobs[b][n]) : local[b][x] >= 1
      BY SMTT(40) DEF AccountInv, Loads
    <2>2. \A n \in DOMAIN jobs[b] :
            jobs[b][n].kind = "from" /\ jobs[b][n].iteration = etm[b].iteration =>
               JobOf(n, b, "from")
      BY DEF JobOf
    <2> QED  BY <1>1, <2>1, <2>2 DEF Loads, Segment
  <1>8. ASSUME NEW n \in DOMAIN jobs[b], JobOf(n, b, "from"), jobs[b][n].status = "done"
        PROVE  /\ \A x \in Segment(etm[b]) : local[b][x] >= 1
               /\ jobs[b][n].start = etm[b].start /\ jobs[b][n].end = etm[b].end
    <2>1. jobs[b][n].start = etm[b].start /\ jobs[b][n].end = etm[b].end
      BY SMTT(40), <1>8 DEF AccountInv, Attempt
    <2>2. \A x \in Segment(jobs[b][n]) : local[b][x] >= 1
      BY <1>8 DEF AccountInv, Loads, JobOf
    <2> QED  BY <2>1, <2>2 DEF Segment
  <1>9. Counted(b)'
    <2>1. /\ newest[b] <= MaxRecord /\ etm[b].start <= etm[b].end /\ etm[b].end <= newest[b]
          /\ \A x \in Records : local[b][x] <= 1 /\ (x > etm[b].end => local[b][x] = 0)
          /\ \A x \in Segment(etm[b]) : local[b][x] = 0 \/ Status(b, "from") = "done"
                \/ \E n \in DOMAIN jobs[b] : JobOf(n, b, "from") /\ jobs[b][n].status = "done"
          /\ Status(b, "from") = "done" => \A x \in Segment(etm[b]) : local[b][x] >= 1
      BY DEF AccountInv, Counted
    <2>2. Status(b, "from")' = "done" => \A x \in Segment(etm[b]) : local[b][x] >= 1
      BY <1>8, <2>1
    <2> QED  BY <1>1, <1>2, <1>3, <2>1, <2>2 DEF Counted
  <1>10. Histories(b)'
    <2>1. ASSUME NEW n \in DOMAIN jobs[b], JobOf(n, b, "from"), jobs[b][n].status = "done"
          PROVE  History(b)
      <3>1. CASE etm[b].start # 0
        BY <3>1 DEF AccountInv, Histories
      <3>2. CASE etm[b].start = 0
        BY <1>8, <2>1, <3>2 DEF AccountInv, Counted, History, Segment
      <3> QED  BY <3>1, <3>2
    <2>2. History(b)' <=> History(b)
      BY <1>1 DEF History, Segment
    <2> QED  BY <2>1, <2>2 DEF AccountInv, Histories
  <1> QED  BY <1>4, <1>5, <1>6, <1>7, <1>9, <1>10 DEF AccountInv

-----------------------------------------------------------------------------
(* updateExternalTask, while an attempt goes on.                           *)

LEMMA UpdateToParts ==
    ASSUME TypeOK, NEW r \in Run, NEW b \in BA, NEW e, UpdateTo(r, b, e)
    PROVE  /\ etm'[b] = e
           /\ UNCHANGED <<lease, run, itmState, tasks, worker, newest, jobs, files, local>>
           /\ gor'[r][b].pc \notin {"lookup", "write", "update"}
  <1>1. gor'[r][b] \in {GorAt("dispatch", e.iteration, "to", NoJobMeta),
                        GorAt("dispatch", e.iteration, "from", NoJobMeta), GorDone}
    BY DEF TypeOK, UpdateTo
  <1> QED  BY <1>1 DEF TypeOK, UpdateTo, managerVars, GorAt, GorDone

\* Saving the document as it was.
LEMMA UnchangedKeeps ==
    ASSUME TypeOK, TypeOK', NEW r \in Run, NEW b \in BA, AccountInv(b),
           UpdateTo(r, b, etm[b]), UNCHANGED deletions
    PROVE  AccountInv(b)'
  <1>1. /\ etm'[b] = etm[b]
        /\ UNCHANGED <<newest, jobs, files, deletions, local, worker, itmState>>
    BY UpdateToParts
  <1>2. newest[b] \in Nat /\ newest[b] <= MaxRecord
    BY DEF TypeOK, AccountInv, Counted
  <1>3. newest'[b] = newest[b] /\ newest[b] <= newest'[b] /\ newest'[b] <= MaxRecord
    BY <1>1, <1>2
  <1>4. SameAccount(b)
    BY <1>1, <1>3 DEF SameAccount
  <1> QED  BY <1>4, AccountKept

\* A run that changes what a document waits for finds no delivery that owns the task.
LEMMA UpdateStartingKeeps ==
    ASSUME TypeOK, TypeOK', NEW r \in Run, NEW b \in BA, NEW k \in Kind, AccountInv(b),
           UpdateStarting(r, b, k)
    PROVE  AccountInv(b)'
  <1> DEFINE e == etm[b]
             copying == [e EXCEPT !.state = Copying[k]]
             failed  == [e EXCEPT !.state = "failed", !.job[k].status = "schedule_timeout"]
  <1>1. e \in Etm /\ e.state \in {Waiting[k], Scheduled[k]} /\ UNCHANGED deletions
    BY DEF TypeOK, UpdateStarting
  <1>2. \A w \in Worker : Live(w, b) =>
          /\ etm[b].state = Scheduled[worker[w].kind] /\ Status(b, worker[w].kind) = "pending"
          /\ etm[b].job[worker[w].kind].due = "none" /\ worker[w].kind \in Kind
    BY WorkerParts DEF AccountInv, Owned
  <1>3. CASE UpdateTo(r, b, copying) /\ e.state = Scheduled[k] /\ e.job[k].status = "created"
    <2>1. /\ etm'[b] = copying
          /\ UNCHANGED <<newest, jobs, files, deletions, local, worker, itmState>>
      BY <1>1, <1>3, UpdateToParts
    <2>2. /\ copying.state = Copying[k] /\ copying.iteration = e.iteration
          /\ copying.start = e.start /\ copying.end = e.end /\ copying.folder = e.folder
          /\ copying.job = e.job
      BY <1>1 DEF Etm
    <2>3. \A m : Status(b, m)' = Status(b, m)
      BY <2>1, <2>2 DEF Status
    <2>4. Status(b, k) = "created"
      BY <1>3 DEF Status
    <2>5. Shape(b)'
      BY <1>3, <2>1, <2>2, <2>3, <2>4 DEF AccountInv, Shape
    <2>6. \A w \in Worker : ~Live(w, b)
      BY SMTT(40), <1>2, <1>3, <2>4
    <2>7. /\ \A m \in Kind : Status(b, m) \in {"created", "timeout", "canceling", "canceled"} =>
             JobOf(JobId(b, m), b, m)
          /\ \A n \in DOMAIN jobs[b] : JobOf(n, b, "from") =>
              /\ jobs[b][n].status = "running" => Loading(b)
              /\ Status(b, "from") \in {"failed", "canceled"} => jobs[b][n].status = "failed"
              /\ Status(b, "from") = "done" => jobs[b][n].status = "done"
      BY DEF AccountInv, Attempt, Loads, JobOf
    <2>8. etm'[b].job = etm[b].job
      BY <2>1, <2>2
    <2>9. Loading(b)' <=> Loading(b)
      BY <1>3, <2>1, <2>2 DEF Loading
    <2>10. /\ etm'[b].state # Waiting.to /\ etm'[b].state # Waiting.from
           /\ etm[b].state # "pending" /\ etm'[b].state # "done_onboarding"
           /\ etm'[b].state = Copying.to => k = "to"
           /\ Status(b, "to")' = "done" => k # "to"
      BY SMTT(40), <1>3, <2>1, <2>2, <2>3, <2>4
    <2> QED
      BY ZenonT(60), <2>1, <2>2, <2>3, <2>4, <2>5, <2>6, <2>7, <2>8, <2>9, <2>10, UpdateKeeps
         DEF JobId
  <1>4. CASE UpdateTo(r, b, failed) /\ e.job[k].due # "none"
    <2>1. /\ etm'[b] = failed
          /\ UNCHANGED <<newest, jobs, files, deletions, local, worker, itmState>>
      BY <1>1, <1>4, UpdateToParts
    <2>2. /\ failed.state = "failed" /\ failed.iteration = e.iteration
          /\ failed.start = e.start /\ failed.end = e.end /\ failed.folder = e.folder
          /\ failed.job[k].status = "schedule_timeout"
          /\ \A m \in Kind : m # k => failed.job[m] = e.job[m]
      BY <1>1 DEF Etm, JobMeta
    <2>3. /\ Status(b, k)' = "schedule_timeout"
          /\ \A m \in Kind : m # k => Status(b, m)' = Status(b, m)
      BY <2>1, <2>2 DEF Status
    <2>4. Shape(b)'
      BY <1>1, <2>1, <2>2, <2>3 DEF AccountInv, Shape, Broken
    <2>5. \A w \in Worker : ~Live(w, b)
      BY <1>1, <1>2, <1>4
    <2>6. /\ \A m \in Kind : Status(b, m) \in {"created", "timeout", "canceling", "canceled"} =>
             JobOf(JobId(b, m), b, m)
          /\ \A n \in DOMAIN jobs[b] : JobOf(n, b, "from") =>
              /\ jobs[b][n].status = "running" => Loading(b)
              /\ Status(b, "from") \in {"failed", "canceled"} => jobs[b][n].status = "failed"
              /\ Status(b, "from") = "done" => jobs[b][n].status = "done"
      BY DEF AccountInv, Attempt, Loads, JobOf
    <2>7. /\ Loading(b)' <=> Loading(b)
          /\ Status(b, "from") # "done" /\ Status(b, "from")' \notin {"done", "failed", "canceled"}
      BY <1>1, <2>1, <2>2, <2>3 DEF Loading, AccountInv, Shape
    <2>8. \A m \in Kind : Status(b, m)' \in {"created", "timeout", "canceling", "canceled"} =>
             JobOf(JobId(b, m)', b, m)
      BY <2>1, <2>2, <2>3, <2>6 DEF JobId
    <2>9. /\ etm'[b].state = "failed" /\ etm[b].state # "pending"
          /\ etm'[b].state \notin {Waiting.to, Waiting.from, Copying.to, "done_onboarding"}
      BY <1>1, <2>1, <2>2
    <2>10. /\ \A n \in DOMAIN jobs[b] : JobOf(n, b, "from") =>
              /\ jobs[b][n].status = "running" => Loading(b)'
              /\ Status(b, "from")' \in {"failed", "canceled"} => jobs[b][n].status = "failed"
              /\ Status(b, "from")' = "done" => jobs[b][n].status = "done"
           /\ \A m \in Kind : Status(b, m)' = "none" => Status(b, m) = "none"
      BY <2>3, <2>6, <2>7
    <2> QED
      BY ZenonT(60), <2>1, <2>2, <2>4, <2>5, <2>7, <2>8, <2>9, <2>10, UpdateKeeps
  <1>5. CASE UpdateTo(r, b, e)
    BY <1>1, <1>5, UnchangedKeeps
  <1> QED  BY <1>3, <1>4, <1>5 DEF UpdateStarting

LEMMA JobFacts ==
    ASSUME NEW b \in BA, AccountInv(b)
    PROVE  /\ \A k \in Kind : Status(b, k) \in {"created", "timeout", "canceling", "canceled"} =>
                 JobOf(JobId(b, k), b, k)
           /\ \A n \in DOMAIN jobs[b] : JobOf(n, b, "from") =>
                 /\ jobs[b][n].status = "running" => Loading(b)
                 /\ Status(b, "from") \in {"failed", "canceled"} => jobs[b][n].status = "failed"
                 /\ Status(b, "from") = "done" => jobs[b][n].status = "done"
           /\ \A k \in Kind : \A m, n \in DOMAIN jobs[b] :
                 JobOf(m, b, k) /\ JobOf(n, b, k) => m = n
           /\ \A k \in Kind : \A n \in DOMAIN jobs[b] :
                 JobOf(n, b, k) => Status(b, k) # "none" /\ etm[b].state # Waiting[k]
  <1>1. /\ \A k \in Kind : Status(b, k) \in {"created", "timeout", "canceling", "canceled"} =>
              JobOf(JobId(b, k), b, k)
        /\ \A k \in Kind : \A n \in DOMAIN jobs[b] :
              JobOf(n, b, k) => Status(b, k) # "none" /\ etm[b].state # Waiting[k]
    BY SMTT(40) DEF AccountInv, Attempt
  <1>2. \A k \in Kind : \A m, n \in DOMAIN jobs[b] : JobOf(m, b, k) /\ JobOf(n, b, k) => m = n
    BY DEF AccountInv, Attempt, JobOf
  <1>3. \A n \in DOMAIN jobs[b] : JobOf(n, b, "from") =>
           /\ jobs[b][n].status = "running" => Loading(b)
           /\ Status(b, "from") \in {"failed", "canceled"} => jobs[b][n].status = "failed"
           /\ Status(b, "from") = "done" => jobs[b][n].status = "done"
    BY DEF AccountInv, Loads, JobOf
  <1> QED  BY <1>1, <1>2, <1>3

\* The delivery that owns the task of an account waits for its job to be created.
LEMMA OwnerWaits ==
    ASSUME TypeOK, NEW b \in BA, AccountInv(b), NEW w \in Worker, Live(w, b)
    PROVE  /\ worker[w].kind \in Kind /\ worker[w].ba = b
           /\ etm[b].state = Scheduled[worker[w].kind]
           /\ Status(b, worker[w].kind) = "pending" /\ etm[b].job[worker[w].kind].due = "none"
           /\ worker[w].iteration = etm[b].iteration
  BY SMTT(40), WorkerParts DEF AccountInv, Owned, Live

\* The status of a job becomes that of an attempt which failed.
LEMMA StatusChangeKeeps ==
    ASSUME TypeOK, TypeOK', NEW r \in Run, NEW b \in BA, NEW k \in Kind, AccountInv(b),
           NEW st \in {"pending", "failed"}, NEW s \in Broken,
           UpdateTo(r, b, [etm[b] EXCEPT !.state = st, !.job[k].status = s]),
           UNCHANGED deletions,
           etm[b].state \in {Copying[k], "failed"},
           k = "from" => Status(b, "to") = "done" /\ Status(b, "from") # "done",
           k = "to" => Status(b, "from") = "none",
           s \in {"timeout", "canceling", "canceled"} => JobOf(JobId(b, k), b, k),
           k = "from" /\ s \in {"failed", "canceled"} => \A n \in DOMAIN jobs[b] :
              JobOf(n, b, "from") => jobs[b][n].status = "failed",
           st = "pending" /\ k = "from" => s = "failed"
    PROVE  AccountInv(b)'
  <1> DEFINE failed == [etm[b] EXCEPT !.state = st, !.job[k].status = s]
  <1>1. /\ etm'[b] = failed
        /\ UNCHANGED <<newest, jobs, files, deletions, local, worker, itmState>>
    BY UpdateToParts
  <1>2. /\ failed.state = st /\ failed.iteration = etm[b].iteration
        /\ failed.start = etm[b].start /\ failed.end = etm[b].end
        /\ failed.folder = etm[b].folder
        /\ failed.job[k].status = s /\ failed.job[k].id = JobId(b, k)
        /\ \A m \in Kind : m # k => failed.job[m] = etm[b].job[m]
    <2>1. etm[b] \in Etm /\ etm[b].job \in [Kind -> JobMeta] /\ etm[b].job[k] \in JobMeta
      BY EtmParts DEF Etm
    <2>2. /\ failed.state = st /\ failed.iteration = etm[b].iteration
          /\ failed.start = etm[b].start /\ failed.end = etm[b].end
          /\ failed.folder = etm[b].folder
          /\ failed.job = [etm[b].job EXCEPT ![k].status = s]
      BY <2>1 DEF Etm
    <2>3. /\ failed.job[k] = [etm[b].job[k] EXCEPT !.status = s]
          /\ \A m \in Kind : m # k => failed.job[m] = etm[b].job[m]
      BY <2>1, <2>2
    <2>4. failed.job[k].status = s /\ failed.job[k].id = JobId(b, k)
      BY <2>1, <2>3 DEF JobMeta, JobId
    <2> QED  BY <2>2, <2>3, <2>4
  <1>3. /\ Status(b, k)' = s
        /\ \A m \in Kind : m # k => Status(b, m)' = Status(b, m)
    BY <1>1, <1>2 DEF Status
  <1>4. Shape(b)'
    BY <1>1, <1>2, <1>3 DEF Shape, Broken
  <1>5. \A w \in Worker : ~Live(w, b)
    BY OwnerWaits
  <1>6. Status(b, "from")' # "done"
    BY <1>3 DEF Broken
  <1>7. Status(b, "from") # "done"
    OBVIOUS
  <1>8. \A m \in Kind : Status(b, m)' \in {"created", "timeout", "canceling", "canceled"} =>
           JobOf(JobId(b, m)', b, m)
    BY <1>1, <1>2, <1>3, JobFacts DEF Broken, JobId
  <1>9. /\ etm'[b].state = st
        /\ etm[b].state # "pending"
        /\ etm'[b].state \notin {Waiting.to, Waiting.from, Copying.to, "done_onboarding"}
    BY <1>1, <1>2
  <1>10. \A n \in DOMAIN jobs[b] : JobOf(n, b, "from") => k = "from"
    BY JobFacts
  <1>11. \A n \in DOMAIN jobs[b] : JobOf(n, b, "from") =>
            /\ jobs[b][n].status = "running" => Loading(b)'
            /\ Status(b, "from")' \in {"failed", "canceled"} => jobs[b][n].status = "failed"
    BY <1>3, <1>9, <1>10 DEF Loading
  <1>12. Loading(b)' => Loading(b)
    BY <1>3, <1>9 DEF Loading, Broken
  <1>13. \A m \in Kind : Status(b, m)' = "none" => Status(b, m) = "none"
    BY <1>3 DEF Broken
  <1> QED
    BY ZenonT(60), <1>1, <1>2, <1>4, <1>5, <1>6, <1>7, <1>8, <1>9, <1>11, <1>12, <1>13, UpdateKeeps

\* The export of an attempt is done: its load is next.
LEMMA ExportedKeeps ==
    ASSUME TypeOK, TypeOK', NEW r \in Run, NEW b \in BA, AccountInv(b),
           UpdateTo(r, b, AfterJob(etm[b], "to")), UNCHANGED deletions,
           etm[b].state = Copying.to, JobOf(JobId(b, "to"), b, "to"),
           jobs[b][JobId(b, "to")].status = "done"
    PROVE  AccountInv(b)'
  <1> DEFINE e == [etm[b] EXCEPT !.state = Waiting.from, !.job["to"].status = "done",
                                 !.job["from"] = PendingJobMeta]
             i == JobId(b, "to")
  <1>1. /\ etm'[b] = e
        /\ UNCHANGED <<newest, jobs, files, deletions, local, worker, itmState>>
    BY UpdateToParts DEF AfterJob
  <1>2. /\ e.state = Waiting.from /\ e.iteration = etm[b].iteration
        /\ e.start = etm[b].start /\ e.end = etm[b].end /\ e.folder = etm[b].folder
        /\ e.job["to"].status = "done" /\ e.job["from"].status = "pending"
    <2>1. etm[b] \in Etm /\ etm[b].job \in [Kind -> JobMeta] /\ etm[b].job["to"] \in JobMeta
      BY SMTT(40) DEF TypeOK, Etm
    <2>2. /\ e.state = Waiting.from /\ e.iteration = etm[b].iteration
          /\ e.start = etm[b].start /\ e.end = etm[b].end /\ e.folder = etm[b].folder
      BY <2>1 DEF Etm
    <2>3. e.job = [[etm[b].job EXCEPT !["to"].status = "done"] EXCEPT !["from"] = PendingJobMeta]
      BY <2>1 DEF Etm
    <2>4. /\ e.job["to"] = [etm[b].job["to"] EXCEPT !.status = "done"]
          /\ e.job["from"] = PendingJobMeta
      BY <2>1, <2>3
    <2>5. e.job["to"].status = "done" /\ e.job["from"].status = "pending"
      BY <2>1, <2>4 DEF JobMeta, PendingJobMeta
    <2> QED  BY <2>2, <2>5
  <1>3. Status(b, "to")' = "done" /\ Status(b, "from")' = "pending"
    BY <1>1, <1>2 DEF Status
  <1>4. Shape(b)'
    BY <1>1, <1>2, <1>3 DEF Shape
  <1>5. \A w \in Worker : ~Live(w, b)
    BY OwnerWaits
  <1>6. Status(b, "from") = "none"
    BY DEF AccountInv, Shape
  <1>7. \A n \in DOMAIN jobs[b] : ~JobOf(n, b, "from")
    BY <1>6, JobFacts
  <1>8. i \in DOMAIN jobs[b] /\ JobOf(i, b, "to") /\ jobs[b][i].status = "done"
    BY DEF JobOf
  <1>9. /\ etm'[b].state = Waiting.from
        /\ etm[b].state # "pending"
        /\ etm'[b].state \notin {Waiting.to, Copying.to, "done_onboarding"}
    BY <1>1, <1>2
  <1>10. /\ \A k \in Kind : Status(b, k)' \notin {"none", "created", "timeout", "canceling",
                                                   "canceled"}
         /\ \A k \in Kind : etm'[b].state = Waiting[k] => k = "from"
    BY SMTT(40), <1>3, <1>9
  <1> QED
    BY ZenonT(90), <1>1, <1>2, <1>3, <1>4, <1>5, <1>6, <1>7, <1>8, <1>9, <1>10, UpdateKeeps

\* The load of an attempt is done, and so is the attempt.
LEMMA LoadedKeeps ==
    ASSUME TypeOK, TypeOK', NEW r \in Run, NEW b \in BA, AccountInv(b),
           NEW st \in {"pending", "done_onboarding"},
           UpdateTo(r, b, [etm[b] EXCEPT !.state = st, !.job["from"].status = "done"]),
           UNCHANGED deletions, etm[b].state \in {Copying.from, "failed"},
           Status(b, "to") = "done", JobOf(JobId(b, "from"), b, "from"),
           jobs[b][JobId(b, "from")].status = "done"
    PROVE  AccountInv(b)'
  <1> DEFINE e == [etm[b] EXCEPT !.state = st, !.job["from"].status = "done"]
             i == JobId(b, "from")
  <1>1. /\ etm'[b] = e
        /\ UNCHANGED <<newest, jobs, files, deletions, local, worker, itmState>>
    BY UpdateToParts
  <1>2. /\ e.state = st /\ e.iteration = etm[b].iteration
        /\ e.start = etm[b].start /\ e.end = etm[b].end /\ e.folder = etm[b].folder
        /\ e.job["from"].status = "done" /\ e.job["to"] = etm[b].job["to"]
    <2>1. /\ etm[b] \in Etm /\ etm[b].job \in [Kind -> JobMeta]
          /\ etm[b].job["from"] \in JobMeta
      BY EtmParts DEF Etm
    <2>2. /\ e.state = st /\ e.iteration = etm[b].iteration
          /\ e.start = etm[b].start /\ e.end = etm[b].end /\ e.folder = etm[b].folder
          /\ e.job = [etm[b].job EXCEPT !["from"].status = "done"]
      BY <2>1 DEF Etm
    <2>3. /\ e.job["from"] = [etm[b].job["from"] EXCEPT !.status = "done"]
          /\ e.job["to"] = etm[b].job["to"]
      BY <2>1, <2>2
    <2>4. e.job["from"].status = "done"
      BY <2>1, <2>3 DEF JobMeta
    <2> QED  BY <2>2, <2>3, <2>4
  <1>3. Status(b, "to")' = "done" /\ Status(b, "from")' = "done"
    BY <1>1, <1>2 DEF Status
  <1>4. Shape(b)'
    BY SMTT(40), <1>1, <1>2, <1>3 DEF Shape
  <1>5. \A w \in Worker : ~Live(w, b)
    BY OwnerWaits
  <1>6. i \in DOMAIN jobs[b] /\ JobOf(i, b, "from") /\ jobs[b][i].status = "done"
    BY SMTT(40) DEF JobOf
  <1>7. \A n \in DOMAIN jobs[b] : JobOf(n, b, "from") => jobs[b][n].status = "done"
    BY <1>6, JobFacts
  <1>8. /\ etm'[b].state = st /\ etm[b].state # "pending"
        /\ etm'[b].state \notin {Waiting.to, Waiting.from, Copying.to}
        /\ ~Loading(b)'
    BY <1>1, <1>2 DEF Loading
  <1>9. \A k \in Kind : Status(b, k)' \notin {"none", "created", "timeout", "canceling",
                                                "canceled"}
    BY <1>3
  <1> QED
    BY ZenonT(60), <1>1, <1>2, <1>3, <1>4, <1>5, <1>6, <1>7, <1>8, <1>9, UpdateKeeps

LEMMA UpdateCopyingKeeps ==
    ASSUME TypeOK, TypeOK', NEW r \in Run, NEW b \in BA, NEW k \in Kind, AccountInv(b),
           UpdateCopying(r, b, k)
    PROVE  AccountInv(b)'
  <1> DEFINE e == etm[b]
             i == JobId(b, k)
             j == jobs[b][i]
             failed(s) == [e EXCEPT !.state = "failed", !.job[k].status = s]
  <1>1. e.state = Copying[k] /\ i \in DOMAIN jobs[b] /\ UNCHANGED deletions
    BY DEF UpdateCopying, JobId
  <1>2. /\ k = "from" => Status(b, "to") = "done" /\ Status(b, "from") = "created"
        /\ k = "to" => Status(b, "from") = "none"
    BY SMTT(40), <1>1 DEF AccountInv, Shape
  <1>3. JobOf(i, b, k)
    BY <1>1, <1>2, JobFacts DEF AccountInv, Attempt, JobId
  <1>4. CASE UpdateTo(r, b, AfterJob(e, k)) /\ j.status = "done"
    <2>1. CASE k = "to"
      BY <1>1, <1>3, <1>4, <2>1, ExportedKeeps DEF JobId
    <2>2. CASE k = "from"
      <3>1. PICK st \in {"pending", "done_onboarding"} :
               st = IF e.onBoarding THEN "done_onboarding" ELSE "pending"
        OBVIOUS
      <3>2. UpdateTo(r, b, [e EXCEPT !.state = st, !.job["from"].status = "done"])
        BY <1>4, <2>2, <3>1 DEF AfterJob
      <3> QED  BY Zenon, <1>1, <1>2, <1>3, <1>4, <2>2, <3>2, LoadedKeeps DEF JobId
    <2> QED  BY SMTT(40), <2>1, <2>2
  <1>5. CASE UpdateTo(r, b, failed("failed")) /\ j.status = "failed"
    <2>1. \A n \in DOMAIN jobs[b] : JobOf(n, b, k) => jobs[b][n].status = "failed"
      BY <1>1, <1>3, <1>5, JobFacts
    <2> QED  BY Zenon, <1>1, <1>2, <1>3, <1>5, <2>1, StatusChangeKeeps DEF Broken
  <1>6. CASE UpdateTo(r, b, failed("timeout"))
    BY ZenonT(60), <1>1, <1>2, <1>3, <1>6, StatusChangeKeeps DEF Broken, JobId
  <1>7. CASE UpdateTo(r, b, e)
    BY <1>1, <1>7, UnchangedKeeps
  <1> QED  BY ZenonT(60), <1>4, <1>5, <1>6, <1>7 DEF UpdateCopying, JobId

\* An export that was given up is done after all.
LEMMA RecoveredKeeps ==
    ASSUME TypeOK, TypeOK', NEW r \in Run, NEW b \in BA, AccountInv(b),
           UpdateTo(r, b, [etm[b] EXCEPT !.state = Copying.to, !.job["to"].status = "done"]),
           UNCHANGED deletions, etm[b].state = "failed", Status(b, "to") # "done",
           JobOf(JobId(b, "to"), b, "to"),
           jobs[b][JobId(b, "to")].status = "done"
    PROVE  AccountInv(b)'
  <1> DEFINE e == [etm[b] EXCEPT !.state = Copying.to, !.job["to"].status = "done"]
             i == JobId(b, "to")
  <1>1. /\ etm'[b] = e
        /\ UNCHANGED <<newest, jobs, files, deletions, local, worker, itmState>>
    BY UpdateToParts
  <1>2. /\ e.state = Copying.to /\ e.iteration = etm[b].iteration
        /\ e.start = etm[b].start /\ e.end = etm[b].end /\ e.folder = etm[b].folder
        /\ e.job["to"].status = "done" /\ e.job["to"].id = i
        /\ e.job["from"] = etm[b].job["from"]
    <2>1. etm[b] \in Etm /\ etm[b].job \in [Kind -> JobMeta] /\ etm[b].job["to"] \in JobMeta
      BY SMTT(40) DEF TypeOK, Etm
    <2> QED  BY <2>1 DEF Etm, JobMeta, JobId
  <1>3. /\ Status(b, "to")' = "done" /\ Status(b, "from")' = "none"
        /\ Status(b, "from") = "none"
    BY <1>1, <1>2 DEF Status, AccountInv, Shape
  <1>4. Shape(b)'
    BY SMTT(40), <1>1, <1>2, <1>3 DEF Shape
  <1>5. \A w \in Worker : ~Live(w, b)
    BY SMTT(40), OwnerWaits
  <1>6. \A n \in DOMAIN jobs[b] : ~JobOf(n, b, "from")
    BY SMTT(40), <1>3, JobFacts
  <1>7. /\ etm'[b].state = Copying.to
        /\ etm[b].state # "pending"
        /\ etm'[b].state \notin {Waiting.to, Waiting.from, "done_onboarding"}
        /\ ~Loading(b)'
        /\ JobId(b, "to")' = i
    BY <1>1, <1>2 DEF Loading, JobId
  <1>8. \A k \in Kind : /\ Status(b, k)' \notin {"created", "timeout", "canceling", "canceled"}
                        /\ Status(b, k)' = "none" => Status(b, k) = "none"
    BY <1>3
  <1> QED
    BY ZenonT(30), <1>1, <1>2, <1>3, <1>4, <1>5, <1>6, <1>7, <1>8, UpdateKeeps

LEMMA UpdateFailedKeeps ==
    ASSUME TypeOK, TypeOK', NEW r \in Run, NEW b \in BA, AccountInv(b), UpdateFailed(r, b)
    PROVE  AccountInv(b)'
  <1> DEFINE e == etm[b]
             k == IF e.job["to"].status # "done" THEN "to" ELSE "from"
             j == e.job[k]
             after(res) == [e EXCEPT
                    !.state = IF res.err \/ res.status = "failed" THEN "pending"
                              ELSE IF res.status = "done"
                                   THEN (IF k = "to" THEN Copying.to ELSE "pending")
                              ELSE "failed",
                    !.job[k].status = res.status]
  <1>1. e.state = "failed" /\ UNCHANGED deletions /\ k \in Kind
    BY Zenon DEF UpdateFailed
  <1>2. /\ Status(b, k) = j.status
        /\ k = "from" <=> Status(b, "to") = "done"
    BY DEF Status
  <1>3. /\ j.status \in Broken
        /\ k = "from" => Status(b, "to") = "done" /\ Status(b, "from") # "done"
        /\ k = "to" => Status(b, "to") # "done" /\ Status(b, "from") = "none"
    BY <1>1, <1>2 DEF AccountInv, Shape, Broken
  <1>4. PICK res \in FailedJobResults(r, b, j) :
            (res.err => k = "to") /\ UpdateTo(r, b, after(res))
    BY Zenon, <1>3 DEF UpdateFailed, Broken
  <1>5. j.status \in {"timeout", "canceling", "canceled"} => JobOf(JobId(b, k), b, k)
    BY <1>1, <1>2, JobFacts DEF JobId
  <1>6. k = "from" /\ j.status \in {"failed", "canceled"} => \A n \in DOMAIN jobs[b] :
            JobOf(n, b, "from") => jobs[b][n].status = "failed"
    BY <1>2, JobFacts
  <1>7. CASE res = [err |-> TRUE, status |-> res.status]
    <2>1. /\ res.status \in Broken
          /\ res.status \in {"timeout", "canceling", "canceled"} =>
                j.status \in {"timeout", "canceling", "canceled"}
      <3>1. res.err
        BY SMTT(40), <1>7
      <3>2. res.status = j.status
              \/ (j.status \in {"timeout", "canceling"} /\ res.status = "canceling")
        <4>1. CASE LeaseOver(r)
          <5>1. res = [err |-> TRUE, status |-> j.status]
            BY ZenonT(30), <1>4, <4>1 DEF FailedJobResults
          <5> QED  BY <5>1
        <4>2. CASE ~LeaseOver(r) /\ j.status \in {"timeout", "canceling"}
          <5>1. \/ \E s \in {j.status, "canceling"} : res = [err |-> TRUE, status |-> s]
                \/ \E s \in {"done", "canceled"} : res = [err |-> FALSE, status |-> s]
            BY ZenonT(30), <1>4, <4>2 DEF FailedJobResults
          <5> QED  BY <3>1, <4>2, <5>1
        <4>3. CASE ~LeaseOver(r) /\ j.status \notin {"timeout", "canceling"}
          <5>1. \E s : res = [err |-> FALSE, status |-> s]
            BY ZenonT(30), <1>4, <4>3 DEF FailedJobResults
          <5> QED  BY <3>1, <5>1
        <4> QED  BY <4>1, <4>2, <4>3
      <3> QED  BY <1>3, <3>2 DEF Broken
    <2>2. after(res) = [e EXCEPT !.state = "pending", !.job[k].status = res.status]
      BY <1>7
    <2>3. k = "to"
      BY <1>4, <1>7
    <2> QED  BY Zenon, <1>1, <1>3, <1>4, <1>5, <2>1, <2>2, <2>3, StatusChangeKeeps DEF JobId
  <1>8. CASE res = [err |-> FALSE, status |-> "done"]
    <2>1. /\ JobId(b, k) \in DOMAIN jobs[b] /\ jobs[b][JobId(b, k)].status = "done"
          /\ j.status \in {"timeout", "canceling"}
      BY ZenonT(60), <1>3, <1>4, <1>8 DEF FailedJobResults, Broken, Terminal, JobId
    <2>2. JobOf(JobId(b, k), b, k)
      BY <1>5, <2>1
    <2>3. CASE k = "to"
      <3>1. after(res) = [e EXCEPT !.state = Copying.to, !.job["to"].status = "done"]
        BY <1>8, <2>3
      <3> QED  BY Zenon, <1>1, <1>3, <1>4, <2>1, <2>2, <2>3, <3>1, RecoveredKeeps DEF JobId
    <2>4. CASE k = "from"
      <3>1. after(res) = [e EXCEPT !.state = "pending", !.job["from"].status = "done"]
        BY <1>8, <2>4
      <3> QED  BY Zenon, <1>1, <1>3, <1>4, <2>1, <2>2, <2>4, <3>1, LoadedKeeps DEF JobId
    <2> QED  BY <1>1, <2>3, <2>4
  <1>9. CASE res = [err |-> FALSE, status |-> "failed"]
    <2>1. j.status \in {"failed", "canceled"}
      BY Zenon, <1>3, <1>4, <1>9 DEF FailedJobResults, Broken
    <2>2. after(res) = [e EXCEPT !.state = "pending", !.job[k].status = "failed"]
      BY <1>9
    <2> QED  BY Zenon, <1>1, <1>3, <1>4, <1>6, <2>1, <2>2, StatusChangeKeeps DEF Broken
  <1>10. CASE res = [err |-> FALSE, status |-> "canceled"]
    <2>1. /\ JobId(b, k) \in DOMAIN jobs[b] /\ Terminal(jobs[b][JobId(b, k)]) /\ jobs[b][JobId(b, k)].status # "done"
          /\ j.status \in {"timeout", "canceling"}
      BY Zenon, <1>3, <1>4, <1>10 DEF FailedJobResults, Broken, JobId
    <2>2. JobOf(JobId(b, k), b, k) /\ jobs[b][JobId(b, k)].status = "failed"
      BY Zenon, <1>5, <2>1 DEF Terminal
    <2>3. \A n \in DOMAIN jobs[b] : JobOf(n, b, k) => jobs[b][n].status = "failed"
      BY Zenon, <1>1, <2>1, <2>2, JobFacts
    <2>4. after(res) = [e EXCEPT !.state = "failed", !.job[k].status = "canceled"]
      BY <1>10
    <2> QED  BY ZenonT(90), <1>1, <1>3, <1>4, <2>2, <2>3, <2>4, StatusChangeKeeps DEF Broken, JobId
  <1>11. CASE res = [err |-> FALSE, status |-> "schedule_timeout"]
    <2>1. after(res) = [e EXCEPT !.state = "failed", !.job[k].status = "schedule_timeout"]
      BY <1>11
    <2> QED  BY ZenonT(60), <1>1, <1>3, <1>4, <2>1, StatusChangeKeeps DEF Broken
  <1>12. \/ res = [err |-> TRUE, status |-> res.status]
         \/ \E s \in {"done", "failed", "canceled", "schedule_timeout"} :
               res = [err |-> FALSE, status |-> s]
    <2>1. CASE LeaseOver(r)
      <3>1. res = [err |-> TRUE, status |-> j.status]
        BY ZenonT(30), <1>4, <2>1 DEF FailedJobResults
      <3> QED  BY <3>1
    <2>2. CASE ~LeaseOver(r) /\ j.status \in {"timeout", "canceling"}
      <3>1. \/ \E s \in {j.status, "canceling"} : res = [err |-> TRUE, status |-> s]
            \/ \E s \in {"done", "canceled"} : res = [err |-> FALSE, status |-> s]
        BY ZenonT(30), <1>4, <2>2 DEF FailedJobResults
      <3> QED  BY <3>1
    <2>3. CASE ~LeaseOver(r) /\ j.status \in {"schedule_timeout", "failed", "canceled"}
      <3>1. \E s \in {"schedule_timeout", "failed"} : res = [err |-> FALSE, status |-> s]
        BY ZenonT(30), <1>4, <2>3 DEF FailedJobResults
      <3> QED  BY <3>1
    <2> QED  BY <1>3, <2>1, <2>2, <2>3 DEF Broken
  <1> QED  BY <1>7, <1>8, <1>9, <1>10, <1>11, <1>12

LEMMA MarkOnboardingDoneKeeps ==
    ASSUME TypeOK, TypeOK', NEW r \in Run, NEW b \in BA, AccountInv(b), MarkOnboardingDone(r, b)
    PROVE  AccountInv(b)'
  <1>1. UNCHANGED <<newest, jobs, files, deletions, local, worker>>
    BY DEF MarkOnboardingDone, dataVars
  <1>2. CASE etm[b].state # "done_onboarding"
    <2>1. etm'[b] = etm[b] /\ itmState'[b] = itmState[b]
      BY <1>2 DEF MarkOnboardingDone
    <2>2. newest[b] \in Nat /\ newest[b] <= MaxRecord
      BY DEF TypeOK, AccountInv, Counted
    <2>3. newest'[b] = newest[b] /\ newest[b] <= newest'[b] /\ newest'[b] <= MaxRecord
      BY <1>1, <2>2
    <2>4. SameAccount(b)
      BY SMTT(40), <1>1, <2>1, <2>3 DEF SameAccount
    <2> QED  BY <2>4, AccountKept
  <1>3. CASE etm[b].state = "done_onboarding"
    <2>1. /\ etm'[b].state = "pending" /\ etm'[b].iteration = etm[b].iteration
          /\ etm'[b].start = etm[b].start /\ etm'[b].end = etm[b].end
          /\ etm'[b].folder = etm[b].folder /\ etm'[b].job = etm[b].job
      BY SMTT(40), <1>3 DEF MarkOnboardingDone, TypeOK, Etm
    <2>2. /\ \A k : Status(b, k)' = Status(b, k)
          /\ Status(b, "to") = "done" /\ Status(b, "from") = "done"
      BY <1>3, <2>1 DEF Status, AccountInv, Shape
    <2>3. Shape(b)'
      BY <2>1, <2>2 DEF Shape
    <2>4. \A w \in Worker : ~Live(w, b)
      BY <1>3, OwnerWaits
    <2>5. ~Loading(b) /\ ~Loading(b)'
      BY <1>3, <2>1 DEF Loading
    <2>6. etm'[b].state \notin {Waiting.to, Waiting.from, Copying.to, "done_onboarding"}
      BY <2>1
    <2>7. \A k \in Kind : Status(b, k)' \notin {"none", "created", "timeout", "canceling",
                                                  "canceled"}
      BY <2>2
    <2> QED
      BY <1>1, <1>3, <2>1, <2>2, <2>3, <2>4, <2>5, <2>6, <2>7, JobFacts, UpdateKeeps
  <1> QED  BY <1>2, <1>3

-----------------------------------------------------------------------------
(* The look-up of a job whose start timed out.                             *)

LEMMA SavePrecalculatedJobKeeps ==
    ASSUME TypeOK, TypeOK', NEW r \in Run, NEW b \in BA, AccountInv(b), Looked(b),
           SavePrecalculatedJob(r, b)
    PROVE  AccountInv(b)'
  <1>0. gor[r][b] \in Gor /\ etm[b] \in Etm
    BY DEF TypeOK
  <1>1. PICK k \in Kind, j \in JobMeta : k = gor[r][b].kind /\ j = gor[r][b].job
    BY <1>0 DEF Gor
  <1>2. /\ etm'[b] = [etm[b] EXCEPT !.job[k] = j]
        /\ UNCHANGED <<newest, jobs, files, deletions, local, worker, itmState>>
    BY <1>1 DEF SavePrecalculatedJob, TypeOK, dataVars
  <1>3. /\ etm'[b].state = etm[b].state /\ etm'[b].iteration = etm[b].iteration
        /\ etm'[b].start = etm[b].start /\ etm'[b].end = etm[b].end
        /\ etm'[b].folder = etm[b].folder /\ etm'[b].job[k] = j
        /\ \A m \in Kind : m # k => etm'[b].job[m] = etm[b].job[m]
    BY <1>0, <1>2 DEF Etm
  <1>4. /\ Status(b, k) = "schedule_timeout"
        /\ \/ /\ j.status = "failed"
              /\ \A n \in DOMAIN jobs[b] : ~JobOf(n, b, k)
           \/ j.status = "timeout" /\ JobOf(j.id, b, k)
    BY <1>1 DEF Looked, SavePrecalculatedJob
  <1>5. /\ Status(b, k)' = j.status
        /\ \A m \in Kind : m # k => Status(b, m)' = Status(b, m)
    BY <1>3 DEF Status
  <1>6. /\ etm[b].state \in {"pending", "failed"} /\ Status(b, "from") # "done"
        /\ k = "to" => Status(b, "from") = "none"
        /\ k = "from" => etm[b].state = "failed" /\ Status(b, "to") = "done"
    BY <1>1, <1>4, EtmParts DEF AccountInv, Shape, ExternalTaskState
  <1>7. Shape(b)'
    BY <1>3, <1>4, <1>5, <1>6 DEF AccountInv, Shape, Broken
  <1>8. \A w \in Worker : ~Live(w, b)
    BY <1>6, OwnerWaits
  <1>9. Loading(b)' <=> Loading(b)
    BY <1>3, <1>4, <1>5, <1>6 DEF Loading
  <1>10. \A m \in Kind : Status(b, m)' \in {"created", "timeout", "canceling", "canceled"} =>
            JobOf(JobId(b, m)', b, m)
    BY <1>3, <1>4, <1>5, JobFacts DEF JobId
  <1>11. \A n \in DOMAIN jobs[b] : JobOf(n, b, "from") =>
            /\ k = "from" /\ Status(b, "from")' = "timeout"
            /\ jobs[b][n].status = "running" => Loading(b)
    BY <1>1, <1>4, <1>5, <1>6, JobFacts
  <1>12. /\ \A m \in Kind : Status(b, m)' = "none" => Status(b, m) = "none"
         /\ Status(b, "from")' # "done"
    BY <1>1, <1>4, <1>5, <1>6
  <1>13. etm'[b].state \notin {Waiting.to, Waiting.from, Copying.to, "done_onboarding"}
    BY <1>3, <1>6
  <1> QED
    BY <1>2, <1>3, <1>6, <1>7, <1>8, <1>9, <1>10, <1>11, <1>12, <1>13, UpdateKeeps

-----------------------------------------------------------------------------
(* The deletion of the files of a former attempt.                          *)

LEMMA UpdatePendingAbortsKeeps ==
    ASSUME TypeOK, TypeOK', NEW r \in Run, NEW b \in BA, AccountInv(b),
           UpdatePendingAborts(r, b)
    PROVE  AccountInv(b)'
  <1>1. /\ UNCHANGED <<etm, itmState, worker, newest, jobs, files, local>>
        /\ deletions' = deletions \cup {<<b, etm[b].folder>>}
        /\ etm[b].state = "pending" /\ etm[b].folder # 0
    BY DEF UpdatePendingAborts
  <1>2. newest[b] \in Nat /\ newest[b] <= MaxRecord
    BY DEF TypeOK, AccountInv, Counted
  <1>3. newest[b] <= newest'[b] /\ newest'[b] <= MaxRecord
    BY <1>1, <1>2
  <1>4. SameTask(b)
    BY <1>1, <1>3 DEF SameTask, Status, JobId
  <1>5. Owned(b)'
    BY <1>1, <1>4, OwnedKept
  <1>6. Folders(b)'
    <2>1. \A f : <<b, f>> \in deletions' => <<b, f>> \in deletions \/ f = etm[b].folder
      BY <1>1
    <2>2. \A f : <<b, f>> \in deletions' =>
             f \in DOMAIN files[b] /\ (f = etm[b].folder => etm[b].state = "pending")
      BY <1>1, <2>1 DEF AccountInv, Folders
    <2>3. \A n : JobOf(n, b, "to")' <=> JobOf(n, b, "to")
      BY <1>4, TaskKept
    <2>4. Loading(b)' <=> Loading(b)
      BY <1>4, TaskKept
    <2> QED  BY <1>1, <2>2, <2>3, <2>4 DEF AccountInv, Folders, Segment
  <1> QED  BY <1>4, <1>5, <1>6, TaskKept DEF AccountInv

LEMMA DeleteBucketFilesKeeps ==
    ASSUME TypeOK, TypeOK', NEW b \in BA, NEW f, AccountInv(b), DeleteBucketFiles(b, f)
    PROVE  AccountInv(b)'
  <1>1. /\ UNCHANGED <<etm, itmState, worker, newest, jobs, local>>
        /\ deletions' = deletions \ {<<b, f>>} /\ <<b, f>> \in deletions
        /\ files'[b] = [files[b] EXCEPT ![f] = {}]
    BY DEF DeleteBucketFiles, managerVars, TypeOK
  <1>2. newest[b] \in Nat /\ newest[b] <= MaxRecord
    BY DEF TypeOK, AccountInv, Counted
  <1>3. newest[b] <= newest'[b] /\ newest'[b] <= MaxRecord
    BY <1>1, <1>2
  <1>4. SameTask(b)
    BY <1>1, <1>3 DEF SameTask, Status, JobId
  <1>5. Owned(b)'
    BY <1>1, <1>4, OwnedKept
  <1>6. Folders(b)'
    <2>1. /\ DOMAIN files'[b] = DOMAIN files[b]
          /\ \A g \in DOMAIN files[b] : g # f => files'[b][g] = files[b][g]
      BY <1>1 DEF TypeOK
    <2>2. /\ etm[b].folder = 0 \/ etm[b].folder \in DOMAIN files[b]
          /\ etm[b].state # "pending" => etm[b].folder # f
      BY <1>1 DEF AccountInv, Folders
    <2>3. \A n : JobOf(n, b, "to")' <=> JobOf(n, b, "to")
      BY <1>4, TaskKept
    <2>4. (Loading(b)' <=> Loading(b)) /\ (Loading(b) => etm[b].state # "pending")
      BY <1>4, TaskKept DEF Loading
    <2>5. /\ \A n \in DOMAIN jobs[b] : jobs[b][n].folder \in DOMAIN files[b]
          /\ \A g : <<b, g>> \in deletions' =>
                g \in DOMAIN files[b] /\ (g = etm[b].folder => etm[b].state = "pending")
          /\ etm[b].state = Waiting.to => etm[b].folder = 0
      BY <1>1 DEF AccountInv, Folders
    <2>6. etm[b].state # "pending" =>
            \A n \in DOMAIN jobs[b] :
               jobs[b][n].kind = "to" /\ jobs[b][n].folder = etm[b].folder =>
                  /\ jobs[b][n].iteration = etm[b].iteration
                  /\ jobs[b][n].status = "done" => files'[b][etm[b].folder] = Segment(etm[b])
      BY <2>1, <2>2, <2>5 DEF AccountInv, Folders
    <2>7. Loading(b) =>
             /\ etm[b].folder # 0 /\ files'[b][etm[b].folder] = Segment(etm[b])
             /\ \A n \in DOMAIN jobs[b] : JobOf(n, b, "to") => jobs[b][n].status = "done"
      BY <2>1, <2>2, <2>4 DEF AccountInv, Folders
    <2> QED  BY <1>1, <2>1, <2>2, <2>3, <2>4, <2>5, <2>6, <2>7 DEF Folders, Segment
  <1> QED  BY <1>4, <1>5, <1>6, TaskKept DEF AccountInv

-----------------------------------------------------------------------------
(* The deadlines of a job.                                                 *)

LEMMA DeadlinePassesKeeps ==
    ASSUME TypeOK, TypeOK', NEW b \in BA, NEW k \in Kind, AccountInv(b), DeadlinePasses(b, k)
    PROVE  AccountInv(b)'
  <1>1. /\ UNCHANGED <<itmState, newest, jobs, files, deletions, local>>
        /\ \E d : etm' = [etm EXCEPT ![b].job[k].due = d]
        /\ \A w \in Worker :
              IF worker[w].pc # "idle" /\ worker[w].ba = b /\ worker[w].kind = k
              THEN worker'[w] = [worker[w] EXCEPT !.late = TRUE] ELSE worker'[w] = worker[w]
    BY DEF DeadlinePasses, dataVars
  <1>2. PICK d : etm' = [etm EXCEPT ![b].job[k].due = d]
    BY <1>1
  <1>3. /\ etm'[b] = [etm[b] EXCEPT !.job[k].due = d]
        /\ etm[b] \in Etm /\ etm[b].job \in [Kind -> JobMeta] /\ etm[b].job[k] \in JobMeta
    BY SMTT(40), <1>2 DEF TypeOK, Etm
  <1>4. /\ etm'[b].state = etm[b].state /\ etm'[b].iteration = etm[b].iteration
        /\ etm'[b].start = etm[b].start /\ etm'[b].end = etm[b].end
        /\ etm'[b].folder = etm[b].folder
        /\ etm'[b].job = [etm[b].job EXCEPT ![k].due = d]
    BY <1>3 DEF Etm
  <1>5. /\ etm'[b].job[k].status = etm[b].job[k].status /\ JobId(b, k)' = JobId(b, k)
        /\ \A m \in Kind : m # k => etm'[b].job[m] = etm[b].job[m]
    BY <1>3, <1>4 DEF JobMeta, JobId
  <1>6. newest[b] \in Nat /\ newest[b] <= MaxRecord
    BY DEF TypeOK, AccountInv, Counted
  <1>7. newest[b] <= newest'[b] /\ newest'[b] <= MaxRecord
    BY <1>1, <1>6
  <1>8. SameTask(b)
    BY <1>1, <1>4, <1>5, <1>7 DEF SameTask, Status, JobId
  <1>9. ASSUME NEW w \in Worker, Live(w, b)'
        PROVE  /\ worker'[w] = worker[w]
               /\ etm'[b].job[worker[w].kind].due = etm[b].job[worker[w].kind].due
    <2>1. worker[w] \in WorkerRec /\ worker[w].kind \in Kind
      BY WorkerParts
    <2>2. [worker[w] EXCEPT !.late = TRUE].late
      BY <2>1 DEF WorkerRec
    <2>3. worker'[w] = worker[w]
      BY <1>1, <1>9, <2>2 DEF Live
    <2>4. worker[w].kind # k
      BY <1>1, <1>9, <2>2, <2>3 DEF Live
    <2> QED  BY <1>5, <2>1, <2>3, <2>4
  <1>10. Owned(b)'
    BY <1>8, <1>9, OwnedKept
  <1>11. Folders(b)'
    <2>1. \A n : JobOf(n, b, "to")' <=> JobOf(n, b, "to")
      BY <1>8, TaskKept
    <2>2. Loading(b)' <=> Loading(b)
      BY <1>8, TaskKept
    <2>3. Segment(etm'[b]) = Segment(etm[b])
      BY <1>8, TaskKept
    <2> QED  BY <1>1, <1>4, <2>1, <2>2, <2>3 DEF AccountInv, Folders
  <1> QED  BY <1>8, <1>10, <1>11, TaskKept DEF AccountInv

-----------------------------------------------------------------------------
(* The deliveries.                                                         *)

\* While a document waits for a worker, no delivery owns its task; the one that begins does.
LEMMA InitTaskKeeps ==
    ASSUME TypeOK, TypeOK', NEW w \in Worker, NEW t \in tasks, AccountInv(t.ba), InitTask(w, t)
    PROVE  AccountInv(t.ba)'
  <1>1. t.ba \in BA /\ t.kind \in Kind
    BY DEF TypeOK, CloudTask
  <1>2. PICK b \in BA, k \in Kind : b = t.ba /\ k = t.kind
    BY <1>1
  <1>3. /\ etm[b].state = Waiting[k] /\ etm[b] \in Etm
        /\ etm'[b] = [etm[b] EXCEPT !.state = Scheduled[k]]
        /\ UNCHANGED <<itmState, newest, jobs, files, deletions, local>>
    BY <1>2 DEF InitTask, TypeOK, dataVars
  <1>4. /\ etm'[b].state = Scheduled[k] /\ etm'[b].iteration = etm[b].iteration
        /\ etm'[b].start = etm[b].start /\ etm'[b].end = etm[b].end
        /\ etm'[b].folder = etm[b].folder /\ etm'[b].job = etm[b].job
    BY <1>3 DEF Etm
  <1>5. /\ worker'[w].ba = b /\ worker'[w].kind = k /\ worker'[w].pc = "begun"
        /\ worker'[w].iteration = etm[b].iteration /\ worker'[w].start = etm[b].start
        /\ worker'[w].end = etm[b].end /\ worker'[w].folder = etm[b].folder
        /\ ~worker'[w].late => etm[b].job[k].due = "none"
        /\ \A v \in Worker : v # w => worker'[v] = worker[v]
    BY ZenonT(30), <1>2 DEF InitTask, TypeOK
  <1>6. AccountInv(b)
    BY <1>2
  <1>7. \A m : Status(b, m)' = Status(b, m)
    BY <1>4 DEF Status
  <1>8. \A m \in Kind : \A n : JobOf(n, b, m)' <=> JobOf(n, b, m)
    BY <1>3, <1>4 DEF JobOf
  <1>9. Status(b, k) = "pending" /\ Shape(b)'
    BY <1>3, <1>4, <1>6, <1>7 DEF AccountInv, Shape
  <1>10. \A n \in DOMAIN jobs[b] : ~JobOf(n, b, k)
    BY <1>3, <1>6, JobFacts
  <1>11. Loading(b)' <=> Loading(b)
    BY <1>3, <1>4 DEF Loading
  <1>12. Segment(etm'[b]) = Segment(etm[b])
    BY <1>4 DEF Segment
  <1>13. Attempt(b)'
    <2>1. \A m \in Kind : \A n \in DOMAIN jobs[b] : JobOf(n, b, m) =>
             /\ jobs[b][n].start = etm[b].start /\ jobs[b][n].end = etm[b].end
             /\ jobs[b][n].folder = etm[b].folder
             /\ etm'[b].state # Waiting[m] /\ Status(b, m) # "none"
      BY <1>4, <1>6 DEF AccountInv, Attempt
    <2>2. \A m \in Kind : Status(b, m) \in {"created", "timeout", "canceling", "canceled"} =>
             JobOf(JobId(b, m), b, m)
      BY SMTT(40), <1>6, JobFacts
    <2>3. /\ \A n \in DOMAIN jobs[b] : jobs[b][n].iteration <= etm[b].iteration
          /\ \A m, n \in DOMAIN jobs[b] :
                jobs[b][m].kind = jobs[b][n].kind /\ jobs[b][m].iteration = jobs[b][n].iteration
                   => m = n
          /\ etm'[b].state # Copying.to
      BY <1>4, <1>6 DEF AccountInv, Attempt
    <2> QED  BY <1>3, <1>4, <1>7, <1>8, <2>1, <2>2, <2>3 DEF Attempt, JobId
  <1>14. Owned(b)'
    <2>1. \A v \in Worker : ~Live(v, b)
      BY <1>3, <1>6, OwnerWaits
    <2>2. \A v \in Worker : Live(v, b)' => v = w
      BY <1>5, <2>1 DEF Live
    <2>3. ASSUME Live(w, b)'
          PROVE  etm'[b].job[k].due = "none"
      BY SMTT(40), <1>4, <1>5, <2>3 DEF Live
    <2> QED  BY <1>3, <1>4, <1>5, <1>7, <1>8, <1>9, <1>10, <2>2, <2>3 DEF Owned
  <1>15. Folders(b)'
    BY <1>3, <1>4, <1>6, <1>8, <1>11, <1>12 DEF AccountInv, Folders
  <1>16. Loads(b)'
    BY <1>3, <1>4, <1>6, <1>7, <1>11 DEF AccountInv, Loads, Segment
  <1>17. Counted(b)'
    BY <1>3, <1>4, <1>6, <1>7, <1>8, <1>12 DEF AccountInv, Counted
  <1>18. Histories(b)'
    BY <1>3, <1>4, <1>6, <1>7 DEF AccountInv, Histories, History, Segment
  <1>19. AccountInv(b)'
    BY <1>9, <1>13, <1>14, <1>15, <1>16, <1>17, <1>18 DEF AccountInv
  <1> QED  BY <1>2, <1>19

\* The folder is new, and the attempt has no job yet.
LEMMA SetBucketKeeps ==
    ASSUME TypeOK, TypeOK', NEW w \in Worker, NEW b \in BA, Serves(w, b), AccountInv(b),
           SetBucket(w)
    PROVE  AccountInv(b)'
  <1> DEFINE f == Len(files[b]) + 1
  <1>1. /\ worker[w].pc = "begun" /\ worker[w].kind = "to" /\ ~worker[w].late
        /\ UNCHANGED <<itmState, newest, jobs, deletions, local>>
        /\ files'[b] = Append(files[b], {}) /\ files[b] \in Seq(SUBSET Nat)
        /\ etm'[b] = [etm[b] EXCEPT !.folder = f] /\ etm[b] \in Etm
        /\ worker' = [worker EXCEPT ![w].pc = "bucket", ![w].folder = f]
    BY DEF SetBucket, TypeOK, Serves
  <1>2. Live(w, b)
    BY <1>1 DEF Live, Serves
  <1>3. /\ etm'[b].state = etm[b].state /\ etm'[b].iteration = etm[b].iteration
        /\ etm'[b].start = etm[b].start /\ etm'[b].end = etm[b].end
        /\ etm'[b].folder = f /\ etm'[b].job = etm[b].job
    BY SMTT(40), <1>1 DEF Etm
  <1>4. /\ worker'[w].pc = "bucket" /\ worker'[w].folder = f
        /\ worker'[w].kind = "to" /\ worker'[w].ba = b /\ worker'[w].iteration = worker[w].iteration
        /\ worker'[w].start = worker[w].start /\ worker'[w].end = worker[w].end
        /\ \A v \in Worker : v # w => worker'[v] = worker[v]
    BY SMTT(40), <1>1 DEF TypeOK, WorkerRec, Serves
  <1>5. /\ etm[b].state = Scheduled.to /\ Status(b, "to") = "pending"
        /\ etm[b].job["to"].due = "none"
        /\ worker[w].iteration = etm[b].iteration /\ worker[w].start = etm[b].start
        /\ worker[w].end = etm[b].end
        /\ \A n \in DOMAIN jobs[b] : ~JobOf(n, b, "to")
        /\ \A v \in Worker : Live(v, b) => v = w
    BY <1>1, <1>2 DEF AccountInv, Owned
  <1>6. /\ f \in Nat /\ f # 0 /\ f \notin DOMAIN files[b]
        /\ DOMAIN files'[b] = DOMAIN files[b] \cup {f}
        /\ \A g \in DOMAIN files[b] : files'[b][g] = files[b][g]
    BY SMTT(40), <1>1
  <1>7. \A m : Status(b, m)' = Status(b, m)
    BY <1>3 DEF Status
  <1>8. \A m \in Kind : \A n : JobOf(n, b, m)' <=> JobOf(n, b, m)
    BY <1>1, <1>3 DEF JobOf
  <1>9. Status(b, "from") = "none" /\ Shape(b)'
    BY <1>3, <1>5, <1>7 DEF AccountInv, Shape
  <1>10. \A m \in Kind : \A n : ~JobOf(n, b, m)
    BY <1>5, <1>9, JobFacts DEF JobOf
  <1>11. ~Loading(b)' /\ ~Loading(b)
    BY <1>3, <1>5 DEF Loading
  <1>12. Segment(etm'[b]) = Segment(etm[b])
    BY <1>3 DEF Segment
  <1>13. Attempt(b)'
    <2>1. /\ \A n \in DOMAIN jobs[b] : jobs[b][n].iteration <= etm[b].iteration
          /\ \A m, n \in DOMAIN jobs[b] :
                jobs[b][m].kind = jobs[b][n].kind /\ jobs[b][m].iteration = jobs[b][n].iteration
                   => m = n
      BY DEF AccountInv, Attempt
    <2>2. /\ etm'[b].state # Copying.to
          /\ \A m \in Kind :
                Status(b, m) \notin {"created", "timeout", "canceling", "canceled"}
      BY <1>3, <1>5, <1>9
    <2>3. \A m \in Kind : \A n : ~JobOf(n, b, m)'
      BY <1>8, <1>10
    <2>4. /\ \A m \in Kind : Status(b, m)' = Status(b, m)
          /\ jobs'[b] = jobs[b] /\ etm'[b].iteration = etm[b].iteration
      BY SMTT(40), <1>1, <1>3, <1>7
    <2>5. /\ \A n \in DOMAIN jobs'[b] : jobs'[b][n].iteration <= etm'[b].iteration
          /\ \A m, n \in DOMAIN jobs'[b] :
                /\ jobs'[b][m].kind = jobs'[b][n].kind
                /\ jobs'[b][m].iteration = jobs'[b][n].iteration
                => m = n
      BY <2>1, <2>4
    <2>6. \A m \in Kind : Status(b, m)' \notin {"created", "timeout", "canceling", "canceled"}
      BY SMTT(40), <2>2, <2>4
    <2> QED  BY ZenonT(60), <2>2, <2>3, <2>5, <2>6 DEF Attempt
  <1>14. Owned(b)'
    <2>1. \A v \in Worker : Live(v, b)' => v = w
      BY <1>4, <1>5 DEF Live
    <2>2. /\ worker'[w].iteration = etm'[b].iteration /\ etm'[b].state = Scheduled.to
          /\ Status(b, "to")' = "pending" /\ etm'[b].job["to"].due = "none"
          /\ worker'[w].start = etm'[b].start /\ worker'[w].end = etm'[b].end
          /\ worker'[w].pc = "bucket" /\ worker'[w].kind = "to"
          /\ worker'[w].folder = etm'[b].folder
      BY <1>3, <1>4, <1>5, <1>7
    <2>3. \A n : ~JobOf(n, b, "to")'
      BY SMTT(40), <1>8, <1>10
    <2> QED  BY <2>1, <2>2, <2>3 DEF Owned
  <1>15. Folders(b)'
    <2>1. /\ \A n \in DOMAIN jobs[b] : jobs[b][n].folder \in DOMAIN files[b]
          /\ \A g : <<b, g>> \in deletions => g \in DOMAIN files[b]
      BY DEF AccountInv, Folders
    <2>2. \A n \in DOMAIN jobs[b] : jobs[b][n].folder \in DOMAIN files'[b] /\ jobs[b][n].folder # f
      BY <1>6, <2>1
    <2>3. \A g : <<b, g>> \in deletions => g \in DOMAIN files'[b] /\ g # f
      BY SMTT(40), <1>6, <2>1
    <2>4. /\ etm'[b].folder = f /\ f \in DOMAIN files'[b] /\ etm'[b].state # Waiting.to
          /\ jobs'[b] = jobs[b] /\ deletions' = deletions
      BY SMTT(40), <1>1, <1>3, <1>5, <1>6
    <2> QED  BY SMTT(40), <1>11, <2>2, <2>3, <2>4 DEF Folders
  <1>16. Loads(b)'
    BY SMTT(40), <1>1, <1>3, <1>7, <1>11 DEF AccountInv, Loads, Segment
  <1>17. Counted(b)'
    BY SMTT(40), <1>1, <1>3, <1>7, <1>8, <1>12 DEF AccountInv, Counted
  <1>18. Histories(b)'
    BY <1>1, <1>3, <1>7 DEF AccountInv, Histories, History, Segment
  <1> QED
    BY SMTT(40), <1>9, <1>13, <1>14, <1>15, <1>16, <1>17, <1>18 DEF AccountInv

\* The job is the first of its kind in the attempt.
LEMMA InsertJobKeeps ==
    ASSUME TypeOK, TypeOK', NEW w \in Worker, NEW b \in BA, Serves(w, b), AccountInv(b),
           InsertJob(w)
    PROVE  AccountInv(b)'
  <1>1. PICK k \in Kind : k = worker[w].kind
    BY WorkerParts
  <1>2. PICK i \in Nat : i = Len(jobs[b]) + 1
    BY DEF TypeOK
  <1>3. PICK j \in Job : j = [kind |-> k, iteration |-> worker[w].iteration,
                              start |-> worker[w].start, end |-> worker[w].end,
                              folder |-> worker[w].folder, status |-> "running"]
    BY <1>1, WorkerParts DEF Job
  <1>4. /\ worker[w].pc = IF k = "to" THEN "bucket" ELSE "begun"
        /\ ~worker[w].late /\ worker[w].folder # 0
        /\ UNCHANGED <<etm, itmState, newest, files, deletions, local>>
        /\ jobs'[b] = Append(jobs[b], j) /\ jobs[b] \in Seq(Job)
        /\ worker' = [worker EXCEPT ![w].pc = "inserted", ![w].job = i]
    BY <1>1, <1>2, <1>3 DEF InsertJob, TypeOK, Serves
  <1>5. Live(w, b)
    BY SMTT(40), <1>4 DEF Live, Serves
  <1>6. /\ etm[b].state = Scheduled[k] /\ Status(b, k) = "pending"
        /\ etm[b].job[k].due = "none"
        /\ worker[w].iteration = etm[b].iteration /\ worker[w].start = etm[b].start
        /\ worker[w].end = etm[b].end /\ worker[w].folder = etm[b].folder
        /\ \A n \in DOMAIN jobs[b] : ~JobOf(n, b, k)
        /\ \A v \in Worker : Live(v, b) => v = w
    BY SMTT(40), <1>1, <1>4, <1>5 DEF AccountInv, Owned
  <1>7. /\ worker'[w].pc = "inserted" /\ worker'[w].job = i
        /\ worker'[w].kind = k /\ worker'[w].ba = b
        /\ worker'[w].iteration = etm[b].iteration /\ worker'[w].start = etm[b].start
        /\ worker'[w].end = etm[b].end /\ worker'[w].folder = etm[b].folder
        /\ \A v \in Worker : v # w => worker'[v] = worker[v]
    BY <1>1, <1>4, <1>6 DEF TypeOK, WorkerRec, Serves
  <1>8. /\ DOMAIN jobs'[b] = DOMAIN jobs[b] \cup {i} /\ i \notin DOMAIN jobs[b] /\ jobs'[b][i] = j
        /\ \A n \in DOMAIN jobs[b] : jobs'[b][n] = jobs[b][n]
    <2>1. /\ Len(jobs[b]) \in Nat /\ DOMAIN jobs[b] = 1..Len(jobs[b])
          /\ jobs'[b] \in Seq(Job) /\ Len(jobs'[b]) = Len(jobs[b]) + 1
      BY <1>3, <1>4
    <2>2. DOMAIN jobs'[b] = 1..i
      BY <1>2, <2>1
    <2>3. jobs'[b][i] = j /\ \A n \in 1..Len(jobs[b]) : jobs'[b][n] = jobs[b][n]
      BY <1>2, <1>3, <1>4
    <2>4. \A n : n \in 1..i <=> n \in 1..Len(jobs[b]) \/ n = i
      BY <1>2, <2>1
    <2>5. DOMAIN jobs'[b] = DOMAIN jobs[b] \cup {i}
      BY <2>1, <2>2, <2>4
    <2>6. i \notin DOMAIN jobs[b]
      BY <1>2, <2>1
    <2> QED  BY <2>1, <2>3, <2>5, <2>6
  <1>9. /\ j.kind = k /\ j.iteration = etm[b].iteration /\ j.start = etm[b].start
        /\ j.end = etm[b].end /\ j.folder = etm[b].folder /\ j.status = "running"
    BY <1>3, <1>6
  <1>10. \A m : Status(b, m)' = Status(b, m)
    BY SMTT(40), <1>4 DEF Status
  <1>11. \A m \in Kind : \A n : JobOf(n, b, m)' <=> JobOf(n, b, m) \/ (m = k /\ n = i)
    BY SMTT(40), <1>4, <1>8, <1>9 DEF JobOf
  <1>12. Shape(b)'
    BY <1>4, <1>10 DEF AccountInv, Shape
  <1>13. Loading(b)' <=> Loading(b)
    BY <1>4, <1>10 DEF Loading
  <1>14. /\ k = "to" => ~Loading(b)
         /\ k = "from" => Loading(b)
    BY SMTT(40), <1>6 DEF Loading
  <1>15. Attempt(b)'
    <2>1. /\ \A n \in DOMAIN jobs'[b] : jobs'[b][n].iteration <= etm[b].iteration
          /\ \A m, n \in DOMAIN jobs'[b] :
                jobs'[b][m].kind = jobs'[b][n].kind /\ jobs'[b][m].iteration = jobs'[b][n].iteration
                   => m = n
      <3>1. \A n \in DOMAIN jobs[b] :
               ~(jobs[b][n].kind = k /\ jobs[b][n].iteration = etm[b].iteration)
        BY SMTT(40), <1>6 DEF JobOf
      <3>2. /\ \A n \in DOMAIN jobs[b] : jobs[b][n].iteration <= etm[b].iteration
            /\ \A m, n \in DOMAIN jobs[b] :
                  jobs[b][m].kind = jobs[b][n].kind /\ jobs[b][m].iteration = jobs[b][n].iteration
                     => m = n
        BY DEF AccountInv, Attempt
      <3>3. etm[b].iteration \in Nat
        BY SMTT(40), EtmParts
      <3>4. \A n \in DOMAIN jobs'[b] : jobs'[b][n].iteration <= etm[b].iteration
        BY SMTT(40), <1>8, <1>9, <3>2, <3>3
      <3>5. ASSUME NEW m \in DOMAIN jobs'[b], NEW n \in DOMAIN jobs'[b],
                   jobs'[b][m].kind = jobs'[b][n].kind,
                   jobs'[b][m].iteration = jobs'[b][n].iteration
            PROVE  m = n
        BY SMTT(40), <1>8, <1>9, <3>1, <3>2, <3>5
      <3> QED  BY <3>4, <3>5
    <2>2. \A m \in Kind : \A n \in DOMAIN jobs'[b] : JobOf(n, b, m)' =>
             /\ jobs'[b][n].start = etm[b].start /\ jobs'[b][n].end = etm[b].end
             /\ jobs'[b][n].folder = etm[b].folder
             /\ etm[b].state # Waiting[m] /\ Status(b, m) # "none"
      <3>1. \A m \in Kind : \A n \in DOMAIN jobs[b] : JobOf(n, b, m) =>
               /\ jobs[b][n].start = etm[b].start /\ jobs[b][n].end = etm[b].end
               /\ jobs[b][n].folder = etm[b].folder
               /\ etm[b].state # Waiting[m] /\ Status(b, m) # "none"
        BY DEF AccountInv, Attempt
      <3>2. \A m \in Kind : \A n : JobOf(n, b, m) => n \in DOMAIN jobs[b]
        BY DEF JobOf
      <3> QED  BY SMTT(40), <1>6, <1>8, <1>9, <1>11, <3>1, <3>2
    <2>3. \A m \in Kind : Status(b, m) \in {"created", "timeout", "canceling", "canceled"} =>
             JobOf(JobId(b, m), b, m)'
      BY <1>4, <1>11, JobFacts DEF JobId
    <2>4. etm[b].state # Copying.to
      BY <1>6
    <2>5. etm'[b] = etm[b]
      BY SMTT(40), <1>4
    <2> QED  BY <1>10, <2>1, <2>2, <2>3, <2>4, <2>5 DEF Attempt
  <1>16. Owned(b)'
    <2>1. \A v \in Worker : Live(v, b)' => v = w
      BY <1>6, <1>7 DEF Live
    <2>2. /\ etm'[b] = etm[b] /\ Status(b, k)' = "pending" /\ JobOf(i, b, k)'
      BY <1>4, <1>6, <1>10, <1>11
    <2>3. /\ worker'[w].iteration = etm'[b].iteration /\ worker'[w].pc = "inserted"
          /\ etm'[b].state = Scheduled[worker'[w].kind]
          /\ worker'[w].start = etm'[b].start /\ worker'[w].end = etm'[b].end
          /\ worker'[w].folder = etm'[b].folder
          /\ etm'[b].job[worker'[w].kind].due = "none"
      BY <1>6, <1>7, <2>2
    <2>4. Status(b, worker[w].kind)' = "pending" /\ JobOf(worker[w].job, b, worker[w].kind)'
      BY <1>7, <2>2 DEF Status, JobOf
    <2> QED  BY <2>1, <2>3, <2>4 DEF Owned
  <1>17. Folders(b)'
    <2>f. Folders(b)
      BY DEF AccountInv
    <2>s. etm[b].state \notin {"pending", Waiting.to} /\ etm[b].folder # 0
      BY SMTT(40), <1>4, <1>6
    <2>1. etm[b].folder \in DOMAIN files[b]
      BY <2>f, <2>s DEF Folders
    <2>o. \A n \in DOMAIN jobs[b] : jobs[b][n].folder \in DOMAIN files[b]
      BY ZenonT(30), <2>f DEF Folders
    <2>2. \A n \in DOMAIN jobs'[b] : jobs'[b][n].folder \in DOMAIN files[b]
      BY SMTT(40), <1>8, <1>9, <2>1, <2>o
    <2>3. \A n \in DOMAIN jobs'[b] :
             jobs'[b][n].kind = "to" /\ jobs'[b][n].folder = etm[b].folder =>
                /\ jobs'[b][n].iteration = etm[b].iteration
                /\ jobs'[b][n].status = "done" => files[b][etm[b].folder] = Segment(etm[b])
      <3>1. \A n \in DOMAIN jobs[b] :
               jobs[b][n].kind = "to" /\ jobs[b][n].folder = etm[b].folder =>
                  /\ jobs[b][n].iteration = etm[b].iteration
                  /\ jobs[b][n].status = "done" => files[b][etm[b].folder] = Segment(etm[b])
        BY ZenonT(30), <2>f, <2>s DEF Folders
      <3> QED  BY SMTT(40), <1>8, <1>9, <3>1
    <2>4. Loading(b) =>
             /\ etm[b].folder # 0 /\ files[b][etm[b].folder] = Segment(etm[b])
             /\ \A n \in DOMAIN jobs'[b] : JobOf(n, b, "to")' => jobs'[b][n].status = "done"
      <3>1. Loading(b) =>
               /\ etm[b].folder # 0 /\ files[b][etm[b].folder] = Segment(etm[b])
               /\ \A n \in DOMAIN jobs[b] : JobOf(n, b, "to") => jobs[b][n].status = "done"
        BY ZenonT(30), <2>f DEF Folders
      <3>2. \A n : JobOf(n, b, "to") => n \in DOMAIN jobs[b]
        BY DEF JobOf
      <3> QED  BY <1>8, <1>11, <1>14, <3>1, <3>2
    <2>5. /\ etm[b].state # Waiting.to
          /\ \A g : <<b, g>> \in deletions =>
                g \in DOMAIN files[b] /\ (g = etm[b].folder => etm[b].state = "pending")
      BY ZenonT(30), <2>f, <2>s DEF Folders
    <2> QED  BY Zenon, <1>4, <1>13, <2>1, <2>2, <2>3, <2>4, <2>5 DEF Folders
  <1>18. Loads(b)'
    <2>1. k = "from" => etm[b].end <= newest[b]
      BY SMTT(40) DEF AccountInv, Counted
    <2>2. \A n \in DOMAIN jobs[b] : jobs[b][n].kind = "from" =>
             /\ jobs[b][n].end <= newest[b]
             /\ jobs[b][n].status = "running" =>
                   jobs[b][n].iteration = etm[b].iteration /\ Loading(b)
             /\ jobs[b][n].status = "done" => \A x \in Segment(jobs[b][n]) : local[b][x] >= 1
             /\ jobs[b][n].iteration = etm[b].iteration
                  /\ Status(b, "from") \in {"failed", "canceled"}
                   => jobs[b][n].status = "failed"
             /\ jobs[b][n].iteration = etm[b].iteration /\ Status(b, "from") = "done"
                   => jobs[b][n].status = "done"
      BY DEF AccountInv, Loads
    <2>3. /\ etm'[b] = etm[b] /\ newest'[b] = newest[b] /\ local'[b] = local[b]
          /\ \A n \in DOMAIN jobs[b] : Segment(jobs'[b][n]) = Segment(jobs[b][n])
      BY SMTT(40), <1>4, <1>8
    <2>4. \A n \in DOMAIN jobs'[b] : n = i \/ (n \in DOMAIN jobs[b] /\ jobs'[b][n] = jobs[b][n])
      BY <1>8
    <2>5. jobs'[b][i].kind = "from" =>
             /\ jobs'[b][i].end <= newest[b] /\ jobs'[b][i].status = "running"
             /\ jobs'[b][i].iteration = etm[b].iteration /\ Loading(b)
             /\ Status(b, "from") = "pending"
      BY SMTT(40), <1>6, <1>8, <1>9, <1>14, <2>1
    <2> QED  BY <1>10, <1>13, <2>2, <2>3, <2>4, <2>5 DEF Loads
  <1>19. Counted(b)'
    <2>1. \A x \in Segment(etm[b]) : local[b][x] = 0 \/ Status(b, "from") = "done"
             \/ \E n \in DOMAIN jobs'[b] : JobOf(n, b, "from")' /\ jobs'[b][n].status = "done"
      BY <1>8, <1>11 DEF AccountInv, Counted
    <2>2. etm'[b] = etm[b] /\ newest'[b] = newest[b] /\ local'[b] = local[b]
      BY <1>4
    <2> QED  BY SMTT(40), <1>10, <2>1, <2>2 DEF AccountInv, Counted, Segment
  <1>20. Histories(b)'
    <2>1. History(b) => History(b)'
      <3>1. newest'[b] = newest[b] /\ local'[b] = local[b]
        BY <1>4
      <3>2. \A n \in DOMAIN jobs[b] : n \in DOMAIN jobs'[b] /\ jobs'[b][n] = jobs[b][n]
        BY <1>8
      <3> QED  BY <3>1, <3>2 DEF History, Segment
    <2>2. Histories(b)
      BY DEF AccountInv
    <2> QED  BY SMTT(40), <1>4, <1>10, <2>1, <2>2 DEF Histories
  <1> QED
    BY <1>12, <1>15, <1>16, <1>17, <1>18, <1>19, <1>20 DEF AccountInv

\* The bucket and the segment of an attempt are as they were when its job is recorded.
LEMMA RecordedKeeps ==
    ASSUME NEW b \in BA, NEW k \in Kind, Attempt(b), Folders(b),
           etm'[b].iteration = etm[b].iteration, etm'[b].state = etm[b].state,
           etm'[b].start = etm[b].start, etm'[b].end = etm[b].end,
           etm'[b].folder = etm[b].folder,
           jobs'[b] = jobs[b], files'[b] = files[b], deletions' = deletions,
           etm[b].state = Scheduled[k], JobOf(JobId(b, k)', b, k),
           Status(b, k)' = "created", Loading(b)' <=> Loading(b),
           \A m \in Kind : m # k => etm'[b].job[m] = etm[b].job[m] /\ Status(b, m)' = Status(b, m)
    PROVE  Attempt(b)' /\ Folders(b)'
  <1>1. \A m \in Kind : \A n : JobOf(n, b, m)' <=> JobOf(n, b, m)
    BY DEF JobOf
  <1>2. Segment(etm[b])' = Segment(etm[b])
    BY DEF Segment
  <1>3. etm[b].state # Copying.to
    BY SMTT(40)
  <1>4. Attempt(b)'
    BY <1>1, <1>3 DEF Attempt, JobId
  <1>5. Folders(b)'
    BY <1>1, <1>2 DEF Folders
  <1> QED  BY <1>4, <1>5

LEMMA RecordJobKeeps ==
    ASSUME TypeOK, TypeOK', NEW w \in Worker, NEW b \in BA, Serves(w, b), AccountInv(b),
           RecordJob(w)
    PROVE  AccountInv(b)'
  <1>1. PICK k \in Kind : k = worker[w].kind
    BY WorkerParts
  <1>2. /\ worker[w].pc = "inserted" /\ ~worker[w].late
        /\ UNCHANGED <<itmState, newest, jobs, files, deletions, local>>
        /\ worker' = [worker EXCEPT ![w] = IdleWorker]
        /\ etm' = [etm EXCEPT ![b].job[k].id = worker[w].job, ![b].job[k].status = "created",
                              ![b].state = Scheduled[k]]
    BY Zenon, <1>1 DEF RecordJob, dataVars, Serves
  <1>3. etm[b] \in Etm /\ etm[b].job \in [Kind -> JobMeta] /\ etm[b].job[k] \in JobMeta
    <2>1. etm[b] \in Etm
      BY DEF TypeOK
    <2>2. etm[b].job \in [Kind -> JobMeta]
      BY <2>1 DEF Etm
    <2> QED  BY <2>1, <2>2
  <1>4. etm'[b] = [etm[b] EXCEPT !.job[k].id = worker[w].job, !.job[k].status = "created",
                                 !.state = Scheduled[k]]
    BY Zenon, <1>2 DEF TypeOK
  <1>5. /\ etm'[b].iteration = etm[b].iteration /\ etm'[b].state = Scheduled[k]
        /\ etm'[b].start = etm[b].start /\ etm'[b].end = etm[b].end
        /\ etm'[b].folder = etm[b].folder
        /\ etm'[b].job =
              [[etm[b].job EXCEPT ![k].id = worker[w].job] EXCEPT ![k].status = "created"]
    BY SMTT(40), <1>3, <1>4 DEF Etm
  <1>6. /\ etm'[b].job[k].id = worker[w].job /\ etm'[b].job[k].status = "created"
        /\ etm'[b].job[k].due = etm[b].job[k].due
        /\ \A m \in Kind : m # k => etm'[b].job[m] = etm[b].job[m]
    <2>1. /\ \A m \in Kind : m # k => etm'[b].job[m] = etm[b].job[m]
          /\ etm'[b].job[k] =
                [[etm[b].job[k] EXCEPT !.id = worker[w].job] EXCEPT !.status = "created"]
      BY Zenon, <1>3, <1>5
    <2> QED  BY <1>3, <2>1 DEF JobMeta
  <1>7. Live(w, b)
    BY Zenon, <1>2 DEF Live, Serves
  <1>8. /\ etm[b].state = Scheduled[k] /\ Status(b, k) = "pending"
        /\ JobOf(worker[w].job, b, k)
        /\ \A v \in Worker : Live(v, b) => v = w
    BY ZenonT(60), <1>1, <1>2, <1>7 DEF AccountInv, Owned
  <1>9. Status(b, k)' = "created" /\ \A m \in Kind : m # k => Status(b, m)' = Status(b, m)
    BY SMTT(40), <1>6 DEF Status
  <1>10. \A m \in Kind : \A n : JobOf(n, b, m)' <=> JobOf(n, b, m)
    BY Zenon, <1>2, <1>5 DEF JobOf
  <1>11. Shape(b)'
    BY SMTT(40), <1>5, <1>8, <1>9 DEF AccountInv, Shape
  <1>12. (Loading(b)' <=> Loading(b)) /\ (k = "to" => ~Loading(b))
    BY SMTT(40), <1>5, <1>8 DEF Loading
  <1>13. Segment(etm'[b]) = Segment(etm[b])
    BY SMTT(40), <1>5 DEF Segment
  <1>14. \A v \in Worker : ~Live(v, b)'
    BY <1>2, <1>8 DEF Live, IdleWorker, TypeOK
  <1>15. Attempt(b)' /\ Folders(b)'
    <2>1. /\ jobs'[b] = jobs[b] /\ files'[b] = files[b] /\ deletions' = deletions
          /\ etm'[b].state = etm[b].state
          /\ JobOf(JobId(b, k)', b, k) /\ Attempt(b) /\ Folders(b)
      BY Zenon, <1>2, <1>5, <1>6, <1>8 DEF AccountInv, JobId
    <2> QED  BY ZenonT(90), <1>5, <1>6, <1>8, <1>9, <1>12, <2>1, RecordedKeeps
  <1>16. Owned(b)'
    BY <1>14 DEF Owned
  <1>18. Loads(b)'
    <2>1. /\ etm'[b].iteration = etm[b].iteration /\ jobs'[b] = jobs[b]
          /\ newest'[b] = newest[b] /\ local'[b] = local[b]
      BY Zenon, <1>2, <1>5
    <2>2. Status(b, "from")' \in {"failed", "canceled", "done"} =>
             Status(b, "from")' = Status(b, "from")
      BY <1>9
    <2>3. Loading(b)' <=> Loading(b)
      BY <1>12
    <2> QED  BY <2>1, <2>2, <2>3 DEF AccountInv, Loads, Segment
  <1>19. Counted(b)'
    BY ZenonT(60), <1>2, <1>5, <1>8, <1>9, <1>10, <1>13 DEF AccountInv, Counted
  <1>20. Histories(b)'
    BY ZenonT(60), <1>2, <1>5, <1>8, <1>9 DEF AccountInv, Histories, History, Segment
  <1> QED
    BY <1>11, <1>15, <1>16, <1>18, <1>19, <1>20 DEF AccountInv

-----------------------------------------------------------------------------
(* BigQuery.                                                               *)

\* A job ends: it is otherwise as it was, and so are the others.
LEMMA FinishParts ==
    ASSUME TypeOK, NEW b \in BA, NEW i \in DOMAIN jobs[b], NEW s, Finish(b, i, s)
    PROVE  /\ DOMAIN jobs'[b] = DOMAIN jobs[b] /\ jobs'[b][i].status = s
           /\ \A n \in DOMAIN jobs[b] :
                 /\ jobs'[b][n].kind = jobs[b][n].kind
                 /\ jobs'[b][n].iteration = jobs[b][n].iteration
                 /\ jobs'[b][n].start = jobs[b][n].start /\ jobs'[b][n].end = jobs[b][n].end
                 /\ jobs'[b][n].folder = jobs[b][n].folder
                 /\ n # i => jobs'[b][n].status = jobs[b][n].status
           /\ \A c \in BA : c # b => jobs'[c] = jobs[c]
  <1>1. /\ jobs'[b] = [jobs[b] EXCEPT ![i].status = s]
        /\ \A c \in BA : c # b => jobs'[c] = jobs[c]
    BY DEF Finish, TypeOK
  <1>2. \A n \in DOMAIN jobs[b] : jobs[b][n] \in Job
    BY JobParts
  <1>3. /\ DOMAIN jobs'[b] = DOMAIN jobs[b] /\ jobs'[b][i] = [jobs[b][i] EXCEPT !.status = s]
        /\ \A n \in DOMAIN jobs[b] : n # i => jobs'[b][n] = jobs[b][n]
    BY <1>1 DEF TypeOK
  <1>4. /\ jobs'[b][i].status = s /\ jobs'[b][i].kind = jobs[b][i].kind
        /\ jobs'[b][i].iteration = jobs[b][i].iteration
        /\ jobs'[b][i].start = jobs[b][i].start /\ jobs'[b][i].end = jobs[b][i].end
        /\ jobs'[b][i].folder = jobs[b][i].folder
    BY <1>2, <1>3 DEF Job
  <1> QED  BY <1>1, <1>3, <1>4

\* What the end of a job that ran leaves as it was.
LEMMA FinishKeeps ==
    ASSUME TypeOK, NEW b \in BA, NEW i \in DOMAIN jobs[b], NEW s, Finish(b, i, s),
           jobs[b][i].status = "running", AccountInv(b), UNCHANGED <<etm, itmState, worker>>
    PROVE  /\ Shape(b)' /\ Attempt(b)' /\ Owned(b)'
           /\ \A k \in Kind : \A n : JobOf(n, b, k)' <=> JobOf(n, b, k)
           /\ Loading(b)' <=> Loading(b)
           /\ \A k : Status(b, k)' = Status(b, k)
           /\ \A n \in DOMAIN jobs[b] : Segment(jobs'[b][n]) = Segment(jobs[b][n])
  <1>1. \A k : Status(b, k)' = Status(b, k)
    BY DEF Status
  <1>2. \A k \in Kind : \A n : JobOf(n, b, k)' <=> JobOf(n, b, k)
    BY FinishParts DEF JobOf
  <1>3. Loading(b)' <=> Loading(b)
    BY <1>1 DEF Loading
  <1>4. \A n \in DOMAIN jobs[b] : Segment(jobs'[b][n]) = Segment(jobs[b][n])
    BY FinishParts DEF Segment
  <1>5. Shape(b)'
    BY <1>1 DEF AccountInv, Shape
  <1>6. Attempt(b)'
    <2>1. /\ \A n \in DOMAIN jobs'[b] : jobs'[b][n].iteration <= etm[b].iteration
          /\ \A m, n \in DOMAIN jobs'[b] :
                jobs'[b][m].kind = jobs'[b][n].kind /\ jobs'[b][m].iteration = jobs'[b][n].iteration
                   => m = n
      <3>1. /\ \A n \in DOMAIN jobs[b] : jobs[b][n].iteration <= etm[b].iteration
            /\ \A m, n \in DOMAIN jobs[b] :
                  jobs[b][m].kind = jobs[b][n].kind /\ jobs[b][m].iteration = jobs[b][n].iteration
                     => m = n
        BY DEF AccountInv, Attempt
      <3> QED  BY <3>1, FinishParts
    <2>2. \A k \in Kind : \A n \in DOMAIN jobs'[b] : JobOf(n, b, k)' =>
             /\ jobs'[b][n].start = etm[b].start /\ jobs'[b][n].end = etm[b].end
             /\ jobs'[b][n].folder = etm[b].folder
             /\ etm[b].state # Waiting[k] /\ Status(b, k) # "none"
      <3>1. \A k \in Kind : \A n \in DOMAIN jobs[b] : JobOf(n, b, k) =>
               /\ jobs[b][n].start = etm[b].start /\ jobs[b][n].end = etm[b].end
               /\ jobs[b][n].folder = etm[b].folder
               /\ etm[b].state # Waiting[k] /\ Status(b, k) # "none"
        BY DEF AccountInv, Attempt
      <3> QED  BY <1>2, <3>1, FinishParts
    <2>3. /\ \A k \in Kind : Status(b, k) \in {"created", "timeout", "canceling", "canceled"} =>
                JobOf(JobId(b, k), b, k)'
          /\ etm[b].state = Copying.to =>
                /\ JobOf(JobId(b, "to"), b, "to")'
                /\ Status(b, "to") = "done" => jobs'[b][JobId(b, "to")].status = "done"
      <3>1. /\ \A k \in Kind : Status(b, k) \in {"created", "timeout", "canceling", "canceled"} =>
                  JobOf(JobId(b, k), b, k)
            /\ etm[b].state = Copying.to =>
                  /\ JobOf(JobId(b, "to"), b, "to")
                  /\ Status(b, "to") = "done" => jobs[b][JobId(b, "to")].status = "done"
        BY DEF AccountInv, Attempt
      <3>2. \A n : JobOf(n, b, "to") => n \in DOMAIN jobs[b]
        BY DEF JobOf
      <3>3. \A n \in DOMAIN jobs[b] : jobs[b][n].status = "done" => jobs'[b][n].status = "done"
        BY FinishParts
      <3> QED  BY <1>2, <3>1, <3>2, <3>3 DEF JobId
    <2> QED  BY <1>1, <2>1, <2>2, <2>3 DEF Attempt, JobId
  <1>7. Owned(b)'
    <2>1. \A w \in Worker : worker[w].kind \in Kind
      BY WorkerParts
    <2>2. \A w \in Worker : Live(w, b)' <=> Live(w, b)
      BY DEF Live
    <2>3. DOMAIN jobs'[b] = DOMAIN jobs[b]
      BY FinishParts
    <2> QED  BY <1>1, <1>2, <2>1, <2>2, <2>3 DEF AccountInv, Owned
  <1> QED  BY <1>1, <1>2, <1>3, <1>4, <1>5, <1>6, <1>7

LEMMA ExportFinishesKeeps ==
    ASSUME TypeOK, TypeOK', NEW b \in BA, NEW i \in DOMAIN jobs[b], AccountInv(b),
           ExportFinishes(b, i)
    PROVE  AccountInv(b)'
  <1> DEFINE f == jobs[b][i].folder
  <1>1. /\ jobs[b][i].kind = "to" /\ jobs[b][i].status = "running"
        /\ UNCHANGED <<etm, itmState, worker, newest, deletions, local>>
        /\ \E x : files' = [files EXCEPT ![b][f] = x]
    BY DEF ExportFinishes
  <1>2. PICK s \in {"done", "failed"} :
           /\ Finish(b, i, s)
           /\ s = "done" => files' = [files EXCEPT ![b][f] = Segment(jobs[b][i])]
    BY DEF ExportFinishes
  <1>3. /\ DOMAIN jobs'[b] = DOMAIN jobs[b] /\ jobs'[b][i].status = s
        /\ \A n \in DOMAIN jobs[b] :
              /\ jobs'[b][n].kind = jobs[b][n].kind
              /\ jobs'[b][n].iteration = jobs[b][n].iteration
              /\ jobs'[b][n].start = jobs[b][n].start /\ jobs'[b][n].end = jobs[b][n].end
              /\ jobs'[b][n].folder = jobs[b][n].folder
              /\ n # i => jobs'[b][n].status = jobs[b][n].status
    BY <1>2, FinishParts
  <1>4. /\ Shape(b)' /\ Attempt(b)' /\ Owned(b)'
        /\ \A k \in Kind : \A n : JobOf(n, b, k)' <=> JobOf(n, b, k)
        /\ Loading(b)' <=> Loading(b)
        /\ \A k : Status(b, k)' = Status(b, k)
        /\ \A n \in DOMAIN jobs[b] : Segment(jobs'[b][n]) = Segment(jobs[b][n])
    BY <1>1, <1>2, FinishKeeps
  <1>5. f \in DOMAIN files[b]
    BY DEF AccountInv, Folders
  <1>6. /\ DOMAIN files'[b] = DOMAIN files[b]
        /\ \A g \in DOMAIN files[b] : g # f => files'[b][g] = files[b][g]
        /\ s = "done" => files'[b][f] = Segment(jobs[b][i])
    BY <1>1, <1>2, <1>5 DEF TypeOK
  <1>7. \A n \in DOMAIN jobs[b] : JobOf(n, b, "to") <=>
           jobs[b][n].kind = "to" /\ jobs[b][n].iteration = etm[b].iteration
    BY DEF JobOf
  <1>8. JobOf(i, b, "to") => Segment(jobs[b][i]) = Segment(etm[b])
    BY DEF AccountInv, Attempt, Segment
  <1>9. \A m, n \in DOMAIN jobs[b] : JobOf(m, b, "to") /\ JobOf(n, b, "to") => m = n
    BY JobFacts
  <1>10. Folders(b)'
    <2>1. /\ etm[b].folder = 0 \/ etm[b].folder \in DOMAIN files[b]
          /\ etm[b].state = Waiting.to => etm[b].folder = 0
          /\ \A n \in DOMAIN jobs[b] : jobs[b][n].folder \in DOMAIN files[b]
          /\ \A g : <<b, g>> \in deletions =>
                g \in DOMAIN files[b] /\ (g = etm[b].folder => etm[b].state = "pending")
      BY DEF AccountInv, Folders
    <2>2. etm[b].state # "pending" =>
            \A n \in DOMAIN jobs[b] :
               jobs[b][n].kind = "to" /\ jobs[b][n].folder = etm[b].folder =>
                  /\ jobs[b][n].iteration = etm[b].iteration
                  /\ jobs[b][n].status = "done" => files[b][etm[b].folder] = Segment(etm[b])
      BY DEF AccountInv, Folders
    <2>3. Loading(b) =>
             /\ etm[b].folder # 0 /\ files[b][etm[b].folder] = Segment(etm[b])
             /\ \A n \in DOMAIN jobs[b] : JobOf(n, b, "to") => jobs[b][n].status = "done"
             /\ etm[b].state # "pending"
      BY DEF AccountInv, Folders, Loading
    <2>4. ASSUME etm[b].state # "pending", NEW n \in DOMAIN jobs[b], jobs[b][n].kind = "to",
                 jobs[b][n].folder = etm[b].folder, jobs'[b][n].status = "done"
          PROVE  files'[b][etm[b].folder] = Segment(etm[b])
      <3>1. JobOf(n, b, "to")
        BY <1>7, <2>2, <2>4
      <3>2. CASE n = i
        BY <1>3, <1>6, <1>8, <2>4, <3>1, <3>2
      <3>3. CASE n # i
        <4>1. f # etm[b].folder
          BY <1>1, <1>7, <1>9, <2>2, <2>4, <3>1, <3>3
        <4>2. files'[b][etm[b].folder] = files[b][etm[b].folder]
          BY <1>6, <2>1, <2>4, <4>1
        <4> QED  BY <1>3, <2>2, <2>4, <3>3, <4>2
      <3> QED  BY <3>2, <3>3
    <2>5. ASSUME Loading(b)
          PROVE  /\ etm[b].folder # 0 /\ files'[b][etm[b].folder] = Segment(etm[b])
                 /\ \A n \in DOMAIN jobs[b] : JobOf(n, b, "to") => jobs'[b][n].status = "done"
      <3>1. ~JobOf(i, b, "to")
        BY <1>1, <2>3, <2>5
      <3>2. f # etm[b].folder
        BY <1>1, <1>7, <2>2, <2>3, <2>5, <3>1
      <3> QED  BY <1>3, <1>6, <2>1, <2>3, <2>5, <3>1, <3>2
    <2>6. etm' = etm /\ deletions' = deletions
      BY <1>1
    <2> QED  BY <1>3, <1>4, <1>6, <2>1, <2>2, <2>4, <2>5, <2>6 DEF Folders
  <1>11. Loads(b)'
    <2>1. \A n \in DOMAIN jobs[b] : jobs[b][n].kind = "from" =>
             n # i /\ jobs'[b][n].status = jobs[b][n].status
      BY <1>1, <1>3
    <2> QED  BY <1>1, <1>3, <1>4, <2>1 DEF AccountInv, Loads
  <1>12. Counted(b)'
    <2>1. \A n \in DOMAIN jobs[b] : JobOf(n, b, "from") => jobs'[b][n].status = jobs[b][n].status
      BY <1>1, <1>3 DEF JobOf
    <2> QED  BY <1>1, <1>3, <1>4, <2>1 DEF AccountInv, Counted
  <1>13. Histories(b)'
    BY <1>1, <1>3, <1>4 DEF AccountInv, Histories, History
  <1> QED  BY <1>4, <1>10, <1>11, <1>12, <1>13 DEF AccountInv

\* The rows of the segment, none of which was there, are there once.
LEMMA LoadFinishesKeeps ==
    ASSUME TypeOK, TypeOK', NEW b \in BA, NEW i \in DOMAIN jobs[b], AccountInv(b),
           LoadFinishes(b, i)
    PROVE  AccountInv(b)'
  <1> DEFINE f == jobs[b][i].folder
  <1>1. /\ jobs[b][i].kind = "from" /\ jobs[b][i].status = "running"
        /\ UNCHANGED <<etm, itmState, worker, newest, files, deletions>>
    BY DEF LoadFinishes
  <1>2. PICK s \in {"done", "failed"} :
           /\ Finish(b, i, s)
           /\ s = "done" => local' = [local EXCEPT ![b] =
                [x \in Records |-> IF x \in files[b][f] THEN @[x] + 1 ELSE @[x]]]
           /\ s = "failed" => local' = local
    BY DEF LoadFinishes
  <1>3. /\ DOMAIN jobs'[b] = DOMAIN jobs[b] /\ jobs'[b][i].status = s
        /\ \A n \in DOMAIN jobs[b] :
              /\ jobs'[b][n].kind = jobs[b][n].kind
              /\ jobs'[b][n].iteration = jobs[b][n].iteration
              /\ jobs'[b][n].start = jobs[b][n].start /\ jobs'[b][n].end = jobs[b][n].end
              /\ jobs'[b][n].folder = jobs[b][n].folder
              /\ n # i => jobs'[b][n].status = jobs[b][n].status
    BY <1>2, FinishParts
  <1>4. /\ Shape(b)' /\ Attempt(b)' /\ Owned(b)'
        /\ \A k \in Kind : \A n : JobOf(n, b, k)' <=> JobOf(n, b, k)
        /\ Loading(b)' <=> Loading(b)
        /\ \A k : Status(b, k)' = Status(b, k)
        /\ \A n \in DOMAIN jobs[b] : Segment(jobs'[b][n]) = Segment(jobs[b][n])
    BY <1>1, <1>2, FinishKeeps
  <1>5. /\ JobOf(i, b, "from") /\ Loading(b)
        /\ Status(b, "from") \notin {"done", "failed", "canceled"}
    BY <1>1 DEF AccountInv, Loads, JobOf
  <1>6. f = etm[b].folder /\ files[b][f] = Segment(etm[b])
    BY <1>5 DEF AccountInv, Attempt, Folders
  <1>7. /\ \A x \in Records : local[b][x] \in Nat
        /\ s = "done" => \A x \in Records :
              local'[b][x] = IF x \in Segment(etm[b]) THEN local[b][x] + 1 ELSE local[b][x]
        /\ s = "failed" => local' = local
    BY SMTT(20), <1>2, <1>6 DEF TypeOK
  <1>8. \A x \in Segment(etm[b]) : local[b][x] = 0
    <2>1. \A n \in DOMAIN jobs[b] : JobOf(n, b, "from") => n = i
      BY <1>5, JobFacts
    <2> QED  BY <1>1, <1>5, <2>1 DEF AccountInv, Counted
  <1>9. /\ newest[b] \in Nat /\ newest[b] <= MaxRecord /\ MaxRecord \in Nat
        /\ etm[b].start \in Nat /\ etm[b].end \in Nat /\ etm[b].end <= newest[b]
    BY EtmParts, BoundsAssumption DEF AccountInv, Counted
  <1>10. \A x \in Segment(etm[b]) : x \in Records /\ x \in Nat
    BY <1>9 DEF Segment, Records
  <1>11. \A n \in DOMAIN jobs[b] : jobs[b][n].end <= newest[b] =>
            \A x \in Segment(jobs[b][n]) :
               x \in Records /\ (local[b][x] >= 1 => local'[b][x] >= 1)
    <2>1. \A n \in DOMAIN jobs[b] : jobs[b][n].start \in Nat /\ jobs[b][n].end \in Nat
      BY JobParts
    <2>2. \A n \in DOMAIN jobs[b] : jobs[b][n].end <= newest[b] =>
             \A x \in Segment(jobs[b][n]) : x \in Records
      BY <1>9, <2>1 DEF Segment, Records
    <2>3. \A x \in Records : local[b][x] >= 1 => local'[b][x] >= 1
      BY <1>7
    <2> QED  BY <2>2, <2>3
  <1>12. Folders(b)'
    <2>1. \A n \in DOMAIN jobs[b] : jobs[b][n].kind = "to" =>
             n # i /\ jobs'[b][n].status = jobs[b][n].status
      BY <1>1, <1>3
    <2>2. \A n \in DOMAIN jobs[b] : JobOf(n, b, "to") => jobs[b][n].kind = "to"
      BY DEF JobOf
    <2> QED  BY <1>1, <1>3, <1>4, <2>1, <2>2 DEF AccountInv, Folders
  <1>13. Loads(b)'
    <2>1. ASSUME NEW n \in DOMAIN jobs[b], jobs[b][n].kind = "from"
          PROVE  /\ jobs[b][n].end <= newest[b]
                 /\ jobs'[b][n].status = "running" => jobs[b][n].iteration = etm[b].iteration
                 /\ jobs'[b][n].status = "done" => \A x \in Segment(jobs[b][n]) : local'[b][x] >= 1
      <3>1. /\ jobs[b][n].end <= newest[b]
            /\ jobs[b][n].status = "running" => jobs[b][n].iteration = etm[b].iteration
            /\ jobs[b][n].status = "done" => \A x \in Segment(jobs[b][n]) : local[b][x] >= 1
        BY <2>1 DEF AccountInv, Loads
      <3>2. CASE n # i
        BY <1>3, <1>11, <3>1, <3>2
      <3>3. CASE n = i
        <4>1. Segment(jobs[b][i]) = Segment(etm[b])
          BY <1>5 DEF AccountInv, Attempt, Segment
        <4> QED  BY <1>3, <1>7, <1>10, <3>1, <3>3, <4>1
      <3> QED  BY <3>2, <3>3
    <2> QED  BY <1>1, <1>3, <1>4, <1>5, <2>1 DEF Loads
  <1>14. Counted(b)'
    <2>1. \A x \in Records : local'[b][x] <= 1 /\ (x > etm[b].end => local'[b][x] = 0)
      <3>1. \A x \in Records : local[b][x] <= 1 /\ (x > etm[b].end => local[b][x] = 0)
        BY DEF AccountInv, Counted
      <3>2. \A x \in Records : x > etm[b].end => x \notin Segment(etm[b])
        BY <1>9 DEF Segment, Records
      <3> QED  BY <1>7, <1>8, <3>1, <3>2
    <2>2. \A x \in Segment(etm[b]) : local'[b][x] = 0
             \/ \E n \in DOMAIN jobs[b] : JobOf(n, b, "from") /\ jobs'[b][n].status = "done"
      BY <1>2, <1>3, <1>5, <1>7, <1>8
    <2> QED  BY <1>1, <1>3, <1>4, <1>5, <2>1, <2>2 DEF AccountInv, Counted
  <1>15. Histories(b)'
    <2>1. History(b) => History(b)'
      BY <1>1, <1>3, <1>4, <1>11 DEF History
    <2> QED  BY <1>1, <1>4, <2>1 DEF AccountInv, Histories
  <1> QED  BY <1>4, <1>12, <1>13, <1>14, <1>15 DEF AccountInv

-----------------------------------------------------------------------------
(* The start of an attempt.                                                *)

\* Nothing of the former attempt runs, and the new one has no job yet.
LEMMA NextAttempt ==
    ASSUME TypeOK, NEW b \in BA, AccountInv(b), etm[b].state = "pending",
           etm'[b].iteration = etm[b].iteration + 1,
           UNCHANGED <<newest, jobs, files, local, worker>>,
           \A k \in Kind : Status(b, k)' \notin {"created", "timeout", "canceling", "canceled"},
           etm'[b].state # Copying.to, ~Loading(b)'
    PROVE  /\ Attempt(b)' /\ Owned(b)' /\ Loads(b)'
           /\ \A k \in Kind : \A n : ~JobOf(n, b, k)'
  <1>1. etm[b].iteration \in Nat /\ \A n \in DOMAIN jobs[b] : jobs[b][n].iteration \in Nat
    BY EtmParts, JobParts
  <1>2. /\ \A n \in DOMAIN jobs[b] : jobs[b][n].iteration <= etm[b].iteration
        /\ \A m, n \in DOMAIN jobs[b] :
              jobs[b][m].kind = jobs[b][n].kind /\ jobs[b][m].iteration = jobs[b][n].iteration
                 => m = n
    BY DEF AccountInv, Attempt
  <1>3. \A n \in DOMAIN jobs[b] :
           jobs[b][n].iteration # etm'[b].iteration /\ jobs[b][n].iteration <= etm'[b].iteration
    BY <1>1, <1>2
  <1>4. \A k \in Kind : \A n : ~JobOf(n, b, k)'
    BY <1>3 DEF JobOf
  <1>5. Attempt(b)'
    BY <1>2, <1>3, <1>4 DEF Attempt
  <1>6. Owned(b)'
    <2>1. \A w \in Worker : ~Live(w, b)
      BY OwnerWaits
    <2> QED  BY <2>1 DEF Owned, Live
  <1>7. Loads(b)'
    <2>1. \A n \in DOMAIN jobs[b] : jobs[b][n].kind = "from" =>
             /\ jobs[b][n].end <= newest[b] /\ jobs[b][n].status # "running"
             /\ jobs[b][n].status = "done" => \A x \in Segment(jobs[b][n]) : local[b][x] >= 1
      BY DEF AccountInv, Loads, Loading
    <2> QED  BY <1>3, <2>1 DEF Loads, Segment
  <1> QED  BY <1>4, <1>5, <1>6, <1>7

LEMMA UpdatePendingKeeps ==
    ASSUME TypeOK, TypeOK', NEW r \in Run, NEW b \in BA, AccountInv(b), UpdatePending(r, b)
    PROVE  AccountInv(b)'
  <1> DEFINE e == etm[b]
             n == NextSegment(e, newest[b])
             w == [n EXCEPT
                   !.state = Waiting.to, !.folder = 0,
                   !.job = [k \in Kind |-> IF k = "to" THEN PendingJobMeta ELSE NoJobMeta]]
             Done == \A k \in Kind : e.job[k].status = "done"
  <1>1. e \in Etm /\ newest[b] \in Nat /\ e.end \in Nat /\ e.start \in Nat /\ e.folder \in Nat
    BY EtmParts
  <1>2. e.state = "pending"
    BY DEF UpdatePending
  <1>3. /\ n.state = e.state /\ n.iteration = e.iteration + 1 /\ n.folder = e.folder
        /\ n.job = e.job
        /\ Done => n.start = e.end /\ n.end = newest[b]
        /\ ~Done => n.start = e.start /\ n.end = e.end
        /\ n \in Etm
    <2>1. CASE Done
      BY Zenon, <1>1, <2>1, NextSegmentTypes DEF NextSegment, Etm
    <2>2. CASE ~Done
      BY Zenon, <1>1, <2>2, NextSegmentTypes DEF NextSegment, Etm
    <2> QED  BY <2>1, <2>2
  <1>4. /\ newest[b] <= MaxRecord /\ e.start <= e.end /\ e.end <= newest[b]
        /\ \A x \in Records : local[b][x] <= 1 /\ (x > e.end => local[b][x] = 0)
        /\ \A x \in Segment(e) : local[b][x] = 0 \/ Status(b, "from") = "done"
              \/ \E m \in DOMAIN jobs[b] : JobOf(m, b, "from") /\ jobs[b][m].status = "done"
    BY DEF AccountInv, Counted
  <1>5. Done <=> Status(b, "to") = "done" /\ Status(b, "from") = "done"
    BY DEF Status
  <1>6. (e.end # 0 /\ Done) \/ e.start # 0 \/ itmState[b] = "initializing" => History(b)
    BY <1>5 DEF AccountInv, Histories
  <1>7. MaxRecord \in Nat
    BY BoundsAssumption
  <1>8. CASE UpdateTo(r, b, n) /\ UNCHANGED deletions /\ Done /\ ~(n.start < n.end)
    <2>1. /\ etm'[b] = n
          /\ UNCHANGED <<newest, jobs, files, deletions, local, worker, itmState>>
      BY <1>8, UpdateToParts
    <2>2. /\ etm'[b].state = "pending" /\ etm'[b].iteration = e.iteration + 1
          /\ etm'[b].folder = e.folder /\ etm'[b].start = e.end /\ etm'[b].end = e.end
          /\ etm'[b].job = e.job
      BY <1>1, <1>2, <1>3, <1>4, <1>8, <2>1
    <2>3. /\ \A k : Status(b, k)' = Status(b, k)
          /\ Status(b, "to") = "done" /\ Status(b, "from") = "done"
      BY <1>5, <1>8, <2>2 DEF Status
    <2>4. Shape(b)' /\ ~Loading(b)'
      BY <2>2, <2>3 DEF Shape, Loading
    <2>5. \A k \in Kind : Status(b, k)' \notin {"created", "timeout", "canceling", "canceled"}
      BY <2>3
    <2>6. Attempt(b)' /\ Owned(b)' /\ Loads(b)'
      BY <1>2, <2>1, <2>2, <2>4, <2>5, NextAttempt
    <2>7. Folders(b)'
      BY <2>1, <2>2, <2>4 DEF AccountInv, Folders
    <2>8. \A x : x \notin Segment(etm'[b])
      BY <1>1, <2>2 DEF Segment
    <2>9. Counted(b)'
      BY <1>1, <1>4, <2>1, <2>2, <2>8 DEF Counted
    <2>10. Histories(b)'
      <3>1. History(b) => History(b)'
        BY <2>1 DEF History, Segment
      <3> QED  BY <1>6, <1>8, <2>1, <2>2, <2>3, <3>1 DEF Histories
    <2> QED  BY <2>4, <2>6, <2>7, <2>9, <2>10 DEF AccountInv
  <1>9. CASE /\ UpdateTo(r, b, w) /\ (Done => n.start < n.end)
             /\ deletions' = deletions \cup ({<<b, e.folder>>} \ {<<b, 0>>})
    <2>1. /\ etm'[b] = w
          /\ UNCHANGED <<newest, jobs, files, local, worker, itmState>>
      BY <1>9, UpdateToParts
    <2>2. /\ w.state = Waiting.to /\ w.iteration = n.iteration /\ w.folder = 0
          /\ w.start = n.start /\ w.end = n.end
          /\ w.job["to"].status = "pending" /\ w.job["from"].status = "none"
      BY <1>3 DEF Etm, PendingJobMeta, NoJobMeta
    <2>3. /\ etm'[b].state = Waiting.to /\ etm'[b].iteration = e.iteration + 1
          /\ etm'[b].folder = 0 /\ etm'[b].start = n.start /\ etm'[b].end = n.end
          /\ Status(b, "to")' = "pending" /\ Status(b, "from")' = "none"
      BY <1>3, <2>1, <2>2 DEF Status
    <2>4. Shape(b)' /\ ~Loading(b)'
      BY <2>3 DEF Shape, Loading
    <2>5. \A k \in Kind : Status(b, k)' \notin {"created", "timeout", "canceling", "canceled"}
      BY <2>3
    <2>6. Attempt(b)' /\ Owned(b)' /\ Loads(b)'
      BY <1>2, <2>1, <2>3, <2>4, <2>5, NextAttempt
    <2>7. Folders(b)'
      <3>1. files[b] \in Seq(SUBSET Nat) /\ 0 \notin DOMAIN files[b]
        BY DEF TypeOK
      <3>2. \A f : <<b, f>> \in deletions' => f \in DOMAIN files[b]
        BY <1>9 DEF AccountInv, Folders
      <3>3. \A m \in DOMAIN jobs[b] : jobs[b][m].folder \in DOMAIN files[b]
        BY DEF AccountInv, Folders
      <3>4. /\ \A f : <<b, f>> \in deletions' => f # etm'[b].folder
            /\ \A m \in DOMAIN jobs[b] : jobs[b][m].folder # etm'[b].folder
        BY <2>3, <3>1, <3>2, <3>3
      <3> QED  BY Zenon, <2>1, <2>3, <2>4, <3>2, <3>3, <3>4 DEF Folders
    <2>8. \A x \in Segment(etm'[b]) : local[b][x] = 0
      <3>1. CASE Done
        <4>1. \A x \in Segment(etm'[b]) : x \in Records /\ x > e.end
          BY <1>1, <1>3, <1>4, <1>7, <2>3, <3>1 DEF Segment, Records
        <4> QED  BY <1>4, <4>1
      <3>2. CASE ~Done
        <4>1. Status(b, "from") # "done"
          BY <1>2, <1>5, <3>2 DEF AccountInv, Shape, Broken
        <4>2. Status(b, "from") \in {"failed", "none"}
          BY <1>2, <4>1 DEF AccountInv, Shape
        <4>3. \A m \in DOMAIN jobs[b] : JobOf(m, b, "from") => jobs[b][m].status = "failed"
          BY <4>2, JobFacts
        <4>4. Segment(etm'[b]) = Segment(e)
          BY <1>3, <2>3, <3>2 DEF Segment
        <4> QED  BY <1>4, <4>1, <4>3, <4>4
      <3> QED  BY <3>1, <3>2
    <2>9. Counted(b)'
      <3>1. etm'[b].start <= etm'[b].end /\ etm'[b].end <= newest[b] /\ e.end <= etm'[b].end
        BY <1>1, <1>3, <1>4, <1>9, <2>3
      <3>2. \A x \in Records : x > etm'[b].end => x > e.end
        BY <1>1, <1>3, <2>3, <3>1 DEF Records, Etm
      <3> QED  BY Zenon, <1>4, <2>1, <2>3, <2>8, <3>1, <3>2 DEF Counted
    <2>10. Histories(b)'
      <3>1. History(b) => History(b)'
        BY <2>1 DEF History, Segment
      <3>2. etm'[b].start # 0 => (e.end # 0 /\ Done) \/ e.start # 0
        BY <1>3, <2>3
      <3> QED  BY <1>6, <2>1, <2>3, <3>1, <3>2 DEF Histories
    <2> QED  BY <2>4, <2>6, <2>7, <2>9, <2>10 DEF AccountInv
  <1> QED  BY <1>8, <1>9 DEF UpdatePending

-----------------------------------------------------------------------------
(* What the goroutines of a run have read.                                 *)

LEMMA ListedIsLooked ==
    ASSUME TypeOK, NEW r \in Run, NEW b \in BA, Alone(r, b)', ListActiveTasks(r)
    PROVE  Looked(b)'
  <1>1. /\ gor'[r][b] = IF b \in Unreachable THEN GorLost ELSE Snapshot(etm[b])
        /\ etm' = etm /\ \A q \in Run : q = r \/ gor'[q][b].pc = "off"
    BY DEF ListActiveTasks, TypeOK, Alone
  <1>2. \A k : Status(b, k)' = etm[b].job[k].status
    BY <1>1 DEF Status
  <1>3. CASE b \in Unreachable
    BY <1>1, <1>3 DEF Looked, GorLost, GorAt
  <1>4. CASE b \notin Unreachable
    <2>1. CASE \E k \in Kind : etm[b].job[k].status = "schedule_timeout"
      <3>1. PICK k \in Kind : /\ etm[b].job[k].status = "schedule_timeout"
                              /\ Snapshot(etm[b]) =
                                    GorAt("lookup", etm[b].iteration, k, etm[b].job[k])
        BY <2>1 DEF Snapshot
      <3>2. /\ gor'[r][b].pc = "lookup" /\ gor'[r][b].iteration = etm[b].iteration
            /\ gor'[r][b].kind = k
        BY <1>1, <1>4, <3>1 DEF GorAt
      <3> QED  BY <1>1, <1>2, <3>1, <3>2 DEF Looked
    <2>2. CASE ~\E k \in Kind : etm[b].job[k].status = "schedule_timeout"
      <3>1. Snapshot(etm[b]) = GorAt("update", etm[b].iteration, "to", NoJobMeta)
        BY <2>2 DEF Snapshot
      <3> QED  BY <1>1, <1>4, <3>1 DEF Looked, GorAt
    <2> QED  BY <2>1, <2>2
  <1> QED  BY <1>3, <1>4

LEMMA PrecalculatedIsLooked ==
    ASSUME TypeOK, NEW r \in Run, NEW b \in BA, Looked(b), Alone(r, b)',
           PrecalculateJobsId(r, b)
    PROVE  Looked(b)'
  <1>1. \A q \in Run : q = r \/ gor'[q][b].pc = "off"
    BY DEF Alone
  <1>2. gor[r][b] \in Gor /\ gor[r][b].pc = "lookup" /\ etm' = etm /\ jobs' = jobs
    <2>1. gor[r][b] \in Gor
      BY DEF TypeOK
    <2>2. gor[r][b].pc = "lookup" /\ etm' = etm /\ jobs' = jobs
      BY Zenon DEF PrecalculateJobsId, dataVars
    <2> QED  BY <2>1, <2>2
  <1>3. PICK k \in Kind : k = gor[r][b].kind
    BY <1>2 DEF Gor
  <1>4. /\ gor[r][b].iteration = etm[b].iteration /\ Status(b, k) = "schedule_timeout"
        /\ gor[r][b].job \in JobMeta
    BY <1>2, <1>3 DEF Looked, Gor
  <1>5. /\ gor'[r][b].pc = "write" /\ gor'[r][b].iteration = etm[b].iteration
        /\ gor'[r][b].kind = k
        /\ \/ /\ gor'[r][b].job.status = "failed"
              /\ \A n \in DOMAIN jobs[b] : ~JobOf(n, b, k)
           \/ gor'[r][b].job.status = "timeout" /\ JobOf(gor'[r][b].job.id, b, k)
    <2>1. CASE /\ \A n \in DOMAIN jobs[b] : ~JobOf(n, b, k)
               /\ gor' = [gor EXCEPT ![r][b] = [@ EXCEPT !.pc = "write", !.job.status = "failed"]]
      <3>1. gor'[r][b] = [gor[r][b] EXCEPT !.pc = "write", !.job.status = "failed"]
        BY <2>1 DEF TypeOK
      <3>2. gor'[r][b].job = [gor[r][b].job EXCEPT !.status = "failed"]
        BY <1>2, <3>1 DEF Gor
      <3>3. gor'[r][b].job.status = "failed"
        BY <1>4, <3>2 DEF JobMeta
      <3>4. /\ gor'[r][b].pc = "write" /\ gor'[r][b].iteration = gor[r][b].iteration
            /\ gor'[r][b].kind = gor[r][b].kind
        BY <1>2, <3>1 DEF Gor
      <3> QED  BY <1>3, <1>4, <2>1, <3>3, <3>4
    <2>2. ASSUME NEW i \in DOMAIN jobs[b], JobOf(i, b, k),
                 gor' = [gor EXCEPT ![r][b] =
                       [@ EXCEPT !.pc = "write", !.job.status = "timeout", !.job.id = i]]
          PROVE  /\ gor'[r][b].pc = "write" /\ gor'[r][b].iteration = etm[b].iteration
                 /\ gor'[r][b].kind = k
                 /\ gor'[r][b].job.status = "timeout" /\ gor'[r][b].job.id = i
      <3>1. gor'[r][b] = [gor[r][b] EXCEPT !.pc = "write", !.job.status = "timeout", !.job.id = i]
        BY <2>2 DEF TypeOK
      <3>2. gor'[r][b].job = [[gor[r][b].job EXCEPT !.status = "timeout"] EXCEPT !.id = i]
        BY <1>2, <3>1 DEF Gor
      <3>3. gor'[r][b].job.status = "timeout" /\ gor'[r][b].job.id = i
        BY <1>4, <3>2 DEF JobMeta
      <3>4. /\ gor'[r][b].pc = "write" /\ gor'[r][b].iteration = gor[r][b].iteration
            /\ gor'[r][b].kind = gor[r][b].kind
        BY <1>2, <3>1 DEF Gor
      <3> QED  BY <1>3, <1>4, <3>3, <3>4
    <2>3. \/ /\ \A n \in DOMAIN jobs[b] : ~JobOf(n, b, k)
             /\ gor' = [gor EXCEPT ![r][b] = [@ EXCEPT !.pc = "write", !.job.status = "failed"]]
          \/ \E i \in DOMAIN jobs[b] :
                /\ JobOf(i, b, k)
                /\ gor' = [gor EXCEPT ![r][b] =
                       [@ EXCEPT !.pc = "write", !.job.status = "timeout", !.job.id = i]]
      BY Zenon, <1>3, <1>4 DEF PrecalculateJobsId, JobOf
    <2> QED  BY Zenon, <2>1, <2>2, <2>3
  <1>6. /\ \A n, m : JobOf(n, b, m)' <=> JobOf(n, b, m)
        /\ Status(b, k)' = Status(b, k)
    BY <1>2 DEF JobOf, Status
  <1> QED  BY <1>1, <1>2, <1>4, <1>5, <1>6 DEF Looked

LEMMA SavedIsLooked ==
    ASSUME TypeOK, NEW r \in Run, NEW b \in BA, Alone(r, b)', SavePrecalculatedJob(r, b)
    PROVE  Looked(b)'
  <1>1. \A q \in Run : q = r \/ gor'[q][b].pc = "off"
    BY DEF Alone
  <1>2. gor'[r][b].pc = "update" /\ gor'[r][b].iteration = etm[b].iteration
    BY DEF SavePrecalculatedJob, GorAt, TypeOK
  <1>3. etm'[b].iteration = etm[b].iteration
    BY DEF SavePrecalculatedJob, TypeOK, Etm
  <1> QED  BY <1>1, <1>2, <1>3 DEF Looked

\* A goroutine that is past its update has nothing to remember.
LEMMA PastIsLooked ==
    ASSUME NEW r \in Run, NEW b \in BA, Alone(r, b)',
           gor'[r][b].pc \notin {"lookup", "write", "update"}
    PROVE  Looked(b)'
  <1>1. \A q \in Run : q = r \/ gor'[q][b].pc = "off"
    BY DEF Alone
  <1> QED  BY <1>1 DEF Looked

-----------------------------------------------------------------------------
(* The steps.                                                              *)

\* A step that concerns account b and no other.
LEMMA OthersKept ==
    ASSUME TypeOK, TypeOK', AccountsInv, NEW b \in BA, AccountInv(b)', Looked(b)',
           \A c \in BA : c # b => SameAccount(c) /\ \A r \in Run : gor'[r][c] = gor[r][c]
    PROVE  AccountsInv'
  <1> SUFFICES ASSUME NEW c \in BA, c # b
               PROVE  AccountInv(c)' /\ Looked(c)'
    BY DEF AccountsInv
  <1>1. AccountInv(c) /\ Looked(c) /\ SameAccount(c)
    BY DEF AccountsInv
  <1>2. AccountInv(c)'
    BY <1>1, AccountKept
  <1>3. /\ etm'[c].iteration = etm[c].iteration
        /\ \A k : Status(c, k)' = Status(c, k)
        /\ \A n, k : JobOf(n, c, k)' <=> JobOf(n, c, k)
    BY <1>1 DEF SameAccount, Status, JobOf
  <1> QED  BY <1>1, <1>2, <1>3, LookedKept

\* A step that concerns no account but the runs that are under way.
LEMMA AllKept ==
    ASSUME TypeOK, TypeOK', AccountsInv,
           \A b \in BA : SameAccount(b) /\ \A r \in Run :
              \/ gor'[r][b] = gor[r][b]
              \/ gor'[r][b].pc \notin {"lookup", "write", "update"}
    PROVE  AccountsInv'
  <1> SUFFICES ASSUME NEW c \in BA
               PROVE  AccountInv(c)' /\ Looked(c)'
    BY DEF AccountsInv
  <1>1. AccountInv(c) /\ Looked(c) /\ SameAccount(c)
    BY DEF AccountsInv
  <1>2. AccountInv(c)'
    BY <1>1, AccountKept
  <1>3. /\ etm'[c].iteration = etm[c].iteration
        /\ \A k : Status(c, k)' = Status(c, k)
        /\ \A n, k : JobOf(n, c, k)' <=> JobOf(n, c, k)
    BY <1>1 DEF SameAccount, Status, JobOf
  <1> QED  BY <1>1, <1>2, <1>3, LookedKept

LEMMA NewestParts ==
    ASSUME TypeOK, AccountsInv
    PROVE  \A b \in BA : newest[b] \in Nat /\ newest[b] <= newest[b] /\ newest[b] <= MaxRecord
  BY DEF TypeOK, AccountsInv, AccountInv, Counted

-----------------------------------------------------------------------------
(* The first state, and every step.                                        *)

LEMMA InitAccounts == Init => AccountsInv
  <1> SUFFICES ASSUME Init, NEW b \in BA
               PROVE  AccountInv(b) /\ Looked(b)
    BY DEF AccountsInv
  <1>1. /\ etm[b] = NewEtm /\ jobs[b] = <<>> /\ files[b] = <<>> /\ newest[b] = 0
        /\ itmState[b] = "onboarding" /\ deletions = {}
        /\ \A x \in Records : local[b][x] = 0
        /\ \A w \in Worker : worker[w].pc = "idle"
        /\ \A r \in Run : gor[r][b].pc = "off"
    BY DEF Init, IdleWorker, GorOff, GorAt
  <1>2. /\ etm[b].state = "pending" /\ etm[b].start = 0 /\ etm[b].end = 0
        /\ etm[b].iteration = 0 /\ etm[b].folder = 0
        /\ \A k \in Kind : Status(b, k) = "done"
    BY <1>1 DEF NewEtm, DoneJobMeta, Status
  <1>3. DOMAIN jobs[b] = {}
    BY <1>1
  <1>4. ~Loading(b) /\ Segment(etm[b]) = {}
    BY <1>2 DEF Loading, Segment
  <1>5. Shape(b) /\ Attempt(b)
    BY <1>2, <1>3 DEF Shape, Attempt, JobOf
  <1>6. Owned(b)
    BY <1>1 DEF Owned, Live
  <1>7. Folders(b) /\ Loads(b)
    BY <1>1, <1>2, <1>3, <1>4 DEF Folders, Loads
  <1>8. Counted(b)
    BY <1>1, <1>2, <1>4, BoundsAssumption DEF Counted
  <1>9. Histories(b) /\ Looked(b)
    BY <1>1, <1>2 DEF Histories, Looked
  <1> QED  BY <1>5, <1>6, <1>7, <1>8, <1>9 DEF AccountInv

\* updateExternalTask commits one document, and asks for deletions of that account alone.
LEMMA UpdateParts ==
    ASSUME TypeOK, NEW r \in Run, NEW b \in BA, UpdateExternalTask(r, b)
    PROVE  /\ \E e : UpdateTo(r, b, e)
           /\ \A c, f : c # b /\ <<c, f>> \in deletions' => <<c, f>> \in deletions
  <1>1. CASE UpdatePending(r, b)
    BY SMTT(40), <1>1 DEF UpdatePending
  <1>2. ASSUME NEW k \in Kind, UpdateStarting(r, b, k) \/ UpdateCopying(r, b, k)
        PROVE  (\E e : UpdateTo(r, b, e)) /\ deletions' = deletions
    BY <1>2 DEF UpdateStarting, UpdateCopying
  <1>3. CASE UpdateFailed(r, b)
    BY Zenon, <1>3 DEF UpdateFailed
  <1>4. CASE UpdateDoneOnboarding(r, b)
    BY <1>4 DEF UpdateDoneOnboarding
  <1> QED  BY <1>1, <1>2, <1>3, <1>4 DEF UpdateExternalTask

\* What a goroutine does, it does while it is there, and to itself.
LEMMA GoroutineParts ==
    ASSUME TypeOK, NEW r \in Run, NEW b \in BA,
           \/ PrecalculateJobsId(r, b) \/ SavePrecalculatedJob(r, b)
           \/ UpdateExternalTask(r, b) \/ UpdatePendingAborts(r, b)
           \/ CreateCloudTask(r, b)
           \/ GoroutineFails(r, b) \/ MarkOnboardingDone(r, b)
    PROVE  /\ gor[r][b].pc # "off" /\ run' = run /\ lease' = lease
           /\ \E g : gor' = [gor EXCEPT ![r][b] = g]
  <1>1. CASE UpdateExternalTask(r, b)
    <2>1. gor[r][b].pc = "update"
      BY Zenon, <1>1 DEF UpdateExternalTask, UpdatePending, UpdateStarting, UpdateCopying,
         UpdateFailed, UpdateDoneOnboarding, CanUpdate
    <2>2. UNCHANGED <<run, lease>> /\ \E g : gor' = [gor EXCEPT ![r][b] = g]
      BY <1>1, UpdateParts DEF UpdateTo, managerVars
    <2> QED  BY <2>1, <2>2
  <1>2. CASE PrecalculateJobsId(r, b)
    <2>1. gor[r][b].pc = "lookup" /\ run' = run /\ lease' = lease
      BY Zenon, <1>2 DEF PrecalculateJobsId, managerVars
    <2>2. \E g : gor' = [gor EXCEPT ![r][b] = g]
      BY ZenonT(60), <1>2 DEF PrecalculateJobsId
    <2> QED  BY <2>1, <2>2
  <1>3. CASE \/ SavePrecalculatedJob(r, b) \/ MarkOnboardingDone(r, b)
             \/ UpdatePendingAborts(r, b) \/ CreateCloudTask(r, b) \/ GoroutineFails(r, b)
    <2>1. /\ gor[r][b].pc \in {"lookup", "write", "update", "dispatch", "mark"}
          /\ run' = run /\ lease' = lease
      BY Zenon, <1>3 DEF SavePrecalculatedJob, MarkOnboardingDone, UpdatePendingAborts,
         CreateCloudTask, GoroutineFails, CanUpdate, managerVars
    <2>2. \E g : gor' = [gor EXCEPT ![r][b] = g]
      BY <1>3 DEF SavePrecalculatedJob, MarkOnboardingDone, UpdatePendingAborts,
         CreateCloudTask, GoroutineFails
    <2> QED  BY <2>1, <2>2
  <1> QED  BY <1>1, <1>2, <1>3

\* What a run does for an account it does for no other.
LEMMA GoroutineOthers ==
    ASSUME TypeOK, AccountsInv, NEW r \in Run, NEW b \in BA,
           \/ PrecalculateJobsId(r, b) \/ SavePrecalculatedJob(r, b)
           \/ UpdateExternalTask(r, b) \/ UpdatePendingAborts(r, b)
           \/ CreateCloudTask(r, b)
           \/ GoroutineFails(r, b) \/ MarkOnboardingDone(r, b)
    PROVE  \A c \in BA : c # b => SameAccount(c) /\ \A q \in Run : gor'[q][c] = gor[q][c]
  <1>1. /\ UNCHANGED <<newest, worker, jobs, files, local>>
        /\ \A c \in BA : c # b => etm'[c] = etm[c] /\ itmState'[c] = itmState[c]
    <2>1. CASE UpdateExternalTask(r, b)
      BY SMTT(40), <2>1, UpdateParts DEF UpdateTo, TypeOK
    <2>2. CASE SavePrecalculatedJob(r, b) \/ MarkOnboardingDone(r, b)
      BY <2>2 DEF SavePrecalculatedJob, MarkOnboardingDone, dataVars, TypeOK
    <2>3. CASE \/ PrecalculateJobsId(r, b) \/ UpdatePendingAborts(r, b)
               \/ CreateCloudTask(r, b) \/ GoroutineFails(r, b)
      BY Zenon, <2>3 DEF PrecalculateJobsId, UpdatePendingAborts, CreateCloudTask, GoroutineFails,
         dataVars
    <2> QED  BY <2>1, <2>2, <2>3
  <1>2. \A c \in BA : c # b => \A q \in Run : gor'[q][c] = gor[q][c]
    <2>1. \E g : gor' = [gor EXCEPT ![r][b] = g]
      BY GoroutineParts
    <2> QED  BY <2>1 DEF TypeOK
  <1>3. \A c, f : c # b /\ <<c, f>> \in deletions' => <<c, f>> \in deletions
    <2>1. ASSUME \/ SavePrecalculatedJob(r, b) \/ MarkOnboardingDone(r, b)
                 \/ PrecalculateJobsId(r, b) \/ CreateCloudTask(r, b) \/ GoroutineFails(r, b)
          PROVE  deletions' = deletions
      BY Zenon, <2>1 DEF SavePrecalculatedJob, MarkOnboardingDone, PrecalculateJobsId,
         CreateCloudTask, GoroutineFails, dataVars
    <2>2. ASSUME UpdatePendingAborts(r, b)
          PROVE  deletions' = deletions \cup {<<b, etm[b].folder>>}
      BY <2>2 DEF UpdatePendingAborts
    <2> QED  BY <2>1, <2>2, UpdateParts
  <1> QED  BY <1>1, <1>2, <1>3, NewestParts DEF SameAccount

LEMMA GoroutineKeeps ==
    ASSUME TypeOK, TypeOK', AccountsInv, NEW r \in Run, NEW b \in BA, Alone(r, b)',
           \/ PrecalculateJobsId(r, b) \/ SavePrecalculatedJob(r, b)
           \/ UpdateExternalTask(r, b) \/ UpdatePendingAborts(r, b)
           \/ CreateCloudTask(r, b)
           \/ GoroutineFails(r, b) \/ MarkOnboardingDone(r, b)
    PROVE  AccountsInv'
  <1>1. AccountInv(b) /\ Looked(b)
    BY DEF AccountsInv
  <1>2. SameAccount(b) => AccountInv(b)'
    BY <1>1, AccountKept
  <1>3. AccountInv(b)' /\ Looked(b)'
    <2>1. CASE PrecalculateJobsId(r, b)
      <3>1. SameAccount(b)
        BY Zenon, <2>1, NewestParts DEF PrecalculateJobsId, dataVars, SameAccount
      <3> QED  BY <1>1, <1>2, <2>1, <3>1, PrecalculatedIsLooked
    <2>2. CASE SavePrecalculatedJob(r, b)
      BY <1>1, <2>2, SavePrecalculatedJobKeeps, SavedIsLooked
    <2>3. CASE UpdateExternalTask(r, b)
      <3>1. gor'[r][b].pc \notin {"lookup", "write", "update"}
        BY <2>3, UpdateParts, UpdateToParts
      <3>2. ASSUME UpdateDoneOnboarding(r, b)
            PROVE  AccountInv(b)'
        BY <1>1, <3>2, UnchangedKeeps DEF UpdateDoneOnboarding
      <3>3. AccountInv(b)'
        BY <1>1, <2>3, <3>2, UpdatePendingKeeps, UpdateStartingKeeps, UpdateCopyingKeeps,
           UpdateFailedKeeps DEF UpdateExternalTask
      <3> QED  BY <3>1, <3>3, PastIsLooked
    <2>4. CASE UpdatePendingAborts(r, b) \/ MarkOnboardingDone(r, b)
      <3>1. gor'[r][b].pc \notin {"lookup", "write", "update"}
        BY <2>4 DEF UpdatePendingAborts, MarkOnboardingDone, GorDone, GorAt, TypeOK
      <3>2. AccountInv(b)'
        BY <1>1, <2>4, UpdatePendingAbortsKeeps, MarkOnboardingDoneKeeps
      <3> QED  BY <3>1, <3>2, PastIsLooked
    <2>5. CASE CreateCloudTask(r, b) \/ GoroutineFails(r, b)
      <3>1. gor'[r][b].pc \notin {"lookup", "write", "update"}
        BY <2>5 DEF CreateCloudTask, GoroutineFails, GorDone, GorAt, TypeOK
      <3>2. SameAccount(b)
        BY <2>5, NewestParts DEF CreateCloudTask, GoroutineFails, dataVars, SameAccount
      <3> QED  BY <1>2, <3>1, <3>2, PastIsLooked
    <2> QED  BY <2>1, <2>2, <2>3, <2>4, <2>5
  <1> QED  BY <1>3, GoroutineOthers, OthersKept

\* A run changes nothing of another run.
LEMMA OtherRuns ==
    ASSUME TypeOK, NEW r \in Run, RunStep(r)
    PROVE  \A q \in Run : q # r => run'[q] = run[q] /\ gor'[q] = gor[q]
  <1>1. CASE \/ Catch(r) \/ Reclaim(r) \/ ListActiveTasks(r) \/ AllTasksDispatched(r)
             \/ TearDown(r) \/ RunDies(r)
    <2>1. \/ run' = run
          \/ \E s : run' = [run EXCEPT ![r] = s]
      BY <1>1 DEF Catch, Reclaim, ListActiveTasks, AllTasksDispatched, TearDown, RunDies
    <2>2. \/ gor' = gor
          \/ \E g : gor' = [gor EXCEPT ![r] = g]
      BY <1>1 DEF Catch, Reclaim, ListActiveTasks, AllTasksDispatched, TearDown, RunDies
    <2> QED  BY <2>1, <2>2 DEF TypeOK
  <1>2. ASSUME NEW b \in BA,
               \/ PrecalculateJobsId(r, b) \/ SavePrecalculatedJob(r, b)
               \/ UpdateExternalTask(r, b) \/ UpdatePendingAborts(r, b)
               \/ CreateCloudTask(r, b)
               \/ GoroutineFails(r, b) \/ MarkOnboardingDone(r, b)
        PROVE  \A q \in Run : q # r => run'[q] = run[q] /\ gor'[q] = gor[q]
    <2>1. run' = run
      BY <1>2, GoroutineParts
    <2>2. \E g : gor' = [gor EXCEPT ![r][b] = g]
      BY <1>2, GoroutineParts
    <2> QED  BY <2>1, <2>2 DEF TypeOK
  <1> QED  BY <1>1, <1>2 DEF RunStep

\* Only a run that is under way does anything but catch the lease.
LEMMA RunIsUnderWay ==
    ASSUME TypeOK, IdleRuns, NEW r \in Run, RunStep(r)
    PROVE  Catch(r) \/ Reclaim(r) \/ run[r] # "idle"
  <1>1. CASE \/ ListActiveTasks(r) \/ AllTasksDispatched(r) \/ TearDown(r) \/ RunDies(r)
    BY <1>1 DEF ListActiveTasks, AllTasksDispatched, TearDown, RunDies
  <1>2. ASSUME NEW b \in BA,
               \/ PrecalculateJobsId(r, b) \/ SavePrecalculatedJob(r, b)
               \/ UpdateExternalTask(r, b) \/ UpdatePendingAborts(r, b)
               \/ CreateCloudTask(r, b)
               \/ GoroutineFails(r, b) \/ MarkOnboardingDone(r, b)
        PROVE  run[r] # "idle"
    BY <1>2, GoroutineParts DEF IdleRuns
  <1> QED  BY <1>1, <1>2 DEF RunStep

\* A run that is under way is the only one with goroutines, and stays so.
LEMMA RunIsAlone ==
    ASSUME RunsInTurn, IdleRuns, TypeOK, NEW r \in Run, RunStep(r), run[r] # "idle", NEW b \in BA
    PROVE  Alone(r, b)'
  <1> SUFFICES ASSUME NEW q \in Run, q # r
               PROVE  gor'[q][b].pc = "off"
    BY DEF Alone
  <1>1. run[q] = "idle"
    BY DEF RunsInTurn
  <1>2. gor'[q] = gor[q]
    BY OtherRuns
  <1> QED  BY <1>1, <1>2 DEF IdleRuns

LEMMA RunStepKeeps ==
    ASSUME RunsInTurn, IdleRuns, TypeOK, TypeOK', AccountsInv, NEW r \in Run, RunStep(r)
    PROVE  AccountsInv'
  <1>1. ASSUME UNCHANGED <<etm, itmState, worker, newest, jobs, files, deletions, local>>
        PROVE  \A b \in BA : SameAccount(b)
    BY <1>1, NewestParts DEF SameAccount
  <1>2. CASE Catch(r) \/ Reclaim(r)
    <2>1. UNCHANGED <<etm, itmState, worker, newest, jobs, files, deletions, local, gor>>
      BY <1>2 DEF Catch, Reclaim, dataVars
    <2> QED  BY <1>1, <2>1, AllKept
  <1>3. CASE ListActiveTasks(r)
    <2>1. UNCHANGED <<etm, itmState, worker, newest, jobs, files, deletions, local>>
      BY <1>3 DEF ListActiveTasks, dataVars
    <2>2. \A b \in BA : AccountInv(b)'
      BY <1>1, <2>1, AccountKept DEF AccountsInv
    <2>3. \A b \in BA : Alone(r, b)'
      BY <1>3, RunIsAlone DEF ListActiveTasks, RunStep
    <2> QED  BY <1>3, <2>2, <2>3, ListedIsLooked DEF AccountsInv
  <1>4. CASE AllTasksDispatched(r) \/ TearDown(r) \/ RunDies(r)
    <2>1. UNCHANGED <<etm, itmState, worker, newest, jobs, files, deletions, local>>
      BY <1>4 DEF AllTasksDispatched, TearDown, RunDies, dataVars
    <2>2. \A b \in BA : \A q \in Run :
             gor'[q][b] = gor[q][b] \/ gor'[q][b].pc \notin {"lookup", "write", "update"}
      <3>1. \/ gor' = [gor EXCEPT ![r] = [b \in BA |-> GorAt("mark", 0, "to", NoJobMeta)]]
            \/ gor' = [gor EXCEPT ![r] = [b \in BA |-> GorOff]]
        BY <1>4 DEF AllTasksDispatched, TearDown, RunDies
      <3>2. GorOff.pc = "off" /\ GorAt("mark", 0, "to", NoJobMeta).pc = "mark"
        BY DEF GorOff, GorAt
      <3>3. \A b \in BA : \A q \in Run : gor'[q][b] = gor[q][b]
               \/ gor'[q][b] = GorOff \/ gor'[q][b] = GorAt("mark", 0, "to", NoJobMeta)
        <4>1. DOMAIN gor = Run
          BY DEF TypeOK
        <4>2. ASSUME NEW g, gor' = [gor EXCEPT ![r] = [b \in BA |-> g]], NEW b \in BA, NEW q \in Run
              PROVE  gor'[q][b] = gor[q][b] \/ gor'[q][b] = g
          BY <4>1, <4>2
        <4> QED  BY <3>1, <4>2
      <3> QED  BY <3>2, <3>3
    <2> QED  BY <1>1, <2>1, <2>2, AllKept
  <1>5. ASSUME NEW b \in BA,
               \/ PrecalculateJobsId(r, b) \/ SavePrecalculatedJob(r, b)
               \/ UpdateExternalTask(r, b) \/ UpdatePendingAborts(r, b)
               \/ CreateCloudTask(r, b)
               \/ GoroutineFails(r, b) \/ MarkOnboardingDone(r, b)
        PROVE  AccountsInv'
    <2>1. run[r] # "idle"
      BY <1>5, GoroutineParts DEF IdleRuns
    <2> QED  BY <1>5, <2>1, RunIsAlone, GoroutineKeeps
  <1> QED  BY <1>2, <1>3, <1>4, <1>5 DEF RunStep

\* A delivery that waits for its job, or has just been given the task, is not a job whose
\* start timed out.
LEMMA OwnedIsLooked ==
    ASSUME TypeOK, NEW b \in BA, AccountInv(b), Looked(b), NEW w \in Worker, Live(w, b),
           UNCHANGED gor, etm'[b].iteration = etm[b].iteration,
           \A k \in Kind : k # worker[w].kind => Status(b, k)' = Status(b, k)
    PROVE  Looked(b)'
  <1>1. /\ worker[w].kind \in Kind /\ Status(b, worker[w].kind) = "pending"
        /\ etm[b].state = Scheduled[worker[w].kind]
    BY OwnerWaits
  <1>2. \A k \in Kind : Status(b, k) # "schedule_timeout"
    BY <1>1 DEF AccountInv, Shape
  <1> QED  BY <1>2, LookedKept

LEMMA WorkerStepKeeps ==
    ASSUME TypeOK, TypeOK', AccountsInv, NEW w \in Worker, WorkerStep(w)
    PROVE  AccountsInv'
  <1>1. /\ gor' = gor /\ itmState' = itmState /\ newest' = newest
        /\ deletions' = deletions /\ local' = local
    BY Zenon DEF WorkerStep, InitTask, SetBucket, InsertJob, RecordJob, WorkerDies, dataVars
  <1>2. PICK b \in BA : b = worker[w].ba
    BY WorkerParts
  <1>3. AccountInv(b) /\ Looked(b)
    BY DEF AccountsInv
  <1>4. ASSUME NEW t \in tasks, InitTask(w, t)
        PROVE  AccountsInv'
    <2>1. PICK c \in BA, k \in Kind : c = t.ba /\ k = t.kind
      BY DEF TypeOK, CloudTask
    <2>2. AccountInv(c) /\ Looked(c)
      BY DEF AccountsInv
    <2>3. AccountInv(c)'
      BY <1>4, <2>1, <2>2, InitTaskKeeps
    <2>4. etm[c].state = Waiting[k] /\ etm' = [etm EXCEPT ![c].state = Scheduled[k]] /\ jobs' = jobs
      BY <1>4, <2>1 DEF InitTask, dataVars
    <2>5. etm[c] \in Etm
      BY DEF TypeOK
    <2>6. /\ etm'[c].iteration = etm[c].iteration
          /\ \A m : Status(c, m)' = Status(c, m)
          /\ \A m, n : JobOf(n, c, m)' <=> JobOf(n, c, m)
      BY <2>4, <2>5 DEF Etm, Status, JobOf, TypeOK
    <2>7. Looked(c)'
      BY <1>1, <2>2, <2>6, LookedKept
    <2>8. \A d \in BA : d # c => SameAccount(d)
      <3>1. worker'[w].ba = c /\ \A v \in Worker \ {w} : worker'[v] = worker[v]
        BY <1>4, <2>1 DEF InitTask, TypeOK
      <3>2. UNCHANGED <<jobs, files>>
        BY <1>4 DEF InitTask, dataVars
      <3>3. \A d \in BA : d # c => \A v \in Worker : Live(v, d)' => worker'[v] = worker[v]
        BY <3>1 DEF Live
      <3> QED  BY SMTT(40), <1>1, <2>4, <3>2, <3>3, NewestParts DEF SameAccount, TypeOK
    <2> QED  BY <1>1, <2>3, <2>7, <2>8, OthersKept
  <1>5. ASSUME \A v \in Worker : v # w => worker'[v] = worker[v],
               worker'[w].pc = "idle" \/ worker'[w].ba = b
        PROVE  \A c \in BA : c # b => \A v \in Worker : Live(v, c)' => worker'[v] = worker[v]
    BY <1>5 DEF Live
  <1>6. CASE SetBucket(w)
    <2>1. /\ Live(w, b) /\ jobs' = jobs
          /\ \E f : etm' = [etm EXCEPT ![b].folder = f]
          /\ \E f : files' = [files EXCEPT ![b] = f]
          /\ worker'[w].ba = b /\ \A v \in Worker : v # w => worker'[v] = worker[v]
      <3>1. Live(w, b) /\ jobs' = jobs
        BY <1>2, <1>6 DEF SetBucket, Live
      <3>2. \E f : etm' = [etm EXCEPT ![b].folder = f]
        BY <1>2, <1>6 DEF SetBucket
      <3>3. \E f : files' = [files EXCEPT ![b] = f]
        BY <1>2, <1>6 DEF SetBucket
      <3>4. \E f : worker' = [worker EXCEPT ![w].pc = "bucket", ![w].folder = f]
        BY <1>6 DEF SetBucket
      <3>5. worker'[w].ba = b /\ \A v \in Worker : v # w => worker'[v] = worker[v]
        BY <1>2, <3>4 DEF TypeOK, WorkerRec
      <3> QED  BY <3>1, <3>2, <3>3, <3>5
    <2>2. etm'[b].iteration = etm[b].iteration /\ \A k : Status(b, k)' = Status(b, k)
      BY <2>1 DEF TypeOK, Etm, Status
    <2>3. Looked(b)'
      BY <1>1, <1>3, <2>1, <2>2, OwnedIsLooked
    <2>4. AccountInv(b)'
      BY <1>2, <1>3, <1>6, SetBucketKeeps DEF Serves
    <2>5. \A c \in BA : c # b => SameAccount(c)
      BY SMTT(20), <1>1, <1>5, <2>1, NewestParts DEF SameAccount, TypeOK
    <2> QED  BY <1>1, <2>3, <2>4, <2>5, OthersKept
  <1>7. CASE InsertJob(w)
    <2>1. /\ Live(w, b) /\ etm' = etm /\ files' = files
          /\ \E s : jobs' = [jobs EXCEPT ![b] = s]
          /\ worker'[w].ba = b /\ \A v \in Worker : v # w => worker'[v] = worker[v]
      <3>1. Live(w, b) /\ etm' = etm /\ files' = files
        BY <1>2, <1>7 DEF InsertJob, Live
      <3>2. \E s : jobs' = [jobs EXCEPT ![b] = s]
        BY <1>2, <1>7 DEF InsertJob
      <3>3. \E n : worker' = [worker EXCEPT ![w].pc = "inserted", ![w].job = n]
        BY <1>7 DEF InsertJob
      <3>4. worker'[w].ba = b /\ \A v \in Worker : v # w => worker'[v] = worker[v]
        BY <1>2, <3>3 DEF TypeOK, WorkerRec
      <3> QED  BY <3>1, <3>2, <3>4
    <2>2. etm'[b].iteration = etm[b].iteration /\ \A k : Status(b, k)' = Status(b, k)
      BY <2>1 DEF Status
    <2>3. Looked(b)'
      BY <1>1, <1>3, <2>1, <2>2, OwnedIsLooked
    <2>4. AccountInv(b)'
      BY <1>2, <1>3, <1>7, InsertJobKeeps DEF Serves
    <2>5. \A c \in BA : c # b => SameAccount(c)
      BY SMTT(20), <1>1, <1>5, <2>1, NewestParts DEF SameAccount, TypeOK
    <2> QED  BY <1>1, <2>3, <2>4, <2>5, OthersKept
  <1>8. CASE RecordJob(w)
    <2>1. /\ Live(w, b) /\ jobs' = jobs /\ files' = files
          /\ worker'[w].pc = "idle" /\ \A v \in Worker : v # w => worker'[v] = worker[v]
      BY ZenonT(30), <1>2, <1>8, WorkerParts DEF RecordJob, Live, TypeOK, dataVars, IdleWorker
    <2>2. /\ etm'[b].iteration = etm[b].iteration
          /\ \A k \in Kind : k # worker[w].kind => Status(b, k)' = Status(b, k)
          /\ \A c \in BA : c # b => etm'[c] = etm[c]
      <3>1. etm[b] \in Etm /\ etm[b].job \in [Kind -> JobMeta]
        BY DEF TypeOK, Etm
      <3>2. PICK k \in Kind : k = worker[w].kind
        BY WorkerParts
      <3>3. etm' = [etm EXCEPT ![b].job[k].id = worker[w].job, ![b].job[k].status = "created",
                               ![b].state = Scheduled[k]]
        BY Zenon, <1>2, <1>8, <3>2 DEF RecordJob
      <3>4. /\ etm'[b] = [etm[b] EXCEPT !.job[k].id = worker[w].job,
                                        !.job[k].status = "created", !.state = Scheduled[k]]
            /\ \A c \in BA : c # b => etm'[c] = etm[c]
        BY Zenon, <3>3 DEF TypeOK
      <3>5. /\ etm'[b].iteration = etm[b].iteration
            /\ etm'[b].job =
                  [[etm[b].job EXCEPT ![k].id = worker[w].job] EXCEPT ![k].status = "created"]
        BY <3>1, <3>4 DEF Etm
      <3>6. \A m \in Kind : m # k => Status(b, m)' = Status(b, m)
        BY <3>1, <3>5 DEF Status
      <3> QED  BY <3>2, <3>4, <3>5, <3>6
    <2>3. Looked(b)'
      BY <1>1, <1>3, <2>1, <2>2, OwnedIsLooked
    <2>4. AccountInv(b)'
      BY <1>2, <1>3, <1>8, RecordJobKeeps DEF Serves
    <2>5. \A c \in BA : c # b => SameAccount(c)
      BY <1>1, <1>5, <2>1, <2>2, NewestParts DEF SameAccount
    <2> QED  BY <1>1, <2>3, <2>4, <2>5, OthersKept
  <1>9. CASE WorkerDies(w)
    <2>1. /\ UNCHANGED <<etm, jobs, files>>
          /\ worker'[w].pc = "idle" /\ \A v \in Worker : v # w => worker'[v] = worker[v]
      BY <1>9 DEF WorkerDies, TypeOK, dataVars, IdleWorker
    <2>2. \A c \in BA : \A v \in Worker : Live(v, c)' => worker'[v] = worker[v]
      BY <2>1 DEF Live
    <2>3. \A c \in BA : SameAccount(c)
      BY <1>1, <2>1, <2>2, NewestParts DEF SameAccount
    <2> QED  BY <1>1, <2>3, AllKept
  <1> QED  BY <1>4, <1>6, <1>7, <1>8, <1>9 DEF WorkerStep

LEMMA DeadlineKeepsAll ==
    ASSUME TypeOK, TypeOK', AccountsInv, NEW b \in BA, NEW k \in Kind,
           DeadlinePasses(b, k)
    PROVE  AccountsInv'
  <1>1. /\ UNCHANGED <<gor, itmState, newest, jobs, files, deletions, local>>
        /\ \E d : etm' = [etm EXCEPT ![b].job[k].due = d]
        /\ \A w \in Worker : worker[w].ba # b \/ worker[w].pc = "idle" =>
              worker'[w] = worker[w]
        /\ \A w \in Worker : worker'[w].ba = worker[w].ba
    <2>1. UNCHANGED <<gor, itmState, newest, jobs, files, deletions, local>>
      BY DEF DeadlinePasses, dataVars
    <2>2. \E d : etm' = [etm EXCEPT ![b].job[k].due = d]
      BY DEF DeadlinePasses
    <2>3. \A w \in Worker : worker'[w] =
             IF worker[w].pc # "idle" /\ worker[w].ba = b /\ worker[w].kind = k
             THEN [worker[w] EXCEPT !.late = TRUE] ELSE worker[w]
      BY DEF DeadlinePasses
    <2>4. \A w \in Worker : [worker[w] EXCEPT !.late = TRUE].ba = worker[w].ba
      BY WorkerParts DEF WorkerRec
    <2> QED  BY <2>1, <2>2, <2>3, <2>4
  <1>2. AccountInv(b) /\ Looked(b)
    BY DEF AccountsInv
  <1>3. AccountInv(b)'
    BY <1>2, DeadlinePassesKeeps
  <1>4. /\ etm'[b].iteration = etm[b].iteration
        /\ \A m \in Kind : Status(b, m)' = Status(b, m)
    <2>1. etm[b] \in Etm /\ etm[b].job \in [Kind -> JobMeta]
      BY DEF TypeOK, Etm
    <2>2. PICK d : etm' = [etm EXCEPT ![b].job[k].due = d]
      BY <1>1
    <2>3. /\ etm'[b].iteration = etm[b].iteration
          /\ etm'[b].job = [etm[b].job EXCEPT ![k].due = d]
      BY <2>1, <2>2 DEF TypeOK, Etm
    <2> QED  BY <2>1, <2>3 DEF Status, JobMeta
  <1>5. \A m \in Kind : \A n : JobOf(n, b, m)' <=> JobOf(n, b, m)
    BY <1>1, <1>4 DEF JobOf
  <1>6. Looked(b)'
    BY <1>1, <1>2, <1>4, <1>5, LookedKept
  <1>7. \A c \in BA : c # b => SameAccount(c)
    <2>1. \A c \in BA : c # b => \A w \in Worker : Live(w, c)' => worker'[w] = worker[w]
      BY <1>1 DEF Live
    <2>2. \A c \in BA : c # b => etm'[c] = etm[c]
      BY <1>1 DEF TypeOK
    <2> QED  BY <1>1, <2>1, <2>2, NewestParts DEF SameAccount
  <1> QED  BY <1>1, <1>3, <1>6, <1>7, OthersKept

LEMMA JobStepKeeps ==
    ASSUME TypeOK, TypeOK', AccountsInv, NEW b \in BA, NEW i \in DOMAIN jobs[b],
           ExportFinishes(b, i) \/ LoadFinishes(b, i)
    PROVE  AccountsInv'
  <1>1. /\ UNCHANGED <<gor, etm, itmState, worker, newest, deletions>>
        /\ \E s : Finish(b, i, s)
    BY DEF ExportFinishes, LoadFinishes
  <1>2. AccountInv(b) /\ Looked(b) /\ jobs[b][i].status = "running"
    BY DEF AccountsInv, ExportFinishes, LoadFinishes
  <1>3. AccountInv(b)'
    BY <1>2, ExportFinishesKeeps, LoadFinishesKeeps
  <1>4. \A k \in Kind : \A n : JobOf(n, b, k)' <=> JobOf(n, b, k)
    BY <1>1, <1>2, FinishKeeps
  <1>5. etm'[b].iteration = etm[b].iteration /\ \A k : Status(b, k)' = Status(b, k)
    BY <1>1 DEF Status
  <1>6. Looked(b)'
    BY <1>1, <1>2, <1>4, <1>5, LookedKept
  <1>7. \A c \in BA : c # b => jobs'[c] = jobs[c] /\ files'[c] = files[c] /\ local'[c] = local[c]
    <2>1. \A c \in BA : c # b => jobs'[c] = jobs[c]
      BY <1>1 DEF Finish, TypeOK
    <2>2. CASE ExportFinishes(b, i)
      <3>1. \A c \in BA : c # b => files'[c] = files[c] /\ local'[c] = local[c]
        BY <2>2 DEF ExportFinishes, TypeOK
      <3> QED  BY <2>1, <3>1
    <2>3. CASE LoadFinishes(b, i)
      <3>1. \A c \in BA : c # b => files'[c] = files[c] /\ local'[c] = local[c]
        BY ZenonT(60), <2>3 DEF LoadFinishes, TypeOK
      <3> QED  BY <2>1, <3>1
    <2> QED  BY <2>2, <2>3
  <1>8. \A c \in BA : c # b => SameAccount(c)
    BY <1>1, <1>7, NewestParts DEF SameAccount
  <1> QED  BY <1>1, <1>3, <1>6, <1>8, OthersKept

LEMMA EnvironmentKeeps ==
    ASSUME TypeOK, TypeOK', AccountsInv, Environment
    PROVE  AccountsInv'
  <1>1. CASE LeaseExpires
    <2>1. UNCHANGED <<gor, etm, itmState, worker, newest, jobs, files, deletions, local>>
      BY <1>1 DEF LeaseExpires, dataVars
    <2>2. \A b \in BA : SameAccount(b)
      BY <2>1, NewestParts DEF SameAccount
    <2> QED  BY <2>1, <2>2, AllKept
  <1>2. ASSUME NEW b \in BA, RecordsArrive(b)
        PROVE  AccountsInv'
    <2>1. UNCHANGED <<gor, etm, itmState, worker, jobs, files, deletions, local>>
      BY <1>2 DEF RecordsArrive
    <2>2. \A c \in BA : newest[c] <= newest'[c] /\ newest'[c] <= MaxRecord
      BY SMTT(20), <1>2, NewestParts, BoundsAssumption DEF RecordsArrive, TypeOK
    <2>3. \A c \in BA : SameAccount(c)
      BY <2>1, <2>2 DEF SameAccount
    <2> QED  BY <2>1, <2>3, AllKept
  <1>3. ASSUME NEW d \in deletions, DeleteBucketFiles(d[1], d[2])
        PROVE  AccountsInv'
    <2>1. PICK b \in BA, f \in Nat : b = d[1] /\ f = d[2]
      BY DEF TypeOK
    <2>2. DeleteBucketFiles(b, f)
      BY <1>3, <2>1
    <2>3. /\ UNCHANGED <<gor, etm, itmState, worker, newest, jobs, local>>
          /\ deletions' \subseteq deletions
          /\ \A c \in BA : c # b => files'[c] = files[c]
      BY <2>2 DEF DeleteBucketFiles, managerVars, TypeOK
    <2>4. AccountInv(b)'
      BY <2>2, DeleteBucketFilesKeeps DEF AccountsInv
    <2>5. Looked(b)'
      <3>1. \A k : (Status(b, k)' = Status(b, k)) /\ \A n : JobOf(n, b, k)' <=> JobOf(n, b, k)
        BY <2>3 DEF Status, JobOf
      <3> QED  BY <2>3, <3>1, LookedKept DEF AccountsInv
    <2>6. \A c \in BA : c # b => SameAccount(c)
      BY <2>3, NewestParts DEF SameAccount
    <2> QED  BY <2>3, <2>4, <2>5, <2>6, OthersKept
  <1> QED  BY <1>1, <1>2, <1>3, DeadlineKeepsAll, JobStepKeeps DEF Environment

LEMMA StepTypes ==
    ASSUME TypeOK, [Next]_vars
    PROVE  TypeOK'
  <1>1. CASE UNCHANGED vars
    BY <1>1 DEF vars, TypeOK
  <1> QED  BY <1>1, RunStepTypes, WorkerStepTypes, EnvironmentTypes DEF Next

LEMMA StepAccounts ==
    ASSUME RunsInTurn, IdleRuns, TypeOK, AccountsInv, [Next]_vars
    PROVE  AccountsInv'
  <1>1. TypeOK'
    BY StepTypes
  <1>2. CASE UNCHANGED vars
    <2>1. UNCHANGED <<gor, etm, itmState, worker, newest, jobs, files, deletions, local>>
      BY <1>2 DEF vars
    <2>2. \A b \in BA : SameAccount(b)
      BY <2>1, NewestParts DEF SameAccount
    <2> QED  BY <1>1, <2>1, <2>2, AllKept
  <1> QED  BY <1>1, <1>2, RunStepKeeps, WorkerStepKeeps, EnvironmentKeeps DEF Next

LEMMA StepIdleRuns ==
    ASSUME IdleRuns, TypeOK, [Next]_vars
    PROVE  IdleRuns'
  <1>1. CASE UNCHANGED <<run, gor>>
    BY <1>1 DEF IdleRuns
  <1>2. ASSUME NEW r \in Run, RunStep(r)
        PROVE  IdleRuns'
    <2>1. CASE Reclaim(r)
      BY <1>1, <2>1 DEF Reclaim
    <2>2. CASE TearDown(r) \/ RunDies(r)
      <3>1. \A b \in BA : gor'[r][b].pc = "off"
        BY <2>2 DEF TearDown, RunDies, TypeOK, GorOff, GorAt
      <3> QED  BY <1>2, <3>1, OtherRuns DEF IdleRuns
    <2>3. CASE Catch(r) \/ ListActiveTasks(r) \/ AllTasksDispatched(r)
      <3>1. run'[r] # "idle"
        BY <2>3 DEF Catch, ListActiveTasks, AllTasksDispatched, TypeOK
      <3> QED  BY <1>2, <3>1, OtherRuns DEF IdleRuns
    <2>4. ASSUME NEW b \in BA,
                 \/ PrecalculateJobsId(r, b) \/ SavePrecalculatedJob(r, b)
                 \/ UpdateExternalTask(r, b) \/ UpdatePendingAborts(r, b)
                 \/ CreateCloudTask(r, b)
                 \/ GoroutineFails(r, b) \/ MarkOnboardingDone(r, b)
          PROVE  IdleRuns'
      <3>1. run'[r] # "idle"
        BY <2>4, GoroutineParts DEF IdleRuns
      <3> QED  BY <1>2, <3>1, OtherRuns DEF IdleRuns
    <2> QED  BY <1>2, <2>1, <2>2, <2>3, <2>4 DEF RunStep
  <1>3. ASSUME NEW w \in Worker, WorkerStep(w)
        PROVE  UNCHANGED <<run, gor>>
    BY <1>3 DEF WorkerStep, InitTask, SetBucket, InsertJob, RecordJob, WorkerDies, managerVars
  <1>4. CASE Environment
    <2>1. UNCHANGED <<run, gor>>
      BY <1>4 DEF Environment, LeaseExpires, RecordsArrive, DeadlinePasses, ExportFinishes,
         LoadFinishes, DeleteBucketFiles, managerVars
    <2> QED  BY <1>1, <2>1
  <1>5. CASE UNCHANGED vars
    BY <1>1, <1>5 DEF vars
  <1> QED  BY <1>1, <1>2, <1>3, <1>4, <1>5 DEF Next

LEMMA IdleRunsInvariant == Spec => [](TypeOK /\ IdleRuns)
  <1>1. Init => TypeOK /\ IdleRuns
    BY InitTypes DEF Init, IdleRuns, GorOff, GorAt
  <1>2. TypeOK /\ IdleRuns /\ [Next]_vars => (TypeOK /\ IdleRuns)'
    BY StepTypes, StepIdleRuns
  <1> QED  BY <1>1, <1>2, PTL DEF Spec

-----------------------------------------------------------------------------
(* What the lease is for.                                                  *)

\* No run is still under way when its lease is past its TTL.
RunsEndInTime == lease.running /\ lease.expired => \A r \in Run : run[r] = "idle"

\* A run that is under way holds the lease.
LeaseHeld == \A r \in Run : run[r] # "idle" => lease.running /\ lease.holder = r

LEMMA StepLease ==
    ASSUME RunsEndInTime, IdleRuns, LeaseHeld, TypeOK, [Next]_vars
    PROVE  LeaseHeld'
  <1>1. ASSUME UNCHANGED run, lease'.running = lease.running, lease'.holder = lease.holder
        PROVE  LeaseHeld'
    BY <1>1 DEF LeaseHeld
  <1>2. ASSUME NEW r \in Run, RunStep(r)
        PROVE  LeaseHeld'
    <2>1. CASE Catch(r)
      <3>1. /\ \A q \in Run : run[q] = "idle"
            /\ lease' = [running |-> TRUE, expired |-> FALSE, holder |-> r]
        BY <2>1 DEF Catch, LeaseHeld
      <3>2. \A q \in Run : q # r => run'[q] = "idle"
        BY <1>2, <3>1, OtherRuns
      <3> QED  BY <3>1, <3>2 DEF LeaseHeld
    <2>2. CASE Reclaim(r)
      <3>1. \A q \in Run : run[q] = "idle"
        BY <2>2 DEF Reclaim, RunsEndInTime
      <3>2. run' = run
        BY <2>2 DEF Reclaim
      <3> QED  BY <3>1, <3>2 DEF LeaseHeld
    <2>3. CASE run[r] # "idle"
      <3>1. \A q \in Run : q # r => run'[q] = "idle"
        BY <1>2, <2>3, OtherRuns DEF LeaseHeld
      <3>2. lease' = lease \/ run'[r] = "idle"
        <4>1. CASE TearDown(r)
          BY <4>1 DEF TearDown, TypeOK
        <4>2. CASE ListActiveTasks(r) \/ AllTasksDispatched(r) \/ RunDies(r)
          BY <4>2 DEF ListActiveTasks, AllTasksDispatched, RunDies
        <4>3. CASE Catch(r) \/ Reclaim(r)
          BY <2>3, <4>3 DEF Catch, Reclaim
        <4>4. ASSUME NEW b \in BA,
                     \/ PrecalculateJobsId(r, b) \/ SavePrecalculatedJob(r, b)
                     \/ UpdateExternalTask(r, b) \/ UpdatePendingAborts(r, b)
                     \/ CreateCloudTask(r, b)
                     \/ GoroutineFails(r, b) \/ MarkOnboardingDone(r, b)
              PROVE  lease' = lease
          BY <4>4, GoroutineParts
        <4> QED  BY <1>2, <4>1, <4>2, <4>3, <4>4 DEF RunStep
      <3> QED  BY <2>3, <3>1, <3>2 DEF LeaseHeld
    <2> QED  BY <1>2, <2>1, <2>2, <2>3, RunIsUnderWay
  <1>3. ASSUME NEW w \in Worker, WorkerStep(w)
        PROVE  UNCHANGED <<run, lease>>
    BY <1>3 DEF WorkerStep, InitTask, SetBucket, InsertJob, RecordJob, WorkerDies, managerVars
  <1>4. CASE Environment
    <2>1. CASE LeaseExpires
      BY <1>1, <2>1 DEF LeaseExpires, TypeOK
    <2>2. ASSUME ~LeaseExpires
          PROVE  UNCHANGED <<run, lease>>
      BY <1>4, <2>2 DEF Environment, RecordsArrive, DeadlinePasses, ExportFinishes,
         LoadFinishes, DeleteBucketFiles, managerVars
    <2> QED  BY <1>1, <2>1, <2>2
  <1>5. CASE UNCHANGED vars
    BY <1>1, <1>5 DEF vars
  <1> QED  BY <1>1, <1>2, <1>3, <1>4, <1>5 DEF Next

\* The lease keeps the runs apart, however many are started and wherever they die
\* (CatchExternalManagerMetadata and tearDown), as long as a run that is alive ends before
\* the TTL of its lease: what is proved of runs that do not overlap then holds.
THEOREM LeaseKeepsRunsApart == Spec /\ []RunsEndInTime => []RunsInTurn
  <1>1. Init => LeaseHeld
    BY DEF Init, LeaseHeld
  <1>2. RunsEndInTime /\ TypeOK /\ IdleRuns /\ LeaseHeld /\ [Next]_vars => LeaseHeld'
    BY StepLease
  <1>3. LeaseHeld => RunsInTurn
    BY DEF LeaseHeld, RunsInTurn
  <1> QED  BY <1>1, <1>2, <1>3, IdleRunsInvariant, PTL DEF Spec

-----------------------------------------------------------------------------
(* What follows for the pipeline when its runs do not overlap.             *)

LEMMA AccountsInvariant == Spec /\ []RunsInTurn => [](TypeOK /\ AccountsInv)
  <1>1. Init => TypeOK /\ AccountsInv
    BY InitTypes, InitAccounts
  <1>2. RunsInTurn /\ IdleRuns /\ TypeOK /\ AccountsInv /\ [Next]_vars
           => (TypeOK /\ AccountsInv)'
    BY StepTypes, StepAccounts
  <1> QED  BY <1>1, <1>2, IdleRunsInvariant, PTL DEF Spec

\* However often a cloud task is created and delivered, an attempt inserts at most one job in
\* each direction (InsertJob behind initTask's guard): with runs that do not overlap, for any
\* number of accounts, of deliveries at the same time, of attempts and of rows.
THEOREM JobsAreInsertedOnce == Spec /\ []RunsInTurn => []OneJobPerAttempt
  <1>1. TypeOK /\ AccountsInv => OneJobPerAttempt
    BY DEF AccountsInv, AccountInv, Attempt, OneJobPerAttempt
  <1> QED  BY <1>1, AccountsInvariant, PTL

\* While the context of a delivery lives, the task is scheduled for it and for no other: the
\* unguarded transactions that save the bucket and the job overwrite nobody's.
THEOREM LiveWorkersOwnTheirTask == Spec /\ []RunsInTurn => []LiveWorkerOwnsTask
  <1>1. TypeOK /\ AccountsInv => LiveWorkerOwnsTask
    <2> SUFFICES ASSUME TypeOK, AccountsInv, NEW w \in Worker,
                        worker[w].pc # "idle", ~worker[w].late
                 PROVE  /\ etm[worker[w].ba].iteration = worker[w].iteration
                        /\ etm[worker[w].ba].state = Scheduled[worker[w].kind]
                        /\ \A u \in Worker \ {w} :
                              ~(/\ worker[u].pc # "idle" /\ ~worker[u].late
                                /\ worker[u].ba = worker[w].ba)
      BY DEF LiveWorkerOwnsTask
    <2>1. PICK b \in BA : b = worker[w].ba
      BY WorkerParts
    <2>2. Live(w, b) /\ AccountInv(b)
      BY <2>1 DEF Live, AccountsInv
    <2>3. \A u \in Worker : Live(u, b) => u = w
      BY <2>2 DEF AccountInv, Owned
    <2> QED  BY <2>1, <2>2, <2>3, OwnerWaits DEF Live
  <1> QED  BY <1>1, AccountsInvariant, PTL

\* A load job that runs is of the current attempt: no attempt starts and no segment is chosen
\* under a load that may yet append its rows (handleFailedFlow against calculateNextSegment).
THEOREM LoadsEndWithTheirAttempt == Spec /\ []RunsInTurn => []LoadsSettled
  <1>1. TypeOK /\ AccountsInv => LoadsSettled
    <2> SUFFICES ASSUME TypeOK, AccountsInv, NEW b \in BA, NEW i \in DOMAIN jobs[b],
                        jobs[b][i].kind = "from", jobs[b][i].status = "running"
                 PROVE  /\ jobs[b][i].iteration = etm[b].iteration
                        /\ etm[b].state \in {Scheduled.from, Copying.from, "failed"}
      BY DEF LoadsSettled
    <2>1. AccountInv(b)
      BY DEF AccountsInv
    <2>2. jobs[b][i].iteration = etm[b].iteration /\ Loading(b)
      BY <2>1 DEF AccountInv, Loads
    <2>3. JobOf(i, b, "from")
      BY <2>2 DEF JobOf
    <2>4. etm[b].state # Waiting["from"]
      BY <2>1, <2>3 DEF AccountInv, Attempt
    <2> QED  BY <2>2, <2>4 DEF Loading
  <1> QED  BY <1>1, AccountsInvariant, PTL

\* Nothing deletes the files that a load reads, and they are the whole segment
\* (deleteBucketFiles, which runs in the background, against the loads).
THEOREM FilesOutliveTheirLoad == Spec /\ []RunsInTurn => []FilesKeptWhileLoading
  <1>1. TypeOK /\ AccountsInv => FilesKeptWhileLoading
    <2> SUFFICES ASSUME TypeOK, AccountsInv, NEW b \in BA, NEW i \in DOMAIN jobs[b],
                        jobs[b][i].kind = "from", jobs[b][i].status = "running"
                 PROVE  /\ <<b, jobs[b][i].folder>> \notin deletions
                        /\ files[b][jobs[b][i].folder] = Segment(jobs[b][i])
      BY DEF FilesKeptWhileLoading
    <2>1. AccountInv(b)
      BY DEF AccountsInv
    <2>2. jobs[b][i].iteration = etm[b].iteration /\ Loading(b)
      BY <2>1 DEF AccountInv, Loads
    <2>3. JobOf(i, b, "from")
      BY <2>2 DEF JobOf
    <2>4. /\ jobs[b][i].start = etm[b].start /\ jobs[b][i].end = etm[b].end
          /\ jobs[b][i].folder = etm[b].folder
      BY <2>1, <2>3 DEF AccountInv, Attempt
    <2>5. etm[b].state # "pending"
      BY <2>2 DEF Loading
    <2> QED  BY <2>1, <2>2, <2>4, <2>5 DEF AccountInv, Folders, Segment
  <1> QED  BY <1>1, AccountsInvariant, PTL

\* The internal pipeline gets an account only with the whole first segment of its history in
\* the local table (markOnboardingDone after everything that may fail before it).
THEOREM HistoryIsLoaded == Spec /\ []RunsInTurn => []OnboardedHistoryLoaded
  <1>1. TypeOK /\ AccountsInv => OnboardedHistoryLoaded
    BY DEF AccountsInv, AccountInv, Histories, History, OnboardedHistoryLoaded
  <1> QED  BY <1>1, AccountsInvariant, PTL

\* No retry, duplicate delivery or late answer puts a row twice into the local table.
THEOREM RowsAreLoadedOnce == Spec /\ []RunsInTurn => []NoRowTwice
  <1>1. TypeOK /\ AccountsInv => NoRowTwice
    BY DEF AccountsInv, AccountInv, Counted, NoRowTwice
  <1> QED  BY <1>1, AccountsInvariant, PTL

-----------------------------------------------------------------------------
(* The pipeline copies segments.                                           *)

Bounds == [a \in BA |-> [start |-> etm[a].start, end |-> etm[a].end]]

\* No account's segment changes.
SameBounds == \A a \in BA : etm'[a].start = etm[a].start /\ etm'[a].end = etm[a].end

LEMMA SameCopy ==
    ASSUME UNCHANGED <<newest, local>>, SameBounds
    PROVE  UNCHANGED Copy!segmentVars
  <1>1. Bounds' = Bounds
    BY DEF SameBounds, Bounds
  <1> QED  BY <1>1 DEF Copy!segmentVars, Bounds

LEMMA InitCopies == Init => Copy!SegmentInit
  <1> SUFFICES ASSUME Init PROVE Copy!SegmentInit
    OBVIOUS
  <1>1. \A a \in BA : etm[a].start = 0 /\ etm[a].end = 0
    BY DEF Init, NewEtm
  <1> QED  BY <1>1 DEF Init, Copy!SegmentInit, Copy!Record, Records

LEMMA ChangesKeepBounds ==
    ASSUME NEW e \in Etm, NEW k \in Kind, NEW st, NEW s
    PROVE  /\ [e EXCEPT !.state = st].start = e.start /\ [e EXCEPT !.state = st].end = e.end
           /\ [e EXCEPT !.state = st, !.job[k].status = s].start = e.start
           /\ [e EXCEPT !.state = st, !.job[k].status = s].end = e.end
           /\ AfterJob(e, k).start = e.start /\ AfterJob(e, k).end = e.end
  <1>1. AfterJob(e, k).start = e.start /\ AfterJob(e, k).end = e.end
    BY DEF AfterJob, Etm
  <1> QED  BY <1>1 DEF Etm

\* updateExternalTask chooses a segment only when this one is in the table.
LEMMA UpdateCopies ==
    ASSUME TypeOK, AccountsInv, NEW r \in Run, NEW b \in BA, UpdateExternalTask(r, b)
    PROVE  UNCHANGED Copy!segmentVars \/ Copy!Advance(b)
  <1> DEFINE e == etm[b]
             n == NextSegment(e, newest[b])
  <1>1. PICK d : UpdateTo(r, b, d)
    BY UpdateParts
  <1>2. UNCHANGED <<newest, local>> /\ etm' = [etm EXCEPT ![b] = d]
    BY <1>1 DEF UpdateTo
  <1>3. e \in Etm /\ newest[b] \in Nat /\ e.start \in Nat /\ e.end \in Nat
    BY EtmParts
  <1>4. ASSUME etm'[b].start = e.start, etm'[b].end = e.end
        PROVE  UNCHANGED Copy!segmentVars
    <2>1. SameBounds
      BY <1>2, <1>4 DEF SameBounds, TypeOK
    <2> QED  BY <1>2, <2>1, SameCopy
  <1>5. CASE UpdatePending(r, b)
    <2>1. n \in Etm
      BY <1>3, NextSegmentTypes
    <2>2. etm'[b].start = n.start /\ etm'[b].end = n.end
      <3> HIDE DEF n
      <3> DEFINE w == [n EXCEPT
                   !.state = Waiting.to, !.folder = 0,
                   !.job = [k \in Kind |-> IF k = "to" THEN PendingJobMeta ELSE NoJobMeta]]
      <3>1. w.start = n.start /\ w.end = n.end
        BY <2>1 DEF Etm
      <3>2. UpdateTo(r, b, n) \/ UpdateTo(r, b, w)
        BY <1>5 DEF UpdatePending, n
      <3> HIDE DEF w
      <3>3. etm'[b] = n \/ etm'[b] = w
        BY <3>2, UpdateToParts
      <3> QED  BY <3>1, <3>3
    <2>3. CASE \E k \in Kind : e.job[k].status # "done"
      <3>1. n.start = e.start /\ n.end = e.end
        BY <1>3, <2>3 DEF NextSegment, Etm
      <3> QED  BY <1>4, <2>2, <3>1
    <2>4. CASE \A k \in Kind : e.job[k].status = "done"
      <3>1. n.start = e.end /\ n.end = newest[b]
        BY <1>3, <2>4 DEF NextSegment, Etm
      <3>2. /\ newest[b] <= MaxRecord /\ e.start <= e.end /\ e.end <= newest[b]
            /\ \A x \in Records : local[b][x] \in Nat /\ local[b][x] <= 1
            /\ \A x \in Segment(e) : local[b][x] >= 1
        BY <2>4 DEF AccountsInv, AccountInv, Counted, Status, TypeOK
      <3>3. \A x \in Records : e.start < x /\ x <= e.end => local[b][x] = 1
        <4> SUFFICES ASSUME NEW x \in Records, e.start < x, x <= e.end
                     PROVE  local[b][x] = 1
          OBVIOUS
        <4>1. x \in Segment(e)
          BY <1>3 DEF Segment, Records
        <4> QED  BY <3>2, <4>1
      <3>4. Bounds' = [Bounds EXCEPT ![b] = [start |-> Bounds[b].end, end |-> newest[b]]]
        BY <1>2, <2>2, <3>1 DEF Bounds, TypeOK
      <3>5. /\ Bounds[b].start = e.start /\ Bounds[b].end = e.end
            /\ newest[b] \in Bounds[b].end .. newest[b]
        BY <1>3, <3>2 DEF Bounds
      <3> HIDE DEF e, n
      <3> QED  BY <1>2, <3>3, <3>4, <3>5
               DEF Copy!Advance, Copy!InSegment, Copy!Record, Records, Bounds
    <2> QED  BY <2>3, <2>4
  <1>6. CASE ~UpdatePending(r, b)
    <2>1. etm'[b].start = e.start /\ etm'[b].end = e.end
      <3>1. ASSUME NEW k \in Kind, UpdateStarting(r, b, k)
            PROVE  etm'[b].start = e.start /\ etm'[b].end = e.end
        <4> DEFINE copying == [e EXCEPT !.state = Copying[k]]
                   failed  == [e EXCEPT !.state = "failed", !.job[k].status = "schedule_timeout"]
        <4>1. UpdateTo(r, b, copying) \/ UpdateTo(r, b, failed) \/ UpdateTo(r, b, e)
          BY <3>1 DEF UpdateStarting
        <4>2. /\ copying.start = e.start /\ copying.end = e.end
              /\ failed.start = e.start /\ failed.end = e.end
          BY <1>3, ChangesKeepBounds
        <4> HIDE DEF copying, failed, e
        <4>3. etm'[b] = copying \/ etm'[b] = failed \/ etm'[b] = e
          BY <4>1, UpdateToParts
        <4> QED  BY <4>2, <4>3
      <3>2. ASSUME NEW k \in Kind, UpdateCopying(r, b, k)
            PROVE  etm'[b].start = e.start /\ etm'[b].end = e.end
        <4> DEFINE failed(s) == [e EXCEPT !.state = "failed", !.job[k].status = s]
                   after     == AfterJob(e, k)
        <4>1. \/ UpdateTo(r, b, after) \/ UpdateTo(r, b, failed("failed"))
              \/ UpdateTo(r, b, failed("timeout")) \/ UpdateTo(r, b, e)
          BY <3>2 DEF UpdateCopying
        <4>2. /\ \A s : failed(s).start = e.start /\ failed(s).end = e.end
              /\ after.start = e.start /\ after.end = e.end
          BY <1>3, ChangesKeepBounds
        <4> HIDE DEF failed, after, e
        <4>3. \/ etm'[b] = after \/ etm'[b] = failed("failed")
              \/ etm'[b] = failed("timeout") \/ etm'[b] = e
          BY <4>1, UpdateToParts
        <4> QED  BY SMTT(40), <4>2, <4>3
      <3>3. CASE UpdateFailed(r, b)
        <4> DEFINE k == IF e.job["to"].status # "done" THEN "to" ELSE "from"
                   after(res) == [e EXCEPT
                    !.state = IF res.err \/ res.status = "failed" THEN "pending"
                              ELSE IF res.status = "done"
                                   THEN (IF k = "to" THEN Copying.to ELSE "pending")
                              ELSE "failed",
                    !.job[k].status = res.status]
        <4>1. UpdateTo(r, b, e) \/ \E res : UpdateTo(r, b, after(res))
          BY Zenon, <3>3 DEF UpdateFailed
        <4>2. k \in Kind
          OBVIOUS
        <4>3. \A res : after(res).start = e.start /\ after(res).end = e.end
          <5> HIDE DEF k
          <5> QED  BY <1>3, <4>2, ChangesKeepBounds
        <4> HIDE DEF after, k, e
        <4>4. etm'[b] = e \/ \E res : etm'[b] = after(res)
          BY <4>1, UpdateToParts
        <4> QED  BY <4>3, <4>4
      <3>4. CASE UpdateDoneOnboarding(r, b)
        BY <3>4, UpdateToParts DEF UpdateDoneOnboarding
      <3> QED  BY <1>6, <3>1, <3>2, <3>3, <3>4 DEF UpdateExternalTask
    <2> QED  BY <1>4, <2>1
  <1> QED  BY <1>5, <1>6

\* A load that succeeds adds the rows of its account's segment, all of them missing.
LEMMA LoadCopies ==
    ASSUME TypeOK, AccountsInv, NEW b \in BA, NEW i \in DOMAIN jobs[b], LoadFinishes(b, i)
    PROVE  UNCHANGED Copy!segmentVars \/ Copy!CopySegments({b})
  <1>1. UNCHANGED <<newest, etm>>
    BY DEF LoadFinishes
  <1>2. SameBounds
    BY <1>1 DEF SameBounds
  <1>3. CASE local' = local
    BY <1>1, <1>2, <1>3, SameCopy
  <1>4. CASE local' # local
    <2>1. local' = [local EXCEPT ![b] = [x \in Records |->
             IF x \in files[b][jobs[b][i].folder] THEN local[b][x] + 1 ELSE local[b][x]]]
      BY <1>4 DEF LoadFinishes, TypeOK
    <2>2. AccountInv(b) /\ jobs[b][i].kind = "from" /\ jobs[b][i].status = "running"
      BY DEF AccountsInv, LoadFinishes
    <2>3. jobs[b][i].iteration = etm[b].iteration /\ Loading(b)
      BY <2>2 DEF AccountInv, Loads
    <2>4. JobOf(i, b, "from")
      BY <2>2, <2>3 DEF JobOf
    <2>5. jobs[b][i].folder = etm[b].folder
      BY <2>2, <2>4 DEF AccountInv, Attempt
    <2>6. files[b][jobs[b][i].folder] = Segment(etm[b])
      BY SMTT(40), <2>2, <2>3, <2>5 DEF AccountInv, Folders
    <2>7. \A n \in DOMAIN jobs[b] : JobOf(n, b, "from") => n = i
      BY <2>2, <2>4 DEF AccountInv, Attempt, JobOf
    <2>8. Status(b, "from") # "done"
      BY <2>2, <2>3 DEF AccountInv, Loads
    <2>9. \A x \in Segment(etm[b]) : local[b][x] = 0
      BY <2>2, <2>7, <2>8 DEF AccountInv, Counted
    <2>10. etm[b].start \in Nat /\ etm[b].end \in Nat
      BY EtmParts
    <2>11. \A x \in Records : x \in Segment(etm[b]) <=> etm[b].start < x /\ x <= etm[b].end
      BY <2>10 DEF Segment, Records
    <2>12. local' = [a \in BA |-> [x \in Records |->
              IF a = b /\ etm[b].start < x /\ x <= etm[b].end THEN 1 ELSE local[a][x]]]
      <3>1. \A a \in BA : local[a] \in [Records -> Nat]
        BY DEF TypeOK
      <3>2. \A a \in BA : a # b => local'[a] = [x \in Records |-> local[a][x]]
        BY <2>1, <3>1 DEF TypeOK
      <3>3. local'[b] = [x \in Records |->
               IF etm[b].start < x /\ x <= etm[b].end THEN 1 ELSE local[b][x]]
        <4>1. local'[b] = [x \in Records |->
             IF x \in files[b][jobs[b][i].folder] THEN local[b][x] + 1 ELSE local[b][x]]
          BY <2>1 DEF TypeOK
        <4>2. \A x \in Records :
                 (IF x \in files[b][jobs[b][i].folder] THEN local[b][x] + 1 ELSE local[b][x]) =
                 (IF etm[b].start < x /\ x <= etm[b].end THEN 1 ELSE local[b][x])
          BY <2>6, <2>9, <2>11
        <4> QED  BY <4>1, <4>2
      <3>4. DOMAIN local' = BA /\ local' = [a \in BA |-> local'[a]]
        BY <2>1 DEF TypeOK
      <3> QED  BY <3>2, <3>3, <3>4
    <2>13. Bounds' = Bounds /\ Bounds[b].start = etm[b].start /\ Bounds[b].end = etm[b].end
      BY <1>1 DEF Bounds
    <2> QED  BY <1>1, <2>9, <2>11, <2>12, <2>13
             DEF Copy!CopySegments, Copy!InSegment, Copy!Record, Records, Bounds
  <1> QED  BY <1>3, <1>4

LEMMA StepCopies ==
    ASSUME TypeOK, AccountsInv, [Next]_vars
    PROVE  [Copy!SegmentNext]_(Copy!segmentVars)
  <1>1. CASE UNCHANGED vars
    BY <1>1, SameCopy DEF vars, SameBounds
  <1>2. ASSUME NEW r \in Run, RunStep(r)
        PROVE  UNCHANGED Copy!segmentVars \/ \E b \in BA : Copy!Advance(b)
    <2>1. ASSUME NEW b \in BA, UpdateExternalTask(r, b)
          PROVE  UNCHANGED Copy!segmentVars \/ Copy!Advance(b)
      BY <2>1, UpdateCopies
    <2>2. ASSUME NEW b \in BA, \/ SavePrecalculatedJob(r, b) \/ MarkOnboardingDone(r, b)
          PROVE  UNCHANGED Copy!segmentVars
      <3>1. UNCHANGED <<newest, local>>
        BY <2>2 DEF SavePrecalculatedJob, MarkOnboardingDone, dataVars
      <3>2. etm[b] \in Etm
        BY DEF TypeOK
      <3>3. CASE SavePrecalculatedJob(r, b)
        <4>1. \E x, y : etm' = [etm EXCEPT ![b].job[x] = y]
          BY <3>3 DEF SavePrecalculatedJob
        <4>2. etm'[b].start = etm[b].start /\ etm'[b].end = etm[b].end
          <5>1. \E x, y : etm'[b] = [etm[b] EXCEPT !.job[x] = y]
            <6>1. PICK x, y : etm' = [etm EXCEPT ![b].job[x] = y]
              BY <4>1
            <6>2. etm'[b] = [etm[b] EXCEPT !.job[x] = y]
              BY <6>1 DEF TypeOK
            <6> QED  BY <6>2
          <5> QED  BY <3>2, <5>1 DEF Etm
        <4>3. SameBounds
          BY <4>1, <4>2 DEF SameBounds, TypeOK
        <4> QED  BY <3>1, <4>3, SameCopy
      <3>4. CASE MarkOnboardingDone(r, b)
        <4>1. \/ etm' = [etm EXCEPT ![b].state = "pending", ![b].onBoarding = FALSE]
              \/ etm' = etm
          BY <3>4 DEF MarkOnboardingDone
        <4>2. ASSUME etm' = [etm EXCEPT ![b].state = "pending", ![b].onBoarding = FALSE]
              PROVE  SameBounds
          <5>1. etm'[b] = [etm[b] EXCEPT !.state = "pending", !.onBoarding = FALSE]
            BY <4>2 DEF TypeOK
          <5>2. etm'[b].start = etm[b].start /\ etm'[b].end = etm[b].end
            BY <3>2, <5>1 DEF Etm
          <5> QED  BY <4>2, <5>2 DEF SameBounds, TypeOK
        <4>3. SameBounds
          BY <4>1, <4>2 DEF SameBounds
        <4> QED  BY <3>1, <4>3, SameCopy
      <3> QED  BY <2>2, <3>3, <3>4
    <2>3. ASSUME UNCHANGED <<etm, newest, local>>
          PROVE  UNCHANGED Copy!segmentVars
      BY <2>3, SameCopy DEF SameBounds
    <2>4. CASE \/ Catch(r) \/ Reclaim(r) \/ ListActiveTasks(r) \/ AllTasksDispatched(r)
               \/ TearDown(r) \/ RunDies(r)
               \/ \E b \in BA : \/ PrecalculateJobsId(r, b) \/ UpdatePendingAborts(r, b)
                                \/ CreateCloudTask(r, b) \/ GoroutineFails(r, b)
      BY Zenon, <2>3, <2>4 DEF Catch, Reclaim, ListActiveTasks, AllTasksDispatched, TearDown,
         RunDies,
         PrecalculateJobsId, UpdatePendingAborts, CreateCloudTask, GoroutineFails, dataVars
    <2> QED  BY <1>2, <2>1, <2>2, <2>4 DEF RunStep
  <1>3. ASSUME NEW w \in Worker, WorkerStep(w)
        PROVE  UNCHANGED Copy!segmentVars
    <2>1. UNCHANGED <<newest, local>>
      BY Zenon, <1>3 DEF WorkerStep, InitTask, SetBucket, InsertJob, RecordJob, WorkerDies, dataVars
    <2>2. SameBounds
      <3>1. PICK b \in BA, k \in Kind : b = worker[w].ba /\ k = worker[w].kind
        BY WorkerParts
      <3>2. \A a \in BA : etm[a] \in Etm
        BY DEF TypeOK
      <3>3. ASSUME NEW t \in tasks, InitTask(w, t)  PROVE SameBounds
        <4>1. PICK c \in BA : c = t.ba
          BY DEF TypeOK, CloudTask
        <4>2. \E st : etm' = [etm EXCEPT ![c].state = st]
          BY Zenon, <3>3, <4>1 DEF InitTask
        <4>3. /\ \E st : etm'[c] = [etm[c] EXCEPT !.state = st]
              /\ \A a \in BA : a # c => etm'[a] = etm[a]
          BY ZenonT(60), <4>2 DEF TypeOK
        <4>4. etm'[c].start = etm[c].start /\ etm'[c].end = etm[c].end
          BY <3>2, <4>3 DEF Etm
        <4> QED  BY <4>3, <4>4 DEF SameBounds
      <3>4. CASE SetBucket(w)
        BY ZenonT(60), <3>1, <3>2, <3>4 DEF SetBucket, SameBounds, TypeOK, Etm
      <3>5. CASE RecordJob(w)
        <4>1. \E n, st : etm'[b] = [etm[b] EXCEPT !.job[k].id = n, !.job[k].status = "created",
                                                 !.state = st]
          BY Zenon, <3>1, <3>5 DEF RecordJob, TypeOK
        <4>2. etm'[b].start = etm[b].start /\ etm'[b].end = etm[b].end
          BY <3>2, <4>1 DEF Etm
        <4>3. \A a \in BA : a # b => etm'[a] = etm[a]
          BY Zenon, <3>1, <3>5 DEF RecordJob, TypeOK
        <4> QED  BY <4>2, <4>3 DEF SameBounds
      <3>6. CASE InsertJob(w) \/ WorkerDies(w)
        BY <3>6 DEF InsertJob, WorkerDies, SameBounds
      <3> QED  BY <1>3, <3>3, <3>4, <3>5, <3>6 DEF WorkerStep
    <2> QED  BY <2>1, <2>2, SameCopy
  <1>4. ASSUME NEW b \in BA, RecordsArrive(b)
        PROVE  Copy!Arrive(b)
    <2>1. Bounds' = Bounds
      BY <1>4 DEF RecordsArrive, Bounds
    <2> QED  BY <1>4, <2>1 DEF RecordsArrive, Copy!Arrive, Bounds
  <1>5. ASSUME NEW b \in BA, NEW k \in Kind, DeadlinePasses(b, k)
        PROVE  UNCHANGED Copy!segmentVars
    <2>1. UNCHANGED <<newest, local>> /\ \E d : etm' = [etm EXCEPT ![b].job[k].due = d]
      BY <1>5 DEF DeadlinePasses, dataVars
    <2>2. SameBounds
      BY SMTT(40), <2>1 DEF SameBounds, TypeOK, Etm
    <2> QED  BY <2>1, <2>2, SameCopy
  <1>6. ASSUME NEW b \in BA, NEW i \in DOMAIN jobs[b], LoadFinishes(b, i)
        PROVE  UNCHANGED Copy!segmentVars \/ \E bas \in SUBSET BA : Copy!CopySegments(bas)
    BY <1>6, LoadCopies
  <1>7. ASSUME \/ LeaseExpires \/ \E d \in deletions : DeleteBucketFiles(d[1], d[2])
               \/ \E b \in BA : \E i \in DOMAIN jobs[b] : ExportFinishes(b, i)
        PROVE  UNCHANGED Copy!segmentVars
    <2>1. UNCHANGED <<etm, newest, local>>
      BY <1>7 DEF LeaseExpires, DeleteBucketFiles, ExportFinishes, dataVars
    <2> QED  BY <2>1, SameCopy DEF SameBounds
  <1> QED  BY <1>1, <1>2, <1>3, <1>4, <1>5, <1>6, <1>7 DEF Next, Environment, Copy!SegmentNext

\* The manager, the workers and BigQuery implement SegmentCopy: behind every retry a segment is
\* copied in one step, exactly once, and the next one is chosen only after that.
THEOREM PipelineCopiesSegments == Spec /\ []RunsInTurn => CopiesSegments
  <1>1. TypeOK /\ AccountsInv /\ [Next]_vars => [Copy!SegmentNext]_(Copy!segmentVars)
    BY StepCopies
  <1> QED  BY <1>1, AccountsInvariant, InitCopies, PTL
           DEF Spec, CopiesSegments, Copy!SegmentSpec

-----------------------------------------------------------------------------
(* What SegmentCopy promises, of the tables of the pipeline.               *)

Delivery == INSTANCE SegmentCopyProofs WITH
    segment <- [b \in BA |-> [start |-> etm[b].start, end |-> etm[b].end]],
    table   <- local

LEMMA DeliveryStep ==
    [Copy!SegmentNext]_(Copy!segmentVars) => [Delivery!SegmentNext]_(Delivery!segmentVars)
  BY ZenonT(30)
     DEF Copy!SegmentNext, Copy!Arrive, Copy!Advance, Copy!CopySegments, Copy!InSegment,
         Copy!Record, Copy!segmentVars, Delivery!SegmentNext, Delivery!Arrive,
         Delivery!Advance, Delivery!CopySegments, Delivery!InSegment, Delivery!Record,
         Delivery!segmentVars

LEMMA DeliveryInit == Copy!SegmentInit => Delivery!SegmentInit
  BY DEF Copy!SegmentInit, Copy!Record, Delivery!SegmentInit, Delivery!Record

\* The local table has every row up to the segment of its account's document exactly once,
\* each row of the segment at most once and none after it: nothing is skipped, repeated or
\* loaded ahead of its turn by any sequence of retries, late deliveries and runs that die.
THEOREM RowsArriveInOrder == Spec /\ []RunsInTurn => []Copy!CopiedInOrder
  <1>1. Delivery!SegmentSpec => []Delivery!CopiedInOrder
    BY BoundsAssumption, Delivery!CopiesInOrder
  <1>2. Delivery!CopiedInOrder => Copy!CopiedInOrder
    BY DEF Copy!CopiedInOrder, Copy!InSegment, Copy!Record,
           Delivery!CopiedInOrder, Delivery!InSegment, Delivery!Record
  <1> QED  BY <1>1, <1>2, DeliveryInit, DeliveryStep, PipelineCopiesSegments, PTL
           DEF CopiesSegments, Copy!SegmentSpec, Delivery!SegmentSpec

\* The local table is at all times the customer's table up to one of the bounds of the
\* segment, so whoever reads it meets no half segment and no gap (LocalIsPrefix).
THEOREM LocalTableIsPrefix == Spec /\ []RunsInTurn => []LocalIsPrefix
  <1>1. Delivery!SegmentSpec => []Delivery!TableIsPrefix
    BY BoundsAssumption, Delivery!CopiesWholeSegments
  <1>2. Delivery!TableIsPrefix => Copy!TableIsPrefix
    BY DEF Copy!TableIsPrefix, Copy!Record, Delivery!TableIsPrefix, Delivery!Record
  <1> QED  BY <1>1, <1>2, DeliveryInit, DeliveryStep, PipelineCopiesSegments, PTL
           DEF CopiesSegments, Copy!SegmentSpec, Delivery!SegmentSpec, LocalIsPrefix

\* No row of the local table is changed or removed, and a row that is added is newer than all
\* that are there: the newest row only moves forward and nothing is ever inserted behind it,
\* which is what the internal pipeline relies on when it copies up to that row.
THEOREM LocalGrowsAtItsEnd == Spec /\ []RunsInTurn => Copy!TableGrowsAtItsEnd
  <1> DEFINE Grows == \A b \in BA : \A x \in Records : local'[b][x] # local[b][x] =>
                         local[b][x] = 0 /\ \A y \in Records : local[b][y] # 0 => y < x
  <1>1. Delivery!SegmentSpec => Delivery!TableGrowsAtItsEnd
    BY BoundsAssumption, Delivery!GrowsAtItsEnd
  <1>2. Delivery!SegmentSpec => [][Grows]_(Delivery!segmentVars)
    BY <1>1 DEF Delivery!TableGrowsAtItsEnd, Delivery!Record, Records
  <1>3. [Grows]_(Delivery!segmentVars) => [Grows]_(Copy!segmentVars)
    BY DEF Delivery!segmentVars, Copy!segmentVars
  <1>4. Spec /\ []RunsInTurn => [][Grows]_(Copy!segmentVars)
    BY <1>2, <1>3, DeliveryInit, DeliveryStep, PipelineCopiesSegments, PTL
       DEF CopiesSegments, Copy!SegmentSpec, Delivery!SegmentSpec
  <1> QED  BY <1>4 DEF Copy!TableGrowsAtItsEnd, Copy!Record, Records
=============================================================================
