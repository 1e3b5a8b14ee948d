------------------------- MODULE InternalRunsProofs -------------------------
(***************************************************************************)
(* The internal pipeline with any number of manager runs that follow each  *)
(* other: what InternalPipelineProofs shows of a single invocation that is *)
(* repeated holds of them, since a run that has ended leaves nothing of    *)
(* its own behind.  The run that is under way takes the place of the       *)
(* single one.                                                             *)
(***************************************************************************)
EXTENDS InternalPipelineProofs

\* Of all runs at most one is under way.
RunsInTurn == \A q, r \in Run : run[q].at # "idle" /\ run[r].at # "idle" => q = r

\* A run that has ended is as it was before it began.
EndedRuns == \A r \in Run : run[r].at = "idle" => run[r] = IdleRun

UnderWay == {r \in Run : run[r].at # "idle"}

\* The run that is under way.
Current == IF UnderWay = {} THEN IdleRun ELSE run[CHOOSE r \in UnderWay : TRUE]

Solos == [x \in {1} |-> Current]

Solo == INSTANCE InternalPipelineProofs WITH Run <- {1}, run <- Solos

-----------------------------------------------------------------------------
LEMMA RunParts ==
    ASSUME TypeOK, NEW r \in Run
    PROVE  run[r] \in RunRec /\ run[r].at \in Step
  BY DEF TypeOK, RunRec

LEMMA CurrentIs ==
    ASSUME RunsInTurn, EndedRuns, NEW r \in Run,
           run[r].at # "idle" \/ UnderWay = {}
    PROVE  Current = run[r]
  <1>1. CASE UnderWay = {}
    BY <1>1 DEF Current, UnderWay, EndedRuns
  <1>2. CASE run[r].at # "idle"
    <2>1. UnderWay = {r}
      BY <1>2 DEF UnderWay, RunsInTurn
    <2> QED  BY <2>1 DEF Current
  <1> QED  BY <1>1, <1>2

LEMMA CurrentWillBe ==
    ASSUME RunsInTurn', EndedRuns', NEW r \in Run,
           run'[r].at # "idle" \/ UnderWay' = {}
    PROVE  Current' = run'[r]
  <1>1. CASE UnderWay' = {}
    BY <1>1 DEF Current, UnderWay, EndedRuns
  <1>2. CASE run'[r].at # "idle"
    <2>1. UnderWay' = {r}
      BY <1>2 DEF UnderWay, RunsInTurn
    <2> QED  BY <2>1 DEF Current
  <1> QED  BY <1>1, <1>2

\* r is the run that is under way, before and after the step.
Taken(r) ==
    /\ TypeOK /\ Current = run[r] /\ Current' = run'[r]
    /\ Solos \in [{1} -> RunRec]

\* The current run is the one that takes the step.
LEMMA CurrentMoves ==
    ASSUME TypeOK, RunsInTurn, EndedRuns, RunsInTurn', EndedRuns', NEW r \in Run,
           \A q \in Run : q # r => run'[q] = run[q],
           run[r].at # "idle" \/ run'[r].at # "idle"
    PROVE  Taken(r)
  <1>0. run[r] \in RunRec
    BY DEF TypeOK
  <1>1. \A q \in Run : q # r => run[q].at = "idle" /\ run'[q].at = "idle"
    BY DEF RunsInTurn
  <1>2. run[r].at # "idle" \/ UnderWay = {}
    BY <1>1 DEF UnderWay
  <1>3. run'[r].at # "idle" \/ UnderWay' = {}
    BY <1>1 DEF UnderWay
  <1>4. Current = run[r]
    BY <1>2, CurrentIs
  <1>5. Current' = run'[r]
    BY <1>3, CurrentWillBe
  <1> QED  BY <1>0, <1>4, <1>5 DEF Taken, Solos

-----------------------------------------------------------------------------
(* What the steps of a run are made of, of the current one.                *)

LEMMA SoloGoes ==
    ASSUME NEW r \in Run, Taken(r), NEW step, Goes(r, step)
    PROVE  Solo!Goes(1, step)
  BY DEF Taken, Goes, Solo!Goes, Solos, TypeOK

LEMMA SoloEnds ==
    ASSUME NEW r \in Run, Taken(r), Ends(r)
    PROVE  Solo!Ends(1)
  BY DEF Taken, Ends, Solo!Ends, Solos, TypeOK, IdleRun, Solo!IdleRun, NoJobs, Solo!NoJobs

LEMMA SoloLists ==
    ASSUME NEW r \in Run, Taken(r), NEW from, NEW states, NEW to, Lists(r, from, states, to)
    PROVE  Solo!Lists(1, from, states, to)
  BY DEF Taken, Lists, Solo!Lists, Solos, TypeOK, workVars, Solo!workVars

LEMMA SoloVisits ==
    ASSUME NEW r \in Run, Taken(r), NEW step, NEW b, Visits(r, step, b)
    PROVE  Solo!Visits(1, step, b)
  BY DEF Taken, Visits, Solo!Visits, Solos, TypeOK

LEMMA SoloSets ==
    ASSUME NEW r \in Run, Taken(r), NEW step, NEW b, NEW state, Sets(r, step, b, state)
    PROVE  Solo!Sets(1, step, b, state)
  BY SoloVisits DEF Sets, Solo!Sets

LEMMA SoloSaves ==
    ASSUME NEW r \in Run, Taken(r), NEW from, NEW state, NEW to, Saves(r, from, state, to)
    PROVE  Solo!Saves(1, from, state, to)
  BY SoloGoes DEF Taken, Saves, Solo!Saves, Solos, workVars, Solo!workVars

LEMMA SoloDeletes ==
    ASSUME NEW r \in Run, Taken(r), NEW from, NEW to, DeletesTmpTable(r, from, to)
    PROVE  Solo!DeletesTmpTable(1, from, to)
  BY SoloGoes DEF Taken, DeletesTmpTable, Solo!DeletesTmpTable, Solos, workVars, Solo!workVars

-----------------------------------------------------------------------------
(* The steps of a run.                                                     *)

LEMMA SoloRecovers ==
    ASSUME NEW r \in Run, Taken(r), RecoveryAction(r)
    PROVE  Solo!RecoveryAction(1)
  <1> USE DEF workVars, Solo!workVars
  <1>r. Solos[1] = run[r] /\ run[r] \in RunRec
    BY DEF Taken, Solos, TypeOK
  <1>1. CASE ClaimRecovery(r)
    <2>1. Solo!ClaimRecovery(1)
      BY <1>1, <1>r DEF ClaimRecovery, Solo!ClaimRecovery, RecoveryStep, Solo!RecoveryStep,
                        Taken, Solos, TypeOK
    <2> QED  BY <2>1 DEF Solo!RecoveryAction
  <1>2. CASE RecoveryDeletes(r)
    BY <1>2, SoloDeletes DEF RecoveryDeletes, Solo!RecoveryDeletes, Solo!RecoveryAction
  <1>3. CASE RecoveryFails(r)
    BY <1>3, SoloSaves DEF RecoveryFails, Solo!RecoveryFails, Solo!RecoveryAction
  <1>4. CASE ListVerifiedToFail(r)
    BY <1>4, SoloLists DEF ListVerifiedToFail, Solo!ListVerifiedToFail, Solo!RecoveryAction
  <1>5. CASE TasksMarkedAsFailed(r)
    BY <1>5, <1>r, SoloGoes
       DEF TasksMarkedAsFailed, Solo!TasksMarkedAsFailed, Solo!RecoveryAction
  <1>6. CASE RecoveryDone(r)
    BY <1>6, SoloSaves DEF RecoveryDone, Solo!RecoveryDone, Solo!RecoveryAction
  <1>7. CASE RecoveryLists(r)
    BY <1>7, SoloLists DEF RecoveryLists, Solo!RecoveryLists, Solo!RecoveryAction
  <1>8. CASE RecoveryNotified(r)
    BY <1>8, SoloSaves DEF RecoveryNotified, Solo!RecoveryNotified, Solo!RecoveryAction
  <1>9. CASE ListNotifiedToSettle(r)
    <2>1. Solo!ListNotifiedToSettle(1)
      BY <1>9, <1>r DEF ListNotifiedToSettle, Solo!ListNotifiedToSettle, Taken, Solos, TypeOK
    <2> QED  BY <2>1 DEF Solo!RecoveryAction
  <1>10. CASE RecoverySettled(r)
    BY <1>10, SoloSaves DEF RecoverySettled, Solo!RecoverySettled, Solo!RecoveryAction
  <1>11. CASE RecoveryTimeIsUp(r)
    BY <1>11, <1>r, SoloEnds DEF RecoveryTimeIsUp, Solo!RecoveryTimeIsUp, Solo!RecoveryAction
  <1>12. CASE ListAllTasks(r)
    <2>1. Solo!ListAllTasks(1)
      BY <1>12, <1>r DEF ListAllTasks, Solo!ListAllTasks, Taken, Solos, TypeOK
    <2> QED  BY <2>1 DEF Solo!RecoveryAction
  <1>13. CASE TasksRecovered(r)
    BY <1>13, <1>r, SoloGoes DEF TasksRecovered, Solo!TasksRecovered, Solo!RecoveryAction
  <1> QED  BY <1>1, <1>2, <1>3, <1>4, <1>5, <1>6, <1>7, <1>8, <1>9, <1>10, <1>11, <1>12, <1>13
           DEF RecoveryAction

LEMMA SoloVerified ==
    ASSUME NEW r \in Run, Taken(r)
    PROVE  Solo!Verified(1) = Verified(r)
  BY DEF Taken, Solos, Verified, Solo!Verified

LEMMA SoloInserts ==
    ASSUME NEW r \in Run, Taken(r), NEW bas, InsertsCopyJob(r, bas)
    PROVE  Solo!InsertsCopyJob(1, bas)
  BY DEF Taken, Solos, InsertsCopyJob, Solo!InsertsCopyJob

LEMMA SoloIterates ==
    ASSUME NEW r \in Run, Taken(r), IterationAction(r)
    PROVE  Solo!IterationAction(1)
  <1> USE DEF workVars, Solo!workVars
  <1>r. Solos[1] = run[r] /\ run[r] \in RunRec
    BY DEF Taken, Solos, TypeOK
  <1>1. CASE Catch(r)
    <2>1. Solo!Catch(1)
      BY <1>1, <1>r DEF Catch, Solo!Catch, Taken, Solos, TypeOK
    <2> QED  BY <2>1 DEF Solo!IterationAction
  <1>2. CASE CreateTmpTable(r)
    BY <1>2, <1>r, SoloGoes DEF CreateTmpTable, Solo!CreateTmpTable, Solo!IterationAction
  <1>3. CASE ListActiveTasks(r)
    <2>1. Solo!ListActiveTasks(1)
      BY <1>3, <1>r DEF ListActiveTasks, Solo!ListActiveTasks, Taken, Solos, TypeOK
    <2> QED  BY <2>1 DEF Solo!IterationAction
  <1>4. CASE TasksUpdated(r)
    BY <1>4, SoloSaves DEF TasksUpdated, Solo!TasksUpdated, Solo!IterationAction
  <1>5. CASE ListPending(r)
    BY <1>5, SoloLists DEF ListPending, Solo!ListPending, Solo!IterationAction
  <1>6. CASE TasksCreated(r)
    BY <1>6, SoloSaves DEF TasksCreated, Solo!TasksCreated, Solo!IterationAction
  <1>7. CASE ListWaiting(r)
    <2>1. Solo!ListWaiting(1)
      BY <1>7, <1>r DEF ListWaiting, Solo!ListWaiting, NoJobs, Solo!NoJobs, Taken, Solos, TypeOK
    <2> QED  BY <2>1 DEF Solo!IterationAction
  <1>8. CASE TasksDone(r)
    BY <1>8, SoloSaves DEF TasksDone, Solo!TasksDone, Solo!IterationAction
  <1>9. CASE NothingToCopy(r)
    BY <1>9, SoloSaves, SoloVerified DEF NothingToCopy, Solo!NothingToCopy, Solo!IterationAction
  <1>10. CASE InsertCopyJob(r)
    <2>1. Solo!InsertsCopyJob(1, Solo!Verified(1)) /\ Solo!Verified(1) # {}
      BY <1>10, SoloVerified, SoloInserts DEF InsertCopyJob
    <2>2. Solo!InsertCopyJob(1)
      BY <1>10, <1>r, <2>1 DEF InsertCopyJob, Solo!InsertCopyJob, Taken, Solos, TypeOK
    <2> QED  BY <2>2 DEF Solo!IterationAction
  <1>11. CASE CopyJobDone(r)
    BY <1>11, <1>r, SoloGoes DEF CopyJobDone, Solo!CopyJobDone, Solo!IterationAction
  <1>12. CASE CopyJobFailed(r)
    BY <1>12, <1>r, SoloEnds DEF CopyJobFailed, Solo!CopyJobFailed, Solo!IterationAction
  <1>13. CASE ListVerified(r)
    BY <1>13, SoloLists DEF ListVerified, Solo!ListVerified, Solo!IterationAction
  <1>14. CASE Notified(r)
    BY <1>14, SoloSaves DEF Notified, Solo!Notified, Solo!IterationAction
  <1>15. CASE LifeCycleHandled(r)
    BY <1>15, SoloSaves DEF LifeCycleHandled, Solo!LifeCycleHandled, Solo!IterationAction
  <1>16. CASE TearDown(r)
    BY <1>16, SoloDeletes DEF TearDown, Solo!TearDown, Solo!IterationAction
  <1>17. CASE ListNotified(r)
    BY <1>17, SoloLists DEF ListNotified, Solo!ListNotified, Solo!IterationAction
  <1>18. CASE RunDone(r)
    BY <1>18, <1>r, SoloEnds DEF RunDone, Solo!RunDone, Solo!IterationAction
  <1> QED  BY <1>1, <1>2, <1>3, <1>4, <1>5, <1>6, <1>7, <1>8, <1>9, <1>10, <1>11, <1>12, <1>13,
              <1>14, <1>15, <1>16, <1>17, <1>18 DEF IterationAction

LEMMA SoloTakes ==
    ASSUME NEW r \in Run, Taken(r), NEW b \in BA, TaskAction(r, b)
    PROVE  Solo!TaskAction(1, b)
  <1> USE DEF workVars, Solo!workVars
  <1>r. Solos[1] = run[r] /\ run[r] \in RunRec
    BY DEF Taken, Solos, TypeOK
  <1>1. CASE MarkTaskAsFailed(r, b)
    BY <1>1, SoloSets DEF MarkTaskAsFailed, Solo!MarkTaskAsFailed, Solo!TaskAction
  <1>2. CASE SingleRecovery(r, b)
    BY <1>2, <1>r, SoloSets DEF SingleRecovery, Solo!SingleRecovery, Solo!TaskAction
  <1>3. CASE UpdateTaskMetadata(r, b)
    <2>1. \A t, i, latest : Solo!UpdatedTask(t, i, latest) = UpdatedTask(t, i, latest)
      BY DEF UpdatedTask, Solo!UpdatedTask, NextSegment, Solo!NextSegment
    <2>2. Solo!UpdateTaskMetadata(1, b)
      BY <1>3, <1>r, <2>1, SoloVisits DEF UpdateTaskMetadata, Solo!UpdateTaskMetadata
    <2> QED  BY <2>2 DEF Solo!TaskAction
  <1>4. CASE CreateCloudTask(r, b)
    BY <1>4, <1>r, SoloVisits DEF CreateCloudTask, Solo!CreateCloudTask, Solo!TaskAction
  <1>5. CASE JobStarts(r, b)
    <2>1. Solo!JobStarts(1, b)
      BY <1>5, <1>r DEF JobStarts, Solo!JobStarts, Taken, Solos, TypeOK
    <2> QED  BY <2>1 DEF Solo!TaskAction
  <1>6. CASE JobDoesNotStart(r, b)
    BY <1>6, <1>r, SoloSets DEF JobDoesNotStart, Solo!JobDoesNotStart, Solo!TaskAction
  <1>7. CASE JobHandled(r, b)
    BY <1>7, <1>r, SoloSets
       DEF JobHandled, Solo!JobHandled, Terminal, Solo!Terminal, Solo!TaskAction
  <1>8. CASE NotifyTask(r, b)
    BY <1>8, SoloSets DEF NotifyTask, Solo!NotifyTask, Solo!TaskAction
  <1>9. CASE SettleTask(r, b)
    BY <1>9, SoloSets DEF SettleTask, Solo!SettleTask, Solo!TaskAction
  <1> QED  BY <1>1, <1>2, <1>3, <1>4, <1>5, <1>6, <1>7, <1>8, <1>9 DEF TaskAction

LEMMA SoloWorks ==
    ASSUME NEW r \in Run, Taken(r), Works(r)
    PROVE  Solo!Works(1)
  <1> USE DEF workVars, Solo!workVars
  <1>r. Solos[1] = run[r] /\ run[r] \in RunRec
    BY DEF Taken, Solos, TypeOK
  <1>1. CASE GeneralRecovery(r)
    BY <1>1, <1>r, SoloGoes DEF GeneralRecovery, Solo!GeneralRecovery, Solo!Works
  <1>2. CASE CatchFails(r)
    BY <1>2, <1>r, SoloEnds DEF CatchFails, Solo!CatchFails, Solo!Works
  <1> QED  BY <1>1, <1>2, SoloRecovers, SoloIterates, SoloTakes DEF Works, Solo!Works

LEMMA SoloFalters ==
    ASSUME NEW r \in Run, Taken(r), Falters(r)
    PROVE  Solo!Falters(1)
  <1> USE DEF workVars, Solo!workVars
  <1>r. Solos[1] = run[r] /\ run[r] \in RunRec
    BY DEF Taken, Solos, TypeOK
  <1>1. CASE RunFails(r)
    BY <1>1, <1>r, SoloEnds DEF RunFails, Solo!RunFails, Failing, Solo!Failing, Solo!Falters
  <1>2. CASE InsertCopyJobFails(r)
    <2>1. Solo!InsertCopyJobFails(1)
      BY <1>2, <1>r, SoloEnds, SoloVerified, SoloInserts
         DEF InsertCopyJobFails, Solo!InsertCopyJobFails
    <2> QED  BY <2>1 DEF Solo!Falters
  <1>3. ASSUME NEW b \in BA, CreateCloudTaskFails(r, b)  PROVE Solo!Falters(1)
    BY <1>3, SoloSets DEF CreateCloudTaskFails, Solo!CreateCloudTaskFails, Solo!Falters
  <1>4. ASSUME NEW b \in BA, WaitFails(r, b)  PROVE Solo!Falters(1)
    BY <1>4, <1>r, SoloSets DEF WaitFails, Solo!WaitFails, Solo!Falters
  <1>5. ASSUME NEW b \in BA, VisitFails(r, b)  PROVE Solo!Falters(1)
    BY <1>5, SoloVisits DEF VisitFails, Solo!VisitFails, Solo!Falters
  <1> QED  BY <1>1, <1>2, <1>3, <1>4, <1>5 DEF Falters

-----------------------------------------------------------------------------
(* A step of a run leaves the other runs alone, and a run that ends is     *)
(* as before it began.                                                     *)

\* A step of r: r is under way before it or after it.
StepOf(r) ==
    /\ \A q \in Run : q # r => run'[q] = run[q]
    /\ run[r].at # "idle" \/ run'[r].at # "idle"
    /\ run'[r].at = "idle" => run'[r] = IdleRun

LEMMA GoesIsStep ==
    ASSUME TypeOK, NEW r \in Run, NEW to, to # "idle", Goes(r, to)
    PROVE  StepOf(r)
  BY GoesParts DEF StepOf, Goes, TypeOK

LEMMA EndsIsStep ==
    ASSUME TypeOK, NEW r \in Run, run[r].at # "idle", Ends(r)
    PROVE  StepOf(r)
  BY DEF StepOf, Ends, TypeOK

LEMMA ListsIsStep ==
    ASSUME TypeOK, NEW r \in Run, NEW from, NEW states, NEW to, to # "idle",
           Lists(r, from, states, to)
    PROVE  StepOf(r)
  <1>1. run'[r].at = to
    BY ListsParts
  <1> QED  BY <1>1 DEF StepOf, Lists, TypeOK

LEMMA VisitsIsStep ==
    ASSUME TypeOK, NEW r \in Run, NEW step, NEW b, step # "idle", Visits(r, step, b)
    PROVE  StepOf(r)
  BY DEF StepOf, Visits, TypeOK, RunRec

LEMMA SetsIsStep ==
    ASSUME TypeOK, NEW r \in Run, NEW step, NEW b, NEW state, step # "idle",
           Sets(r, step, b, state)
    PROVE  StepOf(r)
  BY VisitsIsStep DEF Sets

LEMMA SavesIsStep ==
    ASSUME TypeOK, NEW r \in Run, NEW from, NEW state, NEW to, to # "idle",
           Saves(r, from, state, to)
    PROVE  StepOf(r)
  BY GoesIsStep DEF Saves

LEMMA DeletesIsStep ==
    ASSUME TypeOK, NEW r \in Run, NEW from, NEW to, to # "idle", DeletesTmpTable(r, from, to)
    PROVE  StepOf(r)
  BY GoesIsStep DEF DeletesTmpTable

LEMMA RecoveryIsStep ==
    ASSUME TypeOK, NEW r \in Run, RecoveryAction(r)
    PROVE  StepOf(r)
  <1>1. CASE ClaimRecovery(r)
    BY <1>1 DEF StepOf, ClaimRecovery, RecoveryStep, TypeOK, RunRec
  <1>2. CASE ListNotifiedToSettle(r)
    BY <1>2 DEF StepOf, ListNotifiedToSettle, TypeOK, RunRec
  <1>3. CASE ListAllTasks(r)
    BY ZenonT(40), <1>3 DEF StepOf, ListAllTasks, TypeOK, RunRec
  <1>4. CASE \/ RecoveryDeletes(r) \/ RecoveryFails(r) \/ ListVerifiedToFail(r)
             \/ RecoveryDone(r) \/ RecoveryLists(r) \/ RecoveryNotified(r) \/ RecoverySettled(r)
    BY <1>4, DeletesIsStep, SavesIsStep, ListsIsStep
       DEF RecoveryDeletes, RecoveryFails, ListVerifiedToFail, RecoveryDone, RecoveryLists,
           RecoveryNotified, RecoverySettled
  <1>5. CASE TasksMarkedAsFailed(r) \/ RecoveryTimeIsUp(r) \/ TasksRecovered(r)
    BY <1>5, GoesIsStep, EndsIsStep DEF TasksMarkedAsFailed, RecoveryTimeIsUp, TasksRecovered
  <1> QED  BY <1>1, <1>2, <1>3, <1>4, <1>5 DEF RecoveryAction

LEMMA IterationIsStep ==
    ASSUME TypeOK, NEW r \in Run, IterationAction(r)
    PROVE  StepOf(r)
  <1>1. CASE Catch(r) \/ ListActiveTasks(r) \/ ListWaiting(r) \/ InsertCopyJob(r)
    BY <1>1 DEF StepOf, Catch, ListActiveTasks, ListWaiting, InsertCopyJob, TypeOK, RunRec
  <1>2. CASE \/ TasksUpdated(r) \/ ListPending(r) \/ TasksCreated(r) \/ TasksDone(r)
             \/ NothingToCopy(r) \/ ListVerified(r) \/ Notified(r) \/ LifeCycleHandled(r)
             \/ TearDown(r) \/ ListNotified(r)
    BY <1>2, DeletesIsStep, SavesIsStep, ListsIsStep
       DEF TasksUpdated, ListPending, TasksCreated, TasksDone, NothingToCopy, ListVerified,
           Notified, LifeCycleHandled, TearDown, ListNotified
  <1>3. CASE CreateTmpTable(r) \/ CopyJobDone(r) \/ CopyJobFailed(r) \/ RunDone(r)
    BY <1>3, GoesIsStep, EndsIsStep DEF CreateTmpTable, CopyJobDone, CopyJobFailed, RunDone
  <1> QED  BY <1>1, <1>2, <1>3 DEF IterationAction

LEMMA TaskIsStep ==
    ASSUME TypeOK, NEW r \in Run, NEW b \in BA, TaskAction(r, b)
    PROVE  StepOf(r)
  <1>1. CASE JobStarts(r, b)
    BY <1>1 DEF StepOf, JobStarts, TypeOK, RunRec
  <1>2. CASE UpdateTaskMetadata(r, b) \/ CreateCloudTask(r, b)
    BY <1>2, VisitsIsStep DEF UpdateTaskMetadata, CreateCloudTask
  <1>3. CASE \/ MarkTaskAsFailed(r, b) \/ SingleRecovery(r, b) \/ JobDoesNotStart(r, b)
             \/ JobHandled(r, b) \/ NotifyTask(r, b) \/ SettleTask(r, b)
    BY <1>3, SetsIsStep
       DEF MarkTaskAsFailed, SingleRecovery, JobDoesNotStart, JobHandled, NotifyTask, SettleTask
  <1> QED  BY <1>1, <1>2, <1>3 DEF TaskAction

LEMMA RunIsStep ==
    ASSUME TypeOK, NEW r \in Run, Works(r) \/ Falters(r)
    PROVE  StepOf(r)
  <1>1. CASE GeneralRecovery(r)
    BY <1>1, GoesIsStep DEF GeneralRecovery
  <1>2. CASE CatchFails(r) \/ RunFails(r) \/ InsertCopyJobFails(r)
    BY <1>2, EndsIsStep DEF CatchFails, RunFails, InsertCopyJobFails
  <1>3. ASSUME NEW b \in BA, CreateCloudTaskFails(r, b) \/ WaitFails(r, b) \/ VisitFails(r, b)
        PROVE  StepOf(r)
    BY <1>3, SetsIsStep, VisitsIsStep DEF CreateCloudTaskFails, WaitFails, VisitFails
  <1> QED  BY <1>1, <1>2, <1>3, RecoveryIsStep, IterationIsStep, TaskIsStep DEF Works, Falters

-----------------------------------------------------------------------------
(* The steps of the deliveries and of the environment.                     *)

LEMMA SoloStays ==
    ASSUME UNCHANGED run
    PROVE  UNCHANGED Solos
  BY DEF Solos, Current, UnderWay

LEMMA SoloDelivers ==
    ASSUME NEW w \in Worker, WorkerAction(w)
    PROVE  Solo!WorkerAction(w) /\ UNCHANGED run
  <1>u. UNCHANGED run
    BY DEF WorkerAction, SetRunning, CopyFromLocalToTmpTable, CopyFromLocalToTmpTableFails,
           RecordJob, WorkerEnds
  <1>s. UNCHANGED Solos
    BY <1>u, SoloStays
  <1>i. Solo!IdleWorker = IdleWorker
    BY DEF IdleWorker, Solo!IdleWorker
  <1>1. ASSUME NEW t \in tasks, SetRunning(w, t)  PROVE Solo!WorkerAction(w)
    BY <1>1, <1>s DEF SetRunning, Solo!SetRunning, Solo!WorkerAction
  <1>2. CASE CopyFromLocalToTmpTable(w)
    BY <1>2, <1>s DEF CopyFromLocalToTmpTable, Solo!CopyFromLocalToTmpTable, Solo!WorkerAction
  <1>3. CASE CopyFromLocalToTmpTableFails(w)
    BY <1>3, <1>s, <1>i
       DEF CopyFromLocalToTmpTableFails, Solo!CopyFromLocalToTmpTableFails, Solo!WorkerAction
  <1>4. CASE RecordJob(w)
    BY <1>4, <1>s, <1>i DEF RecordJob, Solo!RecordJob, Solo!WorkerAction
  <1>5. CASE WorkerEnds(w)
    BY <1>5, <1>s, <1>i DEF WorkerEnds, Solo!WorkerEnds, Solo!WorkerAction
  <1> QED  BY <1>u, <1>1, <1>2, <1>3, <1>4, <1>5 DEF WorkerAction

\* The instance has a Cardinality of its own.
LEMMA SameTmpCopies == \A i, b, x : Solo!TmpCopies(i, b, x) = TmpCopies(i, b, x)
  <1>1. \A S : Solo!Cardinality(S) = Cardinality(S)
    BY DEF Cardinality, Solo!Cardinality
  <1> QED  BY <1>1 DEF TmpCopies, Solo!TmpCopies

LEMMA SoloHappens ==
    ASSUME Environment
    PROVE  Solo!Environment /\ UNCHANGED run
  <1> USE DEF workVars, Solo!workVars
  <1>u. UNCHANGED run
    BY DEF Environment, TTLExpires, RecoveringTTLExpires, RecordsArrive, MarkOnboardingDone,
           DeadlinePasses, JobFinishes
  <1>s. UNCHANGED Solos
    BY <1>u, SoloStays
  <1>1. CASE TTLExpires \/ RecoveringTTLExpires
    BY <1>1, <1>s DEF TTLExpires, Solo!TTLExpires, RecoveringTTLExpires,
                      Solo!RecoveringTTLExpires, Solo!Environment
  <1>2. ASSUME NEW b \in BA, RecordsArrive(b) \/ MarkOnboardingDone(b)  PROVE Solo!Environment
    BY <1>2, <1>s DEF RecordsArrive, Solo!RecordsArrive, MarkOnboardingDone,
                      Solo!MarkOnboardingDone, Solo!Environment
  <1>3. ASSUME NEW b \in BA, DeadlinePasses(b)  PROVE Solo!Environment
    BY <1>3, <1>s DEF DeadlinePasses, Solo!DeadlinePasses, Solo!Environment
  <1>4. ASSUME NEW n \in DOMAIN jobs, JobFinishes(n)  PROVE Solo!Environment
    <2>1. \A i, b, x : Solo!TmpCopies(i, b, x) = TmpCopies(i, b, x)
      BY SameTmpCopies
    <2>2. Solo!JobFinishes(n)
      BY <1>4, <1>s, <2>1 DEF JobFinishes, Solo!JobFinishes, Records, Solo!Records
    <2> QED  BY <2>2 DEF Solo!Environment
  <1> QED  BY <1>u, <1>1, <1>2, <1>3, <1>4 DEF Environment

-----------------------------------------------------------------------------
(* The run that is under way is one of a single invocation.                *)

LEMMA EndedStep ==
    ASSUME TypeOK, EndedRuns, [Next]_vars
    PROVE  EndedRuns'
  <1>1. CASE UNCHANGED run
    BY <1>1 DEF EndedRuns
  <1>2. ASSUME NEW r \in Run, Works(r) \/ Falters(r)  PROVE EndedRuns'
    BY <1>2, RunIsStep DEF StepOf, EndedRuns
  <1> QED  BY <1>1, <1>2, SoloDelivers, SoloHappens DEF Next, vars

LEMMA EndedInvariant == Spec => []EndedRuns
  <1>1. Init => EndedRuns
    BY DEF Init, EndedRuns
  <1>2. TypeOK /\ EndedRuns /\ [Next]_vars => EndedRuns'
    BY EndedStep
  <1> QED  BY <1>1, <1>2, TypeCorrect, PTL DEF Spec

LEMMA SoloInit == Init => Solo!Init
  <1> SUFFICES ASSUME Init PROVE Solo!Init
    OBVIOUS
  <1>1. Current = IdleRun
    BY DEF Init, Current, UnderWay, IdleRun
  <1> QED
    BY <1>1 DEF Init, Solo!Init, Solos, IdleRun, Solo!IdleRun, NoJobs, Solo!NoJobs, IdleWorker,
                Solo!IdleWorker, Records, Solo!Records

LEMMA SoloStep ==
    ASSUME TypeOK, RunsInTurn, EndedRuns, RunsInTurn', [Next]_vars
    PROVE  [Solo!Next]_(Solo!vars)
  <1>1. CASE UNCHANGED vars
    BY <1>1, SoloStays DEF vars, Solo!vars
  <1>2. ASSUME NEW r \in Run, Works(r) \/ Falters(r)  PROVE Solo!Next
    <2>1. StepOf(r) /\ EndedRuns'
      BY <1>2, RunIsStep, EndedStep
    <2>2. Taken(r)
      BY <2>1, CurrentMoves DEF StepOf
    <2>3. Solo!Works(1) \/ Solo!Falters(1)
      BY <1>2, <2>2, SoloWorks, SoloFalters
    <2> QED  BY <2>3 DEF Solo!Next
  <1>3. ASSUME NEW w \in Worker, WorkerAction(w)  PROVE Solo!Next
    BY <1>3, SoloDelivers DEF Solo!Next
  <1>4. CASE Environment
    BY <1>4, SoloHappens DEF Solo!Next
  <1> QED  BY <1>1, <1>2, <1>3, <1>4 DEF Next

\* A run that is under way takes up nothing of the runs before it but what is in the documents
\* and the tables: runs that follow each other are a single one, invoked again and again.
THEOREM RunsInTurnAreOne == Spec /\ []RunsInTurn => Solo!Spec
  <1>1. TypeOK /\ RunsInTurn /\ EndedRuns /\ RunsInTurn' /\ [Next]_vars
           => [Solo!Next]_(Solo!vars)
    BY SoloStep
  <1> QED  BY <1>1, SoloInit, EndedInvariant, TypeCorrect, PTL DEF Spec, Solo!Spec

-----------------------------------------------------------------------------
(* What is so of runs that take turns.                                     *)

\* What the instance assumes.
LEMMA SoloAssumptions ==
    /\ BA # {}
    /\ Mishap \subseteq Solo!Mishaps
    /\ MaxRecord \in Nat /\ MaxIteration \in Nat /\ Interval \in Nat \ {0}
    /\ Solo!SingleRun
  BY AccountsAssumption, MishapAssumption, InternalBoundsAssumption
     DEF Mishaps, Solo!Mishaps, Solo!SingleRun

LEMMA SoloVerifiedMeans == Solo!VerifiedMeansCopied => VerifiedMeansCopied
  BY SameTmpCopies DEF VerifiedMeansCopied, Solo!VerifiedMeansCopied, Records, Solo!Records

\* Manager runs that do not overlap, and whose recovery of an iteration that is given up gets
\* to its end or to its time: however many deliveries of cloud tasks are alive, whatever job
\* is late, abandoned or stuck, and whatever a run leaves behind, the rows of a verified task
\* are in the temporary table of its iteration exactly once, and those of a task that counts
\* as copied are in the unified table (VerifiedMeansCopied).
THEOREM VerifiedAreCopied ==
    ASSUME "recovery_abandoned" \notin Mishap
    PROVE  Spec /\ []RunsInTurn => []VerifiedMeansCopied
  <1>1. Solo!Spec => []Solo!VerifiedMeansCopied
    BY SoloAssumptions, Solo!SingleRunCopies
  <1> QED  BY <1>1, SoloVerifiedMeans, RunsInTurnAreOne, PTL

\* While no run is under way no job is awaited, and the instance says that none is running.
LEMMA SoloAwaited == RunsInTurn /\ Solo!CopyJobAwaited => CopyJobAwaited
  <1> SUFFICES ASSUME RunsInTurn, Solo!CopyJobAwaited, NEW n \in DOMAIN jobs,
                      jobs[n].kind = "to_unified", jobs[n].status = "running"
               PROVE  /\ \E r \in Run : run[r].at = "copying" /\ run[r].copy = n
                      /\ \A b \in jobs[n].bas : /\ itm[b].state = "verified"
                                                /\ itm[b].iteration = jobs[n].iteration
                      /\ jobs[n].iteration \in tmp
    BY DEF CopyJobAwaited
  <1>1. Current.at = "copying" /\ Current.copy = n
    BY DEF Solo!CopyJobAwaited, Solos
  <1>2. \E r \in Run : Current = run[r]
    BY <1>1 DEF Current, UnderWay, IdleRun
  <1> QED  BY <1>1, <1>2 DEF Solo!CopyJobAwaited

\* Manager runs that do not overlap and do not end, or give up, while the job that appends to
\* the unified table runs, and deliveries that do not outlive their iteration: while that job
\* runs a run waits for it, the tasks that it copies stay verified in its iteration, and the
\* temporary table that it reads is kept (CopyJobAwaited).
THEOREM CopyIsAwaited ==
    ASSUME Awaiting
    PROVE  Spec /\ []RunsInTurn => []CopyJobAwaited
  <1>1. Solo!Spec => []Solo!CopyJobAwaited
    BY SoloAssumptions, Solo!SingleRunAwaits DEF Awaiting, Solo!Awaiting
  <1> QED  BY <1>1, SoloAwaited, RunsInTurnAreOne, PTL

\* When nothing happens that Mishaps lists and runs do not overlap, whatever calls fail,
\* however often a cloud task is delivered and whatever a recovery retries, no row of a local
\* table is in the unified table more than once (NoRowTwice).
THEOREM RowsAreCopiedOnce ==
    ASSUME Mishap = {}
    PROVE  Spec /\ []RunsInTurn => []NoRowTwice
  <1>1. Solo!Spec => []Solo!NoRowTwice
    BY SoloAssumptions, Solo!SingleRunCopiesOnce
  <1>2. Solo!NoRowTwice => NoRowTwice
    BY DEF NoRowTwice, Solo!NoRowTwice, Records, Solo!Records
  <1> QED  BY <1>1, <1>2, RunsInTurnAreOne, PTL

LEMMA SameCopyInit == Solo!Copy!SegmentInit => Copy!SegmentInit
  BY DEF Copy!SegmentInit, Copy!Record, Solo!Copy!SegmentInit, Solo!Copy!Record

LEMMA SameCopyStep ==
    [Solo!Copy!SegmentNext]_(Solo!Copy!segmentVars) => [Copy!SegmentNext]_(Copy!segmentVars)
  BY ZenonT(30)
     DEF Copy!SegmentNext, Copy!Arrive, Copy!Advance, Copy!CopySegments, Copy!InSegment,
         Copy!Record, Copy!segmentVars, Solo!Copy!SegmentNext, Solo!Copy!Arrive,
         Solo!Copy!Advance, Solo!Copy!CopySegments, Solo!Copy!InSegment, Solo!Copy!Record,
         Solo!Copy!segmentVars

\* Under the same hypotheses the manager, with its runs, recoveries, retries, workers, jobs and
\* temporary tables, is a copier of segments (CopiesSegments).
THEOREM ManagerCopiesSegments ==
    ASSUME Mishap = {}
    PROVE  Spec /\ []RunsInTurn => CopiesSegments
  <1>1. Solo!Spec => Solo!CopiesSegments
    BY SoloAssumptions, Solo!SingleRunCopiesSegments
  <1> QED  BY <1>1, SameCopyInit, SameCopyStep, RunsInTurnAreOne, PTL
           DEF CopiesSegments, Copy!SegmentSpec, Solo!CopiesSegments, Solo!Copy!SegmentSpec

-----------------------------------------------------------------------------
(* What SegmentCopy promises, of the tables of the pipeline.               *)

Delivery == INSTANCE SegmentCopyProofs WITH
    segment <- [b \in BA |-> [start |-> itm[b].start, end |-> itm[b].end]],
    table   <- unified

LEMMA DeliveryStep ==
    [Copy!SegmentNext]_(Copy!segmentVars) => [Delivery!SegmentNext]_(Delivery!segmentVars)
  BY ZenonT(30)
     DEF Copy!SegmentNext, Copy!Arrive, Copy!Advance, Copy!CopySegments, Copy!InSegment,
         Copy!Record, Copy!segmentVars, Delivery!SegmentNext, Delivery!Arrive,
         Delivery!Advance, Delivery!CopySegments, Delivery!InSegment, Delivery!Record,
         Delivery!segmentVars

LEMMA DeliveryInit == Copy!SegmentInit => Delivery!SegmentInit
  BY DEF Copy!SegmentInit, Copy!Record, Delivery!SegmentInit, Delivery!Record

\* The unified table has every row up to the segment of its account's document exactly once,
\* each row of the segment at most once and none after it: no recovery and no change of
\* iteration skips rows of the local table, repeats them or copies them ahead of their turn.
THEOREM RowsArriveInOrder ==
    ASSUME Mishap = {}
    PROVE  Spec /\ []RunsInTurn => []Copy!CopiedInOrder
  <1>1. Delivery!SegmentSpec => []Delivery!CopiedInOrder
    BY InternalBoundsAssumption, Delivery!CopiesInOrder
  <1>2. Delivery!CopiedInOrder => Copy!CopiedInOrder
    BY DEF Copy!CopiedInOrder, Copy!InSegment, Copy!Record,
           Delivery!CopiedInOrder, Delivery!InSegment, Delivery!Record
  <1> QED  BY <1>1, <1>2, DeliveryInit, DeliveryStep, ManagerCopiesSegments, PTL
           DEF CopiesSegments, Copy!SegmentSpec, Delivery!SegmentSpec

\* The unified table has at all times the rows of an account up to one of the bounds of its
\* segment: the readers of the table meet no half segment and no gap.
THEOREM UnifiedTableIsPrefix ==
    ASSUME Mishap = {}
    PROVE  Spec /\ []RunsInTurn => []Copy!TableIsPrefix
  <1>1. Delivery!SegmentSpec => []Delivery!TableIsPrefix
    BY InternalBoundsAssumption, Delivery!CopiesWholeSegments
  <1>2. Delivery!TableIsPrefix => Copy!TableIsPrefix
    BY DEF Copy!TableIsPrefix, Copy!Record, Delivery!TableIsPrefix, Delivery!Record
  <1> QED  BY <1>1, <1>2, DeliveryInit, DeliveryStep, ManagerCopiesSegments, PTL
           DEF CopiesSegments, Copy!SegmentSpec, Delivery!SegmentSpec

\* The unified table only grows, and for every account only at its end.
THEOREM UnifiedGrowsAtItsEnd ==
    ASSUME Mishap = {}
    PROVE  Spec /\ []RunsInTurn => Copy!TableGrowsAtItsEnd
  <1> DEFINE Grows == \A b \in BA : \A x \in Records : unified'[b][x] # unified[b][x] =>
                         unified[b][x] = 0 /\ \A y \in Records : unified[b][y] # 0 => y < x
  <1>1. Delivery!SegmentSpec => Delivery!TableGrowsAtItsEnd
    BY InternalBoundsAssumption, Delivery!GrowsAtItsEnd
  <1>2. Delivery!SegmentSpec => [][Grows]_(Delivery!segmentVars)
    BY <1>1 DEF Delivery!TableGrowsAtItsEnd, Delivery!Record, Records
  <1>3. [Grows]_(Delivery!segmentVars) => [Grows]_(Copy!segmentVars)
    BY DEF Delivery!segmentVars, Copy!segmentVars
  <1>4. Spec /\ []RunsInTurn => [][Grows]_(Copy!segmentVars)
    BY <1>2, <1>3, DeliveryInit, DeliveryStep, ManagerCopiesSegments, PTL
       DEF CopiesSegments, Copy!SegmentSpec, Delivery!SegmentSpec
  <1> QED  BY <1>4 DEF Copy!TableGrowsAtItsEnd, Copy!Record, Records
=============================================================================
