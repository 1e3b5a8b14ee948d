--------------------------- MODULE LifecycleProofs ---------------------------
(***************************************************************************)
(* What is proved of Lifecycle, for any number of calls, runs and jobs.    *)
(***************************************************************************)
EXTENDS Lifecycle, SequenceTheorems, TLAPS

-----------------------------------------------------------------------------
(* Types.  TypeOK is inductive.                                            *)

\* The parts of the runs of managers, and what may replace them.
LEMMA Fields ==
    ASSUME TypeOK
    PROVE  /\ etm \in ExternalDoc \cup {NoDoc} /\ itm \in InternalDoc \cup {NoDoc}
           /\ \A c \in Caller : call[c] \in CallStep
           /\ \A e \in External : /\ ext[e] \in ExtRun
                                  /\ ext[e].at \in ExtStep
                                  /\ ext[e].snap \in ExternalDoc \cup {NoDoc}
           /\ \A i \in Internal : /\ int[i] \in IntRun
                                  /\ int[i].at \in IntStep
                                  /\ int[i].snap \in InternalDoc \cup {NoDoc}
                                  /\ int[i].inserted \in Job \cup {NoJob}
  BY DEF TypeOK, ExtRun, IntRun

\* A document of a stage other than "none" has the type of one.
LEMMA DocTypes ==
    ASSUME TypeOK
    PROVE  /\ Exists(etm) \/ Deprecated(etm) \/ Live(etm) => etm \in ExternalDoc
           /\ Exists(itm) \/ Deprecated(itm) \/ Live(itm) => itm \in InternalDoc
           /\ etm.stage \in Stage => etm \in ExternalDoc
           /\ itm.stage \in Stage => itm \in InternalDoc
           /\ ~Exists(NoDoc) /\ ~Deprecated(NoDoc) /\ ~Live(NoDoc)
           /\ \A d \in ExternalDoc \cup InternalDoc :
                 Exists(d) /\ d.stage \in Stage /\ (Deprecated(d) <=> ~Live(d))
  BY DEF TypeOK, Exists, Deprecated, Live, NoDoc, ExternalDoc, InternalDoc, Stage

\* An account that is created has documents of their types.
LEMMA NewDocs == NewExternalDoc \in ExternalDoc /\ NewInternalDoc \in InternalDoc
  BY DEF NewExternalDoc, NewInternalDoc, ExternalDoc, InternalDoc, Stage

LEMMA IdleRuns == IdleExternal \in ExtRun /\ IdleInternal \in IntRun
  BY DEF IdleExternal, IdleInternal, ExtRun, IntRun, ExtStep, IntStep

\* The step of a call.
LEMMA GoesTyped ==
    ASSUME TypeOK, NEW c \in Caller, NEW from, NEW to \in CallStep, Goes(c, from, to)
    PROVE  /\ call' \in [Caller -> CallStep]
           /\ call[c] = from /\ call'[c] = to
           /\ \A d \in Caller : d # c => call'[d] = call[d]
  BY DEF TypeOK, Goes

LEMMA FirstUndoneTyped == \A s : FirstUndone(s) \in CallStep
  BY DEF FirstUndone, CallStep, Running, Undoing

\* The step of an external run.
LEMMA ExtGoesTyped ==
    ASSUME TypeOK, NEW e \in External, NEW from, NEW to \in ExtStep, ExtGoes(e, from, to)
    PROVE  ext' \in [External -> ExtRun]
  BY DEF TypeOK, ExtGoes, ExtRun

LEMMA ExtEndsTyped ==
    ASSUME TypeOK, NEW e \in External, ext' = [ext EXCEPT ![e] = IdleExternal]
    PROVE  ext' \in [External -> ExtRun]
  BY IdleRuns DEF TypeOK

\* The step of an internal run.
LEMMA IntGoesTyped ==
    ASSUME TypeOK, NEW i \in Internal, NEW from, NEW to \in IntStep, IntGoes(i, from, to)
    PROVE  int' \in [Internal -> IntRun]
  BY ZenonT(60) DEF TypeOK, IntGoes, IntRun

LEMMA IntEndsTyped ==
    ASSUME TypeOK, NEW i \in Internal, int' = [int EXCEPT ![i] = IdleInternal]
    PROVE  int' \in [Internal -> IntRun]
  BY IdleRuns DEF TypeOK

\* A finished job leaves the queue.
LEMMA QueueTyped ==
    ASSUME TypeOK, NEW k \in DOMAIN queue
    PROVE  RemoveAt(queue, k) \in Seq(Job)
  <1>1. queue \in Seq(Job) /\ Len(queue) \in Nat /\ k \in 1..Len(queue)
    BY DEF TypeOK
  <1>2. \A n \in 1..Len(queue) : queue[n] \in Job
    BY <1>1
  <1>3. SubSeq(queue, 1, k - 1) \in Seq(Job)
    BY <1>1, <1>2, SubSeqProperties
  <1>4. SubSeq(queue, k + 1, Len(queue)) \in Seq(Job)
    BY <1>1, <1>2, SubSeqProperties
  <1> QED  BY <1>3, <1>4, ConcatProperties DEF RemoveAt

\* A step of a call of Onboard keeps the types.
LEMMA CallTyped ==
    ASSUME TypeOK, NEW c \in Caller, Activate(c) \/ Onboard(c) \/ OnboardFails(c)
    PROVE  TypeOK'
  <1> USE DEF tables, jobs, managers
  <1>g. \A from : \A to \in CallStep : Goes(c, from, to) => call' \in [Caller -> CallStep]
    BY GoesTyped
  <1>f. \A s : FailsAt(c, s) => call' \in [Caller -> CallStep]
    BY GoesTyped, FirstUndoneTyped DEF FailsAt
  <1>s. /\ {"pending", "check_external", "read_table", "failed", "completed", "idle"} \subseteq CallStep
        /\ Creating \subseteq CallStep /\ Undoing \subseteq CallStep
        /\ "create_external" \in Creating /\ "create_internal" \in Creating /\ "bucket" \in Creating
        /\ "create_table" \in Creating /\ "read_status" \in Creating /\ "set_started" \in Creating
        /\ "undo_internal" \in Undoing
    BY DEF CallStep, Running, Creating, Undoing
  <1>1. CASE Activate(c)
    <2>1. call' \in [Caller -> CallStep]
      BY <1>1, <1>g, <1>s DEF Activate
    <2> QED  BY <1>1, <2>1 DEF Activate, TypeOK
  <1>2. CASE SetStatusPending(c)
    <2>1. call' \in [Caller -> CallStep]
      BY <1>2, <1>g, <1>f, <1>s DEF SetStatusPending
    <2> QED  BY <1>2, <2>1 DEF SetStatusPending, TypeOK
  <1>3. CASE CheckExternal(c)
    <2>1. call' \in [Caller -> CallStep]
      BY <1>3, <1>g, <1>f, <1>s DEF CheckExternal
    <2> QED  BY <1>3, <2>1 DEF CheckExternal, TypeOK
  <1>4. CASE ReadTable(c)
    <2>1. call' \in [Caller -> CallStep]
      BY <1>4, <1>g, <1>f, <1>s DEF ReadTable
    <2> QED  BY <1>4, <2>1 DEF ReadTable, TypeOK
  <1>5. CASE CreateExternal(c)
    <2>1. call' \in [Caller -> CallStep]
      BY <1>5, <1>g, <1>s DEF CreateExternal
    <2> QED  BY <1>5, <2>1, NewDocs DEF CreateExternal, TypeOK
  <1>6. CASE CreateInternal(c)
    <2>1. call' \in [Caller -> CallStep]
      BY <1>6, <1>g, <1>s DEF CreateInternal
    <2> QED  BY <1>6, <2>1, NewDocs DEF CreateInternal, TypeOK
  <1>7. CASE FindOrCreateBucket(c)
    <2>1. call' \in [Caller -> CallStep]
      BY <1>7, <1>g, <1>s DEF FindOrCreateBucket
    <2> QED  BY <1>7, <2>1 DEF FindOrCreateBucket, TypeOK
  <1>8. CASE CreateLocalTable(c)
    <2>1. call' \in [Caller -> CallStep]
      BY <1>8, <1>g, <1>f, <1>s DEF CreateLocalTable
    <2> QED  BY <1>8, <2>1 DEF CreateLocalTable, TypeOK
  <1>9. CASE NotifyStartedRead(c)
    <2>1. call' \in [Caller -> CallStep]
      BY <1>9, <1>g, <1>f, <1>s DEF NotifyStartedRead
    <2> QED  BY <1>9, <2>1 DEF NotifyStartedRead, TypeOK
  <1>10. CASE SetStatusStarted(c)
    <2>1. call' \in [Caller -> CallStep]
      BY <1>10, <1>g, <1>s DEF SetStatusStarted
    <2> QED  BY <1>10, <2>1 DEF SetStatusStarted, TypeOK
  <1>11. CASE RollbackTable(c)
    <2>1. call' \in [Caller -> CallStep]
      BY <1>11, <1>g, <1>s DEF RollbackTable
    <2> QED  BY <1>11, <2>1 DEF RollbackTable, TypeOK
  <1>12. CASE RollbackInternal(c)
    <2>1. call' \in [Caller -> CallStep]
      BY <1>12, <1>g, <1>s DEF RollbackInternal
    <2> QED  BY <1>12, <2>1 DEF RollbackInternal, TypeOK
  <1>13. CASE OnboardFails(c)
    <2>1. call' \in [Caller -> CallStep]
      BY <1>13, <1>g, <1>f, <1>s DEF OnboardFails
    <2> QED  BY <1>13, <2>1 DEF OnboardFails, TypeOK
  <1> QED
    BY <1>1, <1>2, <1>3, <1>4, <1>5, <1>6, <1>7, <1>8, <1>9, <1>10, <1>11, <1>12, <1>13
    DEF Onboard

\* A change of the stage of a document, or of what else it says, keeps its type.
LEMMA DocUpdates ==
    /\ \A d \in ExternalDoc : /\ \A s \in Stage : [d EXCEPT !.stage = s] \in ExternalDoc
                              /\ [d EXCEPT !.state = "done_onboarding"] \in ExternalDoc
                              /\ [d EXCEPT !.state = "pending", !.onboarding = FALSE] \in ExternalDoc
    /\ \A d \in InternalDoc : /\ \A s \in Stage : [d EXCEPT !.stage = s] \in InternalDoc
                              /\ [d EXCEPT !.ready = TRUE] \in InternalDoc
                              /\ [d EXCEPT !.history = "copying"] \in InternalDoc
                              /\ [d EXCEPT !.history = "notified"] \in InternalDoc
                              /\ \A j \in Job : [d EXCEPT !.job = j] \in InternalDoc
                              /\ [d EXCEPT !.job = NoJob] \in InternalDoc
  BY ZenonT(60) DEF ExternalDoc, InternalDoc

LEMMA RemoveTyped == ASSUME TypeOK, RemoveBilling PROVE TypeOK'
  <1>1. etm' \in ExternalDoc /\ itm' \in InternalDoc
    BY Zenon, DocTypes, DocUpdates DEF RemoveBilling, Stage
  <1> QED  BY <1>1 DEF RemoveBilling, TypeOK, tables, jobs, managers

\* A step of an external run keeps the types.
LEMMA ExternalTyped ==
    ASSUME TypeOK, NEW e \in External, ExternalManager(e) \/ ExternalDies(e)
    PROVE  TypeOK'
  <1> USE DEF tables, jobs, managers
  <1>s. ExtStep = {"idle", "mark", "list", "handle", "delete_document"} /\ "active" \in Stage
    BY DEF ExtStep, Stage
  <1>g. \A from : \A to \in ExtStep : ExtGoes(e, from, to) => ext' \in [External -> ExtRun]
    BY ExtGoesTyped
  <1>e. \A from : ExtEnds(e, from) => ext' \in [External -> ExtRun]
    BY ExtEndsTyped DEF ExtEnds
  <1>1. CASE ImportHistory(e)
    <2>1. ext' \in [External -> ExtRun]
      BY <1>1, <1>g, <1>s DEF ImportHistory
    <2>2. etm' \in ExternalDoc \cup {NoDoc}
      BY ZenonT(60), <1>1, <1>s, Fields, DocTypes, DocUpdates DEF ImportHistory
    <2>3. local' \in {"absent", "empty", "loaded"}
      BY <1>1 DEF ImportHistory, TypeOK
    <2> QED  BY <1>1, <2>1, <2>2, <2>3 DEF ImportHistory, TypeOK
  <1>2. CASE MarkOnboardingDone(e)
    <2>1. ext' \in [External -> ExtRun]
      BY <1>2, <1>g, <1>s DEF MarkOnboardingDone
    <2>2. etm' \in ExternalDoc \cup {NoDoc} /\ itm' \in InternalDoc \cup {NoDoc}
      BY ZenonT(60), <1>2, <1>s, Fields, DocTypes, DocUpdates DEF MarkOnboardingDone
    <2> QED  BY <1>2, <2>1, <2>2 DEF MarkOnboardingDone, TypeOK
  <1>3. CASE ListExternal(e)
    <2>1. [at |-> "handle", snap |-> etm] \in ExtRun
      BY <1>s, Fields DEF ExtRun
    <2>2. ext' \in [External -> ExtRun]
      BY <1>3, <2>1 DEF ListExternal, TypeOK
    <2> QED  BY <1>3, <2>2 DEF ListExternal, TypeOK
  <1>4. CASE ActivateExternal(e)
    <2>1. ext' \in [External -> ExtRun]
      BY <1>4, <1>e DEF ActivateExternal
    <2>2. etm' \in ExternalDoc \cup {NoDoc}
      BY Zenon, <1>4, <1>s, Fields, DocTypes, DocUpdates DEF ActivateExternal
    <2> QED  BY <1>4, <2>1, <2>2 DEF ActivateExternal, TypeOK
  <1>5. CASE DeleteLocalTable(e)
    <2>1. ext' \in [External -> ExtRun]
      BY <1>5, <1>g, <1>s DEF DeleteLocalTable
    <2> QED  BY <1>5, <2>1 DEF DeleteLocalTable, TypeOK
  <1>6. CASE DeleteExternalDocument(e)
    <2>1. ext' \in [External -> ExtRun]
      BY <1>6, <1>e DEF DeleteExternalDocument
    <2> QED  BY <1>6, <2>1 DEF DeleteExternalDocument, TypeOK
  <1>7. CASE NothingToHandle(e)
    <2>1. ext' \in [External -> ExtRun]
      BY <1>7, <1>e DEF NothingToHandle
    <2> QED  BY <1>7, <2>1 DEF NothingToHandle, TypeOK
  <1>8. CASE ExternalDies(e)
    <2>1. ext' \in [External -> ExtRun]
      BY <1>8, ExtEndsTyped DEF ExternalDies
    <2>2. deaths' \in 0..MaxDeaths
      BY <1>8, LifecycleAssumption DEF ExternalDies, TypeOK
    <2> QED  BY <1>8, <2>1, <2>2 DEF ExternalDies, TypeOK
  <1> QED
    BY <1>1, <1>2, <1>3, <1>4, <1>5, <1>6, <1>7, <1>8 DEF ExternalManager, HandleExternal

\* A step of an internal run keeps the types.
LEMMA InternalTyped ==
    ASSUME TypeOK, NEW i \in Internal, InternalManager(i) \/ InternalDies(i)
    PROVE  TypeOK'
  <1> USE DEF tables, jobs, managers
  <1>s. IntStep = {"idle", "copy", "notify", "set_notified", "list", "handle", "record"}
        /\ "active" \in Stage
    BY DEF IntStep, Stage
  <1>g. \A from : \A to \in IntStep : IntGoes(i, from, to) => int' \in [Internal -> IntRun]
    BY IntGoesTyped
  <1>a. \A to \in IntStep : int' = [int EXCEPT ![i].at = to] => int' \in [Internal -> IntRun]
    BY SMTT(40), <1>s DEF TypeOK, IntRun
  <1>e. \A from : IntEnds(i, from) => int' \in [Internal -> IntRun]
    BY IntEndsTyped DEF IntEnds
  <1>1. CASE UpdateInternalTasks(i)
    <2> DEFINE joins == itm.stage = "active" /\ itm.ready
    <2>1. [IdleInternal EXCEPT !.at = "copy", !.taken = joins] \in IntRun
      BY <1>s DEF IdleInternal, IntRun
    <2>2. int' \in [Internal -> IntRun]
      BY <1>1, <2>1 DEF UpdateInternalTasks, TypeOK
    <2>3. itm' \in InternalDoc \cup {NoDoc}
      BY Zenon, <1>1, <1>s, Fields, DocTypes, DocUpdates DEF UpdateInternalTasks
    <2> QED  BY <1>1, <2>2, <2>3 DEF UpdateInternalTasks, TypeOK
  <1>2. CASE CopyRows(i)
    <2>1. int' \in [Internal -> IntRun]
      BY <1>2, <1>a, <1>s DEF CopyRows
    <2>2. unified' \in BOOLEAN
      BY <1>2 DEF CopyRows, TypeOK
    <2> QED  BY <1>2, <2>1, <2>2 DEF CopyRows, TypeOK
  <1>3. CASE NotifyCompleted(i)
    <2>1. int' \in [Internal -> IntRun]
      BY <1>3, <1>a, <1>s DEF NotifyCompleted
    <2> QED  BY <1>3, <2>1 DEF NotifyCompleted, TypeOK
  <1>4. CASE SetNotified(i)
    <2>1. int' \in [Internal -> IntRun]
      BY <1>4, <1>g, <1>s DEF SetNotified
    <2>2. itm' \in InternalDoc \cup {NoDoc}
      BY Zenon, <1>4, Fields, DocTypes, DocUpdates DEF SetNotified
    <2> QED  BY <1>4, <2>1, <2>2 DEF SetNotified, TypeOK
  <1>5. CASE ListInternal(i)
    <2>1. [int[i] EXCEPT !.at = "handle", !.snap = itm] \in IntRun
      BY <1>s, Fields DEF IntRun
    <2>2. int' = [int EXCEPT ![i] = [int[i] EXCEPT !.at = "handle", !.snap = itm]]
      BY <1>5 DEF ListInternal, TypeOK
    <2>3. int' \in [Internal -> IntRun]
      BY <2>1, <2>2 DEF TypeOK
    <2> QED  BY <1>5, <2>3 DEF ListInternal, TypeOK
  <1>6. CASE ActivateInternal(i)
    <2>1. int' \in [Internal -> IntRun]
      BY <1>6, <1>e DEF ActivateInternal
    <2>2. itm' \in InternalDoc \cup {NoDoc}
      BY Zenon, <1>6, <1>s, Fields, DocTypes, DocUpdates DEF ActivateInternal
    <2> QED  BY <1>6, <2>1, <2>2 DEF ActivateInternal, TypeOK
  <1>7. CASE InsertDeletion(i)
    <2>1. PICK j \in Job : /\ job' = [job EXCEPT ![j] = "running"]
                           /\ queue' = Append(queue, j)
                           /\ int' = [int EXCEPT ![i].at = "record", ![i].inserted = j]
      BY <1>7 DEF InsertDeletion
    <2>2. [int[i] EXCEPT !.at = "record", !.inserted = j] \in IntRun
      BY <1>s, Fields DEF IntRun
    <2>3. int' = [int EXCEPT ![i] = [int[i] EXCEPT !.at = "record", !.inserted = j]]
      BY <2>1 DEF TypeOK
    <2>4. int' \in [Internal -> IntRun]
      BY <2>2, <2>3 DEF TypeOK
    <2>5. job' \in [Job -> {"none", "running", "done", "failed"}] /\ queue' \in Seq(Job)
      BY <2>1 DEF TypeOK
    <2> QED  BY <1>7, <2>4, <2>5 DEF InsertDeletion, TypeOK
  <1>8. CASE RecordDeletion(i)
    <2>1. int' \in [Internal -> IntRun]
      BY <1>8, <1>e DEF RecordDeletion
    <2>2. itm' \in InternalDoc \cup {NoDoc}
      BY Zenon, <1>8, Fields, DocTypes, DocUpdates DEF RecordDeletion
    <2> QED  BY <1>8, <2>1, <2>2 DEF RecordDeletion, TypeOK
  <1>9. CASE DeleteInternalDocument(i)
    <2>1. int' \in [Internal -> IntRun]
      BY <1>9, <1>e DEF DeleteInternalDocument
    <2> QED  BY <1>9, <2>1 DEF DeleteInternalDocument, TypeOK
  <1>10. CASE DeletionNotDone(i)
    <2>1. int' \in [Internal -> IntRun]
      BY <1>10, <1>e DEF DeletionNotDone
    <2> QED  BY <1>10, <2>1 DEF DeletionNotDone, TypeOK
  <1>11. CASE NoChange(i)
    <2>1. int' \in [Internal -> IntRun]
      BY <1>11, <1>e DEF NoChange
    <2> QED  BY <1>11, <2>1 DEF NoChange, TypeOK
  <1>12. CASE InternalDies(i)
    <2>1. int' \in [Internal -> IntRun]
      BY <1>12, IntEndsTyped DEF InternalDies
    <2>2. deaths' \in 0..MaxDeaths
      BY <1>12, LifecycleAssumption DEF InternalDies, TypeOK
    <2> QED  BY <1>12, <2>1, <2>2 DEF InternalDies, TypeOK
  <1> QED
    BY <1>1, <1>2, <1>3, <1>4, <1>5, <1>6, <1>7, <1>8, <1>9, <1>10, <1>11, <1>12
    DEF InternalManager, HandleInternal

LEMMA JobTyped == ASSUME TypeOK, NEW j \in Job, JobEnds(j) PROVE TypeOK'
  <1>1. queue' \in Seq(Job)
    BY QueueTyped DEF JobEnds
  <1>2. job' \in [Job -> {"none", "running", "done", "failed"}] /\ unified' \in BOOLEAN
    BY DEF JobEnds, TypeOK
  <1> QED  BY <1>1, <1>2 DEF JobEnds, TypeOK, managers

LEMMA InitTyped == Init => TypeOK
  <1> SUFFICES ASSUME Init PROVE TypeOK
    OBVIOUS
  <1>1. /\ call \in [Caller -> CallStep] /\ deaths \in 0..MaxDeaths
        /\ job \in [Job -> {"none", "running", "done", "failed"}] /\ queue \in Seq(Job)
    BY LifecycleAssumption DEF Init, CallStep
  <1>2. ext \in [External -> ExtRun] /\ int \in [Internal -> IntRun]
    BY IdleRuns DEF Init
  <1> QED  BY <1>1, <1>2 DEF Init, TypeOK

\* The documents, jobs, calls and runs always have their types, whatever goes wrong.
THEOREM TypeCorrect == Spec => []TypeOK
  <1>1. TypeOK /\ [Next]_vars => TypeOK'
    <2> SUFFICES ASSUME TypeOK, [Next]_vars PROVE TypeOK'
      OBVIOUS
    <2>1. CASE Next
      BY <2>1, CallTyped, RemoveTyped, ExternalTyped, InternalTyped, JobTyped DEF Next
    <2>2. CASE UNCHANGED vars
      BY <2>2 DEF vars, tables, jobs, managers, TypeOK
    <2> QED  BY <2>1, <2>2
  <1> QED  BY InitTyped, <1>1, PTL DEF Spec

-----------------------------------------------------------------------------
(* Stages.  A manager sets an account to active that it has listed as      *)
(* created, also if it has been removed since.  That undoes the removal,   *)
(* and what is shown below holds for as long as no removal is undone.      *)

\* What the updates of a document do to its stage.
LEMMA StageUpdates ==
    /\ \A d \in ExternalDoc : /\ \A s \in Stage : [d EXCEPT !.stage = s].stage = s
                              /\ [d EXCEPT !.state = "done_onboarding"].stage = d.stage
                              /\ [d EXCEPT !.state = "pending", !.onboarding = FALSE].stage = d.stage
    /\ \A d \in InternalDoc : /\ \A s \in Stage : [d EXCEPT !.stage = s].stage = s
                              /\ [d EXCEPT !.ready = TRUE].stage = d.stage
                              /\ [d EXCEPT !.history = "copying"].stage = d.stage
                              /\ [d EXCEPT !.history = "notified"].stage = d.stage
                              /\ \A j \in Job : [d EXCEPT !.job = j].stage = d.stage
                              /\ [d EXCEPT !.job = NoJob].stage = d.stage
    /\ NewExternalDoc.stage = "created" /\ NewInternalDoc.stage = "created"
    /\ NoDoc.stage = "none"
  BY DEF ExternalDoc, InternalDoc, NewExternalDoc, NewInternalDoc, NoDoc

\* A call creates documents and deletes the internal one; it leaves the managers alone.
LEMMA CallStages ==
    ASSUME TypeOK, NEW c \in Caller, Activate(c) \/ Onboard(c) \/ OnboardFails(c)
    PROVE  /\ etm' = etm \/ (~Exists(etm) /\ etm' = NewExternalDoc)
           /\ itm' = itm \/ (~Exists(itm) /\ itm' = NewInternalDoc) \/ itm' = NoDoc
           /\ UNCHANGED managers
  BY DEF Activate, Onboard, OnboardFails, SetStatusPending, CheckExternal, ReadTable,
         CreateExternal, CreateInternal, FindOrCreateBucket, CreateLocalTable,
         NotifyStartedRead, SetStatusStarted, RollbackTable, RollbackInternal

\* What a step of an external run does to the documents, and to the accounts it has listed.
LEMMA ExternalStages ==
    ASSUME TypeOK, NEW e \in External, ExternalManager(e) \/ ExternalDies(e)
    PROVE  /\ UNCHANGED int
           /\ itm'.stage = itm.stage
           /\ \/ etm'.stage = etm.stage
              \/ etm' = NoDoc
              \/ /\ ext[e].at = "handle" /\ etm'.stage = "active"
                 /\ undone' \/ ~Deprecated(etm)
           /\ \A f \in External : f # e => ext'[f] = ext[f]
           /\ ext'[e].at = "handle" => ext'[e].snap = etm /\ UNCHANGED <<etm, itm>>
  <1> USE DEF tables, jobs, managers
  <1>e. ext' = [ext EXCEPT ![e] = IdleExternal] =>
           /\ \A f \in External : f # e => ext'[f] = ext[f]
           /\ ext'[e].at # "handle"
    BY DEF TypeOK, IdleExternal
  <1>g. \A from : \A to \in ExtStep \ {"handle"} : ExtGoes(e, from, to) =>
           /\ \A f \in External : f # e => ext'[f] = ext[f]
           /\ ext'[e].at # "handle"
    BY DEF ExtGoes, TypeOK, ExtRun
  <1>s. {"mark", "list", "delete_document"} \subseteq ExtStep \ {"handle"} /\ "active" \in Stage
    BY DEF ExtStep, Stage
  <1>1. CASE ImportHistory(e)
    <2>1. etm'.stage = etm.stage
      BY ZenonT(90), <1>1, <1>s, DocTypes, StageUpdates DEF ImportHistory
    <2> QED  BY <1>1, <1>g, <1>s, <2>1 DEF ImportHistory
  <1>2. CASE MarkOnboardingDone(e)
    <2>1. etm'.stage = etm.stage /\ itm'.stage = itm.stage
      BY ZenonT(90), <1>2, <1>s, DocTypes, StageUpdates DEF MarkOnboardingDone
    <2> QED  BY <1>2, <1>g, <1>s, <2>1 DEF MarkOnboardingDone
  <1>3. CASE ListExternal(e)
    BY <1>3 DEF ListExternal, TypeOK
  <1>4. CASE ActivateExternal(e)
    <2>1. etm'.stage = "active" \/ etm'.stage = etm.stage
      BY <1>4, <1>s, DocTypes, StageUpdates DEF ActivateExternal
    <2>2. undone' \/ ~Deprecated(etm)
      BY <1>4 DEF ActivateExternal
    <2> QED  BY <1>4, <1>e, <2>1, <2>2 DEF ActivateExternal, ExtEnds
  <1>5. CASE DeleteLocalTable(e)
    BY <1>5, <1>g, <1>s DEF DeleteLocalTable
  <1>6. CASE DeleteExternalDocument(e)
    BY <1>6, <1>e DEF DeleteExternalDocument, ExtEnds
  <1>7. CASE NothingToHandle(e)
    BY <1>7, <1>e DEF NothingToHandle, ExtEnds
  <1>8. CASE ExternalDies(e)
    BY <1>8, <1>e DEF ExternalDies
  <1> QED
    BY <1>1, <1>2, <1>3, <1>4, <1>5, <1>6, <1>7, <1>8 DEF ExternalManager, HandleExternal

\* The same of an internal run.
LEMMA InternalStages ==
    ASSUME TypeOK, NEW i \in Internal, InternalManager(i) \/ InternalDies(i)
    PROVE  /\ UNCHANGED <<etm, ext, call>>
           /\ \/ itm'.stage = itm.stage
              \/ int[i].at = "handle" /\ Deprecated(int[i].snap) /\ itm' = NoDoc
              \/ /\ int[i].at = "handle" /\ Exists(itm) /\ itm'.stage = "active"
                 /\ undone' \/ ~Deprecated(itm)
           /\ \A k \in Internal : k # i => int'[k] = int[k]
           /\ int'[i].at = "handle" => int'[i].snap = itm /\ UNCHANGED itm
  <1> USE DEF tables, jobs, managers
  <1>e. int' = [int EXCEPT ![i] = IdleInternal] =>
           /\ \A k \in Internal : k # i => int'[k] = int[k]
           /\ int'[i].at # "handle"
    BY DEF TypeOK, IdleInternal
  <1>g. \A to \in IntStep \ {"handle"} : int' = [int EXCEPT ![i].at = to] =>
           /\ \A k \in Internal : k # i => int'[k] = int[k]
           /\ int'[i].at # "handle"
    BY DEF TypeOK, IntRun
  <1>s. {"copy", "notify", "set_notified", "list", "record"} \subseteq IntStep \ {"handle"}
        /\ "active" \in Stage
    BY DEF IntStep, Stage
  <1>1. CASE UpdateInternalTasks(i)
    <2> DEFINE run == [IdleInternal EXCEPT !.at = "copy",
                                           !.taken = (itm.stage = "active" /\ itm.ready)]
    <2>1. itm'.stage = itm.stage
      BY <1>1, <1>s, DocTypes, StageUpdates DEF UpdateInternalTasks
    <2>2. int' = [int EXCEPT ![i] = run] /\ run.at = "copy"
      BY <1>1 DEF UpdateInternalTasks, IdleInternal
    <2> HIDE DEF run
    <2>3. int'[i].at # "handle" /\ \A k \in Internal : k # i => int'[k] = int[k]
      BY <2>2 DEF TypeOK
    <2> QED  BY <1>1, <2>1, <2>3 DEF UpdateInternalTasks
  <1>2. CASE CopyRows(i)
    BY <1>2, <1>g, <1>s DEF CopyRows
  <1>3. CASE NotifyCompleted(i)
    BY <1>3, <1>g, <1>s DEF NotifyCompleted
  <1>4. CASE SetNotified(i)
    <2>1. itm'.stage = itm.stage
      BY <1>4, DocTypes, StageUpdates DEF SetNotified
    <2> QED  BY <1>4, <1>g, <1>s, <2>1 DEF SetNotified, IntGoes
  <1>5. CASE ListInternal(i)
    <2>1. int' = [int EXCEPT ![i] = [int[i] EXCEPT !.at = "handle", !.snap = itm]]
      BY <1>5 DEF ListInternal, TypeOK
    <2>2. int'[i].snap = itm /\ \A k \in Internal : k # i => int'[k] = int[k]
      BY <2>1, Fields DEF TypeOK, IntRun
    <2> QED  BY <1>5, <2>2 DEF ListInternal
  <1>6. CASE ActivateInternal(i)
    <2>1. (Exists(itm) /\ itm'.stage = "active") \/ itm'.stage = itm.stage
      BY <1>6, <1>s, DocTypes, StageUpdates DEF ActivateInternal
    <2>2. undone' \/ ~Deprecated(itm)
      BY <1>6 DEF ActivateInternal
    <2> QED  BY <1>6, <1>e, <2>1, <2>2 DEF ActivateInternal, IntEnds
  <1>7. CASE InsertDeletion(i)
    <2>1. PICK j \in Job : int' = [int EXCEPT ![i].at = "record", ![i].inserted = j]
      BY <1>7 DEF InsertDeletion
    <2>2. int' = [int EXCEPT ![i] = [int[i] EXCEPT !.at = "record", !.inserted = j]]
      BY <2>1 DEF TypeOK
    <2>3. int'[i].at = "record" /\ \A k \in Internal : k # i => int'[k] = int[k]
      BY <2>2, Fields DEF TypeOK, IntRun
    <2> QED  BY <1>7, <2>3 DEF InsertDeletion
  <1>8. CASE RecordDeletion(i)
    <2>1. itm'.stage = itm.stage
      BY <1>8, DocTypes, Fields, StageUpdates DEF RecordDeletion
    <2> QED  BY <1>8, <1>e, <2>1 DEF RecordDeletion, IntEnds
  <1>9. CASE DeleteInternalDocument(i)
    BY <1>9, <1>e DEF DeleteInternalDocument, IntEnds
  <1>10. CASE DeletionNotDone(i)
    BY <1>10, <1>e DEF DeletionNotDone, IntEnds
  <1>11. CASE NoChange(i)
    BY <1>11, <1>e DEF NoChange, IntEnds
  <1>12. CASE InternalDies(i)
    BY <1>12, <1>e DEF InternalDies
  <1> QED
    BY <1>1, <1>2, <1>3, <1>4, <1>5, <1>6, <1>7, <1>8, <1>9, <1>10, <1>11, <1>12
    DEF InternalManager, HandleInternal

\* The removal of an account deprecates both documents.
LEMMA RemoveStages ==
    ASSUME TypeOK, RemoveBilling
    PROVE  Deprecated(etm') /\ Deprecated(itm') /\ UNCHANGED <<ext, int, call>>
  BY DocTypes, StageUpdates DEF RemoveBilling, Stage, Deprecated, managers

LEMMA JobStages ==
    ASSUME NEW j \in Job, JobEnds(j)
    PROVE  UNCHANGED <<etm, itm, ext, int, call>>
  BY DEF JobEnds, managers

\* A removal that has been undone stays so.
LEMMA UndoneStays == ASSUME TypeOK, [Next]_vars, undone PROVE undone'
  <1> USE DEF managers
  <1>1. ASSUME NEW c \in Caller, Activate(c) \/ Onboard(c) \/ OnboardFails(c)
        PROVE  undone'
    BY <1>1, CallStages
  <1>2. ASSUME NEW e \in External, ExternalManager(e) \/ ExternalDies(e)
        PROVE  undone'
    BY <1>2 DEF ExternalManager, ImportHistory, MarkOnboardingDone, ListExternal,
                HandleExternal, ActivateExternal, DeleteLocalTable, DeleteExternalDocument,
                NothingToHandle, ExternalDies
  <1>3. ASSUME NEW i \in Internal, InternalManager(i) \/ InternalDies(i)
        PROVE  undone'
    BY <1>3 DEF InternalManager, UpdateInternalTasks, CopyRows, NotifyCompleted, SetNotified,
                ListInternal, HandleInternal, ActivateInternal, InsertDeletion,
                RecordDeletion, DeleteInternalDocument, DeletionNotDone, NoChange, InternalDies
  <1>4. RemoveBilling \/ (\E j \in Job : JobEnds(j)) \/ UNCHANGED vars => undone'
    BY DEF RemoveBilling, JobEnds, vars
  <1> QED  BY <1>1, <1>2, <1>3, <1>4 DEF Next

-----------------------------------------------------------------------------
(* The two documents go together, if there is one run of each manager at a *)
(* time: one that deletes a document would otherwise delete the one of the *)
(* next life of the account.  What makes it inductive is what a call that  *)
(* is creating the account may rely on: no document is being removed, and  *)
(* the pipeline does not end the onboarding before the call has.           *)

OneRunEach ==
    /\ \A e, f \in External : e = f
    /\ \A i, k \in Internal : i = k

Past  == {"read_table"} \cup Creating \cup Undoing
Begun == {"check_external"} \cup Past

\* What a manager is to delete is still being removed.
Held ==
    /\ \A e \in External :
          \/ ext[e].at = "handle" /\ Deprecated(ext[e].snap)
          \/ ext[e].at = "delete_document"
          => Deprecated(etm)
    /\ \A i \in Internal : int[i].at = "handle" /\ Deprecated(int[i].snap) => Deprecated(itm)

Together ==
    /\ Live(itm) => Live(etm)
    /\ Live(etm) => ~Deprecated(itm)
    /\ Live(etm) /\ ~etm.onboarding => Live(itm)

Creation ==
    \A c \in Caller :
        /\ call[c] \in Begun => /\ ~Deprecated(itm)
                                /\ Live(etm) => etm.onboarding
                                /\ Live(etm) /\ Live(itm) => etm.state = "pending"
        /\ call[c] \in Past => ~Deprecated(etm) /\ (Live(etm) => etm.state = "pending")
        /\ call[c] = "create_internal" => Live(etm)

DocumentInv == Held /\ Together /\ Creation

\* What the updates of the external document leave of it.
LEMMA FieldUpdates ==
    /\ \A d \in ExternalDoc :
          /\ \A s \in Stage : /\ [d EXCEPT !.stage = s].state = d.state
                              /\ [d EXCEPT !.stage = s].onboarding = d.onboarding
          /\ [d EXCEPT !.state = "done_onboarding"].onboarding = d.onboarding
    /\ NewExternalDoc.onboarding /\ NewExternalDoc.state = "pending"
  BY DEF ExternalDoc, NewExternalDoc

\* What a step of an external run does to the documents, in detail, and what it is to delete.
LEMMA ExternalDocs ==
    ASSUME "onboard_slow" \notin Mishap, TypeOK, NEW e \in External, ExternalManager(e) \/ ExternalDies(e)
    PROVE  /\ UNCHANGED <<int, call>> /\ itm'.stage = itm.stage
           /\ \/ UNCHANGED etm
              \/ /\ NoCall /\ etm'.stage = etm.stage /\ etm'.onboarding = etm.onboarding
              \/ /\ etm.stage = "active" /\ etm.state = "done_onboarding" /\ Exists(itm)
                 /\ etm'.stage = etm.stage
              \/ /\ ext[e].at = "handle" /\ Exists(etm)
                 /\ undone' \/ ~Deprecated(etm)
                 /\ etm'.stage = "active" /\ etm'.state = etm.state
                 /\ etm'.onboarding = etm.onboarding
              \/ ext[e].at = "delete_document" /\ etm' = NoDoc
           /\ ext'[e].at = "handle" => ext'[e].snap = etm /\ UNCHANGED etm
           /\ ext'[e].at = "delete_document" =>
                 ext[e].at = "handle" /\ Deprecated(ext[e].snap) /\ UNCHANGED etm
  <1> USE DEF tables, jobs, managers
  <1>e. ext' = [ext EXCEPT ![e] = IdleExternal] => ext'[e].at = "idle"
    BY DEF TypeOK, IdleExternal
  <1>g. \A from : \A to \in ExtStep : ExtGoes(e, from, to) => ext[e].at = from /\ ext'[e].at = to
    BY DEF ExtGoes, TypeOK, ExtRun
  <1>s. ExtStep = {"idle", "mark", "list", "handle", "delete_document"} /\ "active" \in Stage
    BY DEF ExtStep, Stage
  <1>i. itm'.stage = itm.stage /\ UNCHANGED int
    BY ExternalStages
  <1>1. CASE ImportHistory(e)
    <2>1. \/ UNCHANGED etm
          \/ etm'.stage = etm.stage /\ etm'.onboarding = etm.onboarding
      BY ZenonT(60), <1>1, <1>s, DocTypes, StageUpdates, FieldUpdates DEF ImportHistory
    <2>2. etm' # etm => NoCall
      BY <1>1 DEF ImportHistory
    <2> QED  BY <1>1, <1>g, <1>s, <1>i, <2>1, <2>2 DEF ImportHistory
  <1>2. CASE MarkOnboardingDone(e)
    <2>1. \/ UNCHANGED etm
          \/ /\ etm.stage = "active" /\ etm.state = "done_onboarding" /\ Exists(itm)
             /\ etm'.stage = etm.stage
      BY ZenonT(90), <1>2, <1>s, DocTypes, StageUpdates DEF MarkOnboardingDone
    <2> QED  BY <1>2, <1>g, <1>s, <1>i, <2>1 DEF MarkOnboardingDone
  <1>3. CASE ListExternal(e)
    BY <1>3, <1>i DEF ListExternal, TypeOK
  <1>4. CASE ActivateExternal(e)
    <2>1. \/ UNCHANGED etm
          \/ /\ Exists(etm) /\ etm'.stage = "active" /\ etm'.state = etm.state
             /\ etm'.onboarding = etm.onboarding
      BY <1>4, <1>s, DocTypes, StageUpdates, FieldUpdates DEF ActivateExternal
    <2>2. undone' \/ ~Deprecated(etm)
      BY <1>4 DEF ActivateExternal
    <2> QED  BY <1>4, <1>e, <1>i, <2>1, <2>2 DEF ActivateExternal, ExtEnds
  <1>5. CASE DeleteLocalTable(e)
    BY <1>5, <1>g, <1>s, <1>i DEF DeleteLocalTable, Deprecated
  <1>6. CASE DeleteExternalDocument(e)
    BY <1>6, <1>e, <1>i DEF DeleteExternalDocument, ExtEnds
  <1>7. CASE NothingToHandle(e)
    BY <1>7, <1>e, <1>i DEF NothingToHandle, ExtEnds
  <1>8. CASE ExternalDies(e)
    BY <1>8, <1>e, <1>i DEF ExternalDies
  <1> QED
    BY <1>1, <1>2, <1>3, <1>4, <1>5, <1>6, <1>7, <1>8 DEF ExternalManager, HandleExternal

\* The steps of a call that has begun to look at the external document.
LEMMA Steps ==
    /\ Creating = {"create_external", "create_internal", "bucket", "create_table",
                   "read_status", "set_started"}
    /\ Undoing = {"undo_table", "undo_internal"}
    /\ Past = {"read_table"} \cup Creating \cup Undoing
    /\ Begun = {"check_external"} \cup Past
    /\ Begun \subseteq CallStep /\ Begun \subseteq Running
    /\ {"pending", "check_external", "read_table", "idle", "failed", "completed"} \subseteq CallStep
    /\ \A t \in {"pending", "idle", "failed", "completed"} : t \notin Begun
    /\ FirstUndone("pending") = "failed" /\ FirstUndone("check_external") = "failed"
    /\ FirstUndone("read_table") = "failed"
    /\ \A t \in Creating : FirstUndone(t) \in Undoing
  BY DEF Creating, Undoing, Past, Begun, CallStep, Running, FirstUndone

\* What is to be shown of the call that moves, when the documents stay.
LEMMA CreationMoves ==
    ASSUME TypeOK, Creation, UNCHANGED <<etm, itm>>, NEW c \in Caller,
           NEW from, NEW to \in CallStep, Goes(c, from, to),
           to \in Begun => from \in Begun, to \in Past => from \in Past,
           to # "create_internal"
    PROVE  Creation'
  <1>1. call[c] = from /\ call'[c] = to /\ \A d \in Caller : d # c => call'[d] = call[d]
    BY GoesTyped
  <1>2. ASSUME NEW d \in Caller
        PROVE  /\ call'[d] \in Begun => call[d] \in Begun
               /\ call'[d] \in Past => call[d] \in Past
               /\ call'[d] = "create_internal" => call[d] = "create_internal"
    BY <1>1
  <1> QED  BY <1>2 DEF Creation

\* A call keeps the documents together, and lets a manager delete what it holds.
LEMMA CallKeeps ==
    ASSUME TypeOK, DocumentInv, NEW c \in Caller, Activate(c) \/ Onboard(c) \/ OnboardFails(c)
    PROVE  Held' /\ Together' /\ Creation'
  <1> USE StageUpdates, DocTypes DEF DocumentInv, Deprecated, Live, Exists
  <1>m. UNCHANGED <<ext, int>>
    BY CallStages DEF managers
  <1>u. UNCHANGED <<etm, itm>> => Held' /\ Together'
    BY <1>m DEF Held, Together
  <1>1. CASE Activate(c)
    <2>1. Creation'
      BY <1>1, CreationMoves, Steps DEF Activate
    <2> QED  BY <1>1, <1>u, <2>1 DEF Activate
  <1>2. CASE SetStatusPending(c)
    <2>1. CASE Goes(c, "pending", "check_external") /\ ~Exists(itm)
      <3>1. call'[c] = "check_external" /\ \A d \in Caller : d # c => call'[d] = call[d]
        BY <2>1, GoesTyped, Steps
      <3>2. "check_external" \notin Past /\ UNCHANGED <<etm, itm>>
        BY <1>2, Steps DEF SetStatusPending
      <3>3. ~Deprecated(itm) /\ ~Live(itm) /\ (Live(etm) => etm.onboarding)
        BY <2>1 DEF Together, NoDoc
      <3> QED  BY <1>u, <3>1, <3>2, <3>3 DEF Creation
    <2>2. CASE FailsAt(c, "pending")
      <3>1. Creation'
        BY <1>2, <2>2, CreationMoves, Steps DEF FailsAt, SetStatusPending
      <3> QED  BY <1>2, <1>u, <3>1 DEF SetStatusPending
    <2> QED  BY <1>2, <2>1, <2>2 DEF SetStatusPending
  <1>3. CASE CheckExternal(c)
    <2>1. CASE Goes(c, "check_external", "read_table") /\ ~Exists(etm)
      <3>1. /\ call[c] = "check_external" /\ call'[c] = "read_table"
            /\ \A d \in Caller : d # c => call'[d] = call[d]
        BY <2>1, GoesTyped, Steps
      <3>2. "check_external" \in Begun /\ UNCHANGED <<etm, itm>>
        BY <1>3, Steps DEF CheckExternal
      <3>3. ~Deprecated(etm) /\ ~Live(etm)
        BY <2>1 DEF NoDoc
      <3> QED  BY <1>u, <3>1, <3>2, <3>3 DEF Creation
    <2>2. CASE FailsAt(c, "check_external")
      <3>1. Creation'
        BY <1>3, <2>2, CreationMoves, Steps DEF FailsAt, CheckExternal
      <3> QED  BY <1>3, <1>u, <3>1 DEF CheckExternal
    <2> QED  BY <1>3, <2>1, <2>2 DEF CheckExternal
  <1>4. CASE ReadTable(c)
    <2>1. Creation'
      BY <1>4, CreationMoves, Steps DEF ReadTable, FailsAt
    <2> QED  BY <1>4, <1>u, <2>1 DEF ReadTable
  <1>5. CASE CreateExternal(c)
    <2>1. /\ call[c] = "create_external" /\ call'[c] = "create_internal"
          /\ \A d \in Caller : d # c => call'[d] = call[d]
      BY <1>5, GoesTyped, Steps DEF CreateExternal
    <2>2. call[c] \in Past /\ call[c] \in Begun
      BY <2>1, Steps
    <2>3. UNCHANGED itm /\ ~Deprecated(itm) /\ ~Deprecated(etm)
      BY <1>5, <2>2 DEF CreateExternal, Creation
    <2>4. etm' = etm \/ (~Live(etm) /\ etm' = NewExternalDoc)
      BY <1>5 DEF CreateExternal, NoDoc
    <2>5. Live(etm')
      BY <1>5, <2>3 DEF CreateExternal, Stage
    <2>6. etm'.onboarding /\ etm'.state = "pending"
      BY <2>2, <2>4, <2>5, FieldUpdates DEF Creation
    <2>7. Held'
      BY <1>m, <2>3, <2>4 DEF Held
    <2>8. Together'
      BY <2>3, <2>5, <2>6 DEF Together
    <2>9. Creation'
      BY <2>1, <2>2, <2>3, <2>5, <2>6 DEF Creation
    <2> QED  BY <2>7, <2>8, <2>9
  <1>6. CASE CreateInternal(c)
    <2>1. /\ call[c] = "create_internal" /\ call'[c] = "bucket"
          /\ \A d \in Caller : d # c => call'[d] = call[d]
      BY <1>6, GoesTyped, Steps DEF CreateInternal
    <2>2. "create_internal" \in Past /\ "create_internal" \in Begun /\ "bucket" \in Past
      BY Steps
    <2>3. /\ UNCHANGED etm /\ Live(etm) /\ ~Deprecated(itm)
          /\ etm.onboarding /\ etm.state = "pending"
      BY <1>6, <2>1, <2>2 DEF CreateInternal, Creation
    <2>4. itm' = itm \/ itm'.stage = "created"
      BY <1>6 DEF CreateInternal
    <2>5. Held'
      BY <1>m, <2>3, <2>4 DEF Held
    <2>6. Together'
      BY <2>3, <2>4 DEF Together
    <2>7. Creation'
      BY <2>1, <2>2, <2>3, <2>4 DEF Creation
    <2> QED  BY <2>5, <2>6, <2>7
  <1>7. CASE FindOrCreateBucket(c)
    <2>1. Creation'
      BY <1>7, CreationMoves, Steps DEF FindOrCreateBucket
    <2> QED  BY <1>7, <1>u, <2>1 DEF FindOrCreateBucket
  <1>8. CASE CreateLocalTable(c)
    <2>1. Creation'
      BY <1>8, CreationMoves, Steps DEF CreateLocalTable, FailsAt
    <2> QED  BY <1>8, <1>u, <2>1 DEF CreateLocalTable
  <1>9. CASE NotifyStartedRead(c)
    <2>1. Creation'
      BY <1>9, CreationMoves, Steps DEF NotifyStartedRead, FailsAt
    <2> QED  BY <1>9, <1>u, <2>1 DEF NotifyStartedRead
  <1>10. CASE SetStatusStarted(c)
    <2>1. Creation'
      BY <1>10, CreationMoves, Steps DEF SetStatusStarted
    <2> QED  BY <1>10, <1>u, <2>1 DEF SetStatusStarted
  <1>11. CASE RollbackTable(c)
    <2>1. Creation'
      BY <1>11, CreationMoves, Steps DEF RollbackTable
    <2> QED  BY <1>11, <1>u, <2>1 DEF RollbackTable
  <1>12. CASE RollbackInternal(c)
    <2>1. /\ call[c] = "undo_internal" /\ call'[c] = "failed"
          /\ \A d \in Caller : d # c => call'[d] = call[d]
      BY <1>12, GoesTyped, Steps DEF RollbackInternal
    <2>2. call[c] \in Begun /\ "failed" \notin Begun /\ "failed" \notin Past
      BY <2>1, Steps
    <2>3. UNCHANGED etm /\ itm' = NoDoc /\ ~Deprecated(itm) /\ (Live(etm) => etm.onboarding)
      BY <1>12, <2>2 DEF RollbackInternal, Creation
    <2>4. Held'
      BY <1>m, <2>3 DEF Held
    <2>5. Together'
      BY <2>3 DEF Together
    <2>6. Creation'
      BY <2>1, <2>2, <2>3 DEF Creation
    <2> QED  BY <2>4, <2>5, <2>6
  <1>13. CASE OnboardFails(c)
    <2>1. Creation'
      BY <1>13, CreationMoves, Steps DEF OnboardFails, FailsAt
    <2> QED  BY <1>13, <1>u, <2>1 DEF OnboardFails
  <1> QED
    BY <1>1, <1>2, <1>3, <1>4, <1>5, <1>6, <1>7, <1>8, <1>9, <1>10, <1>11, <1>12, <1>13
    DEF Onboard

\* An account is removed only when no call is creating it.
LEMMA RemoveKeeps ==
    ASSUME TypeOK, DocumentInv, RemoveBilling
    PROVE  Held' /\ Together' /\ Creation'
  <1> USE DocTypes DEF DocumentInv, Deprecated, Live, Exists
  <1>1. Deprecated(etm') /\ Deprecated(itm') /\ UNCHANGED <<ext, int, call>>
    BY RemoveStages
  <1>2. \A c \in Caller : call[c] \notin Begun
    <2>1. /\ etm \in ExternalDoc /\ itm \in InternalDoc /\ ~etm.onboarding
      BY DEF RemoveBilling
    <2>2. Deprecated(itm) \/ Live(etm)
      BY <2>1 DEF Together
    <2> QED  BY <2>1, <2>2 DEF Creation
  <1>3. \A c \in Caller : call[c] \notin Past /\ call[c] # "create_internal"
    BY <1>2, Steps
  <1> QED  BY <1>1, <1>2, <1>3 DEF Held, Together, Creation

\* A run of the external manager keeps them together: what it deletes is being removed.
LEMMA ExternalKeeps ==
    ASSUME OneRunEach, "onboard_slow" \notin Mishap, TypeOK, DocumentInv, ~undone',
           NEW e \in External, ExternalManager(e) \/ ExternalDies(e)
    PROVE  Held' /\ Together' /\ Creation'
  <1> USE StageUpdates, DocTypes DEF DocumentInv, Deprecated, Live, Exists
  <1>d. /\ UNCHANGED <<int, call>> /\ itm'.stage = itm.stage
        /\ ext'[e].at = "handle" => ext'[e].snap = etm /\ UNCHANGED etm
        /\ ext'[e].at = "delete_document" =>
              ext[e].at = "handle" /\ Deprecated(ext[e].snap) /\ UNCHANGED etm
    BY ExternalDocs
  <1>h. Held'
    <2>1. ASSUME NEW f \in External,
                 \/ ext'[f].at = "handle" /\ Deprecated(ext'[f].snap)
                 \/ ext'[f].at = "delete_document"
          PROVE  Deprecated(etm')
      <3>1. f = e
        BY DEF OneRunEach
      <3> QED  BY <2>1, <3>1, <1>d DEF Held
    <2> QED  BY <2>1, <1>d DEF Held
  <1>s. \A c \in Caller : call[c] \in Past => call[c] \in Begun
    BY Steps
  <1>n. \A c \in Caller : call[c] = "create_internal" => call[c] \in Past
    BY Steps
  <1>1. CASE UNCHANGED etm
    BY <1>1, <1>d, <1>h DEF Together, Creation
  <1>2. CASE NoCall /\ etm'.stage = etm.stage /\ etm'.onboarding = etm.onboarding
    <2>1. \A c \in Caller : call[c] \notin Begun
      BY <1>2, Steps DEF NoCall
    <2> QED  BY <1>2, <1>d, <1>h, <1>s, <1>n, <2>1 DEF Together, Creation
  <1>3. CASE /\ etm.stage = "active" /\ etm.state = "done_onboarding" /\ Exists(itm)
             /\ etm'.stage = etm.stage
    <2>1. Live(itm)
      BY <1>3, Fields DEF Together, Stage
    <2>2. \A c \in Caller : call[c] \notin Begun
      BY <1>3, <2>1 DEF Creation
    <2> QED  BY <1>3, <1>d, <1>h, <1>s, <1>n, <2>1, <2>2 DEF Together, Creation
  <1>4. CASE /\ ext[e].at = "handle" /\ Exists(etm) /\ ~Deprecated(etm)
             /\ etm'.stage = "active" /\ etm'.state = etm.state
             /\ etm'.onboarding = etm.onboarding
    <2>1. Live(etm) /\ Live(etm')
      BY <1>4 DEF Stage
    <2> QED  BY <1>4, <1>d, <1>h, <2>1 DEF Together, Creation
  <1>5. CASE ext[e].at = "delete_document" /\ etm' = NoDoc
    <2>1. Deprecated(etm) /\ ~Live(etm) /\ ~Live(itm)
      BY <1>5 DEF Held, Together
    <2>2. \A c \in Caller : call[c] \notin Past
      BY <2>1 DEF Creation
    <2> QED  BY <1>5, <1>d, <1>h, <1>n, <2>1, <2>2 DEF Together, Creation
  <1> QED  BY <1>1, <1>2, <1>3, <1>4, <1>5, ExternalDocs

\* So does a run of the internal manager.
LEMMA InternalKeeps ==
    ASSUME OneRunEach, TypeOK, DocumentInv, ~undone',
           NEW i \in Internal, InternalManager(i) \/ InternalDies(i)
    PROVE  Held' /\ Together' /\ Creation'
  <1> USE StageUpdates, DocTypes DEF DocumentInv, Deprecated, Live, Exists
  <1>d. /\ UNCHANGED <<etm, ext, call>>
        /\ int'[i].at = "handle" => int'[i].snap = itm /\ UNCHANGED itm
    BY InternalStages
  <1>h. Held'
    <2>1. ASSUME NEW k \in Internal, int'[k].at = "handle", Deprecated(int'[k].snap)
          PROVE  Deprecated(itm')
      <3>1. k = i
        BY DEF OneRunEach
      <3> QED  BY <2>1, <3>1, <1>d
    <2> QED  BY <2>1, <1>d DEF Held
  <1>1. CASE itm'.stage = itm.stage
    BY <1>1, <1>d, <1>h DEF Together, Creation
  <1>2. CASE int[i].at = "handle" /\ Deprecated(int[i].snap) /\ itm' = NoDoc
    <2>1. Deprecated(itm) /\ ~Live(etm)
      BY <1>2 DEF Held, Together
    <2> QED  BY <1>2, <1>d, <1>h, <2>1 DEF Together, Creation
  <1>3. CASE Exists(itm) /\ ~Deprecated(itm) /\ itm'.stage = "active"
    <2>1. Live(itm) /\ Live(itm')
      BY <1>3 DEF Stage
    <2> QED  BY <1>3, <1>d, <1>h, <2>1 DEF Together, Creation
  <1> QED  BY <1>1, <1>2, <1>3, InternalStages

LEMMA DocumentStep ==
    ASSUME OneRunEach, "onboard_slow" \notin Mishap, TypeOK, DocumentInv, ~undone', [Next]_vars
    PROVE  DocumentInv'
  <1>1. ASSUME NEW j \in Job, JobEnds(j)
        PROVE  Held' /\ Together' /\ Creation'
    BY <1>1, JobStages DEF DocumentInv, Held, Together, Creation
  <1>2. CASE UNCHANGED vars
    BY <1>2 DEF vars, managers, DocumentInv, Held, Together, Creation
  <1> QED
    BY <1>1, <1>2, CallKeeps, RemoveKeeps, ExternalKeeps, InternalKeeps
    DEF Next, DocumentInv

LEMMA InitDocuments == Init => DocumentInv
  <1> SUFFICES ASSUME Init PROVE DocumentInv
    OBVIOUS
  <1>1. ~Live(etm) /\ ~Live(itm)
    BY DEF Init, Live, NoDoc
  <1>2. \A c \in Caller : call[c] = "idle"
    BY DEF Init
  <1>3. Held
    BY DEF Init, Held, IdleExternal, IdleInternal
  <1>4. Together /\ Creation
    BY <1>1, <1>2, Steps DEF Together, Creation
  <1> QED  BY <1>3, <1>4 DEF DocumentInv

\* The two documents go together until a removal is undone, however many calls there are
\* and whatever fails, if the runs of a manager do not overlap and Onboard returns before
\* the history has been imported.
THEOREM DocumentsGoTogether ==
    ASSUME OneRunEach, "onboard_slow" \notin Mishap
    PROVE  Spec => []DocumentsAgree
  <1>1. TypeOK /\ (undone \/ DocumentInv) /\ [Next]_vars => (undone \/ DocumentInv)'
    BY DocumentStep, UndoneStays
  <1>2. undone \/ DocumentInv => DocumentsAgree
    BY DEF DocumentInv, Together, DocumentsAgree
  <1> QED  BY <1>1, <1>2, InitDocuments, TypeCorrect, PTL DEF Spec
-----------------------------------------------------------------------------
(* The rows of the account.  What the pipelines find and leave at each     *)
(* stage: an internal document that is ready has a local table with the    *)
(* whole history, and a run that has taken the task still finds it.        *)

Copying == {"copy", "notify", "set_notified"}

\* The steps of a call before which it has found or created the external document.
Made == (Creating \ {"create_external"}) \cup {"undo_table"}

Imported ==
    /\ Live(itm) /\ itm.ready => ~etm.onboarding /\ local = "loaded"
    /\ Live(itm) /\ ~itm.ready => itm.history = "pending"
    /\ Live(etm) /\ etm.state = "done_onboarding" => local = "loaded"
    /\ ~Exists(etm) => local = "absent"
    /\ \A e \in External : ext[e].at = "delete_document" => local = "absent"
    /\ \A c \in Caller : call[c] \in Made => Live(etm)
    /\ \A i \in Internal :
          /\ int[i].at \in {"notify", "set_notified"} => int[i].taken
          /\ int[i].at \in Copying /\ int[i].taken => Exists(itm) /\ itm.ready

\* A call that has begun finds no internal document that is ready.
LEMMA NotReady ==
    ASSUME TypeOK, DocumentInv, Imported, NEW c \in Caller, call[c] \in Begun
    PROVE  /\ ~Exists(itm) \/ ~itm.ready
           /\ \A i \in Internal : ~(int[i].at \in Copying /\ int[i].taken)
  <1>1. ~Live(itm) \/ ~itm.ready
    BY DEF DocumentInv, Creation, Together, Imported
  <1>2. Exists(itm) => Live(itm)
    BY DocTypes DEF DocumentInv, Creation, Exists
  <1> QED  BY <1>1, <1>2 DEF Imported

LEMMA NoDocument == ~Live(NoDoc) /\ ~Deprecated(NoDoc) /\ ~Exists(NoDoc)
  BY DEF NoDoc, Live, Deprecated, Exists

LEMMA MadeSteps ==
    /\ Made = {"create_internal", "bucket", "create_table", "read_status", "set_started",
               "undo_table"}
    /\ Made \subseteq Past /\ Past \subseteq Begun
    /\ \A s : FirstUndone(s) \in Made => s \in Made
  BY Steps DEF Made, FirstUndone

\* A call creates the table only where there is none, and removes only one that it has
\* created, before the pipelines have loaded anything into it.
LEMMA CallImports ==
    ASSUME TypeOK, DocumentInv, DocumentInv', Imported,
           NEW c \in Caller, Activate(c) \/ Onboard(c) \/ OnboardFails(c)
    PROVE  Imported'
  <1> USE DEF tables, jobs, managers
  <1>m. UNCHANGED <<ext, int>>
    BY CallStages DEF managers
  <1>b. call[c] \in Begun =>
           /\ ~Exists(itm) \/ ~itm.ready
           /\ \A i \in Internal : ~(int[i].at \in Copying /\ int[i].taken)
    BY NotReady
  <1>g. ASSUME NEW from, NEW to \in CallStep, Goes(c, from, to),
               to \in Made => from \in Made \/ Live(etm'), Live(etm) => Live(etm')
        PROVE  \A d \in Caller : call'[d] \in Made => Live(etm')
    BY <1>g, GoesTyped DEF Imported
  <1>s. ASSUME UNCHANGED <<etm, itm>>, UNCHANGED local,
               \A d \in Caller : call'[d] \in Made => Live(etm')
        PROVE  Imported'
    BY <1>m, <1>s DEF Imported
  <1>1. CASE \/ Activate(c) \/ SetStatusPending(c) \/ CheckExternal(c) \/ ReadTable(c)
             \/ FindOrCreateBucket(c) \/ NotifyStartedRead(c) \/ SetStatusStarted(c)
             \/ OnboardFails(c)
    <2>1. UNCHANGED <<etm, itm, local>>
      BY <1>1 DEF Activate, SetStatusPending, CheckExternal, ReadTable, FindOrCreateBucket,
                  NotifyStartedRead, SetStatusStarted, OnboardFails
    <2>2. PICK from, to \in CallStep : Goes(c, from, to) /\ (to \in Made => from \in Made)
      BY <1>1, Steps, MadeSteps, FirstUndoneTyped
      DEF Activate, SetStatusPending, CheckExternal, ReadTable, FindOrCreateBucket,
          NotifyStartedRead, SetStatusStarted, OnboardFails, FailsAt
    <2> QED  BY <1>g, <1>s, <2>1, <2>2
  <1>2. CASE CreateExternal(c)
    <2>1. /\ Goes(c, "create_external", "create_internal") /\ UNCHANGED <<itm, local>>
          /\ etm' = IF Exists(etm) THEN etm ELSE NewExternalDoc
      BY <1>2 DEF CreateExternal
    <2>2. call[c] \in Past
      BY <2>1, Steps DEF Goes
    <2>3. ~Deprecated(etm) /\ (Live(itm) => Live(etm))
      BY <2>2 DEF DocumentInv, Creation, Together
    <2>4. Live(etm') /\ (Live(etm) => etm' = etm) /\ (etm' = etm \/ etm'.state = "pending")
      BY <2>1, <2>3, DocTypes, StageUpdates, FieldUpdates DEF Live, Exists
    <2>5. \A d \in Caller : call'[d] \in Made => Live(etm')
      BY <1>g, <2>1, <2>4, Steps
    <2>6. Exists(etm') /\ (Live(itm) => etm' = etm)
      BY <2>3, <2>4, DocTypes DEF Live, Exists, NoDoc
    <2> QED  BY <1>m, <2>1, <2>4, <2>5, <2>6 DEF Imported
  <1>3. CASE CreateInternal(c)
    <2>1. /\ Goes(c, "create_internal", "bucket") /\ UNCHANGED <<etm, local>>
          /\ itm' = IF Exists(itm) THEN itm ELSE NewInternalDoc
      BY <1>3 DEF CreateInternal
    <2>2. \A d \in Caller : call'[d] \in Made => Live(etm')
      BY <1>g, <2>1, Steps, MadeSteps
    <2>3. itm' = itm \/ (~itm'.ready /\ itm'.history = "pending" /\ ~Exists(itm))
      BY <2>1 DEF NewInternalDoc
    <2> QED  BY <1>m, <1>s, <2>1, <2>2, <2>3 DEF Imported
  <1>4. CASE CreateLocalTable(c)
    <2>1. /\ Goes(c, "create_table", "read_status") \/ FailsAt(c, "create_table")
          /\ local' = local \/ (local = "absent" /\ local' = "empty")
          /\ UNCHANGED <<etm, itm>> /\ call[c] = "create_table"
      BY <1>4 DEF CreateLocalTable, Goes, FailsAt
    <2>2. \A d \in Caller : call'[d] \in Made => Live(etm')
      BY <1>g, <2>1, Steps, MadeSteps, FirstUndoneTyped DEF FailsAt
    <2>3. Live(etm) /\ Exists(etm) /\ ~Deprecated(etm)
      BY <2>1, MadeSteps, DocTypes DEF Imported, Live, Exists, Deprecated
    <2>4. \A e \in External : ext[e].at # "delete_document"
      BY <2>3 DEF DocumentInv, Held
    <2> QED  BY <1>m, <1>s, <2>1, <2>2, <2>3, <2>4 DEF Imported
  <1>5. CASE RollbackTable(c)
    <2>1. /\ Goes(c, "undo_table", "undo_internal") /\ UNCHANGED <<etm, itm>>
          /\ local' = "absent" /\ call[c] = "undo_table"
      BY <1>5 DEF RollbackTable, Goes
    <2>2. \A d \in Caller : call'[d] \in Made => Live(etm')
      BY <1>g, <2>1, Steps, MadeSteps
    <2>3. call[c] \in Past /\ call[c] \in Begun
      BY <2>1, MadeSteps
    <2>4. ~(Live(itm) /\ itm.ready) /\ (Live(etm) => etm.state = "pending")
      BY <1>b, <2>3, DocTypes DEF DocumentInv, Creation, Live, Exists, NoDoc
    <2> QED  BY <1>m, <2>1, <2>2, <2>4 DEF Imported
  <1>6. CASE RollbackInternal(c)
    <2>1. /\ Goes(c, "undo_internal", "failed") /\ UNCHANGED <<etm, local>> /\ itm' = NoDoc
          /\ call[c] = "undo_internal"
      BY <1>6 DEF RollbackInternal, Goes
    <2>2. \A d \in Caller : call'[d] \in Made => Live(etm')
      BY <1>g, <2>1, Steps, MadeSteps
    <2>3. ~Live(itm') /\ \A i \in Internal : ~(int[i].at \in Copying /\ int[i].taken)
      BY <1>b, <2>1, Steps, DocTypes
    <2> QED  BY <1>m, <2>1, <2>2, <2>3 DEF Imported
  <1> QED  BY <1>1, <1>2, <1>3, <1>4, <1>5, <1>6 DEF Onboard

\* The external pipeline loads into a table that exists, and deletes one whose account is
\* being removed.
LEMMA ExternalImports ==
    ASSUME OneRunEach, "onboard_slow" \notin Mishap, TypeOK, DocumentInv, DocumentInv', Imported,
           ~undone',
           NEW e \in External, ExternalManager(e) \/ ExternalDies(e)
    PROVE  Imported'
  <1> USE DEF tables, jobs, managers
  <1>o. \A f \in External : f = e
    BY DEF OneRunEach
  <1>u. UNCHANGED <<int, call>>
    BY ExternalDocs
  <1>x. \A from : \A to \in ExtStep :
            ExtGoes(e, from, to) => ext[e].at = from /\ ext'[e].at = to
    BY DEF ExtGoes, TypeOK, ExtRun
  <1>y. \A from : ExtEnds(e, from) => ext[e].at = from /\ ext'[e].at = "idle"
    BY DEF ExtEnds, TypeOK, IdleExternal
  <1>s. ExtStep = {"idle", "mark", "list", "handle", "delete_document"} /\ "active" \in Stage
    BY DEF ExtStep, Stage
  <1>d. ASSUME UNCHANGED <<itm, local>>, ext'[e].at # "delete_document",
               \/ UNCHANGED etm
               \/ /\ Exists(etm) /\ Exists(etm') /\ Live(etm) /\ Live(etm')
                  /\ etm'.state = etm.state /\ etm'.onboarding = etm.onboarding
        PROVE  Imported'
    BY <1>d, <1>o, <1>u DEF Imported
  <1>1. CASE ImportHistory(e)
    <2>1. ext'[e].at = "mark" /\ UNCHANGED itm
      BY <1>1, <1>x, <1>s DEF ImportHistory
    <2>2. CASE UNCHANGED <<etm, local>>
      BY <1>d, <2>1, <2>2
    <2>3. CASE /\ etm.stage = "active" /\ local' = "loaded"
               /\ etm' = [etm EXCEPT !.state = "done_onboarding"]
      <3>1. /\ Live(etm) /\ Live(etm') /\ Exists(etm') /\ etm'.onboarding = etm.onboarding
        BY Zenon, <1>s, <2>3, DocTypes, DocUpdates, StageUpdates, FieldUpdates DEF Live, Exists
      <3> QED  BY <1>o, <1>u, <2>1, <2>3, <3>1 DEF Imported
    <2> QED  BY <1>1, <2>2, <2>3 DEF ImportHistory
  <1>2. CASE MarkOnboardingDone(e)
    <2>1. ext'[e].at = "list" /\ UNCHANGED local
      BY <1>2, <1>x, <1>s DEF MarkOnboardingDone
    <2>2. CASE UNCHANGED <<etm, itm>>
      BY <1>d, <2>1, <2>2
    <2>3. CASE /\ etm.stage = "active" /\ etm.state = "done_onboarding" /\ Exists(itm)
               /\ etm' = [etm EXCEPT !.state = "pending", !.onboarding = FALSE]
               /\ itm' = [itm EXCEPT !.ready = TRUE]
      <3>1. Live(etm) /\ local = "loaded" /\ etm \in ExternalDoc /\ itm \in InternalDoc
        BY <1>s, <2>3, DocTypes DEF Live, Imported
      <3>2. Live(etm') /\ etm'.state = "pending" /\ ~etm'.onboarding /\ Exists(etm')
        <4>1. \A d \in ExternalDoc :
                 LET n == [d EXCEPT !.state = "pending", !.onboarding = FALSE]
                 IN  n.stage = d.stage /\ n.state = "pending" /\ ~n.onboarding /\ n \in ExternalDoc
          BY DEF ExternalDoc
        <4>2. /\ etm'.stage = etm.stage /\ etm'.state = "pending" /\ ~etm'.onboarding
              /\ etm' \in ExternalDoc
          BY Zenon, <2>3, <3>1, <4>1
        <4>3. Exists(etm')
          BY <4>2, DocTypes
        <4> QED  BY <3>1, <4>2, <4>3 DEF Live
      <3>3. itm'.ready /\ Exists(itm')
        BY ZenonT(60), <2>3, <3>1, DocTypes, DocUpdates DEF InternalDoc
      <3> QED  BY <1>o, <1>u, <2>1, <3>1, <3>2, <3>3 DEF Imported
    <2> QED  BY <1>2, <2>2, <2>3 DEF MarkOnboardingDone
  <1>3. CASE ListExternal(e)
    <2>1. UNCHANGED <<etm, itm, local>> /\ ext'[e].at = "handle"
      BY <1>3 DEF ListExternal, TypeOK
    <2> QED  BY <1>d, <2>1
  <1>4. CASE ActivateExternal(e)
    <2>1. ext[e].at = "handle" /\ ext'[e].at = "idle" /\ UNCHANGED <<itm, local>>
      BY <1>4, <1>y DEF ActivateExternal
    <2>2. CASE UNCHANGED etm
      BY <1>d, <2>1, <2>2
    <2>3. CASE Exists(etm) /\ etm' = [etm EXCEPT !.stage = "active"]
      <3>1. ~Deprecated(etm)
        BY <1>4 DEF ActivateExternal
      <3>2. /\ Live(etm) /\ Live(etm') /\ Exists(etm')
            /\ etm'.state = etm.state /\ etm'.onboarding = etm.onboarding
        <4>1. \A d \in ExternalDoc :
                 LET n == [d EXCEPT !.stage = "active"]
                 IN  /\ n.stage = "active" /\ n.state = d.state /\ n.onboarding = d.onboarding
                     /\ n \in ExternalDoc
          BY <1>s DEF ExternalDoc
        <4>2. etm \in ExternalDoc /\ Live(etm)
          BY <2>3, <3>1, DocTypes
        <4>3. /\ etm'.stage = "active" /\ etm'.state = etm.state
              /\ etm'.onboarding = etm.onboarding /\ etm' \in ExternalDoc
          BY <2>3, <4>1, <4>2
        <4>4. Exists(etm')
          BY <4>3, DocTypes
        <4> QED  BY <4>2, <4>3, <4>4 DEF Live
      <3> QED  BY <1>d, <2>1, <2>3, <3>2
    <2> QED  BY <1>4, <2>2, <2>3 DEF ActivateExternal
  <1>5. CASE DeleteLocalTable(e)
    <2>1. UNCHANGED <<etm, itm>> /\ local' = "absent"
      BY <1>5 DEF DeleteLocalTable
    <2>2. Deprecated(etm)
      BY <1>5 DEF DeleteLocalTable, ExtGoes, DocumentInv, Held, Deprecated
    <2>3. ~Live(etm) /\ ~Live(itm)
      BY <2>2 DEF DocumentInv, Together, Live, Deprecated
    <2> QED  BY <1>u, <2>1, <2>3 DEF Imported
  <1>6. CASE DeleteExternalDocument(e)
    <2>1. UNCHANGED <<itm, local>> /\ etm' = NoDoc /\ ext[e].at = "delete_document"
      BY <1>6, <1>y DEF DeleteExternalDocument
    <2>2. Deprecated(etm) /\ local = "absent"
      BY <2>1 DEF DocumentInv, Held, Imported
    <2>3. ~Live(etm) /\ ~Live(itm) /\ ~Live(etm')
      BY <2>1, <2>2, DocTypes DEF DocumentInv, Together, Live, Deprecated
    <2> QED  BY <1>u, <2>1, <2>2, <2>3 DEF Imported
  <1>7. CASE NothingToHandle(e)
    <2>1. UNCHANGED <<etm, itm, local>> /\ ext'[e].at = "idle"
      BY <1>7, <1>y DEF NothingToHandle
    <2> QED  BY <1>d, <2>1
  <1>8. CASE ExternalDies(e)
    <2>1. UNCHANGED <<etm, itm, local>> /\ ext'[e].at = "idle"
      BY <1>8 DEF ExternalDies, TypeOK, IdleExternal
    <2> QED  BY <1>d, <2>1
  <1> QED
    BY <1>1, <1>2, <1>3, <1>4, <1>5, <1>6, <1>7, <1>8 DEF ExternalManager, HandleExternal

\* What a step of an internal run does: to the run, to the document, and to the rows.
LEMMA InternalParts ==
    ASSUME TypeOK, NEW i \in Internal
    PROVE  /\ UpdateInternalTasks(i) =>
                 /\ int[i].at = "idle" /\ int'[i].at = "copy" /\ int'[i].inserted = NoJob
                 /\ int'[i].taken <=> itm.stage = "active" /\ itm.ready
           /\ CopyRows(i) =>
                 /\ int[i].at = "copy" /\ int'[i].at \in {"notify", "list"}
                 /\ int'[i].taken = int[i].taken
                 /\ int'[i].at = "notify" => int[i].taken /\ local # "absent"
                 /\ unified' = (unified \/ (int'[i].at = "notify" /\ local = "loaded"))
           /\ NotifyCompleted(i) =>
                 /\ int[i].at = "notify" /\ int'[i].at \in {"set_notified", "list"}
                 /\ int'[i].taken = int[i].taken
           /\ SetNotified(i) => int[i].at = "set_notified" /\ int'[i].at = "list"
           /\ ListInternal(i) =>
                 int[i].at = "list" /\ int'[i].at = "handle" /\ int'[i].snap = itm
           /\ ActivateInternal(i) \/ DeleteInternalDocument(i) \/ DeletionNotDone(i) \/ NoChange(i)
                 => int[i].at = "handle" /\ int'[i].at = "idle"
           /\ RecordDeletion(i) => int[i].at = "record" /\ int'[i].at = "idle"
           /\ InternalDies(i) => int'[i].at = "idle"
           /\ \A j \in Job :
                 int' = [int EXCEPT ![i].at = "record", ![i].inserted = j] =>
                 int'[i].at = "record" /\ int'[i].inserted = j
  <1>t. int[i] \in IntRun /\ int \in [Internal -> IntRun] /\ unified \in BOOLEAN
    BY DEF TypeOK
  <1>1. UpdateInternalTasks(i) =>
                 /\ int[i].at = "idle" /\ int'[i].at = "copy" /\ int'[i].inserted = NoJob
                 /\ int'[i].taken <=> itm.stage = "active" /\ itm.ready
    BY ZenonT(90), <1>t DEF UpdateInternalTasks, IdleInternal
  <1>2. CopyRows(i) =>
                 /\ int[i].at = "copy" /\ int'[i].at \in {"notify", "list"}
                 /\ int'[i].taken = int[i].taken
                 /\ int'[i].at = "notify" => int[i].taken /\ local # "absent"
                 /\ unified' = (unified \/ (int'[i].at = "notify" /\ local = "loaded"))
    BY <1>t DEF CopyRows, IntRun
  <1>3. NotifyCompleted(i) =>
                 /\ int[i].at = "notify" /\ int'[i].at \in {"set_notified", "list"}
                 /\ int'[i].taken = int[i].taken
    BY <1>t DEF NotifyCompleted, IntRun
  <1>4. SetNotified(i) => int[i].at = "set_notified" /\ int'[i].at = "list"
    BY <1>t DEF SetNotified, IntGoes, IntRun
  <1>5. ListInternal(i) => int[i].at = "list" /\ int'[i].at = "handle" /\ int'[i].snap = itm
    BY <1>t DEF ListInternal, IntRun
  <1>6. ActivateInternal(i) \/ DeleteInternalDocument(i) \/ DeletionNotDone(i) \/ NoChange(i)
                 => int[i].at = "handle" /\ int'[i].at = "idle"
    BY <1>t DEF ActivateInternal, DeleteInternalDocument, DeletionNotDone, NoChange, IntEnds,
                IdleInternal
  <1>7. RecordDeletion(i) => int[i].at = "record" /\ int'[i].at = "idle"
    BY <1>t DEF RecordDeletion, IntEnds, IdleInternal
  <1>8. InternalDies(i) => int'[i].at = "idle"
    BY <1>t DEF InternalDies, IdleInternal
  <1>9. \A j \in Job : int' = [int EXCEPT ![i].at = "record", ![i].inserted = j] =>
                          int'[i].at = "record" /\ int'[i].inserted = j
    BY <1>t DEF IntRun
  <1> QED  BY <1>1, <1>2, <1>3, <1>4, <1>5, <1>6, <1>7, <1>8, <1>9

\* What the updates of the internal document leave of it.
LEMMA InternalFields ==
    \A d \in InternalDoc :
        /\ \A s \in Stage : LET n == [d EXCEPT !.stage = s] IN
              n.ready = d.ready /\ n.history = d.history /\ n.job = d.job
        /\ LET n == [d EXCEPT !.ready = TRUE] IN
              n.ready /\ n.history = d.history /\ n.job = d.job
        /\ \A h \in {"copying", "notified"} : LET n == [d EXCEPT !.history = h] IN
              n.ready = d.ready /\ n.history = h /\ n.job = d.job
        /\ \A j \in Job \cup {NoJob} : LET n == [d EXCEPT !.job = j] IN
              n.ready = d.ready /\ n.history = d.history /\ n.job = j
  BY DEF InternalDoc

\* The internal pipeline takes only a task that is ready, and nothing that it does makes it
\* unready.
LEMMA InternalImports ==
    ASSUME OneRunEach, TypeOK, DocumentInv, DocumentInv', Imported, ~undone',
           NEW i \in Internal, InternalManager(i) \/ InternalDies(i)
    PROVE  Imported'
  <1> USE DEF tables, jobs, managers
  <1>o. \A k \in Internal : k = i
    BY SMTT(40) DEF OneRunEach
  <1>u. UNCHANGED <<etm, ext, call, local>>
    BY Zenon, InternalStages
    DEF InternalManager, UpdateInternalTasks, CopyRows, NotifyCompleted, SetNotified,
        ListInternal, HandleInternal, ActivateInternal, InsertDeletion, RecordDeletion,
        DeleteInternalDocument, DeletionNotDone, NoChange, InternalDies
  <1>s. "active" \in Stage
    BY DEF Stage
  <1>d. ASSUME UNCHANGED itm,
               int'[i].at \in Copying /\ int'[i].taken => int[i].at \in Copying /\ int[i].taken,
               int'[i].at \notin {"notify", "set_notified"} \/ int'[i].taken
        PROVE  Imported'
    BY <1>d, <1>o, <1>u DEF Imported
  <1>e. ASSUME int'[i].at \notin Copying, Live(itm') => Live(itm),
               Live(itm') => /\ itm'.ready = itm.ready
                             /\ itm'.history = itm.history \/ itm.ready
        PROVE  Imported'
    BY <1>e, <1>o, <1>u DEF Imported, Copying
  <1>1. CASE UpdateInternalTasks(i)
    <2>1. int'[i].at = "copy" /\ (int'[i].taken => itm.stage = "active" /\ itm.ready)
      BY <1>1, InternalParts
    <2>2. CASE ~(itm.stage = "active" /\ itm.ready)
      <3>1. UNCHANGED itm
        BY <1>1, <2>2 DEF UpdateInternalTasks
      <3>2. ~int'[i].taken /\ int'[i].at \notin {"notify", "set_notified"}
        BY <2>1, <2>2
      <3> QED  BY <1>d, <3>1, <3>2
    <2>3. CASE itm.stage = "active" /\ itm.ready
      <3>1. itm \in InternalDoc /\ Live(itm) /\ Exists(itm)
        BY <1>s, <2>3, DocTypes DEF Live
      <3>2. itm' = itm \/ itm' = [itm EXCEPT !.history = "copying"]
        BY <1>1 DEF UpdateInternalTasks
      <3>3. itm' \in InternalDoc /\ Exists(itm')
        BY Zenon, <3>1, <3>2, DocTypes, DocUpdates
      <3>4. itm'.ready = itm.ready
        BY ZenonT(90), <3>1, <3>2, InternalFields
      <3> QED  BY <3>4, <1>o, <1>u, <2>1, <2>3, <3>1, <3>3 DEF Imported
    <2> QED  BY <2>2, <2>3
  <1>2. CASE CopyRows(i)
    BY <1>2, <1>d, InternalParts DEF CopyRows, Copying
  <1>3. CASE NotifyCompleted(i)
    <2>1. int[i].taken /\ UNCHANGED itm
      BY <1>3, InternalParts DEF NotifyCompleted, Imported
    <2> QED  BY <1>3, <1>d, <2>1, InternalParts DEF Copying
  <1>4. CASE SetNotified(i)
    <2>1. int[i].taken /\ int[i].at \in Copying /\ int'[i].at \notin Copying
      BY <1>4, InternalParts DEF Imported, Copying
    <2>2. itm \in InternalDoc /\ itm.ready
      BY <2>1, DocTypes DEF Imported
    <2>3. itm'.ready /\ itm'.stage = itm.stage
      BY <1>4, <2>2, StageUpdates, InternalFields DEF SetNotified
    <2> QED  BY <1>e, <2>1, <2>2, <2>3 DEF Live
  <1>5. CASE ListInternal(i) \/ DeletionNotDone(i) \/ NoChange(i) \/ InternalDies(i)
             \/ InsertDeletion(i)
    <2>1. UNCHANGED itm
      BY <1>5 DEF ListInternal, DeletionNotDone, NoChange, InternalDies, InsertDeletion
    <2>2. int'[i].at \notin Copying
      BY <1>5, InternalParts DEF InsertDeletion, Copying
    <2> QED  BY <1>e, <2>1, <2>2
  <1>6. CASE ActivateInternal(i)
    <2>1. int[i].at = "handle" /\ int'[i].at \notin Copying /\ ~Deprecated(itm)
      BY <1>6, InternalParts DEF ActivateInternal, Copying
    <2>2. CASE UNCHANGED itm
      BY <1>e, <2>1, <2>2
    <2>3. CASE Exists(itm) /\ itm' = [itm EXCEPT !.stage = "active"]
      <3>1. itm \in InternalDoc /\ Live(itm)
        BY <2>1, <2>3, DocTypes
      <3> QED  BY <1>e, <1>s, <2>1, <2>3, <3>1, InternalFields
    <2> QED  BY <1>6, <2>2, <2>3 DEF ActivateInternal
  <1>7. CASE RecordDeletion(i)
    <2>1. int'[i].at \notin Copying
      BY <1>7, InternalParts DEF Copying
    <2>2. itm'.stage = itm.stage /\ (itm' = itm \/ Deprecated(itm))
      BY <1>7, DocTypes, Fields, StageUpdates DEF RecordDeletion
    <2>3. Live(itm') => Live(itm) /\ itm' = itm
      BY <2>2 DEF Live, Deprecated
    <2> QED  BY <1>e, <2>1, <2>3
  <1>8. CASE DeleteInternalDocument(i)
    <2>1. int'[i].at \notin Copying /\ itm' = NoDoc
      BY <1>8, InternalParts DEF DeleteInternalDocument, Copying
    <2> QED  BY <1>e, <2>1, DocTypes
  <1> QED
    BY <1>1, <1>2, <1>3, <1>4, <1>5, <1>6, <1>7, <1>8 DEF InternalManager, HandleInternal

LEMMA RemoveImports ==
    ASSUME TypeOK, DocumentInv, Imported, RemoveBilling
    PROVE  Imported'
  <1>1. /\ Deprecated(etm') /\ Deprecated(itm') /\ UNCHANGED <<ext, int, call, local>>
        /\ Exists(etm) /\ Exists(itm)
    BY RemoveStages DEF RemoveBilling, tables
  <1>2. ~Live(etm') /\ ~Live(itm') /\ Exists(etm') /\ Exists(itm')
    BY <1>1 DEF Live, Deprecated, Exists, NoDoc
  <1>3. itm'.ready = itm.ready
    BY <1>1, DocTypes, InternalFields DEF RemoveBilling, Stage
  <1>4. \A c \in Caller : call[c] \notin Made
    <2>1. /\ etm \in ExternalDoc /\ itm \in InternalDoc /\ ~etm.onboarding
      BY DocTypes DEF RemoveBilling
    <2>2. Deprecated(itm) \/ Live(etm)
      BY <2>1, DocTypes DEF DocumentInv, Together
    <2> QED  BY <2>1, <2>2, MadeSteps DEF DocumentInv, Creation
  <1> QED  BY <1>1, <1>2, <1>3, <1>4 DEF Imported

\* What both pipelines rely on holds, with any calls, until a removal is undone, if the
\* history is not imported before Onboard returns.
RowInv == DocumentInv /\ Imported

LEMMA RowStep ==
    ASSUME OneRunEach, "onboard_slow" \notin Mishap, TypeOK, RowInv, ~undone', [Next]_vars
    PROVE  RowInv'
  <1>d. DocumentInv /\ Imported /\ DocumentInv'
    BY DocumentStep DEF RowInv
  <1>1. ASSUME NEW j \in Job, JobEnds(j)
        PROVE  Imported'
    BY <1>1, <1>d, JobStages DEF JobEnds, Imported
  <1>2. CASE UNCHANGED vars
    BY <1>2, <1>d DEF vars, tables, managers, Imported, RowInv
  <1>3. ASSUME NEW c \in Caller, Activate(c) \/ Onboard(c) \/ OnboardFails(c)
        PROVE  Imported'
    BY <1>3, <1>d, CallImports
  <1>4. CASE RemoveBilling
    BY <1>4, <1>d, RemoveImports DEF RowInv
  <1>5. ASSUME NEW e \in External, ExternalManager(e) \/ ExternalDies(e)
        PROVE  Imported'
    BY <1>5, <1>d, ExternalImports
  <1>6. ASSUME NEW i \in Internal, InternalManager(i) \/ InternalDies(i)
        PROVE  Imported'
    BY <1>6, <1>d, InternalImports
  <1> QED  BY <1>d, <1>1, <1>2, <1>3, <1>4, <1>5, <1>6 DEF Next, RowInv

LEMMA InitRows == Init => RowInv
  <1> SUFFICES ASSUME Init PROVE RowInv
    OBVIOUS
  <1>1. /\ ~Live(etm) /\ ~Live(itm) /\ local = "absent"
        /\ \A c \in Caller : call[c] = "idle"
        /\ \A e \in External : ext[e].at = "idle"
        /\ \A i \in Internal : int[i].at = "idle"
    BY DEF Init, Live, NoDoc, IdleExternal, IdleInternal
  <1> QED  BY <1>1, MadeSteps, InitDocuments DEF RowInv, Imported, Copying

-----------------------------------------------------------------------------
(* The jobs that delete the rows.  BigQuery runs them in the order of      *)
(* insertion, so when the last one is done all are; and no run inserts one *)
(* while a run copies rows, as there is only one run.                      *)

\* After the job j nothing is copied and no other job follows.
Final(j) ==
    /\ queue # <<>> => queue[Len(queue)] = j
    /\ job[j] = "done" => ~unified
    /\ \A i \in Internal : ~(int[i].at = "copy" /\ int[i].taken)

Queued ==
    /\ \A j \in Job : job[j] = "running" => \E k \in DOMAIN queue : queue[k] = j
    /\ \A k \in DOMAIN queue : job[queue[k]] = "running"
    /\ \A k, l \in DOMAIN queue : queue[k] = queue[l] => k = l

Deleting ==
    /\ queue # <<>> => Deprecated(itm)
    /\ Live(itm) => itm.job = NoJob /\ (unified => itm.ready)
    /\ ~Exists(itm) => ~unified
    /\ Deprecated(itm) /\ itm.job # NoJob => Final(itm.job)
    /\ \A i \in Internal :
          /\ int[i].at = "record" =>
                /\ Deprecated(itm) /\ itm.job = NoJob
                /\ int[i].inserted \in Job /\ Final(int[i].inserted)
          /\ int[i].at = "handle" /\ Deprecated(int[i].snap) => int[i].snap.job = itm.job

DeletionInv == RowInv /\ Queued /\ Deleting

\* Jobs are taken from the queue in turn.
LEMMA FirstInTurn ==
    ASSUME TypeOK, queue # <<>>
    PROVE  /\ RemoveAt(queue, 1) = Tail(queue) /\ Len(Tail(queue)) = Len(queue) - 1
           /\ Len(queue) \in Nat /\ Len(queue) > 0 /\ DOMAIN queue = 1..Len(queue)
           /\ DOMAIN Tail(queue) = 1..(Len(queue) - 1)
           /\ \A k \in 1..(Len(queue) - 1) : Tail(queue)[k] = queue[k + 1]
  <1>1. queue \in Seq(Job) /\ Len(queue) \in Nat /\ Len(queue) > 0
    BY EmptySeq DEF TypeOK
  <1>2. SubSeq(queue, 1, 0) = <<>>
    BY <1>1, SubSeqProperties
  <1>3. SubSeq(queue, 2, Len(queue)) = Tail(queue)
    BY <1>1
  <1>4. Tail(queue) \in Seq(Job) /\ Len(Tail(queue)) = Len(queue) - 1
    BY <1>1
  <1>5. RemoveAt(queue, 1) = Tail(queue)
    BY <1>1, <1>2, <1>3, <1>4 DEF RemoveAt
  <1> QED  BY <1>1, <1>4, <1>5

LEMMA QueueStep ==
    ASSUME "overtakes" \notin Mishap, TypeOK, Queued, [Next]_vars
    PROVE  Queued'
  <1> USE DEF tables, jobs, managers
  <1>1. CASE UNCHANGED <<job, queue>>
    BY <1>1 DEF Queued
  <1>2. ASSUME NEW i \in Internal, InsertDeletion(i)
        PROVE  Queued'
    <2>1. PICK j \in Job : /\ job[j] # "running" /\ job' = [job EXCEPT ![j] = "running"]
                           /\ queue' = Append(queue, j)
      BY <1>2 DEF InsertDeletion
    <2>2. /\ queue \in Seq(Job) /\ Len(queue) \in Nat
          /\ Len(queue') = Len(queue) + 1 /\ DOMAIN queue' = 1..(Len(queue) + 1)
          /\ DOMAIN queue = 1..Len(queue)
          /\ queue'[Len(queue) + 1] = j
          /\ \A k \in 1..Len(queue) : queue'[k] = queue[k] /\ queue[k] \in Job
      BY <2>1 DEF TypeOK
    <2>3. job'[j] = "running" /\ \A x \in Job \ {j} : job'[x] = job[x]
      BY <2>1 DEF TypeOK
    <2>4. \A k \in 1..Len(queue) : queue[k] # j
      BY <2>1, <2>2 DEF Queued
    <2>5. \A x \in Job : job'[x] = "running" => \E k \in DOMAIN queue' : queue'[k] = x
      BY <2>2, <2>3 DEF Queued
    <2>6. \A k \in DOMAIN queue' : job'[queue'[k]] = "running"
      BY <2>2, <2>3 DEF Queued
    <2>7. \A k, l \in DOMAIN queue' : queue'[k] = queue'[l] => k = l
      BY <2>2, <2>4 DEF Queued
    <2> QED  BY <2>5, <2>6, <2>7 DEF Queued
  <1>3. ASSUME NEW j \in Job, JobEnds(j)
        PROVE  Queued'
    <2>1. /\ queue # <<>> /\ queue[1] = j /\ queue' = RemoveAt(queue, 1)
          /\ job'[j] \in {"done", "failed"} /\ \A x \in Job \ {j} : job'[x] = job[x]
      BY <1>3 DEF JobEnds, TypeOK
    <2>2. /\ Len(queue) \in Nat /\ Len(queue) > 0 /\ DOMAIN queue = 1..Len(queue)
          /\ DOMAIN queue' = 1..(Len(queue) - 1)
          /\ \A k \in 1..(Len(queue) - 1) : queue'[k] = queue[k + 1]
      BY <2>1, FirstInTurn
    <2>3. \A k \in 1..Len(queue) : queue[k] \in Job /\ (k # 1 => queue[k] # j)
      BY SMTT(40), <2>1, <2>2 DEF Queued, TypeOK
    <2>4. \A x \in Job : job'[x] = "running" => \E k \in DOMAIN queue' : queue'[k] = x
      <3> SUFFICES ASSUME NEW x \in Job, job'[x] = "running"
                   PROVE  \E k \in DOMAIN queue' : queue'[k] = x
        OBVIOUS
      <3>1. x # j /\ job[x] = "running"
        BY <2>1
      <3>2. PICK k \in 1..Len(queue) : queue[k] = x
        BY <2>2, <3>1 DEF Queued
      <3>3. k # 1
        BY <2>1, <3>1, <3>2
      <3>4. k - 1 \in 1..(Len(queue) - 1) /\ (k - 1) + 1 = k
        BY <2>2, <3>3
      <3>5. queue'[k - 1] = x
        BY <2>2, <3>2, <3>4
      <3> QED  BY <2>2, <3>4, <3>5
    <2>5. \A k \in DOMAIN queue' : job'[queue'[k]] = "running"
      <3> SUFFICES ASSUME NEW k \in 1..(Len(queue) - 1) PROVE job'[queue'[k]] = "running"
        BY <2>2
      <3>1. k + 1 \in 1..Len(queue) /\ k + 1 # 1 /\ queue'[k] = queue[k + 1]
        BY <2>2
      <3>2. queue[k + 1] \in Job \ {j} /\ job[queue[k + 1]] = "running"
        BY <2>2, <2>3, <3>1 DEF Queued
      <3> QED  BY <2>1, <3>1, <3>2
    <2>6. \A k, l \in DOMAIN queue' : queue'[k] = queue'[l] => k = l
      <3> SUFFICES ASSUME NEW k \in 1..(Len(queue) - 1), NEW l \in 1..(Len(queue) - 1),
                          queue'[k] = queue'[l]
                   PROVE  k = l
        BY <2>2
      <3>1. k + 1 \in DOMAIN queue /\ l + 1 \in DOMAIN queue /\ queue[k + 1] = queue[l + 1]
        BY <2>2
      <3>2. k + 1 = l + 1
        BY <3>1 DEF Queued
      <3> QED  BY <2>2, <3>2
    <2> QED  BY <2>4, <2>5, <2>6 DEF Queued
  <1>4. CASE RemoveBilling \/ UNCHANGED vars
    BY <1>1, <1>4 DEF RemoveBilling, vars
  <1>5. ASSUME NEW c \in Caller, Activate(c) \/ Onboard(c) \/ OnboardFails(c)
        PROVE  UNCHANGED <<job, queue>>
    BY <1>5 DEF Activate, Onboard, OnboardFails, SetStatusPending, CheckExternal, ReadTable,
                CreateExternal, CreateInternal, FindOrCreateBucket, CreateLocalTable,
                NotifyStartedRead, SetStatusStarted, RollbackTable, RollbackInternal
  <1>6. ASSUME NEW e \in External, ExternalManager(e) \/ ExternalDies(e)
        PROVE  UNCHANGED <<job, queue>>
    BY <1>6 DEF ExternalManager, ImportHistory, MarkOnboardingDone, ListExternal,
                HandleExternal, ActivateExternal, DeleteLocalTable, DeleteExternalDocument,
                NothingToHandle, ExternalDies
  <1>7. ASSUME NEW i \in Internal, InternalManager(i) \/ InternalDies(i)
        PROVE  InsertDeletion(i) \/ UNCHANGED <<job, queue>>
    BY <1>7 DEF InternalManager, UpdateInternalTasks, CopyRows, NotifyCompleted, SetNotified,
                ListInternal, HandleInternal, ActivateInternal, RecordDeletion,
                DeleteInternalDocument, DeletionNotDone, NoChange, InternalDies
  <1> QED  BY <1>1, <1>2, <1>3, <1>4, <1>5, <1>6, <1>7 DEF Next

\* Only a job empties the unified table.
LEMMA OnlyJobsDelete ==
    ASSUME TypeOK, Next, unified, ~unified'
    PROVE  queue # <<>>
  <1> USE DEF tables, jobs, managers
  <1>1. ASSUME NEW c \in Caller, Activate(c) \/ Onboard(c) \/ OnboardFails(c)
        PROVE  UNCHANGED unified
    BY <1>1 DEF Activate, Onboard, OnboardFails, SetStatusPending, CheckExternal, ReadTable,
                CreateExternal, CreateInternal, FindOrCreateBucket, CreateLocalTable,
                NotifyStartedRead, SetStatusStarted, RollbackTable, RollbackInternal
  <1>2. ASSUME NEW e \in External, ExternalManager(e) \/ ExternalDies(e)
        PROVE  UNCHANGED unified
    BY <1>2 DEF ExternalManager, ImportHistory, MarkOnboardingDone, ListExternal,
                HandleExternal, ActivateExternal, DeleteLocalTable, DeleteExternalDocument,
                NothingToHandle, ExternalDies
  <1>3. ASSUME NEW i \in Internal, InternalManager(i) \/ InternalDies(i)
        PROVE  unified'
    BY <1>3 DEF InternalManager, UpdateInternalTasks, CopyRows, NotifyCompleted, SetNotified,
                ListInternal, HandleInternal, ActivateInternal, InsertDeletion,
                RecordDeletion, DeleteInternalDocument, DeletionNotDone, NoChange, InternalDies
  <1>4. ASSUME NEW j \in Job, JobEnds(j)
        PROVE  queue # <<>>
    BY <1>4 DEF JobEnds
  <1>5. RemoveBilling => UNCHANGED unified
    BY DEF RemoveBilling
  <1> QED  BY <1>1, <1>2, <1>3, <1>4, <1>5 DEF Next

LEMMA CallDeletes ==
    ASSUME TypeOK, RowInv, Deleting, NEW c \in Caller, Activate(c) \/ Onboard(c) \/ OnboardFails(c)
    PROVE  Deleting'
  <1> USE DEF tables, jobs, managers
  <1>u. UNCHANGED <<int, job, queue, unified>>
    BY DEF Activate, Onboard, OnboardFails, SetStatusPending, CheckExternal, ReadTable,
           CreateExternal, CreateInternal, FindOrCreateBucket, CreateLocalTable,
           NotifyStartedRead, SetStatusStarted, RollbackTable, RollbackInternal
  <1>f. \A j : Final(j) => Final(j)'
    BY <1>u DEF Final
  <1>1. CASE UNCHANGED itm
    BY <1>u, <1>f, <1>1 DEF Deleting
  <1>2. ASSUME ~Deprecated(itm), ~unified, itm' \in {NoDoc, NewInternalDoc}
        PROVE  Deleting'
    <2>1. queue = <<>> /\ \A i \in Internal : int[i].at # "record"
      BY <1>2 DEF Deleting
    <2>2. \A i \in Internal : ~(int[i].at = "handle" /\ Deprecated(int[i].snap))
      BY <1>2 DEF RowInv, DocumentInv, Held
    <2>3. ~Deprecated(itm') /\ (Live(itm') => itm'.job = NoJob)
      <3>1. CASE itm' = NoDoc
        BY <3>1, NoDocument
      <3>2. CASE itm' = NewInternalDoc
        <4>1. NewInternalDoc.stage = "created" /\ NewInternalDoc.job = NoJob
          BY DEF NewInternalDoc
        <4> QED  BY <3>2, <4>1 DEF Deprecated
      <3> QED  BY <1>2, <3>1, <3>2
    <2> QED  BY <1>u, <1>2, <2>1, <2>2, <2>3 DEF Deleting
  <1>3. CASE ~Exists(itm) /\ itm' = NewInternalDoc
    <2>1. ~unified /\ ~Deprecated(itm)
      BY <1>3, DocTypes DEF Deleting, Exists
    <2> QED  BY <1>2, <1>3, <2>1
  <1>4. CASE RollbackInternal(c)
    <2>1. call[c] \in Begun /\ itm' = NoDoc
      BY <1>4, Steps DEF RollbackInternal, Goes
    <2>2. ~Deprecated(itm) /\ (~Exists(itm) \/ ~itm.ready)
      BY <2>1, NotReady DEF RowInv, DocumentInv, Creation
    <2>3. ~unified
      BY <2>2, DocTypes DEF Deleting
    <2> QED  BY <1>2, <2>1, <2>2, <2>3
  <1> QED
    BY <1>1, <1>3, <1>4
    DEF Activate, Onboard, OnboardFails, SetStatusPending, CheckExternal, ReadTable,
        CreateExternal, CreateInternal, FindOrCreateBucket, CreateLocalTable,
        NotifyStartedRead, SetStatusStarted, RollbackTable

LEMMA RemoveDeletes ==
    ASSUME TypeOK, RowInv, Deleting, RemoveBilling
    PROVE  Deleting'
  <1>1. UNCHANGED <<int, job, queue, unified>> /\ Deprecated(itm') /\ Exists(itm)
    BY RemoveStages DEF RemoveBilling, tables, jobs
  <1>2. itm \in InternalDoc /\ itm'.job = itm.job
    BY <1>1, DocTypes, InternalFields DEF RemoveBilling, Stage
  <1>3. \A j : Final(j) => Final(j)'
    BY <1>1 DEF Final
  <1>4. ~Live(itm') /\ Exists(itm')
    BY <1>1, DocTypes DEF Live, Deprecated, Exists, NoDoc
  <1>5. itm.job # NoJob => Deprecated(itm)
    BY <1>2, DocTypes DEF Deleting
  <1> QED  BY <1>1, <1>2, <1>3, <1>4, <1>5 DEF Deleting

LEMMA ExternalDeletes ==
    ASSUME TypeOK, RowInv, Deleting, NEW e \in External, ExternalManager(e) \/ ExternalDies(e)
    PROVE  Deleting'
  <1> USE DEF tables, jobs, managers
  <1>u. UNCHANGED <<int, job, queue, unified>>
    BY DEF ExternalManager, ImportHistory, MarkOnboardingDone, ListExternal, HandleExternal,
           ActivateExternal, DeleteLocalTable, DeleteExternalDocument, NothingToHandle,
           ExternalDies
  <1>f. \A j : Final(j) => Final(j)'
    BY <1>u DEF Final
  <1>1. CASE UNCHANGED itm
    BY <1>u, <1>f, <1>1 DEF Deleting
  <1>2. CASE Exists(itm) /\ itm' = [itm EXCEPT !.ready = TRUE]
    <2>1. /\ itm \in InternalDoc /\ itm'.job = itm.job /\ itm'.ready /\ itm'.stage = itm.stage
          /\ Exists(itm')
      BY Zenon, <1>2, DocTypes, DocUpdates, StageUpdates, InternalFields
    <2> QED  BY <1>u, <1>f, <1>2, <2>1 DEF Deleting, Live, Deprecated
  <1> QED
    BY <1>1, <1>2 DEF ExternalManager, ImportHistory, MarkOnboardingDone, ListExternal,
                      HandleExternal, ActivateExternal, DeleteLocalTable,
                      DeleteExternalDocument, NothingToHandle, ExternalDies


\* What the internal pipeline writes of the history leaves the rest of the document.
LEMMA HistoryUpdates ==
    ASSUME NEW d \in InternalDoc, NEW h \in {"copying", "notified"}
    PROVE  LET n == [d EXCEPT !.history = h] IN
              n.stage = d.stage /\ n.ready = d.ready /\ n.job = d.job /\ Exists(n) /\ Exists(d)
  <1> DEFINE n == [d EXCEPT !.history = h]
  <1>1. n.ready = d.ready /\ n.job = d.job
    BY InternalFields
  <1>2. n.stage = d.stage /\ d.stage # "none"
    BY StageUpdates DEF InternalDoc, Stage
  <1>3. Exists(n) /\ Exists(d)
    BY <1>2 DEF Exists, NoDoc
  <1> QED  BY <1>1, <1>2, <1>3

LEMMA InternalDeletes ==
    ASSUME OneRunEach, TypeOK, RowInv, Queued, Deleting, ~undone',
           NEW i \in Internal, InternalManager(i) \/ InternalDies(i)
    PROVE  Deleting'
  <1> USE DEF tables, jobs, managers, RowInv
  <1>o. \A k \in Internal : k = i
    BY DEF OneRunEach
  <1>s. "active" \in Stage
    BY DEF Stage
  <1>f. ASSUME UNCHANGED <<job, queue, unified>>, int'[i].at # "copy" \/ ~int'[i].taken
        PROVE  \A j : Final(j) => Final(j)'
    BY <1>f, <1>o DEF Final
  <1>d. ASSUME UNCHANGED <<job, queue, unified>>, int'[i].at \notin {"handle", "record"},
               int'[i].at = "copy" /\ int'[i].taken => ~Deprecated(itm),
               Deprecated(itm') <=> Deprecated(itm), Live(itm') <=> Live(itm),
               Exists(itm') <=> Exists(itm),
               Exists(itm) => itm'.job = itm.job /\ itm'.ready = itm.ready
        PROVE  Deleting'
    <2>1. Deprecated(itm) => \A j : Final(j) => Final(j)'
      BY <1>d, <1>f
    <2>2. Deprecated(itm) \/ Live(itm) => Exists(itm)
      BY DocTypes
    <2> QED  BY <1>d, <1>o, <2>1, <2>2 DEF Deleting
  <1>1. CASE UpdateInternalTasks(i)
    <2>1. /\ UNCHANGED <<job, queue, unified>> /\ int'[i].at = "copy"
          /\ int'[i].taken => itm.stage = "active"
      BY <1>1, InternalParts DEF UpdateInternalTasks
    <2>2. itm' = itm \/ (Live(itm) /\ itm' = [itm EXCEPT !.history = "copying"])
      BY <1>1 DEF UpdateInternalTasks, Live
    <2>3. /\ itm'.stage = itm.stage /\ (Exists(itm') <=> Exists(itm))
          /\ Exists(itm) => itm'.job = itm.job /\ itm'.ready = itm.ready
      <3>1. CASE itm' = itm
        BY <3>1
      <3>2. CASE Live(itm) /\ itm' = [itm EXCEPT !.history = "copying"]
        BY <3>2, DocTypes, HistoryUpdates
      <3> QED  BY <2>2, <3>1, <3>2
    <2> QED  BY <1>d, <2>1, <2>3 DEF Live, Deprecated
  <1>2. CASE CopyRows(i)
    <2>1. /\ UNCHANGED <<itm, job, queue>> /\ int[i].at = "copy"
          /\ int'[i].at \in {"notify", "list"}
          /\ unified' = unified \/ (int[i].taken /\ unified' \in BOOLEAN)
      BY <1>2, InternalParts DEF CopyRows, TypeOK
    <2>2. CASE UNCHANGED unified
      BY <1>d, <2>1, <2>2
    <2>3. CASE int[i].taken
      <3>1. Exists(itm) /\ itm.ready
        BY <2>1, <2>3 DEF Imported, Copying
      <3>2. \A j : ~Final(j)
        BY <2>1, <2>3 DEF Final
      <3> QED  BY <1>o, <2>1, <3>1, <3>2 DEF Deleting
    <2> QED  BY <2>1, <2>2, <2>3
  <1>3. CASE NotifyCompleted(i) \/ DeletionNotDone(i) \/ NoChange(i) \/ InternalDies(i)
    <2>1. /\ UNCHANGED <<itm, job, queue, unified>>
          /\ int'[i].at \in {"set_notified", "list", "idle"}
      BY <1>3, InternalParts DEF NotifyCompleted, DeletionNotDone, NoChange, InternalDies
    <2> QED  BY SMTT(40), <1>d, <2>1
  <1>4. CASE SetNotified(i)
    <2>1. /\ UNCHANGED <<job, queue, unified>> /\ int'[i].at = "list"
          /\ itm' = itm \/ (Exists(itm) /\ itm' = [itm EXCEPT !.history = "notified"])
      BY <1>4, InternalParts DEF SetNotified
    <2>2. /\ itm'.stage = itm.stage /\ (Exists(itm') <=> Exists(itm))
          /\ Exists(itm) => itm'.job = itm.job /\ itm'.ready = itm.ready
      <3>1. CASE itm' = itm
        BY <3>1
      <3>2. CASE Exists(itm) /\ itm' = [itm EXCEPT !.history = "notified"]
        BY <3>2, DocTypes, HistoryUpdates
      <3> QED  BY <2>1, <3>1, <3>2
    <2> QED  BY <1>d, <2>1, <2>2 DEF Live, Deprecated
  <1>5. CASE ListInternal(i)
    <2>1. /\ UNCHANGED <<itm, job, queue, unified>>
          /\ int'[i].at = "handle" /\ int'[i].snap = itm
      BY <1>5, InternalParts DEF ListInternal
    <2> QED  BY <1>f, <1>o, <2>1 DEF Deleting
  <1>6. CASE ActivateInternal(i)
    <2>1. /\ UNCHANGED <<job, queue, unified>> /\ int'[i].at = "idle" /\ ~Deprecated(itm)
          /\ itm' = itm \/ (Exists(itm) /\ itm' = [itm EXCEPT !.stage = "active"])
      BY <1>6, InternalParts DEF ActivateInternal
    <2>2. CASE UNCHANGED itm
      BY <1>d, <2>1, <2>2
    <2>3. CASE Exists(itm) /\ itm' = [itm EXCEPT !.stage = "active"]
      <3>1. itm \in InternalDoc /\ itm' \in InternalDoc /\ Live(itm) /\ itm'.stage = "active"
        BY ZenonT(60), <1>s, <2>1, <2>3, DocTypes, DocUpdates, StageUpdates
      <3>2. itm'.job = itm.job /\ itm'.ready = itm.ready /\ Live(itm') /\ Exists(itm')
        BY <1>s, <2>3, <3>1, InternalFields, DocTypes DEF Live
      <3> QED  BY <1>d, <2>1, <2>3, <3>1, <3>2, DocTypes
    <2> QED  BY <2>1, <2>2, <2>3
  <1>7. CASE InsertDeletion(i)
    <2>1. PICK j \in Job : /\ job' = [job EXCEPT ![j] = "running"]
                           /\ queue' = Append(queue, j)
                           /\ int' = [int EXCEPT ![i].at = "record", ![i].inserted = j]
      BY <1>7 DEF InsertDeletion
    <2>2. /\ UNCHANGED <<itm, unified>> /\ int[i].at = "handle" /\ Deprecated(int[i].snap)
          /\ int[i].snap.job = NoJob
      BY <1>7 DEF InsertDeletion
    <2>3. Deprecated(itm) /\ itm.job = NoJob
      BY <2>2 DEF DocumentInv, Held, Deleting
    <2>4. int'[i].at = "record" /\ int'[i].inserted = j
      BY <2>1, InternalParts
    <2>5. queue'[Len(queue')] = j /\ job'[j] = "running"
      BY <2>1 DEF TypeOK
    <2>6. Final(j)'
      BY <1>o, <2>4, <2>5 DEF Final
    <2>7. Exists(itm) /\ ~Live(itm)
      BY <2>3, DocTypes
    <2> QED  BY <1>o, <2>2, <2>3, <2>4, <2>6, <2>7 DEF Deleting
  <1>8. CASE RecordDeletion(i)
    <2>1. /\ UNCHANGED <<job, queue, unified>> /\ int'[i].at = "idle" /\ int[i].at = "record"
      BY <1>8, InternalParts DEF RecordDeletion
    <2>2. PICK j \in Job : j = int[i].inserted /\ Final(j)
      BY <2>1 DEF Deleting
    <2>3. Deprecated(itm) /\ itm' = [itm EXCEPT !.job = j]
      BY <1>8, <2>1, <2>2 DEF RecordDeletion, Deleting
    <2>4. itm'.job = j /\ Deprecated(itm') /\ Exists(itm') /\ ~Live(itm')
      <3>1. itm \in InternalDoc /\ itm' \in InternalDoc
        BY Zenon, <2>3, DocTypes, DocUpdates
      <3>2. itm'.job = j /\ itm'.stage = itm.stage
        BY <2>3, <3>1, StageUpdates, InternalFields
      <3>3. Deprecated(itm')
        BY <2>3, <3>2 DEF Deprecated
      <3> QED  BY <3>1, <3>2, <3>3, DocTypes
    <2>5. Final(j)'
      BY <1>f, <2>1, <2>2
    <2> QED  BY <1>o, <2>1, <2>4, <2>5 DEF Deleting
  <1>9. CASE DeleteInternalDocument(i)
    <2>1. /\ UNCHANGED <<job, queue, unified>> /\ int'[i].at = "idle" /\ int[i].at = "handle"
          /\ Deprecated(int[i].snap) /\ int[i].snap.job # NoJob /\ itm' = NoDoc
          /\ job[int[i].snap.job] = "done"
      BY <1>9, InternalParts DEF DeleteInternalDocument
    <2>2. PICK j : j = itm.job /\ Final(j) /\ job[j] = "done"
      BY <2>1 DEF DocumentInv, Held, Deleting
    <2>3. queue = <<>>
      <3>1. queue # <<>> => Len(queue) \in DOMAIN queue
        BY FirstInTurn
      <3> QED  BY <2>2, <3>1 DEF Queued, Final
    <2>4. ~unified
      BY <2>2 DEF Final
    <2> QED  BY <1>o, <2>1, <2>3, <2>4, DocTypes DEF Deleting
  <1> QED
    BY <1>1, <1>2, <1>3, <1>4, <1>5, <1>6, <1>7, <1>8, <1>9 DEF InternalManager, HandleInternal

LEMMA JobDeletes ==
    ASSUME "overtakes" \notin Mishap, TypeOK, RowInv, Queued, Deleting, NEW j \in Job, JobEnds(j)
    PROVE  Deleting'
  <1>1. /\ queue # <<>> /\ queue' = Tail(queue) /\ UNCHANGED <<itm, int>> /\ queue[1] = j
        /\ \A x \in Job \ {j} : job'[x] = job[x]
        /\ \/ job'[j] = "done" /\ unified' = FALSE
           \/ job'[j] = "failed" /\ UNCHANGED unified
    BY FirstInTurn DEF JobEnds, managers, TypeOK
  <1>2. queue' # <<>> => Len(queue') \in Nat /\ Len(queue') > 0
                          /\ queue'[Len(queue')] = queue[Len(queue)]
    <2>1. queue' \in Seq(Job) /\ Len(queue') = Len(queue) - 1 /\ Len(queue) \in Nat
      BY <1>1, FirstInTurn DEF TypeOK
    <2>2. queue' # <<>> => Len(queue') \in Nat /\ Len(queue') > 0
      BY <2>1, EmptySeq
    <2> QED  BY <1>1, <2>1, <2>2, FirstInTurn
  <1>3. unified' => unified
    BY <1>1
  <1>4. \A x \in Job : Final(x) => Final(x)'
    BY <1>1, <1>2, <1>3 DEF Final
  <1>5. itm.job # NoJob /\ Deprecated(itm) => itm.job \in Job
    BY DocTypes DEF InternalDoc
  <1> QED  BY <1>1, <1>3, <1>4, <1>5 DEF Deleting

LEMMA DeletionStep ==
    ASSUME OneRunEach, Mishap \cap {"onboard_slow", "overtakes"} = {},
           TypeOK, DeletionInv, ~undone', [Next]_vars
    PROVE  DeletionInv'
  <1>m. "onboard_slow" \notin Mishap /\ "overtakes" \notin Mishap
    OBVIOUS
  <1>d. RowInv /\ Queued /\ Deleting /\ RowInv' /\ Queued'
    BY <1>m, RowStep, QueueStep DEF DeletionInv
  <1>1. ASSUME NEW j \in Job, JobEnds(j)
        PROVE  Deleting'
    BY <1>1, <1>m, <1>d, JobDeletes
  <1>2. ASSUME UNCHANGED vars PROVE Deleting'
    BY <1>2, <1>d DEF vars, tables, jobs, managers, Deleting, Final
  <1>3. ASSUME NEW c \in Caller, Activate(c) \/ Onboard(c) \/ OnboardFails(c)
        PROVE  Deleting'
    BY <1>3, <1>d, CallDeletes
  <1>4. ASSUME RemoveBilling PROVE Deleting'
    BY <1>4, <1>d, RemoveDeletes
  <1>5. ASSUME NEW e \in External, ExternalManager(e) \/ ExternalDies(e)
        PROVE  Deleting'
    BY <1>5, <1>d, ExternalDeletes
  <1>6. ASSUME NEW i \in Internal, InternalManager(i) \/ InternalDies(i)
        PROVE  Deleting'
    BY <1>6, <1>d, InternalDeletes
  <1> QED  BY <1>d, <1>1, <1>2, <1>3, <1>4, <1>5, <1>6 DEF Next, DeletionInv

LEMMA InitDeletion == Init => DeletionInv
  <1> SUFFICES ASSUME Init PROVE DeletionInv
    OBVIOUS
  <1>1. /\ itm = NoDoc /\ ~unified /\ queue = <<>> /\ \A j \in Job : job[j] = "none"
        /\ \A i \in Internal : int[i].at = "idle"
    BY DEF Init, IdleInternal
  <1>2. DOMAIN queue = {}
    BY <1>1
  <1>3. Queued
    BY <1>1, <1>2 DEF Queued
  <1>4. ~Live(itm) /\ ~Deprecated(itm)
    BY <1>1, NoDocument
  <1> QED  BY <1>1, <1>3, <1>4, InitRows DEF DeletionInv, Deleting

\* An account that is gone has left nothing behind until a removal is undone, however many
\* calls there are and whatever fails, if there is one run of each manager at a time, if
\* jobs are run in the order in which they were inserted, and Onboard returns before the
\* history has been imported.
THEOREM NothingIsLeft ==
    ASSUME OneRunEach, Mishap \cap {"onboard_slow", "overtakes"} = {}
    PROVE  Spec => [](undone \/ RemovedLeavesNothing)
  <1>1. TypeOK /\ (undone \/ DeletionInv) /\ [Next]_vars => (undone \/ DeletionInv)'
    BY DeletionStep, UndoneStays
  <1>2. TypeOK /\ (undone \/ DeletionInv) => undone \/ RemovedLeavesNothing
    <2> SUFFICES ASSUME TypeOK, DeletionInv, ~Exists(etm), ~Exists(itm)
                 PROVE  local = "absent" /\ ~unified /\ queue = <<>>
      BY DEF RemovedLeavesNothing
    <2>1. ~Deprecated(itm)
      BY DocTypes
    <2> QED  BY <2>1 DEF DeletionInv, RowInv, Imported, Deleting
  <1> QED  BY <1>1, <1>2, InitDeletion, TypeCorrect, PTL DEF Spec

\* Rows leave the unified table only while their account is being removed: no job of an
\* earlier life deletes the rows of the next one, if no removal is undone.
THEOREM RowsOfTheLivingStay ==
    ASSUME OneRunEach, Mishap \cap {"onboard_slow", "overtakes"} = {}
    PROVE  Spec /\ []~undone => LiveRowsKept
  <1>1. TypeOK /\ DeletionInv /\ ~undone' /\ [Next]_vars => DeletionInv'
    BY DeletionStep
  <1>2. TypeOK /\ DeletionInv /\ [Next]_vars => [unified /\ ~unified' => Deprecated(itm)]_vars
    <2> SUFFICES ASSUME TypeOK, DeletionInv, Next, unified, ~unified' PROVE Deprecated(itm)
      OBVIOUS
    <2>1. queue # <<>>
      BY OnlyJobsDelete
    <2> QED  BY <2>1 DEF DeletionInv, Deleting
  <1> QED  BY <1>1, <1>2, InitDeletion, TypeCorrect, PTL DEF Spec, LiveRowsKept

-----------------------------------------------------------------------------
(* What the customer is told.  The status of the import is written by the  *)
(* call of Onboard and by the internal pipeline, the history in the        *)
(* internal document by the latter alone.                                  *)

\* There is one call at a time, of an account that is not live when it begins, and until
\* it returns the status is the one that it has set.
OneCall ==
    /\ \A c, d \in Caller : call[c] \in Running /\ call[d] \in Running => c = d
    /\ \A c \in Caller : /\ call[c] = "pending" => ~Live(etm) /\ ~Live(itm)
                         /\ call[c] \in Begun => status = "pending"

\* The status of a live account, and what a run that reports the history has done before.
Reported ==
    Live(itm) =>
        /\ status # "none"
        /\ status = "completed" => unified
        /\ itm.history = "notified" => status = "completed"
        /\ \A i \in Internal : /\ int[i].at \in {"notify", "set_notified"} => unified
                               /\ int[i].at = "set_notified" => status = "completed"

Told == OneCall /\ Reported

ToldInv == DeletionInv /\ Told

LEMMA CallTells ==
    ASSUME Mishap \cap {"onboard_twice", "activate_again"} = {}, TypeOK, RowInv, Told,
           NEW c \in Caller, Activate(c) \/ Onboard(c) \/ OnboardFails(c)
    PROVE  Told'
  <1> USE DEF tables, jobs, managers
  <1>u. UNCHANGED <<int, unified>>
    BY DEF Activate, Onboard, OnboardFails, SetStatusPending, CheckExternal, ReadTable,
           CreateExternal, CreateInternal, FindOrCreateBucket, CreateLocalTable,
           NotifyStartedRead, SetStatusStarted, RollbackTable, RollbackInternal
  <1>b. call[c] \in Begun =>
           \A i \in Internal : ~(int[i].at \in Copying /\ int[i].taken)
    BY NotReady DEF RowInv
  <1>n. call[c] \in Begun => \A i \in Internal : int[i].at \notin {"notify", "set_notified"}
    BY <1>b DEF RowInv, Imported, Copying
  <1>r. ASSUME UNCHANGED <<itm, status>>
        PROVE  Reported'
    BY <1>u, <1>r DEF Told, Reported
  \* A call that is under way goes on.
  <1>g. ASSUME NEW from \in Running, NEW to \in CallStep \ {"pending"}, Goes(c, from, to),
               to \in Begun => status' = "pending"
        PROVE  OneCall'
    <2>1. call[c] \in Running /\ call'[c] = to /\ \A d \in Caller : d # c => call'[d] = call[d]
      BY <1>g, GoesTyped
    <2>2. \A d \in Caller : d # c => call'[d] \notin Running
      BY <2>1 DEF Told, OneCall
    <2>3. "pending" \in Running /\ Begun \subseteq Running
      BY Steps DEF Running
    <2> QED  BY <1>g, <2>1, <2>2, <2>3 DEF OneCall
  <1>s. ASSUME NEW from \in Begun, NEW to \in CallStep \ {"pending"}, Goes(c, from, to),
               UNCHANGED status
        PROVE  OneCall'
    <2>1. status = "pending" /\ from \in Running
      BY <1>s, Steps DEF Goes, Told, OneCall
    <2> QED  BY <1>g, <1>s, <2>1
  <1>1. CASE Activate(c)
    <2>1. /\ NoCall /\ Goes(c, "idle", "pending") /\ UNCHANGED <<etm, itm, status>>
          /\ Exists(etm) => Deprecated(etm)
          /\ Exists(itm) => Deprecated(itm)
      BY <1>1 DEF Activate
    <2>2. ~Live(etm) /\ ~Live(itm)
      BY <2>1, DocTypes DEF Exists
    <2>3. call'[c] = "pending" /\ \A d \in Caller : d # c => call'[d] = call[d]
      BY <2>1, GoesTyped, Steps
    <2>4. "pending" \notin Begun /\ Begun \subseteq Running
      BY Steps
    <2>5. OneCall'
      BY <2>1, <2>2, <2>3, <2>4 DEF OneCall, NoCall
    <2> QED  BY <1>r, <2>1, <2>5 DEF Told
  <1>2. CASE SetStatusPending(c)
    <2>1. /\ call[c] = "pending" /\ UNCHANGED <<etm, itm>> /\ status' = "pending"
          /\ Goes(c, "pending", "check_external") \/ Goes(c, "pending", "failed")
      BY <1>2, Steps DEF SetStatusPending, FailsAt, Goes
    <2>2. ~Live(itm')
      BY <2>1 DEF Told, OneCall
    <2>3. {"check_external", "failed"} \subseteq CallStep \ {"pending"} /\ "pending" \in Running
      BY Steps DEF Running
    <2> QED  BY <1>g, <2>1, <2>2, <2>3 DEF Told, Reported
  <1>3. CASE CheckExternal(c) \/ ReadTable(c) \/ CreateExternal(c) \/ FindOrCreateBucket(c)
             \/ CreateLocalTable(c) \/ NotifyStartedRead(c) \/ OnboardFails(c)
             \/ RollbackTable(c)
    <2>1. UNCHANGED <<itm, status>>
      BY <1>3 DEF CheckExternal, ReadTable, CreateExternal, FindOrCreateBucket,
                  CreateLocalTable, NotifyStartedRead, OnboardFails, RollbackTable
    <2>2. PICK from \in Begun, to \in CallStep \ {"pending"} : Goes(c, from, to)
      <3>1. \A s : FirstUndone(s) \in CallStep \ {"pending"}
        BY FirstUndoneTyped DEF FirstUndone
      <3> QED
        BY <1>3, <3>1, Steps
        DEF CheckExternal, ReadTable, CreateExternal, FindOrCreateBucket, CreateLocalTable,
            NotifyStartedRead, OnboardFails, RollbackTable, FailsAt
    <2> QED  BY <1>r, <1>s, <2>1, <2>2 DEF Told
  <1>4. CASE CreateInternal(c)
    <2>1. /\ Goes(c, "create_internal", "bucket") /\ UNCHANGED status
          /\ itm' = IF Exists(itm) THEN itm ELSE NewInternalDoc
      BY <1>4 DEF CreateInternal
    <2>2. /\ "create_internal" \in Begun /\ "bucket" \in CallStep \ {"pending"}
          /\ call[c] = "create_internal"
      BY <2>1, Steps DEF Goes
    <2>3. status = "pending" /\ \A i \in Internal : int[i].at \notin {"notify", "set_notified"}
      BY <1>n, <2>2 DEF Told, OneCall
    <2>4. NewInternalDoc.history = "pending"
      BY DEF NewInternalDoc
    <2>5. Reported'
      BY <1>u, <1>r, <2>1, <2>3, <2>4 DEF Reported
    <2> QED  BY <1>s, <2>1, <2>2, <2>5 DEF Told
  <1>5. CASE SetStatusStarted(c)
    <2>1. /\ Goes(c, "set_started", "completed") /\ UNCHANGED itm /\ status' = "started"
          /\ call[c] = "set_started"
      BY <1>5 DEF SetStatusStarted, Goes
    <2>2. /\ "set_started" \in Begun /\ "set_started" \in Running
          /\ "completed" \in CallStep \ {"pending"} /\ "completed" \notin Begun
      BY Steps
    <2>3. status = "pending" /\ \A i \in Internal : int[i].at \notin {"notify", "set_notified"}
      BY <1>n, <2>1, <2>2 DEF Told, OneCall
    <2>4. Reported'
      BY <1>u, <2>1, <2>3 DEF Told, Reported
    <2> QED  BY <1>g, <2>1, <2>2, <2>4 DEF Told
  <1>6. CASE RollbackInternal(c)
    <2>1. Goes(c, "undo_internal", "failed") /\ UNCHANGED status /\ ~Live(itm')
      BY <1>6, NoDocument DEF RollbackInternal
    <2>2. "undo_internal" \in Begun /\ "failed" \in CallStep \ {"pending"}
      BY Steps
    <2> QED  BY <1>s, <2>1, <2>2 DEF Told, Reported
  <1> QED  BY <1>1, <1>2, <1>3, <1>4, <1>5, <1>6 DEF Onboard

LEMMA HistoryStays ==
    ASSUME NEW d \in InternalDoc
    PROVE  /\ [d EXCEPT !.ready = TRUE].history = d.history
           /\ \A s : [d EXCEPT !.stage = s].history = d.history
  BY DEF InternalDoc

LEMMA ExternalTells ==
    ASSUME TypeOK, RowInv, Told, ~undone',
           NEW e \in External, ExternalManager(e) \/ ExternalDies(e)
    PROVE  Told'
  <1> USE DEF tables, jobs, managers
  <1>u. UNCHANGED <<int, unified, status, call>>
    BY DEF ExternalManager, ImportHistory, MarkOnboardingDone, ListExternal, HandleExternal,
           ActivateExternal, DeleteLocalTable, DeleteExternalDocument, NothingToHandle,
           ExternalDies
  <1>1. itm' = itm \/ (itm \in InternalDoc /\ itm' = [itm EXCEPT !.ready = TRUE])
    BY DocTypes
    DEF ExternalManager, ImportHistory, MarkOnboardingDone, ListExternal, HandleExternal,
        ActivateExternal, DeleteLocalTable, DeleteExternalDocument, NothingToHandle,
        ExternalDies
  <1>2. itm'.stage = itm.stage /\ itm'.history = itm.history
    <2>1. CASE itm' = itm
      BY <2>1
    <2>2. CASE itm \in InternalDoc /\ itm' = [itm EXCEPT !.ready = TRUE]
      BY <2>2, StageUpdates, HistoryStays
    <2> QED  BY <1>1, <2>1, <2>2
  <1>3. Live(etm') => Live(etm)
    <2>1. CASE etm'.stage = etm.stage
      BY <2>1 DEF Live
    <2>2. CASE etm' = NoDoc
      BY <2>2, NoDocument
    <2>3. CASE ~Deprecated(etm) /\ etm'.stage = "active"
      <3>2. etm.stage = "active" => Exists(etm)
        BY DEF Exists, NoDoc
      <3>3. etm' = etm \/ etm' = NoDoc \/ Exists(etm)
        BY <3>2
        DEF ExternalManager, ImportHistory, MarkOnboardingDone, ListExternal, HandleExternal,
            ActivateExternal, DeleteLocalTable, DeleteExternalDocument, NothingToHandle,
            ExternalDies
      <3> QED  BY <2>3, <3>3, DocTypes, NoDocument
    <2> QED  BY <2>1, <2>2, <2>3, ExternalStages
  <1> QED  BY <1>u, <1>2, <1>3 DEF Told, OneCall, Reported, Live

LEMMA InternalTells ==
    ASSUME OneRunEach, TypeOK, RowInv, Told, ~undone',
           NEW i \in Internal, InternalManager(i) \/ InternalDies(i)
    PROVE  Told'
  <1> USE DEF tables, jobs, managers
  <1>o. \A k \in Internal : k = i
    BY DEF OneRunEach
  <1>u. UNCHANGED <<etm, call>>
    BY InternalStages
  <1>l. Live(itm') => Live(itm)
    <2>1. CASE itm'.stage = itm.stage
      BY <2>1 DEF Live
    <2>2. CASE itm' = NoDoc
      BY <2>2, NoDocument
    <2>3. CASE Exists(itm) /\ ~Deprecated(itm)
      BY <2>3, DocTypes
    <2> QED  BY <2>1, <2>2, <2>3, InternalStages
  <1>k. UNCHANGED status => OneCall'
    BY <1>u, <1>l DEF Told, OneCall
  <1>d. ASSUME UNCHANGED <<status, unified>>, int'[i].at \notin {"notify", "set_notified"},
               Live(itm') /\ itm'.history = "notified" => status = "completed"
        PROVE  Told'
    BY <1>d, <1>k, <1>l, <1>o DEF Told, Reported
  <1>1. CASE UpdateInternalTasks(i)
    <2>1. /\ UNCHANGED <<status, unified>> /\ int'[i].at = "copy"
          /\ itm' = itm \/ (itm.stage = "active" /\ itm' = [itm EXCEPT !.history = "copying"])
      BY <1>1, InternalParts DEF UpdateInternalTasks
    <2>2. itm'.history = "notified" => itm' = itm
      <3>1. itm.stage = "active" => itm \in InternalDoc
        BY DocTypes DEF Stage
      <3> QED  BY <2>1, <3>1, InternalFields
    <2> QED  BY <1>d, <1>l, <2>1, <2>2 DEF Told, Reported
  <1>2. CASE CopyRows(i)
    <2>1. UNCHANGED <<itm, status>> /\ int[i].at = "copy" /\ int'[i].at \in {"notify", "list"}
      BY <1>2, InternalParts DEF CopyRows
    <2>2. unified => unified'
      BY <1>2 DEF CopyRows
    <2>3. int'[i].at = "notify" /\ Live(itm) => unified'
      <3> SUFFICES ASSUME int'[i].at = "notify", Live(itm) PROVE unified'
        OBVIOUS
      <3>1. int[i].taken
        BY <1>2, InternalParts
      <3>2. local = "loaded"
        BY <2>1, <3>1 DEF RowInv, Imported, Copying
      <3> QED  BY <1>2, <3>1, <3>2, InternalParts
    <2> QED  BY <1>k, <1>o, <2>1, <2>2, <2>3 DEF Told, Reported
  <1>3. CASE NotifyCompleted(i)
    <2>1. /\ UNCHANGED <<itm, unified>> /\ int[i].at = "notify"
          /\ int'[i].at \in {"set_notified", "list"}
          /\ status' = status \/ status' = "completed"
          /\ int'[i].at = "set_notified" => status' = "completed" \/ status' = "none"
      <3>1. int[i].at = "notify" /\ int'[i].at \in {"set_notified", "list"}
        BY <1>3, InternalParts
      <3>2. int' = [int EXCEPT ![i].at = "list"] => int'[i].at = "list"
        BY DEF TypeOK, IntRun
      <3>3. status \in {"none", "pending", "started", "completed"}
        BY DEF TypeOK
      <3> QED  BY <1>3, <3>1, <3>2, <3>3 DEF NotifyCompleted
    <2>2. \A c \in Caller : call[c] \notin Begun
      <3>1. int[i].at \in Copying /\ int[i].taken
        BY <2>1 DEF RowInv, Imported, Copying
      <3> QED  BY <3>1, NotReady DEF RowInv
    <2>3. OneCall'
      BY <1>u, <2>1, <2>2 DEF Told, OneCall
    <2>4. Live(itm) => unified
      BY <2>1 DEF Told, Reported
    <2> QED  BY <1>o, <2>1, <2>3, <2>4 DEF Told, Reported
  <1>4. CASE SetNotified(i)
    <2>1. /\ UNCHANGED <<status, unified>> /\ int[i].at = "set_notified" /\ int'[i].at = "list"
      BY <1>4, InternalParts DEF SetNotified
    <2> QED  BY <1>d, <1>l, <2>1 DEF Told, Reported
  <1>5. CASE \/ ListInternal(i) \/ DeletionNotDone(i) \/ NoChange(i) \/ InternalDies(i)
             \/ InsertDeletion(i)
    <2>1. UNCHANGED <<itm, status, unified>>
      BY <1>5 DEF ListInternal, DeletionNotDone, NoChange, InternalDies, InsertDeletion
    <2>2. int'[i].at \notin {"notify", "set_notified"}
      BY <1>5, InternalParts DEF InsertDeletion
    <2> QED  BY <1>d, <2>1, <2>2 DEF Told, Reported
  <1>6. CASE ActivateInternal(i)
    <2>1. /\ UNCHANGED <<status, unified>> /\ int'[i].at = "idle"
          /\ itm' = itm \/ (Exists(itm) /\ itm' = [itm EXCEPT !.stage = "active"])
      BY <1>6, InternalParts DEF ActivateInternal
    <2>2. itm'.history = itm.history
      <3>1. Exists(itm) => itm \in InternalDoc
        BY DocTypes
      <3> QED  BY ZenonT(90), <2>1, <3>1, HistoryStays
    <2> QED  BY <1>d, <1>l, <2>1, <2>2 DEF Told, Reported
  <1>7. CASE RecordDeletion(i)
    <2>1. /\ UNCHANGED <<status, unified>> /\ int'[i].at = "idle"
          /\ itm' = itm \/ Deprecated(itm)
      BY <1>7, InternalParts DEF RecordDeletion
    <2>2. Live(itm') => itm' = itm
      BY <1>l, <2>1 DEF Live, Deprecated
    <2> QED  BY <1>d, <1>l, <2>1, <2>2 DEF Told, Reported
  <1>8. CASE DeleteInternalDocument(i)
    <2>1. UNCHANGED <<status, unified>> /\ int'[i].at = "idle" /\ ~Live(itm')
      BY <1>8, InternalParts, NoDocument DEF DeleteInternalDocument
    <2> QED  BY <1>d, <2>1
  <1> QED
    BY <1>1, <1>2, <1>3, <1>4, <1>5, <1>6, <1>7, <1>8 DEF InternalManager, HandleInternal

\* What the customer is told is true as long as he has one call under way, of an account
\* that is not onboarded.
LEMMA ToldStep ==
    ASSUME OneRunEach,
           Mishap \cap {"onboard_slow", "overtakes", "onboard_twice", "activate_again"} = {},
           TypeOK, ToldInv, ~undone', [Next]_vars
    PROVE  ToldInv'
  <1>m. /\ Mishap \cap {"onboard_slow", "overtakes"} = {}
        /\ Mishap \cap {"onboard_twice", "activate_again"} = {}
    OBVIOUS
  <1>d. DeletionInv /\ RowInv /\ Queued /\ Deleting /\ Told /\ DeletionInv'
    BY <1>m, DeletionStep DEF ToldInv, DeletionInv
  <1>1. ASSUME NEW j \in Job, JobEnds(j)
        PROVE  Told'
    <2>1. queue # <<>> /\ UNCHANGED <<etm, itm, call, int, status>>
      BY <1>1, JobStages DEF JobEnds, managers
    <2>2. ~Live(itm)
      BY <1>d, <2>1 DEF Deleting, Live, Deprecated
    <2> QED  BY <1>d, <2>1, <2>2 DEF Told, OneCall, Reported
  <1>2. ASSUME UNCHANGED vars PROVE Told'
    BY <1>2, <1>d DEF vars, tables, managers, Told, OneCall, Reported
  <1>3. ASSUME NEW c \in Caller, Activate(c) \/ Onboard(c) \/ OnboardFails(c)
        PROVE  Told'
    BY <1>3, <1>m, <1>d, CallTells
  <1>4. ASSUME RemoveBilling PROVE Told'
    <2>1. ~Live(etm') /\ ~Live(itm') /\ UNCHANGED <<call, status>>
      BY <1>4, RemoveStages DEF RemoveBilling, Live, Deprecated
    <2> QED  BY <1>d, <2>1 DEF Told, OneCall, Reported
  <1>5. ASSUME NEW e \in External, ExternalManager(e) \/ ExternalDies(e)
        PROVE  Told'
    BY <1>5, <1>d, ExternalTells
  <1>6. ASSUME NEW i \in Internal, InternalManager(i) \/ InternalDies(i)
        PROVE  Told'
    BY <1>6, <1>d, InternalTells
  <1> QED  BY <1>d, <1>1, <1>2, <1>3, <1>4, <1>5, <1>6 DEF Next, ToldInv

LEMMA InitTold == Init => ToldInv
  <1> SUFFICES ASSUME Init PROVE ToldInv
    OBVIOUS
  <1>1. ~Live(itm) /\ \A c \in Caller : call[c] = "idle"
    BY NoDocument DEF Init
  <1>2. "idle" \notin Running /\ "idle" \notin Begun
    BY Steps DEF Running
  <1> QED  BY <1>1, <1>2, InitDeletion DEF ToldInv, Told, OneCall, Reported

\* The history takes one step after the other: a ready task has the whole history in its
\* local table, a completed import rows in the unified one, and a history that is marked as
\* notified has been reported to the customer; until a removal is undone.
THEOREM HistoryIsInOrder ==
    ASSUME OneRunEach,
           Mishap \cap {"onboard_slow", "overtakes", "onboard_twice", "activate_again"} = {}
    PROVE  Spec => []HistoryInOrder
  <1>1. TypeOK /\ (undone \/ ToldInv) /\ [Next]_vars => (undone \/ ToldInv)'
    BY ToldStep, UndoneStays
  <1>2. undone \/ ToldInv => HistoryInOrder
    BY DEF ToldInv, DeletionInv, RowInv, Imported, Told, Reported, HistoryInOrder
  <1> QED  BY <1>1, <1>2, InitTold, TypeCorrect, PTL DEF Spec

=============================================================================
