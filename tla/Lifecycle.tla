------------------------------ MODULE Lifecycle ------------------------------
(***************************************************************************)
(* The life of one billing account of Flexsave standalone: it is activated *)
(* by its user, onboarded (onboard.go), imported by the external pipeline, *)
(* copied to the unified table by the internal one, removed (offboarded)   *)
(* on request, and may then be activated again.  Nothing owns the account: *)
(* the call of Onboard with its roll-back, RemoveBilling and the life-     *)
(* cycle steps of the two managers all write its two documents, its local  *)
(* table and its rows in the unified table.                                *)
(*                                                                         *)
(* Accounts share none of this, so there is one.  What the pipelines do    *)
(* with rows is one step here (ExternalPipeline and InternalPipeline are   *)
(* the detail).  The field OnBoarding of the internal document is left     *)
(* out: it is never true (createDefaultInternalTaskMetadata does not set   *)
(* it), its part is played by the state "on_boarding".                     *)
(***************************************************************************)
EXTENDS Naturals, Sequences, SequencesExt

CONSTANTS
    Caller,      \* calls of Activate, each of which calls Onboard
    External,    \* runs of the external manager that may overlap
    Internal,    \* runs of the internal manager that may overlap
    Job,         \* names of jobs that delete the account's rows; an unused one is reused
    NoJob,
    MaxDeaths,   \* bound on the runs of managers that end early
    Mishap       \* what may go wrong, see Mishaps

\* "onboard_fails": a call of Onboard fails after it has begun to create the account.
\* "onboard_slow": the pipelines import the whole history before that call returns.
\* "onboard_twice": two calls at once.  "activate_again": a user activates an account
\* that is onboarded.  "deletion_fails": a job that deletes rows fails.  "overtakes": such
\* jobs do not run in the order of insertion.
\* Whatever the mishaps are, a run of a manager may end at any step.
Mishaps == {"onboard_fails", "onboard_slow", "onboard_twice", "activate_again",
            "deletion_fails", "overtakes"}

ASSUME LifecycleAssumption ==
    /\ NoJob \notin Job
    /\ MaxDeaths \in Nat
    /\ Mishap \subseteq Mishaps

VARIABLES
    etm,        \* the document of the external task, or NoDoc
    itm,        \* the document of the internal task, or NoDoc
    local,      \* the local table: "absent", "empty" or with the history "loaded"
    unified,    \* whether the unified table has rows of the account
    status,     \* billingImportStatus of the account
    job,        \* the state of each job that deletes the account's rows
    queue,      \* the jobs that BigQuery has not finished, in the order of insertion
    call,       \* the next step of each call of Onboard
    ext,        \* the next step of each external run, with its snapshot
    int,        \* the same of each internal run
    deaths,     \* runs of managers that have ended early
    undone      \* history: a manager has set an account that was removed to active

jobs     == <<job, queue>>
tables   == <<local, unified, jobs>>
managers == <<ext, int, deaths, undone>>
vars == <<etm, itm, tables, status, call, managers>>

-----------------------------------------------------------------------------
NoDoc == [stage |-> "none"]
Stage == {"created", "active", "deprecated"}

ExternalDoc == [stage : Stage, state : {"pending", "done_onboarding"}, onboarding : BOOLEAN]
\* ready: the state is initializing or a later one; history is the status of CopyHistory,
\* job the recorded deletion job.
InternalDoc == [stage : Stage, ready : BOOLEAN, history : {"pending", "copying", "notified"},
                job : Job \cup {NoJob}]

NewExternalDoc == [stage |-> "created", state |-> "pending", onboarding |-> TRUE]
NewInternalDoc == [stage |-> "created", ready |-> FALSE, history |-> "pending", job |-> NoJob]

Creating == {"create_external", "create_internal", "bucket", "create_table",
             "read_status", "set_started"}
Undoing  == {"undo_table", "undo_internal"}
Running  == {"pending", "check_external", "read_table"} \cup Creating \cup Undoing
CallStep == {"idle"} \cup Running \cup {"failed", "completed"}

ExtStep == {"idle", "mark", "list", "handle", "delete_document"}
IntStep == {"idle", "copy", "notify", "set_notified", "list", "handle", "record"}

\* taken: the account is in the iteration; inserted: the job to be recorded.
ExtRun == [at : ExtStep, snap : ExternalDoc \cup {NoDoc}]
IntRun == [at : IntStep, taken : BOOLEAN, snap : InternalDoc \cup {NoDoc},
           inserted : Job \cup {NoJob}]

IdleExternal == [at |-> "idle", snap |-> NoDoc]
IdleInternal == [at |-> "idle", taken |-> FALSE, snap |-> NoDoc, inserted |-> NoJob]

Exists(doc) == doc # NoDoc
Deprecated(doc) == doc.stage = "deprecated"

Init ==
    /\ etm = NoDoc /\ itm = NoDoc
    /\ local = "absent" /\ unified = FALSE
    /\ status = "none"
    /\ job = [j \in Job |-> "none"] /\ queue = <<>>
    /\ call = [c \in Caller |-> "idle"]
    /\ ext = [e \in External |-> IdleExternal]
    /\ int = [i \in Internal |-> IdleInternal]
    /\ deaths = 0 /\ undone = FALSE

-----------------------------------------------------------------------------
(* Activate and Onboard.                                                   *)

NoCall == \A c \in Caller : call[c] \notin Running

Goes(c, from, to) == call[c] = from /\ call' = [call EXCEPT ![c] = to]

\* The roll-back of a call that fails at step s: what it undoes first.
FirstUndone(s) ==
    CASE s \in {"create_external", "create_internal", "bucket"} -> "undo_internal"
      [] s \in {"create_table", "read_status", "set_started"}   -> "undo_table"
      [] OTHER                                                  -> "failed"

FailsAt(c, s) == Goes(c, s, FirstUndone(s))

\* A user activates an account that is not onboarded, or is being removed.
Activate(c) ==
    /\ "onboard_twice" \in Mishap \/ NoCall
    /\ "activate_again" \in Mishap \/ ((Exists(etm) => Deprecated(etm)) /\ (Exists(itm) => Deprecated(itm)))
    /\ Goes(c, "idle", "pending")
    /\ UNCHANGED <<etm, itm, tables, status, managers>>

\* runBillingImport sets the status, and Onboard begins by reading the internal document:
\* the two are a moment apart, which no two runs of a manager fit into.
SetStatusPending(c) ==
    /\ \/ ~Exists(itm) /\ Goes(c, "pending", "check_external")
       \/ Exists(itm) /\ FailsAt(c, "pending")
    /\ status' = "pending"
    /\ UNCHANGED <<etm, itm, tables, managers>>

CheckExternal(c) ==
    /\ \/ ~Exists(etm) /\ Goes(c, "check_external", "read_table")
       \/ Exists(etm) /\ FailsAt(c, "check_external")
    /\ UNCHANGED <<etm, itm, tables, status, managers>>

\* The location of the customer's table and its first and last records; the customer may
\* not have granted access.
ReadTable(c) ==
    /\ Goes(c, "read_table", "create_external") \/ FailsAt(c, "read_table")
    /\ UNCHANGED <<etm, itm, tables, status, managers>>

\* A document that exists already is left as it is, and that is no error.
CreateExternal(c) ==
    /\ Goes(c, "create_external", "create_internal")
    /\ etm' = IF Exists(etm) THEN etm ELSE NewExternalDoc
    /\ UNCHANGED <<itm, tables, status, managers>>

\* Mutant: the document is created without its defaults.
CreateBareInternal(c) ==
    /\ Goes(c, "create_internal", "bucket")
    /\ itm' = IF Exists(itm) THEN itm ELSE [stage |-> "created"]
    /\ UNCHANGED <<etm, tables, status, managers>>

CreateInternal(c) ==
    /\ Goes(c, "create_internal", "bucket")
    /\ itm' = IF Exists(itm) THEN itm ELSE NewInternalDoc
    /\ UNCHANGED <<etm, tables, status, managers>>

FindOrCreateBucket(c) ==
    /\ Goes(c, "bucket", "create_table")
    /\ UNCHANGED <<etm, itm, tables, status, managers>>

\* The table must not exist.
CreateLocalTable(c) ==
    /\ \/ /\ local = "absent"
          /\ Goes(c, "create_table", "read_status")
          /\ local' = "empty"
       \/ /\ local # "absent"
          /\ FailsAt(c, "create_table")
          /\ UNCHANGED local
    /\ UNCHANGED <<etm, itm, unified, jobs, status, managers>>

NotifyStartedRead(c) ==
    /\ \/ status = "pending" /\ Goes(c, "read_status", "set_started")
       \/ status # "pending" /\ FailsAt(c, "read_status")
    /\ UNCHANGED <<etm, itm, tables, status, managers>>

SetStatusStarted(c) ==
    /\ Goes(c, "set_started", "completed")
    /\ status' = "started"
    /\ UNCHANGED <<etm, itm, tables, managers>>

\* A step fails, or the call dies and rolls nothing back.  A table that is not deleted is
\* only logged.
OnboardFails(c) ==
    /\ "onboard_fails" \in Mishap
    /\ \/ \E s \in Creating : FailsAt(c, s)
       \/ \E s \in Creating \cup Undoing : Goes(c, s, "failed")
       \/ Goes(c, "undo_table", "undo_internal")
    /\ UNCHANGED <<etm, itm, tables, status, managers>>

RollbackTable(c) ==
    /\ Goes(c, "undo_table", "undo_internal")
    /\ local' = "absent"
    /\ UNCHANGED <<etm, itm, unified, jobs, status, managers>>

\* Mutant: the roll-back deletes the other document.
RollbackExternal(c) ==
    /\ Goes(c, "undo_internal", "failed")
    /\ etm' = NoDoc
    /\ UNCHANGED <<itm, tables, status, managers>>

\* The roll-back deletes the internal document and no other.
RollbackInternal(c) ==
    /\ Goes(c, "undo_internal", "failed")
    /\ itm' = NoDoc
    /\ UNCHANGED <<etm, tables, status, managers>>

Onboard(c) ==
    \/ SetStatusPending(c) \/ CheckExternal(c) \/ ReadTable(c)
    \/ CreateExternal(c) \/ CreateInternal(c) \/ FindOrCreateBucket(c) \/ CreateLocalTable(c)
    \/ NotifyStartedRead(c) \/ SetStatusStarted(c)
    \/ RollbackTable(c) \/ RollbackInternal(c)

-----------------------------------------------------------------------------
(* RemoveBilling: one transaction over both documents, refused without an   *)
(* error while the account is being onboarded.                             *)

\* Mutant: an account that is being onboarded is removed as well.
RemoveAnyBilling ==
    /\ Exists(etm) /\ Exists(itm)
    /\ etm' = [etm EXCEPT !.stage = "deprecated"]
    /\ itm' = [itm EXCEPT !.stage = "deprecated"]
    /\ UNCHANGED <<tables, status, call, managers>>

RemoveBilling ==
    /\ Exists(etm) /\ Exists(itm)
    /\ ~etm.onboarding
    /\ etm' = [etm EXCEPT !.stage = "deprecated"]
    /\ itm' = [itm EXCEPT !.stage = "deprecated"]
    /\ UNCHANGED <<tables, status, call, managers>>

-----------------------------------------------------------------------------
(* The external manager.                                                   *)

ExtGoes(e, from, to) == ext[e].at = from /\ ext' = [ext EXCEPT ![e].at = to]
ExtEnds(e, from) == ext[e].at = from /\ ext' = [ext EXCEPT ![e] = IdleExternal]

\* manageExternalTasks, the part of it that ends an onboarding: the whole history has been
\* loaded into the local table.  This takes several runs, where Onboard needs seconds to
\* return.  Without a table the load job fails.
ImportHistory(e) ==
    /\ ExtGoes(e, "idle", "mark")
    /\ IF /\ etm.stage = "active" /\ etm.onboarding /\ local # "absent"
          /\ "onboard_slow" \in Mishap \/ NoCall
       THEN /\ local' = "loaded"
            /\ etm' = [etm EXCEPT !.state = "done_onboarding"]
       ELSE UNCHANGED <<local, etm>>
    /\ UNCHANGED <<itm, unified, jobs, status, call, int, deaths, undone>>

\* Mutant: the internal task is not started.
MarkedUnready(e) ==
    /\ ExtGoes(e, "mark", "list")
    /\ etm' = IF etm.stage = "active" /\ etm.state = "done_onboarding" /\ Exists(itm)
              THEN [etm EXCEPT !.state = "pending", !.onboarding = FALSE] ELSE etm
    /\ UNCHANGED <<itm, tables, status, call, int, deaths, undone>>

\* One transaction over both documents, which tests the state again.
MarkOnboardingDone(e) ==
    /\ ExtGoes(e, "mark", "list")
    /\ IF etm.stage = "active" /\ etm.state = "done_onboarding" /\ Exists(itm)
       THEN /\ etm' = [etm EXCEPT !.state = "pending", !.onboarding = FALSE]
            /\ itm' = [itm EXCEPT !.ready = TRUE]
       ELSE UNCHANGED <<etm, itm>>
    /\ UNCHANGED <<tables, status, call, int, deaths, undone>>

ListExternal(e) ==
    /\ ext[e].at = "list"
    /\ ext' = [ext EXCEPT ![e] = [at |-> "handle", snap |-> etm]]
    /\ UNCHANGED <<etm, itm, tables, status, call, int, deaths, undone>>

\* The stage that is tested in the transaction is the one of the snapshot: an account that
\* has been removed since it was listed becomes active again.
ActivateExternal(e) ==
    /\ ext[e].snap.stage = "created"
    /\ ExtEnds(e, "handle")
    /\ etm' = IF Exists(etm) THEN [etm EXCEPT !.stage = "active"] ELSE etm
    /\ undone' = (undone \/ Deprecated(etm))
    /\ UNCHANGED <<itm, tables, status, call, int, deaths>>

DeleteLocalTable(e) ==
    /\ ext[e].snap.stage = "deprecated"
    /\ ExtGoes(e, "handle", "delete_document")
    /\ local' = "absent"
    /\ UNCHANGED <<etm, itm, unified, jobs, status, call, int, deaths, undone>>

DeleteExternalDocument(e) ==
    /\ ExtEnds(e, "delete_document")
    /\ etm' = NoDoc
    /\ UNCHANGED <<itm, tables, status, call, int, deaths, undone>>

NothingToHandle(e) ==
    /\ ext[e].snap.stage \in {"none", "active"}
    /\ ExtEnds(e, "handle")
    /\ UNCHANGED <<etm, itm, tables, status, call, int, deaths, undone>>

ExternalDies(e) ==
    /\ ext[e].at # "idle"
    /\ deaths < MaxDeaths /\ deaths' = deaths + 1
    /\ ext' = [ext EXCEPT ![e] = IdleExternal]
    /\ UNCHANGED <<etm, itm, tables, status, call, int, undone>>

HandleExternal(e) ==
    ActivateExternal(e) \/ DeleteLocalTable(e) \/ DeleteExternalDocument(e) \/ NothingToHandle(e)

ExternalManager(e) ==
    ImportHistory(e) \/ MarkOnboardingDone(e) \/ ListExternal(e) \/ HandleExternal(e)

-----------------------------------------------------------------------------
(* The internal manager.                                                   *)

IntGoes(i, from, to) == int[i].at = from /\ int' = [int EXCEPT ![i].at = to]
IntEnds(i, from) == int[i].at = from /\ int' = [int EXCEPT ![i] = IdleInternal]

\* Active tasks join the iteration, unless they are still being onboarded.
UpdateInternalTasks(i) ==
    LET joins == itm.stage = "active" /\ itm.ready IN
    /\ int[i].at = "idle"
    /\ int' = [int EXCEPT ![i] = [IdleInternal EXCEPT !.at = "copy", !.taken = joins]]
    /\ itm' = IF joins /\ itm.history = "pending" THEN [itm EXCEPT !.history = "copying"] ELSE itm
    /\ UNCHANGED <<etm, tables, status, call, ext, deaths, undone>>

\* The task and the copy job.  A task whose local table is gone fails; a run in which it
\* fails for another reason might as well die here.
CopyRows(i) ==
    /\ int[i].at = "copy"
    /\ \/ /\ int[i].taken /\ local # "absent"
          /\ unified' = (unified \/ local = "loaded")
          /\ int' = [int EXCEPT ![i].at = "notify"]
       \/ /\ ~(int[i].taken /\ local # "absent")
          /\ int' = [int EXCEPT ![i].at = "list"]
          /\ UNCHANGED unified
    /\ UNCHANGED <<etm, itm, local, jobs, status, call, ext, deaths, undone>>

\* Mutant: the status is set only when Onboard has not set it to started.
NotifyPending(i) ==
    /\ int[i].at = "notify"
    /\ IF Exists(itm) /\ itm.history = "copying"
       THEN /\ int' = [int EXCEPT ![i].at = "set_notified"]
            /\ status' = IF status = "pending" THEN "completed" ELSE status
       ELSE /\ int' = [int EXCEPT ![i].at = "list"]
            /\ UNCHANGED status
    /\ UNCHANGED <<etm, itm, tables, call, ext, deaths, undone>>

\* notifyCopyHistoryFinishedIfNecessary, on the documents of the verified tasks: a status
\* that is no longer the one of an import under way is left alone.
NotifyCompleted(i) ==
    /\ int[i].at = "notify"
    /\ IF Exists(itm) /\ itm.history = "copying"
       THEN /\ int' = [int EXCEPT ![i].at = "set_notified"]
            /\ status' = IF status \in {"started", "pending"} THEN "completed" ELSE status
       ELSE /\ int' = [int EXCEPT ![i].at = "list"]
            /\ UNCHANGED status
    /\ UNCHANGED <<etm, itm, tables, call, ext, deaths, undone>>

SetNotified(i) ==
    /\ IntGoes(i, "set_notified", "list")
    /\ itm' = IF Exists(itm) THEN [itm EXCEPT !.history = "notified"] ELSE itm
    /\ UNCHANGED <<etm, tables, status, call, ext, deaths, undone>>

ListInternal(i) ==
    /\ int[i].at = "list"
    /\ int' = [int EXCEPT ![i].at = "handle", ![i].snap = itm]
    /\ UNCHANGED <<etm, itm, tables, status, call, ext, deaths, undone>>

ActivateInternal(i) ==
    /\ int[i].snap.stage = "created"
    /\ IntEnds(i, "handle")
    /\ itm' = IF Exists(itm) THEN [itm EXCEPT !.stage = "active"] ELSE itm
    /\ undone' = (undone \/ Deprecated(itm))
    /\ UNCHANGED <<etm, tables, status, call, ext, deaths>>

\* The names that some document, snapshot or run still knows.
Known == {int[i].inserted : i \in Internal}
            \cup {d.job : d \in {d \in {itm} \cup {int[i].snap : i \in Internal} : Exists(d)}}

\* DeleteRowsFromUnifiedByBA
InsertDeletion(i) ==
    /\ Deprecated(int[i].snap) /\ int[i].snap.job = NoJob
    /\ int[i].at = "handle"
    /\ \E j \in Job :
          /\ job[j] # "running" /\ j \notin Known
          /\ job' = [job EXCEPT ![j] = "running"]
          /\ queue' = Append(queue, j)
          /\ int' = [int EXCEPT ![i].at = "record", ![i].inserted = j]
    /\ UNCHANGED <<etm, itm, local, unified, status, call, ext, deaths, undone>>

\* Mutant: the job is not recorded.
RecordNothing(i) ==
    /\ IntEnds(i, "record")
    /\ UNCHANGED <<etm, itm, tables, status, call, ext, deaths, undone>>

RecordDeletion(i) ==
    /\ IntEnds(i, "record")
    /\ itm' = IF Deprecated(itm) THEN [itm EXCEPT !.job = int[i].inserted] ELSE itm
    /\ UNCHANGED <<etm, tables, status, call, ext, deaths, undone>>

\* Mutant: the document is deleted although the job is still running.
DeleteUnawaited(i) ==
    /\ Deprecated(int[i].snap) /\ int[i].snap.job # NoJob
    /\ IntEnds(i, "handle")
    /\ itm' = NoDoc
    /\ UNCHANGED <<etm, tables, status, call, ext, deaths, undone>>

\* The job is done: the document goes, and an event says so.
DeleteInternalDocument(i) ==
    /\ Deprecated(int[i].snap) /\ int[i].snap.job # NoJob
    /\ job[int[i].snap.job] = "done"
    /\ IntEnds(i, "handle")
    /\ itm' = NoDoc
    /\ UNCHANGED <<etm, tables, status, call, ext, deaths, undone>>

\* The job is still running, or has failed: the id of a failed job is cleared on the
\* snapshot, and the document keeps it.
DeletionNotDone(i) ==
    /\ Deprecated(int[i].snap) /\ int[i].snap.job # NoJob
    /\ job[int[i].snap.job] # "done"
    /\ IntEnds(i, "handle")
    /\ UNCHANGED <<etm, itm, tables, status, call, ext, deaths, undone>>

NoChange(i) ==
    /\ int[i].snap.stage \in {"none", "active"}
    /\ IntEnds(i, "handle")
    /\ UNCHANGED <<etm, itm, tables, status, call, ext, deaths, undone>>

InternalDies(i) ==
    /\ int[i].at # "idle"
    /\ deaths < MaxDeaths /\ deaths' = deaths + 1
    /\ int' = [int EXCEPT ![i] = IdleInternal]
    /\ UNCHANGED <<etm, itm, tables, status, call, ext, undone>>

\* BigQuery runs the jobs on one table in turn.
JobEnds(j) ==
    /\ job[j] = "running"
    /\ \E k \in DOMAIN queue :
          /\ queue[k] = j
          /\ "overtakes" \in Mishap \/ k = 1
          /\ queue' = RemoveAt(queue, k)
    /\ \/ job' = [job EXCEPT ![j] = "done"] /\ unified' = FALSE
       \/ /\ "deletion_fails" \in Mishap
          /\ job' = [job EXCEPT ![j] = "failed"] /\ UNCHANGED unified
    /\ UNCHANGED <<etm, itm, local, status, call, managers>>

HandleInternal(i) ==
    \/ ActivateInternal(i) \/ InsertDeletion(i) \/ RecordDeletion(i)
    \/ DeleteInternalDocument(i) \/ DeletionNotDone(i) \/ NoChange(i)

InternalManager(i) ==
    \/ UpdateInternalTasks(i) \/ CopyRows(i) \/ NotifyCompleted(i) \/ SetNotified(i)
    \/ ListInternal(i) \/ HandleInternal(i)

-----------------------------------------------------------------------------
Next ==
    \/ \E c \in Caller : Activate(c) \/ Onboard(c) \/ OnboardFails(c)
    \/ RemoveBilling
    \/ \E e \in External : ExternalManager(e) \/ ExternalDies(e)
    \/ \E i \in Internal : InternalManager(i) \/ InternalDies(i)
    \/ \E j \in Job : JobEnds(j)

Spec == Init /\ [][Next]_vars

\* Calls and runs proceed, managers are scheduled again, and BigQuery ends its jobs.
Fairness ==
    /\ \A c \in Caller : WF_vars(Onboard(c))
    /\ \A e \in External : WF_vars(ExternalManager(e))
    /\ \A i \in Internal : WF_vars(InternalManager(i))
    /\ \A j \in Job : WF_vars(JobEnds(j))

FairSpec == Spec /\ Fairness

-----------------------------------------------------------------------------
TypeOK ==
    /\ etm \in ExternalDoc \cup {NoDoc}
    /\ itm \in InternalDoc \cup {NoDoc}
    /\ local \in {"absent", "empty", "loaded"}
    /\ unified \in BOOLEAN
    /\ status \in {"none", "pending", "started", "completed"}
    /\ job \in [Job -> {"none", "running", "done", "failed"}]
    /\ queue \in Seq(Job)
    /\ call \in [Caller -> CallStep]
    /\ ext \in [External -> ExtRun]
    /\ int \in [Internal -> IntRun]
    /\ deaths \in 0..MaxDeaths
    /\ undone \in BOOLEAN

Live(doc) == doc.stage \in {"created", "active"}

\* The two documents go together, also while calls of Onboard and runs of managers are at
\* work: an internal document has its external one, and an account that has left onboarding
\* has both, without which it cannot be removed.  A removal that has been undone may have
\* been undone in one of the two.
DocumentsAgree ==
    \/ undone
    \/ /\ Live(itm) => Live(etm)
       /\ Live(etm) /\ ~etm.onboarding => Live(itm)

\* The same of an account that is still in onboarding.  One that is left half created can
\* neither be onboarded again (a document exists) nor removed (the other does not).  It
\* holds as long as no call of Onboard fails after it has begun to create the account.
NeverHalfCreated == NoCall /\ Live(etm) => Live(itm)

\* An account that is gone has left nothing behind: no rows in the unified table, no local
\* table that would make the next onboarding fail, and no job that would delete its rows.
RemovedLeavesNothing ==
    NoCall /\ ~Exists(etm) /\ ~Exists(itm) => local = "absent" /\ ~unified /\ queue = <<>>

\* The history takes one step after the other: the internal pipeline copies from a local
\* table that has it, a customer who is told that the import has completed finds rows in
\* the unified table, and one whose history has been reported as copied has been told so:
\* unless a removal, which takes the tables, has been undone.
HistoryInOrder ==
    Live(itm) /\ ~undone =>
        /\ itm.ready => local = "loaded"
        /\ status = "completed" => unified
        /\ itm.history = "notified" => status = "completed"

\* A removal is never undone: a deprecated document stays deprecated until it is deleted.
\* It is, when a manager has listed the account as created before.
DeprecatedIsFinal ==
    [][/\ Deprecated(etm) => Deprecated(etm') \/ ~Exists(etm')
       /\ Deprecated(itm) => Deprecated(itm') \/ ~Exists(itm')]_vars

\* Rows leave the unified table only while their account is being removed: no job of an
\* earlier life deletes the rows of the next one.
LiveRowsKept ==
    [][unified /\ ~unified' => Deprecated(itm)]_vars

\* An account that is removed disappears, unless the removal is undone or the job that
\* deletes its rows has failed: that job is not repeated.
OffboardingEnds ==
    /\ Deprecated(etm) ~> ~Exists(etm) \/ undone
    /\ Deprecated(itm) ~> \/ ~Exists(itm)
                          \/ undone
                          \/ Exists(itm) /\ itm.job # NoJob /\ job[itm.job] = "failed"

\* An import that has been started completes, unless the account is removed first.
OnboardingEnds ==
    (\E c \in Caller : call[c] = "completed" /\ status = "started")
        ~> (status = "completed" \/ ~Live(etm))
=============================================================================
