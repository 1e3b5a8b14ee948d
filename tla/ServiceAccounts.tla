--------------------------- MODULE ServiceAccounts ---------------------------
(***************************************************************************)
(* The service accounts of Flexsave standalone on Google Cloud.  Each      *)
(* customer who begins to onboard is given an account out of a pool; when  *)
(* few are left a cloud task creates more, in the current project, and     *)
(* projects are created ahead of need, for one holds a limited number.     *)
(*                                                                         *)
(* Two documents are shared by all calls and tasks: the pool and the       *)
(* projects.  Each is changed in transactions, but what the transactions   *)
(* are based on is read outside of them: the current project, whether the  *)
(* customer has an account, and how many accounts are left.                *)
(***************************************************************************)
EXTENDS Naturals, FiniteSets

CONSTANTS
    Customer,
    Call,           \* calls of InitOnboarding
    Task,           \* calls of CreateServiceAccounts that may overlap
    Batch,          \* accounts that such a call creates (20)
    Max,            \* accounts in a project, as the code counts them (98)
    Threshold,      \* how many before Max the next project is created (20)
    FreeThreshold,  \* free accounts at which more are asked for (5)
    Quota,          \* accounts that Google allows in a project (100)
    MaxProjects,    \* bound on the projects, chosen so that it is not reached
    MaxFailures,    \* bound on failing steps
    Mishap,         \* what may go wrong, see Mishaps
    NoAccount

\* "attempt_aborted": an attempt of the transaction that reserves is aborted and repeated.
\* "call_fails": a call of InitOnboarding ends early.  "queue_fails": a cloud task is not
\* created.  "task_fails": a task ends before it has created an account.  "account_lost": it
\* ends when the account exists and is not yet in the pool.  "count_lost": when it is in the
\* pool and not counted.  "project_fails": when it is to create a project.
Mishaps == {"attempt_aborted", "call_fails", "queue_fails", "task_fails", "account_lost",
            "count_lost", "project_fails"}

ASSUME ServiceAccountsAssumption ==
    /\ {Batch, Max, Threshold, Quota, MaxProjects} \subseteq Nat \ {0}
    /\ {FreeThreshold, MaxFailures} \subseteq Nat
    /\ Threshold <= Max /\ FreeThreshold < Batch
    /\ Mishap \subseteq Mishaps

\* Projects are numbered as Google creates them; 0 is the empty name.
Project == 1..MaxProjects
NoProject == 0
Account == Project \X (1..Quota)

ASSUME NoAccountAssumption == NoAccount \notin Account

VARIABLES
    opened,     \* the projects that exist are 1..opened
    current,    \* the document of the projects: currentProject,
    next,       \* nextProject,
    count,      \* and the accounts of each project
    made,       \* the accounts that each project really has
    initiated,  \* the document of the environment
    free,       \* the document of the pool: accounts that are free,
    reserved,   \* those reserved, with their customer,
    taken,      \* and those of customers that are activated
    passed,     \* history: the accounts that were reserved once more, for another customer
    documents,  \* the customers whose onboarding document exists
    email,      \* the account in each of these documents
    call,       \* the next step of each call, with its customer and account
    queue,      \* cloud tasks that have been created and are not being handled
    task,       \* the next step of each call of CreateServiceAccounts
    failures    \* the number of steps that have failed

projects  == <<opened, current, next, count>>
pool      == <<free, reserved, taken, passed>>
customers == <<documents, email, call>>
vars == <<projects, made, initiated, pool, customers, queue, task, failures>>

CallStep == {"idle", "lookup", "reserve", "refill", "attach", "succeeded", "failed"}
TaskStep == {"idle", "read_project", "create", "add", "count", "create_project", "add_project"}

\* init: the call is InitEnvironment; left: the accounts still to be created.
TaskRun == [at : TaskStep, init : BOOLEAN, left : 0..Batch, project : Project \cup {NoProject},
            account : Account \cup {NoAccount}]
IdleTask == [at |-> "idle", init |-> FALSE, left |-> 0, project |-> NoProject, account |-> NoAccount]

CallRun == [at : CallStep, customer : Customer, account : Account \cup {NoAccount}]

Init ==
    /\ opened = 0 /\ current = NoProject /\ next = NoProject
    /\ count = [p \in Project |-> 0] /\ made = [p \in Project |-> 0]
    /\ initiated = FALSE
    /\ free = {} /\ reserved = {} /\ taken = {} /\ passed = {}
    /\ documents = {} /\ email = [c \in Customer |-> NoAccount]
    /\ \E of \in [Call -> Customer] :
          call = [r \in Call |-> [at |-> "idle", customer |-> of[r], account |-> NoAccount]]
    /\ queue = 0
    /\ task = [t \in Task |-> IdleTask]
    /\ failures = 0

Fails(kind) == kind \in Mishap /\ failures < MaxFailures /\ failures' = failures + 1

-----------------------------------------------------------------------------
(* InitOnboarding and Activate.                                            *)

Goes(r, from, to) == call[r].at = from /\ call' = [call EXCEPT ![r].at = to]

\* Mutant: a call that finds the document goes on when it has no account yet.
ContinueWhenExists(r) ==
    /\ initiated
    /\ documents' = documents \cup {call[r].customer}
    /\ Goes(r, "idle", IF email[call[r].customer] = NoAccount THEN "lookup" ELSE "succeeded")
    /\ UNCHANGED <<projects, made, initiated, pool, email, queue, task, failures>>

\* The document is created, unless it exists: then the call is over, and has succeeded.
\* Customers come when the environment has been initialised.
CreateDocument(r) ==
    /\ initiated
    /\ \/ /\ call[r].customer \notin documents
          /\ Goes(r, "idle", "lookup")
          /\ documents' = documents \cup {call[r].customer}
       \/ /\ call[r].customer \in documents
          /\ Goes(r, "idle", "succeeded")
          /\ UNCHANGED documents
    /\ UNCHANGED <<projects, made, initiated, pool, email, queue, task, failures>>

\* Mutant: the customer of an account is not compared.
LookupAny(r) ==
    LET own == {a \in Account : \E c \in Customer : <<a, c>> \in reserved \cup taken} IN
    /\ call[r].at = "lookup"
    /\ \/ own = {} /\ call' = [call EXCEPT ![r].at = "reserve"]
       \/ \E a \in own : call' = [call EXCEPT ![r].at = "attach", ![r].account = a]
    /\ UNCHANGED <<projects, made, initiated, pool, documents, email, queue, task, failures>>

\* An account that the customer has been given before.
Lookup(r) ==
    LET own == {a \in Account : <<a, call[r].customer>> \in reserved \cup taken} IN
    /\ call[r].at = "lookup"
    /\ \/ own = {} /\ call' = [call EXCEPT ![r].at = "reserve"]
       \/ \E a \in own : call' = [call EXCEPT ![r].at = "attach", ![r].account = a]
    /\ UNCHANGED <<projects, made, initiated, pool, documents, email, queue, task, failures>>

\* Mutant: more are needed only when fewer are left than the threshold.
ReserveLate(r) ==
    /\ call[r].at = "reserve"
    /\ \E a \in free :
          /\ free' = free \ {a}
          /\ reserved' = reserved \cup {<<a, call[r].customer>>}
          /\ call' = [call EXCEPT ![r].account = a,
                                  ![r].at = IF Cardinality(free') < FreeThreshold
                                            THEN "refill" ELSE "attach"]
    /\ UNCHANGED <<projects, made, initiated, taken, passed, documents, email, queue, task, failures>>

\* The transaction is attempted up to 20 times.  An attempt that is aborted leaves nothing in
\* the pool, but the account it has chosen stays in the result of the call.
AttemptAborted(r) ==
    /\ call[r].at = "reserve"
    /\ \E a \in free : call' = [call EXCEPT ![r].account = a]
    /\ Fails("attempt_aborted")
    /\ UNCHANGED <<projects, made, initiated, pool, documents, email, queue, task>>

\* Some free account is reserved, and it is decided whether more are needed.
Reserve(r) ==
    /\ call[r].at = "reserve"
    /\ \E a \in free :
          /\ free' = free \ {a}
          /\ reserved' = reserved \cup {<<a, call[r].customer>>}
          /\ call' = [call EXCEPT ![r].account = a,
                                  ![r].at = IF Cardinality(free') <= FreeThreshold
                                            THEN "refill" ELSE "attach"]
    /\ UNCHANGED <<projects, made, initiated, taken, passed, documents, email, queue, task, failures>>

\* The entry of the pool for an account is written over.
Assigned(pairs, a, c) == {p \in pairs : p[1] # a} \cup {<<a, c>>}

\* When no account is left, an attempt that follows an aborted one reserves the account that
\* was chosen then, whoever has been given it since.
PassOn(r) ==
    LET a == call[r].account IN
    /\ free = {} /\ a # NoAccount
    /\ Goes(r, "reserve", "refill")
    /\ reserved' = Assigned(reserved, a, call[r].customer)
    /\ passed' = passed \cup {a}
    /\ UNCHANGED <<projects, made, initiated, free, taken, documents, email, queue, task, failures>>

\* Without such an account the empty name is reserved: either Firestore refuses it as
\* the key of a map and the call fails, or more accounts are asked for and the call fails then.
ReserveNothing(r) ==
    /\ free = {} /\ call[r].account = NoAccount
    /\ \/ Goes(r, "reserve", "failed")
       \/ Goes(r, "reserve", "refill")
    /\ UNCHANGED <<projects, made, initiated, pool, documents, email, queue, task, failures>>

\* Mutant: the call does not compare the account with the empty name.
RefillUnchecked(r) ==
    /\ Goes(r, "refill", "attach")
    /\ queue' = queue + 1
    /\ UNCHANGED <<projects, made, initiated, pool, documents, email, task, failures>>

Refill(r) ==
    /\ Goes(r, "refill", IF call[r].account = NoAccount THEN "failed" ELSE "attach")
    /\ queue' = queue + 1
    /\ UNCHANGED <<projects, made, initiated, pool, documents, email, task, failures>>

RefillFails(r) ==
    /\ Goes(r, "refill", "failed")
    /\ Fails("queue_fails")
    /\ UNCHANGED <<projects, made, initiated, pool, documents, email, queue, task>>

Attach(r) ==
    /\ Goes(r, "attach", "succeeded")
    /\ email' = [email EXCEPT ![call[r].customer] = call[r].account]
    /\ UNCHANGED <<projects, made, initiated, pool, documents, queue, task, failures>>

CallFails(r) ==
    /\ call[r].at \in {"lookup", "reserve", "attach"}
    /\ call' = [call EXCEPT ![r].at = "failed",
                            ![r].account = IF call[r].at = "attach" THEN @ ELSE NoAccount]
    /\ Fails("call_fails")
    /\ UNCHANGED <<projects, made, initiated, pool, documents, email, queue, task>>

\* Activate moves the account of the document, whoever it is reserved for.
MarkTaken(c) ==
    /\ \E k \in Customer :
          /\ <<email[c], k>> \in reserved
          /\ reserved' = reserved \ {<<email[c], k>>}
          /\ taken' = Assigned(taken, email[c], k)
    /\ UNCHANGED <<projects, made, initiated, free, passed, customers, queue, task, failures>>

InitOnboarding(r) ==
    \/ CreateDocument(r) \/ Lookup(r) \/ AttemptAborted(r) \/ Reserve(r) \/ PassOn(r)
    \/ ReserveNothing(r) \/ Refill(r) \/ Attach(r)

-----------------------------------------------------------------------------
(* CreateServiceAccounts and InitEnvironment.                              *)

\* Mutant: the current project is read once for the whole batch.
ReadsOnce(run) ==
    IF run.left = 0 THEN IdleTask
    ELSE IF run.project = NoProject THEN [run EXCEPT !.at = "read_project", !.account = NoAccount]
    ELSE [run EXCEPT !.at = "create", !.account = NoAccount]

\* Where a task goes on when an account is finished.
Continued(run) ==
    IF run.left = 0 THEN IdleTask ELSE [run EXCEPT !.at = "read_project", !.account = NoAccount]

Runs(t, run) == task' = [task EXCEPT ![t] = run]
Steps(t, from, to) == task[t].at = from /\ task' = [task EXCEPT ![t].at = to]

\* A task that fails is delivered again, and begins anew.
Failed(t) ==
    /\ Runs(t, IdleTask)
    /\ queue' = IF task[t].init THEN queue ELSE queue + 1

\* Mutant: the loop makes one step too many.
StartsOneMore(t) ==
    /\ task[t].at = "idle" /\ queue > 0
    /\ queue' = queue - 1
    /\ Runs(t, [IdleTask EXCEPT !.at = "read_project", !.left = Batch + 1])
    /\ UNCHANGED <<projects, made, initiated, pool, customers, failures>>

StartTask(t) ==
    /\ task[t].at = "idle" /\ queue > 0
    /\ queue' = queue - 1
    /\ Runs(t, [IdleTask EXCEPT !.at = "read_project", !.left = Batch])
    /\ UNCHANGED <<projects, made, initiated, pool, customers, failures>>

\* An operator initialises the environment, before anything else is created.
StartInit(t) ==
    /\ ~initiated
    /\ \A u \in Task : task[u].at = "idle"
    /\ Runs(t, [IdleTask EXCEPT !.at = "create_project", !.init = TRUE, !.left = Batch])
    /\ UNCHANGED <<projects, made, initiated, pool, customers, queue, failures>>

ReadProject(t) ==
    /\ task[t].at = "read_project"
    /\ Runs(t, [task[t] EXCEPT !.at = "create", !.project = current])
    /\ UNCHANGED <<projects, made, initiated, pool, customers, queue, failures>>

QuotaReached(p) == p # NoProject /\ made[p] >= Quota
Refused(p) == p = NoProject \/ QuotaReached(p)

CreateAccount(t) ==
    LET p == task[t].project IN
    /\ task[t].at = "create" /\ ~Refused(p)
    /\ made' = [made EXCEPT ![p] = @ + 1]
    /\ Runs(t, [task[t] EXCEPT !.at = "add", !.account = <<p, made[p] + 1>>])
    /\ UNCHANGED <<projects, initiated, pool, customers, queue, failures>>

CreationRefused(t) ==
    /\ task[t].at = "create" /\ Refused(task[t].project)
    /\ Failed(t)
    /\ UNCHANGED <<projects, made, initiated, pool, customers, failures>>

AddToPool(t) ==
    /\ Steps(t, "add", "count")
    /\ free' = free \cup {task[t].account}
    /\ UNCHANGED <<projects, made, initiated, reserved, taken, passed, customers, queue, failures>>

\* Mutant: a project is created only while there is a current one.
CountOfCurrent(t) ==
    LET p    == task[t].project
        full == count[p] + 1 >= Max
        run  == [task[t] EXCEPT !.left = @ - 1]
    IN
    /\ task[t].at = "count"
    /\ count' = [count EXCEPT ![p] = @ + 1]
    /\ current' = IF full THEN next ELSE current
    /\ next' = IF full THEN NoProject ELSE next
    /\ IF next' = NoProject /\ current' # NoProject /\ count'[current'] >= Max - Threshold
       THEN Runs(t, [run EXCEPT !.at = "create_project"]) /\ UNCHANGED initiated
       ELSE Runs(t, Continued(run)) /\ initiated' = (initiated \/ (run.init /\ run.left = 0))
    /\ UNCHANGED <<opened, made, pool, customers, queue, failures>>

\* AddServiceAccountToProjects: the count of the account's project, which need not be the
\* current one any more, goes up, and a project that is full makes way for the next.
CountAccount(t) ==
    LET p    == task[t].project
        full == count[p] + 1 >= Max
        run  == [task[t] EXCEPT !.left = @ - 1]
    IN
    /\ task[t].at = "count"
    /\ count' = [count EXCEPT ![p] = @ + 1]
    /\ current' = IF full THEN next ELSE current
    /\ next' = IF full THEN NoProject ELSE next
    /\ IF next' = NoProject /\ (current' = NoProject \/ count'[current'] >= Max - Threshold)
       THEN Runs(t, [run EXCEPT !.at = "create_project"]) /\ UNCHANGED initiated
       ELSE Runs(t, Continued(run)) /\ initiated' = (initiated \/ (run.init /\ run.left = 0))
    /\ UNCHANGED <<opened, made, pool, customers, queue, failures>>

\* createNewProject and the APIs of the project
CreateProject(t) ==
    /\ task[t].at = "create_project"
    /\ opened < MaxProjects /\ opened' = opened + 1
    /\ Runs(t, [task[t] EXCEPT !.at = "add_project", !.project = opened + 1])
    /\ UNCHANGED <<current, next, count, made, initiated, pool, customers, queue, failures>>

AddNewProject(t) ==
    LET p == task[t].project IN
    /\ task[t].at = "add_project"
    /\ count' = [count EXCEPT ![p] = 0]
    /\ IF current = NoProject
       THEN current' = p /\ next' = NoProject
       ELSE next' = p /\ UNCHANGED current
    /\ Runs(t, Continued(task[t]))
    /\ initiated' = (initiated \/ (task[t].init /\ task[t].left = 0))
    /\ UNCHANGED <<opened, made, pool, customers, queue, failures>>

TaskFails(t) ==
    /\ \/ task[t].at \in {"read_project", "create"} /\ Fails("task_fails")
       \/ task[t].at = "add" /\ Fails("account_lost")
       \/ task[t].at = "count" /\ Fails("count_lost")
       \/ task[t].at \in {"create_project", "add_project"} /\ Fails("project_fails")
    /\ Failed(t)
    /\ UNCHANGED <<projects, made, initiated, pool, customers>>

CreateServiceAccounts(t) ==
    \/ StartTask(t) \/ ReadProject(t) \/ CreateAccount(t) \/ CreationRefused(t) \/ AddToPool(t)
    \/ CountAccount(t) \/ CreateProject(t) \/ AddNewProject(t)

-----------------------------------------------------------------------------
Next ==
    \/ \E r \in Call : InitOnboarding(r) \/ RefillFails(r) \/ CallFails(r)
    \/ \E c \in Customer : MarkTaken(c)
    \/ \E t \in Task : CreateServiceAccounts(t) \/ StartInit(t) \/ TaskFails(t)

Spec == Init /\ [][Next]_vars

-----------------------------------------------------------------------------
TypeOK ==
    /\ opened \in 0..MaxProjects
    /\ {current, next} \subseteq 0..opened
    /\ count \in [Project -> Nat]
    /\ made \in [Project -> 0..Quota]
    /\ initiated \in BOOLEAN
    /\ free \subseteq Account
    /\ reserved \subseteq Account \X Customer
    /\ taken \subseteq Account \X Customer
    /\ passed \subseteq Account
    /\ documents \subseteq Customer
    /\ email \in [Customer -> Account \cup {NoAccount}]
    /\ call \in [Call -> CallRun]
    /\ queue \in Nat
    /\ task \in [Task -> TaskRun]
    /\ failures \in 0..MaxFailures

Pool == INSTANCE AccountPool

\* An account that is given is never free again, a customer is given one, and only when the
\* pool is empty may a customer be given one that another customer has: the pool, with its
\* calls and tasks, implements AccountPool.
PoolKept == Pool!Spec

\* The account in a customer's document is one that the pool has given to this customer,
\* and has not given to anybody else unless it has been passed on.
AttachedIsGiven ==
    \A c \in Customer : email[c] # NoAccount =>
        \/ <<email[c], c>> \in reserved \cup taken
        \/ email[c] \in passed

\* Projects follow each other without a gap: new accounts go to a project that is not full,
\* the project after it is unused, and when there is no current one some task is about to
\* create it (without one no account can be created, and so no task gets as far as that).
ProjectsFollow ==
    /\ current # NoProject => count[current] < Max
    /\ next # NoProject => next # current /\ made[next] = 0
    /\ current = NoProject /\ opened > 0 =>
          \E t \in Task : task[t].at \in {"create_project", "add_project"}

\* Google never refuses an account: what tasks that overlap and tasks that fail before an
\* account is counted create beyond Max stays within what Google allows.
QuotaKept ==
    \A t \in Task : task[t].at = "create" => ~QuotaReached(task[t].project)

\* The pool does not run low without a refill on its way, unless a call that has reserved
\* an account has failed: nobody asks again for the refill that it has not asked for.
LowIsBeingRefilled ==
    initiated /\ Cardinality(free) <= FreeThreshold =>
        \/ queue > 0
        \/ \E t \in Task : task[t].at # "idle"
        \/ \E r \in Call :
              call[r].at = "refill" \/ (call[r].at = "failed" /\ call[r].account # NoAccount)

\* A customer who is told that the onboarding has begun has an account, or another call for
\* this customer is still under way or has failed.
SuccessMeansAttached ==
    \A r \in Call : call[r].at = "succeeded" =>
        \/ email[call[r].customer] # NoAccount
        \/ \E s \in Call : /\ call[s].customer = call[r].customer
                           /\ call[s].at \notin {"idle", "succeeded"}
=============================================================================
