------------------------ MODULE ServiceAccountsProofs ------------------------
(***************************************************************************)
(* What is proved of ServiceAccounts, for any customers, calls, tasks and  *)
(* sizes, and for the mishaps that each theorem allows.                    *)
(***************************************************************************)
EXTENDS ServiceAccounts, FiniteSetTheorems, TLAPS

-----------------------------------------------------------------------------
(* Types.  TypeOK alone is not inductive: what a task may do next depends  *)
(* on what it has.                                                         *)

\* A task that is to finish an account has one left to create, and knows it and its project
\* when it has created it; the project of a task exists.
TaskInv ==
    \A t \in Task :
        /\ task[t].project <= opened
        /\ task[t].at \in {"read_project", "create", "add", "count"} => task[t].left > 0
        /\ task[t].at \in {"add", "count"} =>
              task[t].project # NoProject /\ task[t].account # NoAccount
        /\ task[t].at = "add_project" => task[t].project # NoProject

Typed == TypeOK /\ TaskInv

\* The parts of a task.
LEMMA TaskFields ==
    ASSUME TypeOK, NEW t \in Task
    PROVE  /\ task[t] \in TaskRun
           /\ task[t].at \in TaskStep /\ task[t].init \in BOOLEAN
           /\ task[t].left \in 0..Batch
           /\ task[t].project \in Project \cup {NoProject}
           /\ task[t].account \in Account \cup {NoAccount}
  BY DEF TypeOK, TaskRun

\* The parts of a call.
LEMMA CallFields ==
    ASSUME TypeOK, NEW r \in Call
    PROVE  /\ call[r] \in CallRun /\ call[r].at \in CallStep
           /\ call[r].customer \in Customer
           /\ call[r].account \in Account \cup {NoAccount}
  BY DEF TypeOK, CallRun

\* A task is one of its type, and idle tasks are.
LEMMA IdleTyped ==
    ServiceAccountsAssumption => /\ IdleTask \in TaskRun
                                 /\ IdleTask.at = "idle" /\ IdleTask.project = NoProject
  BY DEF IdleTask, TaskRun, TaskStep, ServiceAccountsAssumption

\* The step of one task leaves the other tasks alone.
LEMMA RunsTyped ==
    ASSUME TypeOK, NEW t \in Task, NEW run \in TaskRun, Runs(t, run)
    PROVE  /\ task' \in [Task -> TaskRun]
           /\ task'[t] = run
           /\ \A u \in Task : u # t => task'[u] = task[u]
  BY DEF TypeOK, Runs

\* What is said of one task, when opened does not shrink and the task has it afterwards.
LEMMA TaskInvStep ==
    ASSUME TypeOK, TaskInv, NEW t \in Task, NEW run \in TaskRun, Runs(t, run),
           opened \in Nat, opened' \in Nat, opened' >= opened,
           /\ run.project <= opened'
           /\ run.at \in {"read_project", "create", "add", "count"} => run.left > 0
           /\ run.at \in {"add", "count"} => run.project # NoProject /\ run.account # NoAccount
           /\ run.at = "add_project" => run.project # NoProject
    PROVE  TaskInv'
  <1>1. \A u \in Task : task[u].project \in Nat
    BY TaskFields DEF Project, NoProject
  <1>2. \A u \in Task : u # t => task'[u] = task[u]
    BY RunsTyped
  <1>3. task'[t] = run
    BY RunsTyped
  <1> QED  BY <1>1, <1>2, <1>3 DEF TaskInv

\* A task goes on with another account, or is idle when none is left.
LEMMA ContinuedTyped ==
    ASSUME ServiceAccountsAssumption, NEW run \in TaskRun
    PROVE  /\ Continued(run) \in TaskRun
           /\ Continued(run).at \in {"idle", "read_project"}
           /\ Continued(run).at = "read_project" => run.left > 0 /\ Continued(run).left = run.left
           /\ Continued(run).project \in {run.project, NoProject}
  <1>1. CASE run.left = 0
    BY <1>1, IdleTyped DEF Continued, IdleTask
  <1>2. CASE run.left # 0
    <2>1. Continued(run) = [run EXCEPT !.at = "read_project", !.account = NoAccount]
      BY <1>2 DEF Continued
    <2>2. Continued(run) \in TaskRun /\ Continued(run).at = "read_project"
      BY <2>1 DEF TaskRun, TaskStep
    <2>3. Continued(run).left = run.left /\ Continued(run).project = run.project
      BY <2>1 DEF TaskRun
    <2>4. run.left \in 0..Batch /\ Batch \in Nat
      BY DEF TaskRun, ServiceAccountsAssumption
    <2> QED  BY <1>2, <2>2, <2>3, <2>4
  <1> QED  BY <1>1, <1>2

\* Initially.
LEMMA InitTyped == ServiceAccountsAssumption /\ Init => Typed
  <1> SUFFICES ASSUME ServiceAccountsAssumption, Init PROVE Typed
    OBVIOUS
  <1>1. PICK of \in [Call -> Customer] :
            call = [r \in Call |-> [at |-> "idle", customer |-> of[r], account |-> NoAccount]]
    BY DEF Init
  <1>2. call \in [Call -> CallRun]
    BY <1>1 DEF CallRun, CallStep
  <1>3. task \in [Task -> TaskRun]
    BY IdleTyped DEF Init
  <1>4. TypeOK
    <2>1. /\ opened \in 0..MaxProjects /\ {current, next} \subseteq 0..opened
          /\ count \in [Project -> Nat] /\ made \in [Project -> 0..Quota]
          /\ failures \in 0..MaxFailures
      BY DEF Init, ServiceAccountsAssumption, NoProject
    <2> QED  BY <1>2, <1>3, <2>1 DEF Init, TypeOK
  <1>5. TaskInv
    BY DEF Init, TaskInv, IdleTask, NoProject
  <1> QED  BY <1>4, <1>5 DEF Typed

\* An entry that is written over: the account has the new customer and no other, and the
\* entries of other accounts stay.
LEMMA AssignedPairs ==
    ASSUME NEW pairs, pairs \subseteq Account \X Customer, NEW a \in Account, NEW c \in Customer
    PROVE  /\ Assigned(pairs, a, c) \subseteq Account \X Customer
           /\ \A b, d : <<b, d>> \in Assigned(pairs, a, c) <=>
                         \/ b # a /\ <<b, d>> \in pairs
                         \/ b = a /\ d = c
  BY DEF Assigned

\* A step of a call keeps the types.
LEMMA CallTyped ==
    ASSUME ServiceAccountsAssumption, Typed, NEW r \in Call,
           InitOnboarding(r) \/ RefillFails(r) \/ CallFails(r)
    PROVE  Typed'
  <1> USE DEF projects, pool, customers, Typed
  <1>c. /\ call[r].at \in CallStep /\ call[r].customer \in Customer
        /\ call[r].account \in Account \cup {NoAccount}
        /\ call[r] \in CallRun
    BY CallFields
  <1>g. ASSUME NEW from, NEW to \in CallStep, Goes(r, from, to) PROVE call' \in [Call -> CallRun]
    BY <1>g, <1>c DEF Goes, TypeOK, CallRun
  <1>a. ASSUME NEW a \in Account, NEW to \in CallStep,
               call' = [call EXCEPT ![r].at = to, ![r].account = a]
        PROVE  call' \in [Call -> CallRun]
    BY <1>a, <1>c DEF TypeOK, CallRun
  <1>t. ASSUME UNCHANGED <<task, opened>> PROVE TaskInv'
    BY <1>t DEF TaskInv
  <1>1. CASE CreateDocument(r)
    <2>1. call' \in [Call -> CallRun]
      BY <1>1, <1>g DEF CreateDocument, CallStep
    <2>2. documents' \subseteq Customer
      BY <1>1, <1>c DEF CreateDocument, TypeOK
    <2> QED  BY <1>1, <1>t, <2>1, <2>2 DEF CreateDocument, TypeOK
  <1>2. CASE Lookup(r)
    <2>1. CASE call' = [call EXCEPT ![r].at = "reserve"]
      <3>1. call' \in [Call -> CallRun]
        BY <2>1, <1>c DEF TypeOK, CallRun, CallStep
      <3> QED  BY <1>2, <1>t, <3>1 DEF Lookup, TypeOK
    <2>2. CASE \E a \in Account : call' = [call EXCEPT ![r].at = "attach", ![r].account = a]
      <3>1. call' \in [Call -> CallRun]
        BY <2>2, <1>a DEF CallStep
      <3> QED  BY <1>2, <1>t, <3>1 DEF Lookup, TypeOK
    <2> QED  BY <1>2, <2>1, <2>2 DEF Lookup
  <1>3. CASE Reserve(r)
    <2>1. PICK a \in free :
            /\ free' = free \ {a}
            /\ reserved' = reserved \cup {<<a, call[r].customer>>}
            /\ call' = [call EXCEPT ![r].account = a,
                                    ![r].at = IF Cardinality(free') <= FreeThreshold
                                              THEN "refill" ELSE "attach"]
      BY <1>3 DEF Reserve
    <2>2. a \in Account
      BY DEF TypeOK
    <2>3. PICK to \in {"refill", "attach"} : call' = [call EXCEPT ![r].account = a, ![r].at = to]
      BY <2>1
    <2>4. call' \in [Call -> CallRun]
      BY <2>2, <2>3, <1>c DEF TypeOK, CallRun, CallStep
    <2>5. free' \subseteq Account /\ reserved' \subseteq Account \X Customer
      BY <2>1, <2>2, <1>c DEF TypeOK
    <2> QED  BY <1>3, <1>t, <2>4, <2>5 DEF Reserve, TypeOK
  <1>4. CASE ReserveNothing(r)
    <2>1. call' \in [Call -> CallRun]
      BY <1>4, <1>g DEF ReserveNothing, CallStep
    <2> QED  BY <1>4, <1>t, <2>1 DEF ReserveNothing, TypeOK
  <1>5. CASE Refill(r)
    <2>1. call' \in [Call -> CallRun]
      BY <1>5, <1>g DEF Refill, CallStep
    <2> QED  BY <1>5, <1>t, <2>1 DEF Refill, TypeOK
  <1>6. CASE Attach(r)
    <2>1. call' \in [Call -> CallRun]
      BY <1>6, <1>g DEF Attach, CallStep
    <2>2. email' \in [Customer -> Account \cup {NoAccount}]
      BY <1>6, <1>c DEF Attach, TypeOK
    <2> QED  BY <1>6, <1>t, <2>1, <2>2 DEF Attach, TypeOK
  <1>7. CASE RefillFails(r)
    <2>1. call' \in [Call -> CallRun]
      BY <1>7, <1>g DEF RefillFails, CallStep
    <2>2. failures' \in 0..MaxFailures
      BY <1>7 DEF RefillFails, Fails, TypeOK, ServiceAccountsAssumption
    <2> QED  BY <1>7, <1>t, <2>1, <2>2 DEF RefillFails, TypeOK
  <1>8. CASE CallFails(r)
    <2>1. call' \in [Call -> CallRun]
      BY <1>8, <1>c DEF CallFails, CallStep, TypeOK, CallRun
    <2>2. failures' \in 0..MaxFailures
      BY <1>8 DEF CallFails, Fails, TypeOK, ServiceAccountsAssumption
    <2> QED  BY <1>8, <1>t, <2>1, <2>2 DEF CallFails, TypeOK
  <1>9. CASE AttemptAborted(r)
    <2>1. PICK a \in free : call' = [call EXCEPT ![r].account = a]
      BY <1>9 DEF AttemptAborted
    <2>2. a \in Account
      BY DEF TypeOK
    <2>3. call' \in [Call -> CallRun]
      BY <2>1, <2>2, <1>c DEF TypeOK, CallRun
    <2>4. failures' \in 0..MaxFailures
      BY <1>9 DEF AttemptAborted, Fails, TypeOK, ServiceAccountsAssumption
    <2> QED  BY <1>9, <1>t, <2>3, <2>4 DEF AttemptAborted, TypeOK
  <1>10. CASE PassOn(r)
    <2>1. call' \in [Call -> CallRun]
      BY <1>10, <1>g DEF PassOn, CallStep
    <2>2. call[r].account \in Account /\ reserved \subseteq Account \X Customer
      BY <1>10, <1>c DEF PassOn, TypeOK
    <2>3. reserved' \subseteq Account \X Customer
      BY <1>10, <1>c, <2>2, AssignedPairs DEF PassOn
    <2> QED  BY <1>10, <1>t, <2>1, <2>2, <2>3 DEF PassOn, TypeOK
  <1> QED
    BY <1>1, <1>2, <1>3, <1>4, <1>5, <1>6, <1>7, <1>8, <1>9, <1>10 DEF InitOnboarding

\* Activation keeps the types.
LEMMA TakenTyped ==
    ASSUME Typed, NEW c \in Customer, MarkTaken(c)
    PROVE  Typed'
  <1>1. PICK k \in Customer : /\ <<email[c], k>> \in reserved
                              /\ reserved' = reserved \ {<<email[c], k>>}
                              /\ taken' = Assigned(taken, email[c], k)
    BY DEF MarkTaken
  <1>2. email[c] \in Account
    BY <1>1 DEF Typed, TypeOK
  <1>3. reserved' \subseteq Account \X Customer /\ taken' \subseteq Account \X Customer
    BY <1>1, <1>2, AssignedPairs DEF Typed, TypeOK
  <1> QED  BY <1>3 DEF MarkTaken, Typed, TypeOK, TaskInv, projects, customers

\* A step of a task keeps the types.
LEMMA TaskTyped ==
    ASSUME ServiceAccountsAssumption, Typed, NEW t \in Task,
           CreateServiceAccounts(t) \/ StartInit(t) \/ TaskFails(t)
    PROVE  Typed'
  <1> USE DEF projects, pool, customers, Typed
  <1> DEFINE run == task[t]
  <1>c. /\ run \in TaskRun /\ run.at \in TaskStep /\ run.init \in BOOLEAN
        /\ run.left \in 0..Batch
        /\ run.project \in Project \cup {NoProject}
        /\ run.account \in Account \cup {NoAccount}
    BY TaskFields
  <1>i. /\ run.project <= opened
        /\ run.at \in {"read_project", "create", "add", "count"} => run.left > 0
        /\ run.at \in {"add", "count"} => run.project # NoProject /\ run.account # NoAccount
        /\ run.at = "add_project" => run.project # NoProject
    BY DEF TaskInv
  <1>n. /\ Batch \in Nat /\ Batch > 0 /\ MaxProjects \in Nat /\ Quota \in Nat
        /\ opened \in 0..MaxProjects /\ current \in 0..opened /\ next \in 0..opened
    BY DEF ServiceAccountsAssumption, TypeOK
  <1>s. ASSUME NEW new \in TaskRun, Runs(t, new),
               opened' \in 0..MaxProjects, opened' >= opened, new.project <= opened',
               new.at \in {"read_project", "create", "add", "count"} => new.left > 0,
               new.at \in {"add", "count"} => new.project # NoProject /\ new.account # NoAccount,
               new.at = "add_project" => new.project # NoProject
        PROVE  task' \in [Task -> TaskRun] /\ TaskInv'
    <2>1. opened \in Nat /\ opened' \in Nat
      BY <1>n, <1>s
    <2>2. task' \in [Task -> TaskRun]
      BY <1>s, RunsTyped
    <2>3. TaskInv'
      BY <1>s, <2>1, TaskInvStep
    <2> QED  BY <2>2, <2>3
  <1>idle. ASSUME Runs(t, IdleTask), UNCHANGED opened
           PROVE  task' \in [Task -> TaskRun] /\ TaskInv'
    <2>1. IdleTask \in TaskRun
      BY IdleTyped
    <2> QED  BY <1>idle, <1>n, <2>1, RunsTyped, TaskInvStep DEF IdleTask, NoProject
  <1>failed. ASSUME Failed(t), UNCHANGED opened
             PROVE  task' \in [Task -> TaskRun] /\ TaskInv' /\ queue' \in Nat
    BY <1>failed, <1>idle DEF Failed, TypeOK
  <1>1. CASE StartTask(t)
    <2> DEFINE new == [IdleTask EXCEPT !.at = "read_project", !.left = Batch]
    <2>1. IdleTask \in TaskRun /\ IdleTask.project = NoProject /\ Batch \in 0..Batch
      BY <1>n, IdleTyped
    <2>2. /\ new \in TaskRun /\ new.at = "read_project" /\ new.left = Batch
          /\ new.project = NoProject
      BY <2>1 DEF TaskRun, TaskStep
    <2>4. new.project <= opened /\ new.left > 0
      BY <1>n, <2>2 DEF NoProject
    <2>r. Runs(t, new) /\ UNCHANGED opened
      BY <1>1 DEF StartTask
    <2> HIDE DEF new
    <2>3. task' \in [Task -> TaskRun] /\ TaskInv'
      BY <1>n, <1>s, <2>2, <2>4, <2>r
    <2>5. queue' \in Nat
      BY <1>1 DEF StartTask, TypeOK
    <2> QED  BY <1>1, <2>3, <2>5 DEF StartTask, TypeOK
  <1>2. CASE StartInit(t)
    <2> DEFINE new == [IdleTask EXCEPT !.at = "create_project", !.init = TRUE, !.left = Batch]
    <2>1. IdleTask \in TaskRun /\ IdleTask.project = NoProject /\ Batch \in 0..Batch
      BY <1>n, IdleTyped
    <2>2. new \in TaskRun /\ new.at = "create_project" /\ new.project = NoProject
      BY <2>1 DEF TaskRun, TaskStep
    <2>4. new.project <= opened
      BY <1>n, <2>2 DEF NoProject
    <2>r. Runs(t, new) /\ UNCHANGED opened
      BY <1>2 DEF StartInit
    <2> HIDE DEF new
    <2>3. task' \in [Task -> TaskRun] /\ TaskInv'
      BY <1>n, <1>s, <2>2, <2>4, <2>r
    <2> QED  BY <1>2, <2>3 DEF StartInit, TypeOK
  <1>3. CASE ReadProject(t)
    <2> DEFINE new == [run EXCEPT !.at = "create", !.project = current]
    <2>1. current \in Project \cup {NoProject}
      BY <1>n DEF Project, NoProject
    <2>2. new \in TaskRun /\ new.at = "create" /\ new.left = run.left /\ new.project = current
      BY <1>c, <2>1 DEF TaskRun, TaskStep
    <2>3. run.left > 0
      BY <1>3, <1>i DEF ReadProject
    <2>4. Runs(t, new) /\ UNCHANGED opened
      BY <1>3 DEF ReadProject
    <2> HIDE DEF new
    <2>5. task' \in [Task -> TaskRun] /\ TaskInv'
      BY <1>n, <1>s, <2>2, <2>3, <2>4
    <2> QED  BY <1>3, <2>5 DEF ReadProject, TypeOK
  <1>4. CASE CreateAccount(t)
    <2> DEFINE p == run.project
               new == [run EXCEPT !.at = "add", !.account = <<p, made[p] + 1>>]
    <2>1. p \in Project /\ made[p] \in 0..Quota /\ made[p] < Quota
      BY <1>4, <1>c, <1>n DEF CreateAccount, Refused, QuotaReached, TypeOK
    <2>2. <<p, made[p] + 1>> \in Account /\ p # NoProject
      BY <1>n, <2>1 DEF Account, Project, NoProject
    <2>3. new \in TaskRun /\ new.at = "add" /\ new.left = run.left /\ new.project = p
          /\ new.account = <<p, made[p] + 1>>
      BY <1>c, <2>2 DEF TaskRun, TaskStep
    <2>4. run.left > 0 /\ Runs(t, new) /\ UNCHANGED opened
      BY <1>4, <1>i DEF CreateAccount
    <2>5. new.account # NoAccount
      BY <2>2, <2>3, NoAccountAssumption
    <2> HIDE DEF new
    <2>6. task' \in [Task -> TaskRun] /\ TaskInv'
      BY <1>n, <1>i, <1>s, <2>2, <2>3, <2>4, <2>5
    <2>7. made' \in [Project -> 0..Quota]
      BY <1>4, <1>n, <2>1 DEF CreateAccount, TypeOK
    <2> QED  BY <1>4, <2>6, <2>7 DEF CreateAccount, TypeOK
  <1>5. CASE CreationRefused(t)
    <2>1. task' \in [Task -> TaskRun] /\ TaskInv' /\ queue' \in Nat
      BY <1>5, <1>failed DEF CreationRefused
    <2> QED  BY <1>5, <2>1 DEF CreationRefused, TypeOK
  <1>6. CASE AddToPool(t)
    <2> DEFINE new == [run EXCEPT !.at = "count"]
    <2>1. run.at = "add" /\ task' = [task EXCEPT ![t] = new] /\ UNCHANGED opened
      BY <1>6 DEF AddToPool, Steps
    <2>2. /\ new \in TaskRun /\ new.at = "count" /\ new.left = run.left
          /\ new.project = run.project /\ new.account = run.account
      BY <1>c DEF TaskRun, TaskStep
    <2>r. Runs(t, new)
      BY <2>1 DEF Runs
    <2> HIDE DEF new
    <2>3. task' \in [Task -> TaskRun] /\ TaskInv'
      BY <1>n, <1>i, <1>s, <2>1, <2>2, <2>r
    <2>4. free' \subseteq Account
      BY <1>6, <1>c, <1>i, <2>1 DEF AddToPool, TypeOK
    <2> QED  BY <1>6, <2>3, <2>4 DEF AddToPool, TypeOK
  <1>7. CASE CountAccount(t)
    <2> DEFINE p    == run.project
               less == [run EXCEPT !.left = @ - 1]
               new  == [less EXCEPT !.at = "create_project"]
    <2>1. run.at = "count" /\ run.left > 0 /\ p \in Project /\ UNCHANGED <<opened, made>>
      BY <1>7, <1>i, <1>c DEF CountAccount
    <2>2. less \in TaskRun /\ less.project = p
      BY <1>c, <1>n, <2>1 DEF TaskRun
    <2>3. new \in TaskRun /\ new.project = p /\ new.at = "create_project"
      BY <2>2 DEF TaskRun, TaskStep
    <2>4. Continued(less) \in TaskRun /\ Continued(less).at \in {"idle", "read_project"}
          /\ (Continued(less).at = "read_project" => Continued(less).left > 0)
          /\ Continued(less).project \in {p, NoProject}
      BY <2>2, ContinuedTyped
    <2>r. Runs(t, new) \/ Runs(t, Continued(less))
      BY <1>7 DEF CountAccount
    <2> HIDE DEF new, less
    <2>5. ASSUME Runs(t, new) PROVE task' \in [Task -> TaskRun] /\ TaskInv'
      BY <1>n, <1>i, <1>s, <2>1, <2>3, <2>5
    <2>6. ASSUME Runs(t, Continued(less)) PROVE task' \in [Task -> TaskRun] /\ TaskInv'
      BY <1>n, <1>i, <1>s, <2>1, <2>4, <2>6 DEF NoProject
    <2>7. task' \in [Task -> TaskRun] /\ TaskInv'
      BY <2>r, <2>5, <2>6
    <2>8. count' \in [Project -> Nat] /\ {current', next'} \subseteq 0..opened
      BY <1>7, <1>n, <2>1 DEF CountAccount, TypeOK, NoProject
    <2>9. initiated' \in BOOLEAN
      BY <1>7 DEF CountAccount, TypeOK
    <2> QED  BY <1>7, <2>1, <2>7, <2>8, <2>9 DEF CountAccount, TypeOK
  <1>8. CASE CreateProject(t)
    <2> DEFINE new == [run EXCEPT !.at = "add_project", !.project = opened + 1]
    <2>1. opened + 1 \in Project /\ opened + 1 # NoProject /\ opened' = opened + 1
          /\ opened' \in 0..MaxProjects
      BY <1>8, <1>n DEF CreateProject, Project, NoProject
    <2>2. new \in TaskRun /\ new.at = "add_project" /\ new.project = opened + 1
      BY <1>c, <2>1 DEF TaskRun, TaskStep
    <2>3. Runs(t, new)
      BY <1>8 DEF CreateProject
    <2> HIDE DEF new
    <2>4. task' \in [Task -> TaskRun] /\ TaskInv'
      BY <1>n, <1>s, <2>1, <2>2, <2>3
    <2>5. {current, next} \subseteq 0..opened'
      BY <1>n, <2>1
    <2> QED  BY <1>8, <2>1, <2>4, <2>5 DEF CreateProject, TypeOK
  <1>9. CASE AddNewProject(t)
    <2> DEFINE p == run.project
    <2>1. run.at = "add_project" /\ p \in Project /\ p <= opened /\ UNCHANGED opened
      BY <1>9, <1>i, <1>c DEF AddNewProject
    <2>2. Continued(run) \in TaskRun /\ Continued(run).at \in {"idle", "read_project"}
          /\ (Continued(run).at = "read_project" => Continued(run).left > 0)
          /\ Continued(run).project \in {p, NoProject}
      BY <1>c, ContinuedTyped
    <2>3. Runs(t, Continued(run))
      BY <1>9 DEF AddNewProject
    <2>4. task' \in [Task -> TaskRun] /\ TaskInv'
      BY <1>n, <1>s, <2>1, <2>2, <2>3 DEF NoProject
    <2>5. count' \in [Project -> Nat]
      BY <1>9, <2>1 DEF AddNewProject, TypeOK
    <2>7. p \in 0..opened
      BY <1>n, <2>1 DEF Project
    <2>8. current' \in 0..opened /\ next' \in 0..opened
      BY <1>9, <1>n, <2>7 DEF AddNewProject, NoProject
    <2>6. initiated' \in BOOLEAN
      BY <1>9 DEF AddNewProject, TypeOK
    <2> QED  BY <1>9, <2>1, <2>4, <2>5, <2>6, <2>8 DEF AddNewProject, TypeOK
  <1>10. CASE TaskFails(t)
    <2>1. task' \in [Task -> TaskRun] /\ TaskInv' /\ queue' \in Nat
      BY <1>10, <1>failed DEF TaskFails
    <2>2. failures' \in 0..MaxFailures
      BY <1>10 DEF TaskFails, Fails, TypeOK, ServiceAccountsAssumption
    <2> QED  BY <1>10, <2>1, <2>2 DEF TaskFails, TypeOK
  <1> QED
    BY <1>1, <1>2, <1>3, <1>4, <1>5, <1>6, <1>7, <1>8, <1>9, <1>10 DEF CreateServiceAccounts

\* What Typed says holds in every state.
LEMMA AlwaysTyped == Spec => []Typed
  <1>1. Init => Typed
    BY InitTyped, ServiceAccountsAssumption
  <1>2. Typed /\ UNCHANGED vars => Typed'
    BY DEF Typed, TypeOK, TaskInv, vars, projects, pool, customers
  <1>3. Typed /\ [Next]_vars => Typed'
    BY <1>2, CallTyped, TakenTyped, TaskTyped, ServiceAccountsAssumption DEF Next
  <1> QED  BY <1>1, <1>3, PTL DEF Spec

\* Type correctness, for any calls, tasks and mishaps.
THEOREM TypeCorrect == Spec => []TypeOK
  <1>1. Typed => TypeOK
    BY DEF Typed
  <1> QED  BY <1>1, AlwaysTyped, PTL

-----------------------------------------------------------------------------
(* The pool.  An account that exists is in one hand: it is being added by  *)
(* one task, is free, or is given to a customer.  A customer has one call  *)
(* under way, for only the first one finds that there is no document; a    *)
(* call that reserves finds nothing given because of that.  What a call    *)
(* that reserves has kept of an aborted attempt is free or given away, and *)
(* it is given away when the pool is empty.                                *)

Given == reserved \cup taken

GivenAway(a) == \E c \in Customer : <<a, c>> \in Given

Exists(a) == a[2] <= made[a[1]]

InHand ==
    /\ \A a \in Account : a \in free \/ GivenAway(a) => Exists(a)
    /\ \A t \in Task : task[t].at = "add" =>
          /\ Exists(task[t].account)
          /\ task[t].account \notin free /\ ~GivenAway(task[t].account)
    /\ \A t, u \in Task : task[t].at = "add" /\ task[u].at = "add" /\ t # u =>
          task[t].account # task[u].account

Busy == {"lookup", "reserve", "refill", "attach"}

\* What a call has: one that reserves has a customer without an account, and what it knows of
\* an account is true unless the account has been passed on.
Sound(r) ==
    /\ call[r].at \in Busy => call[r].customer \in documents
    /\ call[r].at = "reserve" => \A a \in Account : <<a, call[r].customer>> \notin Given
    /\ call[r].account # NoAccount => call[r].account \in free \/ GivenAway(call[r].account)
    /\ call[r].account # NoAccount /\ call[r].at # "reserve" =>
          <<call[r].account, call[r].customer>> \in Given \/ call[r].account \in passed
    /\ call[r].at = "attach" => call[r].account # NoAccount

OneCall ==
    /\ \A r \in Call : Sound(r)
    /\ \A r, s \in Call : call[r].at \in Busy /\ call[s].at \in Busy /\ r # s =>
          call[r].customer # call[s].customer

\* An account that is given is not free, and has one customer unless it has been passed on;
\* a customer has one account.
GivenOnce ==
    /\ \A a \in Account : \A c, k \in Customer :
          <<a, c>> \in Given => a \notin free /\ (<<a, k>> \in Given => c = k \/ a \in passed)
    /\ \A a, b \in Account : \A c \in Customer :
          <<a, c>> \in Given /\ <<b, c>> \in Given => a = b
    /\ \A a \in passed : GivenAway(a)

PoolInv == Typed /\ InHand /\ OneCall /\ AttachedIsGiven /\ GivenOnce

\* What a step never does: only an account that is passed on is taken from a customer, no
\* account is forgotten, and none that has been passed on.
Keeps ==
    /\ passed \subseteq passed'
    /\ \A a \in Account : \A c \in Customer :
          <<a, c>> \in Given => <<a, c>> \in Given' \/ a \in passed'
    /\ \A a \in Account : GivenAway(a) => GivenAway(a)'
    /\ \A a \in free : a \in free' \/ GivenAway(a)'

\* Given pairs are pairs.
LEMMA GivenPairs == ASSUME TypeOK PROVE Given \subseteq Account \X Customer
  BY DEF TypeOK, Given

\* An account exists as soon as it has been created, and for good.
LEMMA MadeGrows ==
    ASSUME TypeOK, made' \in [Project -> 0..Quota], \A p \in Project : made'[p] >= made[p],
           Quota \in Nat, NEW a \in Account, Exists(a)
    PROVE  Exists(a)'
  <1>1. a[1] \in Project /\ a[2] \in Nat
    BY DEF Account
  <1>2. made[a[1]] \in Nat /\ made'[a[1]] \in Nat /\ made'[a[1]] >= made[a[1]]
    BY <1>1 DEF TypeOK
  <1> QED  BY <1>1, <1>2 DEF Exists

\* Nobody holds an account that does not exist: not one that is free or given away.
LEMMA Initially == Init => InHand /\ OneCall /\ AttachedIsGiven /\ GivenOnce
  <1> SUFFICES ASSUME Init PROVE InHand /\ OneCall /\ AttachedIsGiven /\ GivenOnce
    OBVIOUS
  <1>1. PICK of \in [Call -> Customer] :
            call = [r \in Call |-> [at |-> "idle", customer |-> of[r], account |-> NoAccount]]
    BY DEF Init
  <1>2. \A r \in Call : call[r].at = "idle" /\ call[r].account = NoAccount
    BY <1>1
  <1>3. \A t \in Task : task[t].at = "idle"
    BY DEF Init, IdleTask
  <1>4. InHand
    BY <1>3 DEF Init, InHand, GivenAway, Given
  <1>5. OneCall
    BY <1>2 DEF OneCall, Sound, Busy
  <1>6. AttachedIsGiven
    BY DEF Init, AttachedIsGiven
  <1>7. GivenOnce
    BY DEF Init, GivenOnce, Given
  <1> QED  BY <1>4, <1>5, <1>6, <1>7

\* A step of a task that touches neither the pool nor the accounts that exist, and after
\* which the task is not adding one.
LEMMA OtherTaskStep ==
    ASSUME TypeOK, InHand, UNCHANGED <<pool, made>>, NEW t \in Task, NEW run,
           Runs(t, run), run.at # "add"
    PROVE  InHand'
  <1>1. \A u \in Task : task'[u].at = "add" => u # t /\ task'[u] = task[u]
    BY DEF TypeOK, Runs
  <1>2. \A a : Exists(a)' <=> Exists(a)
    BY DEF Exists
  <1>3. \A a : GivenAway(a)' <=> GivenAway(a)
    BY DEF GivenAway, Given, pool
  <1>4. free' = free
    BY DEF pool
  <1> QED  BY <1>1, <1>2, <1>3, <1>4 DEF InHand

\* The step of a call, but for the one that reserves, leaves the pool alone.
LEMMA CallKeepsHands ==
    ASSUME InHand, UNCHANGED <<made, pool, task>>
    PROVE  InHand'
  BY DEF InHand, Exists, GivenAway, Given, pool

\* An account that is reserved goes from hand to hand.
LEMMA ReserveKeepsHands ==
    ASSUME Typed, InHand, NEW r \in Call, Reserve(r)
    PROVE  InHand'
  <1>1. PICK a \in free : free' = free \ {a} /\ reserved' = reserved \cup {<<a, call[r].customer>>}
    BY DEF Reserve
  <1>2. UNCHANGED <<made, task, taken>>
    BY DEF Reserve, projects
  <1>3. call[r].customer \in Customer /\ a \in Account
    BY CallFields DEF Typed, TypeOK
  <1>4. \A b : GivenAway(b)' <=> GivenAway(b) \/ b = a
    BY <1>1, <1>2, <1>3 DEF GivenAway, Given
  <1>5. \A b : Exists(b)' <=> Exists(b)
    BY <1>2 DEF Exists
  <1> QED  BY <1>1, <1>2, <1>4, <1>5 DEF InHand

\* An account that is passed on stays given away, and so does one that is taken.
LEMMA AssignedKeepsHands ==
    ASSUME Typed, InHand, UNCHANGED <<made, task, free>>,
           \A b \in Account : GivenAway(b)' <=> GivenAway(b)
    PROVE  InHand'
  <1>1. \A u \in Task : task[u].at = "add" => task[u].account \in Account
    BY TaskFields DEF Typed, TaskInv
  <1>2. \A b : Exists(b)' <=> Exists(b)
    BY DEF Exists
  <1> QED  BY <1>1, <1>2 DEF InHand

\* A new account is in no hand but that of the task that has created it.
LEMMA CreateKeepsHands ==
    ASSUME ServiceAccountsAssumption, Typed, InHand, NEW t \in Task, CreateAccount(t),
           made' \in [Project -> 0..Quota]
    PROVE  InHand'
  <1> DEFINE p == task[t].project
  <1>1. Quota \in Nat
    BY DEF ServiceAccountsAssumption
  <1>2. p \in Project /\ made[p] \in Nat /\ UNCHANGED pool
        /\ made' = [made EXCEPT ![p] = @ + 1]
    BY TaskFields DEF CreateAccount, Refused, Typed, TypeOK
  <1>3. \A q \in Project : made'[q] >= made[q]
    BY <1>1, <1>2 DEF Typed, TypeOK
  <1>4. \A a \in Account : Exists(a) => Exists(a)'
    BY <1>1, <1>3, MadeGrows DEF Typed
  <1>6. PICK new \in Account : new = <<p, made[p] + 1>>
    <2>1. made'[p] = made[p] + 1 /\ made'[p] \in 0..Quota
      BY <1>2 DEF Typed, TypeOK
    <2>2. made[p] + 1 \in 1..Quota
      BY <1>1, <1>2, <2>1
    <2>3. <<p, made[p] + 1>> \in Account
      BY <1>2, <2>2 DEF Account
    <2> QED  BY <2>3
  <1>5. Exists(new)' /\ ~Exists(new)
    BY <1>1, <1>2, <1>6 DEF Exists, Typed, TypeOK
  <1>7. /\ task'[t].at = "add" /\ task'[t].account = new
        /\ \A u \in Task : u # t => task'[u] = task[u]
    BY <1>6, TaskFields DEF CreateAccount, Runs, Typed, TypeOK, TaskRun
  <1>8. \A u \in Task : task[u].at = "add" => task[u].account \in Account
    BY TaskFields DEF Typed, TaskInv
  <1>9. free' = free /\ \A a : GivenAway(a)' <=> GivenAway(a)
    BY <1>2 DEF pool, GivenAway, Given
  <1>10. \A a \in Account : a \in free' \/ GivenAway(a)' => Exists(a)'
    BY <1>4, <1>9 DEF InHand
  <1>11. ASSUME NEW u \in Task, task'[u].at = "add"
         PROVE  /\ Exists(task[u].account)'
                /\ (task[u].account \notin free)' /\ ~GivenAway(task[u].account)'
    <2>1. CASE u = t
      BY ZenonT(60), <1>5, <1>6, <1>7, <1>9, <2>1 DEF InHand, Exists, GivenAway, Given
    <2>2. CASE u # t
      <3> DEFINE a == task[u].account
      <3>1. a \in Account /\ Exists(a) /\ a \notin free /\ ~GivenAway(a)
        BY <1>7, <1>8, <1>11, <2>2 DEF InHand
      <3>2. task'[u].account = a
        BY <1>7, <2>2
      <3> QED  BY <1>4, <1>9, <3>1, <3>2 DEF Exists, GivenAway, Given
    <2> QED  BY <2>1, <2>2
  <1>12. ASSUME NEW u \in Task, task[u].at = "add", u # t PROVE task'[u].account # new
    BY <1>5, <1>7, <1>12 DEF InHand, Exists
  <1>13. \A u, w \in Task : task'[u].at = "add" /\ task'[w].at = "add" /\ u # w =>
            task'[u].account # task'[w].account
    BY <1>7, <1>12 DEF InHand
  <1> QED  BY <1>10, <1>11, <1>13 DEF InHand

\* An account that a task has created goes to the pool.
LEMMA AddKeepsHands ==
    ASSUME Typed, InHand, NEW t \in Task, AddToPool(t)
    PROVE  InHand'
  <1>1. task[t].at = "add" /\ task'[t].at = "count"
        /\ \A u \in Task : u # t => task'[u] = task[u]
    BY TaskFields DEF AddToPool, Steps, Typed, TypeOK, TaskRun
  <1>2. PICK a \in Account : a = task[t].account
    BY <1>1, TaskFields DEF Typed, TaskInv
  <1>3. free' = free \cup {a} /\ UNCHANGED <<made, reserved, taken>>
    BY <1>2 DEF AddToPool, projects
  <1>4. \A b : (Exists(b)' <=> Exists(b)) /\ (GivenAway(b)' <=> GivenAway(b))
    BY <1>3 DEF Exists, GivenAway, Given
  <1>5. Exists(a) /\ a \notin free /\ ~GivenAway(a)
    BY <1>1, <1>2 DEF InHand
  <1>6. \A u \in Task : task'[u].at = "add" =>
            task'[u] = task[u] /\ u # t /\ task[u].account # a
    BY <1>1, <1>2 DEF InHand
  <1> QED  BY <1>3, <1>4, <1>5, <1>6 DEF InHand

\* A step of a task keeps every account in one hand.
LEMMA TaskKeepsHands ==
    ASSUME ServiceAccountsAssumption, Typed, Typed', InHand, NEW t \in Task,
           CreateServiceAccounts(t) \/ StartInit(t) \/ TaskFails(t)
    PROVE  InHand'
  <1> USE DEF projects
  <1>t. TypeOK /\ TypeOK' /\ task[t] \in TaskRun
    BY TaskFields DEF Typed
  <1>i. IdleTask.at # "add"
    BY IdleTyped
  <1>o. ASSUME NEW run, Runs(t, run), run.at # "add", UNCHANGED <<pool, made>> PROVE InHand'
    BY <1>t, <1>o, OtherTaskStep
  <1>1. CASE StartTask(t)
    <2>1. [IdleTask EXCEPT !.at = "read_project", !.left = Batch].at # "add"
      BY DEF IdleTask
    <2> QED  BY <1>1, <1>o, <2>1 DEF StartTask
  <1>2. CASE StartInit(t)
    <2>1. [IdleTask EXCEPT !.at = "create_project", !.init = TRUE, !.left = Batch].at # "add"
      BY DEF IdleTask
    <2> QED  BY <1>2, <1>o, <2>1 DEF StartInit
  <1>3. CASE ReadProject(t)
    <2>1. [task[t] EXCEPT !.at = "create", !.project = current].at # "add"
      BY <1>t DEF TaskRun
    <2> QED  BY <1>3, <1>o, <2>1 DEF ReadProject
  <1>4. CASE CreateAccount(t)
    BY <1>4, <1>t, CreateKeepsHands DEF TypeOK
  <1>5. CASE CreationRefused(t) \/ TaskFails(t)
    BY <1>5, <1>o, <1>i DEF CreationRefused, TaskFails, Failed
  <1>6. CASE AddToPool(t)
    BY <1>6, AddKeepsHands
  <1>7. CASE CountAccount(t)
    <2> DEFINE less == [task[t] EXCEPT !.left = @ - 1]
    <2>1. less.at = "count" /\ [less EXCEPT !.at = "create_project"].at # "add"
      BY <1>7, <1>t DEF CountAccount, TaskRun
    <2>2. Continued(less).at # "add"
      BY <2>1, <1>i DEF Continued
    <2> QED  BY <1>7, <1>o, <2>1, <2>2 DEF CountAccount
  <1>8. CASE CreateProject(t)
    <2>1. [task[t] EXCEPT !.at = "add_project", !.project = opened + 1].at # "add"
      BY <1>t DEF TaskRun
    <2> QED  BY <1>8, <1>o, <2>1 DEF CreateProject
  <1>9. CASE AddNewProject(t)
    <2>1. Continued(task[t]).at # "add"
      BY <1>t, ContinuedTyped
    <2> QED  BY <1>9, <1>o, <2>1 DEF AddNewProject
  <1> QED
    BY <1>1, <1>2, <1>3, <1>4, <1>5, <1>6, <1>7, <1>8, <1>9 DEF CreateServiceAccounts

\* What is known of calls is not changed by who is not a call.
LEMMA OthersKeepCalls ==
    ASSUME TypeOK, OneCall, AttachedIsGiven, UNCHANGED customers, Keeps, Given' \subseteq Given
    PROVE  OneCall' /\ AttachedIsGiven'
  <1>1. \A r \in Call : call'[r] = call[r] /\ call[r].customer \in Customer
                        /\ (call[r].account # NoAccount => call[r].account \in Account)
    BY CallFields DEF customers
  <1>2. ASSUME NEW r \in Call PROVE Sound(r)'
    BY <1>1 DEF OneCall, Sound, Keeps, Busy, customers
  <1>3. OneCall'
    BY <1>2 DEF OneCall, customers
  <1>4. AttachedIsGiven'
    BY DEF AttachedIsGiven, Keeps, Given, TypeOK, customers
  <1> QED  BY <1>3, <1>4

\* Nothing is taken from anybody when the pool stays as it is.
LEMMA SamePool ==
    ASSUME UNCHANGED pool
    PROVE  /\ Keeps /\ Given' = Given /\ (GivenOnce => GivenOnce')
           /\ \A a : (GivenAway(a)' <=> GivenAway(a))
  BY DEF Keeps, GivenAway, Given, GivenOnce, pool

\* A free account is given to a customer who has none.
LEMMA ReserveGives ==
    ASSUME TypeOK, GivenOnce, NEW a \in free, NEW c \in Customer, free' = free \ {a},
           reserved' = reserved \cup {<<a, c>>}, UNCHANGED <<taken, passed>>,
           \A b \in Account : <<b, c>> \notin Given
    PROVE  Keeps /\ GivenOnce' /\ Given' = Given \cup {<<a, c>>}
  <1>1. Given' = Given \cup {<<a, c>>}
    BY DEF Given
  <1>2. a \in Account /\ \A d \in Customer : <<a, d>> \notin Given
    BY DEF GivenOnce, TypeOK
  <1>3. \A b : GivenAway(b)' <=> GivenAway(b) \/ b = a
    BY <1>1 DEF GivenAway
  <1>4. Keeps
    BY <1>1, <1>3 DEF Keeps
  <1>5. ASSUME NEW b \in Account, NEW d \in Customer, <<b, d>> \in Given'
        PROVE  \/ <<b, d>> \in Given /\ b # a /\ d # c
               \/ b = a /\ d = c
    BY <1>1, <1>2, <1>5
  <1>6. ASSUME NEW b \in Account, NEW d \in Customer, NEW k \in Customer, <<b, d>> \in Given'
        PROVE  b \notin free' /\ (<<b, k>> \in Given' => d = k \/ b \in passed')
    BY <1>5, <1>6 DEF GivenOnce
  <1>7. ASSUME NEW b \in Account, NEW e \in Account, NEW d \in Customer,
               <<b, d>> \in Given', <<e, d>> \in Given'
        PROVE  b = e
    BY <1>5, <1>7 DEF GivenOnce
  <1>8. \A b \in passed' : GivenAway(b)'
    BY <1>3 DEF GivenOnce
  <1> QED  BY <1>1, <1>4, <1>6, <1>7, <1>8 DEF GivenOnce

\* With an empty pool an account is passed on to a customer who has none.
LEMMA PassOnGives ==
    ASSUME TypeOK, GivenOnce, NEW a \in Account, NEW c \in Customer, free = {}, GivenAway(a),
           reserved' = Assigned(reserved, a, c), passed' = passed \cup {a},
           UNCHANGED <<free, taken>>, \A b \in Account : <<b, c>> \notin Given
    PROVE  /\ Keeps /\ GivenOnce' /\ <<a, c>> \in Given'
           /\ Given' \subseteq Given \cup {<<a, c>>}
           /\ \A b \in Account : GivenAway(b)' <=> GivenAway(b)
  <1>1. \A b, d : <<b, d>> \in reserved' <=> \/ b # a /\ <<b, d>> \in reserved
                                             \/ b = a /\ d = c
    BY AssignedPairs DEF TypeOK
  <1>2. reserved' \subseteq Account \X Customer
    BY AssignedPairs DEF TypeOK
  <1>3. <<a, c>> \in Given'
    BY <1>1 DEF Given
  <1>4. Given' \subseteq Given \cup {<<a, c>>}
    BY <1>1, <1>2 DEF Given
  <1>5. \A b \in Account : \A d \in Customer : b # a => (<<b, d>> \in Given' <=> <<b, d>> \in Given)
    BY <1>1 DEF Given
  <1>6. \A b \in Account : GivenAway(b)' <=> GivenAway(b)
    BY <1>3, <1>5 DEF GivenAway
  <1>7. Keeps
    BY <1>5, <1>6 DEF Keeps
  <1>8. ASSUME NEW b \in Account, NEW d \in Customer, NEW k \in Customer, <<b, d>> \in Given'
        PROVE  b \notin free' /\ (<<b, k>> \in Given' => d = k \/ b \in passed')
    BY <1>5, <1>8 DEF GivenOnce
  <1>9. ASSUME NEW b \in Account, NEW e \in Account, NEW d \in Customer,
               <<b, d>> \in Given', <<e, d>> \in Given'
        PROVE  b = e
    <2>1. CASE d = c
      BY <1>5, <1>9, <2>1
    <2>2. CASE d # c
      BY <1>4, <1>9, <2>2 DEF GivenOnce
    <2> QED  BY <2>1, <2>2
  <1>10. \A b \in passed' : GivenAway(b)'
    BY <1>3, <1>6 DEF GivenOnce, GivenAway, TypeOK
  <1> QED  BY <1>3, <1>4, <1>6, <1>7, <1>8, <1>9, <1>10 DEF GivenOnce

\* Activation gives nothing to anybody, and takes from a customer only what was passed on.
LEMMA TakenGives ==
    ASSUME TypeOK, GivenOnce, NEW c \in Customer, MarkTaken(c)
    PROVE  /\ Keeps /\ GivenOnce' /\ Given' \subseteq Given
           /\ \A b \in Account : GivenAway(b)' <=> GivenAway(b)
  <1>1. PICK k \in Customer : /\ <<email[c], k>> \in reserved
                              /\ reserved' = reserved \ {<<email[c], k>>}
                              /\ taken' = Assigned(taken, email[c], k)
    BY DEF MarkTaken
  <1> DEFINE a == email[c]
  <1>2. a \in Account /\ UNCHANGED <<free, passed>>
    BY <1>1 DEF TypeOK, MarkTaken
  <1>3. \A b, d : <<b, d>> \in taken' <=> \/ b # a /\ <<b, d>> \in taken
                                          \/ b = a /\ d = k
    BY <1>1, <1>2, AssignedPairs DEF TypeOK
  <1>4. taken' \subseteq Account \X Customer /\ <<a, k>> \in Given /\ <<a, k>> \in Given'
    BY <1>1, <1>2, <1>3, AssignedPairs DEF TypeOK, Given
  <1> HIDE DEF a
  <1>5. Given' \subseteq Given
    <2>1. ASSUME NEW b \in Account, NEW d \in Customer, <<b, d>> \in taken'
          PROVE  <<b, d>> \in Given
      BY <1>3, <1>4, <2>1 DEF Given
    <2> QED  BY <1>1, <1>4, <2>1 DEF Given
  <1>6. ASSUME NEW b \in Account, NEW d \in Customer, <<b, d>> \in Given
        PROVE  <<b, d>> \in Given' \/ b \in passed
    <2>1. CASE b # a
      BY <1>1, <1>3, <1>6, <2>1 DEF Given, a
    <2>2. CASE b = a
      BY <1>2, <1>4, <1>6, <2>2 DEF GivenOnce
    <2> QED  BY <2>1, <2>2
  <1>7. \A b \in Account : GivenAway(b)' <=> GivenAway(b)
    <2>1. \A b \in Account : GivenAway(b)' => GivenAway(b)
      BY <1>5 DEF GivenAway
    <2>2. ASSUME NEW b \in Account, GivenAway(b) PROVE GivenAway(b)'
      <3>1. CASE b = a
        BY <1>4, <3>1 DEF GivenAway
      <3>2. CASE b # a
        BY <1>1, <1>3, <2>2, <3>2 DEF GivenAway, Given, a
      <3> QED  BY <3>1, <3>2
    <2> QED  BY <2>1, <2>2
  <1>8. Keeps
    BY <1>2, <1>6, <1>7 DEF Keeps
  <1>9. GivenOnce'
    <2>1. \A b \in passed' : GivenAway(b)'
      BY <1>2, <1>7 DEF GivenOnce, TypeOK
    <2> QED  BY <1>2, <1>5, <2>1 DEF GivenOnce
  <1> QED  BY <1>5, <1>7, <1>8, <1>9

\* What is to be shown of the call that moves.
LEMMA CallMoves ==
    ASSUME TypeOK, OneCall, NEW r \in Call, Keeps, documents \subseteq documents',
           \A s \in Call : s # r => call'[s] = call[s],
           call'[r].customer = call[r].customer,
           call'[r].at \in Busy => call[r].at \in Busy \/ call[r].customer \notin documents,
           Sound(r)',
           \/ Given' \subseteq Given
           \/ /\ call[r].at = "reserve"
              /\ \A a \in Account : \A c \in Customer :
                    <<a, c>> \in Given' => <<a, c>> \in Given \/ c = call[r].customer
    PROVE  OneCall'
  <1>1. ASSUME NEW s \in Call, NEW u \in Call, call'[s].at \in Busy, call'[u].at \in Busy, s # u
        PROVE  call'[s].customer # call'[u].customer
    <2>1. ASSUME NEW w \in Call, w # r, call'[w].at \in Busy, call'[r].at \in Busy
          PROVE  call'[w].customer # call'[r].customer
      <3>1. call[w].at \in Busy /\ call[w].customer \in documents
        BY <2>1 DEF OneCall, Sound
      <3> QED  BY <2>1, <3>1 DEF OneCall
    <2>2. CASE s = r \/ u = r
      BY <1>1, <2>1, <2>2
    <2>3. CASE s # r /\ u # r
      BY <1>1, <2>3 DEF OneCall
    <2> QED  BY <2>2, <2>3
  <1>2. ASSUME NEW s \in Call, s # r PROVE Sound(s)'
    <2>1. /\ Sound(s) /\ call'[s] = call[s] /\ call[s].customer \in Customer
          /\ call[s].account # NoAccount => call[s].account \in Account
      BY <1>2, CallFields DEF OneCall
    <2>2. call[s].at = "reserve" => \A a \in Account : <<a, call[s].customer>> \notin Given'
      BY <1>2, <2>1 DEF OneCall, Sound, Busy
    <2>3. call[s].account # NoAccount => (call[s].account \in free \/ GivenAway(call[s].account))'
      BY <2>1 DEF Sound, Keeps
    <2>4. call[s].account # NoAccount /\ call[s].at # "reserve" =>
             <<call[s].account, call[s].customer>> \in Given' \/ call[s].account \in passed'
      BY <2>1 DEF Sound, Keeps
    <2> QED  BY <2>1, <2>2, <2>3, <2>4 DEF Sound
  <1> QED  BY <1>1, <1>2 DEF OneCall

\* The call that moves, when the pool stays as it is.
LEMMA CallGoesOn ==
    ASSUME TypeOK, OneCall, NEW r \in Call, UNCHANGED pool, documents \subseteq documents',
           \A s \in Call : s # r => call'[s] = call[s],
           call'[r].customer = call[r].customer,
           call'[r].at \in Busy => \/ call[r].at \in Busy
                                   \/ /\ call[r].customer \notin documents
                                      /\ call[r].customer \in documents',
           call'[r].at = "reserve" => \A a \in Account : <<a, call[r].customer>> \notin Given,
           \/ call'[r].account = NoAccount /\ call'[r].at # "attach"
           \/ call'[r].account \in free /\ call'[r].at = "reserve"
           \/ call'[r].account # NoAccount /\ <<call'[r].account, call[r].customer>> \in Given
           \/ /\ call'[r].account = call[r].account /\ call[r].account # NoAccount
              /\ call[r].at # "reserve"
    PROVE  OneCall'
  <1>1. /\ Keeps /\ Given' = Given /\ UNCHANGED <<free, passed>>
        /\ \A a : (GivenAway(a)' <=> GivenAway(a))
    BY SamePool DEF pool
  <1>2. Sound(r) /\ call[r].customer \in Customer
    BY CallFields DEF OneCall
  <1>3. call'[r].account # NoAccount =>
           \/ call'[r].account \in free /\ call'[r].at = "reserve"
           \/ /\ GivenAway(call'[r].account)
              /\ <<call'[r].account, call[r].customer>> \in Given
           \/ call'[r].account = call[r].account /\ call[r].at # "reserve"
    BY <1>2 DEF GivenAway
  <1>4. call'[r].account # NoAccount => call'[r].account \in free \/ GivenAway(call'[r].account)
    BY <1>2, <1>3 DEF Sound
  <1>5. call'[r].account # NoAccount /\ call'[r].at # "reserve" =>
           <<call'[r].account, call[r].customer>> \in Given \/ call'[r].account \in passed
    BY <1>2, <1>3 DEF Sound
  <1>6. call'[r].at \in Busy => call'[r].customer \in documents'
    BY <1>2 DEF Sound
  <1>7. Sound(r)'
    BY <1>1, <1>4, <1>5, <1>6 DEF Sound, GivenAway
  <1> QED  BY <1>1, <1>7, CallMoves

\* What is attached stays, when the step attaches nothing.
LEMMA AttachedStays ==
    ASSUME TypeOK, AttachedIsGiven, UNCHANGED email, Keeps
    PROVE  AttachedIsGiven'
  BY DEF AttachedIsGiven, Keeps, Given, TypeOK

\* A step of a call keeps the calls of a customer apart, and what is attached is given.
LEMMA CallsKept ==
    ASSUME PoolInv, NEW r \in Call, InitOnboarding(r) \/ RefillFails(r) \/ CallFails(r)
    PROVE  OneCall' /\ AttachedIsGiven' /\ GivenOnce'
  <1> USE DEF PoolInv, projects, customers
  <1> DEFINE c == call[r].customer
  <1>t. TypeOK
    BY DEF Typed
  <1>c. /\ call[r].at \in CallStep /\ c \in Customer
        /\ call[r].account \in Account \cup {NoAccount} /\ call[r] \in CallRun
    BY <1>t, CallFields
  <1>b. Sound(r) /\ OneCall
    BY DEF OneCall
  <1>g. ASSUME NEW from, NEW to, Goes(r, from, to)
        PROVE  /\ call[r].at = from /\ call'[r].at = to
               /\ call'[r].customer = c /\ call'[r].account = call[r].account
               /\ \A s \in Call : s # r => call'[s] = call[s]
    BY <1>g, <1>t, <1>c DEF Goes, TypeOK, CallRun
  <1>p. ASSUME UNCHANGED pool
        PROVE  /\ Keeps /\ Given' = Given /\ GivenOnce' /\ UNCHANGED <<free, passed>>
               /\ \A a : (GivenAway(a)' <=> GivenAway(a))
    BY <1>p, SamePool DEF pool
  <1>1. CASE CreateDocument(r)
    <2>1. UNCHANGED <<pool, email>>
      BY <1>1 DEF CreateDocument
    <2>2. PICK to \in {"lookup", "succeeded"} :
            /\ Goes(r, "idle", to) /\ documents \subseteq documents'
            /\ to = "lookup" => c \notin documents /\ documents' = documents \cup {c}
      BY <1>1 DEF CreateDocument
    <2>3. OneCall'
      <3>1. /\ call[r].at = "idle" /\ call'[r].at = to /\ call'[r].customer = c
            /\ call'[r].account = call[r].account
            /\ \A s \in Call : s # r => call'[s] = call[s]
        BY <1>g, <2>2
      <3>2. call[r].account = NoAccount \/ call[r].account # NoAccount
        OBVIOUS
      <3> QED  BY <1>t, <1>b, <2>1, <2>2, <3>1, <3>2, CallGoesOn DEF Busy
    <2> QED  BY <1>t, <1>p, <2>1, <2>3, AttachedStays
  <1>2. CASE Lookup(r)
    <2>1. UNCHANGED <<pool, email, documents>> /\ call[r].at = "lookup"
      BY <1>2 DEF Lookup
    <2>2. CASE /\ \A a \in Account : <<a, c>> \notin Given
               /\ call' = [call EXCEPT ![r].at = "reserve"]
      <3>1. Goes(r, "lookup", "reserve")
        BY <2>1, <2>2 DEF Goes
      <3>2. OneCall'
        BY <1>t, <1>b, <1>g, <2>1, <2>2, <3>1, CallGoesOn DEF Busy
      <3> QED  BY <1>t, <1>p, <2>1, <3>2, AttachedStays
    <2>3. CASE \E a \in Account : /\ <<a, c>> \in Given
                                  /\ call' = [call EXCEPT ![r].at = "attach", ![r].account = a]
      <3>1. PICK a \in Account : /\ <<a, c>> \in Given
                                 /\ call' = [call EXCEPT ![r].at = "attach", ![r].account = a]
        BY <2>3
      <3>2. /\ call'[r].at = "attach" /\ call'[r].account = a /\ call'[r].customer = c
            /\ \A s \in Call : s # r => call'[s] = call[s]
        BY <3>1, <1>t, <1>c DEF TypeOK, CallRun
      <3>3. a # NoAccount
        BY NoAccountAssumption
      <3>7. OneCall'
        BY <1>t, <1>b, <2>1, <3>1, <3>2, <3>3, CallGoesOn DEF Busy
      <3> QED  BY <1>t, <1>p, <2>1, <3>7, AttachedStays
    <2> QED  BY <1>2, <2>2, <2>3 DEF Lookup, Given
  <1>3. CASE Reserve(r)
    <2>1. PICK a \in free :
            /\ free' = free \ {a}
            /\ reserved' = reserved \cup {<<a, c>>}
            /\ call' = [call EXCEPT ![r].account = a,
                                    ![r].at = IF Cardinality(free') <= FreeThreshold
                                              THEN "refill" ELSE "attach"]
      BY <1>3 DEF Reserve
    <2>2. UNCHANGED <<email, documents, taken, passed>> /\ call[r].at = "reserve"
      BY <1>3 DEF Reserve
    <2>3. a \in Account /\ a # NoAccount
      BY <1>t, NoAccountAssumption DEF TypeOK
    <2>n. \A b \in Account : <<b, c>> \notin Given
      BY <1>b, <2>2 DEF Sound
    <2>4. Keeps /\ GivenOnce' /\ Given' = Given \cup {<<a, c>>}
      BY <1>t, <1>c, <2>1, <2>2, <2>n, ReserveGives
    <2>5. /\ call'[r].at \in {"refill", "attach"} /\ call'[r].account = a /\ call'[r].customer = c
          /\ \A s \in Call : s # r => call'[s] = call[s]
      BY <2>1, <1>t, <1>c DEF TypeOK, CallRun
    <2>6. <<a, c>> \in Given' /\ GivenAway(a)'
      BY <1>c, <2>4 DEF GivenAway
    <2>7. c \in documents'
      BY <1>b, <2>2 DEF Sound, Busy
    <2>8. Sound(r)'
      BY <2>3, <2>5, <2>6, <2>7 DEF Sound
    <2>9. OneCall'
      BY <1>t, <1>b, <2>2, <2>4, <2>5, <2>8, CallMoves DEF Busy
    <2> QED  BY <1>t, <2>2, <2>4, <2>9, AttachedStays
  <1>4. CASE PassOn(r)
    <2> DEFINE a == call[r].account
    <2>1. /\ free = {} /\ a # NoAccount /\ Goes(r, "reserve", "refill")
          /\ reserved' = Assigned(reserved, a, c) /\ passed' = passed \cup {a}
          /\ UNCHANGED <<free, taken, email, documents>>
      BY <1>4 DEF PassOn
    <2>2. a \in Account /\ GivenAway(a)
      BY <1>b, <1>c, <2>1 DEF Sound
    <2>3. call[r].at = "reserve" /\ c \in documents /\ \A b \in Account : <<b, c>> \notin Given
      BY <1>b, <2>1 DEF Goes, Sound, Busy
    <2>4. /\ Keeps /\ GivenOnce' /\ <<a, c>> \in Given'
          /\ Given' \subseteq Given \cup {<<a, c>>} /\ GivenAway(a)'
      <3>1. /\ Keeps /\ GivenOnce' /\ <<a, c>> \in Given'
            /\ Given' \subseteq Given \cup {<<a, c>>}
            /\ \A b \in Account : GivenAway(b)' <=> GivenAway(b)
        <4> HIDE DEF a
        <4> QED  BY <1>t, <1>c, <2>1, <2>2, <2>3, PassOnGives
      <3>2. GivenAway(a)'
        BY <1>c, <1>g, <2>1, <3>1 DEF GivenAway
      <3> QED  BY <3>1, <3>2
    <2>5. /\ call'[r].at = "refill" /\ call'[r].account = a /\ call'[r].customer = c
          /\ \A s \in Call : s # r => call'[s] = call[s]
      BY <1>g, <2>1
    <2>7. Sound(r)'
      BY <2>1, <2>3, <2>4, <2>5 DEF Sound
    <2>8. \A b \in Account : \A d \in Customer : <<b, d>> \in Given' => <<b, d>> \in Given \/ d = c
      BY <2>4
    <2>6. OneCall'
      BY <1>t, <1>b, <2>1, <2>3, <2>4, <2>5, <2>7, <2>8, CallMoves DEF Busy
    <2> QED  BY <1>t, <2>1, <2>4, <2>6, AttachedStays
  <1>5. CASE AttemptAborted(r)
    <2>1. UNCHANGED <<pool, email, documents>> /\ call[r].at = "reserve"
      BY <1>5 DEF AttemptAborted
    <2>2. PICK a \in free : call' = [call EXCEPT ![r].account = a]
      BY <1>5 DEF AttemptAborted
    <2>3. /\ call'[r].at = "reserve" /\ call'[r].account = a /\ call'[r].customer = c
          /\ \A s \in Call : s # r => call'[s] = call[s]
      BY <2>1, <2>2, <1>t, <1>c DEF TypeOK, CallRun
    <2>4. OneCall'
      BY <1>t, <1>b, <2>1, <2>2, <2>3, CallGoesOn DEF Busy, Sound
    <2> QED  BY <1>t, <1>p, <2>1, <2>4, AttachedStays
  <1>6. CASE ReserveNothing(r)
    <2>1. UNCHANGED <<pool, email, documents>> /\ call[r].account = NoAccount
      BY <1>6 DEF ReserveNothing
    <2>2. PICK to \in {"failed", "refill"} : Goes(r, "reserve", to)
      BY <1>6 DEF ReserveNothing
    <2>3. OneCall'
      BY <1>t, <1>b, <1>g, <2>1, <2>2, CallGoesOn DEF Busy
    <2> QED  BY <1>t, <1>p, <2>1, <2>3, AttachedStays
  <1>7. CASE Refill(r)
    <2>1. UNCHANGED <<pool, email, documents>>
      BY <1>7 DEF Refill
    <2>2. PICK to \in {"failed", "attach"} :
            Goes(r, "refill", to) /\ (to = "attach" => call[r].account # NoAccount)
      BY <1>7 DEF Refill
    <2>3. OneCall'
      <3>1. /\ call'[r].at = to /\ call[r].at = "refill" /\ call'[r].customer = c
            /\ call'[r].account = call[r].account
            /\ \A s \in Call : s # r => call'[s] = call[s]
        BY <1>g, <2>2
      <3>2. call[r].at \in Busy
        BY <3>1 DEF Busy
      <3> QED  BY <1>t, <1>b, <2>1, <2>2, <3>1, <3>2, CallGoesOn
    <2> QED  BY <1>t, <1>p, <2>1, <2>3, AttachedStays
  <1>8. CASE Attach(r)
    <2>1. UNCHANGED <<pool, documents>> /\ Goes(r, "attach", "succeeded")
          /\ email' = [email EXCEPT ![c] = call[r].account]
      BY <1>8 DEF Attach
    <2>2. OneCall'
      BY <1>t, <1>b, <1>g, <2>1, CallGoesOn DEF Busy, Sound
    <2>4. /\ call[r].account # NoAccount
          /\ <<call[r].account, c>> \in Given \/ call[r].account \in passed
      BY <1>b, <1>g, <2>1 DEF Sound
    <2>3. AttachedIsGiven'
      BY <1>t, <1>p, <2>1, <2>4 DEF AttachedIsGiven, Given, TypeOK
    <2> QED  BY <1>p, <2>1, <2>2, <2>3
  <1>9. CASE RefillFails(r) \/ CallFails(r)
    <2>1. UNCHANGED <<pool, email, documents>>
      BY <1>9 DEF RefillFails, CallFails
    <2>2. /\ call'[r].at = "failed" /\ call'[r].customer = c
          /\ call'[r].account # NoAccount =>
                call'[r].account = call[r].account /\ call[r].at # "reserve"
          /\ \A s \in Call : s # r => call'[s] = call[s]
      BY <1>9, <1>t, <1>c DEF RefillFails, CallFails, Goes, TypeOK, CallRun
    <2>3. OneCall'
      BY <1>t, <1>b, <2>1, <2>2, CallGoesOn DEF Busy
    <2> QED  BY <1>t, <1>p, <2>1, <2>3, AttachedStays
  <1> QED
    BY <1>1, <1>2, <1>3, <1>4, <1>5, <1>6, <1>7, <1>8, <1>9 DEF InitOnboarding

\* A step of a call keeps every account in one hand.
LEMMA CallsKeepHands ==
    ASSUME PoolInv, NEW r \in Call, InitOnboarding(r) \/ RefillFails(r) \/ CallFails(r)
    PROVE  InHand'
  <1> USE DEF PoolInv
  <1>1. CASE Reserve(r)
    BY <1>1, ReserveKeepsHands
  <1>2. CASE PassOn(r)
    <2>1. /\ free = {} /\ call[r].account # NoAccount /\ call[r].at = "reserve"
          /\ reserved' = Assigned(reserved, call[r].account, call[r].customer)
          /\ passed' = passed \cup {call[r].account}
          /\ UNCHANGED <<free, taken, made, task>>
      BY <1>2 DEF PassOn, Goes, projects
    <2>2. TypeOK /\ call[r].account \in Account /\ call[r].customer \in Customer
      BY <2>1, CallFields DEF Typed
    <2>3. GivenAway(call[r].account) /\ \A b \in Account : <<b, call[r].customer>> \notin Given
      BY <2>1 DEF OneCall, Sound
    <2>4. \A b \in Account : GivenAway(b)' <=> GivenAway(b)
      BY <2>1, <2>2, <2>3, PassOnGives
    <2> QED  BY <2>1, <2>4, AssignedKeepsHands
  <1>3. CASE ~Reserve(r) /\ ~PassOn(r)
    <2>1. UNCHANGED <<made, pool, task>>
      BY <1>3 DEF InitOnboarding, CreateDocument, Lookup, AttemptAborted, ReserveNothing, Refill,
                  Attach, RefillFails, CallFails, projects
    <2> QED  BY <2>1, CallKeepsHands
  <1> QED  BY <1>1, <1>2, <1>3

\* The step of a task is no step of a call, and gives no account to anybody.
LEMMA TasksLeaveCalls ==
    ASSUME NEW t \in Task, CreateServiceAccounts(t) \/ StartInit(t) \/ TaskFails(t)
    PROVE  UNCHANGED <<customers, reserved, taken, passed>>
  BY DEF CreateServiceAccounts, StartInit, TaskFails, StartTask, ReadProject, CreateAccount,
         CreationRefused, AddToPool, CountAccount, CreateProject, AddNewProject, pool

\* A task adds only an account that nobody has.
LEMMA TasksGiveNothing ==
    ASSUME PoolInv, NEW t \in Task, CreateServiceAccounts(t) \/ StartInit(t) \/ TaskFails(t)
    PROVE  UNCHANGED <<customers, reserved, taken>> /\ Keeps /\ GivenOnce'
  <1>1. UNCHANGED <<customers, reserved, taken, passed>>
    BY TasksLeaveCalls
  <1>2. Given' = Given /\ \A a : (GivenAway(a)' <=> GivenAway(a))
    BY <1>1 DEF Given, GivenAway
  <1>3. CASE AddToPool(t)
    <2>1. free' = free \cup {task[t].account} /\ ~GivenAway(task[t].account)
      BY <1>3 DEF AddToPool, Steps, PoolInv, InHand
    <2> QED  BY <1>1, <1>2, <2>1 DEF Keeps, GivenOnce, GivenAway, PoolInv
  <1>4. CASE ~AddToPool(t)
    <2>1. UNCHANGED pool
      BY <1>4 DEF CreateServiceAccounts, StartInit, TaskFails, StartTask, ReadProject,
             CreateAccount, CreationRefused, CountAccount, CreateProject, AddNewProject, pool
    <2> QED  BY <1>1, <2>1, SamePool DEF PoolInv
  <1> QED  BY <1>3, <1>4

\* The invariant of the pool.
LEMMA PoolInvariant == Spec => []PoolInv
  <1>1. Init => PoolInv
    BY InitTyped, Initially, ServiceAccountsAssumption DEF PoolInv
  <1>2. ASSUME PoolInv, [Next]_vars PROVE PoolInv'
    <2>t. Typed /\ TypeOK /\ InHand /\ OneCall /\ AttachedIsGiven /\ GivenOnce
      BY <1>2 DEF PoolInv, Typed
    <2>1. ASSUME NEW r \in Call, InitOnboarding(r) \/ RefillFails(r) \/ CallFails(r)
          PROVE  PoolInv'
      <3>1. Typed'
        BY <2>1, <2>t, CallTyped, ServiceAccountsAssumption
      <3> QED  BY <1>2, <2>1, <3>1, CallsKept, CallsKeepHands DEF PoolInv
    <2>2. ASSUME NEW c \in Customer, MarkTaken(c) PROVE PoolInv'
      <3>1. UNCHANGED <<free, made, task, customers>>
        BY <2>2 DEF MarkTaken, projects
      <3>2. /\ Keeps /\ GivenOnce' /\ Given' \subseteq Given
            /\ \A b \in Account : GivenAway(b)' <=> GivenAway(b)
        BY <2>2, <2>t, TakenGives
      <3>3. InHand'
        BY <2>t, <3>1, <3>2, AssignedKeepsHands
      <3>4. OneCall' /\ AttachedIsGiven'
        BY <2>t, <3>1, <3>2, OthersKeepCalls
      <3>5. Typed'
        BY <2>2, <2>t, TakenTyped
      <3> QED  BY <3>2, <3>3, <3>4, <3>5 DEF PoolInv
    <2>3. ASSUME NEW t \in Task, CreateServiceAccounts(t) \/ StartInit(t) \/ TaskFails(t)
          PROVE  PoolInv'
      <3>1. UNCHANGED customers /\ Given' = Given /\ Keeps /\ GivenOnce'
        BY <1>2, <2>3, TasksGiveNothing DEF Given
      <3>2. Typed'
        BY <2>t, <2>3, TaskTyped, ServiceAccountsAssumption
      <3>3. InHand'
        BY <2>t, <2>3, <3>2, TaskKeepsHands, ServiceAccountsAssumption
      <3>4. OneCall' /\ AttachedIsGiven'
        BY <2>t, <3>1, OthersKeepCalls
      <3> QED  BY <3>1, <3>2, <3>3, <3>4 DEF PoolInv
    <2>4. CASE UNCHANGED vars
      <3>1. UNCHANGED <<made, pool, task, customers>>
        BY <2>4 DEF vars
      <3>2. Keeps /\ Given' = Given /\ GivenOnce'
        BY <2>t, <3>1, SamePool
      <3>3. Typed'
        BY <2>t, <2>4 DEF Typed, TypeOK, TaskInv, vars, projects, pool, customers
      <3>4. InHand' /\ OneCall' /\ AttachedIsGiven'
        BY <2>t, <3>1, <3>2, CallKeepsHands, OthersKeepCalls
      <3> QED  BY <3>2, <3>3, <3>4 DEF PoolInv
    <2> QED  BY <1>2, <2>1, <2>2, <2>3, <2>4 DEF Next
  <1> QED  BY <1>1, <1>2, PTL DEF Spec

\* What a customer's document says has been given to this customer, and to nobody else
\* unless it has been passed on, for any calls that overlap, fail or are repeated.
THEOREM AttachedWasGiven == Spec => []AttachedIsGiven
  <1>1. PoolInv => AttachedIsGiven
    BY DEF PoolInv
  <1> QED  BY <1>1, PoolInvariant, PTL

-----------------------------------------------------------------------------
(* ServiceAccounts implements AccountPool.                                 *)

\* Every step is a step of the pool or leaves it alone.
LEMMA PoolStep ==
    ASSUME PoolInv, [Next]_vars
    PROVE  [Pool!Next]_(Pool!vars)
  <1> USE DEF PoolInv, Pool!vars
  <1>t. TypeOK
    BY DEF Typed
  <1>1. ASSUME NEW r \in Call, InitOnboarding(r) \/ RefillFails(r) \/ CallFails(r)
        PROVE  [Pool!Next]_(Pool!vars)
    <2>1. CASE Reserve(r)
      <3>1. PICK a \in free : free' = free \ {a} /\ reserved' = reserved \cup {<<a, call[r].customer>>}
        BY <2>1 DEF Reserve
      <3>2. UNCHANGED taken /\ call[r].at = "reserve"
        BY <2>1 DEF Reserve
      <3>3. a \in Account /\ call[r].customer \in Customer
        BY <1>t, CallFields DEF TypeOK
      <3>4. \A b \in Account : <<b, call[r].customer>> \notin Pool!Given
        BY <3>2 DEF OneCall, Sound, Given, Pool!Given
      <3>5. Pool!Reserve(a, call[r].customer)
        BY <3>1, <3>2, <3>4 DEF Pool!Reserve
      <3> QED  BY <3>3, <3>5 DEF Pool!Next
    <2>2. CASE PassOn(r)
      <3> DEFINE a == call[r].account
                 c == call[r].customer
      <3>1. /\ free = {} /\ a # NoAccount /\ call[r].at = "reserve"
            /\ reserved' = Assigned(reserved, a, c) /\ UNCHANGED <<free, taken>>
        BY <2>2 DEF PassOn, Goes
      <3>2. a \in Account /\ c \in Customer
        BY <1>t, <3>1, CallFields
      <3>3. GivenAway(a) /\ \A b \in Account : <<b, c>> \notin Given
        BY <3>1 DEF OneCall, Sound
      <3>4. reserved' = Pool!Assigned(reserved, a, c)
        BY <3>1 DEF Assigned, Pool!Assigned
      <3>5. Pool!PassOn(a, c)
        BY <3>1, <3>3, <3>4 DEF Pool!PassOn, Pool!Given, GivenAway, Given
      <3> QED  BY <3>2, <3>5 DEF Pool!Next
    <2>3. CASE ~Reserve(r) /\ ~PassOn(r)
      BY <1>1, <2>3 DEF InitOnboarding, CreateDocument, Lookup, AttemptAborted, ReserveNothing,
                        Refill, Attach, RefillFails, CallFails, pool
    <2> QED  BY <2>1, <2>2, <2>3
  <1>2. ASSUME NEW c \in Customer, MarkTaken(c)
        PROVE  [Pool!Next]_(Pool!vars)
    <2>1. PICK k \in Customer : /\ <<email[c], k>> \in reserved
                                /\ reserved' = reserved \ {<<email[c], k>>}
                                /\ taken' = Assigned(taken, email[c], k)
      BY <1>2 DEF MarkTaken
    <2>2. email[c] \in Account
      BY <1>t, <2>1 DEF TypeOK
    <2>3. Pool!Take(email[c], k)
      BY <1>2, <2>1 DEF MarkTaken, Assigned, Pool!Take, Pool!Assigned
    <2> QED  BY <2>2, <2>3 DEF Pool!Next
  <1>3. ASSUME NEW t \in Task, CreateServiceAccounts(t) \/ StartInit(t) \/ TaskFails(t)
        PROVE  [Pool!Next]_(Pool!vars)
    <2>1. CASE AddToPool(t)
      <3>1. task[t].at = "add" /\ free' = free \cup {task[t].account} /\ UNCHANGED <<reserved, taken>>
        BY <2>1 DEF AddToPool, Steps
      <3>2. task[t].account \in Account
        BY <1>t, <3>1, TaskFields DEF Typed, TaskInv
      <3>3. Pool!Add(task[t].account)
        BY <3>1 DEF InHand, GivenAway, Given, Pool!Add, Pool!Given
      <3> QED  BY <3>2, <3>3 DEF Pool!Next
    <2>2. CASE ~AddToPool(t)
      BY <1>3, <2>2 DEF CreateServiceAccounts, StartInit, TaskFails, StartTask, ReadProject,
             CreateAccount, CreationRefused, CountAccount, CreateProject, AddNewProject, pool
    <2> QED  BY <2>1, <2>2
  <1>4. CASE UNCHANGED vars
    BY <1>4 DEF vars, pool
  <1> QED  BY <1>1, <1>2, <1>3, <1>4 DEF Next

\* The calls and tasks, with the documents they share and whatever they have read outside
\* of a transaction, implement the abstract pool, for any number of calls, tasks and
\* failures: no account that is given is given again while one is free, and every customer
\* is given one account.
THEOREM ImplementsPool == Spec => PoolKept
  <1>1. Init => Pool!Init
    BY DEF Init, Pool!Init
  <1>2. PoolInv /\ [Next]_vars => [Pool!Next]_(Pool!vars)
    BY PoolStep
  <1> QED  BY <1>1, <1>2, PoolInvariant, PTL DEF Spec, PoolKept, Pool!Spec

\* An account in a document is not free, and no two customers have the same one in their
\* documents, unless it has been passed on.
NoneShared ==
    \A c, k \in Customer : email[c] # NoAccount =>
        /\ email[c] \notin free
        /\ email[k] = email[c] => c = k \/ email[c] \in passed

\* For any calls that overlap, fail or are repeated, any attempts that are aborted, and any
\* tasks that are delivered again: an account that is given is not free any more, a customer
\* gets one, and only accounts that are passed on have a second customer.
THEOREM AccountsAreGivenOnce == Spec => [](GivenOnce /\ NoneShared)
  <1>1. PoolInv => GivenOnce
    BY DEF PoolInv
  <1>2. PoolInv => NoneShared
    <2> SUFFICES ASSUME PoolInv, NEW c \in Customer, NEW k \in Customer, email[c] # NoAccount
                 PROVE  /\ email[c] \notin free
                        /\ email[k] = email[c] => c = k \/ email[c] \in passed
      BY DEF NoneShared
    <2>1. email[c] \in Account
      BY DEF PoolInv, Typed, TypeOK
    <2>2. /\ <<email[c], c>> \in Given \/ email[c] \in passed
          /\ email[k] = email[c] => <<email[c], k>> \in Given \/ email[c] \in passed
      BY DEF PoolInv, AttachedIsGiven, Given
    <2> QED  BY <2>1, <2>2 DEF PoolInv, GivenOnce, GivenAway
  <1> QED  BY <1>1, <1>2, PoolInvariant, PTL

-----------------------------------------------------------------------------
(* Who is told that the onboarding has begun.                              *)

\* A customer whose document exists has an account or a call that has not succeeded.
Owed ==
    /\ \A r \in Call : call[r].at # "idle" => call[r].customer \in documents
    /\ \A c \in documents :
          \/ email[c] # NoAccount
          \/ \E s \in Call : call[s].customer = c /\ call[s].at \notin {"idle", "succeeded"}

\* A step of a call, which succeeds when the document exists or the account is attached.
LEMMA CallKeepsOwed ==
    ASSUME TypeOK, OneCall, Owed, NEW r \in Call,
           InitOnboarding(r) \/ RefillFails(r) \/ CallFails(r)
    PROVE  Owed'
  <1> USE DEF customers, projects
  <1>c. /\ call[r].customer \in Customer /\ call[r] \in CallRun /\ call \in [Call -> CallRun]
        /\ email \in [Customer -> Account \cup {NoAccount}] /\ documents \subseteq Customer
    BY CallFields DEF TypeOK
  <1>1. /\ \A s \in Call : s # r => call'[s] = call[s]
        /\ call'[r].customer = call[r].customer
    <2>1. CASE \E from, to : Goes(r, from, to)
      BY <1>c, <2>1 DEF Goes, CallRun
    <2>2. CASE Lookup(r) \/ AttemptAborted(r) \/ CallFails(r)
      <3>1. CASE Lookup(r)
        <4>1. PICK a \in Account \cup {NoAccount} :
                  \/ call' = [call EXCEPT ![r].at = "reserve"]
                  \/ call' = [call EXCEPT ![r].at = "attach", ![r].account = a]
          BY <3>1 DEF Lookup
        <4>2. call[r].at = "lookup"
          BY <3>1 DEF Lookup
        <4> QED  BY <1>c, <4>1, <4>2 DEF CallRun
      <3>2. CASE AttemptAborted(r)
        BY <1>c, <3>2 DEF AttemptAborted, CallRun
      <3>3. CASE CallFails(r)
        BY <1>c, <3>3 DEF CallFails, CallRun
      <3> QED  BY <2>2, <3>1, <3>2, <3>3
    <2>3. CASE Reserve(r)
      BY <1>c, <2>3 DEF Reserve, CallRun
    <2> QED
      BY <2>1, <2>2, <2>3 DEF InitOnboarding, CreateDocument, PassOn, ReserveNothing, Refill,
                              Attach, RefillFails
  <1>2. CASE CreateDocument(r)
    <2>1. PICK to \in {"lookup", "succeeded"} :
            /\ Goes(r, "idle", to)
            /\ documents' = documents \cup {call[r].customer}
            /\ to = "succeeded" => call[r].customer \in documents
      BY <1>2 DEF CreateDocument
    <2>2. UNCHANGED email /\ call[r].at = "idle" /\ call'[r].at = to
      BY <1>2, <1>c, <2>1 DEF CreateDocument, Goes, CallRun
    <2>3. ASSUME NEW c \in documents'
          PROVE  \/ email'[c] # NoAccount
                 \/ \E s \in Call : /\ call'[s].customer = c
                                    /\ call'[s].at \notin {"idle", "succeeded"}
      <3>1. CASE c \in documents
        BY <1>1, <2>2, <3>1 DEF Owed
      <3>2. CASE c = call[r].customer /\ to = "lookup"
        BY <1>1, <2>2, <3>2
      <3> QED  BY <2>1, <3>1, <3>2
    <2> QED  BY <1>1, <2>1, <2>3 DEF Owed
  <1>3. CASE Attach(r)
    <2>1. /\ call[r].at = "attach" /\ call[r].account # NoAccount /\ UNCHANGED documents
          /\ email' = [email EXCEPT ![call[r].customer] = call[r].account]
      BY <1>3 DEF Attach, Goes, OneCall, Sound
    <2>2. \A c \in documents : c # call[r].customer => email'[c] = email[c]
      BY <1>c, <2>1
    <2>3. email'[call[r].customer] # NoAccount
      BY <1>c, <2>1
    <2>4. \A c \in documents : \/ email'[c] # NoAccount
                              \/ \E s \in Call : /\ call'[s].customer = c
                                                 /\ call'[s].at \notin {"idle", "succeeded"}
      BY <1>1, <2>2, <2>3 DEF Owed
    <2> QED  BY <1>1, <2>1, <2>4 DEF Owed
  <1>4. CASE ~CreateDocument(r) /\ ~Attach(r)
    <2>1. /\ UNCHANGED <<documents, email>>
          /\ call[r].at # "idle"
          /\ call'[r].at \notin {"idle", "succeeded"}
      <3>1. CASE PassOn(r) \/ ReserveNothing(r) \/ Refill(r) \/ RefillFails(r)
        BY <1>c, <3>1 DEF PassOn, ReserveNothing, Refill, RefillFails, Goes, CallRun
      <3>2. CASE Lookup(r) \/ AttemptAborted(r) \/ CallFails(r)
        <4>1. CASE Lookup(r)
          <5>1. PICK a \in Account \cup {NoAccount} :
                    \/ call' = [call EXCEPT ![r].at = "reserve"]
                    \/ call' = [call EXCEPT ![r].at = "attach", ![r].account = a]
            BY <4>1 DEF Lookup
          <5>2. call[r].at = "lookup"
            BY <4>1 DEF Lookup
          <5>3. call'[r].at \in {"reserve", "attach"}
            BY <1>c, <5>1 DEF CallRun
          <5> QED  BY <4>1, <5>2, <5>3 DEF Lookup
        <4>2. CASE AttemptAborted(r)
          BY <1>c, <4>2 DEF AttemptAborted, CallRun
        <4>3. CASE CallFails(r)
          BY <1>c, <4>3 DEF CallFails, CallRun
        <4> QED  BY <3>2, <4>1, <4>2, <4>3
      <3>3. CASE Reserve(r)
        BY <1>c, <3>3 DEF Reserve, CallRun
      <3> QED  BY <1>4, <3>1, <3>2, <3>3 DEF InitOnboarding
    <2> QED  BY <1>1, <2>1 DEF Owed
  <1> QED  BY <1>2, <1>3, <1>4

\* Whatever fails and however many calls are made for a customer: success is answered only
\* to a customer who has an account, or for whom another call is under way or has failed.
THEOREM SuccessIsOwed == Spec => []SuccessMeansAttached
  <1>1. Init => Owed
    <2>1. ASSUME Init PROVE documents = {} /\ \A r \in Call : call[r].at = "idle"
      BY <2>1 DEF Init
    <2> QED  BY <2>1 DEF Owed
  <1>2. PoolInv /\ Owed /\ [Next]_vars => Owed'
    <2> SUFFICES ASSUME PoolInv, Owed, [Next]_vars PROVE Owed'
      OBVIOUS
    <2>1. ASSUME NEW r \in Call, InitOnboarding(r) \/ RefillFails(r) \/ CallFails(r)
          PROVE  Owed'
      BY <2>1, CallKeepsOwed DEF PoolInv, Typed
    <2>2. ASSUME NEW t \in Task, CreateServiceAccounts(t) \/ StartInit(t) \/ TaskFails(t)
          PROVE  Owed'
      <3>1. UNCHANGED customers
        BY <2>2, TasksLeaveCalls
      <3> QED  BY <3>1 DEF Owed, customers
    <2>3. CASE (\E c \in Customer : MarkTaken(c)) \/ UNCHANGED vars
      <3>1. UNCHANGED customers
        BY <2>3 DEF MarkTaken, vars
      <3> QED  BY <3>1 DEF Owed, customers
    <2> QED  BY <2>1, <2>2, <2>3 DEF Next
  <1>3. Owed => SuccessMeansAttached
    BY DEF Owed, SuccessMeansAttached
  <1> QED  BY <1>1, <1>2, <1>3, PoolInvariant, PTL DEF Spec

-----------------------------------------------------------------------------
(* What a task has after each of its steps, and what the others have.      *)

Becomes(t, at, init, left, project) ==
    /\ task'[t].at = at /\ task'[t].init = init /\ task'[t].left = left
    /\ task'[t].project = project
    /\ \A u \in Task \ {t} : task'[u] = task[u]

Ends(t) == Becomes(t, "idle", FALSE, 0, NoProject)

GoesOn(t, left) ==
    IF left = 0 THEN Ends(t)
    ELSE Becomes(t, "read_project", task[t].init, left, task[t].project)

LEMMA TaskParts ==
    ASSUME ServiceAccountsAssumption, Typed, NEW t \in Task
    PROVE  /\ StartTask(t) => Becomes(t, "read_project", FALSE, Batch, NoProject)
           /\ StartInit(t) => Becomes(t, "create_project", TRUE, Batch, NoProject)
           /\ ReadProject(t) => Becomes(t, "create", task[t].init, task[t].left, current)
           /\ CreateAccount(t) =>
                 Becomes(t, "add", task[t].init, task[t].left, task[t].project)
           /\ AddToPool(t) => Becomes(t, "count", task[t].init, task[t].left, task[t].project)
           /\ CountAccount(t) =>
                 \/ /\ Becomes(t, "create_project", task[t].init, task[t].left - 1,
                               task[t].project)
                    /\ UNCHANGED initiated
                 \/ /\ GoesOn(t, task[t].left - 1)
                    /\ initiated' = (initiated \/ (task[t].init /\ task[t].left - 1 = 0))
                    /\ ~(next' = NoProject /\ current' = NoProject)
           /\ CreateProject(t) =>
                 Becomes(t, "add_project", task[t].init, task[t].left, opened + 1)
           /\ AddNewProject(t) => GoesOn(t, task[t].left)
           /\ Failed(t) => Ends(t)
  <1> USE DEF Typed, Becomes, Ends, GoesOn
  <1>t. /\ task[t] \in TaskRun /\ task[t].left \in Nat /\ Batch \in Nat
        /\ \A u \in Task : task[u] \in TaskRun
    BY TaskFields DEF ServiceAccountsAssumption
  <1>1. StartTask(t) => Becomes(t, "read_project", FALSE, Batch, NoProject)
    BY <1>t DEF StartTask, IdleTask, Runs, TypeOK
  <1>2. StartInit(t) => Becomes(t, "create_project", TRUE, Batch, NoProject)
    BY <1>t DEF StartInit, IdleTask, Runs, TypeOK
  <1>3. ReadProject(t) => Becomes(t, "create", task[t].init, task[t].left, current)
    BY <1>t DEF ReadProject, Runs, TypeOK, TaskRun
  <1>4. CreateAccount(t) => Becomes(t, "add", task[t].init, task[t].left, task[t].project)
    BY <1>t DEF CreateAccount, Runs, TypeOK, TaskRun
  <1>5. AddToPool(t) => Becomes(t, "count", task[t].init, task[t].left, task[t].project)
    BY <1>t DEF AddToPool, Steps, TaskRun, TypeOK
  <1>c. ASSUME NEW run \in TaskRun, Runs(t, Continued(run)), run.init = task[t].init,
               run.project = task[t].project
        PROVE  GoesOn(t, run.left)
    BY <1>c DEF Continued, IdleTask, Runs, TypeOK, TaskRun
  <1>6. CountAccount(t) =>
                 \/ /\ Becomes(t, "create_project", task[t].init, task[t].left - 1,
                               task[t].project)
                    /\ UNCHANGED initiated
                 \/ /\ GoesOn(t, task[t].left - 1)
                    /\ initiated' = (initiated \/ (task[t].init /\ task[t].left - 1 = 0))
                    /\ ~(next' = NoProject /\ current' = NoProject)
    <2> SUFFICES ASSUME CountAccount(t)
                 PROVE  \/ /\ Becomes(t, "create_project", task[t].init, task[t].left - 1,
                                      task[t].project)
                           /\ UNCHANGED initiated
                        \/ /\ GoesOn(t, task[t].left - 1)
                           /\ initiated' = (initiated \/ (task[t].init /\ task[t].left - 1 = 0))
                           /\ ~(next' = NoProject /\ current' = NoProject)
      OBVIOUS
    <2> DEFINE run == [task[t] EXCEPT !.left = @ - 1]
    <2>1. task[t].left > 0 /\ task[t].left \in 0..Batch
      BY TaskFields DEF CountAccount, TaskInv
    <2>2. /\ run \in TaskRun /\ run.left = task[t].left - 1 /\ run.init = task[t].init
          /\ run.project = task[t].project
      BY <1>t, <2>1 DEF TaskRun
    <2>3. \/ Runs(t, [run EXCEPT !.at = "create_project"]) /\ UNCHANGED initiated
          \/ /\ Runs(t, Continued(run)) /\ initiated' = (initiated \/ (run.init /\ run.left = 0))
             /\ ~(next' = NoProject /\ current' = NoProject)
      BY DEF CountAccount
    <2> HIDE DEF run
    <2>4. CASE Runs(t, [run EXCEPT !.at = "create_project"]) /\ UNCHANGED initiated
      BY <2>2, <2>4 DEF Runs, TypeOK, TaskRun
    <2>5. CASE /\ Runs(t, Continued(run)) /\ initiated' = (initiated \/ (run.init /\ run.left = 0))
               /\ ~(next' = NoProject /\ current' = NoProject)
      <3>1. GoesOn(t, run.left)
        BY <1>c, <2>2, <2>5
      <3> QED  BY <2>2, <2>5, <3>1
    <2> QED  BY <2>3, <2>4, <2>5
  <1>7. CreateProject(t) => Becomes(t, "add_project", task[t].init, task[t].left, opened + 1)
    BY <1>t DEF CreateProject, Runs, TypeOK, TaskRun
  <1>8. AddNewProject(t) => GoesOn(t, task[t].left)
    BY <1>c, <1>t DEF AddNewProject
  <1>9. Failed(t) => Ends(t)
    BY DEF Failed, IdleTask, Runs, TypeOK
  <1> QED  BY <1>1, <1>2, <1>3, <1>4, <1>5, <1>6, <1>7, <1>8, <1>9

-----------------------------------------------------------------------------
(* The pool is refilled.  A task counts for the accounts that it still     *)
(* adds: when it ends with few free accounts left, calls have reserved     *)
(* some meanwhile, and the last of these has asked for another refill.     *)

StillAdds(t) == task[t].left - (IF task[t].at = "count" THEN 1 ELSE 0)

\* The environment is initialised by one task, before anything else happens.
Begun ==
    /\ ~initiated => /\ queue = 0
                     /\ \A r \in Call : call[r].at = "idle"
                     /\ \A t \in Task : task[t].at # "idle" => task[t].init
    /\ \A t \in Task : task[t].init =>
          /\ ~initiated /\ task[t].at # "idle"
          /\ \A u \in Task \ {t} : task[u].at = "idle"
          /\ Cardinality(free) + StillAdds(t) >= Batch

\* A call that has reserved an account asks for a refill, or has failed.
Asked(r) == call[r].at \in {"refill", "failed"} /\ call[r].account # NoAccount

Refilling ==
    initiated /\ Cardinality(free) <= FreeThreshold =>
        \/ queue > 0
        \/ \E r \in Call : Asked(r)
        \/ \E t \in Task :
              task[t].at # "idle" /\ Cardinality(free) + StillAdds(t) > FreeThreshold

\* There are finitely many accounts.
LEMMA AccountsAreFinite ==
    ASSUME ServiceAccountsAssumption, NEW S \in SUBSET Account
    PROVE  IsFiniteSet(S) /\ Cardinality(S) \in Nat
  <1>1. IsFiniteSet(Project) /\ IsFiniteSet(1..Quota)
    BY FS_Interval DEF ServiceAccountsAssumption, Project
  <1>2. IsFiniteSet(Account)
    BY <1>1, FS_Product DEF Account
  <1> QED  BY <1>2, FS_Subset, FS_CardinalityType

LEMMA TaskKeepsRefilling ==
    ASSUME ServiceAccountsAssumption, Typed, Typed', InHand, Begun, Refilling,
           NEW t \in Task, CreateServiceAccounts(t) \/ StartInit(t) \/ TaskFails(t)
    PROVE  Begun' /\ Refilling'
  <1> DEFINE F == Cardinality(free)
  <1>f. F \in Nat /\ F' \in Nat /\ IsFiniteSet(free)
    BY AccountsAreFinite DEF Typed, TypeOK
  <1>a. AddToPool(t) => F' = F + 1
    <2>1. AddToPool(t) => free' = free \cup {task[t].account} /\ task[t].account \notin free
      BY DEF AddToPool, Steps, InHand
    <2> QED  BY <1>f, <2>1, FS_AddElement
  <1>k. /\ FreeThreshold \in Nat /\ Batch \in Nat /\ FreeThreshold < Batch
        /\ queue \in Nat /\ initiated \in BOOLEAN
        /\ \A u \in Task : task[u].left \in Nat /\ task[u].init \in BOOLEAN
        /\ \A u \in Task : task[u].at \in {"read_project", "create", "add", "count"} =>
                              task[u].left > 0
    BY TaskFields DEF ServiceAccountsAssumption, Typed, TypeOK, TaskInv
  <1>u. UNCHANGED call
    BY TasksLeaveCalls DEF customers
  <1>s. UNCHANGED free => F' = F
    OBVIOUS
  <1> HIDE DEF F
  <1>d. /\ Begun <=> /\ ~initiated => /\ queue = 0
                                      /\ \A r \in Call : call[r].at = "idle"
                                      /\ \A v \in Task : task[v].at # "idle" => task[v].init
                     /\ \A v \in Task : task[v].init =>
                           /\ ~initiated /\ task[v].at # "idle"
                           /\ \A u \in Task \ {v} : task[u].at = "idle"
                           /\ F + StillAdds(v) >= Batch
        /\ Refilling <=> (initiated /\ F <= FreeThreshold =>
                             \/ queue > 0
                             \/ \E r \in Call : Asked(r)
                             \/ \E v \in Task : task[v].at # "idle"
                                                  /\ F + StillAdds(v) > FreeThreshold)
    BY DEF F, Begun, Refilling
  <1>e. /\ Begun' <=> /\ ~initiated' => /\ queue' = 0
                                        /\ \A r \in Call : call[r].at = "idle"
                                        /\ \A v \in Task : task'[v].at # "idle" => task'[v].init
                      /\ \A v \in Task : task'[v].init =>
                           /\ ~initiated' /\ task'[v].at # "idle"
                           /\ \A u \in Task \ {v} : task'[u].at = "idle"
                           /\ F' + StillAdds(v)' >= Batch
        /\ Refilling' <=> (initiated' /\ F' <= FreeThreshold =>
                             \/ queue' > 0
                             \/ \E r \in Call : Asked(r)
                             \/ \E v \in Task : task'[v].at # "idle"
                                                  /\ F' + StillAdds(v)' > FreeThreshold)
    BY <1>u DEF F, Begun, Refilling, Asked
  <1> USE DEF Becomes
  <1>t. \A u \in Task \ {t} : task'[u] = task[u] => StillAdds(u)' = StillAdds(u)
    BY DEF StillAdds
  <1>q. ASSUME NEW at \in TaskStep \ {"idle"}, NEW left \in Nat, NEW project,
               Becomes(t, at, task[t].init, left, project),
               task[t].at # "idle", queue' = queue, initiated' = initiated, F' >= F,
               F' + (left - (IF at = "count" THEN 1 ELSE 0)) = F + StillAdds(t)
        PROVE  Begun' /\ Refilling'
    <2>1. F' + StillAdds(t)' = F + StillAdds(t) /\ F' \in Nat
      BY <1>f, <1>q DEF StillAdds
    <2>2. \A u \in Task \ {t} : task'[u] = task[u] /\ StillAdds(u)' = StillAdds(u)
      BY <1>q, <1>t
    <2>3. task'[t].at # "idle" /\ task'[t].init = task[t].init
      BY <1>q
    <2>4. Begun'
      <3>1. ~initiated => /\ queue = 0
                          /\ \A r \in Call : call[r].at = "idle"
                          /\ \A v \in Task : task'[v].at # "idle" => task'[v].init
        BY <1>d, <1>q, <2>2, <2>3
      <3>2. ASSUME NEW v \in Task, task'[v].init
            PROVE  /\ v = t /\ task[t].init /\ ~initiated
                   /\ \A u \in Task \ {v} : task'[u].at = "idle"
        BY <1>d, <1>q, <2>2, <2>3, <3>2
      <3>3. task[t].init => F + StillAdds(t) >= Batch
        BY <1>d
      <3> QED  BY <1>e, <1>q, <2>1, <2>3, <3>1, <3>2, <3>3
    <2>5. Refilling'
      <3> SUFFICES ASSUME initiated, F' <= FreeThreshold
                   PROVE  \/ queue > 0
                          \/ \E r \in Call : Asked(r)
                          \/ \E v \in Task : task'[v].at # "idle"
                                               /\ F' + StillAdds(v)' > FreeThreshold
        BY <1>e, <1>q
      <3>1. \A v \in Task : StillAdds(v) \in Int /\ StillAdds(v)' \in Int
        BY <1>k, <1>q DEF StillAdds
      <3>2. CASE \E v \in Task : task[v].at # "idle" /\ F + StillAdds(v) > FreeThreshold
        <4>1. PICK v \in Task : task[v].at # "idle" /\ F + StillAdds(v) > FreeThreshold
          BY <3>2
        <4>2. task'[v].at # "idle" /\ F' + StillAdds(v)' > FreeThreshold
          BY <1>f, <1>k, <1>q, <2>1, <2>2, <2>3, <3>1, <4>1
        <4> QED  BY <4>2
      <3>3. F <= FreeThreshold
        BY <1>f, <1>k, <1>q
      <3> QED  BY <1>d, <3>2, <3>3
    <2> QED  BY <2>4, <2>5
  <1>z. ASSUME Ends(t), task[t].at # "idle", queue' = queue,
               initiated' = (initiated \/ task[t].init), F' >= F, F' >= F + StillAdds(t)
        PROVE  Begun' /\ Refilling'
    <2>1. initiated'
      BY <1>d, <1>z
    <2>2. task'[t].at = "idle" /\ ~task'[t].init /\ \A u \in Task \ {t} : task'[u] = task[u]
      BY <1>z DEF Ends
    <2>3. \A u \in Task : ~task'[u].init
      BY <1>d, <1>z, <2>2
    <2>4. Begun'
      BY <1>e, <2>1, <2>3
    <2>5. \A v \in Task : StillAdds(v) \in Int
      BY <1>k DEF StillAdds
    <2>6. CASE task[t].init
      BY <1>d, <1>e, <1>f, <1>k, <1>z, <2>4, <2>5, <2>6
    <2>7. CASE ~task[t].init
      <3> SUFFICES ASSUME F' <= FreeThreshold
                   PROVE  \/ queue > 0
                          \/ \E r \in Call : Asked(r)
                          \/ \E v \in Task : task'[v].at # "idle"
                                               /\ F' + StillAdds(v)' > FreeThreshold
        BY <1>e, <1>z, <2>4
      <3>1. initiated /\ F <= FreeThreshold
        BY <1>f, <1>k, <1>z, <2>1, <2>7
      <3>2. CASE \E v \in Task : task[v].at # "idle" /\ F + StillAdds(v) > FreeThreshold
        <4>1. PICK v \in Task : task[v].at # "idle" /\ F + StillAdds(v) > FreeThreshold
          BY <3>2
        <4>2. v # t
          BY <1>f, <1>k, <1>z, <2>5, <4>1
        <4>3. task'[v].at # "idle" /\ StillAdds(v)' = StillAdds(v)
          BY <1>t, <2>2, <4>1, <4>2
        <4> QED  BY <1>f, <1>k, <1>z, <2>5, <4>1, <4>3
      <3> QED  BY <1>d, <3>1, <3>2
    <2> QED  BY <2>6, <2>7
  <1>x. ASSUME Failed(t), task[t].at # "idle", initiated' = initiated, F' = F
        PROVE  Begun' /\ Refilling'
    <2>1. /\ task'[t].at = "idle" /\ ~task'[t].init /\ \A u \in Task \ {t} : task'[u] = task[u]
          /\ queue' = IF task[t].init THEN queue ELSE queue + 1
      BY <1>x, TaskParts DEF Ends, Failed
    <2>2. \A u \in Task : ~task'[u].init
      BY <1>d, <1>x, <2>1
    <2>3. Begun'
      BY <1>d, <1>e, <1>x, <2>1, <2>2
    <2> QED  BY <1>d, <1>e, <1>k, <1>x, <2>1, <2>3
  <1>1. CASE StartTask(t)
    <2>1. /\ task[t].at = "idle" /\ queue > 0 /\ queue' = queue - 1
          /\ Becomes(t, "read_project", FALSE, Batch, NoProject)
          /\ F' = F /\ initiated' = initiated
      BY <1>1, <1>s, TaskParts DEF StartTask, pool
    <2>2. initiated /\ \A u \in Task : ~task'[u].init
      BY <1>d, <1>k, <2>1
    <2>3. F' + StillAdds(t)' > FreeThreshold /\ task'[t].at # "idle"
      BY <1>f, <1>k, <2>1 DEF StillAdds
    <2> QED  BY <1>e, <2>1, <2>2, <2>3
  <1>2. CASE StartInit(t)
    <2>1. /\ ~initiated /\ ~initiated' /\ F' = F /\ queue' = queue
          /\ \A u \in Task : task[u].at = "idle"
          /\ Becomes(t, "create_project", TRUE, Batch, NoProject)
      BY <1>2, <1>s, TaskParts DEF StartInit, pool
    <2>2. F' + StillAdds(t)' >= Batch
      BY <1>f, <1>k, <2>1 DEF StillAdds
    <2> QED  BY <1>d, <1>e, <2>1, <2>2
  <1>3. CASE ReadProject(t) \/ CreateAccount(t) \/ CreateProject(t)
    <2>2. task[t].at \in {"read_project", "create", "create_project"}
      BY <1>3 DEF ReadProject, CreateAccount, CreateProject
    <2>3. queue' = queue /\ initiated' = initiated /\ F' = F
      BY <1>3, <1>s DEF ReadProject, CreateAccount, CreateProject, pool
    <2>4. ASSUME NEW at \in {"create", "add", "add_project"}, NEW project,
                 Becomes(t, at, task[t].init, task[t].left, project)
          PROVE  Begun' /\ Refilling'
      <3>1. F' + (task[t].left - (IF at = "count" THEN 1 ELSE 0)) = F + StillAdds(t)
        BY <1>f, <1>k, <2>2, <2>3 DEF StillAdds
      <3>2. at \in TaskStep /\ at # "idle" /\ task[t].at # "idle" /\ F' >= F
        BY <1>f, <2>2, <2>3 DEF TaskStep
      <3> QED  BY <1>k, <1>q, <2>2, <2>3, <2>4, <3>1, <3>2
    <2> QED  BY <1>3, <2>4, TaskParts
  <1>5. CASE CreationRefused(t) \/ TaskFails(t)
    <2>1. Failed(t) /\ task[t].at # "idle" /\ initiated' = initiated /\ F' = F
      BY <1>5, <1>s DEF CreationRefused, TaskFails, pool
    <2> QED  BY <1>x, <2>1
  <1>6. CASE AddToPool(t)
    <2>1. /\ task[t].at = "add" /\ queue' = queue /\ initiated' = initiated
          /\ Becomes(t, "count", task[t].init, task[t].left, task[t].project)
      BY <1>6, TaskParts DEF AddToPool, Steps
    <2>2. F' + (task[t].left - 1) = F + StillAdds(t)
      BY <1>6, <1>a, <1>f, <1>k, <2>1 DEF StillAdds
    <2> QED  BY <1>6, <1>a, <1>f, <1>k, <1>q, <2>1, <2>2 DEF TaskStep
  <1>g. ASSUME GoesOn(t, task[t].left - (IF task[t].at = "count" THEN 1 ELSE 0)),
               task[t].at \in {"count", "add_project"}, queue' = queue, F' = F,
               initiated' = (initiated \/ (task[t].init /\ StillAdds(t) = 0))
        PROVE  Begun' /\ Refilling'
    <2>1. StillAdds(t) \in Nat /\ GoesOn(t, StillAdds(t))
      BY <1>g, <1>k DEF StillAdds
    <2>2. CASE StillAdds(t) = 0
      <3>1. Ends(t) /\ F' >= F + StillAdds(t) /\ F' >= F
        BY <1>f, <1>g, <2>1, <2>2 DEF GoesOn
      <3> QED  BY <1>g, <1>z, <2>2, <3>1
    <2>3. CASE StillAdds(t) # 0
      <3>1. Becomes(t, "read_project", task[t].init, StillAdds(t), task[t].project)
        BY <2>1, <2>3 DEF GoesOn
      <3>2. initiated' = initiated
        BY <1>g, <1>k, <2>3
      <3>3. F' + (StillAdds(t) - (IF "read_project" = "count" THEN 1 ELSE 0)) = F + StillAdds(t)
        BY <1>f, <1>g, <2>1
      <3>4. F' >= F
        BY <1>f, <1>g
      <3> QED  BY <1>g, <1>q, <2>1, <3>1, <3>2, <3>3, <3>4 DEF TaskStep
    <2> QED  BY <2>2, <2>3
  <1>7. CASE CountAccount(t)
    <2>1. task[t].at = "count" /\ queue' = queue /\ F' = F /\ StillAdds(t) = task[t].left - 1
      BY <1>7, <1>s DEF CountAccount, pool, StillAdds
    <2>2. CASE /\ GoesOn(t, task[t].left - 1)
               /\ initiated' = (initiated \/ (task[t].init /\ task[t].left - 1 = 0))
      BY <1>g, <2>1, <2>2
    <2>3. CASE /\ Becomes(t, "create_project", task[t].init, task[t].left - 1, task[t].project)
               /\ UNCHANGED initiated
      <3>1. /\ task[t].left - 1 \in Nat /\ F' >= F
            /\ F' + (task[t].left - 1 - (IF "create_project" = "count" THEN 1 ELSE 0))
                  = F + StillAdds(t)
        BY <1>f, <1>k, <2>1
      <3> QED  BY <1>q, <2>1, <2>3, <3>1 DEF TaskStep
    <2> QED  BY <1>7, <2>2, <2>3, TaskParts
  <1>8. CASE AddNewProject(t)
    <2>1. /\ task[t].at = "add_project" /\ queue' = queue /\ F' = F
          /\ StillAdds(t) = task[t].left
          /\ initiated' = (initiated \/ (task[t].init /\ task[t].left = 0))
      BY <1>8, <1>k, <1>s DEF AddNewProject, pool, StillAdds
    <2>2. GoesOn(t, task[t].left)
      BY <1>8, TaskParts
    <2>3. task[t].left - 0 = task[t].left
      BY <1>k
    <2> QED  BY <1>g, <2>1, <2>2, <2>3
  <1> QED
    BY <1>1, <1>2, <1>3, <1>5, <1>6, <1>7, <1>8 DEF CreateServiceAccounts


\* A call: who reserves an account when few are left asks for more.
LEMMA CallKeepsRefilling ==
    ASSUME ServiceAccountsAssumption, Typed, Begun, Refilling,
           NEW r \in Call, InitOnboarding(r) \/ RefillFails(r) \/ CallFails(r)
    PROVE  Begun' /\ Refilling'
  <1> USE DEF projects, pool
  <1>t. /\ TypeOK /\ call[r] \in CallRun /\ queue \in Nat /\ call \in [Call -> CallRun]
        /\ FreeThreshold \in Nat /\ initiated \in BOOLEAN
    BY CallFields DEF Typed, TypeOK, ServiceAccountsAssumption
  <1>i. initiated /\ (\A t \in Task : ~task[t].init) /\ UNCHANGED <<initiated, task>>
    BY <1>t DEF Begun, InitOnboarding, CreateDocument, Lookup, AttemptAborted, Reserve, PassOn,
                ReserveNothing, Refill, Attach, RefillFails, CallFails, Goes
  <1>b. Begun'
    BY <1>i DEF Begun
  <1>g. UNCHANGED free => Cardinality(free)' = Cardinality(free)
    OBVIOUS
  <1>s. ASSUME UNCHANGED <<free, queue>>, \A s \in Call : Asked(s) => Asked(s)'
        PROVE  Refilling'
    BY <1>g, <1>i, <1>s DEF Refilling, StillAdds
  <1>1. CASE CreateDocument(r) \/ Lookup(r) \/ AttemptAborted(r) \/ ReserveNothing(r)
             \/ Attach(r) \/ RefillFails(r) \/ CallFails(r)
    <2>1. \A s \in Call : Asked(s) => Asked(s)'
      <3>1. \A s \in Call \ {r} : call'[s] = call[s]
        BY <1>1, <1>t DEF CreateDocument, Lookup, AttemptAborted, ReserveNothing, Attach,
                          RefillFails, CallFails, Goes
      <3>2. CASE RefillFails(r)
        BY <1>t, <3>1, <3>2 DEF RefillFails, Goes, Asked, CallRun
      <3>3. CASE ~RefillFails(r)
        <4>1. ~Asked(r)
          BY <1>1, <3>3 DEF Asked, CreateDocument, Lookup, AttemptAborted, ReserveNothing,
                            Attach, CallFails, Goes
        <4> QED  BY <3>1, <4>1 DEF Asked
      <3> QED  BY <3>2, <3>3
    <2> QED
      BY <1>1, <1>b, <1>s, <2>1 DEF CreateDocument, Lookup, AttemptAborted, ReserveNothing,
                                    Attach, RefillFails, CallFails
  <1>2. CASE Reserve(r)
    <2>1. PICK a \in free :
            /\ free' = free \ {a}
            /\ call' = [call EXCEPT ![r].account = a,
                                    ![r].at = IF Cardinality(free') <= FreeThreshold
                                              THEN "refill" ELSE "attach"]
      BY <1>2 DEF Reserve
    <2>2. Cardinality(free)' = Cardinality(free')
      OBVIOUS
    <2>3. a # NoAccount
      BY <1>t, NoAccountAssumption DEF TypeOK
    <2>4. CASE Cardinality(free') <= FreeThreshold
      <3>1. call'[r].at = "refill" /\ call'[r].account = a
        BY <1>t, <2>1, <2>4 DEF CallRun
      <3> QED  BY <1>b, <2>3, <3>1 DEF Refilling, Asked
    <2>5. CASE ~(Cardinality(free') <= FreeThreshold)
      BY <1>b, <2>2, <2>5 DEF Refilling
    <2> QED  BY <2>4, <2>5
  <1>3. CASE Refill(r)
    <2>1. queue' > 0
      BY <1>3, <1>t DEF Refill
    <2> QED  BY <1>b, <2>1 DEF Refilling
  <1>4. CASE PassOn(r)
    <2>1. call'[r].at = "refill" /\ call'[r].account # NoAccount
      BY <1>4, <1>t DEF PassOn, Goes, CallRun
    <2> QED  BY <1>b, <2>1 DEF Refilling, Asked
  <1> QED  BY <1>1, <1>2, <1>3, <1>4 DEF InitOnboarding

\* The pool does not run low without a refill on its way, for any calls and tasks that
\* overlap, end early or fail, unless a call with an account has failed: a refill that a
\* task has begun may be used up before it ends, but not without another being asked for.
THEOREM RefillIsOnItsWay == Spec => []LowIsBeingRefilled
  <1>1. Init => Begun /\ Refilling
    <2>1. ASSUME Init PROVE Begun /\ Refilling
      <3>1. /\ ~initiated /\ queue = 0 /\ \A t \in Task : task[t] = IdleTask
            /\ \A r \in Call : call[r].at = "idle"
        BY <2>1 DEF Init
      <3> QED  BY <3>1 DEF Begun, Refilling, IdleTask
    <2> QED  BY <2>1
  <1>2. PoolInv /\ Typed' /\ Begun /\ Refilling /\ [Next]_vars => Begun' /\ Refilling'
    <2> SUFFICES ASSUME PoolInv, Typed', Begun, Refilling, [Next]_vars
                 PROVE  Begun' /\ Refilling'
      OBVIOUS
    <2>1. ASSUME NEW t \in Task, CreateServiceAccounts(t) \/ StartInit(t) \/ TaskFails(t)
          PROVE  Begun' /\ Refilling'
      BY <2>1, TaskKeepsRefilling, ServiceAccountsAssumption DEF PoolInv
    <2>2. ASSUME NEW r \in Call, InitOnboarding(r) \/ RefillFails(r) \/ CallFails(r)
          PROVE  Begun' /\ Refilling'
      BY <2>2, CallKeepsRefilling, ServiceAccountsAssumption DEF PoolInv
    <2>3. CASE (\E c \in Customer : MarkTaken(c)) \/ UNCHANGED vars
      <3>1. UNCHANGED <<initiated, free, call, queue, task>>
        BY <2>3 DEF MarkTaken, vars, pool, customers
      <3> QED  BY <3>1 DEF Begun, Refilling, StillAdds, Asked
    <2> QED  BY <2>1, <2>2, <2>3 DEF Next
  <1>3. Typed /\ Begun /\ Refilling => LowIsBeingRefilled
    BY DEF Refilling, Asked, LowIsBeingRefilled
  <1>4. PoolInv => Typed
    BY DEF PoolInv
  <1> QED  BY <1>1, <1>2, <1>3, <1>4, AlwaysTyped, PoolInvariant, PTL DEF Spec

-----------------------------------------------------------------------------
(* The projects.  What is about to be used has not been used: the next     *)
(* project and those that tasks are adding are different, are not the      *)
(* current one and have no account.  A project becomes current once, and   *)
(* only tasks that have read it while it was can still create in it.       *)

Filling(t, p) == task[t].at \in {"create", "add", "count"} /\ task[t].project = p
Adding(t, p)  == task[t].at = "add_project" /\ task[t].project = p

Unused(p) ==
    /\ made[p] = 0 /\ count[p] = 0 /\ p # current
    /\ \A t \in Task : ~Filling(t, p)

Ahead ==
    \A p \in Project :
        /\ p = current => count[p] < Max
        /\ p = next \/ p > opened \/ (\E t \in Task : Adding(t, p)) => Unused(p)
        /\ \A t \in Task : Adding(t, p) => p # next /\ \A u \in Task : Adding(u, p) => u = t

\* Where there is no current project somebody is creating one.
Replaced ==
    current = NoProject /\ opened > 0 =>
        \E t \in Task : task[t].at \in {"create_project", "add_project"}

\* Calls leave the projects and the tasks alone.
LEMMA OthersLeaveTasks ==
    ASSUME \/ \E r \in Call : InitOnboarding(r) \/ RefillFails(r) \/ CallFails(r)
           \/ \E c \in Customer : MarkTaken(c)
           \/ UNCHANGED vars
    PROVE  UNCHANGED <<opened, current, next, count, made, task>>
  BY DEF InitOnboarding, CreateDocument, Lookup, AttemptAborted, Reserve, PassOn,
         ReserveNothing, Refill, Attach,
         RefillFails, CallFails, MarkTaken, vars, projects

\* A step of a task.
LEMMA TaskKeepsAhead ==
    ASSUME ServiceAccountsAssumption, Typed, Typed', Ahead, NEW t \in Task,
           CreateServiceAccounts(t) \/ StartInit(t) \/ TaskFails(t)
    PROVE  Ahead'
  <1> USE DEF Becomes, Ends, GoesOn
  <1>k. /\ Max \in Nat /\ Max > 0 /\ MaxProjects \in Nat /\ Project = 1..MaxProjects
        /\ 0 \notin Project
    BY DEF ServiceAccountsAssumption, Project
  <1>o. /\ opened \in 0..MaxProjects /\ current \in 0..opened /\ next \in 0..opened
        /\ opened' \in 0..MaxProjects
        /\ count \in [Project -> Nat] /\ made \in [Project -> Nat]
    BY DEF Typed, TypeOK
  <1>p. \A u \in Task, p \in Project : Adding(u, p) => p <= opened
    BY DEF Adding, Typed, TaskInv
  <1>q. task[t].at \in {"add", "count", "add_project"} => task[t].project \in Project
    BY TaskFields DEF Typed, TaskInv
  <1>a. \A p \in Project :
            /\ p = current => count[p] < Max
            /\ p = next \/ p > opened \/ (\E u \in Task : Adding(u, p)) => Unused(p)
            /\ \A u \in Task : Adding(u, p) => p # next /\ \A v \in Task : Adding(v, p) => v = u
    BY DEF Ahead
  <1>u. ASSUME \A u \in Task \ {t} : task'[u] = task[u], NEW p \in Project, Unused(p),
               ~Filling(t, p)', made'[p] = 0, count'[p] = 0, p # current'
        PROVE  Unused(p)'
    BY <1>u DEF Unused, Filling
  <1>s. ASSUME UNCHANGED <<opened, current, next, count>>,
               \A u \in Task \ {t} : task'[u] = task[u], task'[t].at # "add_project",
               \A p \in Project : Unused(p) => Unused(p)'
        PROVE  Ahead'
    <2>1. \A p \in Project, u \in Task : Adding(u, p)' => Adding(u, p)
      BY <1>s DEF Adding
    <2> QED  BY <1>a, <1>s, <2>1 DEF Ahead
  <1>1. CASE StartTask(t) \/ StartInit(t) \/ ReadProject(t) \/ AddToPool(t)
    <2>1. UNCHANGED <<opened, current, next, count, made>>
      BY <1>1 DEF StartTask, StartInit, ReadProject, AddToPool, projects
    <2>2. /\ \A u \in Task \ {t} : task'[u] = task[u]
          /\ task'[t].at # "add_project"
      BY <1>1, TaskParts
    <2>3. \A p \in Project : Filling(t, p)' => p = current \/ Filling(t, p)
      <3>1. CASE StartTask(t) \/ StartInit(t) \/ ReadProject(t)
        BY <3>1, TaskParts DEF Filling
      <3>2. CASE AddToPool(t)
        BY <3>2, TaskParts DEF Filling, AddToPool, Steps
      <3> QED  BY <1>1, <3>1, <3>2
    <2>4. \A p \in Project : Unused(p) => Unused(p)'
      <3>1. ASSUME NEW p \in Project, Unused(p) PROVE ~Filling(t, p)'
        BY <2>3, <3>1 DEF Unused
      <3>2. ASSUME NEW p \in Project, Unused(p) PROVE Unused(p)'
        BY <1>u, <2>1, <2>2, <3>1, <3>2 DEF Unused
      <3> QED  BY <3>2
    <2> QED  BY <1>s, <2>1, <2>2, <2>4
  <1>2. CASE CreationRefused(t) \/ TaskFails(t)
    <2>1. Ends(t) /\ UNCHANGED <<opened, current, next, count, made>>
      BY <1>2, TaskParts DEF CreationRefused, TaskFails, projects
    <2>2. \A p \in Project : Unused(p) => Unused(p)'
      BY <2>1 DEF Unused, Filling
    <2> QED  BY <1>s, <2>1, <2>2
  <1>3. CASE CreateAccount(t)
    <2>1. /\ Becomes(t, "add", task[t].init, task[t].left, task[t].project)
          /\ UNCHANGED <<opened, current, next, count>> /\ task[t].at = "create"
      BY ZenonT(60), <1>3, TaskParts DEF CreateAccount, projects
    <2>2. \A p \in Project : p # task[t].project => made'[p] = made[p]
      BY <1>3, <1>o DEF CreateAccount
    <2>3. \A p \in Project : Unused(p) => Unused(p)'
      BY <2>1, <2>2 DEF Unused, Filling
    <2> QED  BY <1>s, <2>1, <2>3
  <1>4. CASE CountAccount(t)
    <2>0. PICK p \in Project : p = task[t].project
      BY <1>4, <1>q DEF CountAccount
    <2>1. /\ UNCHANGED <<opened, made>> /\ Filling(t, p)
          /\ count' = [count EXCEPT ![p] = @ + 1]
          /\ \/ current' = next /\ next' = 0
             \/ count[p] + 1 < Max /\ current' = current /\ next' = next
      <3>1. /\ UNCHANGED <<opened, made>> /\ task[t].at = "count"
            /\ count' = [count EXCEPT ![p] = @ + 1]
            /\ current' = IF count[p] + 1 >= Max THEN next ELSE current
            /\ next' = IF count[p] + 1 >= Max THEN NoProject ELSE next
        BY <1>4, <2>0 DEF CountAccount
      <3>2. count[p] \in Nat /\ NoProject = 0
        BY <1>o DEF NoProject
      <3> QED  BY SMTT(40), <1>k, <2>0, <3>1, <3>2 DEF Filling
    <2>t. /\ \A u \in Task \ {t} : task'[u] = task[u]
          /\ task'[t].at \notin {"create", "add", "count", "add_project"}
      BY <1>4, TaskParts
    <2>c. /\ \A q \in Project : q # p => count'[q] = count[q]
          /\ count'[p] = count[p] + 1 /\ count[p] \in Nat
      BY <1>o, <2>1
    <2>2. \A q \in Project : Unused(q) => q # p /\ count[q] = 0 /\ made[q] = 0 /\ q # current
      BY <2>1 DEF Unused
    <2>3. ASSUME NEW q \in Project, Unused(q), q # current' PROVE Unused(q)'
      <3>1. made'[q] = 0 /\ count'[q] = 0
        BY <2>1, <2>2, <2>3, <2>c
      <3>2. ~Filling(t, q)'
        BY <2>t DEF Filling
      <3> QED  BY <1>u, <2>3, <2>t, <3>1, <3>2
    <2>4. \A q \in Project, u \in Task : Adding(u, q)' => Adding(u, q)
      BY <2>t DEF Adding
    <2>5. ASSUME NEW q \in Project, q = current' PROVE count'[q] < Max
      <3>1. CASE current' = next
        <4>1. q = next
          BY <2>5, <3>1
        <4>2. Unused(q)
          BY <1>a, <4>1
        <4> QED  BY <1>k, <2>2, <2>c, <4>2
      <3>2. CASE count[p] + 1 < Max /\ current' = current
        <4>1. q = current /\ count[q] < Max
          BY <1>a, <2>5, <3>2
        <4> QED  BY <2>c, <3>2, <4>1
      <3> QED  BY <2>1, <3>1, <3>2
    <2>6. ASSUME NEW q \in Project, q = next' \/ q > opened' \/ (\E u \in Task : Adding(u, q)')
          PROVE  Unused(q)'
      <3>1. q = next' \/ q > opened \/ \E u \in Task : Adding(u, q)
        BY <2>1, <2>4, <2>6
      <3>2. (q = next' => q = next) /\ (q = next' => current' = current)
        BY <1>k, <2>1
      <3>3. Unused(q)
        BY <1>a, <3>1, <3>2
      <3>4. q # current
        BY <2>2, <3>3
      <3>5. CASE q = next'
        BY <2>3, <3>2, <3>3, <3>4, <3>5
      <3>6. CASE q # next'
        <4>1. q # next
          BY <1>a, <1>k, <1>o, <3>1, <3>6
        <4> QED  BY <2>1, <2>3, <3>3, <3>4, <4>1
      <3> QED  BY <3>5, <3>6
    <2>7. \A q \in Project, u \in Task : Adding(u, q)' =>
              q # next' /\ \A v \in Task : Adding(v, q)' => v = u
      BY <1>a, <1>k, <2>1, <2>4
    <2> QED  BY <2>5, <2>6, <2>7 DEF Ahead
  <1>5. CASE CreateProject(t)
    <2>0. PICK n \in Project : n = opened + 1
      BY SMTT(40), <1>5, <1>k, <1>o DEF CreateProject
    <2>1. /\ Becomes(t, "add_project", task[t].init, task[t].left, n)
          /\ opened' = n /\ UNCHANGED <<current, next, count, made>>
      BY ZenonT(60), <1>5, <2>0, TaskParts DEF CreateProject
    <2>2. \A p \in Project : Unused(p) => Unused(p)'
      BY <2>1 DEF Unused, Filling
    <2>3. \A u \in Task, p \in Project : Adding(u, p)' =>
              (Adding(u, p) /\ u # t) \/ (u = t /\ p = n)
      BY <2>1 DEF Adding
    <2>4. n > opened /\ n # next /\ n \in Nat /\ \A u \in Task : ~Adding(u, n)
      BY SMTT(40), <1>k, <1>o, <1>p, <2>0
    <2>5. \A p \in Project : p > opened' => p > opened
      BY SMTT(40), <1>k, <1>o, <2>1, <2>4
    <2> QED  BY <1>a, <2>1, <2>2, <2>3, <2>4, <2>5 DEF Ahead
  <1>6. CASE AddNewProject(t)
    <2>0. PICK n \in Project : n = task[t].project
      BY <1>6, <1>q DEF AddNewProject
    <2>1. /\ UNCHANGED <<opened, made>> /\ Adding(t, n)
          /\ count' = [count EXCEPT ![n] = 0]
          /\ \/ current = 0 /\ current' = n /\ next' = 0
             \/ next' = n /\ current' = current
      BY <1>6, <2>0 DEF AddNewProject, Adding, NoProject
    <2>2. Unused(n) /\ \A u \in Task : Adding(u, n) => u = t
      BY <1>a, <2>1
    <2>3. count[n] = 0 /\ count' = count
      BY <1>o, <2>1, <2>2 DEF Unused
    <2>4. /\ \A u \in Task \ {t} : task'[u] = task[u]
          /\ task'[t].at \notin {"create", "add", "count", "add_project"}
      BY <1>6, TaskParts
    <2>5. ASSUME NEW q \in Project, Unused(q), q # current' PROVE Unused(q)'
      <3>1. made'[q] = 0 /\ count'[q] = 0
        BY <2>1, <2>3, <2>5 DEF Unused
      <3>2. ~Filling(t, q)'
        BY <2>4 DEF Filling
      <3> QED  BY <1>u, <2>4, <2>5, <3>1, <3>2
    <2>6. \A q \in Project, u \in Task : Adding(u, q)' => Adding(u, q) /\ u # t
      BY <2>4 DEF Adding
    <2>7. \A q \in Project : q = current' => count'[q] < Max
      BY <1>a, <1>k, <2>1, <2>3
    <2>8. ASSUME NEW q \in Project, q = next' \/ q > opened' \/ (\E u \in Task : Adding(u, q)')
          PROVE  Unused(q)'
      <3>1. Unused(q)
        BY <1>a, <1>k, <2>1, <2>2, <2>6, <2>8
      <3>2. n <= opened /\ n \in Nat /\ q \in Nat
        BY <1>k, <1>p, <2>1
      <3>3. q # current'
        <4>1. CASE current' = current
          BY <3>1, <4>1 DEF Unused
        <4>2. CASE current' = n /\ next' = 0
          BY <1>k, <1>o, <2>1, <2>2, <2>6, <2>8, <3>2, <4>2
        <4> QED  BY <2>1, <4>1, <4>2
      <3> QED  BY <2>5, <3>1, <3>3
    <2>9. \A q \in Project, u \in Task : Adding(u, q)' =>
              q # next' /\ \A v \in Task : Adding(v, q)' => v = u
      BY <1>a, <1>k, <2>1, <2>2, <2>6
    <2> QED  BY <2>7, <2>8, <2>9 DEF Ahead
  <1> QED
    BY <1>1, <1>2, <1>3, <1>4, <1>5, <1>6 DEF CreateServiceAccounts

LEMMA TaskReplaces ==
    ASSUME ServiceAccountsAssumption, "project_fails" \notin Mishap, Typed, Replaced,
           NEW t \in Task, CreateServiceAccounts(t) \/ StartInit(t) \/ TaskFails(t)
    PROVE  Replaced'
  <1> USE DEF Becomes, Ends, GoesOn, Replaced
  <1>1. CASE StartTask(t) \/ StartInit(t) \/ ReadProject(t) \/ AddToPool(t) \/ CreateAccount(t)
    <2>1. /\ UNCHANGED <<opened, current>> /\ \A u \in Task \ {t} : task'[u] = task[u]
          /\ task[t].at \notin {"create_project", "add_project"} \/ StartInit(t)
      BY ZenonT(60), <1>1, TaskParts
      DEF StartTask, StartInit, ReadProject, AddToPool, CreateAccount, Steps, projects
    <2>2. StartInit(t) => task'[t].at = "create_project"
      BY TaskParts
    <2> QED  BY SMTT(40), <2>1, <2>2
  <1>2. CASE CreationRefused(t) \/ TaskFails(t)
    <2>1. /\ Ends(t) /\ UNCHANGED <<opened, current>>
          /\ task[t].at \notin {"create_project", "add_project"}
      BY <1>2, TaskParts DEF CreationRefused, TaskFails, Fails, projects
    <2> QED  BY <2>1
  <1>3. CASE CountAccount(t)
    <2>1. /\ task[t].at = "count" /\ opened' = opened
          /\ current' = current \/ (current' = next /\ next' = NoProject)
          /\ \A u \in Task \ {t} : task'[u] = task[u]
          /\ task'[t].at = "create_project" \/ ~(next' = NoProject /\ current' = NoProject)
      BY Zenon, <1>3, TaskParts DEF CountAccount
    <2> QED  BY <2>1
  <1>4. CASE CreateProject(t)
    BY <1>4, TaskParts
  <1>5. CASE AddNewProject(t)
    BY <1>5, TaskFields DEF AddNewProject, Typed, TaskInv
  <1> QED  BY <1>1, <1>2, <1>3, <1>4, <1>5 DEF CreateServiceAccounts

\* Projects follow each other without a gap, for any overlapping tasks, unless a task fails
\* that is to create the next one: a project that becomes current has no account of any
\* task, and so is full only when it has been counted full, which makes it give way.
THEOREM ProjectsAreReady ==
    ASSUME "project_fails" \notin Mishap
    PROVE  Spec => []ProjectsFollow
  <1>1. Init => Ahead /\ Replaced
    <2> SUFFICES ASSUME Init PROVE Ahead /\ Replaced
      OBVIOUS
    <2>1. /\ opened = 0 /\ current = 0 /\ next = 0 /\ \A t \in Task : task[t].at = "idle"
          /\ \A p \in Project : made[p] = 0 /\ count[p] = 0 /\ p # 0
      BY DEF Init, NoProject, IdleTask, Project
    <2> QED  BY <2>1 DEF Ahead, Replaced, Unused, Filling, Adding
  <1>2. Typed /\ Typed' /\ Ahead /\ Replaced /\ [Next]_vars => Ahead' /\ Replaced'
    <2> SUFFICES ASSUME Typed, Typed', Ahead, Replaced, [Next]_vars
                 PROVE  Ahead' /\ Replaced'
      OBVIOUS
    <2>1. ASSUME NEW t \in Task, CreateServiceAccounts(t) \/ StartInit(t) \/ TaskFails(t)
          PROVE  Ahead' /\ Replaced'
      BY <2>1, TaskKeepsAhead, TaskReplaces, ServiceAccountsAssumption
    <2>2. CASE \/ \E r \in Call : InitOnboarding(r) \/ RefillFails(r) \/ CallFails(r)
               \/ \E c \in Customer : MarkTaken(c)
               \/ UNCHANGED vars
      <3>1. UNCHANGED <<opened, current, next, count, made, task>>
        BY <2>2, OthersLeaveTasks
      <3> QED  BY <3>1 DEF Ahead, Replaced, Unused, Filling, Adding
    <2> QED  BY <2>1, <2>2 DEF Next
  <1>3. Typed /\ Ahead /\ Replaced => ProjectsFollow
    <2> SUFFICES ASSUME Typed, Ahead, Replaced PROVE ProjectsFollow
      OBVIOUS
    <2>1. \A p \in {current, next} : p # NoProject => p \in Project
      BY SMTT(40), ServiceAccountsAssumption DEF Typed, TypeOK, NoProject, Project, ServiceAccountsAssumption
    <2>2. current # NoProject => count[current] < Max
      BY <2>1 DEF Ahead
    <2>3. next # NoProject => next # current /\ made[next] = 0
      BY <2>1 DEF Ahead, Unused
    <2> QED  BY <2>2, <2>3 DEF Replaced, ProjectsFollow
  <1> QED  BY <1>1, <1>2, <1>3, AlwaysTyped, PTL DEF Spec

-----------------------------------------------------------------------------
(* The quota.  A project has at most Max - 1 accounts that are counted     *)
(* while it is current, and the tasks that have read it then go on to      *)
(* create one each: what is counted and what these may still count is      *)
(* bounded by the number of tasks, and what exists is what is counted,     *)
(* what is about to be counted, and what has been lost to a failure.       *)

Uncounted(p) == {t \in Task : task[t].at \in {"add", "count"} /\ task[t].project = p}
Crowding(p)  == {t \in Task : Filling(t, p)}

Crowd ==
    \A p \in Project :
        /\ made[p] <= count[p] + Cardinality(Uncounted(p)) + failures
        /\ count[p] + Cardinality(Crowding(p)) <= Max - 1 + Cardinality(Task)

\* Two sets of tasks that differ in one task only.
LEMMA DifferInOne ==
    ASSUME IsFiniteSet(Task), NEW S \in SUBSET Task, NEW R \in SUBSET Task, NEW t \in Task,
           S \ {t} = R \ {t}
    PROVE  /\ Cardinality(S) \in Nat /\ Cardinality(R) \in Nat
           /\ Cardinality(R) + (IF t \in S THEN 1 ELSE 0)
                 = Cardinality(S) + (IF t \in R THEN 1 ELSE 0)
           /\ Cardinality(R) <= Cardinality(Task) /\ Cardinality(Task) \in Nat
  <1>1. IsFiniteSet(S) /\ IsFiniteSet(R) /\ Cardinality(R) <= Cardinality(Task)
    BY FS_Subset
  <1>2. Cardinality(S) \in Nat /\ Cardinality(R) \in Nat /\ Cardinality(Task) \in Nat
    BY <1>1, FS_CardinalityType
  <1>3. CASE t \in S /\ t \notin R
    <2>1. R = S \ {t}
      BY <1>3
    <2>2. Cardinality(R) = Cardinality(S) - 1
      BY <1>1, <1>3, <2>1, FS_RemoveElement
    <2> QED  BY <1>1, <1>2, <1>3, <2>2
  <1>4. CASE t \notin S /\ t \in R
    <2>1. R = S \cup {t}
      BY <1>4
    <2>2. Cardinality(R) = Cardinality(S) + 1
      BY <1>1, <1>4, <2>1, FS_AddElement
    <2> QED  BY <1>1, <1>2, <1>4, <2>2
  <1>5. CASE (t \in S) <=> (t \in R)
    <2>1. R = S
      BY <1>5
    <2> QED  BY <1>1, <1>2, <1>5, <2>1
  <1> QED  BY <1>3, <1>4, <1>5

\* The step of a task changes the two sets of a project by this task only.
LEMMA CrowdStep ==
    ASSUME ServiceAccountsAssumption, IsFiniteSet(Task), Typed, Typed', Crowd, Ahead',
           NEW t \in Task, \A u \in Task \ {t} : task'[u] = task[u], NEW p \in Project,
           NEW d \in Nat, NEW e \in Nat, NEW f \in Nat, NEW g \in Nat,
           d = (IF t \in Uncounted(p) THEN 1 ELSE 0), e = (IF t \in Uncounted(p)' THEN 1 ELSE 0),
           f = (IF t \in Crowding(p) THEN 1 ELSE 0), g = (IF t \in Crowding(p)' THEN 1 ELSE 0),
           made'[p] + count[p] + failures + d <= made[p] + count'[p] + failures' + e,
           p = current' \/ count'[p] + g <= count[p] + f
    PROVE  /\ made'[p] <= count'[p] + Cardinality(Uncounted(p)') + failures'
           /\ count'[p] + Cardinality(Crowding(p)') <= Max - 1 + Cardinality(Task)
  <1>1. /\ made[p] \in Nat /\ made'[p] \in Nat /\ count[p] \in Nat /\ count'[p] \in Nat
        /\ failures \in Nat /\ failures' \in Nat /\ Max \in Nat
    BY DEF Typed, TypeOK, ServiceAccountsAssumption
  <1>2. PICK S, R \in SUBSET Task : S = Uncounted(p) /\ R = Uncounted(p)' /\ S \ {t} = R \ {t}
    <2>1. Uncounted(p) \in SUBSET Task /\ Uncounted(p)' \in SUBSET Task
      BY DEF Uncounted
    <2>2. \A u \in Task \ {t} : u \in Uncounted(p) <=> u \in Uncounted(p)'
      BY DEF Uncounted
    <2>3. Uncounted(p) \ {t} = Uncounted(p)' \ {t}
      BY <2>1, <2>2
    <2> QED  BY <2>1, <2>3
  <1>3. PICK V, W \in SUBSET Task : V = Crowding(p) /\ W = Crowding(p)' /\ V \ {t} = W \ {t}
    <2>1. Crowding(p) \in SUBSET Task /\ Crowding(p)' \in SUBSET Task
      BY DEF Crowding
    <2>2. \A u \in Task \ {t} : u \in Crowding(p) <=> u \in Crowding(p)'
      BY DEF Crowding, Filling
    <2>3. Crowding(p) \ {t} = Crowding(p)' \ {t}
      BY <2>1, <2>2
    <2> QED  BY <2>1, <2>3
  <1>4. /\ Cardinality(S) \in Nat /\ Cardinality(R) \in Nat
        /\ Cardinality(R) + d = Cardinality(S) + e
    BY <1>2, DifferInOne
  <1>5. /\ Cardinality(V) \in Nat /\ Cardinality(W) \in Nat
        /\ Cardinality(W) + f = Cardinality(V) + g
        /\ Cardinality(W) <= Cardinality(Task) /\ Cardinality(Task) \in Nat
    BY <1>3, DifferInOne
  <1>6. /\ made[p] <= count[p] + Cardinality(S) + failures
        /\ count[p] + Cardinality(V) <= Max - 1 + Cardinality(Task)
    BY <1>2, <1>3 DEF Crowd
  <1>7. p = current' => count'[p] < Max
    BY DEF Ahead
  <1>8. made'[p] <= count'[p] + Cardinality(R) + failures'
    BY <1>1, <1>4, <1>6
  <1>9. count'[p] + Cardinality(W) <= Max - 1 + Cardinality(Task)
    BY <1>1, <1>5, <1>6, <1>7
  <1> QED  BY <1>2, <1>3, <1>8, <1>9

LEMMA TaskKeepsCrowd ==
    ASSUME ServiceAccountsAssumption, IsFiniteSet(Task), Typed, Typed', Crowd, Ahead, Ahead',
           NEW t \in Task, CreateServiceAccounts(t) \/ StartInit(t) \/ TaskFails(t)
    PROVE  Crowd'
  <1> USE DEF Becomes, Ends, GoesOn
  <1> SUFFICES ASSUME NEW p \in Project
               PROVE  /\ made'[p] <= count'[p] + Cardinality(Uncounted(p)') + failures'
                      /\ count'[p] + Cardinality(Crowding(p)') <= Max - 1 + Cardinality(Task)
    BY DEF Crowd
  <1>t. /\ made[p] \in Nat /\ made'[p] \in Nat /\ count[p] \in Nat /\ count'[p] \in Nat
        /\ failures \in Nat /\ failures' \in Nat
        /\ made \in [Project -> Nat] /\ count \in [Project -> Nat]
    BY DEF Typed, TypeOK, ServiceAccountsAssumption
  <1>o. \A u \in Task \ {t} : task'[u] = task[u]
    <2>1. CASE CountAccount(t)
      BY <2>1, TaskParts
    <2>2. CASE AddNewProject(t)
      BY <2>2, TaskParts
    <2>3. CASE ~CountAccount(t) /\ ~AddNewProject(t)
      BY <2>3, TaskParts DEF CreateServiceAccounts, CreationRefused, TaskFails
    <2> QED  BY <2>1, <2>2, <2>3
  <1>c. PICK d, e, f, g \in 0..1 :
            /\ d = (IF t \in Uncounted(p) THEN 1 ELSE 0)
            /\ e = (IF t \in Uncounted(p)' THEN 1 ELSE 0)
            /\ f = (IF t \in Crowding(p) THEN 1 ELSE 0)
            /\ g = (IF t \in Crowding(p)' THEN 1 ELSE 0)
    OBVIOUS
  <1>d. /\ d = (IF task[t].at \in {"add", "count"} /\ task[t].project = p THEN 1 ELSE 0)
        /\ f = (IF task[t].at \in {"create", "add", "count"} /\ task[t].project = p THEN 1 ELSE 0)
        /\ e = (IF task'[t].at \in {"add", "count"} /\ task'[t].project = p THEN 1 ELSE 0)
        /\ g = (IF task'[t].at \in {"create", "add", "count"} /\ task'[t].project = p
                THEN 1 ELSE 0)
    BY <1>c DEF Uncounted, Crowding, Filling
  <1>s. ASSUME made'[p] + count[p] + failures + d <= made[p] + count'[p] + failures' + e,
               p = current' \/ count'[p] + g <= count[p] + f
        PROVE  /\ made'[p] <= count'[p] + Cardinality(Uncounted(p)') + failures'
               /\ count'[p] + Cardinality(Crowding(p)') <= Max - 1 + Cardinality(Task)
    BY <1>c, <1>o, <1>s, CrowdStep
  <1>1. CASE StartTask(t) \/ StartInit(t) \/ CreateProject(t)
    <2>1. /\ UNCHANGED <<count, made, failures>> /\ d = 0 /\ e = 0 /\ f = 0 /\ g = 0
      <3>1. UNCHANGED <<count, made, failures>>
        BY <1>1 DEF StartTask, StartInit, CreateProject, projects
      <3>2. task[t].at \in {"idle", "create_project"}
        BY <1>1 DEF StartTask, StartInit, CreateProject
      <3>3. task'[t].at \in {"read_project", "create_project", "add_project"}
        BY <1>1, TaskParts
      <3> QED  BY <1>d, <3>1, <3>2, <3>3
    <2> QED  BY <1>s, <1>t, <2>1
  <1>2. CASE ReadProject(t)
    <2>1. UNCHANGED <<current, count, made, failures>> /\ task[t].at = "read_project"
      BY <1>2 DEF ReadProject, projects
    <2>2. task'[t].at = "create" /\ task'[t].project = current
      BY <1>2, TaskParts
    <2> QED  BY <1>d, <1>s, <1>t, <2>1, <2>2
  <1>3. CASE CreateAccount(t)
    <2>1. /\ UNCHANGED <<count, failures>> /\ task[t].at = "create"
          /\ made'[p] = made[p] + (IF task[t].project = p THEN 1 ELSE 0)
      BY <1>3, <1>t DEF CreateAccount, projects
    <2>2. task'[t].at = "add" /\ task'[t].project = task[t].project
      BY <1>3, TaskParts
    <2> QED  BY <1>d, <1>s, <1>t, <2>1, <2>2
  <1>4. CASE AddToPool(t)
    <2>1. UNCHANGED <<count, made, failures>> /\ task[t].at = "add"
      BY <1>4 DEF AddToPool, Steps, projects
    <2>2. task'[t].at = "count" /\ task'[t].project = task[t].project
      BY <1>4, TaskParts
    <2> QED  BY <1>d, <1>s, <1>t, <2>1, <2>2
  <1>5. CASE CountAccount(t)
    <2>1. /\ UNCHANGED <<made, failures>> /\ task[t].at = "count"
          /\ count'[p] = count[p] + (IF task[t].project = p THEN 1 ELSE 0)
      BY <1>5, <1>t DEF CountAccount
    <2>2. task'[t].at \notin {"create", "add", "count"}
      BY <1>5, TaskParts
    <2> QED  BY <1>d, <1>s, <1>t, <2>1, <2>2
  <1>6. CASE AddNewProject(t)
    <2>1. UNCHANGED <<made, failures>> /\ task[t].at = "add_project"
      BY <1>6 DEF AddNewProject
    <2>2. task'[t].at \notin {"create", "add", "count"}
      BY <1>6, TaskParts
    <2>3. count'[p] = count[p]
      <3>1. CASE task[t].project = p
        <4>1. count[p] = 0
          BY <2>1, <3>1 DEF Ahead, Adding, Unused
        <4> QED  BY <1>6, <1>t, <3>1, <4>1 DEF AddNewProject
      <3>2. CASE task[t].project # p
        BY <1>6, <1>t, <3>2 DEF AddNewProject
      <3> QED  BY <3>1, <3>2
    <2> QED  BY <1>d, <1>s, <1>t, <2>1, <2>2, <2>3
  <1>7. CASE CreationRefused(t)
    <2>1. UNCHANGED <<count, made, failures>> /\ task[t].at = "create"
      BY <1>7 DEF CreationRefused, projects
    <2>2. task'[t].at = "idle"
      BY <1>7, TaskParts DEF CreationRefused
    <2> QED  BY <1>d, <1>s, <1>t, <2>1, <2>2
  <1>8. CASE TaskFails(t)
    <2>1. UNCHANGED <<count, made>> /\ failures' = failures + 1
      BY <1>8 DEF TaskFails, Fails, projects
    <2>2. task'[t].at = "idle"
      BY <1>8, TaskParts DEF TaskFails
    <2> QED  BY <1>d, <1>s, <1>t, <2>1, <2>2
  <1> QED
    BY <1>1, <1>2, <1>3, <1>4, <1>5, <1>6, <1>7, <1>8 DEF CreateServiceAccounts

\* Google never refuses an account as long as what Google allows beyond Max leaves room for
\* every task that may be under way at once, but one, and for every failure: with 98 and 100
\* it is enough for two tasks and a failure, for three tasks without a failure, and no more.
THEOREM QuotaIsKept ==
    ASSUME IsFiniteSet(Task), Max - 1 + Cardinality(Task) + MaxFailures <= Quota
    PROVE  Spec => []QuotaKept
  <1>n. Max \in Nat /\ MaxFailures \in Nat /\ Quota \in Nat /\ Cardinality(Task) \in Nat
    BY ServiceAccountsAssumption, FS_CardinalityType DEF ServiceAccountsAssumption
  <1>1. Init => Ahead /\ Crowd
    <2> SUFFICES ASSUME Init PROVE Ahead /\ Crowd
      OBVIOUS
    <2>1. /\ opened = 0 /\ current = 0 /\ next = 0 /\ \A t \in Task : task[t].at = "idle"
          /\ \A p \in Project : made[p] = 0 /\ count[p] = 0 /\ p # 0
          /\ failures = 0
      BY DEF Init, NoProject, IdleTask, Project
    <2>2. Ahead
      BY <2>1 DEF Ahead, Unused, Filling, Adding
    <2>3. \A p \in Project : Uncounted(p) = {} /\ Crowding(p) = {}
      BY <2>1 DEF Uncounted, Crowding, Filling
    <2>4. Cardinality({}) = 0 /\ Max > 0
      BY ServiceAccountsAssumption, FS_EmptySet DEF ServiceAccountsAssumption
    <2> QED  BY <1>n, <2>1, <2>2, <2>3, <2>4 DEF Crowd
  <1>2. Typed /\ Typed' /\ Ahead /\ Crowd /\ [Next]_vars => Ahead' /\ Crowd'
    <2> SUFFICES ASSUME Typed, Typed', Ahead, Crowd, [Next]_vars
                 PROVE  Ahead' /\ Crowd'
      OBVIOUS
    <2>1. ASSUME NEW t \in Task, CreateServiceAccounts(t) \/ StartInit(t) \/ TaskFails(t)
          PROVE  Ahead' /\ Crowd'
      <3>1. Ahead'
        BY <2>1, TaskKeepsAhead, ServiceAccountsAssumption
      <3> QED  BY <2>1, <3>1, TaskKeepsCrowd, ServiceAccountsAssumption
    <2>2. CASE \/ \E r \in Call : InitOnboarding(r) \/ RefillFails(r) \/ CallFails(r)
               \/ \E c \in Customer : MarkTaken(c)
               \/ UNCHANGED vars
      <3>1. UNCHANGED <<opened, current, next, count, made, task>>
        BY <2>2, OthersLeaveTasks
      <3>2. failures \in Nat /\ failures' \in Nat /\ failures' >= failures
        <4>1. failures' = failures \/ failures' = failures + 1
          BY <2>2 DEF InitOnboarding, CreateDocument, Lookup, AttemptAborted, Reserve, PassOn,
                ReserveNothing, Refill, Attach, RefillFails, CallFails, Fails, MarkTaken, vars
        <4>2. failures \in Nat
          BY <1>n DEF Typed, TypeOK
        <4> QED  BY <4>1, <4>2
      <3>3. Ahead'
        BY <3>1 DEF Ahead, Unused, Filling, Adding
      <3>4. ASSUME NEW p \in Project
            PROVE  /\ made'[p] <= count'[p] + Cardinality(Uncounted(p)') + failures'
                   /\ count'[p] + Cardinality(Crowding(p)') <= Max - 1 + Cardinality(Task)
        <4>1. Uncounted(p)' = Uncounted(p) /\ Crowding(p)' = Crowding(p)
          BY <3>1 DEF Uncounted, Crowding, Filling
        <4>2. Cardinality(Uncounted(p)) \in Nat
          BY FS_Subset, FS_CardinalityType DEF Uncounted
        <4>3. made[p] \in Nat /\ count[p] \in Nat
          BY DEF Typed, TypeOK
        <4>4. /\ made[p] <= count[p] + Cardinality(Uncounted(p)) + failures
              /\ count[p] + Cardinality(Crowding(p)) <= Max - 1 + Cardinality(Task)
          BY DEF Crowd
        <4>5. made[p] <= count[p] + Cardinality(Uncounted(p)) + failures'
          BY <3>2, <4>2, <4>3, <4>4
        <4> QED  BY <3>1, <4>1, <4>4, <4>5
      <3> QED  BY <3>3, <3>4 DEF Crowd
    <2> QED  BY <2>1, <2>2 DEF Next
  <1>3. Typed /\ Crowd => QuotaKept
    <2> SUFFICES ASSUME Typed, Crowd, NEW t \in Task, task[t].at = "create",
                        QuotaReached(task[t].project)
                 PROVE  FALSE
      BY DEF QuotaKept
    <2>1. PICK p \in Project : p = task[t].project /\ made[p] >= Quota
      BY TaskFields DEF QuotaReached, Typed
    <2>2. PICK S, V \in SUBSET Task : S = Uncounted(p) /\ V = Crowding(p)
      BY DEF Uncounted, Crowding
    <2>3. S \subseteq V \ {t} /\ t \in V
      BY <2>1, <2>2 DEF Uncounted, Crowding, Filling
    <2>4. IsFiniteSet(V) /\ IsFiniteSet(V \ {t})
      BY FS_Subset
    <2>5. /\ Cardinality(S) <= Cardinality(V \ {t}) /\ Cardinality(V \ {t}) = Cardinality(V) - 1
          /\ Cardinality(S) \in Nat /\ Cardinality(V) \in Nat
      BY <2>3, <2>4, FS_Subset, FS_RemoveElement, FS_CardinalityType
    <2>6. /\ made[p] <= count[p] + Cardinality(S) + failures
          /\ count[p] + Cardinality(V) <= Max - 1 + Cardinality(Task)
      BY <2>2 DEF Crowd
    <2>7. made[p] \in Nat /\ count[p] \in Nat /\ failures \in 0..MaxFailures
      BY DEF Typed, TypeOK
    <2> QED  BY <1>n, <2>1, <2>5, <2>6, <2>7
  <1> QED  BY <1>1, <1>2, <1>3, AlwaysTyped, PTL DEF Spec

=============================================================================
