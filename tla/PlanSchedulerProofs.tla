------------------------ MODULE PlanSchedulerProofs ------------------------
(***************************************************************************)
(* Theorems about the plan scheduler, for every plan, lock assignment,     *)
(* retry policy, budget and set of faults.                                 *)
(*                                                                         *)
(* None of the properties is inductive.  ExclusiveWork speaks of tasks,    *)
(* the registry of handles: WorkHoldsLocks ties a task at work to the      *)
(* handle of its current attempt, and RegistryInv (proved to be kept by    *)
(* every reservation and release in LockRegistryProofs) does the rest.     *)
(* NothingLeftBehind needs the converse, HeldByWork.  StartsBounded needs  *)
(* to know that a task that may be started again was granted an attempt it *)
(* has not used (RetryCount), which in turn needs that a coroutine settles *)
(* only over a terminal status.  BudgetBoundsWork counts the requests sent *)
(* together with the coroutines about to send one (Sent), SkippedForCause  *)
(* needs a cause that is over for good (SkipInv), CancelReachesJobs holds  *)
(* of every state what it claims of a cancelled run (Told), and            *)
(* NeverStalled rests on the shape expansions keep (PlanShape) and on a    *)
(* plan that shows nothing as running that is not (RunningIsWorked).       *)
(***************************************************************************)
EXTENDS PlanScheduler, FiniteSetTheorems, WellFoundedInduction, TLAPS

RegistryFacts == INSTANCE LockRegistryProofs WITH
    Runs <- {Self, Others},
    RunOf <- [h \in Handles |-> IF h \in Outsiders THEN Others ELSE Self],
    Wants <- [h \in Handles |-> IF h \in Outsiders THEN OutsiderLocks[h]
                                ELSE LocksOf[h[1]]]

-----------------------------------------------------------------------------
(* The registry of this run satisfies what LockRegistry assumes. *)
LEMMA RegistryAssumed == Registry!RegistryAssumption
<1>1. \A h \in Attempts : h[1] \in Tasks
  BY DEF Attempts
<1> QED
  BY <1>1, SchedulerAssumption DEF Registry!RegistryAssumption, Handles

(* Reservations and releases keep the registry right. *)
LEMMA ReserveKeeps ==
    ASSUME Registry!TypeOK, Registry!RegistryInv,
           NEW H \in SUBSET Handles, Registry!Reserve(H)
    PROVE  Registry!TypeOK' /\ Registry!RegistryInv'
BY RegistryAssumed, RegistryFacts!ReserveInv
   DEF Registry!RegistryAssumption, RegistryFacts!RegistryAssumption,
       Registry!TypeOK, RegistryFacts!TypeOK,
       Registry!RegistryInv, RegistryFacts!RegistryInv,
       Registry!Exclusive, RegistryFacts!Exclusive,
       Registry!RegistryIsLiveHandles, RegistryFacts!RegistryIsLiveHandles,
       Registry!OwnersNameHolders, RegistryFacts!OwnersNameHolders,
       Registry!Held, RegistryFacts!Held,
       Registry!LocksOfAll, RegistryFacts!LocksOfAll,
       Registry!Reserve, RegistryFacts!Reserve, RegistryFacts!Inv,
       Registry!Fresh, RegistryFacts!Fresh,
       Registry!CanAcquire, RegistryFacts!CanAcquire

LEMMA ReleaseKeeps ==
    ASSUME Registry!TypeOK, Registry!RegistryInv,
           NEW H \in SUBSET Handles, Registry!Release(H)
    PROVE  Registry!TypeOK' /\ Registry!RegistryInv'
BY RegistryAssumed, RegistryFacts!ReleaseInv
   DEF Registry!RegistryAssumption, RegistryFacts!RegistryAssumption,
       Registry!TypeOK, RegistryFacts!TypeOK,
       Registry!RegistryInv, RegistryFacts!RegistryInv,
       Registry!Exclusive, RegistryFacts!Exclusive,
       Registry!RegistryIsLiveHandles, RegistryFacts!RegistryIsLiveHandles,
       Registry!OwnersNameHolders, RegistryFacts!OwnersNameHolders,
       Registry!Held, RegistryFacts!Held,
       Registry!LocksOfAll, RegistryFacts!LocksOfAll,
       Registry!Release, RegistryFacts!Release, RegistryFacts!Inv,
       Registry!Fresh, RegistryFacts!Fresh

-----------------------------------------------------------------------------
(* Type correctness.                                                       *)

(* A task with a coroutine was started: its attempt is a handle. *)
StartedWork == \A t \in Tasks : worker[t] # "none" => starts[t] >= 1

LEMMA AttemptsAreHandles ==
    ASSUME WorkTypeOK, StartedWork, NEW t \in Tasks, worker[t] # "none"
    PROVE  Attempt(t) \in Attempts /\ {Attempt(t)} \in SUBSET Handles
BY SchedulerAssumption DEF WorkTypeOK, StartedWork, Attempt, Attempts, Handles

LEMMA CardinalityNat ==
    ASSUME NEW S \in SUBSET Tasks
    PROVE  Cardinality(S) \in Nat
BY SchedulerAssumption, FS_Subset, FS_CardinalityType

(* Launch reserves handles of this run, one per task, each at the next     *)
(* attempt of its task.                                                    *)
LEMMA LaunchHandles ==
    ASSUME WorkTypeOK, NEW S \in SUBSET Tasks, NEW R \in SUBSET Tasks, Launch(S, R)
    PROVE  /\ {<<t, starts[t] + 1>> : t \in S \union R} \in SUBSET Handles
           /\ Registry!Reserve({<<t, starts[t] + 1>> : t \in S \union R})
<1>1. \A t \in S \union R : starts[t] + 1 \in 1 .. MaxStarts
  BY SchedulerAssumption DEF WorkTypeOK, Launch
<1> QED
  BY <1>1 DEF Launch, Attempts, Handles

(* What startReadyTasks starts is a set of pending tasks without a         *)
(* coroutine.                                                              *)
LEMMA StartableTasks == Startable \subseteq Pending \ Active /\ Startable \subseteq Tasks
BY DEF Startable, Ready, Pending, Active

(* The projection of activities writes statuses of the vocabulary, leaves  *)
(* terminal and absent steps alone, and adds no step.                      *)
LEMMA ProjectionOfStatus ==
    ASSUME NEW st \in [Tasks -> PlanStatuses],
           NEW f \in [Attempts -> {"none", "live", "done", "failed"}],
           NEW a \in Attempts
    PROVE  /\ Projected(st, f, a) \in [Tasks -> PlanStatuses]
           /\ \A t \in Tasks : st[t] \in TerminalStatuses \union {"absent"}
                                  => Projected(st, f, a)[t] = st[t]
<1>1. \A t \in Tasks : Projected(st, f, a)[t] \in PlanStatuses
  BY DEF Projected, PlanStatuses, Statuses, TerminalStatuses
<1> QED
  BY <1>1 DEF Projected

(* Registry steps: every step of the system reserves a set of fresh        *)
(* handles, releases a set of used ones, or leaves the registry alone.     *)
RegistryStep ==
    \/ \E H \in SUBSET Handles : Registry!Reserve(H) \/ Registry!Release(H)
    \/ UNCHANGED lockVars

LEMMA ActionsUseRegistry ==
    ASSUME TypeOK, StartedWork, [Next]_vars
    PROVE  RegistryStep
<1> USE DEF TypeOK, RegistryStep
<1>1. ASSUME NEW S \in SUBSET Tasks, NEW R \in SUBSET Tasks, Launch(S, R)
      PROVE  RegistryStep
  BY <1>1, LaunchHandles
<1>2. CASE StartReadyTasks
  BY <1>2, <1>1, StartableTasks DEF StartReadyTasks
<1>3. CASE StartBeyondBudget
  <2>1. PICK S \in SUBSET Startable : \E t \in S : Launch(Earlier(S, t), {t})
    BY <1>3 DEF StartBeyondBudget
  <2> PICK t \in S : Launch(Earlier(S, t), {t})
    BY <2>1
  <2>2. Earlier(S, t) \in SUBSET Tasks /\ {t} \in SUBSET Tasks
    BY StartableTasks DEF Earlier
  <2> QED
    BY <1>1, <2>2
<1>4. CASE Drained
  BY <1>4 DEF Drained, Registry!Clear, Registry!Reservations, Registry!Held
<1>5. CASE \/ TopAborted \/ AllTerminal \/ WaitForActive \/ ReturnOverBudget
           \/ AwaitApproval \/ SkipImpossible \/ AwaitForeignLock \/ Stall \/ Wake
  BY <1>5 DEF TopAborted, AllTerminal, WaitForActive, ReturnOverBudget,
              AwaitApproval, SkipImpossible, AwaitForeignLock, Stall, Wake
<1>6. ASSUME NEW t \in Tasks,
             \/ TakeCancelled(t) \/ TakeOverBudget(t) \/ TakeOk(t)
             \/ TakeFailed(t) \/ TakeRetry(t)
      PROVE  RegistryStep
  BY <1>6 DEF TakeCancelled, TakeOverBudget, TakeOk, TakeFailed, TakeRetry, Take
<1>7. ASSUME NEW t \in Tasks,
             \/ Submit(t) \/ Accepted(t) \/ AbortJob(t)
             \/ ExpansionIntegrated(t) \/ ExpansionRejected(t)
      PROVE  RegistryStep
  BY <1>7 DEF Submit, Accepted, AbortJob, ExpansionIntegrated, ExpansionRejected
<1>8. ASSUME NEW t \in Tasks,
             \/ AbortBeforeJob(t) \/ Rejected(t) \/ Result(t) \/ CancelReturns(t)
             \/ AssignFails(t) \/ CallFails(t) \/ Timeout(t) \/ ExpansionThrows(t)
      PROVE  RegistryStep
  <2>1. worker[t] # "none" /\ Registry!Release({Attempt(t)})
    BY <1>8 DEF AbortBeforeJob, Rejected, Result, CancelReturns, AssignFails,
                CallFails, Timeout, ExpansionThrows, Throws
  <2> QED
    BY <2>1, AttemptsAreHandles
<1>9. ASSUME NEW a \in Attempts, PollActivity(a) \/ AgentStep(a)
      PROVE  RegistryStep
  BY <1>9 DEF PollActivity, AgentStep, AgentAnswers, AgentFinishes
<1>10. ASSUME NEW o \in Outsiders, OutsiderStep(o)
       PROVE  RegistryStep
  <2>1. {o} \in SUBSET Handles
    BY DEF Handles
  <2> QED
    BY <1>10, <2>1 DEF OutsiderStep, OutsiderClaims, OutsiderReleases
<1>11. ASSUME NEW r \in 0 .. MaxRevision, Approve(r)
       PROVE  RegistryStep
  BY <1>11 DEF Approve
<1>12. ASSUME NEW t \in Tasks, Reject(t)
       PROVE  RegistryStep
  BY <1>12 DEF Reject
<1>13. ASSUME NEW reason \in {"user", "shutdown"}, Abort(reason)
       PROVE  RegistryStep
  BY <1>13 DEF Abort
<1>14. CASE UNCHANGED vars
  BY <1>14 DEF vars
<1> QED
  BY <1>2, <1>3, <1>4, <1>5, <1>6, <1>7, <1>8, <1>9, <1>10, <1>11, <1>12,
     <1>13, <1>14
     DEF Next, LoopStep, WorkerStep, WorkerFault, OutsiderStep, Done

(* The types of the scheduler's own variables, with StartedWork. *)
OwnTypes == /\ PlanTypeOK /\ WorkTypeOK /\ AgentTypeOK /\ HumanTypeOK
            /\ LoopTypeOK /\ StartedWork

LEMMA LaunchTypes ==
    ASSUME OwnTypes, NEW S \in SUBSET Tasks, NEW R \in SUBSET Tasks, Launch(S, R),
           UNCHANGED exceeded \/ exceeded' = TRUE,
           loop' \in {"racing", "ended"}, outcome' \in Outcomes
    PROVE  OwnTypes'
<1> USE SchedulerAssumption DEF OwnTypes
<1>1. tasksStarted' \in Nat
  BY CardinalityNat DEF Launch, LoopTypeOK
<1>2. PlanTypeOK'
  BY DEF Launch, PlanTypeOK, PlanStatuses, Statuses
<1>3. WorkTypeOK' /\ StartedWork'
  BY DEF Launch, WorkTypeOK, WorkerStates, StartedWork
<1>4. AgentTypeOK' /\ HumanTypeOK'
  BY DEF Launch, AgentTypeOK, HumanTypeOK, agentVars, humanVars
<1>5. LoopTypeOK'
  BY <1>1 DEF Launch, LoopTypeOK
<1> QED
  BY <1>2, <1>3, <1>4, <1>5

LEMMA LoopTypes ==
    ASSUME OwnTypes, LoopStep
    PROVE  OwnTypes'
<1> USE SchedulerAssumption DEF OwnTypes, PlanTypeOK, WorkTypeOK, AgentTypeOK,
        HumanTypeOK, LoopTypeOK, StartedWork, planVars, agentVars, humanVars,
        budgetVars, Return, Outcomes
<1>1. CASE StartReadyTasks
  <2>1. PICK S \in SUBSET Startable : Launch(S, {})
    BY <1>1 DEF StartReadyTasks
  <2> QED
    BY <1>1, <2>1, StartableTasks, LaunchTypes DEF StartReadyTasks
<1>2. CASE StartBeyondBudget
  <2>1. PICK S \in SUBSET Startable : \E t \in S : Launch(Earlier(S, t), {t})
    BY <1>2 DEF StartBeyondBudget
  <2> PICK t \in S : Launch(Earlier(S, t), {t})
    BY <2>1
  <2>2. Earlier(S, t) \in SUBSET Tasks /\ {t} \in SUBSET Tasks
    BY StartableTasks DEF Earlier
  <2> QED
    BY <1>2, <2>2, LaunchTypes DEF StartBeyondBudget
<1>3. CASE Drained
  BY <1>3 DEF Drained, WorkerStates
<1>4. CASE WaitForActive
  BY <1>4 DEF WaitForActive, Exceeded
<1>5. CASE AwaitApproval
  BY <1>5 DEF AwaitApproval, PlanStatuses, Statuses, PendingStatuses
<1>6. CASE SkipImpossible
  BY <1>6 DEF SkipImpossible, PlanStatuses, Statuses, TerminalStatuses
<1>7. CASE TopAborted \/ AllTerminal
  BY <1>7 DEF TopAborted, AllTerminal
<1>8. CASE ReturnOverBudget \/ AwaitForeignLock \/ Stall \/ Wake
  BY <1>8 DEF ReturnOverBudget, AwaitForeignLock, Stall, Wake
<1>9. ASSUME NEW t \in Tasks, Take(t)
      PROVE  /\ WorkTypeOK' \/ attempts' \notin [Tasks -> Nat]
             /\ StartedWork' /\ AgentTypeOK' /\ HumanTypeOK'
             /\ deps' = deps /\ revision' = revision
             /\ tasksStarted' = tasksStarted /\ exceeded' = exceeded
  BY <1>9 DEF Take, WorkerStates
<1>10. ASSUME NEW t \in Tasks, TakeCancelled(t) \/ TakeOverBudget(t) \/ TakeOk(t)
       PROVE  OwnTypes'
  <2>1. Take(t) /\ status' = status /\ attempts' = attempts /\ failures' = failures
    BY <1>10 DEF TakeCancelled, TakeOverBudget, TakeOk
  <2>2. /\ loop' \in {"top", "draining", "ended"}
        /\ outcome' = outcome \/ outcome' = "budget"
    BY <1>10 DEF TakeCancelled, TakeOverBudget, TakeOk
  <2> QED
    BY <1>9, <2>1, <2>2
<1>11. ASSUME NEW t \in Tasks, TakeFailed(t)
       PROVE  OwnTypes'
  BY <1>11, <1>9 DEF TakeFailed
<1>12. ASSUME NEW t \in Tasks, TakeRetry(t)
       PROVE  OwnTypes'
  <2>1. attempts' \in [Tasks -> Nat] /\ status' \in [Tasks -> PlanStatuses]
    BY <1>12 DEF TakeRetry, PlanStatuses, Statuses, PendingStatuses
  <2> QED
    BY <1>12, <1>9, <2>1 DEF TakeRetry
<1> QED
  BY <1>1, <1>2, <1>3, <1>4, <1>5, <1>6, <1>7, <1>8, <1>9, <1>10, <1>11,
     <1>12
     DEF LoopStep

LEMMA WorkerTypes ==
    ASSUME OwnTypes, NEW t \in Tasks, WorkerStep(t) \/ WorkerFault(t)
    PROVE  OwnTypes'
<1> USE SchedulerAssumption DEF OwnTypes, PlanTypeOK, WorkTypeOK, AgentTypeOK,
        HumanTypeOK, LoopTypeOK, StartedWork, planVars, agentVars, humanVars,
        budgetVars, WorkerFrame, WorkerStates, JobStates
<1>1. Attempt(t) \in Attempts \/ worker[t] = "none"
  BY AttemptsAreHandles
<1>2. ASSUME NEW how \in WorkerStates \ {"none"},
             NEW st \in TerminalStatuses, Settle(t, how, st), worker[t] # "none",
             WorkerFrame, UNCHANGED <<deps, revision, agentVars>>
      PROVE  OwnTypes'
  BY <1>2 DEF Settle, PlanStatuses, Statuses
<1>3. CASE Submit(t)
  BY <1>3, <1>1 DEF Submit
<1>4. CASE Accepted(t)
  <2>1. Attempt(t) \in Attempts /\ frame' = [frame EXCEPT ![Attempt(t)] = "live"]
    BY <1>4, <1>1 DEF Accepted, Upsert
  <2>2. frame' \in [Attempts -> {"none", "live", "done", "failed"}]
    BY <2>1
  <2>3. status' \in [Tasks -> PlanStatuses]
    BY <1>4, <2>1, <2>2, ProjectionOfStatus DEF Accepted, Upsert
  <2> QED
    BY <1>4, <2>2, <2>3 DEF Accepted
<1>5. CASE AbortJob(t)
  BY <1>5, <1>1 DEF AbortJob
<1>6. CASE ExpansionRejected(t)
  BY <1>6 DEF ExpansionRejected, AcceptReturns, Settlements
<1>7. CASE ExpansionIntegrated(t)
  <2>1. worker' \in [Tasks -> WorkerStates] /\ StartedWork'
    BY <1>7 DEF ExpansionIntegrated, AcceptReturns, Settlements
  <2>2. revision' \in 0 .. MaxRevision
    BY <1>7 DEF ExpansionIntegrated, Integrate
  <2>3. deps' \in [Tasks -> SUBSET Tasks]
    BY <1>7 DEF ExpansionIntegrated, Integrate
  <2>4. status' \in [Tasks -> PlanStatuses]
    BY <1>7 DEF ExpansionIntegrated, Integrate, PlanStatuses, Statuses,
                PendingStatuses
  <2>5. asked' \in [Tasks -> -1 .. MaxRevision]
    BY <1>7 DEF ExpansionIntegrated, Integrate
  <2> QED
    BY <1>7, <2>1, <2>2, <2>3, <2>4, <2>5 DEF ExpansionIntegrated
<1>8. CASE AbortBeforeJob(t) \/ CancelReturns(t)
  BY <1>8, <1>2 DEF AbortBeforeJob, CancelReturns, TerminalStatuses
<1>9. CASE \/ Rejected(t) \/ AssignFails(t) \/ CallFails(t) \/ Timeout(t)
           \/ ExpansionThrows(t)
  BY <1>9, <1>2 DEF Rejected, AssignFails, CallFails, Timeout, ExpansionThrows,
                    Throws, TerminalStatuses
<1>10. CASE Result(t)
  <2>1. PICK st \in Verdicts(job[Attempt(t)]) :
             \/ \E how \in Settlements(st) : Settle(t, how, st)
             \/ Settle(t, "expanding", st)
    BY <1>10 DEF Result
  <2>2. st \in TerminalStatuses
    BY <1>10, <2>1 DEF Result, Verdicts, TerminalStatuses
  <2> QED
    BY <1>10, <2>1, <2>2, <1>2 DEF Result, Settlements
<1> QED
  BY <1>3, <1>4, <1>5, <1>6, <1>7, <1>8, <1>9, <1>10 DEF WorkerStep, WorkerFault

LEMMA EnvironmentTypes ==
    ASSUME OwnTypes,
           \/ \E a \in Attempts : PollActivity(a) \/ AgentStep(a)
           \/ \E o \in Outsiders : OutsiderStep(o)
           \/ \E r \in 0 .. MaxRevision : Approve(r)
           \/ \E t \in Tasks : Reject(t)
           \/ \E reason \in {"user", "shutdown"} : Abort(reason)
    PROVE  OwnTypes'
<1> USE SchedulerAssumption DEF OwnTypes, PlanTypeOK, WorkTypeOK, AgentTypeOK,
        HumanTypeOK, LoopTypeOK, StartedWork, planVars, agentVars, humanVars,
        budgetVars, EnvFrame, JobStates
<1>1. ASSUME NEW a \in Attempts, PollActivity(a)
      PROVE  OwnTypes'
  <2>1. frame' \in [Attempts -> {"none", "live", "done", "failed"}]
    BY <1>1 DEF PollActivity, Upsert, FrameOf
  <2>2. status' \in [Tasks -> PlanStatuses]
    BY <1>1, <2>1, ProjectionOfStatus DEF PollActivity, Upsert
  <2> QED
    BY <1>1, <2>1, <2>2 DEF PollActivity
<1>2. ASSUME NEW a \in Attempts, AgentStep(a)
      PROVE  OwnTypes'
  BY <1>2 DEF AgentStep, AgentAnswers, AgentFinishes
<1>3. ASSUME NEW o \in Outsiders, OutsiderStep(o)
      PROVE  OwnTypes'
  BY <1>3 DEF OutsiderStep, OutsiderClaims, OutsiderReleases
<1>4. ASSUME NEW r \in 0 .. MaxRevision, Approve(r)
      PROVE  OwnTypes'
  BY <1>4 DEF Approve
<1>5. ASSUME NEW t \in Tasks, Reject(t)
      PROVE  OwnTypes'
  BY <1>5 DEF Reject
<1>6. ASSUME NEW reason \in {"user", "shutdown"}, Abort(reason)
      PROVE  OwnTypes'
  BY <1>6 DEF Abort
<1> QED
  BY <1>1, <1>2, <1>3, <1>4, <1>5, <1>6

(* Types, and a registry that is right. *)
BaseInv == TypeOK /\ StartedWork /\ Registry!RegistryInv

LEMMA InitBase == Init => BaseInv
<1> SUFFICES ASSUME Init
             PROVE  BaseInv
  OBVIOUS
<1> USE SchedulerAssumption DEF Init
<1>1. PlanTypeOK
  BY DEF PlanTypeOK, PlanStatuses, Statuses, PendingStatuses
<1>2. WorkTypeOK /\ StartedWork
  BY DEF WorkTypeOK, WorkerStates, StartedWork
<1>3. AgentTypeOK /\ HumanTypeOK /\ LoopTypeOK
  <2>1. AgentTypeOK
    BY DEF AgentTypeOK, JobStates
  <2>2. HumanTypeOK
    BY DEF HumanTypeOK
  <2>3. LoopTypeOK
    BY DEF LoopTypeOK, Outcomes
  <2> QED
    BY <2>1, <2>2, <2>3
<1>4. Registry!TypeOK /\ Registry!RegistryInv
  BY RegistryAssumed
     DEF Registry!Init, Registry!TypeOK, Registry!RegistryInv,
         Registry!Exclusive, Registry!RegistryIsLiveHandles,
         Registry!OwnersNameHolders, Registry!Held, Registry!LocksOfAll,
         Registry!RegistryAssumption
<1> QED
  BY <1>1, <1>2, <1>3, <1>4 DEF BaseInv, TypeOK

LEMMA NextBase == BaseInv /\ [Next]_vars => BaseInv'
<1> SUFFICES ASSUME BaseInv, [Next]_vars
             PROVE  BaseInv'
  OBVIOUS
<1>1. OwnTypes
  BY DEF BaseInv, TypeOK, OwnTypes
<1>2. OwnTypes'
  <2>1. CASE LoopStep
    BY <2>1, <1>1, LoopTypes
  <2>2. ASSUME NEW t \in Tasks, WorkerStep(t) \/ WorkerFault(t)
        PROVE  OwnTypes'
    BY <2>2, <1>1, WorkerTypes
  <2>3. CASE \/ \E a \in Attempts : PollActivity(a) \/ AgentStep(a)
             \/ \E o \in Outsiders : OutsiderStep(o)
             \/ \E r \in 0 .. MaxRevision : Approve(r)
             \/ \E t \in Tasks : Reject(t)
             \/ \E reason \in {"user", "shutdown"} : Abort(reason)
    BY <2>3, <1>1, EnvironmentTypes
  <2>4. CASE UNCHANGED vars
    BY <2>4, <1>1 DEF vars, planVars, agentVars, humanVars, budgetVars,
       OwnTypes, PlanTypeOK, WorkTypeOK, AgentTypeOK, HumanTypeOK, LoopTypeOK,
       StartedWork
  <2> QED
    BY <2>1, <2>2, <2>3, <2>4 DEF Next, Done
<1>3. Registry!TypeOK' /\ Registry!RegistryInv'
  <2>1. RegistryStep
    BY ActionsUseRegistry DEF BaseInv
  <2>2. CASE UNCHANGED lockVars
    BY <2>2 DEF lockVars, BaseInv, TypeOK, Registry!TypeOK, Registry!RegistryInv,
       Registry!Exclusive, Registry!RegistryIsLiveHandles,
       Registry!OwnersNameHolders, Registry!Held, Registry!LocksOfAll
  <2> QED
    BY <2>1, <2>2, ReserveKeeps, ReleaseKeeps DEF RegistryStep, BaseInv, TypeOK
<1> QED
  BY <1>2, <1>3 DEF BaseInv, TypeOK, OwnTypes

LEMMA BaseAlways == Spec => []BaseInv
BY InitBase, NextBase, PTL DEF Spec

(* The scheduler's variables keep their types, whatever the plan, the      *)
(* agents, the human and the other runs do.                                *)
THEOREM TypeCorrect == Spec => []TypeOK
<1>1. BaseInv => TypeOK
  BY DEF BaseInv
<1> QED
  BY <1>1, BaseAlways, PTL

(* The run uses the shared registry by its protocol: seen through locks,   *)
(* owners and handles, every behaviour of the scheduler, its crashes into  *)
(* the budget and its late releases included, is one of LockRegistry.      *)
THEOREM SchedulerImplementsRegistry == Spec => Registry!Spec
<1>1. Init => Registry!Init
  BY DEF Init
<1>2. BaseInv /\ [Next]_vars => [Registry!Next]_(Registry!vars)
  BY ActionsUseRegistry
     DEF BaseInv, RegistryStep, Registry!Next, Registry!vars, lockVars
<1> QED
  BY <1>1, <1>2, BaseAlways, PTL DEF Spec, Registry!Spec

-----------------------------------------------------------------------------
(* Work and locks.                                                         *)

Settled == {"ok", "failed", "retryable", "cancelled"}

(* A task at work holds the locks of its current attempt. *)
WorkHoldsLocks == \A t \in Tasks : Working(t) => handle[Attempt(t)] = "held"

(* Unless the loop threw, an attempt holds locks only for a task at work. *)
HeldByWork ==
    outcome # "threw" =>
       \A t \in Tasks, n \in 1 .. MaxStarts :
          handle[<<t, n>>] = "held" => n = starts[t] /\ Working(t)

(* The outcome is given when the loop ends, and a loop that ends by itself *)
(* or by a cancellation ends without a coroutine.                          *)
EndsClean ==
    /\ loop # "ended" => outcome = "none"
    /\ loop = "ended" /\ outcome \notin {"budget", "threw"} => Active = {}

WorkInv == WorkHoldsLocks /\ HeldByWork /\ EndsClean

LEMMA InitWork == Init => WorkInv
BY DEF Init, WorkInv, WorkHoldsLocks, HeldByWork, EndsClean, Working, Registry!Init,
       Handles, Attempts

(* Steps of a task's coroutine that keep its locks and stay at work, or    *)
(* that are not at work before and after.                                  *)
LEMMA WorkKept ==
    ASSUME BaseInv, WorkInv, UNCHANGED <<starts, handle, loop, outcome>>,
           worker' \in [Tasks -> WorkerStates],
           \A t \in Tasks : /\ Working(t) <=> Working(t)'
                            /\ worker[t] = "none" => worker'[t] = "none"
    PROVE  WorkInv'
BY DEF WorkInv, WorkHoldsLocks, HeldByWork, EndsClean, Attempt, Active

(* Steps that release the attempt of a task and end its work. *)
LEMMA WorkEnded ==
    ASSUME BaseInv, WorkInv, NEW t \in Tasks, worker[t] # "none",
           Registry!Release({Attempt(t)}),
           NEW how \in Settled \union {"expanding"},
           worker' = [worker EXCEPT ![t] = how],
           UNCHANGED <<starts, loop, outcome>>
    PROVE  WorkInv'
<1> USE DEF BaseInv, TypeOK, WorkTypeOK, WorkInv
<1>1. \A h \in Handles : handle'[h] = IF h = Attempt(t) THEN "released" ELSE handle[h]
  BY DEF Registry!Release
<1>2. \A u \in Tasks : /\ Working(u)' <=> u # t /\ Working(u)
                       /\ Attempt(u)' = Attempt(u)
  BY DEF Working, Attempt, Settled
<1>3. \A u \in Tasks : Working(u) => Attempt(u) \in Handles
  BY AttemptsAreHandles DEF Working
<1>4. WorkHoldsLocks'
  BY <1>1, <1>2, <1>3 DEF WorkHoldsLocks, Attempt
<1>5. HeldByWork'
  <2> SUFFICES ASSUME outcome # "threw", NEW u \in Tasks, NEW n \in 1 .. MaxStarts,
                      handle'[<<u, n>>] = "held"
               PROVE  n = starts[u] /\ Working(u)'
    BY DEF HeldByWork
  <2>1. <<u, n>> \in Handles
    BY DEF Handles, Attempts
  <2>2. <<u, n>> # Attempt(t) /\ handle[<<u, n>>] = "held"
    BY <1>1, <2>1
  <2>3. n = starts[u] /\ Working(u)
    BY <2>2 DEF HeldByWork
  <2> QED
    BY <1>2, <2>2, <2>3 DEF Attempt
<1>6. EndsClean'
  BY DEF EndsClean, Active
<1> QED
  BY <1>4, <1>5, <1>6

(* Starting tasks: those of S go to work under the handles just reserved;  *)
(* R was reserved for nothing, which only happens when the loop throws.    *)
LEMMA LaunchWork ==
    ASSUME BaseInv, WorkInv, loop # "ended",
           NEW S \in SUBSET (Tasks \ Active), NEW R \in SUBSET (Tasks \ Active),
           Launch(S, R),
           \/ R = {} /\ loop' = "racing" /\ outcome' = outcome
           \/ loop' = "ended" /\ outcome' = "threw"
    PROVE  WorkInv'
<1> USE SchedulerAssumption DEF BaseInv, TypeOK, WorkTypeOK, WorkInv
<1> DEFINE H == {<<t, starts[t] + 1>> : t \in S \union R}
<1>1. \A t \in Tasks : starts'[t] = IF t \in S \union R THEN starts[t] + 1 ELSE starts[t]
  BY DEF Launch
<1>2. \A h \in Handles : handle'[h] = IF h \in H THEN "held" ELSE handle[h]
  BY DEF Launch, Registry!Reserve
<1>3. \A t \in Tasks : Working(t)' <=> t \in S \/ Working(t)
  BY DEF Launch, Working
<1>4. \A t \in S \union R : worker[t] = "none" /\ ~Working(t)
  BY DEF Active, Working
<1>5. H \in SUBSET Handles
  BY LaunchHandles
<1>6. WorkHoldsLocks'
  <2> SUFFICES ASSUME NEW t \in Tasks, Working(t)'
               PROVE  handle'[Attempt(t)'] = "held"
    BY DEF WorkHoldsLocks
  <2>1. CASE t \in S
    <3>1. Attempt(t)' = <<t, starts[t] + 1>> /\ <<t, starts[t] + 1>> \in H
      BY <2>1, <1>1 DEF Attempt
    <3> QED
      BY <3>1, <1>2, <1>5
  <2>2. CASE t \notin S
    <3>1. Working(t) /\ t \notin S \union R
      BY <2>2, <1>3, <1>4
    <3>2. Attempt(t)' = Attempt(t) /\ Attempt(t) \in Handles
      BY <3>1, <1>1, AttemptsAreHandles DEF Attempt, Working
    <3> QED
      BY <3>1, <3>2, <1>2 DEF WorkHoldsLocks
  <2> QED
    BY <2>1, <2>2
<1>7. HeldByWork'
  <2> SUFFICES ASSUME outcome' # "threw", NEW t \in Tasks, NEW n \in 1 .. MaxStarts,
                      handle'[<<t, n>>] = "held"
               PROVE  n = starts'[t] /\ Working(t)'
    BY DEF HeldByWork
  <2>1. R = {} /\ outcome # "threw" /\ <<t, n>> \in Handles
    BY DEF Handles, Attempts
  <2>2. CASE <<t, n>> \in H
    BY <2>1, <2>2, <1>1, <1>3
  <2>3. CASE <<t, n>> \notin H
    <3>1. n = starts[t] /\ Working(t)
      BY <2>1, <2>3, <1>2 DEF HeldByWork
    <3> QED
      BY <2>1, <3>1, <1>1, <1>3, <1>4
  <2> QED
    BY <2>2, <2>3
<1>8. EndsClean'
  BY DEF EndsClean
<1> QED
  BY <1>6, <1>7, <1>8

LEMMA LoopWork ==
    ASSUME BaseInv, WorkInv, LoopStep
    PROVE  WorkInv'
<1> USE DEF BaseInv, TypeOK, WorkTypeOK
<1>1. CASE StartReadyTasks
  <2>1. PICK S \in SUBSET Startable : Launch(S, {})
    BY <1>1 DEF StartReadyTasks
  <2> QED
    BY <1>1, <2>1, StartableTasks, LaunchWork
       DEF StartReadyTasks, Scheduling, AtTop
<1>2. CASE StartBeyondBudget
  <2>1. PICK S \in SUBSET Startable : \E t \in S : Launch(Earlier(S, t), {t})
    BY <1>2 DEF StartBeyondBudget
  <2> PICK t \in S : Launch(Earlier(S, t), {t})
    BY <2>1
  <2>2. Earlier(S, t) \in SUBSET (Tasks \ Active) /\ {t} \in SUBSET (Tasks \ Active)
    BY StartableTasks DEF Earlier
  <2> QED
    BY <1>2, <2>2, LaunchWork DEF StartBeyondBudget, Scheduling, AtTop, Return
<1>3. CASE Drained
  <2>1. worker' = [t \in Tasks |-> "none"] /\ outcome' = "cancelled" /\ starts' = starts
    BY <1>3 DEF Drained, Return
  <2>2. \A t \in Tasks, n \in 1 .. MaxStarts : handle'[<<t, n>>] # "held"
    <3> SUFFICES ASSUME NEW t \in Tasks, NEW n \in 1 .. MaxStarts,
                        handle'[<<t, n>>] = "held"
                 PROVE  FALSE
      OBVIOUS
    <3>1. <<t, n>> \in Handles /\ <<t, n>> \notin Outsiders
      BY SchedulerAssumption DEF Handles, Attempts
    <3>2. CASE Active = {}
      <4>1. handle[<<t, n>>] = "held" /\ ~Working(t) /\ outcome # "threw"
        BY <1>3, <3>2 DEF Drained, lockVars, Active, Working, WorkInv, EndsClean
      <4> QED
        BY <4>1 DEF WorkInv, HeldByWork
    <3>3. CASE Active # {}
      BY <1>3, <3>1, <3>3 DEF Drained, Registry!Clear, Registry!Release,
         Registry!Reservations, Registry!Held
    <3> QED
      BY <3>2, <3>3
  <2>3. \A t \in Tasks : ~Working(t)' /\ t \notin Active'
    BY <2>1 DEF Working, Active
  <2> QED
    BY <1>3, <2>1, <2>2, <2>3
       DEF WorkInv, WorkHoldsLocks, HeldByWork, EndsClean, Drained, Return, Active
<1>4. CASE AllTerminal \/ ReturnOverBudget \/ Stall \/ AwaitApproval
  <2>1. /\ Active = {} /\ loop = "top"
        /\ UNCHANGED <<worker, starts, handle>>
        /\ \/ UNCHANGED outcome /\ loop' = "sleeping"
           \/ loop' = "ended" /\ outcome' # "threw"
    BY <1>4 DEF AllTerminal, ReturnOverBudget, Stall, AwaitApproval, Blocked,
       Scheduling, AtTop, Return, lockVars
  <2> QED
    BY <2>1 DEF WorkInv, WorkHoldsLocks, HeldByWork, EndsClean, Active, Working,
       Attempt
<1>5. CASE TopAborted \/ WaitForActive \/ SkipImpossible \/ AwaitForeignLock \/ Wake
  <2>1. /\ UNCHANGED <<worker, starts, handle, outcome>>
        /\ loop # "ended" /\ loop' # "ended"
    BY <1>5 DEF TopAborted, WaitForActive, SkipImpossible, AwaitForeignLock,
       Wake, Blocked, Scheduling, AtTop, lockVars
  <2> QED
    BY <2>1 DEF WorkInv, WorkHoldsLocks, HeldByWork, EndsClean, Active, Working,
       Attempt
<1>6. ASSUME NEW t \in Tasks,
             \/ TakeCancelled(t) \/ TakeOverBudget(t) \/ TakeOk(t)
             \/ TakeFailed(t) \/ TakeRetry(t)
      PROVE  WorkInv'
  <2>1. /\ worker[t] \in Settled
        /\ worker' = [worker EXCEPT ![t] = "none"]
        /\ UNCHANGED <<starts, handle>>
    BY <1>6 DEF TakeCancelled, TakeOverBudget, TakeOk, TakeFailed, TakeRetry,
       Take, Settled, lockVars
  <2>2. /\ loop = "racing"
        /\ \/ loop' # "ended" /\ outcome' = outcome
           \/ loop' = "ended" /\ outcome' = "budget"
    BY <1>6 DEF TakeCancelled, TakeOverBudget, TakeOk, TakeFailed, TakeRetry,
       Take, Return
  <2>3. \A u \in Tasks : (Working(u)' <=> Working(u)) /\ Attempt(u)' = Attempt(u)
    BY <2>1 DEF Working, Settled, Attempt
  <2> QED
    BY <2>1, <2>2, <2>3 DEF WorkInv, WorkHoldsLocks, HeldByWork, EndsClean
<1> QED
  BY <1>1, <1>2, <1>3, <1>4, <1>5, <1>6 DEF LoopStep

LEMMA WorkerWork ==
    ASSUME BaseInv, WorkInv, NEW t \in Tasks, WorkerStep(t) \/ WorkerFault(t)
    PROVE  WorkInv'
<1> USE DEF BaseInv, TypeOK, WorkTypeOK
<1>1. CASE Submit(t) \/ Accepted(t) \/ AbortJob(t)
  <2>1. /\ worker[t] \in {"starting", "submitting", "polling"}
        /\ \E w \in {"submitting", "polling", "cancelling"} :
              worker' = [worker EXCEPT ![t] = w]
        /\ UNCHANGED <<starts, handle, loop, outcome>>
    BY <1>1 DEF Submit, Accepted, AbortJob, WorkerFrame, lockVars
  <2> QED
    BY <2>1, WorkKept DEF Working, WorkerStates
<1>2. CASE ExpansionIntegrated(t) \/ ExpansionRejected(t)
  <2>1. /\ worker[t] = "expanding"
        /\ \E w \in {"ok", "failed", "retryable"} : worker' = [worker EXCEPT ![t] = w]
        /\ UNCHANGED <<starts, handle, loop, outcome>>
    BY <1>2 DEF ExpansionIntegrated, ExpansionRejected, AcceptReturns,
       Settlements, WorkerFrame, lockVars
  <2> QED
    BY <2>1, WorkKept DEF Working, WorkerStates
<1>3. CASE \/ AbortBeforeJob(t) \/ Rejected(t) \/ Result(t) \/ CancelReturns(t)
           \/ AssignFails(t) \/ CallFails(t) \/ Timeout(t) \/ ExpansionThrows(t)
  <2>1. /\ worker[t] # "none" /\ Registry!Release({Attempt(t)})
        /\ UNCHANGED <<starts, loop, outcome>>
    BY <1>3 DEF AbortBeforeJob, Rejected, Result, CancelReturns, AssignFails,
       CallFails, Timeout, ExpansionThrows, Throws, WorkerFrame
  <2>2. \E how \in Settled \union {"expanding"} : worker' = [worker EXCEPT ![t] = how]
    BY <1>3 DEF AbortBeforeJob, Rejected, Result, CancelReturns, AssignFails,
       CallFails, Timeout, ExpansionThrows, Throws, Settle, Settlements, Settled
  <2> QED
    BY <2>1, <2>2, WorkEnded
<1> QED
  BY <1>1, <1>2, <1>3 DEF WorkerStep, WorkerFault

LEMMA EnvironmentWork ==
    ASSUME BaseInv, WorkInv,
           \/ \E a \in Attempts : PollActivity(a) \/ AgentStep(a)
           \/ \E o \in Outsiders : OutsiderStep(o)
           \/ \E r \in 0 .. MaxRevision : Approve(r)
           \/ \E t \in Tasks : Reject(t)
           \/ \E reason \in {"user", "shutdown"} : Abort(reason)
    PROVE  WorkInv'
<1> USE DEF BaseInv, TypeOK, WorkTypeOK
<1>1. UNCHANGED <<worker, starts, loop, outcome>>
  BY DEF PollActivity, AgentStep, AgentAnswers, AgentFinishes, OutsiderStep,
     OutsiderClaims, OutsiderReleases, Approve, Reject, Abort, EnvFrame
<1>2. \A a \in Attempts : handle'[a] = handle[a]
  <2>1. CASE \E o \in Outsiders : OutsiderStep(o)
    <3>1. PICK o \in Outsiders : OutsiderStep(o)
      BY <2>1
    <3>2. Registry!Reserve({o}) \/ Registry!Release({o})
      BY <3>1 DEF OutsiderStep, OutsiderClaims, OutsiderReleases
    <3> QED
      BY <3>2, SchedulerAssumption DEF Registry!Reserve, Registry!Release, Handles
  <2>2. CASE ~(\E o \in Outsiders : OutsiderStep(o))
    BY <2>2 DEF PollActivity, AgentStep, AgentAnswers, AgentFinishes, Approve,
       Reject, Abort, lockVars
  <2> QED
    BY <2>1, <2>2
<1>3. \A t \in Tasks : Working(t) => Attempt(t) \in Attempts
  BY AttemptsAreHandles DEF Working
<1> QED
  BY <1>1, <1>2, <1>3
     DEF WorkInv, WorkHoldsLocks, HeldByWork, EndsClean, Active, Working, Attempt,
         Attempts

LEMMA WorkAlways == Spec => []WorkInv
<1>1. Init => WorkInv
  BY InitWork
<1>2. BaseInv /\ WorkInv /\ [Next]_vars => WorkInv'
  <2> SUFFICES ASSUME BaseInv, WorkInv, [Next]_vars
               PROVE  WorkInv'
    OBVIOUS
  <2>1. CASE UNCHANGED vars
    BY <2>1 DEF vars, lockVars, WorkInv, WorkHoldsLocks, HeldByWork, EndsClean,
       Active, Working, Attempt
  <2> QED
    BY <2>1, LoopWork, WorkerWork, EnvironmentWork DEF Next, Done
<1> QED
  BY <1>1, <1>2, BaseAlways, PTL DEF Spec

(* The locks a handle stands for, as the registry is given them. *)
HandleLocks == [h \in Handles |-> IF h \in Outsiders THEN OutsiderLocks[h]
                                 ELSE LocksOf[h[1]]]
HandleRun == [h \in Handles |-> IF h \in Outsiders THEN Others ELSE Self]

LEMMA LocksOfAttempt ==
    ASSUME NEW t \in Tasks, Attempt(t) \in Attempts
    PROVE  /\ Attempt(t) \in Handles
           /\ HandleLocks[Attempt(t)] = LocksOf[t]
           /\ HandleRun[Attempt(t)] = Self
<1>1. Attempt(t) \in Handles /\ Attempt(t) \notin Outsiders /\ Attempt(t)[1] = t
  BY SchedulerAssumption DEF Handles, Attempt
<1> QED
  BY <1>1 DEF HandleLocks, HandleRun

(* Two tasks at work never write the same resource, and what a task at     *)
(* work needs is in the workspace registry under this run's name.          *)
THEOREM WorkIsExclusive == Spec => []ExclusiveWork
<1>1. BaseInv /\ WorkInv => ExclusiveWork
  <2> SUFFICES ASSUME BaseInv, WorkInv
               PROVE  ExclusiveWork
    OBVIOUS
  <2> USE DEF BaseInv, TypeOK, Registry!RegistryInv
  <2>1. ASSUME NEW t \in Tasks, Working(t)
        PROVE  /\ Attempt(t) \in Attempts
               /\ Attempt(t) \in Registry!Held
    <3>1. Attempt(t) \in Attempts
      BY <2>1, AttemptsAreHandles DEF Working
    <3> QED
      BY <2>1, <3>1 DEF WorkInv, WorkHoldsLocks, Registry!Held, Handles
  <2>2. ASSUME NEW t \in Tasks, NEW u \in Tasks, Working(t), Working(u), t # u
        PROVE  LocksOf[t] \cap LocksOf[u] = {}
    <3>1. Attempt(t) # Attempt(u)
      BY <2>2 DEF Attempt
    <3>2. HandleLocks[Attempt(t)] \cap HandleLocks[Attempt(u)] = {}
      BY <2>1, <2>2, <3>1 DEF Registry!Exclusive, HandleLocks
    <3> QED
      BY <2>1, <2>2, <3>2, LocksOfAttempt
  <2>3. ASSUME NEW t \in Tasks, Working(t), NEW l \in LocksOf[t]
        PROVE  l \in locks /\ owners[l] = Self
    <3>1. l \in HandleLocks[Attempt(t)] /\ HandleRun[Attempt(t)] = Self
      BY <2>1, <2>3, LocksOfAttempt
    <3>2. l \in locks
      BY <2>1, <2>3, <3>1 DEF Registry!RegistryIsLiveHandles,
         Registry!LocksOfAll, HandleLocks
    <3>3. owners[l] = HandleRun[Attempt(t)]
      BY <2>1, <2>3, <3>1 DEF Registry!OwnersNameHolders, HandleLocks, HandleRun
    <3> QED
      BY <3>1, <3>2, <3>3
  <2> QED
    BY <2>2, <2>3 DEF ExclusiveWork
<1> QED
  BY <1>1, BaseAlways, WorkAlways, PTL

(* A run that returned by itself or by a cancellation left no coroutine    *)
(* and none of its locks in the shared registry.                           *)
THEOREM RunsLeaveNothing == Spec => []NothingLeftBehind
<1>1. BaseInv /\ WorkInv => NothingLeftBehind
  <2> SUFFICES ASSUME BaseInv, WorkInv, loop = "ended",
                      outcome \notin {"budget", "threw"}
               PROVE  Active = {} /\ \A l \in LockNames : owners[l] # Self
    BY DEF NothingLeftBehind
  <2>1. Active = {}
    BY DEF WorkInv, EndsClean
  <2>2. \A t \in Tasks, n \in 1 .. MaxStarts : handle[<<t, n>>] # "held"
    BY <2>1 DEF WorkInv, HeldByWork, Active, Working
  <2>3. ASSUME NEW l \in LockNames, owners[l] = Self
        PROVE  FALSE
    <3>1. l \in locks
      BY <2>3, SchedulerAssumption
         DEF BaseInv, Registry!RegistryInv, Registry!OwnersNameHolders
    <3>2. PICK h \in Registry!Held :
               l \in (IF h \in Outsiders THEN OutsiderLocks[h] ELSE LocksOf[h[1]])
      BY <3>1 DEF BaseInv, Registry!RegistryInv, Registry!RegistryIsLiveHandles,
         Registry!LocksOfAll, Registry!Held
    <3>3. h \in Outsiders
      BY <3>2, <2>2 DEF Registry!Held, Handles, Attempts
    <3>4. owners[l] = Others
      BY <3>2, <3>3 DEF BaseInv, Registry!RegistryInv,
         Registry!OwnersNameHolders, Registry!Held, Handles
    <3> QED
      BY <3>4, <2>3, SchedulerAssumption
  <2> QED
    BY <2>1, <2>3
<1> QED
  BY <1>1, BaseAlways, WorkAlways, PTL

-----------------------------------------------------------------------------
(* Retries.                                                                *)

(* A coroutine settles, or waits for the planner, over a terminal status;  *)
(* a task that is neither terminal nor with a coroutine has an attempt     *)
(* left, unless the loop threw; attempts stay within the retry policy.     *)
RetryCount ==
    \A t \in Tasks :
       /\ worker[t] \in Settled \union {"expanding"} => status[t] \in TerminalStatuses
       /\ starts[t] <= attempts[t]
       /\ attempts[t] <= MaxAttempts[t]
       /\ outcome # "threw" /\ worker[t] = "none" /\ status[t] \notin TerminalStatuses
             => starts[t] < attempts[t]

LEMMA InitRetry == Init => RetryCount
BY SchedulerAssumption DEF Init, RetryCount, Settled, TerminalStatuses

(* Steps that start nothing, retry nothing and bring no finished task back. *)
LEMMA RetryKept ==
    ASSUME BaseInv, RetryCount, UNCHANGED <<starts, attempts>>,
           outcome' = "threw" \/ outcome # "threw",
           \A t \in Tasks :
              /\ status[t] \in TerminalStatuses => status'[t] \in TerminalStatuses
              /\ worker'[t] \in Settled \union {"expanding"} =>
                    \/ status'[t] \in TerminalStatuses
                    \/ worker'[t] = worker[t]
              /\ worker'[t] = "none" =>
                    \/ worker[t] = "none"
                    \/ worker[t] \in Settled
    PROVE  RetryCount'
BY DEF RetryCount

LEMMA LaunchRetry ==
    ASSUME BaseInv, RetryCount, outcome # "threw",
           NEW S \in SUBSET (Pending \ Active), NEW R \in SUBSET (Pending \ Active),
           Launch(S, R), R = {} \/ outcome' = "threw"
    PROVE  RetryCount'
<1> USE SchedulerAssumption DEF BaseInv, TypeOK, WorkTypeOK, PlanTypeOK
<1>1. \A t \in S \union R : /\ t \in Tasks /\ worker[t] = "none"
                            /\ status[t] \notin TerminalStatuses
  BY DEF Pending, Active, PendingStatuses, TerminalStatuses
<1>2. \A t \in S \union R : starts[t] < attempts[t]
  BY <1>1 DEF RetryCount
<1>3. \A t \in Tasks :
         /\ starts'[t] = IF t \in S \union R THEN starts[t] + 1 ELSE starts[t]
         /\ status'[t] = IF t \in S THEN "running" ELSE status[t]
         /\ worker'[t] = IF t \in S THEN "starting" ELSE worker[t]
         /\ attempts'[t] = attempts[t]
  BY DEF Launch
<1> QED
  BY <1>1, <1>2, <1>3 DEF RetryCount, Settled

LEMMA LoopRetry ==
    ASSUME BaseInv, WorkInv, RetryCount, LoopStep
    PROVE  RetryCount'
<1> USE DEF BaseInv, TypeOK, WorkTypeOK, PlanTypeOK
<1>1. loop # "ended" /\ outcome # "threw"
  BY DEF LoopStep, TopAborted, Drained, AllTerminal, StartReadyTasks,
     StartBeyondBudget, WaitForActive, ReturnOverBudget, AwaitApproval,
     SkipImpossible, AwaitForeignLock, Stall, Wake, TakeCancelled,
     TakeOverBudget, TakeOk, TakeFailed, TakeRetry, Take, Blocked, Scheduling,
     AtTop, WorkInv, EndsClean
<1>2. CASE StartReadyTasks
  <2>1. PICK S \in SUBSET Startable : Launch(S, {})
    BY <1>2 DEF StartReadyTasks
  <2> QED
    BY <1>1, <2>1, StartableTasks, LaunchRetry
<1>3. CASE StartBeyondBudget
  <2>1. PICK S \in SUBSET Startable : \E t \in S : Launch(Earlier(S, t), {t})
    BY <1>3 DEF StartBeyondBudget
  <2> PICK t \in S : Launch(Earlier(S, t), {t})
    BY <2>1
  <2>2. /\ Earlier(S, t) \in SUBSET (Pending \ Active)
        /\ {t} \in SUBSET (Pending \ Active)
    BY StartableTasks DEF Earlier
  <2> QED
    BY <1>1, <1>3, <2>2, LaunchRetry DEF StartBeyondBudget, Return
<1>4. CASE Drained
  <2>1. \A t \in Tasks : worker[t] \in Settled \union {"none"} /\ worker'[t] = "none"
    BY <1>4 DEF Drained, Active, Settled
  <2> QED
    BY <1>1, <1>4, <2>1 DEF Drained, RetryCount, planVars, Return, Settled
<1>5. CASE \/ TopAborted \/ AllTerminal \/ WaitForActive \/ ReturnOverBudget
           \/ AwaitForeignLock \/ Stall \/ Wake
  BY <1>1, <1>5 DEF TopAborted, AllTerminal, WaitForActive, ReturnOverBudget,
     AwaitForeignLock, Stall, Wake, RetryCount, planVars, Return
<1>6. CASE AwaitApproval
  <2>1. \A t \in Tasks : \/ status'[t] = status[t]
                         \/ status[t] = "pending" /\ status'[t] = "pending_approval"
    BY <1>6 DEF AwaitApproval
  <2>2. UNCHANGED <<worker, starts, attempts>> /\ outcome' # "threw"
    BY <1>6, <1>1 DEF AwaitApproval, Return
  <2> QED
    BY <1>1, <2>1, <2>2 DEF RetryCount, TerminalStatuses
<1>7. CASE SkipImpossible
  <2>1. \A t \in Tasks : status'[t] = status[t] \/ status'[t] = "skipped"
    BY <1>7 DEF SkipImpossible
  <2> QED
    BY <1>1, <1>7, <2>1 DEF SkipImpossible, RetryCount, TerminalStatuses
<1>8. ASSUME NEW t \in Tasks,
             TakeCancelled(t) \/ TakeOverBudget(t) \/ TakeOk(t) \/ TakeFailed(t)
      PROVE  RetryCount'
  <2>1. /\ worker[t] \in Settled /\ worker' = [worker EXCEPT ![t] = "none"]
        /\ UNCHANGED <<status, starts, attempts>>
    BY <1>8 DEF TakeCancelled, TakeOverBudget, TakeOk, TakeFailed, Take, Settled
  <2> QED
    BY <1>1, <2>1 DEF RetryCount, Settled
<1>9. ASSUME NEW t \in Tasks, TakeRetry(t)
      PROVE  RetryCount'
  <2>1. /\ worker' = [worker EXCEPT ![t] = "none"]
        /\ attempts[t] < MaxAttempts[t]
        /\ attempts' = [attempts EXCEPT ![t] = @ + 1]
        /\ status' = [status EXCEPT ![t] = "pending"]
        /\ starts' = starts
    BY <1>9 DEF TakeRetry, Take
  <2>2. MaxAttempts[t] \in Nat /\ attempts[t] \in Nat /\ starts[t] \in Nat
    BY SchedulerAssumption
  <2> QED
    BY <1>1, <2>1, <2>2 DEF RetryCount, Settled
<1> QED
  BY <1>2, <1>3, <1>4, <1>5, <1>6, <1>7, <1>8, <1>9 DEF LoopStep

LEMMA WorkerRetry ==
    ASSUME BaseInv, RetryCount, NEW t \in Tasks, WorkerStep(t) \/ WorkerFault(t)
    PROVE  RetryCount'
<1> USE DEF BaseInv, TypeOK, WorkTypeOK, PlanTypeOK
<1>1. UNCHANGED <<starts, attempts, outcome>>
  BY DEF WorkerStep, WorkerFault, Submit, AbortBeforeJob, Accepted, Rejected,
     Result, AbortJob, CancelReturns, ExpansionIntegrated, ExpansionRejected,
     AssignFails, CallFails, Timeout, ExpansionThrows, WorkerFrame
<1>2. Attempt(t) \in Attempts \/ worker[t] = "none"
  BY AttemptsAreHandles
<1>3. ASSUME NEW how \in Settled \union {"expanding"},
             NEW st \in TerminalStatuses, Settle(t, how, st)
      PROVE  RetryCount'
  <2>1. \A u \in Tasks :
           /\ worker'[u] = IF u = t THEN how ELSE worker[u]
           /\ status'[u] = IF u = t THEN st ELSE status[u]
    BY <1>3 DEF Settle
  <2> QED
    BY <1>1, <2>1, RetryKept DEF Settled
<1>4. CASE Submit(t) \/ AbortJob(t)
  <2>1. /\ status' = status
        /\ \E how \in {"submitting", "cancelling"} : worker' = [worker EXCEPT ![t] = how]
        /\ worker[t] # "none"
    BY <1>4 DEF Submit, AbortJob, planVars
  <2> QED
    BY <1>1, <2>1, RetryKept DEF Settled
<1>5. CASE Accepted(t)
  <2>1. /\ frame' \in [Attempts -> {"none", "live", "done", "failed"}]
        /\ status' = Projected(status, frame', Attempt(t))
        /\ worker' = [worker EXCEPT ![t] = "polling"]
        /\ Attempt(t) \in Attempts
    BY <1>5, <1>2 DEF Accepted, Upsert, AgentTypeOK
  <2>2. \A u \in Tasks : status[u] \in TerminalStatuses => status'[u] = status[u]
    BY <2>1, ProjectionOfStatus
  <2> QED
    BY <1>1, <2>1, <2>2, RetryKept DEF Settled
<1>6. CASE ExpansionRejected(t)
  <2>1. /\ status' = status
        /\ \E how \in Settled : worker' = [worker EXCEPT ![t] = how]
        /\ status[t] \in TerminalStatuses
    BY <1>6 DEF ExpansionRejected, AcceptReturns, Settlements, planVars,
       Settled, RetryCount
  <2> QED
    BY <1>1, <2>1, RetryKept DEF Settled
<1>7. CASE ExpansionIntegrated(t)
  <2>1. \A u \in Tasks : status[u] \in TerminalStatuses => status'[u] = status[u]
    BY <1>7 DEF ExpansionIntegrated, Integrate, InPlan, TerminalStatuses
  <2>2. /\ \E how \in Settled : worker' = [worker EXCEPT ![t] = how]
        /\ status[t] \in TerminalStatuses
    BY <1>7 DEF ExpansionIntegrated, AcceptReturns, Settlements, Settled, RetryCount
  <2> QED
    BY <1>1, <2>1, <2>2, RetryKept DEF Settled
<1>8. CASE AbortBeforeJob(t) \/ CancelReturns(t)
  BY <1>8, <1>3 DEF AbortBeforeJob, CancelReturns, TerminalStatuses, Settled
<1>9. CASE \/ Rejected(t) \/ AssignFails(t) \/ CallFails(t) \/ Timeout(t)
           \/ ExpansionThrows(t)
  BY <1>9, <1>3 DEF Rejected, AssignFails, CallFails, Timeout, ExpansionThrows,
     Throws, TerminalStatuses, Settled
<1>10. CASE Result(t)
  <2>1. PICK st \in Verdicts(job[Attempt(t)]) :
             \/ \E how \in Settlements(st) : Settle(t, how, st)
             \/ Settle(t, "expanding", st)
    BY <1>10 DEF Result
  <2>2. st \in TerminalStatuses
    BY <1>10, <2>1 DEF Result, Verdicts, TerminalStatuses
  <2> QED
    BY <2>1, <2>2, <1>3 DEF Settlements, Settled
<1> QED
  BY <1>4, <1>5, <1>6, <1>7, <1>8, <1>9, <1>10 DEF WorkerStep, WorkerFault

LEMMA EnvironmentRetry ==
    ASSUME BaseInv, RetryCount,
           \/ \E a \in Attempts : PollActivity(a) \/ AgentStep(a)
           \/ \E o \in Outsiders : OutsiderStep(o)
           \/ \E r \in 0 .. MaxRevision : Approve(r)
           \/ \E t \in Tasks : Reject(t)
           \/ \E reason \in {"user", "shutdown"} : Abort(reason)
    PROVE  RetryCount'
<1>1. ASSUME NEW a \in Attempts, PollActivity(a)
      PROVE  RetryCount'
  <2>1. frame' \in [Attempts -> {"none", "live", "done", "failed"}]
    BY <1>1 DEF PollActivity, Upsert, FrameOf, BaseInv, TypeOK, AgentTypeOK
  <2>2. status' = Projected(status, frame', a) /\ status \in [Tasks -> PlanStatuses]
    BY <1>1 DEF PollActivity, Upsert, BaseInv, TypeOK, PlanTypeOK
  <2>3. \A u \in Tasks : status[u] \in TerminalStatuses => status'[u] = status[u]
    BY <2>1, <2>2, ProjectionOfStatus
  <2> QED
    BY <1>1, <2>3, RetryKept DEF PollActivity
<1>2. CASE \/ \E a \in Attempts : AgentStep(a)
           \/ \E o \in Outsiders : OutsiderStep(o)
           \/ \E r \in 0 .. MaxRevision : Approve(r)
           \/ \E t \in Tasks : Reject(t)
           \/ \E reason \in {"user", "shutdown"} : Abort(reason)
  <2>1. UNCHANGED <<status, worker, starts, attempts, outcome>>
    BY <1>2 DEF AgentStep, AgentAnswers, AgentFinishes, OutsiderStep,
       OutsiderClaims, OutsiderReleases, Approve, Reject, Abort, EnvFrame, planVars
  <2> QED
    BY <2>1 DEF RetryCount
<1> QED
  BY <1>1, <1>2

LEMMA RetryAlways == Spec => []RetryCount
<1>1. BaseInv /\ WorkInv /\ RetryCount /\ [Next]_vars => RetryCount'
  <2> SUFFICES ASSUME BaseInv, WorkInv, RetryCount, [Next]_vars
               PROVE  RetryCount'
    OBVIOUS
  <2>1. CASE UNCHANGED vars
    BY <2>1 DEF vars, planVars, RetryCount
  <2> QED
    BY <2>1, LoopRetry, WorkerRetry, EnvironmentRetry DEF Next, Done
<1> QED
  BY <1>1, InitRetry, BaseAlways, WorkAlways, PTL DEF Spec

(* No task is started more often than its retry policy allows, whatever    *)
(* the plan, the faults and the expansions: a started attempt is paid for  *)
(* by scheduleRetry, and nothing but scheduleRetry revives a task.         *)
THEOREM RetriesAreBounded == Spec => []StartsBounded
<1>1. BaseInv /\ RetryCount => StartsBounded
  <2> SUFFICES ASSUME BaseInv, RetryCount, NEW t \in Tasks
               PROVE  starts[t] <= MaxAttempts[t]
    BY DEF StartsBounded
  <2>1. starts[t] \in Nat /\ attempts[t] \in Nat /\ MaxAttempts[t] \in Nat
    BY SchedulerAssumption DEF BaseInv, TypeOK, WorkTypeOK
  <2> QED
    BY <2>1 DEF RetryCount
<1> QED
  BY <1>1, BaseAlways, RetryAlways, PTL

-----------------------------------------------------------------------------
(* What is over stays over.                                                *)

(* A finished task without a coroutine keeps its status and its            *)
(* dependencies, and none is started for it.                               *)
LEMMA DepsOfFinished ==
    ASSUME [Next]_vars, TypeOK, NEW u \in Tasks, status[u] \in TerminalStatuses
    PROVE  deps'[u] = deps[u]
<1>1. ASSUME NEW t \in Tasks, ExpansionIntegrated(t)
      PROVE  deps'[u] = deps[u]
  <2>1. u \in InPlan
    BY DEF InPlan, TerminalStatuses
  <2>2. u \notin Fragment[t] /\ u \notin Dependents(t)
    BY <1>1, <2>1 DEF ExpansionIntegrated, Integrate, MayRewire
  <2> QED
    BY <1>1, <2>2 DEF ExpansionIntegrated, Integrate
<1>2. CASE LoopStep
  BY <1>2 DEF LoopStep, TopAborted, Drained, AllTerminal, StartReadyTasks,
     StartBeyondBudget, WaitForActive, ReturnOverBudget, AwaitApproval,
     SkipImpossible, AwaitForeignLock, Stall, Wake, TakeCancelled,
     TakeOverBudget, TakeOk, TakeFailed, TakeRetry, Take, Launch, planVars
<1>3. ASSUME NEW t \in Tasks, WorkerStep(t) \/ WorkerFault(t), ~ExpansionIntegrated(t)
      PROVE  deps' = deps
  BY <1>3 DEF WorkerStep, WorkerFault, Submit, AbortBeforeJob, Accepted, Rejected,
     Result, AbortJob, CancelReturns, ExpansionRejected, AssignFails, CallFails,
     Timeout, ExpansionThrows, Throws, planVars
<1>4. CASE \/ \E a \in Attempts : PollActivity(a) \/ AgentStep(a)
           \/ \E o \in Outsiders : OutsiderStep(o)
           \/ \E r \in 0 .. MaxRevision : Approve(r)
           \/ \E t \in Tasks : Reject(t)
           \/ \E reason \in {"user", "shutdown"} : Abort(reason)
  BY <1>4 DEF PollActivity, AgentStep, AgentAnswers, AgentFinishes, OutsiderStep,
     OutsiderClaims, OutsiderReleases, Approve, Reject, Abort, EnvFrame, planVars
<1>5. CASE UNCHANGED vars
  BY <1>5 DEF vars, planVars
<1> QED
  BY <1>1, <1>2, <1>3, <1>4, <1>5 DEF Next, Done

(* No expansion, however late its plan comes back, rewrites what a         *)
(* finished task depended on.                                              *)
THEOREM FinishedKeepDeps == Spec => FinishedTasksKeepTheirDeps
<1>1. TypeOK /\ [Next]_vars
         => [\A t \in Tasks : status[t] \in TerminalStatuses => deps'[t] = deps[t]]_vars
  BY DepsOfFinished
<1> QED
  BY <1>1, TypeCorrect, PTL DEF Spec, FinishedTasksKeepTheirDeps

-----------------------------------------------------------------------------
(* Skipped tasks.                                                          *)

(* A task that is over: it has no coroutine, and its status is terminal.   *)
Over(u) == status[u] \in TerminalStatuses /\ worker[u] = "none"

LEMMA OverStays ==
    ASSUME BaseInv, [Next]_vars, NEW u \in Tasks, Over(u)
    PROVE  status'[u] = status[u] /\ worker'[u] = "none"
<1> DEFINE Goal == status'[u] = status[u] /\ worker'[u] = "none"
<1> USE DEF BaseInv, TypeOK, PlanTypeOK, WorkTypeOK, Over
<1>1. ASSUME NEW S \in SUBSET Tasks, NEW R \in SUBSET Tasks, Launch(S, R), u \notin S
      PROVE  Goal
  BY <1>1 DEF Launch
<1>2. u \notin Startable /\ u \notin Pending /\ status[u] # "absent"
  BY StartableTasks DEF Pending, PendingStatuses, TerminalStatuses
<1>3. CASE StartReadyTasks
  BY <1>3, <1>1, <1>2, StartableTasks DEF StartReadyTasks
<1>4. CASE StartBeyondBudget
  <2>1. PICK S \in SUBSET Startable : \E t \in S : Launch(Earlier(S, t), {t})
    BY <1>4 DEF StartBeyondBudget
  <2> PICK t \in S : Launch(Earlier(S, t), {t})
    BY <2>1
  <2>2. /\ Earlier(S, t) \in SUBSET Tasks /\ {t} \in SUBSET Tasks
        /\ u \notin Earlier(S, t)
    BY <1>2, StartableTasks DEF Earlier
  <2> QED
    BY <1>1, <2>2
<1>5. CASE AwaitApproval
  BY <1>2, <1>5 DEF AwaitApproval, AwaitingApproval
<1>6. CASE SkipImpossible
  BY <1>2, <1>6 DEF SkipImpossible, Impossible
<1>7. CASE Drained
  BY <1>7 DEF Drained, planVars
<1>8. CASE \/ TopAborted \/ AllTerminal \/ WaitForActive \/ ReturnOverBudget
           \/ AwaitForeignLock \/ Stall \/ Wake
  BY <1>8 DEF TopAborted, AllTerminal, WaitForActive, ReturnOverBudget,
     AwaitForeignLock, Stall, Wake, planVars
<1>9. ASSUME NEW t \in Tasks,
             \/ TakeCancelled(t) \/ TakeOverBudget(t) \/ TakeOk(t)
             \/ TakeFailed(t) \/ TakeRetry(t)
      PROVE  Goal
  BY <1>9 DEF TakeCancelled, TakeOverBudget, TakeOk, TakeFailed, TakeRetry, Take
<1>10. ASSUME NEW t \in Tasks, WorkerStep(t) \/ WorkerFault(t)
       PROVE  Goal
  <2>1. t # u
    BY <1>10 DEF WorkerStep, WorkerFault, Submit, AbortBeforeJob, Accepted, Rejected,
       Result, AbortJob, CancelReturns, ExpansionIntegrated, ExpansionRejected,
       AssignFails, CallFails, Timeout, ExpansionThrows
  <2>2. CASE Accepted(t)
    <3>1. frame' \in [Attempts -> {"none", "live", "done", "failed"}]
      BY <2>2 DEF Accepted, Upsert, AgentTypeOK
    <3>2. Attempt(t) \in Attempts /\ status' = Projected(status, frame', Attempt(t))
      BY <2>2, AttemptsAreHandles DEF Accepted, Upsert
    <3> QED
      BY <2>1, <2>2, <3>1, <3>2, ProjectionOfStatus DEF Accepted
  <2>3. CASE ExpansionIntegrated(t)
    <3>1. u \notin Fragment[t]
      BY <1>2, <2>3 DEF ExpansionIntegrated, Integrate, InPlan
    <3>2. status'[u] = status[u]
      BY <2>3, <3>1 DEF ExpansionIntegrated, Integrate
    <3> QED
      BY <2>1, <2>3, <3>2 DEF ExpansionIntegrated, AcceptReturns
  <2> QED
    BY <1>10, <2>1, <2>2, <2>3 DEF WorkerStep, WorkerFault, Submit, AbortBeforeJob,
       Rejected, Result, AbortJob, CancelReturns, ExpansionRejected, AcceptReturns,
       AssignFails, CallFails, Timeout, ExpansionThrows, Throws, Settle, planVars
<1>11. ASSUME NEW a \in Attempts, PollActivity(a)
       PROVE  Goal
  <2>1. frame' \in [Attempts -> {"none", "live", "done", "failed"}]
    BY <1>11 DEF PollActivity, Upsert, FrameOf, AgentTypeOK
  <2>2. status' = Projected(status, frame', a) /\ worker' = worker
    BY <1>11 DEF PollActivity, Upsert
  <2> QED
    BY <2>1, <2>2, ProjectionOfStatus
<1>12. CASE \/ \E a \in Attempts : AgentStep(a)
            \/ \E o \in Outsiders : OutsiderStep(o)
            \/ \E r \in 0 .. MaxRevision : Approve(r)
            \/ \E t \in Tasks : Reject(t)
            \/ \E reason \in {"user", "shutdown"} : Abort(reason)
  BY <1>12 DEF AgentStep, AgentAnswers, AgentFinishes, OutsiderStep, OutsiderClaims,
     OutsiderReleases, Approve, Reject, Abort, EnvFrame, planVars
<1>13. CASE UNCHANGED vars
  BY <1>13 DEF vars, planVars
<1> QED
  BY <1>3, <1>4, <1>5, <1>6, <1>7, <1>8, <1>9, <1>10, <1>11, <1>12, <1>13
     DEF Next, LoopStep, Done

(* Impossible is a fixed point: an impossible task depends on one that     *)
(* ended without success, or on an impossible one.                         *)
LEMMA ImpossibleHasCause ==
    ASSUME NEW t \in Impossible
    PROVE  deps[t] \cap (Unsuccessful \union Impossible) # {}
<1> DEFINE Closed(S) == \A u \in Pending :
                           deps[u] \cap (Unsuccessful \union S) # {} => u \in S
           S0 == Impossible \ {t}
<1> SUFFICES ASSUME deps[t] \cap (Unsuccessful \union Impossible) = {}
             PROVE  FALSE
  OBVIOUS
<1>1. \A x : x \in Impossible <=>
         x \in Pending /\ \A S \in SUBSET Pending : Closed(S) => x \in S
  BY DEF Impossible
<1>2. S0 \in SUBSET Pending
  BY <1>1
<1>3. Closed(S0)
  <2> SUFFICES ASSUME NEW u \in Pending, deps[u] \cap (Unsuccessful \union S0) # {}
               PROVE  u \in S0
    OBVIOUS
  <2>1. u # t
    OBVIOUS
  <2>2. ASSUME NEW S \in SUBSET Pending, Closed(S)
        PROVE  u \in S
    <3>1. S0 \subseteq S
      BY <1>1, <2>2
    <3> QED
      BY <2>2, <3>1
  <2> QED
    BY <1>1, <2>1, <2>2
<1> HIDE DEF Closed, S0
<1>4. t \in S0
  BY <1>1, <1>2, <1>3
<1> QED
  BY <1>4 DEF S0

(* The cause of a skip is over, not merely unsuccessful: a failed task     *)
(* whose coroutine the loop has not taken may still be retried.            *)
SkipInv ==
    \A t \in Tasks : status[t] = "skipped" =>
       \E u \in deps[t] : status[u] \in UnsuccessfulStatuses /\ worker[u] = "none"

(* Only skipImpossibleTasks skips.                                         *)
LEMMA WhoSkips ==
    ASSUME BaseInv, [Next]_vars, NEW t \in Tasks, status'[t] = "skipped",
           status[t] # "skipped"
    PROVE  SkipImpossible /\ t \in Impossible
<1> USE DEF BaseInv, TypeOK, PlanTypeOK
<1>1. ASSUME NEW S, NEW R, Launch(S, R) PROVE FALSE
  BY <1>1 DEF Launch
<1>2. CASE StartReadyTasks \/ StartBeyondBudget
  BY <1>1, <1>2 DEF StartReadyTasks, StartBeyondBudget
<1>3. CASE AwaitApproval
  BY <1>3 DEF AwaitApproval
<1>4. CASE SkipImpossible
  BY <1>4 DEF SkipImpossible
<1>5. CASE \/ TopAborted \/ AllTerminal \/ WaitForActive \/ ReturnOverBudget
           \/ AwaitForeignLock \/ Stall \/ Wake \/ Drained
  BY <1>5 DEF TopAborted, AllTerminal, WaitForActive, ReturnOverBudget,
     AwaitForeignLock, Stall, Wake, Drained, planVars
<1>6. ASSUME NEW v \in Tasks,
             \/ TakeCancelled(v) \/ TakeOverBudget(v) \/ TakeOk(v)
             \/ TakeFailed(v) \/ TakeRetry(v)
      PROVE  FALSE
  BY <1>6 DEF TakeCancelled, TakeOverBudget, TakeOk, TakeFailed, TakeRetry, Take
<1>7. ASSUME NEW f, NEW a, status' = Projected(status, f, a) PROVE FALSE
  BY <1>7 DEF Projected
<1>8. ASSUME NEW v \in Tasks, NEW how, NEW st \in {"done", "failed", "cancelled"},
             Settle(v, how, st)
      PROVE  FALSE
  BY <1>8 DEF Settle
<1>9. ASSUME NEW v \in Tasks, WorkerStep(v) \/ WorkerFault(v)
      PROVE  FALSE
  <2>1. CASE Accepted(v)
    BY <1>7, <2>1 DEF Accepted, Upsert
  <2>2. CASE ExpansionIntegrated(v)
    BY <2>2 DEF ExpansionIntegrated, Integrate
  <2>3. CASE Result(v)
    BY <1>8, <2>3 DEF Result, Verdicts
  <2>4. CASE \/ AbortBeforeJob(v) \/ CancelReturns(v) \/ Rejected(v) \/ AssignFails(v)
             \/ CallFails(v) \/ Timeout(v) \/ ExpansionThrows(v)
    BY <1>8, <2>4 DEF AbortBeforeJob, CancelReturns, Rejected, AssignFails, CallFails,
       Timeout, ExpansionThrows, Throws
  <2> QED
    BY <1>9, <2>1, <2>2, <2>3, <2>4 DEF WorkerStep, WorkerFault, Submit, AbortJob,
       ExpansionRejected, planVars
<1>10. ASSUME NEW a \in Attempts, PollActivity(a) PROVE FALSE
  BY <1>7, <1>10 DEF PollActivity, Upsert
<1>11. CASE \/ \E a \in Attempts : AgentStep(a)
            \/ \E o \in Outsiders : OutsiderStep(o)
            \/ \E r \in 0 .. MaxRevision : Approve(r)
            \/ \E v \in Tasks : Reject(v)
            \/ \E reason \in {"user", "shutdown"} : Abort(reason)
  BY <1>11 DEF AgentStep, AgentAnswers, AgentFinishes, OutsiderStep, OutsiderClaims,
     OutsiderReleases, Approve, Reject, Abort, EnvFrame, planVars
<1>12. CASE UNCHANGED vars
  BY <1>12 DEF vars, planVars
<1> QED
  BY <1>2, <1>3, <1>4, <1>5, <1>6, <1>9, <1>10, <1>11, <1>12 DEF Next, LoopStep, Done

LEMMA SkipKept ==
    ASSUME BaseInv, SkipInv, [Next]_vars
    PROVE  SkipInv'
<1> SUFFICES ASSUME NEW t \in Tasks, status'[t] = "skipped"
             PROVE  \E u \in deps'[t] : /\ status'[u] \in UnsuccessfulStatuses
                                        /\ worker'[u] = "none"
  BY DEF SkipInv
<1> USE DEF BaseInv, TypeOK, PlanTypeOK
<1>1. CASE status[t] = "skipped"
  <2>1. PICK u \in deps[t] : status[u] \in UnsuccessfulStatuses /\ worker[u] = "none"
    BY <1>1 DEF SkipInv
  <2>2. deps'[t] = deps[t]
    BY <1>1, DepsOfFinished DEF TerminalStatuses
  <2>3. u \in Tasks /\ Over(u)
    BY <2>1 DEF Over, UnsuccessfulStatuses
  <2> QED
    BY <2>1, <2>2, <2>3, OverStays
<1>2. CASE status[t] # "skipped"
  <2>1. SkipImpossible /\ t \in Impossible
    BY <1>2, WhoSkips
  <2>2. PICK u \in deps[t] : u \in Unsuccessful \union Impossible
    BY <2>1, ImpossibleHasCause
  <2>3. u \in Tasks /\ worker[u] = "none"
    BY <2>1 DEF SkipImpossible, Blocked, Active
  <2>4. status'[u] \in UnsuccessfulStatuses
    BY <2>1, <2>2, <2>3 DEF SkipImpossible, Unsuccessful, UnsuccessfulStatuses,
       TerminalStatuses
  <2>5. deps' = deps /\ worker' = worker
    BY <2>1 DEF SkipImpossible
  <2> QED
    BY <2>2, <2>3, <2>4, <2>5
<1> QED
  BY <1>1, <1>2

(* A task is skipped only when a dependency it still has ended without     *)
(* success: no retry and no expansion takes that cause away.               *)
THEOREM SkipsHaveACause == Spec => []SkippedForCause
<1>1. Init => SkipInv
  BY DEF Init, SkipInv
<1>2. BaseInv /\ SkipInv => SkippedForCause
  BY DEF BaseInv, TypeOK, PlanTypeOK, SkipInv, SkippedForCause, Unsuccessful
<1> QED
  BY <1>1, <1>2, SkipKept, BaseAlways, PTL DEF Spec

-----------------------------------------------------------------------------
(* The budget.                                                             *)

(* The attempts the budget has paid for: those whose request went out, and *)
(* those whose coroutine is about to send it.                              *)
Starting == {t \in Tasks : worker[t] = "starting"}
Sent == {a \in Attempts : job[a] # "none"} \union {Attempt(t) : t \in Starting}

SpendInv ==
    /\ IsFiniteSet(Sent)
    /\ Cardinality(Sent) <= tasksStarted
    /\ tasksStarted <= MaxTasks

LEMMA SpendKept ==
    ASSUME BaseInv, SpendInv, Sent' \subseteq Sent, tasksStarted' = tasksStarted
    PROVE  SpendInv'
<1>1. IsFiniteSet(Sent') /\ Cardinality(Sent') <= Cardinality(Sent)
  BY FS_Subset DEF SpendInv
<1>2. Cardinality(Sent') \in Nat /\ Cardinality(Sent) \in Nat /\ tasksStarted \in Nat
  BY <1>1, FS_CardinalityType DEF SpendInv, BaseInv, TypeOK, LoopTypeOK
<1> QED
  BY <1>1, <1>2 DEF SpendInv

(* Steps that send nothing new: a request goes out for a starting task.    *)
LEMMA SentShrinks ==
    ASSUME BaseInv, SpendInv, UNCHANGED <<starts, tasksStarted>>,
           \A a \in Attempts : job'[a] # "none" => a \in Sent,
           \A t \in Tasks : worker'[t] = "starting" => worker[t] = "starting"
    PROVE  SpendInv'
<1>1. Sent' \subseteq Sent
  BY DEF Sent, Starting, Attempt
<1> QED
  BY <1>1, SpendKept

LEMMA LaunchSpends ==
    ASSUME BaseInv, SpendInv, NEW S \in SUBSET (Tasks \ Active),
           NEW R \in SUBSET (Tasks \ Active), Launch(S, R),
           tasksStarted + Cardinality(S) <= MaxTasks
    PROVE  SpendInv'
<1> DEFINE f == [t \in S |-> <<t, starts[t] + 1>>]
           new == {<<t, starts[t] + 1>> : t \in S}
<1> USE DEF BaseInv, TypeOK, WorkTypeOK, LoopTypeOK
<1>1. IsFiniteSet(S) /\ Cardinality(S) \in Nat
  BY SchedulerAssumption, FS_Subset, FS_CardinalityType
<1>2. IsFiniteSet(new) /\ Cardinality(new) <= Cardinality(S)
  <2>1. f \in Surjection(S, new)
    BY DEF Surjection
  <2> QED
    BY <1>1, <2>1, FS_Surjection
<1>3. Sent' \subseteq Sent \union new
  <2> SUFFICES ASSUME NEW a \in Sent' PROVE a \in Sent \union new
    OBVIOUS
  <2>1. CASE a \in Attempts /\ job'[a] # "none"
    BY <2>1 DEF Launch, agentVars, Sent
  <2>2. ASSUME NEW t \in Tasks, worker'[t] = "starting", a = Attempt(t)'
        PROVE  a \in Sent \union new
    <3>1. CASE t \in S
      BY <2>2, <3>1 DEF Launch, Attempt
    <3>2. CASE t \notin S
      <4>1. worker[t] = "starting"
        BY <2>2, <3>2 DEF Launch
      <4>2. t \notin S \union R
        BY <4>1 DEF Active
      <4> QED
        BY <2>2, <4>1, <4>2 DEF Launch, Attempt, Sent, Starting
    <3> QED
      BY <3>1, <3>2
  <2> QED
    BY <2>1, <2>2 DEF Sent, Starting
<1> HIDE DEF new, f
<1>4. /\ IsFiniteSet(Sent \union new)
      /\ Cardinality(Sent \union new) <= Cardinality(Sent) + Cardinality(S)
  <2>1. /\ IsFiniteSet(Sent \union new)
        /\ Cardinality(Sent \union new) =
              Cardinality(Sent) + Cardinality(new) - Cardinality(Sent \cap new)
    BY <1>2, FS_Union DEF SpendInv
  <2>2. /\ Cardinality(Sent) \in Nat /\ Cardinality(new) \in Nat
        /\ Cardinality(Sent \cap new) \in Nat
    BY <1>2, FS_Intersection, FS_CardinalityType DEF SpendInv
  <2> QED
    BY <1>1, <1>2, <2>1, <2>2
<1>5. IsFiniteSet(Sent') /\ Cardinality(Sent') <= Cardinality(Sent \union new)
  BY <1>3, <1>4, FS_Subset
<1>6. /\ Cardinality(Sent') \in Nat /\ Cardinality(Sent \union new) \in Nat
      /\ Cardinality(Sent) \in Nat
  BY <1>4, <1>5, FS_CardinalityType DEF SpendInv
<1>7. tasksStarted' = tasksStarted + Cardinality(S)
  BY DEF Launch
<1> QED
  BY <1>1, <1>4, <1>5, <1>6, <1>7, SchedulerAssumption DEF SpendInv

LEMMA SpendStep ==
    ASSUME BaseInv, SpendInv, [Next]_vars
    PROVE  SpendInv'
<1> USE DEF BaseInv, TypeOK, WorkTypeOK, AgentTypeOK
<1>1. CASE StartReadyTasks
  <2>1. PICK S \in SUBSET Startable :
             Launch(S, {}) /\ tasksStarted + Cardinality(S) <= MaxTasks
    BY <1>1 DEF StartReadyTasks
  <2> QED
    BY <2>1, StartableTasks, LaunchSpends
<1>2. CASE StartBeyondBudget
  <2>1. PICK S \in SUBSET Startable :
             \E t \in S : /\ tasksStarted + Cardinality(Earlier(S, t)) = MaxTasks
                          /\ Launch(Earlier(S, t), {t})
    BY <1>2 DEF StartBeyondBudget
  <2> PICK t \in S : /\ tasksStarted + Cardinality(Earlier(S, t)) = MaxTasks
                     /\ Launch(Earlier(S, t), {t})
    BY <2>1
  <2>2. /\ Earlier(S, t) \in SUBSET (Tasks \ Active)
        /\ {t} \in SUBSET (Tasks \ Active)
    BY StartableTasks DEF Earlier
  <2>3. MaxTasks <= MaxTasks
    BY SchedulerAssumption
  <2> QED
    BY <2>2, <2>3, LaunchSpends
<1>3. ASSUME UNCHANGED <<starts, job, tasksStarted>>,
             \A t \in Tasks : worker'[t] = "starting" => worker[t] = "starting"
      PROVE  SpendInv'
  BY <1>3, SentShrinks DEF Sent
<1>4. CASE \/ TopAborted \/ AllTerminal \/ WaitForActive \/ ReturnOverBudget
           \/ AwaitApproval \/ SkipImpossible \/ AwaitForeignLock \/ Stall \/ Wake
           \/ Drained
  BY <1>3, <1>4 DEF TopAborted, AllTerminal, WaitForActive, ReturnOverBudget,
     AwaitApproval, SkipImpossible, AwaitForeignLock, Stall, Wake, Drained,
     agentVars, budgetVars
<1>5. ASSUME NEW t \in Tasks,
             \/ TakeCancelled(t) \/ TakeOverBudget(t) \/ TakeOk(t)
             \/ TakeFailed(t) \/ TakeRetry(t)
      PROVE  SpendInv'
  BY <1>3, <1>5 DEF TakeCancelled, TakeOverBudget, TakeOk, TakeFailed, TakeRetry,
     Take, agentVars, budgetVars
<1>6. ASSUME NEW t \in Tasks, WorkerStep(t) \/ WorkerFault(t)
      PROVE  SpendInv'
  <2>1. UNCHANGED <<starts, tasksStarted>>
    BY <1>6 DEF WorkerStep, WorkerFault, Submit, AbortBeforeJob, Accepted, Rejected,
       Result, AbortJob, CancelReturns, ExpansionIntegrated, ExpansionRejected,
       AssignFails, CallFails, Timeout, ExpansionThrows, WorkerFrame, budgetVars
  <2>2. \A u \in Tasks : worker'[u] = "starting" => worker[u] = "starting"
    BY <1>6 DEF WorkerStep, WorkerFault, Submit, AbortBeforeJob, Accepted, Rejected,
       Result, AbortJob, CancelReturns, ExpansionIntegrated, ExpansionRejected,
       AssignFails, CallFails, Timeout, ExpansionThrows, Throws, Settle,
       AcceptReturns, Settlements
  <2>3. CASE Submit(t)
    <3>1. Attempt(t) \in Sent
      BY <2>3 DEF Submit, Sent, Starting
    <3>2. \A a \in Attempts : job'[a] # "none" => a \in Sent
      BY <2>3, <3>1 DEF Submit, Sent
    <3> QED
      BY <2>1, <2>2, <3>2, SentShrinks
  <2>4. CASE ~Submit(t)
    <3>1. job' = job
      BY <1>6, <2>4 DEF WorkerStep, WorkerFault, AbortBeforeJob, Accepted, Rejected,
         Result, AbortJob, CancelReturns, ExpansionIntegrated, ExpansionRejected,
         AssignFails, CallFails, Timeout, ExpansionThrows, agentVars
    <3> QED
      BY <1>3, <2>1, <2>2, <3>1
  <2> QED
    BY <2>3, <2>4
<1>7. ASSUME NEW a \in Attempts, AgentStep(a)
      PROVE  SpendInv'
  <2>1. \A b \in Attempts : job'[b] # "none" => b \in Sent
    BY <1>7 DEF AgentStep, AgentAnswers, AgentFinishes, Sent
  <2>2. UNCHANGED <<starts, worker, tasksStarted>>
    BY <1>7 DEF AgentStep, AgentAnswers, AgentFinishes, EnvFrame, budgetVars
  <2> QED
    BY <2>1, <2>2, SentShrinks
<1>8. CASE \/ \E a \in Attempts : PollActivity(a)
           \/ \E o \in Outsiders : OutsiderStep(o)
           \/ \E r \in 0 .. MaxRevision : Approve(r)
           \/ \E t \in Tasks : Reject(t)
           \/ \E reason \in {"user", "shutdown"} : Abort(reason)
  BY <1>3, <1>8 DEF PollActivity, OutsiderStep, OutsiderClaims, OutsiderReleases,
     Approve, Reject, Abort, EnvFrame, agentVars, budgetVars
<1>9. CASE UNCHANGED vars
  BY <1>3, <1>9 DEF vars, agentVars, budgetVars
<1> QED
  BY <1>1, <1>2, <1>4, <1>5, <1>6, <1>7, <1>8, <1>9 DEF Next, LoopStep, Done

(* The run budget bounds the work agents are ever asked to do: a request   *)
(* goes out only for a task the budget was charged for, once.              *)
THEOREM SpendingIsBounded == Spec => []BudgetBoundsWork
<1>1. Init => SpendInv
  <2> SUFFICES ASSUME Init PROVE SpendInv
    OBVIOUS
  <2>1. Sent = {}
    BY DEF Init, Sent, Starting
  <2> QED
    BY <2>1, FS_EmptySet, SchedulerAssumption DEF Init, SpendInv
<1>2. BaseInv /\ SpendInv => BudgetBoundsWork
  <2> SUFFICES ASSUME BaseInv, SpendInv PROVE BudgetBoundsWork
    OBVIOUS
  <2> DEFINE asks == {a \in Attempts : job[a] # "none"}
  <2>1. IsFiniteSet(asks) /\ Cardinality(asks) <= Cardinality(Sent)
    BY FS_Subset DEF SpendInv, Sent
  <2>2. /\ Cardinality(asks) \in Nat /\ Cardinality(Sent) \in Nat
        /\ tasksStarted \in Nat /\ MaxTasks \in Nat
    BY <2>1, FS_CardinalityType, SchedulerAssumption
       DEF SpendInv, BaseInv, TypeOK, LoopTypeOK
  <2>3. Cardinality(asks) <= MaxTasks
    BY <2>1, <2>2 DEF SpendInv
  <2> QED
    BY <2>3 DEF BudgetBoundsWork
<1> QED
  BY <1>1, <1>2, SpendStep, BaseAlways, PTL DEF Spec

-----------------------------------------------------------------------------
(* Cancelled jobs.                                                         *)

(* An attempt of the future has neither a job nor an activity, and an      *)
(* activity appears only once the agent has answered with a job.           *)
ShownJobs ==
    \A t \in Tasks, n \in 1 .. MaxStarts :
       /\ n > starts[t] => frame[<<t, n>>] = "none"
       /\ frame[<<t, n>>] # "none" => job[<<t, n>>] \notin {"none", "requested"}

(* A coroutine has no activity before the agent's answer and has asked for *)
(* the cancel it waits for; a task at work is not cancelled; the job of a  *)
(* cancelled task's attempt was told to stop, unless it is not running or  *)
(* was never seen.                                                         *)
Told(t) ==
    /\ worker[t] \in {"starting", "submitting"} => frame[Attempt(t)] = "none"
    /\ worker[t] = "cancelling" => Attempt(t) \in cancelAsked
    /\ Working(t) => status[t] # "cancelled"
    /\ starts[t] > 0 /\ status[t] = "cancelled" /\ job[Attempt(t)] = "running"
          /\ frame[Attempt(t)] # "none" => Attempt(t) \in cancelAsked

CancelInv == ShownJobs /\ \A t \in Tasks : Told(t)

LEMMA LaunchTold ==
    ASSUME BaseInv, CancelInv, NEW S \in SUBSET (Pending \ Active),
           NEW R \in SUBSET (Pending \ Active), Launch(S, R)
    PROVE  CancelInv'
<1> USE DEF BaseInv, TypeOK, WorkTypeOK, PlanTypeOK, AgentTypeOK
<1>1. \A t \in Tasks :
         /\ starts'[t] = IF t \in S \union R THEN starts[t] + 1 ELSE starts[t]
         /\ status'[t] = IF t \in S THEN "running" ELSE status[t]
         /\ worker'[t] = IF t \in S THEN "starting" ELSE worker[t]
         /\ t \in S \union R => starts[t] < MaxStarts
  BY DEF Launch
<1>2. UNCHANGED <<job, frame, cancelAsked>>
  BY DEF Launch, agentVars
<1>3. \A t \in S \union R : /\ t \in Tasks /\ worker[t] = "none"
                            /\ status[t] # "cancelled"
  BY DEF Pending, PendingStatuses, Active
<1>4. ShownJobs'
  <2> SUFFICES ASSUME NEW t \in Tasks, NEW n \in 1 .. MaxStarts
               PROVE  /\ n > starts'[t] => frame[<<t, n>>] = "none"
                      /\ frame[<<t, n>>] # "none" =>
                            job[<<t, n>>] \notin {"none", "requested"}
    BY <1>2 DEF ShownJobs
  <2>1. starts[t] \in Nat /\ n \in Nat
    BY SchedulerAssumption
  <2>2. n > starts'[t] => n > starts[t]
    BY <1>1, <2>1
  <2> QED
    BY <2>2 DEF CancelInv, ShownJobs
<1>5. ASSUME NEW t \in Tasks PROVE Told(t)'
  <2>1. CASE t \in S
    <3>1. Attempt(t)' = <<t, starts[t] + 1>> /\ starts[t] + 1 \in 1 .. MaxStarts
      BY <1>1, <2>1, SchedulerAssumption DEF Attempt
    <3>2. frame'[Attempt(t)'] = "none"
      BY <1>2, <3>1, SchedulerAssumption DEF CancelInv, ShownJobs
    <3>3. t \in Tasks /\ worker'[t] = "starting" /\ status'[t] = "running"
      BY <1>1, <2>1
    <3> QED
      BY <3>2, <3>3 DEF Told
  <2>2. CASE t \in R \ S
    BY <1>1, <1>3, <2>2 DEF Told, Working
  <2>3. CASE t \notin S \union R
    <3>1. Attempt(t)' = Attempt(t) /\ starts'[t] = starts[t]
      BY <1>1, <2>3 DEF Attempt
    <3>2. worker'[t] = worker[t] /\ status'[t] = status[t]
      BY <1>1, <2>3
    <3> QED
      BY <1>2, <3>1, <3>2 DEF CancelInv, Told, Working
  <2> QED
    BY <2>1, <2>2, <2>3
<1> QED
  BY <1>4, <1>5 DEF CancelInv

(* Steps that touch neither attempts, jobs nor activities.                 *)
LEMMA ToldKept ==
    ASSUME BaseInv, CancelInv, UNCHANGED <<starts, job, frame>>,
           cancelAsked \subseteq cancelAsked',
           \A t \in Tasks :
              /\ worker'[t] \in {"starting", "submitting"} =>
                    worker[t] \in {"starting", "submitting"}
              /\ worker'[t] = "cancelling" =>
                    worker[t] = "cancelling" \/ Attempt(t) \in cancelAsked'
              /\ Working(t)' => Working(t)
              /\ status'[t] = "cancelled" =>
                    \/ status[t] = "cancelled" /\ ~Working(t)'
                    \/ /\ ~Working(t)'
                       /\ \/ worker[t] \in {"starting", "submitting", "cancelling"}
                          \/ job[Attempt(t)] = "cancelled"
    PROVE  CancelInv'
<1>1. ShownJobs'
  BY DEF CancelInv, ShownJobs
<1>2. ASSUME NEW t \in Tasks PROVE Told(t)'
  <2>1. Attempt(t)' = Attempt(t) /\ Told(t)
    BY DEF Attempt, CancelInv
  <2> QED
    BY <2>1 DEF Told
<1> QED
  BY <1>1, <1>2 DEF CancelInv

LEMMA CancelStep ==
    ASSUME BaseInv, CancelInv, [Next]_vars
    PROVE  CancelInv'
<1> USE DEF BaseInv, TypeOK, WorkTypeOK, PlanTypeOK, AgentTypeOK
<1>1. CASE StartReadyTasks
  <2>1. PICK S \in SUBSET Startable : Launch(S, {})
    BY <1>1 DEF StartReadyTasks
  <2> QED
    BY <2>1, StartableTasks, LaunchTold
<1>2. CASE StartBeyondBudget
  <2>1. PICK S \in SUBSET Startable : \E t \in S : Launch(Earlier(S, t), {t})
    BY <1>2 DEF StartBeyondBudget
  <2> PICK t \in S : Launch(Earlier(S, t), {t})
    BY <2>1
  <2>2. /\ Earlier(S, t) \in SUBSET (Pending \ Active)
        /\ {t} \in SUBSET (Pending \ Active)
    BY StartableTasks DEF Earlier
  <2> QED
    BY <2>2, LaunchTold
<1>3. CASE \/ TopAborted \/ AllTerminal \/ WaitForActive \/ ReturnOverBudget
           \/ AwaitApproval \/ SkipImpossible \/ AwaitForeignLock \/ Stall \/ Wake
           \/ Drained
  <2>1. /\ UNCHANGED <<starts, job, frame, cancelAsked>>
        /\ UNCHANGED worker \/ worker' = [t \in Tasks |-> "none"]
        /\ \A t \in Tasks : status'[t] = "cancelled" => status[t] = "cancelled"
    BY <1>3 DEF TopAborted, AllTerminal, WaitForActive, ReturnOverBudget,
       AwaitApproval, SkipImpossible, AwaitForeignLock, Stall, Wake, Drained,
       agentVars, planVars
  <2>2. \A t \in Tasks : worker'[t] = worker[t] \/ worker'[t] = "none"
    BY <2>1
  <2>3. \A t \in Tasks : Working(t)' => Working(t)
    BY <2>2 DEF Working
  <2> QED
    BY <2>1, <2>2, <2>3, ToldKept DEF CancelInv, Told
<1>4. ASSUME NEW t \in Tasks,
             \/ TakeCancelled(t) \/ TakeOverBudget(t) \/ TakeOk(t)
             \/ TakeFailed(t) \/ TakeRetry(t)
      PROVE  CancelInv'
  <2>1. /\ UNCHANGED <<starts, job, frame, cancelAsked>>
        /\ \A u \in Tasks : worker'[u] = worker[u] \/ worker'[u] = "none"
        /\ \A u \in Tasks : status'[u] = "cancelled" => status[u] = "cancelled"
    BY <1>4 DEF TakeCancelled, TakeOverBudget, TakeOk, TakeFailed, TakeRetry, Take,
       agentVars
  <2>2. \A u \in Tasks : Working(u)' => Working(u)
    BY <2>1 DEF Working
  <2> QED
    BY <2>1, <2>2, ToldKept DEF CancelInv, Told
<1>5. ASSUME NEW t \in Tasks, WorkerStep(t) \/ WorkerFault(t)
      PROVE  CancelInv'
  <2>1. starts' = starts /\ (worker[t] # "none" => Attempt(t) \in Attempts)
    BY <1>5, AttemptsAreHandles DEF WorkerStep, WorkerFault, Submit, AbortBeforeJob,
       Accepted, Rejected, Result, AbortJob, CancelReturns, ExpansionIntegrated,
       ExpansionRejected, AssignFails, CallFails, Timeout, ExpansionThrows, WorkerFrame
  <2>2. ASSUME NEW how \in Settled \union {"expanding"}, NEW st \in TerminalStatuses,
               Settle(t, how, st), UNCHANGED agentVars,
               st = "cancelled" =>
                  \/ worker[t] \in {"starting", "submitting", "cancelling"}
                  \/ job[Attempt(t)] = "cancelled"
        PROVE  CancelInv'
    <3>1. \A u \in Tasks : /\ worker'[u] = IF u = t THEN how ELSE worker[u]
                           /\ status'[u] = IF u = t THEN st ELSE status[u]
      BY <2>2 DEF Settle
    <3>2. UNCHANGED <<job, frame, cancelAsked>>
      BY <2>2 DEF agentVars
    <3> QED
      BY <2>1, <2>2, <3>1, <3>2, ToldKept DEF CancelInv, Told, Working, Settled
  <2>3. CASE Submit(t)
    <3>1. /\ worker[t] = "starting" /\ Attempt(t) \in Attempts
          /\ worker' = [worker EXCEPT ![t] = "submitting"]
          /\ job' = [job EXCEPT ![Attempt(t)] = "requested"]
          /\ UNCHANGED <<status, frame, cancelAsked>>
      BY <2>1, <2>3 DEF Submit, planVars
    <3>2. frame[Attempt(t)] = "none"
      BY <3>1 DEF CancelInv, Told
    <3>3. ShownJobs'
      <4> SUFFICES ASSUME NEW u \in Tasks, NEW n \in 1 .. MaxStarts
                   PROVE  /\ n > starts[u] => frame[<<u, n>>] = "none"
                          /\ frame[<<u, n>>] # "none" =>
                                job'[<<u, n>>] \notin {"none", "requested"}
        BY <2>1, <3>1 DEF ShownJobs
      <4>1. <<u, n>> \in Attempts
        BY DEF Attempts
      <4> QED
        BY <3>1, <3>2, <4>1 DEF CancelInv, ShownJobs
    <3>4. ASSUME NEW u \in Tasks PROVE Told(u)'
      <4>1. Told(u) /\ Attempt(u)' = Attempt(u)
        BY <2>1 DEF CancelInv, Attempt
      <4>2. CASE u = t
        BY <3>1, <3>2, <4>1, <4>2 DEF Told, Working
      <4>3. CASE u # t
        <5>1. worker'[u] = worker[u] /\ Attempt(u) # Attempt(t)
          BY <3>1, <4>3 DEF Attempt
        <5>2. job'[Attempt(u)] = job[Attempt(u)]
          BY <3>1, <5>1
        <5> QED
          BY <2>1, <3>1, <4>1, <5>1, <5>2 DEF Told, Working
      <4> QED
        BY <4>2, <4>3
    <3> QED
      BY <3>3, <3>4 DEF CancelInv
  <2>4. CASE Accepted(t)
    <3>1. /\ worker[t] = "submitting" /\ Attempt(t) \in Attempts
          /\ worker' = [worker EXCEPT ![t] = "polling"]
          /\ job[Attempt(t)] \notin {"none", "requested"}
          /\ frame' = [frame EXCEPT ![Attempt(t)] = "live"]
          /\ status' = Projected(status, frame', Attempt(t))
          /\ UNCHANGED <<job, cancelAsked>>
      BY <2>1, <2>4 DEF Accepted, Upsert
    <3>2. \A u \in Tasks : status'[u] = "cancelled" => status[u] = "cancelled"
      BY <3>1 DEF Projected
    <3>3. ShownJobs'
      <4> SUFFICES ASSUME NEW u \in Tasks, NEW n \in 1 .. MaxStarts
                   PROVE  /\ n > starts[u] => frame'[<<u, n>>] = "none"
                          /\ frame'[<<u, n>>] # "none" =>
                                job[<<u, n>>] \notin {"none", "requested"}
        BY <2>1, <3>1 DEF ShownJobs
      <4>1. <<u, n>> \in Attempts
        BY DEF Attempts
      <4>2. CASE <<u, n>> = Attempt(t)
        BY <3>1, <4>2, SchedulerAssumption DEF Attempt
      <4>3. CASE <<u, n>> # Attempt(t)
        BY <3>1, <4>1, <4>3 DEF CancelInv, ShownJobs
      <4> QED
        BY <4>2, <4>3
    <3>4. ASSUME NEW u \in Tasks PROVE Told(u)'
      <4>1. Told(u) /\ Attempt(u)' = Attempt(u)
        BY <2>1 DEF CancelInv, Attempt
      <4>2. CASE u = t
        BY <3>1, <3>2, <4>1, <4>2 DEF Told, Working
      <4>3. CASE u # t
        <5>1. worker'[u] = worker[u] /\ Attempt(u) # Attempt(t)
          BY <3>1, <4>3 DEF Attempt
        <5>2. starts[u] > 0 => Attempt(u) \in Attempts
          BY SchedulerAssumption DEF Attempt, Attempts
        <5>3. starts[u] > 0 => frame'[Attempt(u)] = frame[Attempt(u)]
          BY <3>1, <5>1, <5>2
        <5>4. worker[u] # "none" => starts[u] > 0
          BY DEF StartedWork
        <5> QED
          BY <2>1, <3>1, <3>2, <4>1, <5>1, <5>3, <5>4 DEF Told, Working
      <4> QED
        BY <4>2, <4>3
    <3> QED
      BY <3>3, <3>4 DEF CancelInv
  <2>5. CASE AbortJob(t)
    <3>1. /\ worker[t] = "polling" /\ worker' = [worker EXCEPT ![t] = "cancelling"]
          /\ UNCHANGED <<status, job, frame>>
          /\ cancelAsked' = cancelAsked \union {Attempt(t)}
      BY <2>5 DEF AbortJob, planVars
    <3>2. \A u \in Tasks : Working(u)' => Working(u)
      BY <3>1 DEF Working
    <3> QED
      BY <2>1, <3>1, <3>2, ToldKept DEF CancelInv, Told
  <2>6. CASE ExpansionIntegrated(t) \/ ExpansionRejected(t)
    <3>1. PICK how \in {"ok", "failed", "retryable"} :
               worker' = [worker EXCEPT ![t] = how]
      BY <2>6 DEF ExpansionIntegrated, ExpansionRejected, AcceptReturns, Settlements
    <3>2. UNCHANGED <<job, frame, cancelAsked>>
      BY <2>6 DEF ExpansionIntegrated, ExpansionRejected, agentVars
    <3>3. \A u \in Tasks : status'[u] = "cancelled" => status[u] = "cancelled"
      BY <2>6 DEF ExpansionIntegrated, ExpansionRejected, Integrate, planVars
    <3>4. \A u \in Tasks : Working(u)' => Working(u)
      BY <3>1 DEF Working
    <3> QED
      BY <2>1, <3>1, <3>2, <3>3, <3>4, ToldKept DEF CancelInv, Told
  <2>7. CASE AbortBeforeJob(t) \/ CancelReturns(t)
    BY <2>2, <2>7 DEF AbortBeforeJob, CancelReturns, TerminalStatuses, Settled
  <2>8. CASE \/ Rejected(t) \/ AssignFails(t) \/ CallFails(t) \/ Timeout(t)
             \/ ExpansionThrows(t)
    BY <2>2, <2>8 DEF Rejected, AssignFails, CallFails, Timeout, ExpansionThrows,
       Throws, TerminalStatuses, Settled
  <2>9. CASE Result(t)
    <3>1. PICK st \in Verdicts(job[Attempt(t)]) :
               \/ \E how \in Settlements(st) : Settle(t, how, st)
               \/ Settle(t, "expanding", st)
      BY <2>9 DEF Result
    <3>2. st \in TerminalStatuses /\ (st = "cancelled" => job[Attempt(t)] = "cancelled")
      BY <2>9, <3>1 DEF Result, Verdicts, TerminalStatuses
    <3>3. UNCHANGED agentVars
      BY <2>9 DEF Result
    <3> QED
      BY <2>2, <3>1, <3>2, <3>3 DEF Settlements, Settled
  <2> QED
    BY <1>5, <2>3, <2>4, <2>5, <2>6, <2>7, <2>8, <2>9 DEF WorkerStep, WorkerFault
<1>6. ASSUME NEW a \in Attempts, PollActivity(a)
      PROVE  CancelInv'
  <2>1. /\ frame[a] = "live" /\ UNCHANGED <<starts, worker, job, cancelAsked>>
        /\ frame' = [frame EXCEPT ![a] = FrameOf(job[a])]
        /\ status' = Projected(status, frame', a)
    BY <1>6 DEF PollActivity, Upsert
  <2>2. \A u \in Tasks : status'[u] = "cancelled" => status[u] = "cancelled"
    BY <2>1 DEF Projected
  <2>3. \A b \in Attempts : frame'[b] # "none" <=> frame[b] # "none"
    BY <2>1 DEF FrameOf
  <2>4. ShownJobs'
    <3> SUFFICES ASSUME NEW u \in Tasks, NEW n \in 1 .. MaxStarts
                 PROVE  /\ n > starts[u] => frame'[<<u, n>>] = "none"
                        /\ frame'[<<u, n>>] # "none" =>
                              job[<<u, n>>] \notin {"none", "requested"}
      BY <2>1 DEF ShownJobs
    <3>1. <<u, n>> \in Attempts
      BY DEF Attempts
    <3> QED
      BY <2>3, <3>1 DEF CancelInv, ShownJobs
  <2>5. ASSUME NEW u \in Tasks PROVE Told(u)'
    <3>1. Told(u) /\ Attempt(u)' = Attempt(u)
      BY <2>1 DEF CancelInv, Attempt
    <3>2. starts[u] > 0 => Attempt(u) \in Attempts
      BY SchedulerAssumption DEF Attempt, Attempts
    <3>3. worker[u] # "none" => starts[u] > 0
      BY DEF StartedWork
    <3> QED
      BY <2>1, <2>2, <2>3, <3>1, <3>2, <3>3 DEF Told, Working
  <2> QED
    BY <2>4, <2>5 DEF CancelInv
<1>7. ASSUME NEW a \in Attempts, AgentStep(a)
      PROVE  CancelInv'
  <2>1. /\ job[a] \in {"requested", "running"}
        /\ \E j \in JobStates \ {"none", "requested"} : job' = [job EXCEPT ![a] = j]
        /\ job[a] = "running" => job'[a] # "running"
        /\ UNCHANGED <<starts, status, worker, frame, cancelAsked>>
    BY <1>7 DEF AgentStep, AgentAnswers, AgentFinishes, EnvFrame, planVars, JobStates
  <2>2. ShownJobs'
    <3> SUFFICES ASSUME NEW u \in Tasks, NEW n \in 1 .. MaxStarts
                 PROVE  /\ n > starts[u] => frame[<<u, n>>] = "none"
                        /\ frame[<<u, n>>] # "none" =>
                              job'[<<u, n>>] \notin {"none", "requested"}
      BY <2>1 DEF ShownJobs
    <3>1. <<u, n>> \in Attempts
      BY DEF Attempts
    <3> QED
      BY <2>1, <3>1 DEF CancelInv, ShownJobs
  <2>3. ASSUME NEW u \in Tasks PROVE Told(u)'
    <3>1. Told(u) /\ Attempt(u)' = Attempt(u)
      BY <2>1 DEF CancelInv, Attempt
    <3>2. starts[u] > 0 => Attempt(u) \in Attempts
      BY SchedulerAssumption DEF Attempt, Attempts
    <3>3. CASE Attempt(u) = a
      <4>1. starts[u] > 0 /\ frame[a] # "none" => job[a] = "running"
        BY <2>1, <3>2, <3>3, SchedulerAssumption
           DEF CancelInv, ShownJobs, Attempt, Attempts
      <4> QED
        BY <2>1, <3>1, <3>3, <4>1 DEF Told, Working
    <3>4. CASE Attempt(u) # a
      <4>1. starts[u] > 0 => job'[Attempt(u)] = job[Attempt(u)]
        BY <2>1, <3>2, <3>4
      <4> QED
        BY <2>1, <3>1, <4>1 DEF Told, Working
    <3> QED
      BY <3>3, <3>4
  <2> QED
    BY <2>2, <2>3 DEF CancelInv
<1>8. CASE \/ \E o \in Outsiders : OutsiderStep(o)
           \/ \E r \in 0 .. MaxRevision : Approve(r)
           \/ \E t \in Tasks : Reject(t)
           \/ \E reason \in {"user", "shutdown"} : Abort(reason)
           \/ UNCHANGED vars
  <2>1. UNCHANGED <<starts, status, worker, job, frame, cancelAsked>>
    BY <1>8 DEF OutsiderStep, OutsiderClaims, OutsiderReleases, Approve, Reject, Abort,
       EnvFrame, agentVars, planVars, vars
  <2> QED
    BY <2>1 DEF CancelInv, ShownJobs, Told, Working, Attempt
<1> QED
  BY <1>1, <1>2, <1>3, <1>4, <1>5, <1>6, <1>7, <1>8 DEF Next, LoopStep, Done

(* After a cancelled run, every job the manager knew and was watching has  *)
(* been told to stop, or had ended.  It holds in every state of the run,   *)
(* not only at its end.                                                    *)
THEOREM CancelsReachJobs == Spec => []CancelReachesJobs
<1>1. Init => CancelInv
  BY SchedulerAssumption
     DEF Init, CancelInv, ShownJobs, Told, Working, Attempts, Attempt, PendingStatuses
<1>2. CancelInv => CancelReachesJobs
  BY DEF CancelInv, Told, CancelReachesJobs
<1> QED
  BY <1>1, <1>2, CancelStep, BaseAlways, PTL DEF Spec

-----------------------------------------------------------------------------
(* Plans that do not stall.                                                *)

(* A task that waits to be started has no activity, so that nothing shows  *)
(* it as running: this is where the absence of retries is used.            *)
Unshown(t) == \A n \in 1 .. MaxStarts : frame[<<t, n>>] = "none"

RunningIsWorked ==
    \A t \in Tasks : worker[t] = "none" /\ status[t] \notin TerminalStatuses =>
                        status[t] # "running" /\ Unshown(t)

(* Steps that write no activity and show none.                             *)
LEMMA WorkedKept ==
    ASSUME RunningIsWorked, UNCHANGED frame,
           \A t \in Tasks : worker'[t] = "none" /\ status'[t] \notin TerminalStatuses =>
              /\ worker[t] = "none" /\ status[t] \notin TerminalStatuses
              /\ status'[t] = status[t] \/ status'[t] # "running"
    PROVE  RunningIsWorked'
BY DEF RunningIsWorked, Unshown

LEMMA ProjectionWorked ==
    ASSUME BaseInv, RunningIsWorked, NEW a \in Attempts, NEW fr, Upsert(a, fr),
           worker[a[1]] # "none" \/ frame[a] # "none",
           worker' = worker \/ \E how \in WorkerStates \ {"none"} :
                                  worker' = [worker EXCEPT ![a[1]] = how]
    PROVE  RunningIsWorked'
<1> USE DEF BaseInv, TypeOK, PlanTypeOK, WorkTypeOK, AgentTypeOK
<1> SUFFICES ASSUME NEW t \in Tasks, worker'[t] = "none",
                    status'[t] \notin TerminalStatuses
             PROVE  status'[t] # "running" /\ Unshown(t)'
  BY DEF RunningIsWorked
<1>1. a[1] \in Tasks /\ a = <<a[1], a[2]>> /\ a[2] \in 1 .. MaxStarts
  BY DEF Attempts
<1>2. worker[t] = "none"
  BY <1>1
<1>3. status[t] \notin TerminalStatuses
  BY DEF Upsert, Projected
<1>4. status[t] # "running" /\ Unshown(t)
  BY <1>2, <1>3 DEF RunningIsWorked
<1>5. a[1] # t
  BY <1>1, <1>2, <1>4 DEF Unshown
<1>6. \A n \in 1 .. MaxStarts : frame'[<<t, n>>] = "none"
  BY <1>4, <1>5 DEF Upsert, Unshown
<1>7. \A kinds : "none" \notin kinds => Frames(frame', t, kinds) = {}
  BY <1>6 DEF Frames
<1>8. status'[t] = status[t]
  BY <1>5, <1>7 DEF Upsert, Projected
<1> QED
  BY <1>4, <1>6, <1>8 DEF Unshown

LEMMA WorkedStep ==
    ASSUME NoRetries, BaseInv, RetryCount, RunningIsWorked, [Next]_vars
    PROVE  RunningIsWorked'
<1> USE DEF BaseInv, TypeOK, PlanTypeOK, WorkTypeOK
<1>0. \A t \in Tasks : worker[t] \in Settled => status[t] \in TerminalStatuses
  BY DEF RetryCount
<1>1. ASSUME NEW S \in SUBSET Tasks, NEW R \in SUBSET Tasks, Launch(S, R)
      PROVE  RunningIsWorked'
  <2>1. \A t \in Tasks : IF t \in S THEN worker'[t] = "starting"
                         ELSE worker'[t] = worker[t] /\ status'[t] = status[t]
    BY <1>1 DEF Launch
  <2> QED
    BY <1>1, <2>1, WorkedKept DEF Launch, agentVars
<1>2. CASE StartReadyTasks
  BY <1>2, <1>1, StartableTasks DEF StartReadyTasks
<1>3. CASE StartBeyondBudget
  <2>1. PICK S \in SUBSET Startable : \E t \in S : Launch(Earlier(S, t), {t})
    BY <1>3 DEF StartBeyondBudget
  <2> PICK t \in S : Launch(Earlier(S, t), {t})
    BY <2>1
  <2>2. Earlier(S, t) \in SUBSET Tasks /\ {t} \in SUBSET Tasks
    BY StartableTasks DEF Earlier
  <2> QED
    BY <1>1, <2>2
<1>4. CASE AwaitApproval
  <2>1. \A t \in Tasks : \/ status'[t] = status[t]
                         \/ status[t] = "pending" /\ status'[t] = "pending_approval"
    BY <1>4 DEF AwaitApproval
  <2> QED
    BY <1>4, <2>1, WorkedKept DEF AwaitApproval, agentVars, TerminalStatuses
<1>5. CASE SkipImpossible
  <2>1. \A t \in Tasks : status'[t] = status[t] \/ status'[t] = "skipped"
    BY <1>5 DEF SkipImpossible
  <2> QED
    BY <1>5, <2>1, WorkedKept DEF SkipImpossible, agentVars, TerminalStatuses
<1>6. CASE Drained
  <2>1. \A t \in Tasks : worker[t] \in Settled \union {"none"}
    BY <1>6 DEF Drained, Active, Settled
  <2> QED
    BY <1>0, <1>6, <2>1, WorkedKept DEF Drained, planVars, agentVars
<1>7. CASE \/ TopAborted \/ AllTerminal \/ WaitForActive \/ ReturnOverBudget
           \/ AwaitForeignLock \/ Stall \/ Wake
  BY <1>7, WorkedKept DEF TopAborted, AllTerminal, WaitForActive, ReturnOverBudget,
     AwaitForeignLock, Stall, Wake, planVars, agentVars
<1>8. ASSUME NEW t \in Tasks,
             TakeCancelled(t) \/ TakeOverBudget(t) \/ TakeOk(t) \/ TakeFailed(t)
      PROVE  RunningIsWorked'
  <2>1. worker[t] \in Settled /\ worker' = [worker EXCEPT ![t] = "none"]
        /\ UNCHANGED <<status, frame>>
    BY <1>8 DEF TakeCancelled, TakeOverBudget, TakeOk, TakeFailed, Take, Settled,
       agentVars
  <2> QED
    BY <1>0, <2>1, WorkedKept
<1>9. ASSUME NEW t \in Tasks PROVE ~TakeRetry(t)
  <2> SUFFICES ASSUME TakeRetry(t) PROVE FALSE
    OBVIOUS
  <2>1. worker[t] # "none" /\ attempts[t] < 1
    BY DEF TakeRetry, NoRetries
  <2>2. /\ starts[t] >= 1 /\ starts[t] <= attempts[t]
        /\ starts[t] \in Nat /\ attempts[t] \in Nat
    BY <2>1, SchedulerAssumption DEF StartedWork, RetryCount
  <2> QED
    BY <2>1, <2>2
<1>10. ASSUME NEW t \in Tasks, WorkerStep(t) \/ WorkerFault(t)
       PROVE  RunningIsWorked'
  <2>0. worker[t] # "none"
    BY <1>10 DEF WorkerStep, WorkerFault, Submit, AbortBeforeJob, Accepted, Rejected,
       Result, AbortJob, CancelReturns, ExpansionIntegrated, ExpansionRejected,
       AssignFails, CallFails, Timeout, ExpansionThrows
  <2>1. CASE Accepted(t)
    <3>1. Attempt(t) \in Attempts /\ Attempt(t)[1] = t
      BY <2>0, AttemptsAreHandles DEF Attempt
    <3> QED
      BY <2>0, <2>1, <3>1, ProjectionWorked DEF Accepted, WorkerStates
  <2>2. CASE ExpansionIntegrated(t)
    <3>1. \A u \in Tasks : status'[u] = status[u] \/ status'[u] \in PendingStatuses
      BY <2>2 DEF ExpansionIntegrated, Integrate, PendingStatuses
    <3>2. \A u \in Tasks : status[u] \in TerminalStatuses => status'[u] = status[u]
      <4>1. \A u \in Fragment[t] : status[u] = "absent"
        BY <2>2, SchedulerAssumption DEF ExpansionIntegrated, Integrate, InPlan
      <4> QED
        BY <2>2, <4>1 DEF ExpansionIntegrated, Integrate, TerminalStatuses
    <3>3. \A u \in Tasks : worker'[u] = "none" => worker[u] = "none"
      BY <2>2 DEF ExpansionIntegrated, AcceptReturns, Settlements
    <3>4. frame' = frame
      BY <2>2 DEF ExpansionIntegrated, agentVars
    <3> QED
      BY <3>1, <3>2, <3>3, <3>4, WorkedKept DEF PendingStatuses
  <2>3. ASSUME NEW how \in WorkerStates \ {"none"}, worker' = [worker EXCEPT ![t] = how],
               frame' = frame, \A u \in Tasks : u # t => status'[u] = status[u]
        PROVE  RunningIsWorked'
    BY <2>0, <2>3, WorkedKept
  <2>4. CASE \/ Result(t) \/ AbortBeforeJob(t) \/ CancelReturns(t) \/ Rejected(t)
             \/ AssignFails(t) \/ CallFails(t) \/ Timeout(t) \/ ExpansionThrows(t)
    <3>1. PICK how, st : how \in Settled \union {"expanding"} /\ Settle(t, how, st)
      BY <2>4 DEF AbortBeforeJob, CancelReturns, Rejected, AssignFails,
         Result, Settlements, CallFails, Timeout, ExpansionThrows, Throws, Settled
    <3>2. frame' = frame
      BY <2>4 DEF AbortBeforeJob, CancelReturns, Rejected, AssignFails, Result,
         CallFails, Timeout, ExpansionThrows, agentVars
    <3> QED
      BY <2>3, <3>1, <3>2 DEF Settle, Settled, WorkerStates
  <2>5. CASE Submit(t) \/ AbortJob(t) \/ ExpansionRejected(t)
    BY <2>3, <2>5 DEF Submit, AbortJob, ExpansionRejected, AcceptReturns, Settlements,
       WorkerStates, planVars, agentVars
  <2> QED
    BY <1>10, <2>1, <2>2, <2>4, <2>5 DEF WorkerStep, WorkerFault
<1>11. ASSUME NEW a \in Attempts, PollActivity(a)
       PROVE  RunningIsWorked'
  BY <1>11, ProjectionWorked DEF PollActivity
<1>12. CASE \/ \E a \in Attempts : AgentStep(a)
            \/ \E o \in Outsiders : OutsiderStep(o)
            \/ \E r \in 0 .. MaxRevision : Approve(r)
            \/ \E t \in Tasks : Reject(t)
            \/ \E reason \in {"user", "shutdown"} : Abort(reason)
  BY <1>12, WorkedKept DEF AgentStep, AgentAnswers, AgentFinishes, OutsiderStep,
     OutsiderClaims, OutsiderReleases, Approve, Reject, Abort, EnvFrame, planVars, agentVars
<1>13. CASE UNCHANGED vars
  BY <1>13, WorkedKept DEF vars, planVars, agentVars
<1> QED
  BY <1>2, <1>3, <1>4, <1>5, <1>6, <1>7, <1>8, <1>9, <1>10, <1>11, <1>12, <1>13
     DEF Next, LoopStep, Done

(* What expansions keep: the plan is closed under dependencies, which lead *)
(* to lesser depths; nothing below a task is there before its expansion;   *)
(* and who is not in the plan yet has its first dependencies.              *)
PlanShape(Depth, Below) ==
    /\ \A u \in Tasks : \A d \in deps[u] : Depth[d] < Depth[u]
    /\ \A u \in InPlan : deps[u] \subseteq InPlan
    /\ \A t \in Tasks : Fragment[t] \cap InPlan = {} => Below[t] \cap InPlan = {}
    /\ Initial \subseteq InPlan
    /\ \A u \in Tasks \ InPlan : deps[u] = DependsOn[u] /\ worker[u] = "none"

LEMMA InitShape ==
    ASSUME NEW Depth, NEW Below, PlanIsSound(Depth, Below), Init
    PROVE  PlanShape(Depth, Below)
<1>1. InPlan = Initial
  BY SchedulerAssumption DEF Init, InPlan
<1> QED
  BY <1>1, SchedulerAssumption DEF Init, PlanIsSound, PlanShape

(* Nothing but an integrated expansion adds a task or rewires one.         *)
LEMMA WhoGrows ==
    ASSUME BaseInv, \A u \in Tasks \ InPlan : worker[u] = "none",
           [Next]_vars, \A t \in Tasks : ~ExpansionIntegrated(t)
    PROVE  /\ deps' = deps
           /\ InPlan' = InPlan
           /\ \A u \in Tasks \ InPlan : worker'[u] = "none"
<1> DEFINE Goal == /\ deps' = deps
                   /\ \A u \in Tasks : status[u] = "absent" <=> status'[u] = "absent"
                   /\ \A u \in Tasks : status[u] = "absent" => worker'[u] = "none"
<1> SUFFICES Goal
  BY DEF InPlan
<1> USE DEF BaseInv, TypeOK, PlanTypeOK, WorkTypeOK
<1>0. \A u \in Tasks : status[u] = "absent" => worker[u] = "none"
  BY DEF InPlan
<1>1. ASSUME NEW S \in SUBSET Startable, NEW R \in SUBSET Tasks, Launch(S, R)
      PROVE  Goal
  <2>1. \A u \in S : u \in Tasks /\ status[u] # "absent"
    BY StartableTasks DEF Pending, PendingStatuses
  <2> QED
    BY <1>0, <1>1, <2>1 DEF Launch
<1>2. CASE StartReadyTasks
  BY <1>2, <1>1 DEF StartReadyTasks
<1>3. CASE StartBeyondBudget
  <2>1. PICK S \in SUBSET Startable : \E t \in S : Launch(Earlier(S, t), {t})
    BY <1>3 DEF StartBeyondBudget
  <2> PICK t \in S : Launch(Earlier(S, t), {t})
    BY <2>1
  <2>2. Earlier(S, t) \in SUBSET Startable /\ {t} \in SUBSET Tasks
    BY StartableTasks DEF Earlier
  <2> QED
    BY <1>1, <2>2
<1>4. CASE AwaitApproval
  BY <1>0, <1>4 DEF AwaitApproval
<1>5. CASE SkipImpossible
  BY <1>0, <1>5 DEF SkipImpossible, Impossible, Pending, PendingStatuses
<1>6. CASE \/ TopAborted \/ AllTerminal \/ WaitForActive \/ ReturnOverBudget
           \/ AwaitForeignLock \/ Stall \/ Wake \/ Drained
  BY <1>0, <1>6 DEF TopAborted, AllTerminal, WaitForActive, ReturnOverBudget,
     AwaitForeignLock, Stall, Wake, Drained, planVars
<1>7. ASSUME NEW t \in Tasks,
             \/ TakeCancelled(t) \/ TakeOverBudget(t) \/ TakeOk(t)
             \/ TakeFailed(t) \/ TakeRetry(t)
      PROVE  Goal
  <2>1. worker[t] # "none"
    BY <1>7 DEF TakeCancelled, TakeOverBudget, TakeOk, TakeFailed, TakeRetry
  <2> QED
    BY <1>0, <1>7, <2>1 DEF TakeCancelled, TakeOverBudget, TakeOk, TakeFailed,
       TakeRetry, Take
<1>8. ASSUME NEW f \in [Attempts -> {"none", "live", "done", "failed"}],
             NEW a \in Attempts, status' = Projected(status, f, a)
      PROVE  \A u \in Tasks : status[u] = "absent" <=> status'[u] = "absent"
  BY <1>8 DEF Projected, TerminalStatuses
<1>9. ASSUME NEW t \in Tasks, WorkerStep(t) \/ WorkerFault(t)
      PROVE  Goal
  <2>1. worker[t] # "none"
    BY <1>9 DEF WorkerStep, WorkerFault, Submit, AbortBeforeJob, Accepted, Rejected,
       Result, AbortJob, CancelReturns, ExpansionIntegrated, ExpansionRejected,
       AssignFails, CallFails, Timeout, ExpansionThrows
  <2>2. status[t] # "absent"
    BY <1>0, <2>1
  <2>3. CASE Accepted(t)
    <3>1. frame' \in [Attempts -> {"none", "live", "done", "failed"}]
      BY <2>3 DEF Accepted, Upsert, AgentTypeOK
    <3>2. Attempt(t) \in Attempts /\ status' = Projected(status, frame', Attempt(t))
      BY <2>1, <2>3, AttemptsAreHandles DEF Accepted, Upsert
    <3> QED
      BY <1>0, <1>8, <2>2, <2>3, <3>1, <3>2 DEF Accepted
  <2>4. ASSUME NEW how, NEW st, st # "absent", Settle(t, how, st), deps' = deps
        PROVE  Goal
    BY <1>0, <2>2, <2>4 DEF Settle
  <2>5. CASE Result(t)
    BY <2>4, <2>5 DEF Result, Verdicts
  <2>6. CASE \/ AbortBeforeJob(t) \/ CancelReturns(t) \/ Rejected(t) \/ AssignFails(t)
             \/ CallFails(t) \/ Timeout(t) \/ ExpansionThrows(t)
    BY <2>4, <2>6 DEF AbortBeforeJob, CancelReturns, Rejected, AssignFails, CallFails,
       Timeout, ExpansionThrows, Throws
  <2>7. CASE Submit(t) \/ AbortJob(t) \/ ExpansionRejected(t)
    BY <1>0, <2>2, <2>7 DEF Submit, AbortJob, ExpansionRejected, AcceptReturns, planVars
  <2> QED
    BY <1>9, <2>3, <2>5, <2>6, <2>7 DEF WorkerStep, WorkerFault
<1>10. ASSUME NEW a \in Attempts, PollActivity(a)
       PROVE  Goal
  <2>1. frame' \in [Attempts -> {"none", "live", "done", "failed"}]
    BY <1>10 DEF PollActivity, Upsert, FrameOf, AgentTypeOK
  <2> QED
    BY <1>0, <1>8, <1>10, <2>1 DEF PollActivity, Upsert
<1>11. CASE \/ \E a \in Attempts : AgentStep(a)
            \/ \E o \in Outsiders : OutsiderStep(o)
            \/ \E r \in 0 .. MaxRevision : Approve(r)
            \/ \E t \in Tasks : Reject(t)
            \/ \E reason \in {"user", "shutdown"} : Abort(reason)
  BY <1>0, <1>11 DEF AgentStep, AgentAnswers, AgentFinishes, OutsiderStep, OutsiderClaims,
     OutsiderReleases, Approve, Reject, Abort, EnvFrame, planVars
<1>12. CASE UNCHANGED vars
  BY <1>0, <1>12 DEF vars, planVars
<1> HIDE DEF Goal
<1> QED
  BY <1>2, <1>3, <1>4, <1>5, <1>6, <1>7, <1>9, <1>10, <1>11, <1>12
     DEF Next, LoopStep, Done

LEMMA ShapeStep ==
    ASSUME NEW Depth, NEW Below, PlanIsSound(Depth, Below),
           BaseInv, PlanShape(Depth, Below), [Next]_vars
    PROVE  PlanShape(Depth, Below)'
<1>1. CASE \A s \in Tasks : ~ExpansionIntegrated(s)
  <2>1. /\ deps' = deps
        /\ InPlan' = InPlan
        /\ \A u \in Tasks \ InPlan : worker'[u] = "none"
    BY <1>1, WhoGrows DEF PlanShape
  <2> QED
    BY <2>1 DEF PlanShape
<1>2. ASSUME NEW s \in Tasks, ExpansionIntegrated(s)
      PROVE  PlanShape(Depth, Below)'
  <2> DEFINE F == Fragment[s]
             roots == {u \in F : DependsOn[u] = {}}
             leaves == {u \in F : \A v \in F : u \notin DependsOn[v]}
  <2>1. s \in InPlan
    BY <1>2 DEF ExpansionIntegrated, PlanShape
  <2>2. F \subseteq Tasks /\ F \cap InPlan = {} /\ Below[s] \cap InPlan = {}
    BY <1>2, SchedulerAssumption DEF ExpansionIntegrated, Integrate, PlanShape
  <2>3. InPlan' = InPlan \union F
    <3>1. \A u \in Tasks : status'[u] # "absent" <=> u \in F \/ status[u] # "absent"
      BY <1>2, <2>2 DEF ExpansionIntegrated, Integrate, InPlan, PendingStatuses
    <3> QED
      BY <2>2, <3>1 DEF InPlan
  <2>4. \A u \in Tasks : deps'[u] = IF u \in roots THEN {s}
                                    ELSE IF u \in Dependents(s)
                                         THEN (deps[u] \ {s}) \union leaves
                                    ELSE deps[u]
    BY <1>2 DEF ExpansionIntegrated, Integrate
  <2>5. \A u \in Tasks \ InPlan' : worker'[u] = "none"
    <3>1. \A u \in Tasks : u # s => worker'[u] = worker[u]
      BY <1>2 DEF ExpansionIntegrated, AcceptReturns, BaseInv, TypeOK, WorkTypeOK
    <3> QED
      BY <2>1, <2>3, <3>1 DEF PlanShape
  <2>6. \A u \in Dependents(s) : u \in InPlan /\ u \in Tasks \ Below[s] /\ s \in deps[u]
    BY <2>2 DEF Dependents, InPlan
  <2>7. \A u \in F : deps[u] = DependsOn[u] /\ u \notin Dependents(s)
    BY <2>2, <2>6 DEF PlanShape
  <2>8. \A f \in F : DependsOn[f] \subseteq F /\ Depth[s] < Depth[f]
    BY DEF PlanIsSound
  <2>9. ASSUME NEW u \in Tasks, NEW d \in deps'[u]
        PROVE  Depth[d] < Depth[u]
    <3>1. CASE u \in roots
      BY <2>4, <2>8, <2>9, <3>1
    <3>2. CASE u \in Dependents(s) /\ u \notin roots /\ d \in leaves
      BY <2>6, <3>2 DEF PlanShape, PlanIsSound
    <3>3. CASE d \in deps[u]
      BY <3>3 DEF PlanShape
    <3> QED
      BY <2>4, <2>9, <3>1, <3>2, <3>3
  <2>10. ASSUME NEW u \in InPlan'
         PROVE  deps'[u] \subseteq InPlan'
    <3>1. u \in Tasks
      BY DEF InPlan
    <3>2. CASE u \in F
      BY <2>1, <2>3, <2>4, <2>7, <2>8, <3>1, <3>2
    <3>3. CASE u \in InPlan
      BY <2>2, <2>3, <2>4, <3>1, <3>3 DEF PlanShape
    <3> QED
      BY <2>3, <2>10, <3>2, <3>3
  <2>11. ASSUME NEW t \in Tasks, Fragment[t] \cap InPlan' = {}
         PROVE  Below[t] \cap InPlan' = {}
    <3>1. Below[t] \cap InPlan = {}
      BY <2>3, <2>11 DEF PlanShape
    <3>2. Below[t] \cap F = {}
      BY <2>1, <2>3, <2>11, <3>1 DEF PlanIsSound
    <3> QED
      BY <2>3, <3>1, <3>2
  <2>12. Initial \subseteq InPlan'
    BY <2>3 DEF PlanShape
  <2>13. ASSUME NEW u \in Tasks \ InPlan'
         PROVE  deps'[u] = DependsOn[u]
    BY <2>3, <2>4, <2>6, <2>13 DEF PlanShape
  <2> HIDE DEF F, roots, leaves
  <2> QED
    BY <2>5, <2>9, <2>10, <2>11, <2>12, <2>13 DEF PlanShape
<1> QED
  BY <1>1, <1>2

(* Once nobody works, this run holds none of the locks.                    *)
LEMMA IdleHoldsNothing ==
    ASSUME BaseInv, WorkInv, Active = {}, outcome # "threw",
           NEW l \in locks
    PROVE  owners[l] # Self
<1>1. \A t \in Tasks, n \in 1 .. MaxStarts : handle[<<t, n>>] # "held"
  BY DEF WorkInv, HeldByWork, Active, Working
<1>2. PICK h \in Registry!Held :
             l \in (IF h \in Outsiders THEN OutsiderLocks[h] ELSE LocksOf[h[1]])
  BY DEF BaseInv, Registry!RegistryInv, Registry!RegistryIsLiveHandles,
     Registry!LocksOfAll, Registry!Held
<1>3. h \in Outsiders
  BY <1>1, <1>2 DEF Registry!Held, Handles, Attempts
<1>4. owners[l] = Others
  BY <1>2, <1>3 DEF BaseInv, Registry!RegistryInv,
     Registry!OwnersNameHolders, Registry!Held, Handles
<1> QED
  BY <1>4, SchedulerAssumption

LEMMA LeastOf ==
    ASSUME NEW T \in SUBSET Nat, T # {}
    PROVE  \E n \in T : \A m \in T : n <= m
<1>1. PICK n \in T : \A m \in T : <<m, n>> \notin OpToRel(<, Nat)
  BY NatLessThanWellFounded, WFMin
<1>2. \A m \in T : ~(m < n)
  BY <1>1 DEF OpToRel
<1> QED
  BY <1>2

(* The argument: of the pending tasks one stands least deep, so all it     *)
(* waits for has ended; it is neither impossible nor unapproved, and no    *)
(* lock it needs is taken, so that it is ready.                            *)
LEMMA NoStall ==
    ASSUME NEW Depth, NEW Below, PlanIsSound(Depth, Below),
           BaseInv, WorkInv, RunningIsWorked, PlanShape(Depth, Below), Stall
    PROVE  FALSE
<1> USE DEF BaseInv, TypeOK, PlanTypeOK, WorkTypeOK, LoopTypeOK
<1>1. /\ Active = {} /\ Startable = {} /\ Pending # {} /\ loop = "top"
      /\ ~Exceeded /\ AwaitingApproval = {} /\ Impossible = {} /\ BehindForeignLock = {}
  BY DEF Stall, Blocked, Scheduling, AtTop
<1>2. PICK t \in Pending : \A u \in Pending : Depth[t] <= Depth[u]
  <2> DEFINE D == {Depth[u] : u \in Pending}
  <2>1. D \in SUBSET Nat /\ D # {}
    <3>1. Depth \in [Tasks -> Nat]
      BY DEF PlanIsSound
    <3>2. Pending \subseteq Tasks
      BY DEF Pending
    <3> HIDE DEF BaseInv
    <3> QED
      BY <1>1, <3>1, <3>2
  <2> HIDE DEF D
  <2>2. PICK n \in D : \A m \in D : n <= m
    BY <2>1, LeastOf
  <2> QED
    BY <2>2 DEF D
<1>3. t \in Tasks /\ t \in InPlan
  BY DEF Pending, InPlan, PendingStatuses
<1>4. ASSUME NEW u \in InPlan, Depth[u] < Depth[t]
      PROVE  status[u] \in TerminalStatuses
  <2>1. u \in Tasks /\ u \notin Pending
    BY <1>2, <1>3, <1>4 DEF InPlan, PlanIsSound
  <2>2. worker[u] = "none"
    BY <1>1, <2>1 DEF Active
  <2>3. status[u] \in PlanStatuses /\ status[u] \notin PendingStatuses \union {"absent"}
    BY <2>1 DEF Pending, InPlan
  <2> QED
    BY <2>1, <2>2, <2>3 DEF RunningIsWorked, PlanStatuses, Statuses
<1>5. \A d \in deps[t] : d \in Tasks /\ status[d] \in TerminalStatuses
  BY <1>3, <1>4 DEF PlanShape, InPlan
<1>6. deps[t] \cap Unsuccessful = {}
  <2> SUFFICES ASSUME deps[t] \cap Unsuccessful # {} PROVE t \in Impossible
    BY <1>1
  <2> QED
    BY DEF Impossible
<1>7. deps[t] \subseteq Succeeded
  BY <1>5, <1>6 DEF Unsuccessful, UnsuccessfulStatuses, Succeeded
<1>8. BarrierOpen(t)
  <2> SUFFICES ASSUME AwaitsGroup[t] # NoGroup
               PROVE  /\ Members(AwaitsGroup[t]) # {}
                      /\ \A u \in Members(AwaitsGroup[t]) : status[u] \in TerminalStatuses
    BY DEF BarrierOpen
  <2>1. PICK u \in Initial : GroupOf[u] = AwaitsGroup[t]
    BY <1>3 DEF PlanIsSound
  <2>2. u \in Members(AwaitsGroup[t])
    BY <2>1 DEF Members, PlanShape
  <2>3. \A v \in Members(AwaitsGroup[t]) : v \in InPlan /\ Depth[v] < Depth[t]
    BY <1>3 DEF PlanIsSound, Members, InPlan
  <2> QED
    BY <1>4, <2>2, <2>3
<1>9. Covered(t)
  <2> SUFFICES ASSUME t \in NeedsApproval PROVE granted # {}
    BY DEF Covered
  <2>1. CoveredAt(t, revision)
    BY <1>1, <1>7, <1>8 DEF AwaitingApproval
  <2> QED
    BY <2>1 DEF CoveredAt
<1>10. Registry!CanAcquire(LocksOf[t])
  <2> SUFFICES ASSUME NEW l \in LocksOf[t], l \in locks PROVE FALSE
    BY DEF Registry!CanAcquire
  <2>1. owners[l] = Self
    BY <1>1, <1>3 DEF BehindForeignLock, Registry!ForeignHolders
  <2>2. outcome # "threw"
    BY <1>1 DEF WorkInv, EndsClean
  <2> QED
    BY <1>1, <2>1, <2>2, IdleHoldsNothing
<1>11. t \in Ready
  BY <1>1, <1>7, <1>8, <1>9, <1>10 DEF Ready
<1>12. tasksStarted < MaxTasks
  BY <1>1, <1>11, SchedulerAssumption DEF Exceeded
<1> QED
  BY <1>1, <1>11, <1>12 DEF Startable

(* Only the turn that finds nothing to do returns "stalled".               *)
LEMMA WhoStalls ==
    ASSUME outcome # "stalled", [Next]_vars, ~Stall
    PROVE  outcome' # "stalled"
<1>1. CASE LoopStep
  BY <1>1 DEF LoopStep, TopAborted, Drained, AllTerminal, StartReadyTasks,
     StartBeyondBudget, WaitForActive, ReturnOverBudget, AwaitApproval,
     SkipImpossible, AwaitForeignLock, Wake, TakeCancelled, TakeOverBudget,
     TakeOk, TakeFailed, TakeRetry, Return
<1>2. ASSUME NEW t \in Tasks, WorkerStep(t) \/ WorkerFault(t)
      PROVE  outcome' = outcome
  BY <1>2 DEF WorkerStep, WorkerFault, Submit, AbortBeforeJob, Accepted, Rejected,
     Result, AbortJob, CancelReturns, ExpansionIntegrated, ExpansionRejected,
     AssignFails, CallFails, Timeout, ExpansionThrows, WorkerFrame
<1>3. CASE \/ \E a \in Attempts : PollActivity(a) \/ AgentStep(a)
           \/ \E o \in Outsiders : OutsiderStep(o)
           \/ \E r \in 0 .. MaxRevision : Approve(r)
           \/ \E t \in Tasks : Reject(t)
           \/ \E reason \in {"user", "shutdown"} : Abort(reason)
  BY <1>3 DEF PollActivity, AgentStep, AgentAnswers, AgentFinishes, OutsiderStep,
     OutsiderClaims, OutsiderReleases, Approve, Reject, Abort, EnvFrame
<1>4. CASE UNCHANGED vars
  BY <1>4 DEF vars
<1> QED
  BY <1>1, <1>2, <1>3, <1>4 DEF Next, Done

(* A sound plan without retries never stalls: the loop always finds a task *)
(* to start, a reason to wait, or a task to skip.                          *)
THEOREM SoundPlansNeverStall ==
    ASSUME NEW Depth, NEW Below, PlanIsSound(Depth, Below), NoRetries
    PROVE  Spec => []NeverStalled
<1> DEFINE StallInv == RunningIsWorked /\ PlanShape(Depth, Below) /\ NeverStalled
<1>1. Init => StallInv
  <2> SUFFICES ASSUME Init PROVE StallInv
    OBVIOUS
  <2>1. RunningIsWorked
    BY DEF Init, RunningIsWorked, Unshown, Attempts
  <2> QED
    BY <2>1, InitShape DEF Init, NeverStalled
<1>2. BaseInv /\ WorkInv /\ RetryCount /\ StallInv /\ [Next]_vars => StallInv'
  <2> SUFFICES ASSUME BaseInv, WorkInv, RetryCount, StallInv, [Next]_vars
               PROVE  StallInv'
    OBVIOUS
  <2>1. RunningIsWorked'
    BY WorkedStep
  <2>2. PlanShape(Depth, Below)'
    BY ShapeStep
  <2>3. ~Stall
    BY NoStall
  <2> QED
    BY <2>1, <2>2, <2>3, WhoStalls DEF NeverStalled
<1>3. StallInv => NeverStalled
  OBVIOUS
<1> HIDE DEF StallInv
<1> QED
  BY <1>1, <1>2, <1>3, BaseAlways, WorkAlways, RetryAlways, PTL DEF Spec
=============================================================================
