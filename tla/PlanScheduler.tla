--------------------------- MODULE PlanScheduler ---------------------------
(***************************************************************************)
(* The parallel plan scheduler of one run: runRuntimeParallelPlan          *)
(* (src/runtime/runner.js) with what it calls, readyTasks                  *)
(* (dependencyResolver.js), startReadyTasks and drainActive                *)
(* (scheduler.js), the attempt manager and the shared lock registry        *)
(* (module LockRegistry), runDispatchedTask, the dispatcher's poll loop    *)
(* (dispatcher.js), the result aggregator (resultAggregator.js), the plan  *)
(* integrator (planIntegrator.js), the budget manager, the approval        *)
(* coverage and the projection of activity frames on the plan              *)
(* (core/plan.js).                                                         *)
(*                                                                         *)
(* Processes.  The scheduler loop is one coroutine: `loop` says at which   *)
(* await it stands.  Every started task is a coroutine of its own:         *)
(* worker[t] says at which await it stands, or how its promise settled.    *)
(* The agents, the human, the supervisor's polls, the server's abort and   *)
(* the other holders of workspace locks are the environment.  JavaScript   *)
(* runs one of them at a time: while loop = "top" the loop is inside a     *)
(* synchronous turn, and no other coroutine of the process moves.          *)
(***************************************************************************)
EXTENDS TaskStatuses, Integers, FiniteSets

CONSTANTS
    Tasks,          \* the ids of every task the plan may come to hold
    Initial,        \* the tasks of the plan when the run starts
    DependsOn,      \* DependsOn[t]: task.dependsOn
    Fragment,       \* Fragment[t]: the tasks t's expansion request adds
    GroupOf,        \* GroupOf[t]: task.groupId, or NoGroup
    AwaitsGroup,    \* AwaitsGroup[t]: task.dependsOnGroup, or NoGroup
    NoGroup,
    LockNames,
    LocksOf,        \* LocksOf[t]: locksForTask(t)
    NeedsApproval,  \* the tasks with requiresApproval
    Rank,           \* Rank[t]: place in the order of compareTaskPriority
    Limit,          \* resolved concurrency
    MaxAttempts,    \* MaxAttempts[t]: retryPolicy.maxAttempts, 1 without one
    MaxTasks,       \* the run budget's maxTasks
    UsageBudget,    \* whether the run has a token or duration budget
    ApprovalDeadline, \* whether an approval wait is bounded
    Faults,         \* which calls to agents may fail
    Outsiders,      \* claims made on the registry beside this run
    OutsiderLocks,  \* OutsiderLocks[o]: what claim o locks
    Self, Others,   \* this run and the others, as lock owners
    NoRun,
    MaxStarts,      \* bound: how often one task may be started
    MaxRevision     \* bound: how often the plan may be revised

Attempts == Tasks \X (1 .. MaxStarts)
Handles == Attempts \union Outsiders

ASSUME SchedulerAssumption ==
    /\ IsFiniteSet(Tasks)
    /\ Initial \subseteq Tasks
    /\ DependsOn \in [Tasks -> SUBSET Tasks]
    /\ Fragment \in [Tasks -> SUBSET Tasks]
    /\ LocksOf \in [Tasks -> SUBSET LockNames]
    /\ NeedsApproval \subseteq Tasks
    /\ Rank \in [Tasks -> Nat]
    /\ \A t, u \in Tasks : Rank[t] = Rank[u] => t = u
    /\ MaxAttempts \in [Tasks -> Nat \ {0}]
    /\ Limit \in Nat \ {0}
    /\ MaxTasks \in Nat
    /\ MaxStarts \in Nat
    /\ MaxRevision \in Nat
    /\ UsageBudget \in BOOLEAN
    /\ ApprovalDeadline \in BOOLEAN
    /\ Faults \subseteq {"call", "timeout", "planner"}
    /\ Outsiders \cap Attempts = {}
    /\ OutsiderLocks \in [Outsiders -> SUBSET LockNames]
    /\ Self # Others
    /\ NoRun \notin {Self, Others}

VARIABLES
    status,       \* headlessPlan[t].status
    deps,         \* headlessPlan[t].dependsOn
    revision,     \* session.planRevision
    worker,       \* the active entry of t: its coroutine, or "none"
    starts,       \* how often t was started: <<t, starts[t]>> is its attempt
    attempts,     \* retryState.attempts
    job,          \* the agent's job of an attempt
    frame,        \* the activity of an attempt in the projection
    cancelAsked,  \* the attempts whose job agent_cancel was called for
    asked,        \* asked[t]: revision of t's pending approval request, or -1
    granted,      \* the plan revisions a human approved
    aborted,      \* signal.aborted, with the reason it was given
    loop,         \* "top", "racing", "sleeping", "draining" or "ended"
    outcome,      \* how the scheduler returned
    failures,     \* the failures it returns
    tasksStarted, \* budget counters.tasksStarted
    exceeded,     \* budget exceeded() is not null
    locks, owners, handle   \* the lock registry

planVars == <<status, deps, revision>>
agentVars == <<job, frame, cancelAsked>>
humanVars == <<asked, granted>>
budgetVars == <<tasksStarted, exceeded>>
lockVars == <<locks, owners, handle>>
vars == <<planVars, worker, starts, attempts, agentVars, humanVars, aborted,
          loop, outcome, failures, budgetVars, lockVars>>

Registry == INSTANCE LockRegistry WITH
    Runs <- {Self, Others},
    RunOf <- [h \in Handles |-> IF h \in Outsiders THEN Others ELSE Self],
    Wants <- [h \in Handles |-> IF h \in Outsiders THEN OutsiderLocks[h]
                                ELSE LocksOf[h[1]]]

WorkerStates == {"none", "starting", "submitting", "polling", "cancelling",
                 "expanding", "ok", "failed", "retryable", "cancelled"}
JobStates == {"none", "requested", "rejected", "running",
              "done", "failed", "cancelled"}
Outcomes == {"none", "ok", "failures", "stalled", "awaiting_approval",
             "cancelled", "budget", "threw"}

PlanTypeOK ==
    /\ status \in [Tasks -> PlanStatuses]
    /\ deps \in [Tasks -> SUBSET Tasks]
    /\ revision \in 0 .. MaxRevision

WorkTypeOK ==
    /\ worker \in [Tasks -> WorkerStates]
    /\ starts \in [Tasks -> 0 .. MaxStarts]
    /\ attempts \in [Tasks -> Nat]

AgentTypeOK ==
    /\ job \in [Attempts -> JobStates]
    /\ frame \in [Attempts -> {"none", "live", "done", "failed"}]
    /\ cancelAsked \subseteq Attempts

HumanTypeOK ==
    /\ asked \in [Tasks -> -1 .. MaxRevision]
    /\ granted \subseteq 0 .. MaxRevision
    /\ aborted \in {"no", "user", "shutdown"}

LoopTypeOK ==
    /\ loop \in {"top", "racing", "sleeping", "draining", "ended"}
    /\ outcome \in Outcomes
    /\ failures \subseteq Tasks
    /\ tasksStarted \in Nat
    /\ exceeded \in BOOLEAN

TypeOK == /\ PlanTypeOK /\ WorkTypeOK /\ AgentTypeOK /\ HumanTypeOK
          /\ LoopTypeOK /\ Registry!TypeOK

(* The run starts at the await before its loop (it was planning): other    *)
(* runs may hold locks when the loop takes its first turn.                 *)
Init ==
    /\ status = [t \in Tasks |-> IF t \in Initial THEN "pending" ELSE "absent"]
    /\ deps = DependsOn
    /\ revision = 0
    /\ worker = [t \in Tasks |-> "none"]
    /\ starts = [t \in Tasks |-> 0]
    /\ attempts = [t \in Tasks |-> 1]
    /\ job = [a \in Attempts |-> "none"]
    /\ frame = [a \in Attempts |-> "none"]
    /\ cancelAsked = {}
    /\ asked = [t \in Tasks |-> -1]
    /\ granted = {}
    /\ aborted = "no"
    /\ loop = "sleeping"
    /\ outcome = "none"
    /\ failures = {}
    /\ tasksStarted = 0
    /\ exceeded = FALSE
    /\ Registry!Init

-----------------------------------------------------------------------------
(* Readiness.                                                              *)

InPlan == {t \in Tasks : status[t] # "absent"}
Active == {t \in Tasks : worker[t] # "none"}
Pending == {t \in Tasks : status[t] \in PendingStatuses}
Succeeded == {t \in Tasks : status[t] = "done"}
Unsuccessful == {t \in Tasks : status[t] \in UnsuccessfulStatuses}

Attempt(t) == <<t, starts[t]>>

(* groupBarrierSatisfied: finished, not perfect; an empty group never is.  *)
Members(g) == {u \in InPlan : GroupOf[u] = g}

(* Mutant: the barrier before it was relaxed, every member done. *)
BarrierAllDone(t) ==
    \/ AwaitsGroup[t] = NoGroup
    \/ /\ Members(AwaitsGroup[t]) # {}
       /\ Members(AwaitsGroup[t]) \subseteq Succeeded

BarrierOpen(t) ==
    \/ AwaitsGroup[t] = NoGroup
    \/ /\ Members(AwaitsGroup[t]) # {}
       /\ \A u \in Members(AwaitsGroup[t]) : status[u] \in TerminalStatuses

(* approvalCovered as readyTasks calls it: it is handed the plan as an     *)
(* array, so the plan revision of the context is null and a grant made for *)
(* any revision counts.                                                    *)
Covered(t) == t \in NeedsApproval => granted # {}

(* approvalCovered with the revision, as the approval wait and the plan    *)
(* integrator call it.                                                     *)
CoveredAt(t, r) == t \in NeedsApproval => r \in granted

(* readyTasks, but for its budget filter. *)
Ready == {t \in Pending \ Active :
            /\ deps[t] \subseteq Succeeded
            /\ BarrierOpen(t)
            /\ Covered(t)
            /\ Registry!CanAcquire(LocksOf[t])}

(* readyTasks: canStartTask looks at the counter of this moment for every  *)
(* candidate alike, before any of them is started.                         *)
Startable == IF tasksStarted < MaxTasks THEN Ready ELSE {}

(* Mutant: a dependency that has not succeeded taken for one that cannot.  *)
ImpossibleUnlessDone == {t \in Pending : ~(deps[t] \subseteq Succeeded)}

(* blockedByFailedDependency, iterated by skipImpossibleTasks until a pass *)
(* changes nothing: the least set of pending tasks closed under depending  *)
(* on a task that failed or is in the set.                                 *)
Impossible ==
    {t \in Pending :
       \A S \in SUBSET Pending :
          (\A u \in Pending : deps[u] \cap (Unsuccessful \union S) # {} => u \in S)
             => t \in S}

(* tasksAwaitingApproval. *)
AwaitingApproval ==
    {t \in Pending \cap NeedsApproval :
        /\ ~CoveredAt(t, revision)
        /\ deps[t] \subseteq Succeeded
        /\ BarrierOpen(t)}

(* The pending tasks that wait for a lock another owner holds. *)
BehindForeignLock ==
    {t \in Pending : Registry!ForeignHolders(Self, LocksOf[t]) # {}}

(* startReadyTasks walks the ready tasks in priority order, stops at the   *)
(* concurrency limit and passes over a task whose locks a task started     *)
(* before it in the same turn took: S is the set that walk starts.         *)
Earlier(S, t) == {u \in S : Rank[u] < Rank[t]}

IsGreedy(S) ==
    \A t \in Startable :
       t \in S <=>
          /\ Cardinality(Active) + Cardinality(Earlier(S, t)) < Limit
          /\ \A u \in Earlier(S, t) : LocksOf[u] \cap LocksOf[t] = {}

-----------------------------------------------------------------------------
(* The loop.  Each action below with loop = "top" is the whole of one turn *)
(* from the top of `while (true)` to its next await, continue or return.   *)

AtTop == loop = "top" /\ aborted = "no"

Return(how) == loop' = "ended" /\ outcome' = how

(* Mutant: an abort thrown without draining first.                         *)
TopAbortedAtOnce ==
    /\ loop = "top"
    /\ aborted # "no"
    /\ Return("cancelled")
    /\ UNCHANGED <<planVars, worker, starts, attempts, agentVars, humanVars,
                   aborted, failures, budgetVars, lockVars>>

(* signal.aborted at the top: drainActive, then throw. *)
TopAborted ==
    /\ loop = "top"
    /\ aborted # "no"
    /\ loop' = "draining"
    /\ UNCHANGED <<planVars, worker, starts, attempts, agentVars, humanVars,
                   aborted, outcome, failures, budgetVars, lockVars>>

(* Every promise of the active map settled: the loop forgets them, clears  *)
(* its reservations and throws the abort.                                  *)
Drained ==
    /\ loop = "draining"
    /\ \A t \in Active : worker[t] \in {"ok", "failed", "retryable", "cancelled"}
    /\ worker' = [t \in Tasks |-> "none"]
    /\ IF Active = {} THEN UNCHANGED lockVars ELSE Registry!Clear(Self)
    /\ Return("cancelled")
    /\ UNCHANGED <<planVars, starts, attempts, agentVars, humanVars, aborted,
                   failures, budgetVars>>

AllTerminal ==
    /\ AtTop
    /\ Pending = {}
    /\ Active = {}
    /\ Return(IF failures = {} THEN "ok" ELSE "failures")
    /\ UNCHANGED <<planVars, worker, starts, attempts, agentVars, humanVars,
                   aborted, failures, budgetVars, lockVars>>

(* Neither aborted nor finished: the turn goes on to startReadyTasks. *)
Scheduling == AtTop /\ (Pending # {} \/ Active # {})

(* The reservations, counters, plan steps and coroutines of the tasks in S *)
(* and of those in R, reserved but not started.                            *)
Launch(S, R) ==
    /\ \A t \in S \union R : starts[t] < MaxStarts
    /\ starts' = [t \in Tasks |-> IF t \in S \union R THEN starts[t] + 1
                                  ELSE starts[t]]
    /\ Registry!Reserve({<<t, starts[t] + 1>> : t \in S \union R})
    /\ status' = [t \in Tasks |-> IF t \in S THEN "running" ELSE status[t]]
    /\ worker' = [t \in Tasks |-> IF t \in S THEN "starting" ELSE worker[t]]
    /\ tasksStarted' = tasksStarted + Cardinality(S)
    /\ UNCHANGED <<deps, revision, attempts, agentVars, humanVars, aborted,
                   failures>>

(* Mutant: recordTaskStart counts without asserting the budget. *)
StartUncounted ==
    /\ Scheduling
    /\ \E S \in SUBSET Startable :
         /\ IsGreedy(S)
         /\ S # {}
         /\ Launch(S, {})
    /\ loop' = "racing"
    /\ UNCHANGED <<outcome, exceeded>>

StartReadyTasks ==
    /\ Scheduling
    /\ \E S \in SUBSET Startable :
         /\ IsGreedy(S)
         /\ S # {}
         /\ tasksStarted + Cardinality(S) <= MaxTasks
         /\ Launch(S, {})
    /\ loop' = "racing"
    /\ UNCHANGED <<outcome, exceeded>>

(* The walk passes the filter for more tasks than the budget has left: the *)
(* first one too many reserves its locks, then recordTaskStart throws out  *)
(* of the loop.  Nothing releases that reservation, and the tasks already  *)
(* started go on without a scheduler.                                      *)
StartBeyondBudget ==
    /\ Scheduling
    /\ \E S \in SUBSET Startable :
         /\ IsGreedy(S)
         /\ \E t \in S :
              /\ tasksStarted + Cardinality(Earlier(S, t)) = MaxTasks
              /\ Launch(Earlier(S, t), {t})
    /\ exceeded' = TRUE
    /\ Return("threw")

Exceeded == exceeded \/ (Ready # {} /\ tasksStarted >= MaxTasks)

(* Nothing to start, but tasks are running: await Promise.race. *)
WaitForActive ==
    /\ Scheduling
    /\ Active # {}
    /\ \A S \in SUBSET Startable : IsGreedy(S) => S = {}
    /\ loop' = "racing"
    /\ exceeded' = Exceeded
    /\ UNCHANGED <<planVars, worker, starts, attempts, agentVars, humanVars,
                   aborted, outcome, failures, tasksStarted, lockVars>>

(* Nothing started and nothing active. *)
Blocked == Scheduling /\ Active = {} /\ Startable = {}

ReturnOverBudget ==
    /\ Blocked
    /\ Exceeded
    /\ Return("budget")
    /\ exceeded' = TRUE
    /\ UNCHANGED <<planVars, worker, starts, attempts, agentVars, humanVars,
                   aborted, failures, tasksStarted, lockVars>>

(* Only a human can unblock the plan: ask once per task and revision, mark *)
(* the plain pending ones, then sleep; past a configured deadline, return. *)
AwaitApproval ==
    /\ Blocked
    /\ ~Exceeded
    /\ AwaitingApproval # {}
    /\ LET new == {t \in AwaitingApproval : asked[t] # revision} IN
         /\ asked' = [t \in Tasks |-> IF t \in new THEN revision ELSE asked[t]]
         /\ status' = [t \in Tasks |->
                         IF t \in new /\ status[t] = "pending"
                         THEN "pending_approval" ELSE status[t]]
    /\ \/ loop' = "sleeping" /\ UNCHANGED outcome
       \/ ApprovalDeadline /\ Return("awaiting_approval")
    /\ UNCHANGED <<deps, revision, worker, starts, attempts, agentVars, granted,
                   aborted, failures, budgetVars, lockVars>>

(* Mutant: the impossible tasks are found again at every turn.             *)
SkipUnrecorded ==
    /\ Blocked
    /\ ~Exceeded
    /\ AwaitingApproval = {}
    /\ Impossible # {}
    /\ UNCHANGED vars

(* skipImpossibleTasks, and back to the top. *)
SkipImpossible ==
    /\ Blocked
    /\ ~Exceeded
    /\ AwaitingApproval = {}
    /\ Impossible # {}
    /\ status' = [t \in Tasks |-> IF t \in Impossible THEN "skipped" ELSE status[t]]
    /\ UNCHANGED <<deps, revision, worker, starts, attempts, agentVars,
                   humanVars, aborted, loop, outcome, failures, budgetVars,
                   lockVars>>

(* A lock held by another run is a queue, not a stall. *)
AwaitForeignLock ==
    /\ Blocked
    /\ ~Exceeded
    /\ AwaitingApproval = {}
    /\ Impossible = {}
    /\ BehindForeignLock # {}
    /\ loop' = "sleeping"
    /\ UNCHANGED <<planVars, worker, starts, attempts, agentVars, humanVars,
                   aborted, outcome, failures, budgetVars, lockVars>>

Stall ==
    /\ Blocked
    /\ ~Exceeded
    /\ AwaitingApproval = {}
    /\ Impossible = {}
    /\ BehindForeignLock = {}
    /\ Return("stalled")
    /\ UNCHANGED <<planVars, worker, starts, attempts, agentVars, humanVars,
                   aborted, failures, budgetVars, lockVars>>

(* The 500 ms sleep, or the planning, is over.  The sleep does not listen  *)
(* to the abort signal.                                                    *)
Wake ==
    /\ loop = "sleeping"
    /\ loop' = "top"
    /\ UNCHANGED <<planVars, worker, starts, attempts, agentVars, humanVars,
                   aborted, outcome, failures, budgetVars, lockVars>>

-----------------------------------------------------------------------------
(* Promise.race returned task t: the turn that handles its result.         *)

Take(t) ==
    /\ loop = "racing"
    /\ worker' = [worker EXCEPT ![t] = "none"]
    /\ UNCHANGED <<deps, revision, starts, agentVars, humanVars, aborted,
                   budgetVars, lockVars>>

TakeCancelled(t) ==
    /\ worker[t] = "cancelled"
    /\ Take(t)
    /\ loop' = IF aborted # "no" THEN "draining" ELSE "top"
    /\ UNCHANGED <<status, attempts, outcome, failures>>

(* recordTaskResult may find the tokens or the duration spent: the loop    *)
(* returns at once and leaves the other tasks running.                     *)
TakeOverBudget(t) ==
    /\ UsageBudget
    /\ worker[t] \in {"ok", "failed", "retryable"}
    /\ Take(t)
    /\ Return("budget")
    /\ UNCHANGED <<status, attempts, failures>>

TakeOk(t) ==
    /\ worker[t] = "ok"
    /\ Take(t)
    /\ loop' = "top"
    /\ UNCHANGED <<status, attempts, outcome, failures>>

(* scheduleRetry refuses: the failure is reported. *)
TakeFailed(t) ==
    /\ \/ worker[t] = "failed"
       \/ worker[t] = "retryable" /\ attempts[t] >= MaxAttempts[t]
    /\ Take(t)
    /\ loop' = "top"
    /\ failures' = failures \union {t}
    /\ UNCHANGED <<status, attempts, outcome>>

(* Mutants: a retry limit compared with > instead of >=; a retried task    *)
(* given a status of its own, unknown to the vocabulary.                   *)
RetryOnceMore(t) ==
    /\ worker[t] = "retryable"
    /\ attempts[t] <= MaxAttempts[t]
    /\ Take(t)
    /\ loop' = "top"
    /\ attempts' = [attempts EXCEPT ![t] = @ + 1]
    /\ status' = [status EXCEPT ![t] = "pending"]
    /\ UNCHANGED <<outcome, failures>>

RetryNamed(t) ==
    /\ worker[t] = "retryable"
    /\ attempts[t] < MaxAttempts[t]
    /\ Take(t)
    /\ loop' = "top"
    /\ attempts' = [attempts EXCEPT ![t] = @ + 1]
    /\ status' = [status EXCEPT ![t] = "retrying"]
    /\ UNCHANGED <<outcome, failures>>

(* scheduleRetry puts the task back to pending, with its attempt counted. *)
TakeRetry(t) ==
    /\ worker[t] = "retryable"
    /\ attempts[t] < MaxAttempts[t]
    /\ Take(t)
    /\ loop' = "top"
    /\ attempts' = [attempts EXCEPT ![t] = @ + 1]
    /\ status' = [status EXCEPT ![t] = "pending"]
    /\ UNCHANGED <<outcome, failures>>

-----------------------------------------------------------------------------
(* Activities.  dispatchTaskActivity and every poll upsert the activity of *)
(* a job, and each upsert projects all activities on the plan              *)
(* (attachActivityToExistingPlan for the upserted one, then                *)
(* syncActivitiesToPlan).  Terminal steps are left alone; any other step   *)
(* takes the status of its activities, whichever attempt they belong to.   *)

Frames(f, t, kinds) == {n \in 1 .. MaxStarts : f[<<t, n>>] \in kinds}

(* The first settled activity in their order is the oldest attempt's. *)
OldestIsDone(f, t) ==
    \E n \in Frames(f, t, {"done"}) : \A m \in Frames(f, t, {"failed"}) : n < m

Projected(st, f, upserted) ==
    [t \in Tasks |->
       IF st[t] \in TerminalStatuses \union {"absent"} THEN st[t]
       ELSE IF upserted[1] = t /\ f[upserted] \in {"done", "failed"} THEN f[upserted]
       ELSE IF Frames(f, t, {"done", "failed"}) # {}
            THEN IF OldestIsDone(f, t) THEN "done" ELSE "failed"
       ELSE IF Frames(f, t, {"live"}) # {} THEN "running"
       ELSE st[t]]

(* The activity status a job shows: a cancelled job projects as failed.    *)
FrameOf(j) == IF j = "done" THEN "done"
              ELSE IF j \in {"failed", "cancelled"} THEN "failed" ELSE "live"

Upsert(a, fr) ==
    /\ frame' = [frame EXCEPT ![a] = fr]
    /\ status' = Projected(status, frame', a)

(* The other coroutines run only while the loop awaits. *)
Yielded == loop # "top"

(* pollActivitiesOnce, called by the supervisor and by every dispatcher,   *)
(* polls each non-terminal activity of the session.                        *)
PollActivity(a) ==
    /\ Yielded
    /\ loop # "ended"
    /\ frame[a] = "live"
    /\ Upsert(a, FrameOf(job[a]))
    /\ UNCHANGED <<deps, revision, worker, starts, attempts, job, cancelAsked,
                   humanVars, aborted, loop, outcome, failures, budgetVars,
                   lockVars>>

-----------------------------------------------------------------------------
(* A task's coroutine: runDispatchedTask.                                  *)

(* What no step of a task's coroutine touches. *)
WorkerFrame == UNCHANGED <<starts, attempts, humanVars, aborted, loop, outcome,
                           failures, budgetVars>>

Settle(t, how, st) ==
    /\ worker' = [worker EXCEPT ![t] = how]
    /\ status' = [status EXCEPT ![t] = st]

(* An error other than an abort: the attempt gives its locks back, the     *)
(* task fails, and the error may be one a retry is worth.                  *)
Throws(t, transient) ==
    /\ Registry!Release({Attempt(t)})
    /\ \E how \in {"failed"} \union (IF transient THEN {"retryable"} ELSE {}) :
          Settle(t, how, "failed")
    /\ UNCHANGED <<deps, revision>>

(* assign and admitExecution went through: agent_execute is sent. *)
Submit(t) ==
    /\ Yielded
    /\ worker[t] = "starting"
    /\ aborted = "no"
    /\ worker' = [worker EXCEPT ![t] = "submitting"]
    /\ job' = [job EXCEPT ![Attempt(t)] = "requested"]
    /\ WorkerFrame
    /\ UNCHANGED <<planVars, frame, cancelAsked, lockVars>>

(* No agent provides the capability. *)
AssignFails(t) ==
    /\ Yielded
    /\ worker[t] = "starting"
    /\ "call" \in Faults
    /\ Throws(t, TRUE)
    /\ WorkerFrame
    /\ UNCHANGED agentVars

(* The abort rejects the pending await; the job, if any, has no id yet.    *)
AbortBeforeJob(t) ==
    /\ Yielded
    /\ aborted # "no"
    /\ worker[t] \in {"starting", "submitting"}
    /\ Registry!Release({Attempt(t)})
    /\ Settle(t, "cancelled", "cancelled")
    /\ WorkerFrame
    /\ UNCHANGED <<deps, revision, agentVars>>

(* The agent answered with a job id: its activity appears. *)
Accepted(t) ==
    /\ Yielded
    /\ worker[t] = "submitting"
    /\ job[Attempt(t)] \in {"running", "done", "failed", "cancelled"}
    /\ worker' = [worker EXCEPT ![t] = "polling"]
    /\ Upsert(Attempt(t), "live")
    /\ WorkerFrame
    /\ UNCHANGED <<deps, revision, job, cancelAsked, lockVars>>

Rejected(t) ==
    /\ Yielded
    /\ worker[t] = "submitting"
    /\ job[Attempt(t)] = "rejected"
    /\ Throws(t, TRUE)
    /\ WorkerFrame
    /\ UNCHANGED agentVars

(* agent_execute or agent_status fails in transport: whatever the agent    *)
(* does with the job, the attempt is over for the manager.                 *)
CallFails(t) ==
    /\ Yielded
    /\ worker[t] \in {"submitting", "polling"}
    /\ "call" \in Faults
    /\ Throws(t, TRUE)
    /\ WorkerFrame
    /\ UNCHANGED agentVars

(* "Task timed out" is not among the transient errors. *)
Timeout(t) ==
    /\ Yielded
    /\ worker[t] = "polling"
    /\ "timeout" \in Faults
    /\ Throws(t, FALSE)
    /\ WorkerFrame
    /\ UNCHANGED agentVars

(* The expansion a result may ask for, until the plan has it. *)
MayExpand(t) == Fragment[t] # {} /\ Fragment[t] \cap InPlan = {}

(* The status accept writes for a job: one that reports success but whose  *)
(* worktree holds no file is a failure.                                    *)
Verdicts(j) == IF j = "done" THEN {"done", "failed"} ELSE {j}

(* How the task's promise settles for a status: what did not succeed is    *)
(* worth a retry when its error, which the agent words, says so.           *)
Settlements(st) == IF st = "done" THEN {"ok"} ELSE {"failed", "retryable"}

(* A terminal agent_status.  The dispatcher's finally releases the locks,  *)
(* then accept writes the task's status and awaits agent_plan when the     *)
(* result asks for more tasks.                                             *)
Result(t) ==
    /\ Yielded
    /\ worker[t] = "polling"
    /\ Registry!Release({Attempt(t)})
    /\ job[Attempt(t)] \in {"done", "failed", "cancelled"}
    /\ \E st \in Verdicts(job[Attempt(t)]) :
         \/ \E how \in Settlements(st) : Settle(t, how, st)
         \/ MayExpand(t) /\ Settle(t, "expanding", st)
    /\ WorkerFrame
    /\ UNCHANGED <<deps, revision, agentVars>>

(* Mutants: an abort that settles the task without a word to the agent; a  *)
(* poll loop that a shutdown does not leave.                               *)
AbortJobSilently(t) ==
    /\ Yielded
    /\ aborted # "no"
    /\ worker[t] = "polling"
    /\ worker' = [worker EXCEPT ![t] = "cancelling"]
    /\ WorkerFrame
    /\ UNCHANGED <<planVars, agentVars, lockVars>>

AbortJobUnlessShutdown(t) ==
    /\ Yielded
    /\ aborted = "user"
    /\ worker[t] = "polling"
    /\ worker' = [worker EXCEPT ![t] = "cancelling"]
    /\ cancelAsked' = cancelAsked \union {Attempt(t)}
    /\ WorkerFrame
    /\ UNCHANGED <<planVars, job, frame, lockVars>>

(* An abort with a job id in hand: agent_cancel is awaited.  The task's    *)
(* own controller was aborted without a reason, so the dispatcher's test   *)
(* for a runtime shutdown never holds.                                     *)
AbortJob(t) ==
    /\ Yielded
    /\ aborted # "no"
    /\ worker[t] = "polling"
    /\ worker' = [worker EXCEPT ![t] = "cancelling"]
    /\ cancelAsked' = cancelAsked \union {Attempt(t)}
    /\ WorkerFrame
    /\ UNCHANGED <<planVars, job, frame, lockVars>>

(* agent_cancel answered or failed, both are swallowed. *)
CancelReturns(t) ==
    /\ Yielded
    /\ worker[t] = "cancelling"
    /\ Registry!Release({Attempt(t)})
    /\ Settle(t, "cancelled", "cancelled")
    /\ WorkerFrame
    /\ UNCHANGED <<deps, revision, agentVars>>

Dependents(t) == {u \in InPlan : t \in deps[u]}

(* Mutant: a planner whose answer is not checked against finished tasks. *)
MayRewireAny(t) == TRUE

(* firstTerminalMutation, for insertAfterTasks = [t]. *)
MayRewire(t) == \A u \in Dependents(t) : status[u] \notin TerminalStatuses

(* The planner's fragment, whose ids globalizeFragment makes new to the    *)
(* plan, joins it after t: its roots wait for t, and what waited for t now *)
(* waits for its leaves.  Approval coverage is computed anew for the whole *)
(* plan at the new revision.                                               *)
Integrate(t) ==
    LET F == Fragment[t]
        roots == {u \in F : DependsOn[u] = {}}
        leaves == {u \in F : \A v \in F : u \notin DependsOn[v]}
        r == revision + 1
        open == {u \in (InPlan \union F) \cap NeedsApproval :
                    status[u] \notin TerminalStatuses}
    IN
    /\ F \cap InPlan = {}
    /\ revision < MaxRevision
    /\ revision' = r
    /\ deps' = [u \in Tasks |->
                  IF u \in roots THEN {t}
                  ELSE IF u \in Dependents(t) THEN (deps[u] \ {t}) \union leaves
                  ELSE deps[u]]
    /\ status' = [u \in Tasks |->
                    IF u \in open /\ ~CoveredAt(u, r) THEN "waiting_approval"
                    ELSE IF u \in F THEN "pending"
                    ELSE IF u \in open /\ status[u] \in PendingStatuses THEN "pending"
                    ELSE status[u]]
    /\ asked' = [u \in Tasks |-> IF u \in open /\ ~CoveredAt(u, r) THEN r
                                 ELSE asked[u]]

(* accept returns: the task settles as the status it was given says. *)
AcceptReturns(t) ==
    \E how \in Settlements(status[t]) : worker' = [worker EXCEPT ![t] = how]

ExpansionIntegrated(t) ==
    /\ Yielded
    /\ worker[t] = "expanding"
    /\ MayRewire(t)
    /\ Integrate(t)
    /\ AcceptReturns(t)
    /\ UNCHANGED <<starts, attempts, agentVars, granted, aborted, loop, outcome,
                   failures, budgetVars, lockVars>>

(* The planner refuses, or its fragment is not valid here. *)
ExpansionRejected(t) ==
    /\ Yielded
    /\ worker[t] = "expanding"
    /\ AcceptReturns(t)
    /\ WorkerFrame
    /\ UNCHANGED <<planVars, agentVars, lockVars>>

(* agent_plan throws out of accept, after the task was marked done: the    *)
(* error path of runDispatchedTask fails it.                               *)
ExpansionThrows(t) ==
    /\ Yielded
    /\ worker[t] = "expanding"
    /\ "planner" \in Faults
    /\ Throws(t, TRUE)
    /\ WorkerFrame
    /\ UNCHANGED agentVars

-----------------------------------------------------------------------------
(* The environment.                                                        *)

EnvFrame == UNCHANGED <<planVars, worker, starts, attempts, loop, outcome,
                        failures, budgetVars>>

(* An agent takes or refuses a request it received, even one the manager   *)
(* no longer waits for; a job ends by itself, or because this run or an    *)
(* operator of the agent cancelled it.                                     *)
AgentAnswers(a) ==
    /\ job[a] = "requested"
    /\ \E j \in {"running", "rejected"} : job' = [job EXCEPT ![a] = j]
    /\ EnvFrame
    /\ UNCHANGED <<frame, cancelAsked, humanVars, aborted, lockVars>>

AgentFinishes(a) ==
    /\ job[a] = "running"
    /\ \E j \in {"done", "failed", "cancelled"} : job' = [job EXCEPT ![a] = j]
    /\ EnvFrame
    /\ UNCHANGED <<frame, cancelAsked, humanVars, aborted, lockVars>>

(* A run-wide grant, bound to the plan revision the human was shown. *)
Approve(r) ==
    /\ Yielded
    /\ loop # "ended"
    /\ \E t \in Tasks : asked[t] = r
    /\ granted' = granted \union {r}
    /\ asked' = [t \in Tasks |-> IF asked[t] = r THEN -1 ELSE asked[t]]
    /\ EnvFrame
    /\ UNCHANGED <<agentVars, aborted, lockVars>>

Reject(t) ==
    /\ Yielded
    /\ loop # "ended"
    /\ asked[t] # -1
    /\ asked' = [asked EXCEPT ![t] = -1]
    /\ EnvFrame
    /\ UNCHANGED <<agentVars, granted, aborted, lockVars>>

(* /cancel, /kill or a runtime shutdown aborts the run's signal. *)
Abort(reason) ==
    /\ Yielded
    /\ loop # "ended"
    /\ aborted = "no"
    /\ aborted' = reason
    /\ EnvFrame
    /\ UNCHANGED <<agentVars, humanVars, lockVars>>

OutsiderClaims(o) ==
    /\ Yielded
    /\ Registry!Reserve({o})
    /\ EnvFrame
    /\ UNCHANGED <<agentVars, humanVars, aborted>>

OutsiderReleases(o) ==
    /\ Yielded
    /\ handle[o] = "held"
    /\ Registry!Release({o})
    /\ EnvFrame
    /\ UNCHANGED <<agentVars, humanVars, aborted>>

-----------------------------------------------------------------------------
LoopStep ==
    \/ TopAborted \/ Drained \/ AllTerminal
    \/ StartReadyTasks \/ StartBeyondBudget \/ WaitForActive
    \/ ReturnOverBudget \/ AwaitApproval \/ SkipImpossible
    \/ AwaitForeignLock \/ Stall \/ Wake
    \/ \E t \in Tasks : \/ TakeCancelled(t) \/ TakeOverBudget(t) \/ TakeOk(t)
                        \/ TakeFailed(t) \/ TakeRetry(t)

WorkerStep(t) ==
    \/ Submit(t) \/ AbortBeforeJob(t)
    \/ Accepted(t) \/ Rejected(t) \/ Result(t)
    \/ AbortJob(t) \/ CancelReturns(t)
    \/ ExpansionIntegrated(t) \/ ExpansionRejected(t)

(* Kept apart from WorkerStep: a fault may happen, and none has to. *)
WorkerFault(t) ==
    AssignFails(t) \/ CallFails(t) \/ Timeout(t) \/ ExpansionThrows(t)

AgentStep(a) == AgentAnswers(a) \/ AgentFinishes(a)

OutsiderStep(o) == OutsiderClaims(o) \/ OutsiderReleases(o)

Done == loop = "ended" /\ UNCHANGED vars

Next ==
    \/ LoopStep
    \/ \E t \in Tasks : WorkerStep(t) \/ WorkerFault(t)
    \/ \E a \in Attempts : PollActivity(a) \/ AgentStep(a)
    \/ \E o \in Outsiders : OutsiderStep(o)
    \/ \E r \in 0 .. MaxRevision : Approve(r)
    \/ \E t \in Tasks : Reject(t)
    \/ \E reason \in {"user", "shutdown"} : Abort(reason)
    \/ Done

Spec == Init /\ [][Next]_vars

(* The event loop runs every coroutine that can move; agent_cancel and     *)
(* agent_plan return (an MCP call has a timeout); another run gives back   *)
(* the lock it holds (strongly: it can move at every await of this loop,   *)
(* and is only held up by the turns between).  Nothing is assumed of the   *)
(* human, of the abort, of faults, or of an agent ever finishing a job.    *)
Fairness ==
    /\ WF_vars(LoopStep)
    /\ \A t \in Tasks : WF_vars(WorkerStep(t))
    /\ \A o \in Outsiders : SF_vars(OutsiderReleases(o))

(* Agents that answer every request and end every job. *)
AgentFairness == \A a \in Attempts : WF_vars(AgentStep(a))

FairSpec == Spec /\ Fairness
WorkingSpec == FairSpec /\ AgentFairness

-----------------------------------------------------------------------------
(* Properties.                                                             *)

Working(t) == worker[t] \in {"starting", "submitting", "polling", "cancelling"}

(* Two tasks that write the same resource are never both with an agent,    *)
(* and what a task at work needs is locked in the workspace registry under *)
(* this run's name, so no other run takes it either.                       *)
ExclusiveWork ==
    /\ \A t, u \in Tasks : Working(t) /\ Working(u) /\ t # u
                              => LocksOf[t] \cap LocksOf[u] = {}
    /\ \A t \in Tasks : Working(t) =>
          \A l \in LocksOf[t] : l \in locks /\ owners[l] = Self

(* A run that returned by itself or by a cancellation leaves nothing       *)
(* behind: no task coroutine, and none of its locks in the shared registry *)
(* where they would block every later run of the workspace.                *)
NothingLeftBehind ==
    loop = "ended" /\ outcome \notin {"budget", "threw"} =>
       /\ Active = {}
       /\ \A l \in LockNames : owners[l] # Self

(* A task is skipped only when a dependency it still has ended without     *)
(* success, and no later expansion of the plan takes that cause away.      *)
SkippedForCause ==
    \A t \in Tasks : status[t] = "skipped" => deps[t] \cap Unsuccessful # {}

(* The dependencies of a finished task are history: no expansion, however  *)
(* late its plan comes back from the planner, rewrites them.               *)
FinishedTasksKeepTheirDeps ==
    [][\A t \in Tasks : status[t] \in TerminalStatuses => deps'[t] = deps[t]]_vars

(* A task is never started more often than its retry policy allows. *)
StartsBounded == \A t \in Tasks : starts[t] <= MaxAttempts[t]

(* The run budget bounds the work agents are ever asked to do, retries and *)
(* tasks added by expansions included, whatever is started in one turn.    *)
BudgetBoundsWork ==
    Cardinality({a \in Attempts : job[a] # "none"}) <= MaxTasks

(* After a cancelled run, every job the manager knew and was watching has  *)
(* been told to stop, or had already ended.                                *)
CancelReachesJobs ==
    outcome = "cancelled" =>
       \A t \in Tasks :
          LET a == Attempt(t) IN
          starts[t] > 0 /\ status[t] = "cancelled" /\ job[a] = "running"
             /\ frame[a] # "none" => a \in cancelAsked

(* A plan that can be run: tasks stand deeper than what they wait for, the *)
(* tasks of an expansion between the task that asks for it and what comes  *)
(* after that task, and a group that is awaited has a member from the      *)
(* start.  Below[t] is what expansions may add because of t.               *)
PlanIsSound(Depth, Below) ==
    /\ Depth \in [Tasks -> Nat] /\ Below \in [Tasks -> SUBSET Tasks]
    /\ \A t \in Tasks : \A u \in DependsOn[t] : Depth[u] < Depth[t]
    /\ \A t \in Initial : DependsOn[t] \subseteq Initial
    /\ \A t \in Tasks : /\ Fragment[t] \subseteq Below[t]
                        /\ Below[t] \cap Initial = {}
                        /\ \A s \in Tasks : Below[t] \cap Fragment[s] # {}
                                               => s = t \/ s \in Below[t]
    /\ \A t \in Tasks : \A f \in Fragment[t] :
          /\ DependsOn[f] \subseteq Fragment[t] /\ Depth[t] < Depth[f]
          /\ \A u \in Tasks \ Below[t] : Depth[t] < Depth[u] => Depth[f] < Depth[u]
    /\ \A t \in Tasks : AwaitsGroup[t] # NoGroup =>
          /\ \E u \in Initial : GroupOf[u] = AwaitsGroup[t]
          /\ \A u \in Tasks : GroupOf[u] = AwaitsGroup[t] => Depth[u] < Depth[t]

NoRetries == \A t \in Tasks : MaxAttempts[t] = 1

(* With such a plan and no retry, the loop never meets a plan it can       *)
(* neither run, wait on, nor skip.  (A retried task may be shown as        *)
(* running by the activity of its earlier attempt, and then stalls it.)    *)
NeverStalled == outcome # "stalled"

(* The statements below are made by the repository and the code does not   *)
(* keep them: each is checked alone by a run that finds it violated.       *)

(* dispatcher.js: on a shutdown the dispatcher "must just not tell the     *)
(* agent to give up on real work".                                         *)
ShutdownSparesJobs == aborted = "shutdown" => cancelAsked = {}

(* agentEvents.js: "the run summary counted a success that never           *)
(* happened": a run that returns ok has every task of its plan done.       *)
OkMeansDone == outcome = "ok" => InPlan = Succeeded

(* An abort ends the run, whatever the agents and the human do. *)
AbortEndsRun == aborted # "no" ~> loop = "ended"

(* A run whose agents work ends, or waits for a human for ever.            *)
EndsOrAwaitsHuman == []<>(loop = "ended" \/ AwaitingApproval # {})
=============================================================================
