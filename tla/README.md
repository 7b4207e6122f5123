# A formal model of llm-wiki-manager

llm-wiki-manager runs plans of tasks on agents that maintain a wiki workspace. A
manager process owns the plan, starts tasks on MCP agents, polls their jobs, asks a
human for approvals, retries, expands and repairs the plan, and shares the workspace
with other runs and with background maintenance. This directory holds TLA+
specifications of that manager, the TLC configurations that check them on small
instances, and proofs that TLAPS checks for every instance. Paths below are relative
to the repository; `src/` in front of a module path is the repository's own `src/`.

## 1. The system

| Component | State it keeps | Operations | Talks to |
|---|---|---|---|
| Lock registry (`orchestrator/lockManager.js`), attempt manager (`attemptManager.js`) | the workspace's set of locks and owners, one set of reservations per run | `reserve`, `release`, `clear`, `canReserve`, `foreignHolders`, `scheduleRetry` | every run of the workspace |
| Plan scheduler (`runtime/runner.js`, `orchestrator/scheduler.js`, `dependencyResolver.js`, `budgetManager.js`) | the plan, the active map of promises, failures, budget counters | one turn of the loop: start, wait, ask, skip, stall, drain, end | everything below |
| Dispatcher (`dispatcher.js`), assignment (`assignmentManager.js`, `agentRegistry.js`) | per task: job id, deadline | execute, poll, time out, cancel | MCP agents, activities |
| Result aggregator, plan integrator (`resultAggregator.js`, `planIntegrator.js`, `planValidator.js`) | the plan's revision, artifacts | judge a result, ask for an expansion, merge its fragment | planner agent, approvals |
| Approvals (`runtime/approvals.js`, `orchestrator/approvalPolicy.js`) | pending requests, grants | request, approve, reject, time out, restore | human, store |
| Activities and plan projection (`core/agentEvents.js`, `core/plan.js`, `runtime/supervisor.js`) | activities of agents' jobs | upsert, poll, project on the plan | agents, the plan |
| Server and control lane (`runtime/server.js`, `controlDrain.js`, `controlCancellation.js`) | the current run, its abort controller, queued prompts | start, queue, cancel, kill, shut down | scheduler, store |
| Store and recovery (`runtime/store.js`, `recoveryManager.js`, `lifecycle.js`) | rows of runs, tasks, events | write, and at a restart interrupt, requeue, reattach | server, agents |
| Maintenance (`maintenance/*.js`) | holders and waiters of an admission, proposals, reservations of credit | scan, admit, execute, yield, settle | dispatcher, agents |
| Production queue (`core/jobQueue.js`) | queued and running production jobs | enqueue, start next, cancel, sync | production agent |
| Reviews the runtime starts (`proactiveReviewScheduler.js`, `knowledgeSignals.js`) | signals, slots, cooldowns | | scheduler |
| Objective supervision, agent graph, skills, views, shell | text, displays | | |

What makes it hard. The process is one JavaScript event loop, so a synchronous stretch
of code is atomic, and everything else interleaves at every `await`: the scheduler loop,
one coroutine per started task, the supervisor's polls, HTTP handlers, other runs of the
workspace. Agents are remote: a request may be lost, answered late, or carried out after
the manager stopped waiting. The same facts (what a task's status is) are written by
three parties: the worker that awaits the job, the poll that projects its activity, and
the scheduler. `PROJECT.json` lists the hazards line by line.

What makes each part correct, in short: two tasks that write one resource never work at
once and no lock outlives its run (locks, scheduler); a task runs only after what it
depends on, is skipped only for a cause, and is retried at most as often as it may
(scheduler); a result is applied to the plan it was made for (integrator); a cancel
reaches every job and ends the run (dispatcher, control lane); a restart neither loses
nor repeats work (recovery); the user goes before maintenance and is never blocked by it
for long (admission).

## 2. The modules

| Module | Stands for |
|---|---|
| `ExclusiveLocks` | abstract specification: claimants take all the resources they need at once, or nothing, and give them back once |
| `LockRegistry` | `lockManager.js` and the reservations of `attemptManager.js` |
| `LockRegistryProofs` | its theorems |
| `TaskStatuses` | `taskStatuses.js`: the canonical statuses and their classes |
| `PlanScheduler` | the run: `runRuntimeParallelPlan`, `runDispatchedTask` and all they call |
| `PlanSchedulerProofs` | its theorems |
| `MaintenanceAdmission` | `admission.js`: who may start, user or maintenance |
| `MaintenanceAdmissionProofs` | its theorems |
| `MaintenanceActions` | `runCandidate`, `completeJob`, `reconcile` and the Stop of `maintenance/service.js`, over the reservations of `maintenance/store.js` |
| `MaintenanceActionsProofs`, `MaintenanceJobsProofs` | its theorems: the admission and the units; the tickets, their rows and the agents' jobs |
| `ControlLane` | `server.js` with `controlDrain.js` and `controlCancellation.js`, and the recovery of a workspace: which run owns the session |
| `ControlLaneProofs` | its theorems |
| `ProductionQueue` | `jobQueue.js` between the turns of the agent, the supervisor's polls and the production agent |
| `ProductionQueueProofs` | its theorems |
| `TaskRecovery` | `recoveryManager.js` and `recoverWorkspace` with the rows of `store.js`: the tasks of a run across crashes |
| `TaskRecoveryProofs` | its theorems |
| `MCLockRegistry`, `MCPlanScheduler`, `MCMaintenanceActions`, `MCControlLane`, `MCProductionQueue`, `MCTaskRecovery` | the instances the `.cfg` files check |

### LockRegistry

`locks` and `owners` are the fields of the registry that hangs on the workspace session;
`handle` records of each attempt whether its `release` closure was made, and called.
`Reserve`, `Release` and `Clear` take a *set* of handles because one synchronous turn of
the scheduler reserves for every task it starts. `Release` may be called for a handle
that was given back long ago: that is the point of the `released` flag.

### PlanScheduler

`loop` is the await at which `runRuntimeParallelPlan` stands: `racing` is
`Promise.race`, `sleeping` the 500 ms timer (and the planning before the first turn),
`draining` is `drainActive`, and `top` is a synchronous turn, during which (`Yielded`)
no other coroutine moves. `worker[t]` is the coroutine of a started task: `starting`
(before `agent_execute`), `submitting` (the call), `polling`, `cancelling`
(`agent_cancel` awaited), `expanding` (`agent_plan` awaited in `accept`), and then how
its promise settled. The actions of a turn of the loop follow the order of its code: an
action's guard excludes what an earlier `if` of the loop takes. `StartReadyTasks` starts
the set that the greedy walk of `startReadyTasks` starts (`IsGreedy`).

`job[<<t, n>>]` is the agent's job of the n-th attempt of t, and `frame` the activity
the manager has for it. An attempt's job may be accepted, run and end although the
manager no longer waits for it. `Upsert` is the whole of `upsertActivity`: it stores the
activity and projects all of them on the plan (`Projected`).

`Registry` is `LockRegistry` with the attempts of this run as handles of `Self` and the
claims of other runs and direct actions as handles of `Others`; every action of the
scheduler that touches locks is a `Registry` action on the same variables.

Not in the model: the external-runtime path of the dispatcher; plan patches, and the
`_onPlanUpdate` hook that applies them inside a turn; the filter on healthy agents
(`agentSane`, for which production never assigns a registry); `allowAgentFallback`; plans
with duplicate ids; replanning after the loop; the limits of depth and of passes; the
wait for maintenance before `agent_execute`. Times are not modelled: a timeout is a
choice.

### MaintenanceAdmission and MaintenanceActions

`place` says of each request of the admission whether it is out, waiting or holding;
`Look` is one turn of the loop of `admitExecution`. `MaintenanceActions` takes it by
INSTANCE: its requests are the pairs of a ticket (a running call of `runCandidate`, made
by a scan or by the bridge) and a candidate, and the tasks of the user.

`row[<<c, n>>]` is the reservation of the n-th attempt of candidate c: its status, its
outcome, whether its dispatch was written down, and its job's id (0 for none). The rows,
`closed` (candidates an event of failure or of a spent budget keeps from being offered
that day) and `paused` survive a crash; tickets, the admission and a Stop do not; jobs run
on in their agents. `ticket[d]` is the await at which a call stands: `admitting`,
`admitted` (the policy and the pause are looked at), `checked` (the state is read again),
`submitting`, `accepted` (taken by the agent, which the manager does not know),
`following`. `Dispatch` is a whole turn, from `reserve` to the request. Where a turn has
two writes the process may die between them: `CrashReserving` leaves a row reserved that
was not dispatched, `CrashSettling` one with an outcome that was not settled. An agent of
MCP answers a key with the job it has for it, an external runtime (`External`) knows no
key and starts a job at each call. A scan (`scanning`, `scanned`) and a Stop (`stage`,
`stopping`) walk a copy of the reserved rows and wait for a job between one row and the
next, so that `scanned` and `stopping` hold what the copy said of the rows still to come:
the row's job, or that it was not sent. A walk gives back a row it read as not sent,
whatever became of it meanwhile; `overtaken` records the attempts that had been dispatched
by then (section 6, *Seen on the way*). In the order of a walk only the place of a job
counts: rows that are not sent fall together with the job before them.

Not in the model: the second credit of a build, the credits of model calls and cycles
and the budget of a cycle; decisions of a human (`ask`); the cycle of the agent and its
monitor; how candidates are found, and the merge of a curation; another day.

### ControlLane

`lane` holds the four fields of the workspace's context that say who runs: `running`,
`currentAbortController` (as the run it belongs to), `currentRunId` and `runPromise`. They
are set and cleared in different places, which is what `OneActiveRun` and
`IdleMeansDrained` are about. `item` and `queue` are the control queue, `tolerant` the items
marked optional or continueOnFailure; `Batches` are the chains a skill compiles to, in the
order of `chainSequence`. `phase[r]` is the coroutine of a run, `row[r]` the status of its
row, and only `row`, `item`, `queue` and `act` survive a restart. A run bears the name of
its request. A stretch of code between two awaits is one action: the end of a run with its
`finally` and the drain of the queue, a kill with no orphan to cancel. `KillRequest`,
`KillWaited` and `KillFinishes` are the parts of a kill; `CancelIdle` and `StopOrphan` the
two loops of a cancel beside no run; `rec`, `listed` and `watch` the stages of
`recoverWorkspace`. Left out is the catch around
`POST /run` (`server.js:743-747`), which clears the running flag and the controller also when
they belong to a run that is at work: it takes a store that throws, or a message the
developer's own contract refuses, and `OneActiveRun` does not speak of it. What a run does is
left out: it asks for its approval, has activities
(`act`) and ends, well or not; what recovery does with its tasks is `TaskRecovery`.

### ProductionQueue

`item` is the status of a request in the session's queue, `call` the call of
`production_start_job` in flight, `job` the agent's job. The manager sees a job through its
activity: `live` are the requests with an activity that is not over, `poll` the poll of it
and what it read, and `bound` the items that have their job's id, without which the poll of
a job does not reach its item. `direct` is the call a turn awaits by itself. The answer of a
call is a step of its own after the agent's, so that a cancel, a purge or a restart falls
between the two. The history variables `asks`, `cancelled` and `forgot` record what the
properties speak of: calls the agent did not refuse, items the user cancelled, and that an
item was left with nothing to follow it, which the code does at `run_started`, at
`run_error`, at a status a turn reads by itself, and at a restart during a call.

### TaskRecovery

The other half of recovery: one run, task by task. The status of a task is kept twice, in
the `plan` (a projection of the events, restored by `hydrateSession`) and in its `row`
(`plan_step_updated` only), and recovery reads the rows while the scheduler reads the plan.
`started` and `unstarted` are the attempts as the upsert of `store.js` leaves them: an
attempt of a new start has the number of an old one, and keeps its time. `LatestJob` is the
job of the attempt that `latestAttempt` sorts first, which is none when an attempt has only
been assigned. `live` and `shown` are the activities, whose projection (`Projected`) is the
one of `PlanScheduler`. A crash loses `loop`, `watch`, the workers and the recovery, and may
fall between the two writes of an answer (`task.started`, then the activity). `jobs` are the
jobs an agent had for a task; an agent that knows a key names its job, unless that failed
and it tries again, and an external runtime starts a job at each call.

`rec` is the recovery: `begin` (its own discovery), then the active rows, one call at a
time; the answer of a call (`Ask`) and what is done with it (`Recover`) are two steps.
`POST /resume` starts one at any time, and the code does not ask whether a run is at work:
`beside` records that one was.

Not in the model: the order, locks, approvals and retries of tasks; other runs, stops and
the lane; the turn of a model with which a resumed run begins, and what it may plan anew;
the failure of a poll; the call of a poll and its frame are one step.

## 3. What the runs check

| Run | Properties | Shows |
|---|---|---|
| `LockRegistry` (MCLockRegistry) | `TypeOK`, `Exclusive`, `RegistryIsLiveHandles`, `OwnersNameHolders`, `ImplementsExclusiveLocks` | Two runs and a direct action share three locks through overlapping handles, release them late, twice, or after a clear: no lock has two live holders, none leaks, and the registry implements one atomic lock table. |
| `SchedulerGroup` (MCPlanScheduler) | `ExclusiveWork`, `NeverStalled`, `FinishedTasksKeepTheirDeps`, `EndsOrAwaitsHuman` | A group of two with a barrier behind it, an expansion that is planned while the loop goes on, an approval, an abort, two tasks that can be ready together and write one page, agents that answer, a planner that may fail: the two writers are never both at work, the loop never gives up on a plan, a late fragment never rewires a finished task, and the run ends unless it waits for a human. |
| `SchedulerSpend` (MCPlanScheduler) | `TypeOK`, `NothingLeftBehind`, `StartsBounded`, `SkippedForCause`, `CancelReachesJobs`, `BudgetBoundsWork`, `AbortEndsRun` | A writer of a page and its dependent, and a writer of the whole workspace, under a task budget and a token budget, one retry, failing and hanging agents, an abort at any await, another run that holds the page: nothing stays in the registry, retries and jobs are bounded, a cancel reaches the jobs and ends the run. |
| `MaintenanceUser` (MCMaintenanceActions) | `TypeOK`, `AdmittedApart`, `WorkApart`, `BudgetHolds`, `UserGoesFirst`, `UserIsServed` | Two concurrent calls for an action that can yield and one that cannot, beside a user's task that conflicts with both, with lost calls, failing jobs and crashes: work never overlaps, the day's budget holds also when a process dies between an outcome and its settlement, maintenance never passes a waiting user, and the user's task is not held up for ever even by an agent that never answers. |
| `MaintenanceCuration` (MCMaintenanceActions) | `OneJobAtATime`, `FollowedIsHeld`, `SettledOnce` | An action of an MCP agent with one retry and a curation by an external runtime, one call at a time, a scan and a Stop that walk copies of the rows while these move on, crashes at any await: an agent that knows keys has one job at a time, a followed job keeps its unit, both but for an attempt a walk gave back by its copy, and settlements last. |
| `ControlLane` (MCControlLane) | `TypeOK`, `OneActiveRun`, `ChainOrder`, `IdleMeansDrained`, `RunningItemIsLive`, `NoWorkUnapproved` | A chain of two items whose first may be optional and whose second needs an approval, a delegation beside it, cancels, kills and purges at any await, a restart, recoveries and the supervisor's callback: one run at a time, chains in order, nothing waits behind an idle lane, and no work without its approval. |
| `ProductionQueue` (MCProductionQueue) | `TypeOK`, `RequestedOnce`, `OneItemAtWork`, `RunningIsFollowed`, `QueueMovesUnlessForgotten` | Two requests for production jobs and one job of another client, an agent that refuses and fails, cancels, clears and purges at any await, turns and restarts: no request is made twice, one item is at work, a running one is followed, and a waiting one is settled unless an item was left behind. |
| `TaskRecovery` (MCTaskRecovery) | `TypeOK`, `WorkDoneOnce`, `SettledStays`, `RecoveredRunEnds` | A task with a key and a task of an external runtime, a crash at any await or between the writes of an answer, and a POST /resume at any time, also beside the run: no work is done twice, what is settled stays, and the run ends, is interrupted, or is left to an external job. |
| `SchedulerShutdown` (MCPlanScheduler, violation) | `ShutdownSparesJobs` | A runtime shutdown while a job is polled: the dispatcher cancels the agent's job, against its own comment. |
| `SchedulerRetryLost` (MCPlanScheduler, violation) | `OkMeansDone` | A retried task takes the status of its previous attempt's activity: the run returns ok with a task that failed. |
| `MaintenanceCredit` (MCMaintenanceActions, violation) | `UnknownKeepsCredit` | A second call for a curation whose dispatch has no receipt yet: the unit of the job that runs is given back. |
| `ControlStopped` (MCControlLane, violation) | `StoppedStaysStopped` | A recovery watches the activities of a run; the run is stopped, or ends, before they do: the callback starts it again. |

### Bounds

Three or four tasks are what the properties need. `SchedulerSpend` has a writer, its
dependent and a writer of the whole workspace. `SchedulerGroup` has two members of a
group, the task behind its barrier, and a task one of the members adds to the plan, which
can be ready beside the other member and writes the same page: this is where
`ExclusiveWork` is checked, and a registry that grants a request by halves (the mutant)
breaks its first conjunct there. `Limit` is 2, so one task of three waits for a place.
`MaxStarts` is the number of attempts the retry policies of the instance allow, and never
cuts a behaviour short (`StartsBounded` is checked without help from it in the mutant that
retries once more). `MaxRevision` is the number of expansions the instance can make. An
outsider claims its lock once: a second claim would add no order of claim and start that
the first does not have. `Faults` names the calls that may fail in a run; each fault is in
at least one run. `SchedulerSpend` has failing calls and timeouts beside budgets and an
abort, `SchedulerGroup` only a planner that may fail (`"planner"`), for its properties are
about agents that answer. The two maintenance runs share the work: `MaintenanceUser` has
two tickets, which is what a race of two calls needs, the user, whom liveness is about,
failing jobs and a process that dies between an outcome and its settlement (`"settle"`),
and neither retries nor Stops; `MaintenanceCuration` has those, the external runtime, one
ticket beside the scan and the Stop, and no user. There the action of the MCP agent has
one retry, `Once` says that the curation has none. That a maintenance is resumed while its
Stop still waits (`"resume"`), a settlement cut short beside a Stop, and two tickets
beside a Stop are in no run (the first was explored once, with no error, and is too large
for a check that is repeated); the theorems hold with them. `MaxJobs` is 1: a second job
of one attempt would need a dispatch without a receipt to be repeated, which `Uncertain`
refuses in an external runtime and the key in an agent of MCP.

`ControlLane` has a chain of two, whose second item needs an approval, and a delegation
beside it: two runs are what a race for the lane needs. Each request is made once, and
there is one restart, one kill, one cancel beside no run and one recovery at a time; a
second of these would start from states the first one leaves. `ProductionQueue` has two
requests, since a third waits like the second, and one job of another client; restarts,
purges and turns are not bounded. `TaskRecovery` has a task with a key and a task of an
external runtime that also has one, which its agent does not know; a task without a key
differs from the second only in being polled and not cancelled, and is in the theorems. One
restart and one resume give two recoveries, the second of which may find the attempts of
two starts, with a run at work or not.

### Fairness

`WF(LoopStep)` and `WF(WorkerStep(t))` say that the event loop runs a coroutine that can
run, and that the promise of an MCP call settles (every call has a timeout). Another run
gives its lock back; that step can be disabled for the length of a synchronous turn, so
its fairness is strong. Nothing is assumed of the human, an abort or a fault.
`AgentFairness` (an agent answers and ends its jobs) is assumed in `SchedulerGroup` only,
where the property is about plans whose agents work; an abort ends a run
(`AbortEndsRun`) without it.

For maintenance, `WF(TicketStep(d))`: a ticket that can move moves, its calls and its
ceilings pass (`CANCEL_CONFIRM_MS` and `ACTION_CEILING_MINUTES` bound every wait for a
job). A waiting task of the user looks every 100 ms, so a look that finds the way free
comes if it is free again and again: `SF`. Nothing is assumed of an agent's job, nor of
the end of the user's own tasks.

For the production queue: its timer and the supervisor's polls run, a call is answered or
refused, and the agent ends its jobs. A request is sent again after each refusal, so its
acceptance, and the application of a poll that a failure may undo, need strong fairness.
Turns, cancels and restarts are never assumed to come, nor to stop: the liveness property
says what is left when they forget an item.

For recovery: coroutines go on, an agent ends its jobs and answers a poll or a question of
the recovery, and a recovery goes through its list. That a stopped manager is started
again, that a user resumes, or that a call fails is not assumed.

## 4. What is proved

All proofs hold for every set of tasks, every dependency relation, limit, budget, retry
policy, set of faults and number of other claims, under `SchedulerAssumption` and
`RegistryAssumption` (types of the constants, distinct ranks, and that other claims are
not this run's attempts); `SoundPlansNeverStall` alone adds hypotheses on the plan, stated
below under *Stalls*. Those of maintenance need `ActionsAssumption` only: types, a limit
in `Nat`, that what takes an admission is no external runtime (`policy.js:58-68`, only
`agent.curate` is external and it has no scopes) and claims at least one resource
(`admission.js:21` puts `["*"]` for none). Those of the admission need nothing. Those of
the lane need that an item is in one batch, once (`BatchesAreApart`, `RequestsAreRuns`);
those of the production queue hold for every set of requests, and those of recovery, under
`RecoveryAssumption`, for every choice of keyed and external tasks and any number of
restarts and resumes.

| Theorem | States | In words |
|---|---|---|
| `LockRegistryProofs!TypeCorrect` | `TypeOK` | The registry's state has its type, for any runs, handles and locks. |
| `LockRegistryProofs!ExclusionHolds` | `Exclusive` | No lock is held by two live handles, for any set of runs and any overlap of what they want. |
| `LockRegistryProofs!NothingLeaksOrVanishes` | `RegistryIsLiveHandles` | The registry holds exactly the locks of the live handles: late and repeated releases neither leak a lock nor free another's. |
| `LockRegistryProofs!OwnersAreRight` | `OwnersNameHolders` | The owner the registry names for a lock is the run that holds it, so a run can tell a foreign lock from its own. |
| `LockRegistryProofs!RegistryImplementsLocks` | `ImplementsExclusiveLocks` | Every step of the registry is a step of the atomic lock table or leaves it alone. |
| `PlanSchedulerProofs!TypeCorrect` | `TypeOK` | The scheduler's state has its type for every plan, budget and set of faults. |
| `PlanSchedulerProofs!SchedulerImplementsRegistry` | refinement | Every step of the scheduler, its tasks and the other runs is a step of the lock registry or leaves it alone: what is proved of the registry holds inside the scheduler. |
| `PlanSchedulerProofs!WorkIsExclusive` | `ExclusiveWork` | Two tasks that write the same resource are never both with an agent, and what is written is locked under this run's name, for every plan and limit. |
| `PlanSchedulerProofs!RunsLeaveNothing` | `NothingLeftBehind` | A run that ended by itself or by a cancellation has no task at work and holds no lock, for every plan. |
| `PlanSchedulerProofs!RetriesAreBounded` | `StartsBounded` | No task is started more often than its retry policy allows, for every policy and every interleaving of polls, results and retries. |
| `MaintenanceAdmissionProofs!AdmissionsApart` | invariant of the module | The admission by itself, for every set of requests and scopes: maintenance never holds beside anything it conflicts with. |
| `MaintenanceActionsProofs!ActionsImplementAdmission` | refinement | Every step of a ticket, a user's task, a Stop or a crash is one step of the admission or leaves it alone. |
| `MaintenanceActionsProofs!AdmissionsStayApart` | `AdmittedApart` | Maintenance is never admitted beside anything it conflicts with, for every set of tickets, users and scopes. |
| `MaintenanceActionsProofs!UsersGoFirst` | `UserGoesFirst` | Maintenance is never admitted while a task of the user that conflicts with it waits. |
| `MaintenanceActionsProofs!UnitsBounded` | `BudgetHolds` | The units reserved and consumed never pass the day's limit, for every set of candidates, concurrent calls, retries and faults. |
| `MaintenanceActionsProofs!SettlementsLast` | `SettledOnce` | No scan, ticket, Stop or crash takes a consumed unit back or spends a released one. |
| `ControlLaneProofs!TypeCorrect` | `TypeOK` | The lane's state has its type, for every set of requests, chains and restarts. |
| `ControlLaneProofs!OneRunIsActive` | `OneActiveRun` | At most one run is at work and it is the one a stop aborts, whoever started it: a request, the queue, a recovery or a callback. |
| `ControlLaneProofs!ChainsRunInOrder` | `ChainOrder` | For every set of chains of any length and any marks, no item runs before the items ahead of it are over, and those that are not optional did well. |
| `ControlLaneProofs!RunningItemsAreLive` | `RunningItemIsLive` | Until a restart, an item shown as running has its run at work, for every queue. |
| `ProductionQueueProofs!QueueTypeCorrect` | `TypeOK` | The queue's state has its type, for every set of requests. |
| `ProductionQueueProofs!RequestsAreMadeOnce` | `RequestedOnce` | For every number of requests, none that the agent did not refuse is put to it again, whatever is cancelled, lost or restarted. |
| `ProductionQueueProofs!QueueWorksAtOneItem` | `OneItemAtWork` | For every number of requests and jobs of other clients, two items that the user left alone are never at work together, unless one was left without its call or its activity. |
| `ProductionQueueProofs!RunningItemsAreFollowed` | `RunningIsFollowed` | A running item has its activity until a turn, a status read by a turn or a restart leaves it behind. |
| `TaskRecoveryProofs!RecoveryTypeCorrect` | `TypeOK` | The state has its type and every attempt, activity, worker and recovery names a job its agent has, for every set of tasks and any number of restarts. |
| `TaskRecoveryProofs!RecoveryWorksOnce` | `WorkDoneOnce` | For every set of tasks, with keys or not, any number of restarts and of recoveries a user asks for, beside a run or not: no task has two jobs at work or done, and one without a known key is sent once. |
| `TaskRecoveryProofs!RecoverySettlesOnce` | `SettledStays` | A task's settled row is written by nobody else, as long as no recovery was beside a run at work. |
| `MaintenanceJobsProofs!TypesCorrect` | `TypeOK` | Rows, jobs, tickets, the Stop and the admission keep their types; that a ticket at work has a reservation is part of why. |
| `MaintenanceJobsProofs!WorkStaysApart` | `WorkApart` | For every set of candidates, tickets, users and scopes: maintenance at work shares no resource with a user's task or another ticket at work. |
| `MaintenanceJobsProofs!WorkIsBacked` | invariant of the module | A ticket at work has a row that was dispatched, that names the job it follows, and that is not released under it, but for an unscoped candidate already closed that day and for an attempt that a scan or a Stop gave back by the copy of the row it had read before the dispatch. |
| `MaintenanceJobsProofs!RowsTellEffects` | invariant of the module | What a row of an agent that knows keys says of its job is so: a receipt names a job that exists, a consumed row's job has ended, an attempt has one job. |
| `MaintenanceJobsProofs!FollowedStaysHeld` | `FollowedIsHeld` | A job that writes the workspace and that a ticket follows keeps its unit of the day, for any number of tickets, retries, Stops, scans and crashes; the one exception is the row a walk takes for unsent by its old copy (service.js:498, 654). |
| `MaintenanceJobsProofs!AttemptsInSeries` | invariant of the module | The attempts of a candidate that nobody asks to yield, and no row of which a walk gave back by an old copy, follow one another: there is a next one only when the one before is consumed. |
| `MaintenanceJobsProofs!OneJobRuns` | `OneJobAtATime` | A candidate of an agent that knows keys, of which nobody asks a call to yield and no row of which a walk gave back by an old copy, has at most one job running, for any number of retries, concurrent calls, scans and Stops. |
| `PlanSchedulerProofs!FinishedKeepDeps` | `FinishedTasksKeepTheirDeps` | For every plan and every moment an expansion may come back: the dependencies of a task that finished are rewritten by none. |
| `PlanSchedulerProofs!SkipsHaveACause` | `SkippedForCause` | For every dependency relation, retry policy and interleaving: a task skipped by the run waits for one that ended without success, or for a chain of such, whatever that one may have retried before. |
| `PlanSchedulerProofs!SpendingIsBounded` | `BudgetBoundsWork` | For every budget, limit and batch of ready tasks: the requests sent to agents never pass what the budget has counted, whatever fails or is retried. |
| `PlanSchedulerProofs!CancelsReachJobs` | `CancelReachesJobs` | After a cancelled run every job the manager knew and watched was told to stop or had ended, for every set of tasks and every moment the abort may land in. |
| `ControlLaneProofs!WorkIsApproved` | `NoWorkUnapproved` | For any requests, restarts, kills, resumes and callbacks: a run that asks for an approval works only once it was given. |
| `ControlLaneProofs!FreeLaneIsDrained` | `IdleMeansDrained` | For any requests, chains and marks: a lane without a run leaves no request in the queue, until a recovered run was started; one pass of the skips per drain is enough. |
| `PlanSchedulerProofs!SoundPlansNeverStall` | `NeverStalled` | For every plan whose tasks wait for lesser depths, whatever it is expanded by, and tasks that are not retried: at every turn the loop finds a task to start, a reason to wait, or a task to skip, for any locks, approvals, limits, budgets and faults. |

*The registry.* `TypeOK /\ RegistryInv` is inductive: exclusion alone is not, because a
release removes *names* from a set; that it never removes another handle's needs the set
to be exactly the union of the live handles' locks, and `canAcquire` to look at that set.
The refinement follows from the same invariant.

*The scheduler implements the registry* step by step: each action makes at most one call
of `Reserve`, `Release` or `Clear`, or leaves the registry's variables alone. This carries
`RegistryInv` into the scheduler without a proof for each action.

*Exclusive work.* `WorkInv` adds to `RegistryInv`: a task at work holds its attempt's
handle (`WorkHoldsLocks`); a held handle of this run is a task's current attempt at work,
unless the budget ended the run (`HeldByWork`); a run that ended otherwise has no task in
its active map (`EndsClean`). Two tasks at work then hold two live handles, and
`Exclusive` keeps what they write apart. `HeldByWork` is what makes the drain enough for
`NothingLeftBehind`.

*Retries.* Starts and the attempts of the retry state are counted in different places.
The invariant relates them: a settled worker leaves a terminal status, no attempt number
passes the policy, starts never pass attempts, and where a task could be started again
(pending, no worker) starts is below attempts. The delicate case is a poll of an old
activity on a pending task: it can end the task or show it as running, and neither makes
it startable.

*Dependencies of finished tasks.* Every step that rewrites a dependency is an integration,
and its guard (`firstTerminalMutation`) is evaluated in the same synchronous turn.

*Skips.* `Impossible` is the least set closed under depending on a failure, so each of its
members has a cause that failed or is in it (`ImpossibleHasCause`). That the cause is
unsuccessful is not inductive: a failed task whose coroutine the loop has not taken may be
retried. `SkipInv` says the cause is over (no coroutine either), and skips happen only when
no task is active. Nor may an expansion take the cause away: the theorem rests on
`DepsOfFinished` as well, a skipped task being a finished one.

*The budget.* `BudgetBoundsWork` counts requests, the code counts starts. `Sent` is the
requests out together with the coroutines about to send one; each is charged once, and a
turn that starts too many throws before the one beyond the budget has a coroutine.

*Cancellation.* `CancelReachesJobs` speaks of the end of a cancelled run, `CancelInv` of
every state: a job with an activity belongs to an attempt whose call was accepted
(`ShownJobs`), a coroutine in its cancel has asked for it, and a cancelled task's job was told
to stop, is not running, or was never seen (`Told`).

*Stalls.* `SoundPlansNeverStall` has two hypotheses. `PlanIsSound`: there is a depth such that
tasks wait only for lesser depths, fragments fit between the task that asks for them and
what comes after it, and an awaited group has a member from the start. `SquadIsSound` in
`MCPlanScheduler` gives the plan of `SchedulerGroup` a depth, so the hypothesis is not empty;
a cyclic plan does stall. `NoRetries`: see section 6, a retried task can stall a plan. Three
facts are kept: expansions keep the shape (`PlanShape`: an integration rewires what waits for
the expanded task, and none of those is below it), no task is shown as running that nobody
works on (`RunningIsWorked`, which is where a retry breaks it: the activity of the earlier
attempt), and, once nobody works, no lock is this run's (`IdleHoldsNothing`, from the proof of
`NothingLeftBehind`). Then a pending task of least depth has all it waits for ended; it is not
impossible, not unapproved and not behind another's lock, so it is ready.

*The admission.* A look compares the request with every holder, and only a look admits:
`AdmittedApart` is inductive with the type. It does not need `Priority`, which is what
`UserGoesFirst` needs. `ActionsImplementAdmission` carries both to `MaintenanceActions`; it
needs that a ticket waits for a request it may make (`TicketsInv`).

*The units of a day.* `EveryStep` says that a step moves reserved rows to a settled status
or takes one unit within the budget; the limit and the finality of settlements both follow.
It needs of the state only that the rows are rows: no ticket is trusted to know its row.

*Tickets, rows and jobs.* Five invariants, each resting on the ones before. `CoverInv`: a
ticket of a scoped candidate at work holds its request in the admission. Two such tickets
of one candidate conflict with each other, since a scope is never empty, so a scoped
candidate has one ticket at work (`WorkStaysApart` is the same fact beside users). `WorkInv`:
therefore no other ticket settles its row as released, and every ticket at work has a row
that was dispatched and, when it follows a job, names it. A scan or a Stop may still give the
row back, if its copy is older than the dispatch: such an attempt is in `overtaken`, and stays
there. `RestTyped` completes the type. `EffectInv`, of agents that know keys: an attempt has
one job; a receipt names a job that exists; an attempt never reserved has none; a consumed one
has ended; what a walk holds of a row names no other job. `FollowedIsHeld` follows. `SeriesInv`
is about the candidates that nobody asks to yield and no attempt of which was overtaken: their
attempts follow one another, that is, there is a next one only when the one before is
consumed, so all jobs but the last attempt's have ended, which is `OneJobRuns`. It needs that
what a walk still holds of such a candidate is a row in force with its receipt, since a Stop
writes `cancelled` on it without another look, and that is what makes a next attempt. Ticket,
scan and Stop settle a row in different ways and each disturbs it differently: this is the
largest part of the module.

*The lane.* `OneRunIsActive` needs beside its claim that the `running` flag stands whenever
a coroutine is live and that the controller is that coroutine's: `OneActiveRun` says both,
and is inductive with the type. `ChainsRunInOrder` is inductive alone: every action that
changes items either settles some, or starts a runnable one, or marks queued ones skipped,
and `DrainOrder` does this once for all of them. `RunningItemsAreLive` uses it.

*Approvals of the lane.* `WorkIsApproved` is about runs that are started more than once, by a
restart, a resume or a late callback: who is at work must have worked before or been granted
its request. Hence: a run that did not start has no row (`Fresh`); while an activity is polled
nobody awaits an approval (`NoneAsks`); a run that ended before it worked, its request refused
or lost, is shown as running only to a recovery that has still to look at it (`ClosedIsSeen`);
and the run whose activities are watched, which is the one started again, did work (`Watched`).

*The queue is drained.* `FreeLaneIsDrained`: a queued item is in the queue (`Queued`), and its
predecessors wait, are over, or are at work (`Awaits`). When the lane is free nobody is at
work. Of the items a drain would leave, the first of its batch has no predecessor left; the
predecessors of a predecessor are its own, so one pass of the skips settles it or it may be
started (`NothingReady`). Positions are natural numbers, hence a first one (`LeastPosition`).

*The production queue.* `IInv` adds to the type `Progress`, which ties the number of asks to
the item, the call and the agent's job (a request asked for once is not one that can be
asked for again), and `AtWork`, which ties what a poll has read to the job and the item (a
poll that read an end belongs to an item that was not started since). `RequestedOnce`
follows from the first, the other two claims need both.

*Recovery.* `RecoveryWorksOnce` needs two things. For a task whose agent knows no key, that
the plan never goes back to pending: only `Launch` needs pending, only `Recover` puts it
back, and a frame of an activity never does (`ProjectedPlan`); so there is no job before the
one `agent_execute`. For the others, that every job but the last failed (`LastJobCounts`):
the agent's part. `RecoverySettlesOnce` needs that a worker stands on a running row, that
the rows a recovery listed are running, and that both are not true at once (`Apart`); this
is where a recovery beside a run breaks it.

What `ExclusiveWork` does not say: it is the manager's view. After a call that failed in
transport or timed out, the locks are given back and the agent's job may go on.

Model-checked only: the five liveness properties (`UserIsServed`, `AbortEndsRun`,
`EndsOrAwaitsHuman`, `QueueMovesUnlessForgotten`, `RecoveredRunEnds`; fairness is out of the
prover's reach), and `NeverStalled` of the plans `SoundPlansNeverStall` does not speak of.

## 5. Where the code and its own words disagree

1. `ShutdownSparesJobs` (run `SchedulerShutdown`), `src/src/runtime/runner.js:1058`. runtimeShuttingDown reads signal.reason, but the signal the dispatcher is given is the task's own controller, which the runner aborts without a reason (`abortTask`), so the reason `runtime_shutdown` is lost and agent_cancel is called for every watched job. src/src/orchestrator/dispatcher.js:18-26 says of a shutdown: "it must just not tell the agent to give up on real work", and src/tests/orchestrator/dispatcher.test.js:335 tests the dispatcher alone with a signal that carries the reason.
2. `OkMeansDone` (run `SchedulerRetryLost`), `src/src/core/plan.js:94`. syncActivitiesToPlan gives a pending (retried) step the status of the activities that match it, whichever attempt they belong to: the failed activity of the first attempt marks the retried task failed without it being started, its dependents are skipped, and the run returns ok because `failures` only holds what scheduleRetry refused. src/src/core/agentEvents.js:1246-1252 tells of the same outcome as a defect that was removed: "the run summary counted a success that never happened".
3. `UnknownKeepsCredit` (run `MaintenanceCredit`), `src/src/maintenance/service.js:434`. A call of runCandidate that finds its reservation dispatched to an external runtime without a receipt throws maintenance_dispatch_uncertain; its catch sees reserved and not started and settles the row as released, although an earlier call started the job. src/src/maintenance/service.js:491-493 says "An unknown effect retains its credit and blocks new starts", and src/docs/agentic-runtime.md:445-447 "jobs still running or effects without a known receipt retain capacity". reconcile then no longer sees the row. The same line gives back the unit of an agent that knows keys when a call is preempted before its dispatch (see README, Seen on the way).
4. `StoppedStaysStopped` (run `ControlStopped`), `src/src/cli/wiki-manager.js:1381`. recoverWorkspace leaves a callback that starts the watched run once the session's activities have ended. Nothing removes it when the run is stopped meanwhile (/cancel, /kill) and it reads neither the run's row nor who asked: the run is at work again, with a row that says interrupted. src/src/runtime/server.js:990-994 says of these runs "No run executes in this process, yet the workspace may still own one: re-attached at boot, or left behind by a turn. [...] Stop those".

## 6. What is not modelled, and the plan

Out of scope: transport, Docker and configuration, the text of models and prompts, the
shell, displays, login. They hold no state that another component's control reads, or
their branches are decided by text.

Planned, in order:

1. The rest of the maintenance service: decisions, the second credit of a build, the cycle
   and its model calls, what a Stop does to them, and outcomes beside units.
2. `ApprovalManager`: requests with deadlines, restoration, a late answer; it replaces the
   run-wide grants of `PlanScheduler` where they are compared.
3. `ProactiveReviews`: slots, cooldowns and the version of a signal that is queued.
4. `AgentJob`: the external-runtime path of the dispatcher, with its second approval.
5. `PlanPatch` and the algorithms over plans: `describePlanConcurrency`, `sanitizePlan`,
   `approvalCovered`, against reference definitions.
6. The composition of `ControlLane`, `TaskRecovery` and `PlanScheduler`, each of which takes
   the others as choices of its environment; `AbortEndsRun` and `EndsOrAwaitsHuman` have
   then to be checked with the lane around the scheduler.

### Seen on the way

Behaviour met while the code was read or a model explored, which no run states:

- A queued request stays queued when a recovered run ends: the `finally` of
  `startRecoveredAgenticRun` (`cli/wiki-manager.js:1303`) does not drain the control queue,
  while `docs/technical-reference.md:304-307` says a queued request starts as soon as the
  workspace is idle. `IdleMeansDrained` excepts it.
- `POST /resume` (`server.js:1344`) does not look whether a run is at work. Beside one it may
  interrupt that run's row, put a task at work back to pending, or accept its result a second
  time. `SettledStays` excepts it; `WorkDoneOnce` holds all the same.
- A keyed task that was put back while its activity is polled is projected done by the poll,
  and its result is never accepted: no output references, no fact of
  `docs/agentic-runtime.md:297`.
- A run whose only activity is that of an external job is neither resumed nor interrupted
  after a restart (`LeftToExternal`): its row stays running, with nobody at work, against
  the comment at `recoveryManager.js:40-45`.
- Attempts are numbered anew at each start, and the upsert at `store.js:566-578` keeps the
  old time and job of a number: recovery may read a job of an earlier start.
- The result recovery hands to the aggregator (`recoveryManager.js:178-298`) has no
  `planExpansionRequest`.
- A reservation is lost when the plan changes under `scheduler.js:112`; a projection is
  written before `accept` (`plan.js:71`).
- A scan and a Stop decide by an old copy of a row whether it was sent (`service.js:498`,
  `654`), and wait for other jobs after they made it. A row that a crash left reserved and
  not dispatched can be dispatched during such a wait, by a cycle of the gateway that outlived
  the restart and goes on calling the bridge; the walk then gives its unit back while the
  job runs, against `service.js:491-493` ("An unknown effect retains its credit and blocks new
  starts"). Met twice, it goes further: when a Stop that still holds the released first
  attempt marks it cancelled, and the retry is released in the same way while its job runs, the
  candidate is back at its first key, whose job was cancelled; that completes the row as
  cancelled, and the next retry has a new key while the job of the last one still runs. TLC
  finds both when `FollowedIsHeld` and `OneJobAtATime` do not except `overtaken` (in 16 steps;
  in 42, with Stops, `Limit` 4 and `MaxRetries` 2).
- A call that is asked to yield before its dispatch gives its unit back (`service.js:434`),
  also when the row is that of a job an earlier call started and whose receipt was lost.
  Another call may then start a second attempt, with a key of its own, while that job runs:
  `OneJobAtATime` broken with a user and two retries, against `service.js:358-359` and
  `:491-493`. It speaks of `Calm` candidates, which nobody asks to yield; a proof
  that failed led here.
- A retried task may stall its plan. A poll, or the activity of any other task, projects the
  activities of earlier attempts too (`matched.status = 'running'` by `core/plan.js:94`), and
  one whose `agent_status` was read by the dispatcher alone is still live. A retried task that
  waits behind another run's lock is then shown as running, nobody works on it, and what
  depends on it is neither ready nor impossible. With `MaxAttempts` 2 for the squad's q and an
  outsider on its page, TLC finds `NeverStalled` violated; without a retry no fault does it.
- The production queue stops when `run_started`, `run_error`, a status call or a restart
  leaves an item unfollowed, and a cancelled item that was starting is set to work
  (`jobQueue.js:219-223`, against `docs/technical-reference.md:970-972`).
- The undo of a proactive review does not restore `lastFiredAt`; `insertBefore` of two
  targets that depend on each other makes a cycle; the plan `sanitizeSessionPlanForExecution`
  cleans is replaced at once (`agentEvents.js:306`), so a cycle is logged as broken and stays.
