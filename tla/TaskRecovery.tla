---------------------------- MODULE TaskRecovery ----------------------------
(***************************************************************************)
(* The tasks of one run across crashes of the manager: what the store has  *)
(* of them, what the agents went on doing meanwhile, and what the next     *)
(* start makes of both.                                                    *)
(* (src/src/runtime/recoveryManager.js, recoverWorkspace in                *)
(* src/src/cli/wiki-manager.js, the tables of src/src/runtime/store.js)    *)
(*                                                                         *)
(* Every event is written as it happens: the plan, the activities and the  *)
(* rows come back as they were, the coroutines do not.  The agents' jobs   *)
(* know nothing of the manager.  A recovery goes through the active tasks  *)
(* one call at a time, with the supervisor's polls beside it.  It may also *)
(* be asked for by a user (POST /resume), then beside a run at work.       *)
(*                                                                         *)
(* Left out: the order, locks, approvals and retries of tasks (module      *)
(* PlanScheduler); other runs, stops, and the lane (module ControlLane);   *)
(* the turns of a model and the objective supervision of a resumed run.    *)
(*                                                                         *)
(* Bounds: MaxBoots restarts, MaxResumes requests of a user.               *)
(***************************************************************************)
EXTENDS TaskStatuses, Integers, Sequences, FiniteSets

CONSTANTS
    Tasks,      \* the tasks of the plan
    Keyed,      \* those with an idempotencyKey
    External,   \* those of an external runtime, which knows no keys
    NoTask,     \* no task
    MaxBoots,   \* bound: restarts
    MaxResumes  \* bound: recoveries a user asks for

ASSUME RecoveryAssumption ==
    /\ Keyed \subseteq Tasks /\ External \subseteq Tasks
    /\ NoTask \notin Tasks
    /\ MaxBoots \in Nat /\ MaxResumes \in Nat

VARIABLES
    run,        \* the run's row
    plan,       \* status of the task in the plan
    row,        \* status of the task's row
    started,    \* its attempts with a start or an end, oldest first: number and job
    unstarted,  \* numbers of its attempts that have only been assigned
    live,       \* the activities of jobs that are not over, as <<task, job>>
    shown,      \* status of the first activity of the task that ended
    up,         \* the manager runs
    loop,       \* the scheduler of the run is at work
    watch,      \* the run is to be resumed when the activities have ended
    worker,     \* the coroutine of the task
    attempt,    \* its attempt
    held,       \* the job it was given, 0 before
    next,       \* nextAttempt of the run's attempt manager
    rec,        \* the recovery
    jobs,       \* the agent's jobs of the task
    boots, resumes, \* restarts and requests so far
    beside      \* history: a recovery and a run were at work together

storeVars == <<run, plan, row, started, unstarted, live, shown>>
workVars == <<worker, attempt, held, next>>
countVars == <<boots, resumes, beside>>
vars == <<storeVars, up, loop, watch, workVars, rec, jobs, countVars>>

RunStatus == {"running", "ended", "interrupted"}
TaskStatus == {"pending", "running", "done", "failed", "cancelled"}
JobStatus == {"running", "done", "failed", "cancelled"}
WorkerStates == {"none", "launched", "assigned", "sent", "following"}

(* ACTIVE_TASK_STATUSES, of the statuses a row takes. *)
Active == {"running"}

(* A recovery that has not begun, the tasks it has still to look at, the
   answer it got for one of them, and what it has come to. *)
Off == [stage |-> "off", todo |-> {}, asked |-> NoTask, job |-> 0,
        answer |-> "none", progressed |-> FALSE, failed |-> FALSE]

Init ==
    /\ run = "running"
    /\ plan = [t \in Tasks |-> "pending"] /\ row = plan
    /\ started = [t \in Tasks |-> <<>>]
    /\ unstarted = [t \in Tasks |-> {}]
    /\ live = {} /\ shown = [t \in Tasks |-> "none"]
    /\ up = TRUE /\ loop = TRUE /\ watch = FALSE
    /\ worker = [t \in Tasks |-> "none"]
    /\ attempt = [t \in Tasks |-> 0] /\ held = [t \in Tasks |-> 0] /\ next = 0
    /\ rec = Off
    /\ jobs = [t \in Tasks |-> <<>>]
    /\ boots = 0 /\ resumes = 0 /\ beside = FALSE

-----------------------------------------------------------------------------
(* The plan and the rows.                                                  *)

(* Mutant: a cancelled job is shown as cancelled.                          *)
FrameRaw(status) == status

(* How the plan shows the status of a job. *)
Frame(status) == IF status \in UnsuccessfulStatuses THEN "failed" ELSE status

(* A frame of an activity of t with this status: it moves t, then every
   activity moves its task, the oldest frame first; a task that is over
   stays. *)
Projected(t, status, sh, lv) ==
    LET moved == IF plan[t] \in TerminalStatuses THEN plan ELSE [plan EXCEPT ![t] = Frame(status)]
    IN  [u \in Tasks |->
            IF moved[u] \in TerminalStatuses THEN moved[u]
            ELSE IF sh[u] # "none" THEN sh[u]
            ELSE IF \E a \in lv : a[1] = u THEN "running"
            ELSE moved[u]]

(* plan_step_updated *)
Stepped(t, status) ==
    /\ plan' = [plan EXCEPT ![t] = status]
    /\ row' = [row EXCEPT ![t] = status]

(* The activity of job j of t has ended with this status. *)
Ended(t, j, status) ==
    /\ live' = live \ {<<t, j>>}
    /\ shown' = [shown EXCEPT ![t] = IF @ = "none" THEN Frame(status) ELSE @]

(* The attempt of this number has a start or an end. *)
Numbered(t, n) == \E k \in DOMAIN started[t] : started[t][k].number = n

(* task.started: the attempt's row gets the job, and keeps the start it may
   have from an attempt of the same number before a restart. *)
WithJob(t, n, j) ==
    IF Numbered(t, n)
    THEN [started EXCEPT ![t] = [k \in DOMAIN started[t] |->
            IF started[t][k].number = n THEN [number |-> n, job |-> j] ELSE started[t][k]]]
    ELSE [started EXCEPT ![t] = Append(@, [number |-> n, job |-> j])]

(* latestAttempt and its job: an attempt with neither time sorts first. *)
LatestJob(t) ==
    IF unstarted[t] # {} \/ started[t] = <<>> THEN 0
    ELSE started[t][Len(started[t])].job

-----------------------------------------------------------------------------
(* The scheduler and its workers.                                          *)

(* startReadyTasks, for one task. *)
Launch(t) ==
    /\ loop /\ plan[t] = "pending" /\ worker[t] = "none"
    /\ next' = next + 1
    /\ worker' = [worker EXCEPT ![t] = "launched"]
    /\ attempt' = [attempt EXCEPT ![t] = next']
    /\ Stepped(t, "running")
    /\ UNCHANGED <<run, started, unstarted, live, shown, up, loop, watch, held, rec, jobs, countVars>>

(* task.assigned *)
Assign(t) ==
    /\ worker[t] = "launched"
    /\ worker' = [worker EXCEPT ![t] = "assigned"]
    /\ unstarted' =
            IF Numbered(t, attempt[t]) THEN unstarted
            ELSE [unstarted EXCEPT ![t] = @ \union {attempt[t]}]
    /\ UNCHANGED <<run, plan, row, started, live, shown, up, loop, watch, attempt, held,
                   next, rec, jobs, countVars>>

(* The agent takes the task: for a key it knows it names the job of that key,
   unless that failed and it tries again. *)
Execute(t) ==
    /\ worker[t] = "assigned"
    /\ worker' = [worker EXCEPT ![t] = "sent"]
    /\ LET last == Len(jobs[t])
           known == last > 0 /\ t \in Keyed \ External
       IN  \/ /\ known
              /\ held' = [held EXCEPT ![t] = last] /\ UNCHANGED jobs
           \/ /\ known => jobs[t][last] \in UnsuccessfulStatuses
              /\ jobs' = [jobs EXCEPT ![t] = Append(@, "running")]
              /\ held' = [held EXCEPT ![t] = last + 1]
    /\ UNCHANGED <<storeVars, up, loop, watch, attempt, next, rec, countVars>>

(* task.started. *)
Recorded(t) ==
    /\ started' = WithJob(t, attempt[t], held[t])
    /\ unstarted' = [unstarted EXCEPT ![t] = @ \ {attempt[t]}]

(* The answer: the job is recorded, and followed as an activity. *)
Follow(t) ==
    /\ worker[t] = "sent"
    /\ worker' = [worker EXCEPT ![t] = "following"]
    /\ Recorded(t)
    /\ live' = live \union {<<t, held[t]>>}
    /\ plan' = Projected(t, "running", shown, live')
    /\ UNCHANGED <<run, row, shown, up, loop, watch, attempt, held, next, rec, jobs, countVars>>

(* No agent is found, or the call fails, before or after the agent took the
   task: the attempt gets an end, and no job. *)
CallFails(t) ==
    /\ worker[t] \in {"launched", "assigned", "sent"}
    /\ worker' = [worker EXCEPT ![t] = "none"]
    /\ started' = IF Numbered(t, attempt[t]) THEN started ELSE WithJob(t, attempt[t], 0)
    /\ unstarted' = [unstarted EXCEPT ![t] = @ \ {attempt[t]}]
    /\ Stepped(t, "failed")
    /\ UNCHANGED <<run, live, shown, up, loop, watch, attempt, held, next, rec, jobs, countVars>>

(* The worker reads the end of its job and hands it to the aggregator. The
   activity of an external job ends with it, that of another at a poll. *)
Accept(t) ==
    /\ worker[t] = "following" /\ jobs[t][held[t]] # "running"
    /\ worker' = [worker EXCEPT ![t] = "none"]
    /\ LET status == jobs[t][held[t]] IN
          /\ row' = [row EXCEPT ![t] = status]
          /\ IF t \in External
             THEN /\ Ended(t, held[t], status)
                  /\ plan' = [Projected(t, status, shown', live') EXCEPT ![t] = status]
             ELSE plan' = [plan EXCEPT ![t] = status] /\ UNCHANGED <<live, shown>>
    /\ UNCHANGED <<run, started, unstarted, up, loop, watch, attempt, held, next, rec, jobs, countVars>>

(* No task is pending and none at work: run_done or run_error. *)
LoopEnds ==
    /\ loop
    /\ \A t \in Tasks : plan[t] # "pending" /\ worker[t] = "none"
    /\ loop' = FALSE /\ run' = "ended"
    /\ UNCHANGED <<plan, row, started, unstarted, live, shown, up, watch, workVars, rec, jobs, countVars>>

-----------------------------------------------------------------------------
(* The agents, and the supervisor's polls.                                 *)

JobEnds(t, j) ==
    /\ j \in DOMAIN jobs[t] /\ jobs[t][j] = "running"
    /\ \E s \in {"done", "failed"} : jobs' = [jobs EXCEPT ![t][j] = s]
    /\ UNCHANGED <<storeVars, up, loop, watch, workVars, rec, countVars>>

Pollable(lv) == {a \in lv : a[1] \notin External}

(* startRecoveredAgenticRun: nothing when a run is at work. *)
Resumed == IF loop THEN UNCHANGED <<loop, next>> ELSE loop' = TRUE /\ next' = 0

(* Mutant: the callback is removed and not called.                         *)
WatchedQuiet(lv) == watch' = FALSE /\ UNCHANGED <<loop, next, beside>>

(* _onActivitiesTerminal, once no activity can be polled. *)
Watched(lv) ==
    IF watch /\ Pollable(lv) = {}
    THEN watch' = FALSE /\ Resumed /\ beside' = (beside \/ rec # Off)
    ELSE UNCHANGED <<watch, loop, next, beside>>

Poll(t, j) ==
    /\ up /\ <<t, j>> \in Pollable(live)
    /\ IF jobs[t][j] = "running"
       THEN /\ plan' = Projected(t, "running", shown, live)
            /\ UNCHANGED <<live, shown, loop, watch, next, beside>>
       ELSE /\ Ended(t, j, jobs[t][j])
            /\ plan' = Projected(t, jobs[t][j], shown', live')
            /\ Watched(live')
    /\ UNCHANGED <<run, row, started, unstarted, up, worker, attempt, held, rec, jobs, boots, resumes>>

-----------------------------------------------------------------------------
(* Crashes and recoveries.                                                 *)

(* The process stops at any await, or between the writes of an answer. *)
Crash ==
    /\ up /\ boots < MaxBoots
    /\ up' = FALSE /\ loop' = FALSE /\ watch' = FALSE
    /\ worker' = [t \in Tasks |-> "none"]
    /\ attempt' = [t \in Tasks |-> 0] /\ held' = [t \in Tasks |-> 0] /\ next' = 0
    /\ rec' = Off
    /\ \/ UNCHANGED <<started, unstarted>>
       \/ \E t \in Tasks : worker[t] = "sent" /\ Recorded(t)
    /\ boots' = boots + 1
    /\ UNCHANGED <<run, plan, row, live, shown, jobs, resumes, beside>>

Boot ==
    /\ ~up /\ up' = TRUE
    /\ rec' = [Off EXCEPT !.stage = "begin"]
    /\ UNCHANGED <<storeVars, loop, watch, workVars, jobs, countVars>>

(* POST /resume *)
Resume ==
    /\ up /\ rec = Off /\ resumes < MaxResumes
    /\ resumes' = resumes + 1
    /\ rec' = [Off EXCEPT !.stage = "begin"]
    /\ beside' = (beside \/ loop)
    /\ UNCHANGED <<storeVars, up, loop, watch, workVars, jobs, boots>>

Interrupted(r) == IF r = "running" THEN "interrupted" ELSE r

(* Mutant: the active tasks include the failed ones.                       *)
ActiveRowsFailed == {t \in Tasks : row[t] \in Active \union {"failed"}}

(* The active tasks of the run, if it has to be recovered. *)
ActiveRows == {t \in Tasks : row[t] \in Active}

(* An agent of an activity is out of reach: the run is interrupted. *)
Begin ==
    /\ rec.stage = "begin"
    /\ \/ /\ run = "running"
          /\ rec' = [rec EXCEPT !.stage = "tasks", !.todo = ActiveRows]
          /\ UNCHANGED run
       \/ run # "running" /\ rec' = [rec EXCEPT !.stage = "tasks"] /\ UNCHANGED run
       \/ Pollable(live) # {} /\ rec' = Off /\ run' = Interrupted(run)
    /\ UNCHANGED <<plan, row, started, unstarted, live, shown, up, loop, watch, workVars, jobs, countVars>>

ToDo(t) == rec.stage = "tasks" /\ rec.asked = NoTask /\ t \in rec.todo

(* No agent provides the capability of the task any more. *)
Unresolvable(t) ==
    /\ ToDo(t)
    /\ rec' = [rec EXCEPT !.todo = @ \ {t}]
    /\ Stepped(t, "failed")
    /\ UNCHANGED <<run, started, unstarted, live, shown, up, loop, watch, workVars, jobs, countVars>>

(* No job is known: the task is left as it is. *)
NoJob(t) ==
    /\ ToDo(t) /\ LatestJob(t) = 0
    /\ rec' = [rec EXCEPT !.todo = @ \ {t}]
    /\ UNCHANGED <<storeVars, up, loop, watch, workVars, jobs, countVars>>

(* agent_status, or the status of the external runtime. *)
Ask(t) ==
    /\ ToDo(t) /\ LatestJob(t) # 0
    /\ rec' = [rec EXCEPT !.asked = t, !.job = LatestJob(t), !.answer = jobs[t][LatestJob(t)]]
    /\ UNCHANGED <<storeVars, up, loop, watch, workVars, jobs, countVars>>

Answered == [rec EXCEPT !.todo = @ \ {rec.asked}, !.asked = NoTask, !.job = 0, !.answer = "none"]

(* The call of an agent of MCP throws, which fails the recovery.  The provider
   of an external runtime may throw and leave the task as it is; when its
   agent is in no snapshot yet the call takes the way of MCP, to a server that
   does not exist, and fails the recovery too. *)
AskFails ==
    /\ rec.asked # NoTask
    /\ \E fails \in BOOLEAN :
          /\ rec.asked \notin External => fails
          /\ rec' = [Answered EXCEPT !.failed = @ \/ fails]
    /\ UNCHANGED <<storeVars, up, loop, watch, workVars, jobs, countVars>>

(* Mutant: an external task too is put back when it has a key.             *)
RequeuesKeyed(t) == t \in Keyed

(* Whether a task whose job is at work is put back. *)
Requeues(t) == t \in Keyed \ External

(* recoverTask with the answer: the result of a job that is over goes to the
   aggregator; a task with a key is put back; an external job is cancelled,
   which may fail; any other task is left as it is. *)
Recover ==
    /\ rec.asked # NoTask
    /\ LET t == rec.asked IN
       CASE rec.answer # "running" ->
              /\ Stepped(t, rec.answer)
              /\ rec' = [Answered EXCEPT !.progressed = TRUE]
              /\ UNCHANGED jobs
         [] rec.answer = "running" /\ Requeues(t) ->
              /\ Stepped(t, "pending")
              /\ rec' = [Answered EXCEPT !.progressed = TRUE]
              /\ UNCHANGED jobs
         [] OTHER ->
              /\ rec' = Answered
              /\ \/ UNCHANGED jobs
                 \/ /\ t \in External /\ jobs[t][rec.job] = "running"
                    /\ jobs' = [jobs EXCEPT ![t][rec.job] = "cancelled"]
              /\ UNCHANGED <<plan, row>>
    /\ UNCHANGED <<run, started, unstarted, live, shown, up, loop, watch, workVars, countVars>>

(* The end of recoverActiveRuns and of recoverWorkspace: a run that did not
   progress is interrupted, one with nothing to wait for is resumed, one with
   activities to poll when they have ended. *)
RecoveryEnds ==
    /\ rec.stage = "tasks" /\ rec.todo = {} /\ rec.asked = NoTask
    /\ rec' = Off
    /\ run' = IF rec.progressed /\ ~rec.failed THEN run ELSE Interrupted(run)
    /\ IF run' = "running" /\ live = {}
       THEN Resumed /\ UNCHANGED watch
       ELSE /\ watch' = (watch \/ (run' = "running" /\ Pollable(live) # {}))
            /\ UNCHANGED <<loop, next>>
    /\ UNCHANGED <<plan, row, started, unstarted, live, shown, up, worker, attempt, held, jobs, countVars>>

-----------------------------------------------------------------------------
RunStep ==
    \/ LoopEnds
    \/ \E t \in Tasks : Launch(t) \/ Assign(t) \/ Execute(t) \/ Follow(t) \/ CallFails(t) \/ Accept(t)

AgentStep == \E t \in Tasks : \E j \in DOMAIN jobs[t] : JobEnds(t, j) \/ Poll(t, j)

RecoveryStep ==
    \/ Begin \/ AskFails \/ Recover \/ RecoveryEnds
    \/ \E t \in Tasks : Unresolvable(t) \/ NoJob(t) \/ Ask(t)

Next == RunStep \/ AgentStep \/ RecoveryStep \/ Crash \/ Boot \/ Resume

Spec == Init /\ [][Next]_vars

(* Coroutines go on, agents end their jobs, activities are polled. *)
Fairness ==
    /\ WF_vars(LoopEnds) /\ WF_vars(Recover) /\ WF_vars(Begin) /\ WF_vars(RecoveryEnds)
    /\ \A t \in Tasks :
          /\ WF_vars(Launch(t)) /\ WF_vars(Assign(t)) /\ WF_vars(Execute(t))
          /\ WF_vars(Follow(t)) /\ WF_vars(Accept(t))
          /\ WF_vars(NoJob(t)) /\ WF_vars(Ask(t))
          /\ WF_vars(\E j \in DOMAIN jobs[t] : JobEnds(t, j))
          /\ WF_vars(\E j \in DOMAIN jobs[t] : jobs[t][j] # "running" /\ Poll(t, j))

FairSpec == Spec /\ Fairness

-----------------------------------------------------------------------------
(* Properties.                                                             *)

(* Every variable has its type, and whatever names a job names one the agent
   has: an attempt, an activity, a worker, a recovery. *)
TypeOK ==
    /\ run \in RunStatus
    /\ plan \in [Tasks -> TaskStatus] /\ row \in [Tasks -> TaskStatus]
    /\ shown \in [Tasks -> {"none", "done", "failed"}]
    /\ started \in [Tasks -> Seq([number : Nat, job : Nat])]
    /\ unstarted \in [Tasks -> SUBSET Nat]
    /\ live \subseteq Tasks \X Nat
    /\ up \in BOOLEAN /\ loop \in BOOLEAN /\ watch \in BOOLEAN /\ beside \in BOOLEAN
    /\ worker \in [Tasks -> WorkerStates]
    /\ attempt \in [Tasks -> Nat] /\ held \in [Tasks -> Nat] /\ next \in Nat
    /\ jobs \in [Tasks -> Seq(JobStatus)]
    /\ rec \in [stage : {"off", "begin", "tasks"}, todo : SUBSET Tasks, asked : Tasks \union {NoTask},
                job : Nat, answer : JobStatus \union {"none"}, progressed : BOOLEAN, failed : BOOLEAN]
    /\ boots \in 0..MaxBoots /\ resumes \in 0..MaxResumes
    /\ \A t \in Tasks : \A k \in DOMAIN started[t] : started[t][k].job \in {0} \union DOMAIN jobs[t]
    /\ \A a \in live : a[2] \in DOMAIN jobs[a[1]]
    /\ \A t \in Tasks : worker[t] \in {"sent", "following"} => held[t] \in DOMAIN jobs[t]
    /\ rec.asked # NoTask =>
          /\ rec.stage = "tasks" /\ rec.asked \in rec.todo
          /\ rec.job \in DOMAIN jobs[rec.asked] /\ rec.answer \in JobStatus

(* However often the manager stops and comes back, and a user asks for the run
   again: the work of a task is not done twice.  A task without a key, or whose
   agent knows no keys, is given to an agent once; of the jobs of any other at
   most one is at work or done. *)
WorkDoneOnce ==
    \A t \in Tasks :
        /\ t \notin Keyed \ External => Len(jobs[t]) <= 1
        /\ \A j, k \in DOMAIN jobs[t] :
              jobs[t][j] \in {"running", "done"} /\ jobs[t][k] \in {"running", "done"} => j = k

(* The result of a task that is over stands: neither a restart nor an answer
   read by the recovery replaces it, as long as the run was not at work beside
   a recovery. *)
SettledStays ==
    [][\A t \in Tasks : row[t] \in TerminalStatuses /\ ~beside => row'[t] = row[t]]_vars

(* The run is at work nowhere: the activity of an external job is neither over
   nor polled, so that nothing resumes it. *)
LeftToExternal ==
    /\ up /\ rec = Off /\ ~loop /\ ~watch
    /\ live # {} /\ Pollable(live) = {}

(* A run that runs, and one found running by a start, ends or is interrupted,
   unless the manager stops first or the run is left to an external job: it
   never stays open with nobody to go on with it. *)
RecoveredRunEnds ==
    up /\ run = "running" ~> (run # "running" \/ ~up \/ LeftToExternal)
=============================================================================
