--------------------------- MODULE ProductionQueue ---------------------------
(***************************************************************************)
(* The queue of production jobs of one workspace: what becomes of a        *)
(* request while another job has the workspace.                            *)
(* (src/src/core/jobQueue.js, src/src/runtime/supervisor.js and the calls  *)
(* of production tools in src/src/agent/graph.js)                          *)
(*                                                                         *)
(* A turn of the agent asks for a job directly, or its request waits in    *)
(* the queue, from which a timer, or the poll that saw a job end, starts   *)
(* it. The agent of production has one job per workspace and refuses the   *)
(* others; calls to it are answered late or fail. The manager knows a job  *)
(* by its activity, and the queue by the id of the item's job.             *)
(*                                                                         *)
(* Left out: other workspaces' items, which are frozen, and the tasks of a *)
(* plan, whose jobs are for the queue those of another client (taken).     *)
(*                                                                         *)
(* A poll's question and the agent's answer are one step, which the        *)
(* manager acts on later; so are a cancellation of a running job and its   *)
(* answer, which finds the item running or over.                           *)
(*                                                                         *)
(* Bounds: each request is made once by a turn; MaxTaken jobs of other     *)
(* clients.                                                                *)
(***************************************************************************)
EXTENDS Integers, Sequences, FiniteSets

CONSTANTS
    Requests,   \* calls of production_start_job
    None,       \* no request
    MaxTaken    \* bound: jobs of other clients

ASSUME QueueAssumption == None \notin Requests /\ MaxTaken \in Nat

VARIABLES
    item,       \* status of the request's item in the queue
    queue,      \* the items in the order they were queued, those gone included
    bound,      \* items that have the id of their job
    call,       \* the call of production_start_job in flight
    job,        \* the agent's job of each request
    taken,      \* a job of another client has the workspace
    others,     \* such jobs so far
    live,       \* requests whose job is an activity of the session that is not over
    poll,       \* the poll of that activity, and what it read
    direct,     \* the request a turn awaits the answer of
    turn,       \* a turn or a run is at work
    asks,       \* history: calls made and not refused
    cancelled,  \* history: items the user cancelled
    forgot      \* history: an item was left without its call or its activity

queueVars == <<item, queue, bound>>
agentVars == <<job, taken, others>>
turnVars == <<direct, turn>>
histVars == <<asks, cancelled, forgot>>
vars == <<queueVars, call, agentVars, live, poll, turnVars, histVars>>

(* An item or a job is over when it is done, failed or cancelled: no decision
   tells them apart. An item that was removed from the queue is gone: its
   object may still be in the hands of the call that started it. *)
Absent == {"absent", "gone"}
ItemStatus == Absent \union {"waiting", "starting", "running", "over"}
JobStatus == {"none", "running", "over"}

(* A call is sent, then the agent has taken the job, is busy, or gives no
   job: an error, or an answer that is lost. *)
Answer == {"accepted", "refused", "failed"}

(* The live activities once the job of r was seen with this status. *)
Seen(r, status) == IF status = "over" THEN live \ {r} ELSE live \union {r}

-----------------------------------------------------------------------------
(* The queue.                                                              *)

(* productionLockBusy *)
LockBusy(lv) == lv # {}

(* Mutant: a job is at work only when its activity says so.                *)
ActiveByLock(it, lv) == LockBusy(lv)

(* activeCurrentWorkspaceProductionJob *)
Active(it, lv) == LockBusy(lv) \/ \E r \in Requests : it[r] \in {"starting", "running"}

Waiting(it) == {k \in DOMAIN queue : it[queue[k]] = "waiting"}

(* startNextQueuedJob up to its await, over the given items and activities:
   the first waiting item in the order of the queue. *)
StartNext(it, lv, c) ==
    IF Active(it, lv) \/ Waiting(it) = {}
    THEN item' = it /\ call' = c /\ UNCHANGED asks
    ELSE \E k \in Waiting(it) :
            /\ \A j \in Waiting(it) : k <= j
            /\ item' = [it EXCEPT ![queue[k]] = "starting"]
            /\ call' = [c EXCEPT ![queue[k]] = "sent"]
            /\ asks' = [asks EXCEPT ![queue[k]] = @ + 1]

(* The timer of the supervisor. *)
QueueTimer ==
    /\ Waiting(item) # {}
    /\ ~Active(item, live)
    /\ StartNext(item, live, call)
    /\ UNCHANGED <<queue, bound, agentVars, live, poll, turnVars, cancelled, forgot>>

(* Mutants: the item takes the answer as it is; a call that failed is tried
   again; a refusal is forgotten.                                          *)
AfterAnswerRaw(answer) == answer
AfterAnswerRetried(answer) == IF answer = "accepted" THEN "running" ELSE "waiting"
AfterAnswerKept(answer) ==
    CASE answer = "accepted" -> "running"
      [] answer = "refused" -> "starting"
      [] answer = "failed" -> "over"

(* What the answer makes of the item. *)
AfterAnswer(answer) ==
    CASE answer = "accepted" -> "running"
      [] answer = "refused" -> "waiting"
      [] answer = "failed" -> "over"

Refunded(r) == [asks EXCEPT ![r] = IF call[r] = "refused" THEN @ - 1 ELSE @]

(* Mutant: the job of the answer is not made an activity.                  *)
LiveAfterNone(r) == live

LiveAfter(r) == IF call[r] = "accepted" THEN live \union {r} ELSE live

(* startNextQueuedJob after its await. The item's status is set whatever it
   has become meanwhile. *)
StartAnswered(r) ==
    /\ call[r] \in Answer /\ r # direct
    /\ call' = [call EXCEPT ![r] = "none"]
    /\ item' = IF item[r] = "gone" THEN item ELSE [item EXCEPT ![r] = AfterAnswer(call[r])]
    /\ bound' = IF call[r] = "accepted" /\ item[r] # "gone" THEN bound \union {r} ELSE bound
    /\ live' = LiveAfter(r)
    /\ asks' = Refunded(r)
    /\ UNCHANGED <<queue, agentVars, poll, turnVars, cancelled, forgot>>

(* cancelQueueItem: at once, or once the agent has answered. *)
CancelItem(r) ==
    /\ \/ item[r] \in {"waiting", "starting"}
       \/ item[r] = "running" /\ r \in bound
    /\ item' = [item EXCEPT ![r] = "over"]
    /\ cancelled' = cancelled \union {r}
    /\ UNCHANGED <<queue, bound, call, agentVars, live, poll, turnVars, asks, forgot>>

(* clearFinishedQueueItems *)
Clear ==
    /\ \E r \in Requests : item[r] = "over"
    /\ item' = [r \in Requests |-> IF item[r] = "over" THEN "gone" ELSE item[r]]
    /\ UNCHANGED <<queue, bound, call, agentVars, live, poll, turnVars, histVars>>

(* resetSessionProjection, by a purge. *)
Purge ==
    /\ live # {} \/ \E r \in Requests : item[r] \notin Absent
    /\ item' = [r \in Requests |-> IF item[r] = "absent" THEN "absent" ELSE "gone"]
    /\ live' = {}
    /\ UNCHANGED <<queue, bound, call, agentVars, poll, turnVars, histVars>>

-----------------------------------------------------------------------------
(* The agent of production.                                                *)

Free == ~taken /\ \A r \in Requests : job[r] # "running"

CallAccepted(r) ==
    /\ call[r] = "sent" /\ Free
    /\ job' = [job EXCEPT ![r] = "running"]
    /\ call' = [call EXCEPT ![r] = "accepted"]
    /\ UNCHANGED <<queueVars, taken, others, live, poll, turnVars, histVars>>

(* workspace_busy *)
CallRefused(r) ==
    /\ call[r] = "sent" /\ ~Free
    /\ call' = [call EXCEPT ![r] = "refused"]
    /\ UNCHANGED <<queueVars, agentVars, live, poll, turnVars, histVars>>

(* An error, or the request or its answer is lost. *)
CallFails(r) ==
    /\ call[r] \in {"sent", "accepted"}
    /\ call' = [call EXCEPT ![r] = "failed"]
    /\ UNCHANGED <<queueVars, agentVars, live, poll, turnVars, histVars>>

JobEnds(r) ==
    /\ job[r] = "running"
    /\ job' = [job EXCEPT ![r] = "over"]
    /\ UNCHANGED <<queueVars, call, taken, others, live, poll, turnVars, histVars>>

Taken ==
    /\ Free /\ others < MaxTaken
    /\ taken' = TRUE /\ others' = others + 1
    /\ UNCHANGED <<queueVars, call, job, live, poll, direct, turn, histVars>>

GivenBack ==
    /\ taken /\ taken' = FALSE
    /\ UNCHANGED <<queueVars, call, job, others, live, poll, turnVars, histVars>>

-----------------------------------------------------------------------------
(* The supervisor's poll of an activity.                                   *)

PollReads(r) ==
    /\ r \in live /\ poll[r] = "none"
    /\ poll' = [poll EXCEPT ![r] = job[r]]
    /\ UNCHANGED <<queueVars, call, agentVars, live, turnVars, histVars>>

PollFails(r) ==
    /\ poll[r] # "none"
    /\ poll' = [poll EXCEPT ![r] = "none"]
    /\ UNCHANGED <<queueVars, call, agentVars, live, turnVars, histVars>>

(* syncQueueWithActivity: the item that has this job takes its status. *)
Synced(r, status) ==
    IF r \in bound /\ item[r] # "gone" THEN [item EXCEPT ![r] = status] ELSE item

(* The activity, then the item of the job; after an end the next item is
   started. *)
PollApplied(r) ==
    /\ poll[r] # "none"
    /\ poll' = [poll EXCEPT ![r] = "none"]
    /\ live' = Seen(r, poll[r])
    /\ IF poll[r] = "over"
       THEN StartNext(Synced(r, poll[r]), live', call)
       ELSE item' = Synced(r, poll[r]) /\ UNCHANGED <<call, asks>>
    /\ UNCHANGED <<queue, bound, agentVars, turnVars, cancelled, forgot>>

-----------------------------------------------------------------------------
(* Turns of the agent, and restarts.                                       *)

(* The items that have no call and no activity they are followed by. *)
Orphaned(it, lv, c) ==
    {r \in Requests : \/ it[r] = "starting" /\ c[r] = "none"
                      \/ it[r] = "running" /\ r \notin lv}

(* run_started empties the activities of the session. *)
TurnStarts ==
    /\ ~turn /\ turn' = TRUE
    /\ live' = {}
    /\ forgot' = (forgot \/ Orphaned(item, live', call) # {})
    /\ UNCHANGED <<queueVars, call, agentVars, poll, direct, asks, cancelled>>

(* run_error and run_cancelled end them. *)
TurnEnds ==
    /\ turn /\ turn' = FALSE
    /\ direct = None
    /\ live' \in {live, {}}
    /\ forgot' = (forgot \/ Orphaned(item, live', call) # {})
    /\ UNCHANGED <<queueVars, call, agentVars, poll, direct, asks, cancelled>>

Enqueued(r) ==
    /\ item' = [item EXCEPT ![r] = "waiting"]
    /\ queue' = Append(queue, r)

(* A turn calls production_start_job: while a job of the session is live the
   request is queued, otherwise it is sent. *)
DirectStart(r) ==
    /\ turn /\ direct = None
    /\ item[r] = "absent" /\ call[r] = "none" /\ asks[r] = 0
    /\ IF LockBusy(live)
       THEN Enqueued(r) /\ UNCHANGED <<call, direct, asks>>
       ELSE /\ direct' = r
            /\ call' = [call EXCEPT ![r] = "sent"]
            /\ asks' = [asks EXCEPT ![r] = @ + 1]
            /\ UNCHANGED <<item, queue>>
    /\ UNCHANGED <<bound, agentVars, live, poll, turn, cancelled, forgot>>

(* The answer of that call: a refused request is queued. *)
DirectAnswered(r) ==
    /\ direct = r /\ call[r] \in Answer
    /\ direct' = None
    /\ call' = [call EXCEPT ![r] = "none"]
    /\ IF call[r] = "refused" THEN Enqueued(r) ELSE UNCHANGED <<item, queue>>
    /\ live' = LiveAfter(r)
    /\ asks' = Refunded(r)
    /\ UNCHANGED <<bound, agentVars, poll, turn, cancelled, forgot>>

(* A turn asks for the status of a job. The activity takes what the agent
   answers; the queue is not told. *)
Look(r) ==
    /\ turn /\ direct = None
    /\ job[r] # "none"
    /\ live' = Seen(r, job[r])
    /\ forgot' = (forgot \/ Orphaned(item, live', call) # {})
    /\ UNCHANGED <<queueVars, call, agentVars, poll, turnVars, asks, cancelled>>

(* The runtime stops and starts again: the queue and the activities are read
   from the store; a request on its way may still reach the agent. *)
Restart ==
    /\ turn' = FALSE /\ direct' = None
    /\ call' = [r \in Requests |-> "none"]
    /\ poll' = [r \in Requests |-> "none"]
    /\ \/ UNCHANGED job
       \/ \E r \in Requests :
             call[r] = "sent" /\ Free /\ job' = [job EXCEPT ![r] = "running"]
    /\ forgot' = (forgot \/ Orphaned(item, live, call') # {})
    /\ UNCHANGED <<queueVars, taken, others, live, asks, cancelled>>

-----------------------------------------------------------------------------
Init ==
    /\ item = [r \in Requests |-> "absent"]
    /\ queue = <<>> /\ bound = {}
    /\ call = [r \in Requests |-> "none"]
    /\ job = [r \in Requests |-> "none"] /\ taken = FALSE /\ others = 0
    /\ live = {}
    /\ poll = [r \in Requests |-> "none"]
    /\ direct = None /\ turn = FALSE
    /\ asks = [r \in Requests |-> 0]
    /\ cancelled = {} /\ forgot = FALSE

QueueStep ==
    \/ QueueTimer
    \/ \E r \in Requests : StartAnswered(r) \/ CancelItem(r)
    \/ Clear \/ Purge

AgentStep ==
    \/ \E r \in Requests : CallAccepted(r) \/ CallRefused(r) \/ CallFails(r) \/ JobEnds(r)
    \/ Taken \/ GivenBack

PollStep ==
    \E r \in Requests : PollReads(r) \/ PollFails(r) \/ PollApplied(r)

TurnStep ==
    \/ TurnStarts \/ TurnEnds \/ Restart
    \/ \E r \in Requests : DirectStart(r) \/ DirectAnswered(r) \/ Look(r)

Next == QueueStep \/ AgentStep \/ PollStep \/ TurnStep

Spec == Init /\ [][Next]_vars

(* The timers run, calls are answered or fail, polls are not unlucky for
   ever, and the agent ends its jobs. *)
Fairness ==
    /\ WF_vars(QueueTimer) /\ WF_vars(GivenBack)
    /\ \A r \in Requests :
          /\ WF_vars(StartAnswered(r))
          /\ WF_vars(CallAccepted(r) \/ CallRefused(r)) /\ SF_vars(CallAccepted(r))
          /\ WF_vars(JobEnds(r))
          /\ WF_vars(PollReads(r)) /\ SF_vars(PollApplied(r))

FairSpec == Spec /\ Fairness

-----------------------------------------------------------------------------
(* Properties.                                                             *)

(* Every variable has its type. *)
TypeOK ==
    /\ item \in [Requests -> ItemStatus]
    /\ queue \in Seq(Requests)
    /\ bound \subseteq Requests
    /\ call \in [Requests -> {"none", "sent"} \union Answer]
    /\ job \in [Requests -> JobStatus]
    /\ taken \in BOOLEAN /\ others \in 0..MaxTaken
    /\ live \subseteq Requests
    /\ poll \in [Requests -> JobStatus]
    /\ direct \in Requests \union {None}
    /\ turn \in BOOLEAN
    /\ asks \in [Requests -> Int]
    /\ cancelled \subseteq Requests /\ forgot \in BOOLEAN

(* A request that the agent did not refuse is never put to it again, so that
   no work is done twice: whatever is cancelled, lost, cleared or restarted. *)
RequestedOnce == \A r \in Requests : asks[r] \in 0..1

(* The queue has one job at a time in hand: two items are at work only when
   the user cancelled one of them (whose call, once answered, sets it back to
   work), or one was left without its activity. *)
OneItemAtWork ==
    forgot \/ \A r, s \in Requests \ cancelled :
        item[r] \in {"starting", "running"} /\ item[s] \in {"starting", "running"} => r = s

(* An item shown as running is one whose job is followed, so that its end
   will be seen, unless a turn has emptied or ended the activities. *)
RunningIsFollowed ==
    forgot \/ \A r \in Requests : item[r] = "running" => r \in live

(* A waiting request is started and settled, however often the agent refuses
   it, unless an item was left at work with nothing to follow it: a turn that
   empties or ends the activities, a status read by a turn, or a restart
   between a call and its answer does that, and the queue then stands still. *)
QueueMovesUnlessForgotten ==
    \A r \in Requests : item[r] = "waiting" ~> (item[r] \in Absent \union {"over"} \/ forgot)
=============================================================================
