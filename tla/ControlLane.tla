---------------------------- MODULE ControlLane ----------------------------
(***************************************************************************)
(* The control lane of one workspace: which run owns the session, the      *)
(* queue of requests behind it, and what stops, restarts and resumes them. *)
(* (src/src/runtime/server.js, controlDrain.js, controlCancellation.js,    *)
(* recoveryManager.js, src/src/cli/wiki-manager.js)                        *)
(*                                                                         *)
(* A request is a member of Direct (POST /run, /delegate) or an item of    *)
(* the queue; a run bears the name of its request, for a request starts    *)
(* one run and a recovered run keeps its id. The statements between two    *)
(* awaits are one action: the end of a run with its finally and the drain  *)
(* of the queue, the abort of a kill with what follows if nothing is       *)
(* awaited.                                                                *)
(*                                                                         *)
(* Left out: what a run does (PlanScheduler), prompts compiled, answered   *)
(* or refused, conversations, the pruning of terminal items, which no      *)
(* decision reads.                                                         *)
(*                                                                         *)
(* Bounds: each request is made once; MaxBoots restarts; one /kill, one    *)
(* /cancel beside no run and one recovery at a time (the guards on kill,   *)
(* stopping and rec).                                                      *)
(***************************************************************************)
EXTENDS Integers, Sequences, FiniteSets

CONSTANTS
    Direct,      \* requests that start a run or are refused
    Batches,     \* the batches of items: a chain of a skill, or one request
    Markable,    \* items that may be marked optional or continueOnFailure
    Gated,       \* requests whose run asks for an approval before it works
    None,        \* no run
    MaxBoots     \* bound: restarts of the runtime

Members(b) == {b[k] : k \in DOMAIN b}
Items == UNION {Members(b) : b \in Batches}
Runs == Direct \union Items

(* An item is in one batch, once. *)
ASSUME BatchesAreApart ==
    /\ \A b \in Batches : b # <<>> /\ b \in Seq(Members(b))
    /\ \A b, c \in Batches : \A j \in DOMAIN b, k \in DOMAIN c :
           b[j] = c[k] => b = c /\ j = k
ASSUME RequestsAreRuns ==
    /\ Direct \intersect Items = {}
    /\ None \notin Runs
    /\ Markable \subseteq Items
    /\ Gated \subseteq Runs
    /\ MaxBoots \in Nat

VARIABLES
    item,      \* status of each item of the control queue
    tolerant,  \* items marked optional or continueOnFailure
    queue,     \* the items in the order they were queued
    phase,     \* what this process does with a run
    row,       \* status of the run's row in the store
    lane,      \* running, controller, currentRun and promise of the context
    aborted,   \* runs whose abort signal fired
    kill,      \* the /kill in progress
    stopping,  \* runs a /cancel beside no active run has still to stop
    rec,       \* stage of recoverWorkspace
    listed,    \* runs recoverActiveRuns has still to look at
    watch,     \* the run _onActivitiesTerminal resumes
    act,       \* a pollable activity of the session is not terminal
    polled,    \* a poll saw an activity end and awaits the next queued job
    boots,     \* restarts so far
    resumed    \* a recovered run was started

laneVars == <<item, tolerant, queue, phase, row, lane, act>>
recVars == <<rec, listed, watch, polled, boots, resumed>>
stopVars == <<aborted, kill, stopping>>
vars == <<laneVars, recVars, stopVars>>

NoKill == [stage |-> "idle", target |-> None, purge |-> FALSE]
Idle == [running |-> FALSE, controller |-> None, currentRun |-> None, promise |-> None]

Blocking == {"failed", "cancelled", "skipped"}
Terminal == Blocking \union {"done"}
ItemStatus == {"absent", "queued", "running", "gone"} \union Terminal

(* A run of this process starts, asks for its launch approval and works. It
   is closed if it ends before it works, ended if it ends afterwards, lost if
   the process dies while it works. *)
Phase == {"none", "starting", "approving", "working", "ended", "closed", "lost"}

(* Statuses of the store, eventRunStatus and interruptRuns. *)
RowStatus == {"none", "running", "pending_approval", "done", "error", "cancelled", "interrupted"}

(* Statuses that listRecoverableRuns returns and interruptRuns changes. *)
Recoverable(r) == row[r] \in {"running", "pending_approval"}
Live(r) == phase[r] \in {"starting", "approving", "working"}

-----------------------------------------------------------------------------
(* The queue.                                                              *)

(* Items of the same chain with a lower chainSequence. *)
Predecessors(i) ==
    UNION {{b[j] : j \in {j \in DOMAIN b : \E k \in DOMAIN b : j < k /\ b[k] = i}} : b \in Batches}

Siblings(i) == UNION {Members(b) : b \in {b \in Batches : i \in Members(b) /\ Len(b) > 1}}

(* Mutant: only a failure blocks what comes after it.                       *)
BlockedByFailure(it, i) == \E p \in Predecessors(i) \ tolerant : it[p] = "failed"

Blocked(it, i) == \E p \in Predecessors(i) \ tolerant : it[p] \in Blocking

(* isRunnableControlItem *)
Runnable(it, i) ==
    /\ it[i] = "queued"
    /\ \A p \in Predecessors(i) : it[p] \in Terminal
    /\ ~Blocked(it, i)

(* applySkipPropagation *)
Propagated(it) ==
    [i \in Items |-> IF it[i] = "queued" /\ Blocked(it, i) THEN "skipped" ELSE it[i]]

(* startRuntimeRun over the given state: run_started empties the activities
   of the session. *)
Started(r, it, ph, rw) ==
    /\ item' = it
    /\ phase' = [ph EXCEPT ![r] = IF r \in Gated THEN "starting" ELSE "working"]
    /\ row' = [rw EXCEPT ![r] = "running"]
    /\ lane' = [running |-> TRUE, controller |-> r, currentRun |-> r, promise |-> r]
    /\ act' = FALSE

(* reconcileControlQueue over the given queue and state, with the lane free:
   the first runnable item in the order of the queue starts. *)
Drain(qu, it, ph, rw, l, a) ==
    LET q == Propagated(it)
        ready == {k \in DOMAIN qu : Runnable(q, qu[k])}
    IN  \/ \E k \in ready :
              /\ \A j \in ready : k <= j
              /\ Started(qu[k], [q EXCEPT ![qu[k]] = "running"], ph, rw)
        \/ /\ ready = {}
           /\ item' = q /\ phase' = ph /\ row' = rw /\ lane' = l /\ act' = a

DrainIfFree(qu, it) ==
    IF lane.running
    THEN item' = it /\ UNCHANGED <<phase, row, lane, act>>
    ELSE Drain(qu, it, phase, row, lane, act)

(* cancelControlChain: the queued siblings of the item that a run executes. *)
ChainCancelled(r) ==
    [i \in Items |->
        IF r \in Items \ tolerant /\ item[r] # "gone" /\ i \in Siblings(r) \ {r}
           /\ item[i] = "queued"
        THEN "skipped" ELSE item[i]]

(* cancelQueuedControlItems, and what a restart does of the queued items. *)
QueueCancelled ==
    [i \in Items |-> IF item[i] = "queued" THEN "cancelled" ELSE item[i]]

(* POST /run and /delegate, with no run active.  Left out: the catch around the
   whole handler, which clears the running flag and the controller also when
   they are another request's; it needs a store that throws, or a message the
   developer's own contract refuses. *)
PostRun(d) ==
    /\ ~lane.running
    /\ phase[d] = "none"
    /\ Started(d, item, phase, row)
    /\ UNCHANGED <<tolerant, queue, recVars, stopVars>>

(* A request of /control or of a run, or the chain a skill compiles to,
   queued in one go, then the drain. *)
Enqueue(b, marked) ==
    /\ \A i \in Members(b) : item[i] = "absent"
    /\ queue' = queue \o b
    /\ tolerant' = tolerant \union marked
    /\ DrainIfFree(queue \o b,
                   [i \in Items |-> IF i \in Members(b) THEN "queued" ELSE item[i]])
    /\ UNCHANGED <<recVars, stopVars>>

(* cancelQueuedControlItem, then the drain. *)
CancelItem(i) ==
    /\ item[i] = "queued"
    /\ DrainIfFree(queue,
          [j \in Items |->
              IF j = i THEN "cancelled"
              ELSE IF i \notin tolerant /\ i \in Predecessors(j) /\ item[j] = "queued"
                   THEN "skipped" ELSE item[j]])
    /\ UNCHANGED <<tolerant, queue, recVars, stopVars>>

-----------------------------------------------------------------------------
(* A run.                                                                  *)

(* requestLaunchApproval, once the run's capability is resolved. *)
AsksApproval(r) ==
    /\ phase[r] = "starting"
    /\ r \notin aborted
    /\ phase' = [phase EXCEPT ![r] = "approving"]
    /\ row' = [row EXCEPT ![r] = "pending_approval"]
    /\ UNCHANGED <<item, tolerant, queue, lane, act, recVars, stopVars>>

Approve(r) ==
    /\ phase[r] = "approving"
    /\ r \notin aborted
    /\ phase' = [phase EXCEPT ![r] = "working"]
    /\ row' = [row EXCEPT ![r] = "running"]
    /\ UNCHANGED <<item, tolerant, queue, lane, act, recVars, stopVars>>

(* A run that works asks an agent for a job: a pollable activity. *)
JobStarts(r) ==
    /\ phase[r] = "working"
    /\ r \notin aborted
    /\ act' = TRUE
    /\ UNCHANGED <<item, tolerant, queue, phase, row, lane, recVars, stopVars>>

(* The run's agent asks for the status of the job and sees its end: the
   supervisor is not told. *)
JobSettled(r) ==
    /\ phase[r] = "working"
    /\ act /\ act' = FALSE
    /\ UNCHANGED <<item, tolerant, queue, phase, row, lane, recVars, stopVars>>

(* A run that works may end well, even when its abort comes at its last
   await; any run may fail (a route that is gone, an approval that is not
   given in time); an aborted one is cancelled. *)
Outcomes(r) ==
    (IF phase[r] = "working" THEN {"done"} ELSE {})
    \union {"error"} \union (IF r \in aborted THEN {"cancelled"} ELSE {})

(* Mutants: the item takes the status of the run's row; the item of a
   cancelled run is left running.                                          *)
ItemAfterRow(r, outcome) ==
    [i \in Items |-> IF i = r /\ item[i] = "running" THEN outcome ELSE item[i]]
ItemAfterEnd(r, outcome) ==
    [i \in Items |-> IF i = r /\ item[i] = "running" /\ outcome # "cancelled"
                     THEN (IF outcome = "error" THEN "failed" ELSE outcome)
                     ELSE item[i]]

(* finishControlByRun *)
ItemAfter(r, outcome) ==
    [i \in Items |-> IF i = r /\ item[i] = "running"
                     THEN (IF outcome = "error" THEN "failed" ELSE outcome)
                     ELSE item[i]]

(* run_error and run_cancelled end the activities of the session too. *)
ActAfter(outcome) == act /\ outcome = "done"

(* A run that never worked is closed. *)
PhaseAfter(r) == [phase EXCEPT ![r] = IF @ = "working" THEN "ended" ELSE "closed"]

(* Mutant: the lane is freed and the queue is not looked at.               *)
EndedWithoutDrain(r, outcome) ==
    /\ item' = ItemAfter(r, outcome)
    /\ phase' = PhaseAfter(r)
    /\ row' = [row EXCEPT ![r] = outcome]
    /\ lane' = Idle
    /\ act' = ActAfter(outcome)

LaneAfter(r) ==
    [running |-> FALSE, controller |-> None, currentRun |-> None,
     promise |-> IF lane.promise = r THEN None ELSE lane.promise]

(* The end of a run that startRuntimeRun started: its terminal event, the
   finally, the drain. The finally clears what it finds; the promise only if
   it is the run's own. *)
Ended(r, outcome) ==
    Drain(queue, ItemAfter(r, outcome), PhaseAfter(r), [row EXCEPT ![r] = outcome],
          LaneAfter(r), ActAfter(outcome))

(* The end of a recovered run, which is not the context's currentRunId: its
   finally does not drain the queue. *)
RecoveredEnded(r, outcome) ==
    /\ item' = ItemAfter(r, outcome)
    /\ phase' = PhaseAfter(r)
    /\ row' = [row EXCEPT ![r] = outcome]
    /\ lane' = [lane EXCEPT !.running = FALSE, !.controller = None]
    /\ act' = ActAfter(outcome)

RunEnds(r) ==
    /\ Live(r)
    /\ \E outcome \in Outcomes(r) :
           IF lane.currentRun = r THEN Ended(r, outcome) ELSE RecoveredEnded(r, outcome)
    /\ aborted' = aborted \ {r}
    /\ UNCHANGED <<tolerant, queue, recVars, kill, stopping>>

-----------------------------------------------------------------------------
(* Stops.                                                                  *)

Aborted == IF lane.controller = None THEN aborted ELSE aborted \union {lane.controller}

(* POST /cancel of the active run. *)
Cancel ==
    /\ lane.running /\ lane.controller # None
    /\ item' = IF lane.currentRun = None THEN item ELSE ChainCancelled(lane.currentRun)
    /\ aborted' = Aborted
    /\ UNCHANGED <<tolerant, queue, phase, row, lane, act, recVars, kill, stopping>>

(* A control message that says cancel, and /shutdown, abort and no more. *)
CancelByMessage ==
    /\ lane.running /\ lane.controller # None
    /\ aborted' = Aborted
    /\ UNCHANGED <<laneVars, recVars, kill, stopping>>

(* POST /cancel beside no active run: the runs the store still holds. *)
CancelIdle ==
    /\ ~(lane.running /\ lane.controller # None)
    /\ stopping = {}
    /\ stopping' = {r \in Runs : Recoverable(r)}
    /\ stopping' # {}
    /\ UNCHANGED <<laneVars, recVars, aborted, kill>>

(* One of them, once its agents' jobs were asked to stop. *)
StopOrphan(r) ==
    /\ r \in stopping
    /\ item' = ChainCancelled(r)
    /\ row' = [row EXCEPT ![r] = IF Recoverable(r) THEN "interrupted" ELSE @]
    /\ stopping' = stopping \ {r}
    /\ UNCHANGED <<tolerant, queue, phase, lane, act, recVars, aborted, kill>>

Targets(target) == IF target = None THEN Runs ELSE {target}

Orphans(target) ==
    {r \in Targets(target) : Recoverable(r) /\ ~(lane.running /\ r = lane.currentRun)}

(* interruptRuns and the cancel of the queue, and for a purge
   resetSessionProjection and clearWorkspaceState. *)
KillEffects(target, purge) ==
    IF purge
    THEN /\ row' = [r \in Runs |-> "none"]
         /\ item' = [i \in Items |-> IF item[i] = "absent" THEN "absent" ELSE "gone"]
         /\ queue' = <<>>
         /\ act' = FALSE
    ELSE /\ row' = [r \in Runs |->
                       IF r \in Targets(target) /\ Recoverable(r) THEN "interrupted" ELSE row[r]]
         /\ item' = QueueCancelled
         /\ UNCHANGED <<queue, act>>

(* The jobs of the orphans are cancelled one await after the other; with no
   orphan nothing is awaited. *)
KillLists(target, purge) ==
    IF Orphans(target) # {}
    THEN /\ kill' = [stage |-> "cancelling", target |-> target, purge |-> purge]
         /\ UNCHANGED <<item, queue, row, act>>
    ELSE KillEffects(target, purge) /\ kill' = NoKill

(* killRuntimeRuns, from the abort on. *)
KillRequest(target, purge) ==
    /\ kill = NoKill
    /\ purge => target = None
    /\ aborted' = IF target \in {None, lane.currentRun} THEN Aborted ELSE aborted
    /\ IF purge /\ lane.promise # None
       THEN /\ kill' = [stage |-> "waiting", target |-> target, purge |-> purge]
            /\ UNCHANGED <<item, queue, row, act>>
       ELSE KillLists(target, purge)
    /\ UNCHANGED <<tolerant, phase, lane, recVars, stopping>>

(* A purge waits for the aborted run, five seconds at most. *)
KillWaited ==
    /\ kill.stage = "waiting"
    /\ KillLists(kill.target, kill.purge)
    /\ UNCHANGED <<tolerant, phase, lane, recVars, aborted, stopping>>

KillFinishes ==
    /\ kill.stage = "cancelling"
    /\ KillEffects(kill.target, kill.purge)
    /\ kill' = NoKill
    /\ UNCHANGED <<tolerant, phase, lane, recVars, aborted, stopping>>

-----------------------------------------------------------------------------
(* Restart and recovery.                                                   *)

(* The process dies, or is shut down, and starts again: the queued items of
   the session are expired, what the store holds is recovered. *)
Restart ==
    /\ boots < MaxBoots
    /\ boots' = boots + 1
    /\ item' = QueueCancelled
    /\ phase' = [r \in Runs |->
                    IF phase[r] = "working" THEN "lost"
                    ELSE IF Live(r) THEN "closed" ELSE phase[r]]
    /\ lane' = Idle
    /\ aborted' = {} /\ kill' = NoKill /\ stopping' = {}
    /\ rec' = IF \E r \in Runs : Recoverable(r) THEN "discovering" ELSE "idle"
    /\ listed' = {} /\ watch' = None /\ polled' = FALSE
    /\ UNCHANGED <<tolerant, queue, row, act, resumed>>

(* POST /resume. *)
Resume ==
    /\ rec = "idle"
    /\ rec' = "discovering"
    /\ UNCHANGED <<laneVars, listed, watch, polled, boots, resumed, stopVars>>

(* A service that does not answer, or a task that cannot be recovered. *)
RecoveryFails ==
    /\ rec # "idle" /\ listed = {}
    /\ rec' = "idle" /\ UNCHANGED listed
    /\ row' = [r \in Runs |-> IF Recoverable(r) THEN "interrupted" ELSE row[r]]
    /\ UNCHANGED <<item, tolerant, queue, phase, lane, act, watch, polled, boots, resumed, stopVars>>

(* recoverActiveRuns takes its list of runs... *)
RecoveryLists ==
    /\ rec = "discovering"
    /\ rec' = "tasks"
    /\ listed' = {r \in Runs : Recoverable(r)}
    /\ UNCHANGED <<laneVars, watch, polled, boots, resumed, stopVars>>

(* Mutant: a run without a task at work is left as it is.                  *)
RecoverRunKept(r) ==
    /\ r \in listed
    /\ listed' = listed \ {r}
    /\ UNCHANGED <<laneVars, rec, watch, polled, boots, resumed, stopVars>>

(* ... and interrupts those with no task that goes on. A run that never
   worked has none. *)
RecoverRun(r) ==
    /\ r \in listed
    /\ listed' = listed \ {r}
    /\ \/ phase[r] \in {"working", "lost"} /\ UNCHANGED row
       \/ row' = [row EXCEPT ![r] = IF Recoverable(r) THEN "interrupted" ELSE @]
    /\ UNCHANGED <<item, tolerant, queue, phase, lane, act, rec, watch, polled, boots, resumed, stopVars>>

(* Mutant: the running flag is not looked at.                               *)
StartRecoveredAnyway(r) ==
    /\ phase' = [phase EXCEPT ![r] = "working"]
    /\ lane' = [lane EXCEPT !.running = TRUE, !.controller = r]
    /\ resumed' = TRUE

(* startRecoveredAgenticRun *)
StartRecovered(r) ==
    IF lane.running
    THEN UNCHANGED <<phase, lane, resumed>>
    ELSE /\ phase' = [phase EXCEPT ![r] = "working"]
         /\ lane' = [lane EXCEPT !.running = TRUE, !.controller = r]
         /\ resumed' = TRUE

Running == {r \in Runs : row[r] = "running"}

(* The end of recoverWorkspace: a running run goes on at once, or once the
   activities of the session have ended; with none the queue is drained. *)
RecoveryEnds ==
    /\ rec = "tasks" /\ listed = {}
    /\ rec' = "idle" /\ UNCHANGED listed
    /\ \/ /\ ~act
          /\ \E r \in Running : StartRecovered(r)
          /\ UNCHANGED <<item, row, act, watch>>
       \/ /\ act
          /\ watch' \in Running
          /\ UNCHANGED <<item, phase, row, lane, act, resumed>>
       \/ /\ Running = {} /\ ~act
          /\ DrainIfFree(queue, item)
          /\ UNCHANGED <<watch, resumed>>
       \/ /\ Running = {} /\ act
          /\ UNCHANGED <<item, phase, row, lane, act, watch, resumed>>
    /\ UNCHANGED <<tolerant, queue, polled, boots, stopVars>>

(* The supervisor's poll sees the last activity end... *)
PollEnds ==
    /\ act
    /\ act' = FALSE /\ polled' = TRUE
    /\ UNCHANGED <<item, tolerant, queue, phase, row, lane, rec, listed, watch, boots, resumed, stopVars>>

(* ... and calls _onActivitiesTerminal after an await, if none is left. *)
CallBack ==
    /\ polled /\ polled' = FALSE
    /\ IF ~act /\ watch # None
       THEN watch' = None /\ StartRecovered(watch)
       ELSE UNCHANGED <<watch, phase, lane, resumed>>
    /\ UNCHANGED <<item, tolerant, queue, row, act, rec, listed, boots, stopVars>>

-----------------------------------------------------------------------------
Init ==
    /\ item = [i \in Items |-> "absent"]
    /\ tolerant = {} /\ queue = <<>>
    /\ phase = [r \in Runs |-> "none"]
    /\ row = [r \in Runs |-> "none"]
    /\ lane = Idle
    /\ aborted = {} /\ kill = NoKill /\ stopping = {}
    /\ rec = "idle" /\ listed = {} /\ watch = None /\ polled = FALSE
    /\ act = FALSE /\ boots = 0 /\ resumed = FALSE

RequestStep ==
    \/ \E d \in Direct : PostRun(d)
    \/ \E b \in Batches : \E marked \in SUBSET (Members(b) \intersect Markable) : Enqueue(b, marked)
    \/ \E i \in Items : CancelItem(i)

RunStep ==
    \E r \in Runs : AsksApproval(r) \/ Approve(r) \/ JobStarts(r) \/ JobSettled(r) \/ RunEnds(r)

StopStep ==
    \/ Cancel \/ CancelByMessage \/ CancelIdle
    \/ \E r \in Runs : StopOrphan(r)
    \/ \E target \in Runs \union {None}, purge \in BOOLEAN : KillRequest(target, purge)
    \/ KillWaited \/ KillFinishes

RecoveryStep ==
    \/ Restart \/ Resume \/ RecoveryFails \/ RecoveryLists
    \/ \E r \in Runs : RecoverRun(r)
    \/ RecoveryEnds \/ PollEnds \/ CallBack

Next == RequestStep \/ RunStep \/ StopStep \/ RecoveryStep

Spec == Init /\ [][Next]_vars

-----------------------------------------------------------------------------
(* Properties.                                                             *)

(* Every variable has its type. *)
TypeOK ==
    /\ item \in [Items -> ItemStatus]
    /\ tolerant \subseteq Items
    /\ queue \in Seq(Items)
    /\ phase \in [Runs -> Phase]
    /\ row \in [Runs -> RowStatus]
    /\ lane \in [running : BOOLEAN, controller : Runs \union {None},
                 currentRun : Runs \union {None}, promise : Runs \union {None}]
    /\ aborted \subseteq Runs
    /\ kill \in [stage : {"idle", "waiting", "cancelling"},
                 target : Runs \union {None}, purge : BOOLEAN]
    /\ stopping \subseteq Runs
    /\ rec \in {"idle", "discovering", "tasks"}
    /\ listed \subseteq Runs
    /\ watch \in Runs \union {None}
    /\ act \in BOOLEAN /\ polled \in BOOLEAN /\ resumed \in BOOLEAN
    /\ boots \in 0..MaxBoots

(* At most one run is at work in a workspace, and it is the one that a stop
   aborts: whatever interleaving of requests, ends, kills, restarts, resumes
   and callbacks of the supervisor (as long as no request throws, see
   PostRun). *)
OneActiveRun ==
    \A r \in Runs : Live(r) <=> lane.running /\ lane.controller = r

(* An item of a chain runs only when the items before it are over, and those
   that are not optional did well. *)
ChainOrder ==
    \A i \in Items : item[i] \in {"running", "done", "failed"} =>
        \A p \in Predecessors(i) :
            item[p] \in Terminal /\ (p \notin tolerant => item[p] = "done")

(* When no run is active nothing waits in the queue, so that no request needs
   another one to be started (until a recovered run was started: its end does
   not drain the queue). *)
IdleMeansDrained ==
    ~lane.running /\ ~resumed => \A i \in Items : item[i] # "queued"

(* An item shown as running is one whose run is at work, until a restart. *)
RunningItemIsLive ==
    boots = 0 => \A i \in Items : item[i] = "running" => Live(i)

(* A run that asks for an approval works only once it was given, also when it
   is found by a restart or resumed by a callback. *)
NoWorkUnapproved ==
    [][\A r \in Gated : phase'[r] = "working" =>
           phase[r] \in {"approving", "working", "ended", "lost"}]_vars

(* A run that was stopped, or that ended, does not work again (the comment of
   /cancel: a stop reaches the runs this process does not execute). *)
StoppedStaysStopped ==
    [][\A r \in Runs :
        row[r] \in {"done", "error", "cancelled", "interrupted"} /\ ~Live(r) => ~Live(r)']_vars
=============================================================================
