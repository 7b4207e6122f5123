------------------------- MODULE MaintenanceActions -------------------------
(***************************************************************************)
(* The maintenance actions of one workspace on one day: runCandidate,      *)
(* completeJob, reconcile and the Stop of src/maintenance/service.js, over *)
(* the durable reservations of src/maintenance/store.js and the admission  *)
(* shared with the user's tasks (module MaintenanceAdmission).             *)
(*                                                                         *)
(* An action is tried under an attempt <<c, n>>: its id is the id of the   *)
(* reservation that holds a unit of the day's budget, and the idempotency  *)
(* key sent to the agent.  The rows survive a crash of the process, the    *)
(* tickets (running calls of runCandidate) and the admission do not, and   *)
(* jobs go on in their agents.                                             *)
(***************************************************************************)
EXTENDS Integers, FiniteSets

CONSTANTS
    Candidates,   \* what the state of the workspace offers, by identity
    Scoped,       \* the candidates that take an admission
    External,     \* the candidates of an external runtime (agent.curate, which
                  \* takes no admission): no key, no answer from the job of an
                  \* earlier call
    CanYield,     \* the candidates that are preemptible
    Tickets,
    Users,        \* runs of the user
    Scopes,       \* Scopes[x]: the locks of a scoped candidate or of a user
    Wide,
    Limit,        \* limits.actionsPerDay
    Faults,       \* "call": a call to an agent may fail; "cancel": a cancel may;
                  \* "job": a job may; "stop": the human may stop maintenance,
                  \* "resume": and resume it before the Stop is over; "settle":
                  \* the process may die between an outcome and its settlement
    NoKey,
    Once,         \* bound: the candidates with one attempt
    MaxRetries,   \* bound: the attempts after the first
    MaxJobs       \* bound: the jobs of one attempt

Keys == Candidates \X (0 .. MaxRetries)
Jobs == Keys \X (1 .. MaxJobs)
Attempts == {k \in Keys : k[1] \in Once => k[2] = 0}

(* What a walk over the rows holds of one: its job, 0 for one not sent. *)
Entries == Keys \X (0 .. MaxJobs)

ASSUME ActionsAssumption ==
    /\ Scoped \subseteq Candidates
    /\ External \subseteq Candidates
    /\ Once \subseteq Candidates
    /\ Scoped \cap External = {}
    /\ \A c \in Scoped : Scopes[c] # {}
    /\ CanYield \subseteq Scoped
    /\ Limit \in Nat
    /\ MaxRetries \in Nat
    /\ MaxJobs \in Nat \ {0}
    /\ IsFiniteSet(Candidates)
    /\ Users \cap (Tickets \X Candidates) = {}
    /\ NoKey \notin Keys

VARIABLES
    row,          \* the reservations, status "none" for no row
    last,         \* the attempt of c inserted last, -1 for none
    closed,       \* candidates not offered any more today: an event says so
    paused,       \* maintenance_controls
    job,          \* the jobs in their agents
    cancelAsked,  \* the running jobs a cancel reached
    ticket,       \* where a ticket stands in runCandidate
    key,          \* the attempt it computed
    followed,     \* the number of the job it follows, 0 for none
    stop,         \* why it asked its job to stop
    scanning,     \* a scan passed its look at the pause, reconcile did not read
    scanned,      \* the rows reconcile read and has not come to
    stage,        \* "none", "cancelling" or "confirming": where a Stop stands
    stopping,     \* the rows it read and has not come to
    overtaken,    \* history, for the properties: the attempts dispatched after
                  \* a walk read their row, whose unit it then gave back
    run,          \* whether a user's run has unfinished tasks
    place, asked  \* the admission

rowVars == <<row, last, closed>>
jobVars == <<job, cancelAsked>>
ticketVars == <<ticket, key, followed, stop>>
admission == <<place, asked>>
scanVars == <<scanning, scanned>>
stopVars == <<stage, stopping>>
walkVars == <<scanVars, stopVars, overtaken>>
vars == <<rowVars, paused, jobVars, ticketVars, walkVars, run, admission>>

Requests == (Tickets \X Scoped) \union Users

Admission == INSTANCE MaintenanceAdmission WITH
    Background <- Tickets \X Scoped,
    Preemptible <- Tickets \X CanYield,
    ScopesOf <- [r \in Requests |-> IF r \in Users THEN Scopes[r] ELSE Scopes[r[2]]]

NoRow == [status |-> "none", outcome |-> "none", dispatched |-> FALSE, job |-> 0]
NewRow == [NoRow EXCEPT !.status = "reserved"]
Rows == [status : {"none", "reserved", "consumed", "released"},
         outcome : {"none", "done", "failed", "cancelled"},
         dispatched : BOOLEAN, job : 0 .. MaxJobs]

RowsTypeOK ==
    /\ row \in [Keys -> Rows]
    /\ last \in [Candidates -> -1 .. MaxRetries]
    /\ closed \subseteq Candidates
    /\ paused \in BOOLEAN

TicketsTypeOK ==
    /\ ticket \in [Tickets -> {"idle", "admitting", "admitted", "checked",
                               "submitting", "accepted", "following"}]
    /\ key \in [Tickets -> Keys \union {NoKey}]
    /\ followed \in [Tickets -> 0 .. MaxJobs]
    /\ stop \in [Tickets -> {"no", "user", "ceiling"}]

TypeOK ==
    /\ RowsTypeOK
    /\ TicketsTypeOK
    /\ job \in [Jobs -> {"none", "running", "done", "failed", "cancelled"}]
    /\ cancelAsked \subseteq Jobs
    /\ scanning \in BOOLEAN
    /\ scanned \subseteq Entries
    /\ stage \in {"none", "cancelling", "confirming"}
    /\ stopping \subseteq Entries
    /\ overtaken \subseteq Keys
    /\ run \in [Users -> BOOLEAN]
    /\ Admission!TypeOK

Init ==
    /\ row = [k \in Keys |-> NoRow]
    /\ last = [c \in Candidates |-> -1]
    /\ closed = {}
    /\ paused = FALSE
    /\ job = [j \in Jobs |-> "none"]
    /\ cancelAsked = {}
    /\ ticket = [d \in Tickets |-> "idle"]
    /\ key = [d \in Tickets |-> NoKey]
    /\ followed = [d \in Tickets |-> 0]
    /\ stop = [d \in Tickets |-> "no"]
    /\ scanning = FALSE
    /\ scanned = {}
    /\ stage = "none"
    /\ stopping = {}
    /\ overtaken = {}
    /\ run = [u \in Users |-> FALSE]
    /\ Admission!Init

-----------------------------------------------------------------------------
(* The store.                                                              *)

Reserved == {k \in Keys : row[k].status = "reserved"}
Consumed == {k \in Keys : row[k].status = "consumed"}
RowsOf(c) == {k \in Keys : k[1] = c /\ row[k].status # "none"}

(* wasCompleted, and the events that close a candidate for the day. *)
Offered(c) ==
    /\ c \notin closed
    /\ \A k \in Consumed : k[1] = c => row[k].outcome \notin {"done", "failed"}

(* Mutant: an attempt is numbered by the rows there are, held ones too. *)
FreshKeys(c) == {<<c, Cardinality(RowsOf(c))>>} \cap Attempts

(* The id of the next attempt: the held one's; a new one after a cancelled *)
(* attempt; else the first.                                                *)
NextKeys(c) ==
    LET held == {k \in Reserved : k[1] = c} IN
    IF held # {} THEN held
    ELSE IF last[c] # -1 /\ row[<<c, last[c]>>].status \in {"consumed", "released"}
                         /\ row[<<c, last[c]>>].outcome = "cancelled"
         THEN {<<c, Cardinality(RowsOf(c))>>} \cap Attempts
    ELSE {<<c, 0>>}

(* Mutant: what was consumed today is not counted. *)
ReservedWithinBudget == Cardinality(Reserved) + 1 <= Limit

(* reserve refuses when the day's units are reserved or consumed. *)
WithinBudget == Cardinality(Reserved \union Consumed) + 1 <= Limit

(* Mutant: a settlement that does not look at the row's status. *)
SettledAnyway(r, status) == [r EXCEPT !.status = status]

(* settle changes a reserved row only. *)
Settled(r, status) == IF r.status = "reserved" THEN [r EXCEPT !.status = status] ELSE r

(* Mutant: the status of the job stored as the status of the row. *)
CompletedRaw(r, how) ==
    IF r.status = "reserved" THEN [r EXCEPT !.outcome = how, !.status = how] ELSE r

(* completeJob: nothing for a row that was settled meanwhile. *)
Completed(r, how) ==
    IF r.status = "reserved"
    THEN [r EXCEPT !.outcome = how, !.status = "consumed"] ELSE r

-----------------------------------------------------------------------------
(* A ticket.                                                               *)

Request(d) == <<d, key[d][1]>>
TakesAdmission(d) == key[d][1] \in Scoped
Yields(d) == TakesAdmission(d) /\ Request(d) \in asked

(* The finally of runCandidate. *)
Leave(d) ==
    /\ ticket' = [ticket EXCEPT ![d] = "idle"]
    /\ key' = [key EXCEPT ![d] = NoKey]
    /\ followed' = [followed EXCEPT ![d] = 0]
    /\ stop' = [stop EXCEPT ![d] = "no"]
    /\ IF TakesAdmission(d) THEN Admission!Release(Request(d)) ELSE UNCHANGED admission

(* The attempt's id is computed before the wait for the admission. *)
Start(d) ==
    /\ ticket[d] = "idle"
    /\ ~paused
    /\ \E c \in {x \in Candidates : Offered(x)} :
         /\ c \in Scoped => \A u \in Users : ~run[u]
         /\ \E k \in NextKeys(c) : key' = [key EXCEPT ![d] = k]
         /\ IF c \in Scoped
            THEN /\ Admission!Look(<<d, c>>)
                 /\ ticket' = [ticket EXCEPT ![d] =
                                 IF place'[<<d, c>>] = "holding"
                                 THEN "admitted" ELSE "admitting"]
            ELSE /\ ticket' = [ticket EXCEPT ![d] = "admitted"]
                 /\ UNCHANGED admission
    /\ UNCHANGED <<rowVars, paused, jobVars, followed, stop, walkVars, run>>

(* The next look of a waiting ticket. *)
LookAgain(d) ==
    /\ ticket[d] = "admitting"
    /\ Admission!Look(Request(d))
    /\ ticket' = IF place'[Request(d)] = "holding"
                 THEN [ticket EXCEPT ![d] = "admitted"] ELSE ticket
    /\ UNCHANGED <<rowVars, paused, jobVars, key, followed, stop, walkVars, run>>

(* After the admission the policy and the pause are looked at again... *)
Check(d) ==
    /\ ticket[d] = "admitted"
    /\ ~paused
    /\ ticket' = [ticket EXCEPT ![d] = "checked"]
    /\ UNCHANGED <<rowVars, paused, jobVars, key, followed, stop, walkVars, run,
                   admission>>

(* ...and then the candidate: either look may end the ticket, the second   *)
(* also for a change of the target.                                        *)
Refuse(d) ==
    /\ ticket[d] \in {"admitted", "checked"}
    /\ closed' = closed \union {key[d][1]}
    /\ Leave(d)
    /\ UNCHANGED <<row, last, paused, jobVars, walkVars, run>>

(* The turn from the candidates' state to the dispatch, or to one of its   *)
(* early ends: the pause was looked at before that state was awaited.      *)
Current(d) == ticket[d] = "checked" /\ Offered(key[d][1])

HasRow(k) == row[k].status \in {"reserved", "consumed"}

OverBudget(d) ==
    /\ Current(d)
    /\ ~HasRow(key[d])
    /\ ~WithinBudget
    /\ closed' = closed \union {key[d][1]}
    /\ Leave(d)
    /\ UNCHANGED <<row, last, paused, jobVars, walkVars, run>>

(* reserve returns a row in force as it is; a released one is replaced. *)
Reserve(k) ==
    /\ HasRow(k) \/ WithinBudget
    /\ last' = IF HasRow(k) THEN last ELSE [last EXCEPT ![k[1]] = k[2]]

AfterReserve(k) == IF HasRow(k) THEN row[k] ELSE NewRow

AlreadyConsumed(d) ==
    /\ Current(d)
    /\ row[key[d]].status = "consumed"
    /\ Leave(d)
    /\ UNCHANGED <<rowVars, paused, jobVars, walkVars, run>>

(* A held attempt with a job: follow it. *)
Resume(d) ==
    /\ Current(d)
    /\ row[key[d]].status = "reserved"
    /\ row[key[d]].job # 0
    /\ ticket' = [ticket EXCEPT ![d] = "following"]
    /\ followed' = [followed EXCEPT ![d] = row[key[d]].job]
    /\ UNCHANGED <<rowVars, paused, jobVars, key, stop, walkVars, run, admission>>

(* Dispatched to an external runtime, and no receipt: the action stops     *)
(* here, and the catch gives the unit back, since this call started        *)
(* nothing.                                                                *)
Uncertain(d) ==
    LET k == key[d] IN
    /\ Current(d)
    /\ row[k].status = "reserved" /\ row[k].job = 0
    /\ row[k].dispatched /\ k[1] \in External
    /\ row' = [row EXCEPT ![k] = Settled(@, "released")]
    /\ closed' = closed \union {k[1]}
    /\ Leave(d)
    /\ UNCHANGED <<last, paused, jobVars, walkVars, run>>

Dispatchable(k) ==
    /\ row[k].status # "consumed"
    /\ AfterReserve(k).job = 0
    /\ AfterReserve(k).dispatched => k[1] \notin External

(* Asked to yield before the dispatch: the unit is given back. *)
YieldEarly(d) ==
    LET k == key[d] IN
    /\ Current(d)
    /\ Dispatchable(k)
    /\ Yields(d)
    /\ Reserve(k)
    /\ row' = [row EXCEPT ![k] = Settled(AfterReserve(k), "released")]
    /\ Leave(d)
    /\ UNCHANGED <<closed, paused, jobVars, walkVars, run>>

(* The dispatch is written down before agent_execute is called. *)
Dispatch(d) ==
    LET k == key[d] IN
    /\ Current(d)
    /\ Dispatchable(k)
    /\ ~Yields(d)
    /\ Reserve(k)
    /\ row' = [row EXCEPT ![k] = [AfterReserve(k) EXCEPT !.dispatched = TRUE]]
    /\ ticket' = [ticket EXCEPT ![d] = "submitting"]
    /\ UNCHANGED <<closed, paused, jobVars, key, followed, stop, walkVars, run,
                   admission>>

(* Asked before it was admitted anywhere: the ticket ends with no trace. *)
GiveUpWaiting(d) ==
    /\ ticket[d] = "admitting"
    /\ Admission!Withdraw(Request(d))
    /\ ticket' = [ticket EXCEPT ![d] = "idle"]
    /\ key' = [key EXCEPT ![d] = NoKey]
    /\ UNCHANGED <<rowVars, paused, jobVars, followed, stop, walkVars, run>>

-----------------------------------------------------------------------------
(* The call of agent_execute, and the agent behind it.                     *)

JobOf(k) == <<k, row[k].job>>

(* The jobs an agent may answer a key with: the key's one job, of an agent *)
(* that knows the key; a job of its own for each call, of an external one. *)
Answers(k) ==
    IF k[1] \in External THEN {i \in 1 .. MaxJobs : job[<<k, i>>] = "none"} ELSE {1}

(* The agent takes the request; its answer is on the way. *)
AgentAccepts(d) ==
    /\ ticket[d] = "submitting"
    /\ \E i \in Answers(key[d]) :
         /\ job' = [job EXCEPT ![<<key[d], i>>] = IF @ = "none" THEN "running" ELSE @]
         /\ \/ /\ ticket' = [ticket EXCEPT ![d] = "following"]
               /\ followed' = [followed EXCEPT ![d] = i]
               /\ row' = [row EXCEPT ![key[d]].job = i]
            \/ /\ ticket' = [ticket EXCEPT ![d] = "accepted"]
               /\ UNCHANGED <<row, followed>>
    /\ UNCHANGED <<last, closed, paused, cancelAsked, key, stop, walkVars, run,
                   admission>>

(* The agent refuses what it has no job for: the unit is given back. *)
AgentRefuses(d) ==
    LET k == key[d] IN
    /\ ticket[d] = "submitting"
    /\ k[1] \notin External
    /\ job[<<k, 1>>] = "none"
    /\ row' = [row EXCEPT ![k] = Settled(@, "released")]
    /\ closed' = closed \union {k[1]}
    /\ Leave(d)
    /\ UNCHANGED <<last, paused, jobVars, walkVars, run>>

(* The call fails, taken by the agent or not: the row stays reserved. *)
CallLost(d) ==
    /\ \/ ticket[d] = "accepted"
       \/ ticket[d] = "submitting" /\ "call" \in Faults
    /\ closed' = closed \union {key[d][1]}
    /\ Leave(d)
    /\ UNCHANGED <<row, last, paused, jobVars, walkVars, run>>

Terminal == {"done", "failed", "cancelled"}

JobEnds(j) ==
    /\ job[j] = "running"
    /\ \E how \in Terminal :
          /\ how = "failed" => "job" \in Faults
          /\ how = "cancelled" => j \in cancelAsked
          /\ job' = [job EXCEPT ![j] = how]
    /\ cancelAsked' = cancelAsked \ {j}
    /\ UNCHANGED <<rowVars, paused, ticketVars, walkVars, run, admission>>

-----------------------------------------------------------------------------
(* Following a job.                                                        *)

Following(d) == ticket[d] = "following"
FollowedJob(d) == <<key[d], followed[d]>>
Followed(d) == job[FollowedJob(d)]
Finished(d) == Followed(d) = "done"

(* A cancel is sent; what the agent says to it is swallowed. *)
SendCancel(j) ==
    \/ cancelAsked' = IF job[j] = "running" THEN cancelAsked \union {j}
                      ELSE cancelAsked
    \/ "cancel" \in Faults /\ UNCHANGED cancelAsked

(* Mutant: the admission is given back when the stop is asked for. *)
YieldAtOnce(d) ==
    /\ Following(d)
    /\ Yields(d)
    /\ stop' = [stop EXCEPT ![d] = "user"]
    /\ SendCancel(FollowedJob(d))
    /\ Admission!Release(Request(d))
    /\ UNCHANGED <<rowVars, paused, job, ticket, key, followed, walkVars, run>>

(* onPreempt of a followed job, or of one that was asked for before. *)
StopForUser(d) ==
    /\ Following(d)
    /\ Yields(d)
    /\ stop[d] = "no"
    /\ stop' = [stop EXCEPT ![d] = "user"]
    /\ SendCancel(FollowedJob(d))
    /\ UNCHANGED <<rowVars, paused, job, ticket, key, followed, walkVars, run,
                   admission>>

(* The ceiling of the action has passed. *)
StopForCeiling(d) ==
    /\ Following(d)
    /\ stop[d] = "no"
    /\ stop' = [stop EXCEPT ![d] = "ceiling"]
    /\ SendCancel(FollowedJob(d))
    /\ UNCHANGED <<rowVars, paused, job, ticket, key, followed, walkVars, run,
                   admission>>

(* A terminal agent_status.  Stopped for the user: the unit is given back; *)
(* at the ceiling: a failure; else, or when the job was done all the same, *)
(* completeJob.                                                            *)
ForUser(d) == ~Finished(d) /\ Yields(d) /\ stop[d] # "ceiling"
AtCeiling(d) == ~Finished(d) /\ stop[d] = "ceiling"

Verdict(d) ==
    IF ForUser(d) THEN "cancelled" ELSE IF AtCeiling(d) THEN "failed" ELSE Followed(d)

Ended(d) ==
    LET k == key[d] IN
    /\ Following(d)
    /\ Followed(d) \in Terminal
    /\ row' = [row EXCEPT ![k] =
         IF ForUser(d) THEN Settled([@ EXCEPT !.outcome = "cancelled"], "released")
         ELSE IF AtCeiling(d) THEN Settled([@ EXCEPT !.outcome = "failed"], "consumed")
         ELSE Completed(@, Followed(d))]
    /\ Leave(d)
    /\ UNCHANGED <<last, closed, paused, jobVars, walkVars, run>>

(* Mutant: an action that waits for its job to confirm the stop for ever. *)
NeverUnconfirmed(d) == FALSE /\ UNCHANGED vars

(* The agent did not confirm the stop in time: the row stays reserved. *)
Unconfirmed(d) ==
    /\ Following(d)
    /\ stop[d] # "no"
    /\ Followed(d) \notin Terminal
    /\ closed' = closed \union {key[d][1]}
    /\ Leave(d)
    /\ UNCHANGED <<row, last, paused, jobVars, walkVars, run>>

(* agent_status fails. *)
StatusLost(d) ==
    /\ Following(d)
    /\ "call" \in Faults
    /\ closed' = closed \union {key[d][1]}
    /\ Leave(d)
    /\ UNCHANGED <<row, last, paused, jobVars, walkVars, run>>

(* The signal of the ticket aborted: noticed at a call or at the next poll. *)
(* No event says so, and the job and its row go on without the ticket.     *)
Interrupted(d) ==
    /\ ticket[d] \in {"submitting", "accepted", "following"}
    /\ Leave(d)
    /\ UNCHANGED <<rowVars, paused, jobVars, walkVars, run>>

-----------------------------------------------------------------------------
(* The scan, the Stop, the user and the crash.                             *)

(* Mutant: a row without a job counts as not sent, dispatched or not. *)
UnsentBlindly(k) == row[k].job = 0

(* reconcile and the Stop read the reserved rows, and walk them in the     *)
(* order of their insertion, which is left open here: a row not sent is    *)
(* given back, a job's end is awaited.                                     *)
Unsent(k) == row[k].job = 0 /\ ~row[k].dispatched
UnsentRows == {k \in Reserved : Unsent(k)}
SentRows == {k \in Reserved : row[k].job # 0}

(* The entries of rows not sent that are left of a walk.                   *)
LeftUnsent(walk) == {k \in Keys : <<k, 0>> \in walk}
JobsLeft(walk) == walk \cap Jobs
Without(walk, now) == {e \in walk : e[2] = 0 => e[1] \notin now}

(* A walk gives back the rows `now`, whatever became of them since it read *)
(* them.                                                                   *)
GivenBack(rows, now) ==
    [k \in Keys |-> IF k \in now THEN Settled(rows[k], "released") ELSE rows[k]]

Overtaken(now) ==
    overtaken \union {k \in now : row[k].status = "reserved" /\ row[k].dispatched}

(* A scan begins.  (None does beside a cycle it knows; but a cycle found   *)
(* after a restart, or one that ended before its calls, has its tickets    *)
(* beside a scan.)                                                         *)
ScanBegins ==
    /\ ~paused
    /\ ~scanning /\ scanned = {}
    /\ scanning' = TRUE
    /\ UNCHANGED <<rowVars, paused, jobVars, ticketVars, scanned, stopVars, overtaken,
                   run, admission>>

(* reconcile reads the rows, and comes to the first whose job it awaits:   *)
(* the rows not sent before it are given back; a dispatch without a        *)
(* receipt is left alone.                                                  *)
ScanReads ==
    /\ scanning
    /\ scanning' = FALSE
    /\ \E now \in SUBSET UnsentRows :
         /\ SentRows = {} => now = UnsentRows
         /\ row' = GivenBack(row, now)
         /\ scanned' = {JobOf(k) : k \in (UnsentRows \ now) \union SentRows}
    /\ UNCHANGED <<last, closed, paused, jobVars, ticketVars, stopVars, overtaken, run,
                   admission>>

(* The status of j is here: a job that ended completes its row; one that   *)
(* runs, or whose status is not had, is passed over.  Then the walk goes   *)
(* on to the next job, by what it read of the rows before it.              *)
Reconcile(j) ==
    LET left == scanned \ {j} IN
    /\ j \in JobsLeft(scanned)
    /\ \E now \in SUBSET LeftUnsent(left) :
         /\ JobsLeft(left) = {} => now = LeftUnsent(left)
         /\ \/ /\ job[j] \in Terminal
               /\ row' = GivenBack([row EXCEPT ![j[1]] = Completed(@, job[j])], now)
            \/ /\ job[j] \notin Terminal \/ "call" \in Faults
               /\ row' = GivenBack(row, now)
         /\ scanned' = Without(left, now)
         /\ overtaken' = Overtaken(now)
    /\ UNCHANGED <<last, closed, paused, jobVars, ticketVars, scanning, stopVars, run,
                   admission>>

(* control("stop") pauses first, then takes the rows that have a job... *)
Stop ==
    /\ "stop" \in Faults
    /\ stage = "none"
    /\ stage' = "cancelling"
    /\ paused' = TRUE
    /\ stopping' = {JobOf(k) : k \in SentRows}
    /\ UNCHANGED <<rowVars, jobVars, ticketVars, scanVars, overtaken, run, admission>>

(* ...cancels each of their jobs... *)
StopCancels(j) ==
    /\ stage = "cancelling"
    /\ j \in JobsLeft(stopping)
    /\ job[j] = "running"
    /\ cancelAsked' = cancelAsked \union {j}
    /\ UNCHANGED <<rowVars, paused, job, ticketVars, walkVars, run, admission>>

(* ...reads the rows again, and walks them as reconcile does, but for a    *)
(* dispatch without a receipt, at which it throws...                       *)
StopConfirms ==
    /\ stage = "cancelling"
    /\ \A j \in stopping : job[j] = "running" => j \in cancelAsked
    /\ stage' = "confirming"
    /\ \E now \in SUBSET UnsentRows :
         /\ UnsentRows = Reserved => now = UnsentRows
         /\ row' = GivenBack(row, now)
         /\ stopping' = {JobOf(k) : k \in (UnsentRows \ now) \union SentRows}
    /\ UNCHANGED <<last, closed, paused, jobVars, ticketVars, scanVars, overtaken, run,
                   admission>>

(* ...settling a row when its job has ended, whoever else did: an agent of *)
(* MCP may already say so when it is cancelled.                            *)
StopSees(j) ==
    /\ j \in JobsLeft(stopping)
    /\ stage = "confirming" \/ j[1][1] \notin External
    /\ job[j] \in Terminal

StopSettles(j) ==
    LET left == stopping \ {j} IN
    /\ StopSees(j)
    /\ \E now \in SUBSET LeftUnsent(left) :
         /\ row' = GivenBack([row EXCEPT ![j[1]] =
                      Settled([@ EXCEPT !.outcome = "cancelled"], "consumed")], now)
         /\ stopping' = Without(left, now)
         /\ overtaken' = Overtaken(now)
    /\ UNCHANGED <<last, closed, paused, jobVars, ticketVars, scanVars, stage, run,
                   admission>>

(* The Stop is over; or it throws: a call fails, a job does not confirm in *)
(* time, or a dispatch has no receipt.                                     *)
StopEnds ==
    /\ stage # "none"
    /\ stage' = "none"
    /\ stopping' = {}
    /\ UNCHANGED <<rowVars, paused, jobVars, ticketVars, scanVars, overtaken, run,
                   admission>>

ResumeMaintenance ==
    /\ paused
    /\ stage = "none" \/ "resume" \in Faults
    /\ paused' = FALSE
    /\ UNCHANGED <<rowVars, jobVars, ticketVars, walkVars, run, admission>>

(* A run of the user: its tasks ask for the admission, and give it back. *)
RunStarts(u) ==
    /\ ~run[u]
    /\ run' = [run EXCEPT ![u] = TRUE]
    /\ UNCHANGED <<rowVars, paused, jobVars, ticketVars, walkVars, admission>>

TaskLooks(u) ==
    /\ run[u]
    /\ Admission!Look(u)
    /\ UNCHANGED <<rowVars, paused, jobVars, ticketVars, walkVars, run>>

TaskEnds(u) ==
    /\ Admission!Release(u)
    /\ UNCHANGED <<rowVars, paused, jobVars, ticketVars, walkVars, run>>

TaskAborts(u) ==
    /\ Admission!Withdraw(u)
    /\ UNCHANGED <<rowVars, paused, jobVars, ticketVars, walkVars, run>>

RunEnds(u) ==
    /\ run[u]
    /\ place[u] = "out"
    /\ run' = [run EXCEPT ![u] = FALSE]
    /\ UNCHANGED <<rowVars, paused, jobVars, ticketVars, walkVars, admission>>

(* The process dies and starts again. *)
Restarted ==
    /\ ticket' = [d \in Tickets |-> "idle"]
    /\ key' = [d \in Tickets |-> NoKey]
    /\ followed' = [d \in Tickets |-> 0]
    /\ stop' = [d \in Tickets |-> "no"]
    /\ scanning' = FALSE
    /\ scanned' = {}
    /\ stage' = "none"
    /\ stopping' = {}
    /\ run' = [u \in Users |-> FALSE]
    /\ Admission!Forget
    /\ UNCHANGED <<closed, paused, jobVars, overtaken>>

Crash == Restarted /\ UNCHANGED <<row, last>>

(* The process dies in a turn with two writes, after the first: reserved,  *)
(* and not dispatched... *)
CrashReserving(d) ==
    /\ Current(d)
    /\ ~HasRow(key[d])
    /\ Reserve(key[d])
    /\ row' = [row EXCEPT ![key[d]] = NewRow]
    /\ Restarted

(* ...or with an outcome, by the ticket, the scan or the Stop that was     *)
(* about to settle the row.                                                *)
CrashSettling(j) ==
    /\ "settle" \in Faults
    /\ job[j] \in Terminal
    /\ row[j[1]].status = "reserved"
    /\ \E how \in Terminal :
         /\ \/ \E d \in Tickets : Following(d) /\ FollowedJob(d) = j /\ how = Verdict(d)
            \/ j \in scanned /\ how = job[j]
            \/ StopSees(j) /\ how = "cancelled"
         /\ row' = [row EXCEPT ![j[1]].outcome = how]
    /\ Restarted
    /\ UNCHANGED last

-----------------------------------------------------------------------------
TicketStep(d) ==
    \/ LookAgain(d) \/ Check(d) \/ Refuse(d) \/ OverBudget(d) \/ AlreadyConsumed(d)
    \/ Resume(d) \/ Uncertain(d) \/ YieldEarly(d) \/ Dispatch(d)
    \/ AgentAccepts(d) \/ AgentRefuses(d) \/ CallLost(d)
    \/ StopForUser(d) \/ StopForCeiling(d) \/ Ended(d) \/ Unconfirmed(d)

TicketFault(d) ==
    \/ Start(d) \/ GiveUpWaiting(d) \/ StatusLost(d) \/ Interrupted(d)
    \/ CrashReserving(d)

StopStep ==
    \/ Stop \/ StopConfirms \/ StopEnds \/ ResumeMaintenance
    \/ \E j \in Jobs : StopCancels(j) \/ StopSettles(j)

UserStep(u) == RunStarts(u) \/ TaskLooks(u) \/ TaskEnds(u) \/ TaskAborts(u) \/ RunEnds(u)

Next ==
    \/ \E d \in Tickets : TicketStep(d) \/ TicketFault(d)
    \/ \E j \in Jobs : JobEnds(j)
    \/ ScanBegins \/ ScanReads \/ \E j \in Jobs : Reconcile(j)
    \/ StopStep
    \/ \E u \in Users : UserStep(u)
    \/ Crash \/ \E j \in Jobs : CrashSettling(j)

Spec == Init /\ [][Next]_vars

(* The event loop runs a ticket that can move, its calls have timeouts and *)
(* its ceilings pass; a waiting task of the user looks again.  Nothing is  *)
(* assumed of the agents, of the user, or of the end of the user's tasks.  *)
FairSpec ==
    /\ Spec
    /\ \A d \in Tickets : WF_vars(TicketStep(d))
    /\ \A u \in Users : SF_vars(TaskLooks(u) /\ place'[u] = "holding")

-----------------------------------------------------------------------------
(* Properties.                                                             *)

(* The units reserved and consumed never pass the day's limit, over every  *)
(* mix of retries, releases, re-reservations, stops and crashes.           *)
BudgetHolds == Cardinality(Reserved \union Consumed) <= Limit

(* A settled attempt is settled for good: no late ticket, scan or Stop     *)
(* takes a consumed unit back, or spends a released one after the fact.    *)
SettledOnce ==
    [][\A k \in Keys :
         /\ row[k].status = "consumed" => row'[k].status = "consumed"
         /\ row[k].status = "released" => row'[k].status # "consumed"]_vars

(* The candidates no call of which is ever asked to yield.                *)
Calm == {c \in Candidates \ External : c \in CanYield => Users = {}}

(* ...and no attempt of which was overtaken by a walk.                     *)
Untouched == {c \in Calm : \A k \in overtaken : k[1] # c}

(* However often an action of an agent that knows keys is tried, stopped   *)
(* and found again after a crash, one job of it runs.  Of the actions that *)
(* were never asked to yield only: a call that is preempted before its     *)
(* dispatch gives back the unit of a job whose receipt an earlier call     *)
(* lost (service.js:434), and after a cancelled retry the day has a second *)
(* attempt with a key of its own while that job runs.  And not of those a  *)
(* row of which a walk gave back by its old copy: this can lead to the     *)
(* same.                                                                   *)
OneJobAtATime ==
    \A c \in Untouched :
       Cardinality({j \in Jobs : j[1][1] = c /\ job[j] = "running"}) <= 1

(* A job that writes the workspace and that a ticket follows holds its     *)
(* unit of the budget until it has ended, whatever scans, Stops, crashes   *)
(* and other tickets for the same candidate do meanwhile.  One exception:  *)
(* a row that a crash left reserved and not dispatched, and that is        *)
(* dispatched while a scan or a Stop awaits the job of an earlier row: the *)
(* walk decides by its copy (service.js:498 and 654), and gives the unit   *)
(* of a job at work back.  (A job without an admission is one of an        *)
(* external runtime: see UnknownKeepsCredit.)                              *)
FollowedIsHeld ==
    \A d \in Tickets :
       Following(d) /\ TakesAdmission(d) /\ Followed(d) = "running"
          => row[key[d]].status = "reserved" \/ key[d] \in overtaken

(* The admission's two promises, with the tickets that use it. *)
AdmittedApart == Admission!AdmittedApart
UserGoesFirst == Admission!UserGoesFirst

(* The admission a ticket takes covers its work, from the dispatch to the  *)
(* last poll of a job that was told to stop: no task of the user that      *)
(* conflicts with it, and no other ticket, is at work meanwhile.           *)
WorkApart ==
    \A d \in Tickets : ticket[d] \notin {"idle", "admitting"} /\ TakesAdmission(d) =>
       /\ \A u \in Users : place[u] = "holding" => ~Admission!Conflict(u, Request(d))
       /\ \A e \in Tickets \ {d} :
            ticket[e] \notin {"idle", "admitting"} /\ TakesAdmission(e)
               => ~Admission!Conflict(Request(d), Request(e))

(* A task of the user is not held up for ever by maintenance, even by an   *)
(* agent that neither ends its job nor answers: it starts, or it is        *)
(* aborted.                                                                *)
UserIsServed == \A u \in Users : place[u] = "waiting" ~> place[u] # "waiting"

(* service.js: "An unknown effect retains its credit and blocks new        *)
(* starts"; agentic-runtime.md: "jobs still running or effects without a   *)
(* known receipt retain capacity".  A job that runs has its unit of the    *)
(* day, whether its receipt is known or not.                               *)
UnknownKeepsCredit ==
    \A k \in Keys : (\E i \in 1 .. MaxJobs : job[<<k, i>>] = "running")
       => row[k].status # "released"
=============================================================================
