----------------------- MODULE ProductionQueueProofs -----------------------
(* Theorems about ProductionQueue, for every set of requests.               *)
EXTENDS ProductionQueue, TLAPS

Touched(r) == StartAnswered(r) \/ CancelItem(r)
Called(r) == CallAccepted(r) \/ CallRefused(r) \/ CallFails(r) \/ JobEnds(r)
Polled(r) == PollReads(r) \/ PollFails(r) \/ PollApplied(r)
Turned(r) == DirectStart(r) \/ DirectAnswered(r) \/ Look(r)

(* How far a request has come: a refused one is as good as never made, a job
   comes of one call, and the item of a job was started and answered. *)
Progress ==
    \A r \in Requests :
        /\ asks[r] \in 0..1
        /\ asks[r] = 0 => job[r] = "none" /\ call[r] = "none"
        /\ item[r] = "waiting" => asks[r] = 0
        /\ call[r] \in {"sent", "refused"} => job[r] = "none"
        /\ r \in bound => asks[r] = 1 /\ call[r] = "none" /\ item[r] \notin {"absent", "starting"}

(* What an item at work is worth: a running one has a job that is followed;
   an answer finds the item it was called for, unless the user cancelled it. *)
AtWork ==
    \A r \in Requests :
        /\ item[r] = "running" => r \in bound
        /\ poll[r] = "over" => job[r] = "over"
        /\ r \notin cancelled =>
              /\ call[r] # "none" /\ r # direct => item[r] \in {"starting", "gone"}
              /\ r \in bound /\ item[r] = "over" => job[r] = "over" /\ poll[r] # "running"

IInv == TypeOK /\ Progress /\ AtWork /\ RunningIsFollowed /\ OneItemAtWork

-----------------------------------------------------------------------------
(* Types.                                                                  *)

LEMMA QueuedAreRequests == TypeOK => \A k \in DOMAIN queue : queue[k] \in Requests
  BY DEF TypeOK

CallStatus == {"none", "sent"} \union Answer

(* Starting the next item settles on one waiting item, or on none. *)
LEMMA StartNextCases ==
  ASSUME TypeOK, NEW it, NEW lv, NEW c, StartNext(it, lv, c)
  PROVE  \/ item' = it /\ call' = c /\ asks' = asks
         \/ \E q \in Requests :
              /\ ~Active(it, lv) /\ it[q] = "waiting"
              /\ item' = [it EXCEPT ![q] = "starting"]
              /\ call' = [c EXCEPT ![q] = "sent"]
              /\ asks' = [asks EXCEPT ![q] = @ + 1]
<1>1. CASE Active(it, lv) \/ Waiting(it) = {}
  BY <1>1 DEF StartNext
<1>2. CASE ~(Active(it, lv) \/ Waiting(it) = {})
  <2>1. PICK k \in Waiting(it) : /\ item' = [it EXCEPT ![queue[k]] = "starting"]
                                 /\ call' = [c EXCEPT ![queue[k]] = "sent"]
                                 /\ asks' = [asks EXCEPT ![queue[k]] = @ + 1]
    BY <1>2 DEF StartNext
  <2>2. queue[k] \in Requests /\ it[queue[k]] = "waiting"
    BY QueuedAreRequests DEF Waiting
  <2> QED BY <1>2, <2>1, <2>2
<1> QED BY <1>1, <1>2

LEMMA StartNextType ==
  ASSUME TypeOK, NEW it \in [Requests -> ItemStatus], NEW lv, NEW c \in [Requests -> CallStatus],
         StartNext(it, lv, c)
  PROVE  /\ item' \in [Requests -> ItemStatus] /\ call' \in [Requests -> CallStatus]
         /\ asks' \in [Requests -> Int]
<1>1. asks \in [Requests -> Int]
  BY DEF TypeOK
<1>2. CASE item' = it /\ call' = c /\ asks' = asks
  BY <1>1, <1>2
<1>3. ASSUME NEW q \in Requests, item' = [it EXCEPT ![q] = "starting"],
             call' = [c EXCEPT ![q] = "sent"], asks' = [asks EXCEPT ![q] = @ + 1]
      PROVE  /\ item' \in [Requests -> ItemStatus] /\ call' \in [Requests -> CallStatus]
             /\ asks' \in [Requests -> Int]
  BY <1>1, <1>3 DEF ItemStatus, CallStatus
<1> QED BY <1>2, <1>3, StartNextCases

THEOREM InitIInv == Init => IInv
<1>1. Init => TypeOK
  <2>1. <<>> \in Seq(Requests)
    OBVIOUS
  <2>2. 0 \in 0..MaxTaken
    BY QueueAssumption
  <2>3. Init => /\ item \in [Requests -> ItemStatus] /\ call \in [Requests -> CallStatus]
                /\ job \in [Requests -> JobStatus] /\ poll \in [Requests -> JobStatus]
                /\ asks \in [Requests -> Int]
    BY DEF Init, ItemStatus, Absent, CallStatus, JobStatus
  <2> QED BY <2>1, <2>2, <2>3 DEF Init, TypeOK, CallStatus
<1>2. Init => Progress /\ AtWork /\ RunningIsFollowed /\ OneItemAtWork
  BY DEF Init, Progress, AtWork, RunningIsFollowed, OneItemAtWork
<1> QED BY <1>1, <1>2 DEF IInv

LEMMA SyncedType ==
  ASSUME TypeOK, NEW r \in Requests, NEW s \in JobStatus \ {"none"}
  PROVE  Synced(r, s) \in [Requests -> ItemStatus]
  BY DEF TypeOK, Synced, JobStatus, ItemStatus

LEMMA QueueStepType == TypeOK /\ QueueStep => TypeOK'
<1> SUFFICES ASSUME TypeOK, QueueStep PROVE TypeOK'
  OBVIOUS
<1>1. CASE QueueTimer
  <2>1. StartNext(item, live, call) /\ item \in [Requests -> ItemStatus]
        /\ call \in [Requests -> CallStatus]
    BY <1>1 DEF QueueTimer, TypeOK, CallStatus
  <2>2. /\ item' \in [Requests -> ItemStatus] /\ call' \in [Requests -> CallStatus]
        /\ asks' \in [Requests -> Int]
    BY <2>1, StartNextType
  <2> QED BY <1>1, <2>2 DEF QueueTimer, TypeOK, agentVars, turnVars, CallStatus
<1>2. ASSUME NEW r \in Requests, StartAnswered(r) PROVE TypeOK'
  <2>1. AfterAnswer(call[r]) \in ItemStatus
    BY <1>2 DEF StartAnswered, AfterAnswer, Answer, ItemStatus
  <2>2. Refunded(r) \in [Requests -> Int]
    BY DEF Refunded, TypeOK
  <2>3. LiveAfter(r) \subseteq Requests
    BY DEF LiveAfter, TypeOK
  <2> QED BY <1>2, <2>1, <2>2, <2>3 DEF StartAnswered, TypeOK, agentVars, turnVars
<1>3. ASSUME NEW r \in Requests, CancelItem(r) PROVE TypeOK'
  BY <1>3 DEF CancelItem, TypeOK, agentVars, turnVars, ItemStatus
<1>4. CASE Clear
  BY <1>4 DEF Clear, TypeOK, agentVars, turnVars, histVars, ItemStatus, Absent
<1>5. CASE Purge
  BY <1>5 DEF Purge, TypeOK, agentVars, turnVars, histVars, ItemStatus, Absent
<1> QED BY <1>1, <1>2, <1>3, <1>4, <1>5 DEF QueueStep

LEMMA AgentStepType == TypeOK /\ AgentStep => TypeOK'
<1> SUFFICES ASSUME TypeOK, AgentStep PROVE TypeOK'
  OBVIOUS
<1>1. ASSUME NEW r \in Requests, Called(r) PROVE TypeOK'
  BY <1>1 DEF Called, CallAccepted, CallRefused, CallFails, JobEnds, TypeOK, queueVars,
     agentVars, turnVars, histVars, Answer, JobStatus
<1>2. CASE Taken
  BY <1>2, QueueAssumption DEF Taken, TypeOK, queueVars, histVars
<1>3. CASE GivenBack
  BY <1>3 DEF GivenBack, TypeOK, queueVars, turnVars, histVars
<1> QED BY <1>1, <1>2, <1>3 DEF AgentStep, Called

LEMMA PollStepType == TypeOK /\ PollStep => TypeOK'
<1> SUFFICES ASSUME TypeOK, NEW r \in Requests, Polled(r) PROVE TypeOK'
  BY DEF PollStep, Polled
<1>1. CASE PollReads(r) \/ PollFails(r)
  BY <1>1 DEF PollReads, PollFails, TypeOK, queueVars, agentVars, turnVars, histVars, JobStatus
<1>2. CASE PollApplied(r)
  <2>1. poll[r] \in JobStatus \ {"none"} /\ live' \subseteq Requests
        /\ poll' \in [Requests -> JobStatus] /\ call \in [Requests -> CallStatus]
    BY <1>2 DEF PollApplied, TypeOK, Seen, JobStatus, CallStatus
  <2>2. Synced(r, poll[r]) \in [Requests -> ItemStatus]
    BY <2>1, SyncedType
  <2>3. /\ item' \in [Requests -> ItemStatus] /\ call' \in [Requests -> CallStatus]
        /\ asks' \in [Requests -> Int]
    <3>1. CASE poll[r] = "over"
      BY <1>2, <2>1, <2>2, <3>1, StartNextType DEF PollApplied
    <3>2. CASE poll[r] # "over"
      BY <1>2, <2>1, <2>2, <3>2 DEF PollApplied, TypeOK
    <3> QED BY <3>1, <3>2
  <2> QED BY <1>2, <2>1, <2>3 DEF PollApplied, TypeOK, agentVars, turnVars, CallStatus
<1> QED BY <1>1, <1>2 DEF Polled

LEMMA TurnStepType == TypeOK /\ TurnStep => TypeOK'
<1> SUFFICES ASSUME TypeOK, TurnStep PROVE TypeOK'
  OBVIOUS
<1>1. CASE TurnStarts
  BY <1>1 DEF TurnStarts, TypeOK, queueVars, agentVars
<1>2. CASE TurnEnds
  BY <1>2 DEF TurnEnds, TypeOK, queueVars, agentVars
<1>3. CASE Restart
  BY <1>3 DEF Restart, TypeOK, queueVars, agentVars, JobStatus
<1>4. ASSUME NEW r \in Requests, DirectStart(r) PROVE TypeOK'
  <2>1. Append(queue, r) \in Seq(Requests)
    BY DEF TypeOK
  <2>2. CASE LockBusy(live)
    BY <1>4, <2>1, <2>2 DEF DirectStart, Enqueued, TypeOK, agentVars, ItemStatus
  <2>3. CASE ~LockBusy(live)
    <3>1. /\ direct' = r /\ item' = item /\ queue' = queue
          /\ call' = [call EXCEPT ![r] = "sent"] /\ asks' = [asks EXCEPT ![r] = @ + 1]
      BY <1>4, <2>3 DEF DirectStart
    <3>2. asks' \in [Requests -> Int]
      BY <3>1 DEF TypeOK
    <3> QED BY <1>4, <3>1, <3>2 DEF DirectStart, TypeOK, agentVars
  <2> QED BY <2>2, <2>3
<1>5. ASSUME NEW r \in Requests, DirectAnswered(r) PROVE TypeOK'
  <2>1. Append(queue, r) \in Seq(Requests)
    BY DEF TypeOK
  <2>2. Refunded(r) \in [Requests -> Int] /\ LiveAfter(r) \subseteq Requests
    BY DEF Refunded, LiveAfter, TypeOK
  <2> QED BY <1>5, <2>1, <2>2 DEF DirectAnswered, Enqueued, TypeOK, agentVars, ItemStatus
<1>6. ASSUME NEW r \in Requests, Look(r) PROVE TypeOK'
  BY <1>6 DEF Look, Seen, TypeOK, queueVars, agentVars, turnVars
<1> QED BY <1>1, <1>2, <1>3, <1>4, <1>5, <1>6 DEF TurnStep

-----------------------------------------------------------------------------
(* Progress.                                                               *)

LEMMA SyncedKeepsWaiting ==
  ASSUME TypeOK, NEW r \in Requests, NEW s \in {"running", "over"}, NEW q \in Requests
  PROVE  Synced(r, s)[q] \in {"absent", "waiting", "starting"} => item[q] = Synced(r, s)[q]
  BY DEF Synced, TypeOK

LEMMA StartNextProgress ==
  ASSUME TypeOK, Progress, NEW it \in [Requests -> ItemStatus], NEW lv,
         \A q \in Requests : it[q] \in {"absent", "waiting", "starting"} => item[q] = it[q],
         StartNext(it, lv, call), job' = job, bound' = bound
  PROVE  Progress'
<1>1. CASE item' = it /\ call' = call /\ asks' = asks
  BY <1>1 DEF Progress
<1>2. ASSUME NEW q \in Requests, it[q] = "waiting", item' = [it EXCEPT ![q] = "starting"],
             call' = [call EXCEPT ![q] = "sent"], asks' = [asks EXCEPT ![q] = @ + 1]
      PROVE  Progress'
  <2>1. asks[q] = 0 /\ job[q] = "none" /\ q \notin bound
    BY <1>2 DEF Progress
  <2> QED BY <1>2, <2>1 DEF Progress, TypeOK
<1> QED BY <1>1, <1>2, StartNextCases

LEMMA RefundedAsks ==
  ASSUME TypeOK, NEW r \in Requests
  PROVE  /\ Refunded(r) \in [Requests -> Int]
         /\ \A q \in Requests : Refunded(r)[q] = IF q = r /\ call[r] = "refused" THEN asks[q] - 1 ELSE asks[q]
  BY DEF Refunded, TypeOK

LEMMA StartAnsweredProgress ==
  ASSUME TypeOK, Progress, NEW r \in Requests, StartAnswered(r)
  PROVE  Progress'
<1>1. asks' = Refunded(r) /\ call' = [call EXCEPT ![r] = "none"] /\ job' = job
      /\ call[r] \in Answer
  BY DEF StartAnswered, agentVars
<1>2. \/ item' = [item EXCEPT ![r] = AfterAnswer(call[r])]
      \/ item' = item /\ item[r] = "gone"
  BY DEF StartAnswered
<1>3. asks[r] = 1 /\ r \notin bound
  BY <1>1 DEF Progress, Answer
<1>4. \/ bound' = bound
      \/ bound' = bound \union {r} /\ call[r] = "accepted" /\ item[r] # "gone"
  BY DEF StartAnswered
<1>5. AfterAnswer(call[r]) \in {"running", "waiting", "over"}
      /\ (AfterAnswer(call[r]) = "waiting" <=> call[r] = "refused")
      /\ (call[r] = "accepted" => AfterAnswer(call[r]) = "running")
  BY <1>1 DEF AfterAnswer, Answer
<1>6. CASE call[r] = "refused"
  <2>1. asks'[r] = 0 /\ job[r] = "none" /\ bound' = bound
    BY <1>1, <1>3, <1>4, <1>6, RefundedAsks DEF Progress
  <2>2. \A q \in Requests \ {r} : asks'[q] = asks[q] /\ call'[q] = call[q] /\ item'[q] = item[q]
    BY <1>1, <1>2, RefundedAsks DEF TypeOK
  <2>3. call'[r] = "none"
    BY <1>1 DEF TypeOK
  <2> QED BY <1>1, <1>3, <2>1, <2>2, <2>3 DEF Progress
<1>7. CASE call[r] # "refused"
  <2>1. asks'[r] = 1 /\ item'[r] \notin {"absent", "waiting", "starting"} /\ call'[r] = "none"
    BY <1>1, <1>2, <1>3, <1>5, <1>7, RefundedAsks DEF TypeOK
  <2>2. \A q \in Requests \ {r} : asks'[q] = asks[q] /\ call'[q] = call[q] /\ item'[q] = item[q]
    BY <1>1, <1>2, RefundedAsks DEF TypeOK
  <2> QED BY <1>1, <1>4, <2>1, <2>2 DEF Progress
<1> QED BY <1>6, <1>7

LEMMA QueueStepProgress == TypeOK /\ Progress /\ QueueStep => Progress'
<1> SUFFICES ASSUME TypeOK, Progress, QueueStep PROVE Progress'
  OBVIOUS
<1>1. CASE QueueTimer
  <2>1. /\ StartNext(item, live, call) /\ item \in [Requests -> ItemStatus]
        /\ job' = job /\ bound' = bound
    BY <1>1 DEF QueueTimer, TypeOK, agentVars
  <2> QED BY <2>1, StartNextProgress
<1>2. ASSUME NEW r \in Requests, CancelItem(r) PROVE Progress'
  BY <1>2 DEF CancelItem, TypeOK, Progress, agentVars
<1>3. CASE Clear
  BY <1>3 DEF Clear, TypeOK, Progress, agentVars, histVars
<1>4. CASE Purge
  BY <1>4 DEF Purge, TypeOK, Progress, agentVars, histVars
<1> QED BY <1>1, <1>2, <1>3, <1>4, StartAnsweredProgress DEF QueueStep

LEMMA AgentStepProgress == TypeOK /\ Progress /\ AgentStep => Progress'
<1> SUFFICES ASSUME TypeOK, Progress, AgentStep PROVE Progress'
  OBVIOUS
<1>1. ASSUME NEW r \in Requests, Called(r) PROVE Progress'
  BY <1>1 DEF Called, CallAccepted, CallRefused, CallFails, JobEnds, TypeOK, Progress,
     queueVars, agentVars, histVars
<1>2. CASE Taken \/ GivenBack
  BY <1>2 DEF Taken, GivenBack, TypeOK, Progress, queueVars, histVars
<1> QED BY <1>1, <1>2 DEF AgentStep, Called

LEMMA PollStepProgress == TypeOK /\ Progress /\ PollStep => Progress'
<1> SUFFICES ASSUME TypeOK, Progress, NEW r \in Requests, Polled(r) PROVE Progress'
  BY DEF PollStep, Polled
<1>1. CASE PollReads(r) \/ PollFails(r)
  BY <1>1 DEF PollReads, PollFails, Progress, queueVars, agentVars, histVars
<1>2. CASE PollApplied(r)
  <2>1. poll[r] \in {"running", "over"} /\ job' = job /\ bound' = bound
    BY <1>2 DEF PollApplied, TypeOK, JobStatus, agentVars
  <2>2. Synced(r, poll[r]) \in [Requests -> ItemStatus]
    BY <2>1, SyncedType DEF JobStatus
  <2>3. \A q \in Requests : Synced(r, poll[r])[q] \in {"absent", "waiting", "starting"}
                               => item[q] = Synced(r, poll[r])[q]
    BY <2>1, SyncedKeepsWaiting
  <2>4. CASE poll[r] = "over"
    BY <1>2, <2>1, <2>2, <2>3, <2>4, StartNextProgress DEF PollApplied
  <2>5. CASE poll[r] # "over"
    <3>1. item' = Synced(r, poll[r]) /\ call' = call /\ asks' = asks
      BY <1>2, <2>5 DEF PollApplied
    <3> QED BY <2>1, <2>3, <3>1 DEF Progress
  <2> QED BY <2>4, <2>5
<1> QED BY <1>1, <1>2 DEF Polled

LEMMA TurnStepProgress == TypeOK /\ Progress /\ TurnStep => Progress'
<1> SUFFICES ASSUME TypeOK, Progress, TurnStep PROVE Progress'
  OBVIOUS
<1>1. CASE TurnStarts \/ TurnEnds
  BY <1>1 DEF TurnStarts, TurnEnds, Progress, queueVars, agentVars
<1>2. CASE Restart
  <2>1. \A q \in Requests : job'[q] = job[q] \/ call[q] = "sent"
    BY <1>2 DEF Restart, TypeOK
  <2> QED BY <1>2, <2>1 DEF Restart, Progress, queueVars
<1>3. ASSUME NEW r \in Requests, DirectStart(r) PROVE Progress'
  <2>1. bound' = bound /\ job' = job /\ r \notin bound
    BY <1>3 DEF DirectStart, agentVars, Progress
  <2>2. CASE LockBusy(live)
    BY <1>3, <2>1, <2>2 DEF DirectStart, Enqueued, Progress, TypeOK
  <2>3. CASE ~LockBusy(live)
    <3>1. /\ item' = item /\ item[r] = "absent" /\ asks[r] = 0
          /\ call' = [call EXCEPT ![r] = "sent"] /\ asks' = [asks EXCEPT ![r] = @ + 1]
      BY <1>3, <2>3 DEF DirectStart
    <3> QED BY <2>1, <3>1 DEF Progress, TypeOK
  <2> QED BY <2>2, <2>3
<1>4. ASSUME NEW r \in Requests, DirectAnswered(r) PROVE Progress'
  <2>1. /\ asks' = Refunded(r) /\ call' = [call EXCEPT ![r] = "none"] /\ job' = job
        /\ bound' = bound /\ call[r] \in Answer
    BY <1>4 DEF DirectAnswered, agentVars
  <2>2. asks[r] = 1 /\ r \notin bound
    BY <2>1 DEF Progress, Answer
  <2>3. CASE call[r] = "refused"
    <3>1. item' = [item EXCEPT ![r] = "waiting"] /\ job[r] = "none"
      BY <1>4, <2>3 DEF DirectAnswered, Enqueued, Progress
    <3> QED BY <2>1, <2>2, <2>3, <3>1, RefundedAsks DEF Progress, TypeOK
  <2>4. CASE call[r] # "refused"
    <3>1. item' = item
      BY <1>4, <2>4 DEF DirectAnswered
    <3> QED BY <2>1, <2>2, <2>4, <3>1, RefundedAsks DEF Progress, TypeOK
  <2> QED BY <2>3, <2>4
<1>5. ASSUME NEW r \in Requests, Look(r) PROVE Progress'
  BY <1>5 DEF Look, Progress, queueVars, agentVars
<1> QED BY <1>1, <1>2, <1>3, <1>4, <1>5 DEF TurnStep

-----------------------------------------------------------------------------
(* Work.                                                                   *)

(* What an item's owner, its poll and the user leave of it. *)
Worth(r) ==
    /\ item[r] = "running" => r \in bound
    /\ poll[r] = "over" => job[r] = "over"
    /\ r \notin cancelled =>
          /\ call[r] # "none" /\ r # direct => item[r] \in {"starting", "gone"}
          /\ r \in bound /\ item[r] = "over" => job[r] = "over" /\ poll[r] # "running"

LEMMA AtWorkIsWorth == AtWork <=> \A r \in Requests : Worth(r)
  BY DEF AtWork, Worth

LEMMA StartNextAtWork ==
  ASSUME TypeOK, Progress, AtWork, NEW it \in [Requests -> ItemStatus], NEW lv,
         StartNext(it, lv, call), cancelled' = cancelled, job' = job, bound' = bound,
         direct' = direct, NEW r \in Requests,
         it[r] = "running" => r \in bound,
         poll'[r] = "over" => job[r] = "over",
         r \notin cancelled /\ call[r] # "none" /\ r # direct => it[r] \in {"starting", "gone"},
         r \notin cancelled /\ r \in bound /\ it[r] = "over" => job[r] = "over" /\ poll'[r] # "running"
  PROVE  Worth(r)'
<1>1. CASE item' = it /\ call' = call
  BY <1>1 DEF Worth
<1>2. ASSUME NEW q \in Requests, it[q] = "waiting", item' = [it EXCEPT ![q] = "starting"],
             call' = [call EXCEPT ![q] = "sent"]
      PROVE  Worth(r)'
  BY <1>2 DEF Worth, TypeOK
<1> QED BY <1>1, <1>2, StartNextCases

LEMMA QueueStepAtWork == TypeOK /\ Progress /\ AtWork /\ QueueStep => AtWork'
<1> SUFFICES ASSUME TypeOK, Progress, AtWork, QueueStep, NEW q \in Requests PROVE Worth(q)'
  BY DEF AtWork, Worth
<1> USE AtWorkIsWorth DEF Worth
<1>1. CASE QueueTimer
  <2>1. /\ StartNext(item, live, call) /\ item \in [Requests -> ItemStatus]
        /\ job' = job /\ bound' = bound /\ cancelled' = cancelled /\ direct' = direct
        /\ poll' = poll
    BY <1>1 DEF QueueTimer, TypeOK, agentVars, turnVars
  <2> QED BY <2>1, StartNextAtWork
<1>2. ASSUME NEW r \in Requests, StartAnswered(r) PROVE Worth(q)'
  <2>1. /\ call' = [call EXCEPT ![r] = "none"] /\ job' = job /\ call[r] \in Answer
        /\ poll' = poll /\ direct' = direct /\ cancelled' = cancelled
    BY <1>2 DEF StartAnswered, agentVars, turnVars
  <2>2. \/ item' = [item EXCEPT ![r] = AfterAnswer(call[r])] /\ item[r] # "gone"
        \/ item' = item /\ item[r] = "gone"
    BY <1>2 DEF StartAnswered
  <2>3. bound' = IF call[r] = "accepted" /\ item[r] # "gone" THEN bound \union {r} ELSE bound
    BY <1>2 DEF StartAnswered
  <2>4. r \notin bound
    BY <2>1 DEF Progress, Answer
  <2>5. CASE q = r
    <3>1. /\ AfterAnswer(call[r]) \in {"running", "waiting", "over"}
          /\ AfterAnswer(call[r]) = "running" <=> call[r] = "accepted"
      BY <2>1 DEF AfterAnswer, Answer
    <3>2. \/ item'[r] = AfterAnswer(call[r]) /\ item[r] # "gone"
          \/ item'[r] = "gone" /\ item[r] = "gone"
      BY <2>2 DEF TypeOK
    <3>3. call'[r] = "none"
      BY <2>1 DEF TypeOK
    <3>4. CASE call[r] = "accepted" /\ item[r] # "gone"
      BY <2>1, <2>3, <2>5, <3>1, <3>2, <3>3, <3>4
    <3>5. CASE ~(call[r] = "accepted" /\ item[r] # "gone")
      BY <2>1, <2>3, <2>4, <2>5, <3>1, <3>2, <3>3, <3>5
    <3> QED BY <3>4, <3>5
  <2>6. CASE q # r
    BY <2>1, <2>2, <2>3, <2>6 DEF TypeOK
  <2> QED BY <2>5, <2>6
<1>3. ASSUME NEW r \in Requests, CancelItem(r) PROVE Worth(q)'
  BY <1>3 DEF CancelItem, TypeOK, agentVars, turnVars
<1>4. CASE Clear
  BY <1>4 DEF Clear, TypeOK, agentVars, turnVars, histVars
<1>5. CASE Purge
  <2>1. item'[q] \in {"absent", "gone"} /\ bound' = bound /\ call' = call /\ poll' = poll
        /\ job' = job /\ cancelled' = cancelled /\ direct' = direct
        /\ (item'[q] = "absent" => item[q] = "absent")
    BY <1>5 DEF Purge, agentVars, turnVars, histVars
  <2> QED BY <2>1
<1> QED BY <1>1, <1>2, <1>3, <1>4, <1>5 DEF QueueStep

LEMMA AgentStepAtWork == TypeOK /\ Progress /\ AtWork /\ AgentStep => AtWork'
<1> SUFFICES ASSUME TypeOK, Progress, AtWork, AgentStep, NEW q \in Requests PROVE Worth(q)'
  BY DEF AtWork, Worth
<1> USE AtWorkIsWorth DEF Worth
<1>1. ASSUME NEW r \in Requests, CallAccepted(r) PROVE Worth(q)'
  <2>1. job[r] = "none" /\ r \notin bound
    BY <1>1 DEF CallAccepted, Progress
  <2> QED BY <1>1, <2>1 DEF CallAccepted, TypeOK, queueVars, turnVars, histVars
<1>2. ASSUME NEW r \in Requests, CallRefused(r) \/ CallFails(r) \/ JobEnds(r) PROVE Worth(q)'
  BY <1>2 DEF CallRefused, CallFails, JobEnds, TypeOK, queueVars, agentVars, turnVars, histVars
<1>3. CASE Taken \/ GivenBack
  BY <1>3 DEF Taken, GivenBack, TypeOK, queueVars, turnVars, histVars
<1> QED BY <1>1, <1>2, <1>3 DEF AgentStep

LEMMA PollStepAtWork == TypeOK /\ Progress /\ AtWork /\ PollStep => AtWork'
<1> SUFFICES ASSUME TypeOK, Progress, AtWork, NEW r \in Requests, Polled(r), NEW q \in Requests
             PROVE  Worth(q)'
  BY DEF AtWork, Worth, PollStep, Polled
<1> USE AtWorkIsWorth DEF Worth
<1>1. CASE PollReads(r) \/ PollFails(r)
  <2>1. \/ poll' = [poll EXCEPT ![r] = "none"]
        \/ poll' = [poll EXCEPT ![r] = job[r]]
    BY <1>1 DEF PollReads, PollFails
  <2>2. /\ item' = item /\ bound' = bound /\ call' = call /\ job' = job
        /\ cancelled' = cancelled /\ direct' = direct
    BY <1>1 DEF PollReads, PollFails, queueVars, agentVars, turnVars, histVars
  <2> QED BY <2>1, <2>2 DEF TypeOK
<1>2. CASE PollApplied(r)
  <2> DEFINE it == Synced(r, poll[r])
  <2>1. /\ poll[r] \in {"running", "over"} /\ job' = job /\ bound' = bound
        /\ poll' = [poll EXCEPT ![r] = "none"] /\ cancelled' = cancelled /\ direct' = direct
    BY <1>2 DEF PollApplied, TypeOK, JobStatus, agentVars, turnVars
  <2>2. it \in [Requests -> ItemStatus]
    BY <2>1, SyncedType DEF JobStatus
  <2>3. it[q] = item[q] \/ (q = r /\ r \in bound /\ it[r] = poll[r] /\ item[r] # "gone")
    BY DEF Synced, TypeOK
  <2>4. r \in bound => call[r] = "none"
    BY DEF Progress
  <2>5. /\ it[q] = "running" => q \in bound
        /\ poll'[q] = "over" => job[q] = "over"
        /\ q \notin cancelled /\ call[q] # "none" /\ q # direct => it[q] \in {"starting", "gone"}
        /\ q \notin cancelled /\ q \in bound /\ it[q] = "over"
             => job[q] = "over" /\ poll'[q] # "running"
    <3> HIDE DEF it
    <3> QED BY <2>1, <2>3, <2>4 DEF TypeOK
  <2>6. CASE poll[r] = "over"
    <3>1. StartNext(it, live', call)
      BY <1>2, <2>6 DEF PollApplied
    <3> HIDE DEF it
    <3> QED BY <2>1, <2>2, <2>5, <3>1, StartNextAtWork
  <2>7. CASE poll[r] # "over"
    <3>1. item' = it /\ call' = call
      BY <1>2, <2>7 DEF PollApplied
    <3> HIDE DEF it
    <3> QED BY <2>1, <2>5, <3>1
  <2> QED BY <2>6, <2>7
<1> QED BY <1>1, <1>2 DEF Polled

LEMMA TurnStepAtWork == TypeOK /\ Progress /\ AtWork /\ TurnStep => AtWork'
<1> SUFFICES ASSUME TypeOK, Progress, AtWork, TurnStep, NEW q \in Requests PROVE Worth(q)'
  BY DEF AtWork, Worth
<1> USE AtWorkIsWorth DEF Worth
<1>1. CASE TurnStarts \/ TurnEnds
  BY <1>1 DEF TurnStarts, TurnEnds, queueVars, agentVars
<1>2. CASE Restart
  <2>1. job'[q] = job[q] \/ call[q] = "sent"
    BY <1>2 DEF Restart, TypeOK
  <2>2. call'[q] = "none" /\ poll'[q] = "none" /\ item' = item /\ bound' = bound
        /\ cancelled' = cancelled
    BY <1>2 DEF Restart, queueVars
  <2>3. q \in bound => call[q] = "none"
    BY DEF Progress
  <2> QED BY <2>1, <2>2, <2>3
<1>3. ASSUME NEW r \in Requests, DirectStart(r) PROVE Worth(q)'
  <2>1. bound' = bound /\ job' = job /\ poll' = poll /\ cancelled' = cancelled /\ r \notin bound
        /\ call[r] = "none" /\ item[r] = "absent" /\ direct = None
    BY <1>3 DEF DirectStart, agentVars, Progress
  <2>2. CASE LockBusy(live)
    BY <1>3, <2>1, <2>2 DEF DirectStart, Enqueued, TypeOK
  <2>3. CASE ~LockBusy(live)
    <3>1. item' = item /\ direct' = r /\ call' = [call EXCEPT ![r] = "sent"]
      BY <1>3, <2>3 DEF DirectStart
    <3>2. q # direct
      BY <2>1, QueueAssumption
    <3> QED BY <2>1, <3>1, <3>2 DEF TypeOK
  <2> QED BY <2>2, <2>3
<1>4. ASSUME NEW r \in Requests, DirectAnswered(r) PROVE Worth(q)'
  <2>1. /\ call' = [call EXCEPT ![r] = "none"] /\ job' = job /\ bound' = bound
        /\ call[r] \in Answer /\ poll' = poll /\ cancelled' = cancelled /\ direct = r
    BY <1>4 DEF DirectAnswered, agentVars
  <2>2. r \notin bound
    BY <2>1 DEF Progress, Answer
  <2>3. item' = item \/ item' = [item EXCEPT ![r] = "waiting"]
    BY <1>4 DEF DirectAnswered, Enqueued
  <2> QED BY <2>1, <2>2, <2>3 DEF TypeOK
<1>5. ASSUME NEW r \in Requests, Look(r) PROVE Worth(q)'
  BY <1>5 DEF Look, queueVars, agentVars, turnVars
<1> QED BY <1>1, <1>2, <1>3, <1>4, <1>5 DEF TurnStep

-----------------------------------------------------------------------------
(* Running items are followed, and one item is at work.                    *)

Working(q) == item[q] \in {"starting", "running"}

(* What StartNext may make of the items it is given. *)
LEMMA StartNextOne ==
  ASSUME TypeOK, NEW it \in [Requests -> ItemStatus], NEW lv, StartNext(it, lv, call)
  PROVE  /\ \A q \in Requests : item'[q] = "running" => it[q] = "running"
         /\ \/ \A q \in Requests : Working(q)' => it[q] \in {"starting", "running"}
            \/ \A q, s \in Requests : Working(q)' /\ Working(s)' => q = s
<1>1. CASE item' = it
  BY <1>1 DEF Working
<1>2. ASSUME NEW n \in Requests, ~Active(it, lv), item' = [it EXCEPT ![n] = "starting"]
      PROVE  /\ \A q \in Requests : item'[q] = "running" => it[q] = "running"
             /\ \A q, s \in Requests : Working(q)' /\ Working(s)' => q = s
  BY <1>2 DEF Active, Working
<1> QED BY <1>1, <1>2, StartNextCases

Followed == \A r \in Requests : item[r] = "running" => r \in live
OneWorks == \A r, s \in Requests \ cancelled : Working(r) /\ Working(s) => r = s

LEMMA Unfolded == (RunningIsFollowed <=> forgot \/ Followed) /\ (OneItemAtWork <=> forgot \/ OneWorks)
  BY DEF RunningIsFollowed, OneItemAtWork, Followed, OneWorks, Working

(* An item that has its job and that the user left alone is at work as long
   as a poll finds the job at work. *)
LEMMA BoundItem ==
  ASSUME TypeOK, Progress, AtWork, NEW r \in Requests \ cancelled,
         r \in bound, item[r] # "gone", poll[r] = "running"
  PROVE  item[r] = "running"
<1>1. item[r] \in {"running", "over"}
  BY DEF TypeOK, ItemStatus, Absent, Progress, AtWork
<1> QED BY <1>1 DEF AtWork

(* A step that leaves behind no item keeps both. *)
LEMMA QueueStepWork ==
  ASSUME TypeOK, Progress, AtWork, Followed, OneWorks, QueueStep
  PROVE  Followed' /\ OneWorks'
<1>1. CASE QueueTimer
  <2>1. StartNext(item, live, call) /\ item \in [Requests -> ItemStatus]
        /\ live' = live /\ cancelled' = cancelled
    BY <1>1 DEF QueueTimer, TypeOK
  <2> QED BY <2>1, StartNextOne DEF Followed, OneWorks, Working
<1>2. ASSUME NEW r \in Requests, StartAnswered(r) PROVE Followed' /\ OneWorks'
  <2>1. /\ call[r] \in Answer /\ r # direct /\ live' = LiveAfter(r) /\ cancelled' = cancelled
    BY <1>2 DEF StartAnswered
  <2>2. \/ item' = [item EXCEPT ![r] = AfterAnswer(call[r])] /\ item[r] # "gone"
        \/ item' = item
    BY <1>2 DEF StartAnswered
  <2>3. \A q \in Requests \ {r} : item'[q] = item[q]
    BY <2>2 DEF TypeOK
  <2>4. item'[r] = item[r] \/ (item'[r] = AfterAnswer(call[r]) /\ item[r] # "gone")
    BY <2>2 DEF TypeOK
  <2>5. Followed'
    BY <2>1, <2>3, <2>4 DEF Followed, LiveAfter, AfterAnswer, Answer
  <2>6. r \notin cancelled /\ item[r] # "gone" => item[r] = "starting"
    BY <2>1 DEF AtWork, Answer
  <2>7. \A q \in Requests \ cancelled : Working(q)' => Working(q)
    BY <2>3, <2>4, <2>6 DEF Working
  <2> QED BY <2>1, <2>5, <2>7 DEF OneWorks
<1>3. ASSUME NEW r \in Requests, CancelItem(r) PROVE Followed' /\ OneWorks'
  BY <1>3 DEF CancelItem, Followed, OneWorks, Working, TypeOK
<1>4. CASE Clear
  BY <1>4 DEF Clear, Followed, OneWorks, Working, TypeOK, histVars
<1>5. CASE Purge
  BY <1>5 DEF Purge, Followed, OneWorks, Working, TypeOK, histVars
<1> QED BY <1>1, <1>2, <1>3, <1>4, <1>5 DEF QueueStep

LEMMA AgentStepWork ==
  ASSUME Followed, OneWorks, AgentStep
  PROVE  Followed' /\ OneWorks'
<1>1. item' = item /\ live' = live /\ cancelled' = cancelled
  BY DEF AgentStep, CallAccepted, CallRefused, CallFails, JobEnds, Taken, GivenBack,
     queueVars, histVars
<1> QED BY <1>1 DEF Followed, OneWorks, Working

LEMMA PollStepWork ==
  ASSUME TypeOK, Progress, AtWork, Followed, OneWorks, PollStep
  PROVE  Followed' /\ OneWorks'
<1>1. PICK r \in Requests : Polled(r)
  BY DEF PollStep, Polled
<1>2. CASE PollReads(r) \/ PollFails(r)
  BY <1>2 DEF PollReads, PollFails, queueVars, histVars, Followed, OneWorks, Working
<1>3. CASE PollApplied(r)
  <2> DEFINE it == Synced(r, poll[r])
  <2>1. poll[r] \in {"running", "over"} /\ cancelled' = cancelled /\ live' = Seen(r, poll[r])
    BY <1>3 DEF PollApplied, TypeOK, JobStatus
  <2>2. it \in [Requests -> ItemStatus]
    BY <2>1, SyncedType DEF JobStatus
  <2>3. \A q \in Requests :
          \/ it[q] = item[q] /\ (q = r => r \notin bound \/ item[r] = "gone")
          \/ q = r /\ r \in bound /\ it[r] = poll[r] /\ item[r] # "gone"
    BY DEF Synced, TypeOK
  <2>4. \A q \in Requests : it[q] = "running" => q \in live'
    BY <2>1, <2>3 DEF Followed, AtWork, Seen
  <2>5. r \in bound => asks[r] = 1 /\ item[r] # "starting"
    BY DEF Progress
  <2>6. \A q \in Requests \ cancelled : it[q] \in {"starting", "running"} => Working(q)
    <3> SUFFICES ASSUME NEW q \in Requests \ cancelled, it[q] \in {"starting", "running"}
                 PROVE  Working(q)
      OBVIOUS
    <3>1. CASE it[q] = item[q]
      BY <3>1 DEF Working
    <3>2. CASE q = r /\ r \in bound /\ it[r] = poll[r] /\ item[r] # "gone"
      BY <2>1, <3>2, BoundItem DEF Working
    <3> QED BY <2>3, <3>1, <3>2
  <2>7. CASE poll[r] = "over"
    <3>1. StartNext(it, live', call)
      BY <1>3, <2>7 DEF PollApplied
    <3> HIDE DEF it
    <3> QED BY <2>1, <2>2, <2>4, <2>6, <3>1, StartNextOne DEF Followed, OneWorks
  <2>8. CASE poll[r] # "over"
    <3>1. item' = it
      BY <1>3, <2>8 DEF PollApplied
    <3> HIDE DEF it
    <3> QED BY <2>1, <2>4, <2>6, <3>1 DEF Followed, OneWorks, Working
  <2> QED BY <2>7, <2>8
<1> QED BY <1>1, <1>2, <1>3 DEF Polled

LEMMA TurnStepWork ==
  ASSUME TypeOK, Followed, OneWorks, TurnStep, ~forgot'
  PROVE  Followed' /\ OneWorks'
<1>1. CASE TurnStarts \/ TurnEnds \/ \E r \in Requests : Look(r)
  <2>1. item' = item /\ cancelled' = cancelled /\ Orphaned(item, live', call) = {}
    BY <1>1 DEF TurnStarts, TurnEnds, Look, queueVars
  <2>2. \A q \in Requests : item[q] = "running" => q \in live'
    BY <2>1 DEF Orphaned
  <2> QED BY <2>1, <2>2 DEF Followed, OneWorks, Working
<1>2. CASE Restart
  BY <1>2 DEF Restart, queueVars, Followed, OneWorks, Working
<1>3. ASSUME NEW r \in Requests, DirectStart(r) \/ DirectAnswered(r) PROVE Followed' /\ OneWorks'
  <2>1. live \subseteq live' /\ cancelled' = cancelled
    BY <1>3 DEF DirectStart, DirectAnswered, LiveAfter
  <2>2. item' = item \/ item' = [item EXCEPT ![r] = "waiting"]
    BY <1>3 DEF DirectStart, DirectAnswered, Enqueued
  <2> QED BY <2>1, <2>2 DEF Followed, OneWorks, Working, TypeOK
<1> QED BY <1>1, <1>2, <1>3 DEF TurnStep

LEMMA ForgotStays == TypeOK /\ Next /\ forgot => forgot'
  BY DEF Next, QueueStep, AgentStep, PollStep, TurnStep, QueueTimer, StartAnswered, CancelItem,
     Clear, Purge, CallAccepted, CallRefused, CallFails, JobEnds, Taken, GivenBack, PollReads,
     PollFails, PollApplied, TurnStarts, TurnEnds, Restart, DirectStart, DirectAnswered, Look,
     histVars

-----------------------------------------------------------------------------
(* The theorems.                                                           *)

LEMMA NextIInv == IInv /\ [Next]_vars => IInv'
<1> SUFFICES ASSUME IInv, [Next]_vars PROVE IInv'
  OBVIOUS
<1>1. TypeOK /\ Progress /\ AtWork /\ RunningIsFollowed /\ OneItemAtWork
  BY DEF IInv
<1>2. CASE Next
  <2>1. TypeOK'
    BY <1>1, <1>2, QueueStepType, AgentStepType, PollStepType, TurnStepType DEF Next
  <2>2. Progress'
    BY <1>1, <1>2, QueueStepProgress, AgentStepProgress, PollStepProgress, TurnStepProgress DEF Next
  <2>3. AtWork'
    BY <1>1, <1>2, QueueStepAtWork, AgentStepAtWork, PollStepAtWork, TurnStepAtWork DEF Next
  <2>4. CASE forgot'
    BY <2>1, <2>2, <2>3, <2>4 DEF IInv, RunningIsFollowed, OneItemAtWork
  <2>5. CASE ~forgot'
    <3>1. Followed /\ OneWorks
      BY <1>1, <1>2, <2>5, ForgotStays, Unfolded
    <3>2. Followed' /\ OneWorks'
      BY <1>1, <1>2, <2>5, <3>1, QueueStepWork, AgentStepWork, PollStepWork, TurnStepWork DEF Next
    <3>3. RunningIsFollowed' /\ OneItemAtWork'
      BY <3>2 DEF RunningIsFollowed, OneItemAtWork, Followed, OneWorks, Working
    <3> QED BY <2>1, <2>2, <2>3, <3>3 DEF IInv
  <2> QED BY <2>4, <2>5
<1>3. CASE UNCHANGED vars
  BY <1>1, <1>3 DEF IInv, vars, queueVars, agentVars, turnVars, histVars, TypeOK, Progress, AtWork,
     RunningIsFollowed, OneItemAtWork
<1> QED BY <1>2, <1>3

LEMMA AlwaysIInv == Spec => []IInv
<1>1. Init => IInv
  BY InitIInv
<1> QED BY <1>1, NextIInv, PTL DEF Spec

(* The variables have their types, for every set of requests.              *)
THEOREM QueueTypeCorrect == Spec => []TypeOK
<1>1. IInv => TypeOK
  BY DEF IInv
<1> QED BY <1>1, AlwaysIInv, PTL

(* A request that was not refused is put to the agent once: jobQueue.js sets
   an item back to waiting only on workspace_busy.                         *)
THEOREM RequestsAreMadeOnce == Spec => []RequestedOnce
<1>1. IInv => RequestedOnce
  BY DEF IInv, Progress, RequestedOnce
<1> QED BY <1>1, AlwaysIInv, PTL

(* The queue works at one item, as long as the user cancels none in mid call
   and no turn leaves one behind.                                          *)
THEOREM QueueWorksAtOneItem == Spec => []OneItemAtWork
<1>1. IInv => OneItemAtWork
  BY DEF IInv
<1> QED BY <1>1, AlwaysIInv, PTL

(* A running item has its activity, by which its end will be seen.         *)
THEOREM RunningItemsAreFollowed == Spec => []RunningIsFollowed
<1>1. IInv => RunningIsFollowed
  BY DEF IInv
<1> QED BY <1>1, AlwaysIInv, PTL
=============================================================================
