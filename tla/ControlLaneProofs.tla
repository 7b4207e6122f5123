------------------------- MODULE ControlLaneProofs -------------------------
(* Theorems about ControlLane, for every set of requests and chains.        *)
EXTENDS ControlLane, WellFoundedInduction, TLAPS

LaneType == [running : BOOLEAN, controller : Runs \union {None},
             currentRun : Runs \union {None}, promise : Runs \union {None}]

LEMMA PredecessorsAreItems == \A i \in Items : Predecessors(i) \subseteq Items
  BY DEF Predecessors, Items, Members

LEMMA PropagatedType ==
  ASSUME NEW it \in [Items -> ItemStatus]
  PROVE  Propagated(it) \in [Items -> ItemStatus]
  BY DEF Propagated, ItemStatus, Terminal, Blocking

(* The queue with its first runnable item running. *)
Taken(it, n) == [Propagated(it) EXCEPT ![n] = "running"]

(* What the drain of a free lane does: it starts one runnable item or none. *)
LEMMA DrainCases ==
  ASSUME NEW qu \in Seq(Items), NEW it, NEW ph, NEW rw, NEW l, NEW a,
         Drain(qu, it, ph, rw, l, a)
  PROVE  \/ \E n \in Items :
              /\ Runnable(Propagated(it), n)
              /\ Started(n, Taken(it, n), ph, rw)
         \/ item' = Propagated(it) /\ phase' = ph /\ row' = rw /\ lane' = l /\ act' = a
<1>1. \A k \in DOMAIN qu : qu[k] \in Items
  OBVIOUS
<1> QED BY <1>1 DEF Drain, Taken

LEMMA StartedType ==
  ASSUME NEW r \in Runs, NEW it \in [Items -> ItemStatus], NEW ph \in [Runs -> Phase],
         NEW rw \in [Runs -> RowStatus], Started(r, it, ph, rw)
  PROVE  /\ item' \in [Items -> ItemStatus] /\ phase' \in [Runs -> Phase]
         /\ row' \in [Runs -> RowStatus] /\ lane' \in LaneType /\ act' \in BOOLEAN
  BY DEF Started, Phase, RowStatus, LaneType

LEMMA DrainType ==
  ASSUME NEW qu \in Seq(Items), NEW it \in [Items -> ItemStatus], NEW ph \in [Runs -> Phase],
         NEW rw \in [Runs -> RowStatus], NEW l \in LaneType, NEW a \in BOOLEAN,
         Drain(qu, it, ph, rw, l, a)
  PROVE  /\ item' \in [Items -> ItemStatus] /\ phase' \in [Runs -> Phase]
         /\ row' \in [Runs -> RowStatus] /\ lane' \in LaneType /\ act' \in BOOLEAN
<1>1. Propagated(it) \in [Items -> ItemStatus]
  BY PropagatedType
<1>2. CASE item' = Propagated(it) /\ phase' = ph /\ row' = rw /\ lane' = l /\ act' = a
  BY <1>1, <1>2
<1>3. ASSUME NEW n \in Items, Started(n, Taken(it, n), ph, rw)
      PROVE  /\ item' \in [Items -> ItemStatus] /\ phase' \in [Runs -> Phase]
             /\ row' \in [Runs -> RowStatus] /\ lane' \in LaneType /\ act' \in BOOLEAN
  <2>1. Taken(it, n) \in [Items -> ItemStatus]
    BY <1>1 DEF ItemStatus, Taken
  <2>2. n \in Runs
    BY DEF Runs
  <2> QED BY <1>3, <2>1, <2>2, StartedType
<1> QED BY <1>2, <1>3, DrainCases

LEMMA TypeLane == TypeOK => lane \in LaneType
  BY DEF TypeOK, LaneType

LEMMA DrainIfFreeType ==
  ASSUME TypeOK, NEW qu \in Seq(Items), NEW it \in [Items -> ItemStatus], DrainIfFree(qu, it)
  PROVE  /\ item' \in [Items -> ItemStatus] /\ phase' \in [Runs -> Phase]
         /\ row' \in [Runs -> RowStatus] /\ lane' \in LaneType /\ act' \in BOOLEAN
  BY DrainType, TypeLane DEF DrainIfFree, TypeOK

LEMMA EndedType ==
  ASSUME TypeOK, NEW r \in Runs, NEW outcome \in {"done", "error", "cancelled"},
         IF lane.currentRun = r THEN Ended(r, outcome) ELSE RecoveredEnded(r, outcome)
  PROVE  /\ item' \in [Items -> ItemStatus] /\ phase' \in [Runs -> Phase]
         /\ row' \in [Runs -> RowStatus] /\ lane' \in LaneType /\ act' \in BOOLEAN
<1> DEFINE rw == [row EXCEPT ![r] = outcome]
<1>1. ItemAfter(r, outcome) \in [Items -> ItemStatus]
  BY DEF ItemAfter, TypeOK, ItemStatus, Terminal, Blocking
<1>2. PhaseAfter(r) \in [Runs -> Phase]
  BY DEF PhaseAfter, TypeOK, Phase
<1>3. rw \in [Runs -> RowStatus]
  BY DEF TypeOK, RowStatus
<1>4. LaneAfter(r) \in LaneType
  BY DEF TypeOK, LaneAfter, LaneType
<1>5. ActAfter(outcome) \in BOOLEAN
  BY DEF ActAfter, TypeOK
<1>6. CASE Ended(r, outcome)
  <2>1. queue \in Seq(Items)
    BY DEF TypeOK
  <2>2. Drain(queue, ItemAfter(r, outcome), PhaseAfter(r), rw,
              LaneAfter(r), ActAfter(outcome))
    BY <1>6 DEF Ended
  <2> HIDE DEF rw
  <2> QED BY <1>1, <1>2, <1>3, <1>4, <1>5, <2>1, <2>2, DrainType
<1>7. CASE RecoveredEnded(r, outcome)
  BY <1>1, <1>2, <1>3, <1>5, <1>7 DEF RecoveredEnded, TypeOK, LaneType
<1> QED BY <1>6, <1>7

LEMMA OutcomesType == \A r \in Runs : Outcomes(r) \subseteq {"done", "error", "cancelled"}
  BY DEF Outcomes

LEMMA MarkedAreItems ==
  \A b \in Batches : /\ Members(b) \subseteq Items
                     /\ b \in Seq(Items)
<1> SUFFICES ASSUME NEW b \in Batches
             PROVE  Members(b) \subseteq Items /\ b \in Seq(Items)
  OBVIOUS
<1>1. Members(b) \subseteq Items
  BY DEF Items
<1>2. b \in Seq(Members(b))
  BY BatchesAreApart
<1> QED BY <1>1, <1>2

LEMMA KillEffectsType ==
  ASSUME TypeOK, NEW target, NEW purge \in BOOLEAN, KillEffects(target, purge)
  PROVE  /\ item' \in [Items -> ItemStatus] /\ row' \in [Runs -> RowStatus]
         /\ queue' \in Seq(Items) /\ act' \in BOOLEAN
<1>1. /\ item \in [Items -> ItemStatus] /\ row \in [Runs -> RowStatus]
      /\ queue \in Seq(Items) /\ act \in BOOLEAN
  BY DEF TypeOK
<1>2. CASE purge
  <2>1. <<>> \in Seq(Items)
    OBVIOUS
  <2> QED BY <1>1, <1>2, <2>1 DEF KillEffects, QueueCancelled, ItemStatus, RowStatus
<1>3. CASE ~purge
  BY <1>1, <1>3 DEF KillEffects, QueueCancelled, ItemStatus, Terminal, Blocking, RowStatus
<1> QED BY <1>2, <1>3

LEMMA KillListsType ==
  ASSUME TypeOK, NEW target \in Runs \union {None}, NEW purge \in BOOLEAN,
         KillLists(target, purge)
  PROVE  /\ item' \in [Items -> ItemStatus] /\ row' \in [Runs -> RowStatus]
         /\ queue' \in Seq(Items) /\ act' \in BOOLEAN
         /\ kill' \in [stage : {"idle", "waiting", "cancelling"},
                       target : Runs \union {None}, purge : BOOLEAN]
<1>1. CASE Orphans(target) # {}
  BY <1>1 DEF KillLists, TypeOK
<1>2. CASE Orphans(target) = {}
  <2>1. KillEffects(target, purge) /\ kill' = NoKill
    BY <1>2 DEF KillLists
  <2>2. kill' \in [stage : {"idle", "waiting", "cancelling"},
                   target : Runs \union {None}, purge : BOOLEAN]
    BY <2>1 DEF NoKill
  <2> QED BY <2>1, <2>2, KillEffectsType
<1> QED BY <1>1, <1>2

LEMMA ChainCancelledType ==
  ASSUME TypeOK, NEW r
  PROVE  ChainCancelled(r) \in [Items -> ItemStatus]
  BY DEF ChainCancelled, TypeOK, ItemStatus, Terminal, Blocking

LEMMA StartRecoveredType ==
  ASSUME TypeOK, NEW r \in Runs, StartRecovered(r)
  PROVE  /\ phase' \in [Runs -> Phase] /\ lane' \in LaneType /\ resumed' \in BOOLEAN
  BY DEF StartRecovered, TypeOK, Phase, LaneType

LEMMA InitType == Init => TypeOK
<1> SUFFICES ASSUME Init
             PROVE  TypeOK
  OBVIOUS
<1>1. /\ item \in [Items -> ItemStatus] /\ phase \in [Runs -> Phase] /\ row \in [Runs -> RowStatus]
  BY DEF Init, ItemStatus, Phase, RowStatus
<1>2. queue \in Seq(Items) /\ boots \in 0..MaxBoots
  BY RequestsAreRuns DEF Init
<1>3. lane \in LaneType /\ kill \in [stage : {"idle", "waiting", "cancelling"},
                                     target : Runs \union {None}, purge : BOOLEAN]
  BY DEF Init, Idle, NoKill, LaneType
<1> QED BY <1>1, <1>2, <1>3 DEF Init, TypeOK, LaneType

LEMMA RequestType ==
  ASSUME TypeOK, RequestStep
  PROVE  TypeOK'
<1>1. ASSUME NEW d \in Direct, PostRun(d)
      PROVE  TypeOK'
  <2>1. d \in Runs
    BY DEF Runs
  <2>2. Started(d, item, phase, row)
    BY <1>1 DEF PostRun
  <2>3. /\ item' \in [Items -> ItemStatus] /\ phase' \in [Runs -> Phase]
        /\ row' \in [Runs -> RowStatus] /\ lane' \in LaneType /\ act' \in BOOLEAN
    BY <2>1, <2>2, StartedType DEF TypeOK
  <2> QED BY <1>1, <2>3 DEF PostRun, TypeOK, recVars, stopVars, LaneType
<1>2. ASSUME NEW b \in Batches, NEW marked \in SUBSET (Members(b) \intersect Markable),
             Enqueue(b, marked)
      PROVE  TypeOK'
  <2> DEFINE it == [i \in Items |-> IF i \in Members(b) THEN "queued" ELSE item[i]]
  <2>1. it \in [Items -> ItemStatus]
    BY DEF TypeOK, ItemStatus
  <2>2. queue \o b \in Seq(Items)
    BY MarkedAreItems DEF TypeOK
  <2>3. DrainIfFree(queue \o b, it)
    BY <1>2 DEF Enqueue
  <2>4. /\ item' \in [Items -> ItemStatus] /\ phase' \in [Runs -> Phase]
        /\ row' \in [Runs -> RowStatus] /\ lane' \in LaneType /\ act' \in BOOLEAN
    <3> HIDE DEF it
    <3> QED BY <2>1, <2>2, <2>3, DrainIfFreeType
  <2>5. tolerant' \subseteq Items
    BY <1>2, MarkedAreItems DEF Enqueue, TypeOK
  <2> QED BY <1>2, <2>2, <2>4, <2>5 DEF Enqueue, TypeOK, recVars, stopVars, LaneType
<1>3. ASSUME NEW i \in Items, CancelItem(i)
      PROVE  TypeOK'
  <2> DEFINE it == [j \in Items |->
              IF j = i THEN "cancelled"
              ELSE IF i \notin tolerant /\ i \in Predecessors(j) /\ item[j] = "queued"
                   THEN "skipped" ELSE item[j]]
  <2>1. it \in [Items -> ItemStatus]
    BY DEF TypeOK, ItemStatus, Terminal, Blocking
  <2>2. queue \in Seq(Items)
    BY DEF TypeOK
  <2>3. DrainIfFree(queue, it)
    BY <1>3 DEF CancelItem
  <2>4. /\ item' \in [Items -> ItemStatus] /\ phase' \in [Runs -> Phase]
        /\ row' \in [Runs -> RowStatus] /\ lane' \in LaneType /\ act' \in BOOLEAN
    <3> HIDE DEF it
    <3> QED BY <2>1, <2>2, <2>3, DrainIfFreeType
  <2> QED BY <1>3, <2>4 DEF CancelItem, TypeOK, recVars, stopVars, LaneType
<1> QED BY <1>1, <1>2, <1>3 DEF RequestStep

LEMMA RunType ==
  ASSUME TypeOK, RunStep
  PROVE  TypeOK'
<1> SUFFICES ASSUME NEW r \in Runs,
                    AsksApproval(r) \/ Approve(r) \/ JobStarts(r) \/ JobSettled(r) \/ RunEnds(r)
             PROVE  TypeOK'
  BY DEF RunStep
<1>1. CASE AsksApproval(r) \/ Approve(r)
  BY <1>1 DEF AsksApproval, Approve, TypeOK, Phase, RowStatus, recVars, stopVars
<1>2. CASE JobStarts(r) \/ JobSettled(r)
  BY <1>2 DEF JobStarts, JobSettled, TypeOK, recVars, stopVars
<1>3. CASE RunEnds(r)
  <2>1. PICK outcome \in {"done", "error", "cancelled"} :
            IF lane.currentRun = r THEN Ended(r, outcome) ELSE RecoveredEnded(r, outcome)
    BY <1>3, OutcomesType DEF RunEnds
  <2>2. /\ item' \in [Items -> ItemStatus] /\ phase' \in [Runs -> Phase]
        /\ row' \in [Runs -> RowStatus] /\ lane' \in LaneType /\ act' \in BOOLEAN
    BY <2>1, EndedType
  <2> QED BY <1>3, <2>2 DEF RunEnds, TypeOK, recVars, LaneType
<1> QED BY <1>1, <1>2, <1>3

LEMMA StopType ==
  ASSUME TypeOK, StopStep
  PROVE  TypeOK'
<1>0. Aborted \subseteq Runs
  BY DEF Aborted, TypeOK
<1>1. CASE Cancel \/ CancelByMessage
  BY <1>0, <1>1, ChainCancelledType DEF Cancel, CancelByMessage, TypeOK, laneVars, recVars
<1>2. CASE CancelIdle
  BY <1>2 DEF CancelIdle, TypeOK, laneVars, recVars
<1>3. ASSUME NEW r \in Runs, StopOrphan(r)
      PROVE  TypeOK'
  BY <1>3, ChainCancelledType DEF StopOrphan, TypeOK, RowStatus, recVars
<1>4. ASSUME NEW target \in Runs \union {None}, NEW purge \in BOOLEAN, KillRequest(target, purge)
      PROVE  TypeOK'
  <2>1. aborted' \subseteq Runs
    BY <1>0, <1>4 DEF KillRequest, TypeOK
  <2>2. /\ item' \in [Items -> ItemStatus] /\ row' \in [Runs -> RowStatus]
        /\ queue' \in Seq(Items) /\ act' \in BOOLEAN
        /\ kill' \in [stage : {"idle", "waiting", "cancelling"},
                      target : Runs \union {None}, purge : BOOLEAN]
    <3>1. CASE purge /\ lane.promise # None
      <4>1. /\ kill' = [stage |-> "waiting", target |-> target, purge |-> purge]
            /\ UNCHANGED <<item, queue, row, act>>
        BY <1>4, <3>1 DEF KillRequest
      <4>2. kill' \in [stage : {"idle", "waiting", "cancelling"},
                       target : Runs \union {None}, purge : BOOLEAN]
        BY <4>1
      <4> QED BY <4>1, <4>2 DEF TypeOK
    <3>2. CASE ~(purge /\ lane.promise # None)
      BY <1>4, <3>2, KillListsType DEF KillRequest
    <3> QED BY <3>1, <3>2
  <2> QED BY <1>4, <2>1, <2>2 DEF KillRequest, TypeOK, recVars
<1>5. CASE KillWaited
  <2>1. kill.target \in Runs \union {None} /\ kill.purge \in BOOLEAN
    BY DEF TypeOK
  <2> QED BY <1>5, <2>1, KillListsType DEF KillWaited, TypeOK, recVars
<1>6. CASE KillFinishes
  <2>1. kill.purge \in BOOLEAN
    BY DEF TypeOK
  <2>2. /\ item' \in [Items -> ItemStatus] /\ row' \in [Runs -> RowStatus]
        /\ queue' \in Seq(Items) /\ act' \in BOOLEAN
    BY <1>6, <2>1, KillEffectsType DEF KillFinishes
  <2> QED BY <1>6, <2>2 DEF KillFinishes, TypeOK, recVars, NoKill
<1> QED BY <1>1, <1>2, <1>3, <1>4, <1>5, <1>6 DEF StopStep

LEMMA RecoveryType ==
  ASSUME TypeOK, RecoveryStep
  PROVE  TypeOK'
<1>1. CASE Restart
  <2>1. /\ item' \in [Items -> ItemStatus] /\ phase' \in [Runs -> Phase]
        /\ lane' \in LaneType /\ boots' \in 0..MaxBoots
    BY <1>1, RequestsAreRuns DEF Restart, QueueCancelled, TypeOK, ItemStatus, Terminal, Blocking, Phase, Idle, LaneType
  <2> QED BY <1>1, <2>1 DEF Restart, QueueCancelled, TypeOK, NoKill, LaneType
<1>2. CASE Resume \/ RecoveryLists
  BY <1>2 DEF Resume, RecoveryLists, TypeOK, laneVars, stopVars
<1>3. CASE RecoveryFails
  BY <1>3 DEF RecoveryFails, TypeOK, RowStatus, stopVars
<1>4. ASSUME NEW r \in Runs, RecoverRun(r)
      PROVE  TypeOK'
  BY <1>4 DEF RecoverRun, TypeOK, RowStatus, stopVars
<1>5. CASE RecoveryEnds
  <2> DEFINE Typed == /\ item' \in [Items -> ItemStatus] /\ phase' \in [Runs -> Phase]
                     /\ row' \in [Runs -> RowStatus] /\ lane' \in LaneType /\ act' \in BOOLEAN
                     /\ watch' \in Runs \union {None} /\ resumed' \in BOOLEAN
  <2>1. Typed
    <3>1. ASSUME NEW r \in Running, StartRecovered(r), UNCHANGED <<item, row, act, watch>>
          PROVE  Typed
      BY <3>1, StartRecoveredType DEF Running, TypeOK
    <3>2. CASE watch' \in Running /\ UNCHANGED <<item, phase, row, lane, act, resumed>>
      BY <3>2, TypeLane DEF Running, TypeOK
    <3>3. CASE DrainIfFree(queue, item) /\ UNCHANGED <<watch, resumed>>
      <4>1. queue \in Seq(Items) /\ item \in [Items -> ItemStatus]
        BY DEF TypeOK
      <4>2. watch \in Runs \union {None} /\ resumed \in BOOLEAN
        BY DEF TypeOK
      <4> QED BY <3>3, <4>1, <4>2, DrainIfFreeType
    <3>4. CASE UNCHANGED <<item, phase, row, lane, act, watch, resumed>>
      BY <3>4, TypeLane DEF TypeOK
    <3> QED BY <1>5, <3>1, <3>2, <3>3, <3>4 DEF RecoveryEnds
  <2> QED BY <1>5, <2>1 DEF RecoveryEnds, TypeOK, stopVars, LaneType
<1>6. CASE PollEnds
  BY <1>6 DEF PollEnds, TypeOK, stopVars
<1>7. CASE CallBack
  <2>1. phase' \in [Runs -> Phase] /\ lane' \in LaneType /\ resumed' \in BOOLEAN
    <3>1. CASE ~act /\ watch # None
      BY <1>7, <3>1, StartRecoveredType DEF CallBack, TypeOK
    <3>2. CASE ~(~act /\ watch # None)
      BY <1>7, <3>2, TypeLane DEF CallBack, TypeOK
    <3> QED BY <3>1, <3>2
  <2> QED BY <1>7, <2>1 DEF CallBack, TypeOK, stopVars, LaneType
<1> QED BY <1>1, <1>2, <1>3, <1>4, <1>5, <1>6, <1>7 DEF RecoveryStep

(* The state of the lane has its type, for any requests and chains.        *)
THEOREM TypeCorrect == Spec => []TypeOK
<1>1. TypeOK /\ [Next]_vars => TypeOK'
  <2> SUFFICES ASSUME TypeOK, [Next]_vars
               PROVE  TypeOK'
    OBVIOUS
  <2>1. CASE Next
    BY <2>1, RequestType, RunType, StopType, RecoveryType DEF Next
  <2>2. CASE UNCHANGED vars
    BY <2>2 DEF TypeOK, vars, laneVars, recVars, stopVars
  <2> QED BY <2>1, <2>2
<1> QED BY <1>1, InitType, PTL DEF Spec

-----------------------------------------------------------------------------
(* At most one run is at work.                                              *)

Busy == {"starting", "approving", "working"}

LEMMA StartedOne ==
  ASSUME NEW n \in Runs, NEW it, NEW ph \in [Runs -> Phase], NEW rw,
         \A r \in Runs : ph[r] \notin Busy,
         Started(n, it, ph, rw)
  PROVE  OneActiveRun'
  BY DEF Started, OneActiveRun, Live, Busy

LEMMA DrainOne ==
  ASSUME NEW qu \in Seq(Items), NEW it, NEW ph \in [Runs -> Phase], NEW rw,
         NEW l, NEW a, l.running = FALSE,
         \A r \in Runs : ph[r] \notin Busy,
         Drain(qu, it, ph, rw, l, a)
  PROVE  OneActiveRun'
<1>1. CASE phase' = ph /\ lane' = l
  BY <1>1 DEF OneActiveRun, Live, Busy
<1>2. ASSUME NEW n \in Items, Started(n, Taken(it, n), ph, rw)
      PROVE  OneActiveRun'
  BY <1>2, StartedOne DEF Runs
<1> QED BY <1>1, <1>2, DrainCases

LEMMA FreeLane ==
  ASSUME OneActiveRun, ~lane.running
  PROVE  \A r \in Runs : phase[r] \notin Busy
  BY DEF OneActiveRun, Live, Busy

LEMMA DrainIfFreeOne ==
  ASSUME TypeOK, OneActiveRun, NEW qu \in Seq(Items), NEW it, DrainIfFree(qu, it)
  PROVE  OneActiveRun'
<1>1. CASE lane.running
  BY <1>1 DEF DrainIfFree, OneActiveRun, Live
<1>2. CASE ~lane.running
  <2>1. lane.running = FALSE /\ phase \in [Runs -> Phase]
    BY <1>2 DEF TypeOK
  <2>2. Drain(qu, it, phase, row, lane, act)
    BY <1>2 DEF DrainIfFree
  <2> QED BY <1>2, <2>1, <2>2, FreeLane, DrainOne
<1> QED BY <1>1, <1>2

LEMMA EndedOne ==
  ASSUME TypeOK, OneActiveRun, NEW r \in Runs, Live(r), NEW outcome,
         IF lane.currentRun = r THEN Ended(r, outcome) ELSE RecoveredEnded(r, outcome)
  PROVE  OneActiveRun'
<1>1. PhaseAfter(r) \in [Runs -> Phase]
  BY DEF PhaseAfter, TypeOK, Phase
<1>2. \A s \in Runs : PhaseAfter(r)[s] \notin Busy
  BY DEF OneActiveRun, Live, Busy, PhaseAfter, TypeOK
<1>3. CASE Ended(r, outcome)
  <2> DEFINE rw == [row EXCEPT ![r] = outcome]
  <2>1. queue \in Seq(Items) /\ LaneAfter(r).running = FALSE
    BY DEF TypeOK, LaneAfter
  <2>2. Drain(queue, ItemAfter(r, outcome), PhaseAfter(r), rw, LaneAfter(r), ActAfter(outcome))
    BY <1>3 DEF Ended
  <2> HIDE DEF rw
  <2> QED BY <1>1, <1>2, <2>1, <2>2, DrainOne
<1>4. CASE RecoveredEnded(r, outcome)
  <2>1. phase' = PhaseAfter(r) /\ lane'.running = FALSE
    BY <1>4 DEF RecoveredEnded, TypeOK
  <2> QED BY <1>2, <2>1 DEF OneActiveRun, Live, Busy
<1> QED BY <1>3, <1>4

LEMMA StartRecoveredOne ==
  ASSUME TypeOK, OneActiveRun, NEW r \in Runs, StartRecovered(r)
  PROVE  OneActiveRun'
<1>1. CASE lane.running
  BY <1>1 DEF StartRecovered, OneActiveRun, Live
<1>2. CASE ~lane.running
  <2>1. \A s \in Runs : phase[s] \notin Busy
    BY <1>2, FreeLane
  <2>2. phase' = [phase EXCEPT ![r] = "working"]
    BY <1>2 DEF StartRecovered
  <2>3. lane'.running = TRUE /\ lane'.controller = r
    BY <1>2 DEF StartRecovered, TypeOK
  <2> QED BY <2>1, <2>2, <2>3 DEF OneActiveRun, Live, Busy, TypeOK
<1> QED BY <1>1, <1>2

LEMMA OneActiveStep ==
  ASSUME TypeOK, OneActiveRun, Next
  PROVE  OneActiveRun'
<1>0. queue \in Seq(Items) /\ phase \in [Runs -> Phase]
  BY DEF TypeOK
<1>1. CASE RequestStep
  <2>1. ASSUME NEW d \in Direct, PostRun(d)
        PROVE  OneActiveRun'
    <3>1. d \in Runs /\ Started(d, item, phase, row) /\ ~lane.running
      BY <2>1 DEF PostRun, Runs
    <3> QED BY <1>0, <3>1, FreeLane, StartedOne
  <2>2. ASSUME NEW b \in Batches, NEW marked, Enqueue(b, marked)
        PROVE  OneActiveRun'
    <3>1. queue \o b \in Seq(Items)
      BY <1>0, MarkedAreItems
    <3> QED BY <2>2, <3>1, DrainIfFreeOne DEF Enqueue
  <2>3. ASSUME NEW i \in Items, CancelItem(i)
        PROVE  OneActiveRun'
    BY <1>0, <2>3, DrainIfFreeOne DEF CancelItem
  <2> QED BY <1>1, <2>1, <2>2, <2>3 DEF RequestStep
<1>2. CASE RunStep
  <2>1. ASSUME NEW r \in Runs, AsksApproval(r) \/ Approve(r) \/ JobStarts(r) \/ JobSettled(r)
        PROVE  OneActiveRun'
    BY <2>1 DEF AsksApproval, Approve, JobStarts, JobSettled, OneActiveRun, Live, TypeOK
  <2>2. ASSUME NEW r \in Runs, RunEnds(r)
        PROVE  OneActiveRun'
    BY <2>2, EndedOne DEF RunEnds
  <2> QED BY <1>2, <2>1, <2>2 DEF RunStep
<1>3. CASE StopStep
  BY <1>3 DEF StopStep, Cancel, CancelByMessage, CancelIdle, StopOrphan, KillRequest, KillWaited,
     KillFinishes, OneActiveRun, Live, laneVars
<1>4. CASE RecoveryStep
  <2>1. CASE Restart
    BY <2>1 DEF Restart, QueueCancelled, Idle, OneActiveRun, Live, TypeOK
  <2>2. CASE Resume \/ RecoveryFails \/ RecoveryLists \/ PollEnds \/ \E r \in Runs : RecoverRun(r)
    BY <2>2 DEF Resume, RecoveryFails, RecoveryLists, PollEnds, RecoverRun, laneVars, OneActiveRun, Live
  <2>3. CASE RecoveryEnds
    <3>1. ASSUME NEW r \in Running, StartRecovered(r)
          PROVE  OneActiveRun'
      BY <3>1, StartRecoveredOne DEF Running
    <3>2. CASE UNCHANGED <<phase, lane>>
      BY <3>2 DEF OneActiveRun, Live
    <3>3. CASE DrainIfFree(queue, item)
      BY <1>0, <3>3, DrainIfFreeOne
    <3> QED BY <2>3, <3>1, <3>2, <3>3 DEF RecoveryEnds
  <2>4. CASE CallBack
    <3>1. CASE ~act /\ watch # None
      BY <2>4, <3>1, StartRecoveredOne DEF CallBack, TypeOK
    <3>2. CASE ~(~act /\ watch # None)
      BY <2>4, <3>2 DEF CallBack, OneActiveRun, Live
    <3> QED BY <3>1, <3>2
  <2> QED BY <1>4, <2>1, <2>2, <2>3, <2>4 DEF RecoveryStep
<1> QED BY <1>1, <1>2, <1>3, <1>4 DEF Next

(* For any requests: a workspace has at most one run at work, and it is the
   one whose abort a stop fires.                                            *)
THEOREM OneRunIsActive == Spec => []OneActiveRun
<1>1. Init => OneActiveRun
  BY DEF Init, OneActiveRun, Live, Idle
<1>2. TypeOK /\ OneActiveRun /\ [Next]_vars => OneActiveRun'
  <2>1. CASE UNCHANGED vars
    BY <2>1 DEF OneActiveRun, Live, vars, laneVars
  <2> QED BY <2>1, OneActiveStep
<1> QED BY <1>1, <1>2, TypeCorrect, PTL DEF Spec

-----------------------------------------------------------------------------
(* The order of a chain.                                                    *)

Ordered(it, tol) ==
    \A i \in Items : it[i] \in {"running", "done", "failed"} =>
        \A p \in Predecessors(i) : it[p] \in Terminal /\ (p \notin tol => it[p] = "done")

(* A queued item may be cancelled or skipped, and an absent one queued. *)
Milder(it, new) ==
    \A i \in Items : \/ new[i] = it[i]
                     \/ it[i] \in {"absent", "queued"} /\ new[i] \in {"queued", "cancelled", "skipped"}

LEMMA OrderKept ==
  ASSUME NEW it \in [Items -> ItemStatus], NEW new \in [Items -> ItemStatus],
         NEW tol, NEW more, tol \subseteq more, Ordered(it, tol), Milder(it, new)
  PROVE  Ordered(new, more)
  BY PredecessorsAreItems DEF Ordered, Milder, ItemStatus, Terminal, Blocking

LEMMA DrainOrder ==
  ASSUME NEW qu \in Seq(Items), NEW it \in [Items -> ItemStatus], NEW ph, NEW rw, NEW l, NEW a,
         Ordered(it, tolerant), Drain(qu, it, ph, rw, l, a)
  PROVE  item' \in [Items -> ItemStatus] /\ Ordered(item', tolerant)
<1>1. Propagated(it) \in [Items -> ItemStatus]
  BY PropagatedType
<1>2. Milder(it, Propagated(it))
  BY DEF Milder, Propagated
<1>3. Ordered(Propagated(it), tolerant)
  BY <1>1, <1>2, OrderKept
<1>4. ASSUME NEW n \in Items, Runnable(Propagated(it), n), item' = Taken(it, n)
      PROVE  item' \in [Items -> ItemStatus] /\ Ordered(item', tolerant)
  <2>1. item' \in [Items -> ItemStatus]
    BY <1>1, <1>4 DEF Taken, ItemStatus
  <2>2. \A p \in Predecessors(n) :
            Propagated(it)[p] \in Terminal /\ (p \notin tolerant => Propagated(it)[p] = "done")
    BY <1>4 DEF Runnable, Blocked, Terminal
  <2>3. \A i \in Items : i # n => item'[i] = Propagated(it)[i]
    BY <1>1, <1>4 DEF Taken
  <2>4. Propagated(it)[n] = "queued"
    BY <1>4 DEF Runnable
  <2>5. \A i \in Items : \A p \in Predecessors(i) :
            Propagated(it)[p] \in Terminal => item'[p] = Propagated(it)[p]
    BY <2>3, <2>4, PredecessorsAreItems DEF Terminal, Blocking
  <2> QED BY <2>1, <2>2, <2>3, <2>5, <1>3 DEF Ordered
<1> QED BY <1>1, <1>3, <1>4, DrainCases DEF Started

LEMMA DrainIfFreeOrder ==
  ASSUME TypeOK, NEW qu \in Seq(Items), NEW it \in [Items -> ItemStatus],
         Ordered(it, tolerant), DrainIfFree(qu, it)
  PROVE  Ordered(item', tolerant)
<1>1. CASE lane.running
  BY <1>1 DEF DrainIfFree
<1>2. CASE ~lane.running
  BY <1>2, DrainOrder DEF DrainIfFree
<1> QED BY <1>1, <1>2

LEMMA ChainCancelledMilder ==
  ASSUME NEW r PROVE Milder(item, ChainCancelled(r))
  BY DEF Milder, ChainCancelled

LEMMA KillEffectsOrder ==
  ASSUME TypeOK, Ordered(item, tolerant), NEW target, NEW purge, KillEffects(target, purge)
  PROVE  Ordered(item', tolerant)
<1>1. item \in [Items -> ItemStatus]
  BY DEF TypeOK
<1>2. CASE purge
  BY <1>1, <1>2 DEF KillEffects, QueueCancelled, Ordered
<1>3. CASE ~purge
  <2>1. item' \in [Items -> ItemStatus] /\ Milder(item, item')
    BY <1>1, <1>3 DEF KillEffects, QueueCancelled, Milder, ItemStatus, Terminal, Blocking
  <2> QED BY <1>1, <2>1, OrderKept
<1> QED BY <1>2, <1>3

LEMMA ItemAfterOrder ==
  ASSUME TypeOK, Ordered(item, tolerant), NEW r \in Runs,
         NEW outcome \in {"done", "error", "cancelled"}
  PROVE  /\ ItemAfter(r, outcome) \in [Items -> ItemStatus]
         /\ Ordered(ItemAfter(r, outcome), tolerant)
<1> DEFINE new == ItemAfter(r, outcome)
<1>1. item \in [Items -> ItemStatus]
  BY DEF TypeOK
<1>2. new \in [Items -> ItemStatus]
  BY <1>1 DEF ItemAfter, ItemStatus, Terminal, Blocking
<1>3. \A i \in Items : \/ new[i] = item[i]
                       \/ item[i] = "running" /\ new[i] \in {"done", "failed", "cancelled"}
  BY <1>1 DEF ItemAfter
<1> HIDE DEF new
<1>4. Ordered(new, tolerant)
  BY <1>1, <1>2, <1>3, PredecessorsAreItems DEF Ordered, Terminal, Blocking
<1> QED BY <1>2, <1>4 DEF new

LEMMA ChainOrderStep ==
  ASSUME TypeOK, TypeOK', Ordered(item, tolerant), Next
  PROVE  Ordered(item', tolerant')
<1>0. /\ item \in [Items -> ItemStatus] /\ item' \in [Items -> ItemStatus]
      /\ queue \in Seq(Items) /\ \A r : ChainCancelled(r) \in [Items -> ItemStatus]
  BY ChainCancelledType DEF TypeOK
<1>1. CASE RequestStep
  <2>1. ASSUME NEW d \in Direct, PostRun(d)
        PROVE  Ordered(item', tolerant')
    BY <2>1 DEF PostRun, Started
  <2>2. ASSUME NEW b \in Batches, NEW marked, Enqueue(b, marked)
        PROVE  Ordered(item', tolerant')
    <3> DEFINE it == [i \in Items |-> IF i \in Members(b) THEN "queued" ELSE item[i]]
    <3>1. it \in [Items -> ItemStatus] /\ Milder(item, it)
      BY <1>0, <2>2, MarkedAreItems DEF Enqueue, Milder, ItemStatus
    <3>2. DrainIfFree(queue \o b, it) /\ queue \o b \in Seq(Items)
      BY <1>0, <2>2, MarkedAreItems DEF Enqueue
    <3>3. tolerant \subseteq tolerant'
      BY <2>2 DEF Enqueue
    <3> HIDE DEF it
    <3>4. Ordered(it, tolerant)
      BY <1>0, <3>1, OrderKept
    <3>5. Ordered(item', tolerant)
      BY <3>1, <3>2, <3>4, DrainIfFreeOrder
    <3> QED BY <1>0, <3>3, <3>5 DEF Ordered
  <2>3. ASSUME NEW i \in Items, CancelItem(i)
        PROVE  Ordered(item', tolerant')
    <3> DEFINE it == [j \in Items |->
                IF j = i THEN "cancelled"
                ELSE IF i \notin tolerant /\ i \in Predecessors(j) /\ item[j] = "queued"
                     THEN "skipped" ELSE item[j]]
    <3>1. it \in [Items -> ItemStatus] /\ Milder(item, it)
      BY <1>0, <2>3 DEF CancelItem, Milder, ItemStatus, Terminal, Blocking
    <3>2. DrainIfFree(queue, it) /\ tolerant' = tolerant
      BY <2>3 DEF CancelItem
    <3> HIDE DEF it
    <3>3. Ordered(it, tolerant)
      BY <1>0, <3>1, OrderKept
    <3> QED BY <1>0, <3>1, <3>2, <3>3, DrainIfFreeOrder
  <2> QED BY <1>1, <2>1, <2>2, <2>3 DEF RequestStep
<1>2. CASE RunStep
  <2>1. ASSUME NEW r \in Runs, AsksApproval(r) \/ Approve(r) \/ JobStarts(r) \/ JobSettled(r)
        PROVE  Ordered(item', tolerant')
    BY <2>1 DEF AsksApproval, Approve, JobStarts, JobSettled
  <2>2. ASSUME NEW r \in Runs, RunEnds(r)
        PROVE  Ordered(item', tolerant')
    <3>1. PICK outcome \in {"done", "error", "cancelled"} :
              IF lane.currentRun = r THEN Ended(r, outcome) ELSE RecoveredEnded(r, outcome)
      BY <2>2, OutcomesType DEF RunEnds
    <3>2. /\ ItemAfter(r, outcome) \in [Items -> ItemStatus]
          /\ Ordered(ItemAfter(r, outcome), tolerant)
      BY ItemAfterOrder
    <3>3. tolerant' = tolerant
      BY <2>2 DEF RunEnds
    <3>4. CASE Ended(r, outcome)
      <4> DEFINE rw == [row EXCEPT ![r] = outcome]
      <4>1. Drain(queue, ItemAfter(r, outcome), PhaseAfter(r), rw, LaneAfter(r), ActAfter(outcome))
        BY <3>4 DEF Ended
      <4> HIDE DEF rw
      <4> QED BY <1>0, <3>2, <3>3, <4>1, DrainOrder
    <3>5. CASE RecoveredEnded(r, outcome)
      BY <3>2, <3>3, <3>5 DEF RecoveredEnded
    <3> QED BY <3>1, <3>4, <3>5
  <2> QED BY <1>2, <2>1, <2>2 DEF RunStep
<1>3. CASE StopStep
  <2>1. CASE Cancel
    <3>1. Milder(item, item')
      BY <2>1, ChainCancelledMilder DEF Cancel, Milder
    <3> QED BY <1>0, <2>1, <3>1, OrderKept DEF Cancel
  <2>2. CASE CancelByMessage \/ CancelIdle
    BY <2>2 DEF CancelByMessage, CancelIdle, laneVars
  <2>3. ASSUME NEW r \in Runs, StopOrphan(r)
        PROVE  Ordered(item', tolerant')
    <3>1. Milder(item, item') /\ tolerant' = tolerant
      BY <2>3, ChainCancelledMilder DEF StopOrphan
    <3> QED BY <1>0, <3>1, OrderKept
  <2>4. ASSUME NEW target, NEW purge, KillRequest(target, purge)
        PROVE  Ordered(item', tolerant')
    BY <2>4, KillEffectsOrder DEF KillRequest, KillLists
  <2>5. CASE KillWaited \/ KillFinishes
    BY <2>5, KillEffectsOrder DEF KillWaited, KillFinishes, KillLists
  <2> QED BY <1>3, <2>1, <2>2, <2>3, <2>4, <2>5 DEF StopStep
<1>4. CASE RecoveryStep
  <2>1. CASE Restart
    <3>1. Milder(item, item') /\ tolerant' = tolerant
      BY <1>0, <2>1 DEF Restart, QueueCancelled, Milder
    <3> QED BY <1>0, <3>1, OrderKept
  <2>2. CASE Resume \/ RecoveryFails \/ RecoveryLists \/ PollEnds \/ CallBack \/ \E r \in Runs : RecoverRun(r)
    BY <2>2 DEF Resume, RecoveryFails, RecoveryLists, PollEnds, CallBack, RecoverRun, laneVars
  <2>3. CASE RecoveryEnds
    <3>1. tolerant' = tolerant /\ (item' = item \/ DrainIfFree(queue, item))
      BY <2>3 DEF RecoveryEnds
    <3> QED BY <1>0, <3>1, DrainIfFreeOrder
  <2> QED BY <1>4, <2>1, <2>2, <2>3 DEF RecoveryStep
<1> QED BY <1>1, <1>2, <1>3, <1>4 DEF Next

(* For any chains, optional items and faults: an item of a chain runs only
   after those before it, and after success of the required ones.           *)
THEOREM ChainsRunInOrder == Spec => []ChainOrder
<1>1. Init => Ordered(item, tolerant)
  BY DEF Init, Ordered
<1>2. TypeOK /\ TypeOK' /\ Ordered(item, tolerant) /\ [Next]_vars => Ordered(item', tolerant')
  <2>1. CASE UNCHANGED vars
    BY <2>1 DEF vars, laneVars
  <2> QED BY <2>1, ChainOrderStep
<1>3. Ordered(item, tolerant) <=> ChainOrder
  BY DEF Ordered, ChainOrder
<1>4. ChainOrder /\ TypeOK /\ TypeOK' /\ [Next]_vars => ChainOrder'
  BY <1>2 DEF Ordered, ChainOrder
<1> QED BY <1>1, <1>3, <1>4, TypeCorrect, PTL DEF Spec

-----------------------------------------------------------------------------
(* What the queue shows as running. A step other than a restart keeps
   Shown, of the items and the phases of the runs.                          *)

Shown(it, ph) == \A i \in Items : it[i] = "running" => ph[i] \in Busy

(* No item starts, and no run but those of items that are over stops. *)
LEMMA ShownKept ==
  ASSUME NEW it, NEW new, NEW ph, NEW phn, Shown(it, ph),
         \A i \in Items : new[i] = "running" => it[i] = "running" /\ phn[i] = ph[i]
  PROVE  Shown(new, phn)
  BY DEF Shown

LEMMA DrainShown ==
  ASSUME NEW qu \in Seq(Items), NEW it \in [Items -> ItemStatus], NEW ph \in [Runs -> Phase],
         NEW rw, NEW l, NEW a, Shown(it, ph), Drain(qu, it, ph, rw, l, a)
  PROVE  Shown(item', phase')
<1>1. Propagated(it) \in [Items -> ItemStatus]
  BY PropagatedType
<1>2. Shown(Propagated(it), ph)
  BY DEF Shown, Propagated
<1>3. ASSUME NEW n \in Items, Started(n, Taken(it, n), ph, rw)
      PROVE  Shown(item', phase')
  <2>1. n \in Runs /\ item' = Taken(it, n)
    BY <1>3 DEF Started, Runs
  <2>2. phase'[n] \in Busy
    BY <1>3, <2>1 DEF Started, Busy
  <2>3. \A i \in Items : i # n => item'[i] = Propagated(it)[i] /\ phase'[i] = ph[i]
    BY <1>1, <1>3, <2>1 DEF Started, Taken, Runs
  <2> QED BY <1>2, <2>2, <2>3 DEF Shown
<1> QED BY <1>2, <1>3, DrainCases

LEMMA DrainIfFreeShown ==
  ASSUME TypeOK, NEW qu \in Seq(Items), NEW it \in [Items -> ItemStatus],
         Shown(it, phase), DrainIfFree(qu, it)
  PROVE  Shown(item', phase')
<1>1. CASE lane.running
  BY <1>1 DEF DrainIfFree
<1>2. CASE ~lane.running
  BY <1>2, DrainShown DEF DrainIfFree, TypeOK
<1> QED BY <1>1, <1>2

LEMMA EndedShown ==
  ASSUME TypeOK, Shown(item, phase), NEW r \in Runs, NEW outcome \in {"done", "error", "cancelled"},
         IF lane.currentRun = r THEN Ended(r, outcome) ELSE RecoveredEnded(r, outcome)
  PROVE  Shown(item', phase')
<1>1. ItemAfter(r, outcome) \in [Items -> ItemStatus]
  BY DEF ItemAfter, TypeOK, ItemStatus, Terminal, Blocking
<1>2. PhaseAfter(r) \in [Runs -> Phase]
  BY DEF PhaseAfter, TypeOK, Phase
<1>3. Shown(ItemAfter(r, outcome), PhaseAfter(r))
  <2>1. \A i \in Items : i \in Runs
    BY DEF Runs
  <2>2. \A i \in Items : i # r => PhaseAfter(r)[i] = phase[i]
    BY <2>1 DEF PhaseAfter, TypeOK
  <2> QED BY <2>1, <2>2 DEF Shown, ItemAfter
<1>4. CASE Ended(r, outcome)
  <2> DEFINE rw == [row EXCEPT ![r] = outcome]
  <2>1. Drain(queue, ItemAfter(r, outcome), PhaseAfter(r), rw, LaneAfter(r), ActAfter(outcome))
    BY <1>4 DEF Ended
  <2>2. queue \in Seq(Items)
    BY DEF TypeOK
  <2> HIDE DEF rw
  <2> QED BY <1>1, <1>2, <1>3, <2>1, <2>2, DrainShown
<1>5. CASE RecoveredEnded(r, outcome)
  BY <1>3, <1>5 DEF RecoveredEnded
<1> QED BY <1>4, <1>5

LEMMA KillEffectsShown ==
  ASSUME Shown(item, phase), NEW target, NEW purge, KillEffects(target, purge), phase' = phase
  PROVE  Shown(item', phase')
  BY DEF KillEffects, QueueCancelled, Shown

LEMMA StartRecoveredShown ==
  ASSUME TypeOK, Shown(item, phase), NEW r \in Runs, StartRecovered(r), item' = item
  PROVE  Shown(item', phase')
  BY DEF StartRecovered, Shown, Busy, TypeOK, Runs

LEMMA ShownStep ==
  ASSUME TypeOK, Shown(item, phase), Next, ~Restart
  PROVE  Shown(item', phase')
<1>0. /\ queue \in Seq(Items) /\ phase \in [Runs -> Phase]
      /\ item \in [Items -> ItemStatus]
  BY DEF TypeOK
<1>1. CASE RequestStep
  <2>1. ASSUME NEW d \in Direct, PostRun(d)
        PROVE  Shown(item', phase')
    <3>1. d \in Runs /\ Started(d, item, phase, row)
      BY <2>1 DEF PostRun, Runs
    <3> QED BY <1>0, <3>1 DEF Started, Shown, Busy, Runs
  <2>2. ASSUME NEW b \in Batches, NEW marked, Enqueue(b, marked)
        PROVE  Shown(item', phase')
    <3> DEFINE it == [i \in Items |-> IF i \in Members(b) THEN "queued" ELSE item[i]]
    <3>1. it \in [Items -> ItemStatus] /\ queue \o b \in Seq(Items)
      BY <1>0, MarkedAreItems DEF ItemStatus
    <3>2. Shown(it, phase)
      BY DEF Shown
    <3>3. DrainIfFree(queue \o b, it)
      BY <2>2 DEF Enqueue
    <3> HIDE DEF it
    <3> QED BY <3>1, <3>2, <3>3, DrainIfFreeShown
  <2>3. ASSUME NEW i \in Items, CancelItem(i)
        PROVE  Shown(item', phase')
    <3> DEFINE it == [j \in Items |->
              IF j = i THEN "cancelled"
              ELSE IF i \notin tolerant /\ i \in Predecessors(j) /\ item[j] = "queued"
                   THEN "skipped" ELSE item[j]]
    <3>1. it \in [Items -> ItemStatus]
      BY <1>0 DEF ItemStatus, Terminal, Blocking
    <3>2. Shown(it, phase)
      BY DEF Shown
    <3>3. DrainIfFree(queue, it)
      BY <2>3 DEF CancelItem
    <3> HIDE DEF it
    <3> QED BY <1>0, <3>1, <3>2, <3>3, DrainIfFreeShown
  <2> QED BY <1>1, <2>1, <2>2, <2>3 DEF RequestStep
<1>2. CASE RunStep
  <2>1. ASSUME NEW r \in Runs, AsksApproval(r) \/ Approve(r) \/ JobStarts(r) \/ JobSettled(r)
        PROVE  Shown(item', phase')
    BY <1>0, <2>1 DEF AsksApproval, Approve, JobStarts, JobSettled, Shown, Busy, Runs
  <2>2. ASSUME NEW r \in Runs, RunEnds(r)
        PROVE  Shown(item', phase')
    <3>1. PICK outcome \in {"done", "error", "cancelled"} :
              IF lane.currentRun = r THEN Ended(r, outcome) ELSE RecoveredEnded(r, outcome)
      BY <2>2, OutcomesType DEF RunEnds
    <3> QED BY <3>1, EndedShown
  <2> QED BY <1>2, <2>1, <2>2 DEF RunStep
<1>3. CASE StopStep
  <2>1. CASE Cancel
    BY <2>1 DEF Cancel, ChainCancelled, Shown
  <2>2. CASE CancelByMessage \/ CancelIdle
    BY <2>2 DEF CancelByMessage, CancelIdle, laneVars
  <2>3. ASSUME NEW r \in Runs, StopOrphan(r)
        PROVE  Shown(item', phase')
    BY <2>3, ShownKept DEF StopOrphan, ChainCancelled
  <2>4. ASSUME NEW target, NEW purge, KillRequest(target, purge)
        PROVE  Shown(item', phase')
    BY <2>4, KillEffectsShown DEF KillRequest, KillLists
  <2>5. CASE KillWaited \/ KillFinishes
    BY <2>5, KillEffectsShown DEF KillWaited, KillFinishes, KillLists
  <2> QED BY <1>3, <2>1, <2>2, <2>3, <2>4, <2>5 DEF StopStep
<1>4. CASE RecoveryStep
  <2>1. CASE Resume \/ RecoveryFails \/ RecoveryLists \/ PollEnds \/ \E r \in Runs : RecoverRun(r)
    BY <2>1 DEF Resume, RecoveryFails, RecoveryLists, PollEnds, RecoverRun, laneVars
  <2>2. CASE RecoveryEnds
    <3>1. ASSUME NEW r \in Running, StartRecovered(r), item' = item
          PROVE  Shown(item', phase')
      BY <3>1, StartRecoveredShown DEF Running
    <3>2. CASE UNCHANGED <<item, phase>>
      BY <3>2 DEF Shown
    <3>3. CASE DrainIfFree(queue, item)
      BY <1>0, <3>3, DrainIfFreeShown
    <3> QED BY <2>2, <3>1, <3>2, <3>3 DEF RecoveryEnds
  <2>3. CASE CallBack
    <3>1. CASE ~act /\ watch # None
      BY <2>3, <3>1, StartRecoveredShown DEF CallBack, TypeOK
    <3>2. CASE ~(~act /\ watch # None)
      BY <2>3, <3>2 DEF CallBack
    <3> QED BY <3>1, <3>2
  <2> QED BY <1>4, <2>1, <2>2, <2>3 DEF RecoveryStep
<1> QED BY <1>1, <1>2, <1>3, <1>4 DEF Next

(* For any requests: until a restart, an item shown as running is one whose
   run is at work.                                                          *)
THEOREM RunningItemsAreLive == Spec => []RunningItemIsLive
<1>1. Init => RunningItemIsLive
  BY DEF Init, RunningItemIsLive
<1>2. TypeOK /\ RunningItemIsLive /\ [Next]_vars => RunningItemIsLive'
  <2> SUFFICES ASSUME TypeOK, RunningItemIsLive, [Next]_vars, boots' = 0
               PROVE  Shown(item', phase')
    BY DEF RunningItemIsLive, Shown, Live, Busy
  <2>1. CASE UNCHANGED vars
    BY <2>1 DEF vars, laneVars, recVars, RunningItemIsLive, Shown, Live, Busy
  <2>2. CASE Restart
    BY <2>2, RequestsAreRuns DEF Restart, QueueCancelled, TypeOK
  <2>3. CASE Next /\ ~Restart
    <3>1. boots = 0
      BY <2>3 DEF Next, RequestStep, RunStep, StopStep, RecoveryStep, PostRun, Enqueue, CancelItem,
         AsksApproval, Approve, JobStarts, JobSettled, RunEnds, Cancel, CancelByMessage, CancelIdle,
         StopOrphan, KillRequest, KillWaited, KillFinishes, Resume, RecoveryFails, RecoveryLists,
         RecoverRun, RecoveryEnds, PollEnds, CallBack, recVars
    <3>2. Shown(item, phase)
      BY <3>1 DEF RunningItemIsLive, Shown, Live, Busy
    <3> QED BY <2>3, <3>2, ShownStep
  <2> QED BY <2>1, <2>2, <2>3
<1> QED BY <1>1, <1>2, TypeCorrect, PTL DEF Spec
-----------------------------------------------------------------------------
(* A run works only once it was approved. What is known of the runs that a
   restart or a callback may start again, of the items it, the phases ph, the
   rows rw and the flag a.                                                  *)

Past == {"working", "ended", "lost"}

(* A run that has not started has no row and its item is not taken. *)
Fresh(it, ph, rw) ==
    /\ \A r \in Runs : ph[r] = "none" => rw[r] = "none"
    /\ \A i \in Items : it[i] \in {"absent", "queued"} => ph[i] = "none"

(* While an activity of the session is polled no run awaits its approval. *)
NoneAsks(ph, a) == a => \A r \in Runs : ph[r] \notin {"starting", "approving"}

(* A run that ended before it worked is shown as running only to a recovery
   that has still to look at it. *)
ClosedIsSeen(ph, rw) ==
    \A r \in Runs : ph[r] = "closed" /\ rw[r] = "running" =>
        rec = "discovering" \/ (rec = "tasks" /\ r \in listed)

(* A run that is started again is one that worked. *)
Watched(ph) == watch # None => ph[watch] \in Past

Approved(it, ph, rw, a) ==
    Fresh(it, ph, rw) /\ NoneAsks(ph, a) /\ ClosedIsSeen(ph, rw) /\ Watched(ph)

Unapproved(ph) == \A r \in Gated : phase'[r] = "working" => ph[r] \in Past \union {"approving"}

(* Recovery goes on, or ends with no run left to look at. *)
RecoveryKept ==
    /\ watch' \in {watch, None}
    /\ UNCHANGED <<rec, listed>> \/ (rec = "tasks" /\ listed = {})

LEMMA StartedApproved ==
  ASSUME NEW r \in Runs, NEW it \in [Items -> ItemStatus], NEW ph \in [Runs -> Phase],
         NEW rw \in [Runs -> RowStatus], NEW a, Approved(it, ph, rw, a), ph[r] = "none",
         NEW new, \A i \in Items : new[i] \in {"absent", "queued"} => i # r /\ it[i] = new[i],
         Started(r, new, ph, rw), RecoveryKept
  PROVE  Approved(item, phase, row, act)' /\ Unapproved(ph)
<1>1. Fresh(item, phase, row)'
  BY DEF Approved, Fresh, Started, Runs
<1>2. NoneAsks(phase, act)'
  BY DEF NoneAsks, Started
<1>3. ClosedIsSeen(phase, row)'
  BY DEF Approved, ClosedIsSeen, RecoveryKept, Started
<1>4. Watched(phase)'
  BY DEF Approved, Watched, RecoveryKept, Started, Past
<1>5. Unapproved(ph)
  BY DEF Unapproved, Past, Started
<1> QED BY <1>1, <1>2, <1>3, <1>4, <1>5 DEF Approved

LEMMA DrainApproved ==
  ASSUME NEW qu \in Seq(Items), NEW it \in [Items -> ItemStatus], NEW ph \in [Runs -> Phase],
         NEW rw \in [Runs -> RowStatus], NEW l, NEW a, Approved(it, ph, rw, a),
         Drain(qu, it, ph, rw, l, a), RecoveryKept
  PROVE  Approved(item, phase, row, act)' /\ Unapproved(ph)
<1>1. Propagated(it) \in [Items -> ItemStatus]
  BY PropagatedType
<1>2. \A i \in Items : Propagated(it)[i] \in {"absent", "queued"} => it[i] = Propagated(it)[i]
  BY DEF Propagated
<1>3. ASSUME NEW n \in Items, Runnable(Propagated(it), n), Started(n, Taken(it, n), ph, rw)
      PROVE  Approved(item, phase, row, act)' /\ Unapproved(ph)
  <2>1. n \in Runs /\ ph[n] = "none"
    BY <1>2, <1>3 DEF Runs, Runnable, Approved, Fresh
  <2>2. \A i \in Items : Taken(it, n)[i] \in {"absent", "queued"} => i # n /\ it[i] = Taken(it, n)[i]
    BY <1>1, <1>2 DEF Taken
  <2> QED BY <1>3, <2>1, <2>2, StartedApproved
<1>4. CASE item' = Propagated(it) /\ phase' = ph /\ row' = rw /\ act' = a
  <2>1. Approved(item, phase, row, act)'
    BY <1>2, <1>4 DEF Approved, Fresh, NoneAsks, ClosedIsSeen, Watched, RecoveryKept
  <2>2. Unapproved(ph)
    BY <1>4 DEF Unapproved, Past
  <2> QED BY <2>1, <2>2
<1> QED BY <1>3, <1>4, DrainCases

LEMMA DrainIfFreeApproved ==
  ASSUME TypeOK, NEW qu \in Seq(Items), NEW it \in [Items -> ItemStatus],
         Approved(it, phase, row, act), DrainIfFree(qu, it), RecoveryKept
  PROVE  Approved(item, phase, row, act)' /\ Unapproved(phase)
<1>1. CASE lane.running
  BY <1>1 DEF DrainIfFree, Approved, Fresh, NoneAsks, ClosedIsSeen, Watched, RecoveryKept, Unapproved, Past
<1>2. CASE ~lane.running
  BY <1>2, DrainApproved DEF DrainIfFree, TypeOK
<1> QED BY <1>1, <1>2

(* A step that starts nothing: items leave the queue, rows stop running. *)
LEMMA ApprovedKept ==
  ASSUME Approved(item, phase, row, act), UNCHANGED phase, RecoveryKept, act' => act,
         \A i \in Items : item'[i] \in {"absent", "queued"} => item[i] \in {"absent", "queued"},
         \A r \in Runs : \/ row'[r] = row[r] \/ row'[r] = "none"
                         \/ row[r] # "none" /\ row'[r] # "running"
  PROVE  Approved(item, phase, row, act)' /\ Unapproved(phase)
<1>1. Fresh(item, phase, row)'
  BY DEF Approved, Fresh
<1>2. NoneAsks(phase, act)' /\ Watched(phase)'
  BY DEF Approved, NoneAsks, Watched, RecoveryKept
<1>3. ClosedIsSeen(phase, row)'
  BY DEF Approved, ClosedIsSeen, RecoveryKept
<1>4. Unapproved(phase)
  BY DEF Unapproved, Past
<1> QED BY <1>1, <1>2, <1>3, <1>4 DEF Approved

LEMMA StartRecoveredApproved ==
  ASSUME TypeOK, Approved(item, phase, row, act), ~act, NEW r \in Runs,
         phase[r] \in Past \/ lane.running, StartRecovered(r), item' = item, row' = row, act' = act,
         RecoveryKept
  PROVE  Approved(item, phase, row, act)' /\ Unapproved(phase)
<1>0. phase' = phase \/ (phase[r] \in Past /\ phase' = [phase EXCEPT ![r] = "working"])
  BY DEF StartRecovered
<1>1. \A s \in Runs : phase'[s] = phase[s] \/ (phase[s] \in Past /\ phase'[s] = "working")
  BY <1>0 DEF TypeOK
<1>2. \A i \in Items : i \in Runs
  BY DEF Runs
<1>3. Fresh(item, phase, row)'
  BY <1>1, <1>2 DEF Approved, Fresh, Past
<1>4. NoneAsks(phase, act)'
  BY DEF NoneAsks
<1>5. ClosedIsSeen(phase, row)'
  BY <1>1 DEF Approved, ClosedIsSeen, RecoveryKept
<1>6. Watched(phase)'
  BY <1>1 DEF Approved, Watched, RecoveryKept, Past, TypeOK
<1>7. Unapproved(phase)
  BY <1>1, RequestsAreRuns DEF Unapproved, Past
<1> QED BY <1>3, <1>4, <1>5, <1>6, <1>7 DEF Approved

LEMMA EndedApproved ==
  ASSUME TypeOK, OneActiveRun, Approved(item, phase, row, act), NEW r \in Runs, Live(r),
         NEW outcome \in {"done", "error", "cancelled"}, RecoveryKept,
         IF lane.currentRun = r THEN Ended(r, outcome) ELSE RecoveredEnded(r, outcome)
  PROVE  Approved(item, phase, row, act)' /\ Unapproved(phase)
<1> DEFINE it == ItemAfter(r, outcome)
           ph == PhaseAfter(r)
           rw == [row EXCEPT ![r] = outcome]
           a == ActAfter(outcome)
<1>0. it \in [Items -> ItemStatus] /\ ph \in [Runs -> Phase] /\ rw \in [Runs -> RowStatus]
  BY DEF TypeOK, ItemAfter, PhaseAfter, ItemStatus, Terminal, Blocking, Phase, RowStatus
<1>1. /\ \A s \in Runs : s # r => phase[s] \notin Busy /\ ph[s] = phase[s] /\ rw[s] = row[s]
      /\ ph[r] \in {"ended", "closed"} /\ rw[r] = outcome /\ phase[r] \in Busy
      /\ ph[r] = "ended" <=> phase[r] = "working"
  BY DEF TypeOK, OneActiveRun, Live, Busy, PhaseAfter
<1>2. \A i \in Items : it[i] \in {"absent", "queued"} => it[i] = item[i]
  BY DEF ItemAfter
<1>3. \A i \in Items : i \in Runs
  BY DEF Runs
<1>4. Approved(it, ph, rw, a)
  <2> HIDE DEF it, ph, rw, a
  <2>1. Fresh(it, ph, rw)
    BY <1>1, <1>2, <1>3 DEF Approved, Fresh, Busy
  <2>2. NoneAsks(ph, a)
    BY <1>1 DEF NoneAsks, Busy
  <2>3. ClosedIsSeen(ph, rw)
    BY <1>1 DEF Approved, ClosedIsSeen, RecoveryKept
  <2>4. Watched(ph)
    BY <1>1 DEF Approved, Watched, RecoveryKept, Past, Busy, TypeOK
  <2> QED BY <2>1, <2>2, <2>3, <2>4 DEF Approved
<1>5. \A s \in Runs : ph[s] \in Past \union {"approving"} => phase[s] \in Past \union {"approving"}
  BY <1>1 DEF Past
<1>6. CASE Ended(r, outcome)
  <2>1. queue \in Seq(Items) /\ Drain(queue, it, ph, rw, LaneAfter(r), a)
    BY <1>6 DEF TypeOK, Ended
  <2> HIDE DEF it, ph, rw, a
  <2>2. Approved(item, phase, row, act)' /\ Unapproved(ph)
    BY <1>0, <1>4, <2>1, DrainApproved
  <2> QED BY <1>5, <2>2, RequestsAreRuns DEF Unapproved
<1>7. CASE RecoveredEnded(r, outcome)
  <2>1. item' = it /\ phase' = ph /\ row' = rw /\ act' = a
    BY <1>7 DEF RecoveredEnded
  <2> HIDE DEF it, ph, rw, a
  <2>2. Approved(item, phase, row, act)'
    BY <1>4, <2>1 DEF Approved, Fresh, NoneAsks, ClosedIsSeen, Watched, RecoveryKept
  <2>3. Unapproved(phase)
    BY <1>5, <2>1, RequestsAreRuns DEF Unapproved, Past
  <2> QED BY <2>2, <2>3
<1> QED BY <1>6, <1>7

LEMMA KillListsApproved ==
  ASSUME TypeOK, Approved(item, phase, row, act), NEW target, NEW purge \in BOOLEAN,
         KillEffects(target, purge) \/ UNCHANGED <<item, row, act>>,
         UNCHANGED phase, RecoveryKept
  PROVE  Approved(item, phase, row, act)' /\ Unapproved(phase)
<1>1. act' => act
  BY DEF KillEffects
<1>2. \A i \in Items : item'[i] \in {"absent", "queued"} => item[i] \in {"absent", "queued"}
  BY DEF KillEffects, QueueCancelled
<1>3. \A r \in Runs : row'[r] = row[r] \/ row'[r] = "none" \/ (row[r] # "none" /\ row'[r] # "running")
  BY DEF KillEffects, Recoverable
<1> QED BY <1>1, <1>2, <1>3, ApprovedKept

LEMMA ApprovedStep ==
  ASSUME TypeOK, OneActiveRun, Approved(item, phase, row, act), Next
  PROVE  Approved(item, phase, row, act)' /\ Unapproved(phase)
<1>0. /\ queue \in Seq(Items) /\ phase \in [Runs -> Phase] /\ item \in [Items -> ItemStatus]
      /\ row \in [Runs -> RowStatus]
  BY DEF TypeOK
<1> DEFINE Goal == Approved(item, phase, row, act)' /\ Unapproved(phase)
<1>1. CASE RequestStep
  <2>1. ASSUME NEW d \in Direct, PostRun(d)
        PROVE  Goal
    <3>1. d \in Runs /\ phase[d] = "none" /\ Started(d, item, phase, row) /\ RecoveryKept
      BY <2>1 DEF PostRun, Runs, recVars, RecoveryKept
    <3>2. \A i \in Items : i # d
      BY RequestsAreRuns
    <3> QED BY <1>0, <3>1, <3>2, StartedApproved
  <2>2. ASSUME NEW b \in Batches, NEW marked, Enqueue(b, marked)
        PROVE  Goal
    <3> DEFINE it == [i \in Items |-> IF i \in Members(b) THEN "queued" ELSE item[i]]
    <3>1. it \in [Items -> ItemStatus] /\ queue \o b \in Seq(Items)
      BY <1>0, MarkedAreItems DEF ItemStatus
    <3>2. DrainIfFree(queue \o b, it) /\ RecoveryKept
      BY <2>2 DEF Enqueue, recVars, RecoveryKept
    <3>3. Approved(it, phase, row, act)
      BY <2>2 DEF Enqueue, Approved, Fresh
    <3> HIDE DEF it
    <3> QED BY <3>1, <3>2, <3>3, DrainIfFreeApproved
  <2>3. ASSUME NEW i \in Items, CancelItem(i)
        PROVE  Goal
    <3> DEFINE it == [j \in Items |->
              IF j = i THEN "cancelled"
              ELSE IF i \notin tolerant /\ i \in Predecessors(j) /\ item[j] = "queued"
                   THEN "skipped" ELSE item[j]]
    <3>1. it \in [Items -> ItemStatus]
      BY <1>0 DEF ItemStatus, Terminal, Blocking
    <3>2. DrainIfFree(queue, it) /\ RecoveryKept
      BY <2>3 DEF CancelItem, recVars, RecoveryKept
    <3>3. Approved(it, phase, row, act)
      BY DEF Approved, Fresh
    <3> HIDE DEF it
    <3> QED BY <1>0, <3>1, <3>2, <3>3, DrainIfFreeApproved
  <2> QED BY <1>1, <2>1, <2>2, <2>3 DEF RequestStep
<1>2. CASE RunStep
  <2>1. ASSUME NEW r \in Runs, AsksApproval(r) \/ Approve(r)
        PROVE  Goal
    <3>1. /\ phase[r] \in {"starting", "approving"} /\ UNCHANGED <<item, act, rec, listed, watch>>
          /\ \A s \in Runs : s # r => phase'[s] = phase[s] /\ row'[s] = row[s]
          /\ phase'[r] \in {"approving", "working"} /\ (phase'[r] = "working" => phase[r] = "approving")
      BY <1>0, <2>1 DEF AsksApproval, Approve, recVars, RecoveryKept
    <3>2. ~act
      BY <3>1 DEF Approved, NoneAsks
    <3>3. \A i \in Items : i \in Runs
      BY DEF Runs
    <3>4. Fresh(item, phase, row)'
      BY <3>1, <3>3 DEF Approved, Fresh
    <3>5. NoneAsks(phase, act)' /\ ClosedIsSeen(phase, row)'
      BY <3>1, <3>2 DEF Approved, NoneAsks, ClosedIsSeen
    <3>6. Watched(phase)'
      BY <3>1 DEF Approved, Watched, Past, TypeOK
    <3>7. Unapproved(phase)
      BY <3>1, RequestsAreRuns DEF Unapproved, Past
    <3> QED BY <3>4, <3>5, <3>6, <3>7 DEF Approved
  <2>2. ASSUME NEW r \in Runs, JobStarts(r)
        PROVE  Goal
    <3>1. \A s \in Runs : phase[s] \notin {"starting", "approving"}
      BY <2>2 DEF JobStarts, OneActiveRun, Live
    <3> QED BY <2>2, <3>1 DEF JobStarts, recVars, Approved, Fresh, NoneAsks, ClosedIsSeen, Watched, Unapproved, Past
  <2>3. ASSUME NEW r \in Runs, JobSettled(r)
        PROVE  Goal
    BY <2>3, ApprovedKept DEF JobSettled, recVars, RecoveryKept
  <2>4. ASSUME NEW r \in Runs, RunEnds(r)
        PROVE  Goal
    BY <2>4, OutcomesType, EndedApproved DEF RunEnds, recVars, RecoveryKept
  <2> QED BY <1>2, <2>1, <2>2, <2>3, <2>4 DEF RunStep
<1>3. CASE StopStep
  <2>1. CASE Cancel
    BY <2>1, ApprovedKept DEF Cancel, ChainCancelled, recVars, RecoveryKept
  <2>2. CASE CancelByMessage \/ CancelIdle
    BY <2>2, ApprovedKept DEF CancelByMessage, CancelIdle, laneVars, recVars, RecoveryKept
  <2>3. ASSUME NEW r \in Runs, StopOrphan(r)
        PROVE  Goal
    <3>1. \A s \in Runs : row'[s] = row[s] \/ (row[s] # "none" /\ row'[s] # "running")
      BY <1>0, <2>3 DEF StopOrphan, Recoverable
    <3>2. \A i \in Items : item'[i] \in {"absent", "queued"} => item[i] \in {"absent", "queued"}
      BY <2>3 DEF StopOrphan, ChainCancelled
    <3> QED BY <2>3, <3>1, <3>2, ApprovedKept DEF StopOrphan, recVars, RecoveryKept
  <2>4. ASSUME NEW target, NEW purge \in BOOLEAN, KillRequest(target, purge)
        PROVE  Goal
    <3>1. KillEffects(target, purge) \/ UNCHANGED <<item, row, act>>
      BY <2>4 DEF KillRequest, KillLists
    <3> QED BY <2>4, <3>1, KillListsApproved DEF KillRequest, recVars, RecoveryKept
  <2>5. CASE KillWaited \/ KillFinishes
    <3>1. kill.purge \in BOOLEAN
      BY DEF TypeOK
    <3>2. KillEffects(kill.target, kill.purge) \/ UNCHANGED <<item, row, act>>
      BY <2>5 DEF KillWaited, KillFinishes, KillLists
    <3> QED BY <2>5, <3>1, <3>2, KillListsApproved DEF KillWaited, KillFinishes, recVars, RecoveryKept
  <2> QED BY <1>3, <2>1, <2>2, <2>3, <2>4, <2>5 DEF StopStep
<1>4. CASE RecoveryStep
  <2>1. CASE Restart
    <3>1. /\ \A r \in Runs : /\ phase'[r] = "none" <=> phase[r] = "none"
                             /\ phase'[r] \notin Busy
          /\ \A i \in Items : item'[i] \in {"absent", "queued"} => item[i] \in {"absent", "queued"}
          /\ row' = row /\ watch' = None
          /\ rec' = IF \E r \in Runs : Recoverable(r) THEN "discovering" ELSE "idle"
      BY <1>0, <2>1 DEF Restart, QueueCancelled, Live, Busy
    <3>2. Fresh(item, phase, row)'
      BY <3>1 DEF Approved, Fresh, Runs
    <3>3. NoneAsks(phase, act)'
      BY <3>1 DEF NoneAsks, Busy
    <3>4. ClosedIsSeen(phase, row)' /\ Watched(phase)'
      BY <3>1 DEF ClosedIsSeen, Recoverable, Watched
    <3>5. Unapproved(phase)
      BY <3>1, RequestsAreRuns DEF Unapproved, Busy
    <3> QED BY <3>2, <3>3, <3>4, <3>5 DEF Approved
  <2>2. CASE Resume \/ RecoveryLists
    <3>1. UNCHANGED <<item, phase, row, act, watch>> /\ ClosedIsSeen(phase, row)'
      BY <1>0, <2>2 DEF Resume, RecoveryLists, laneVars, ClosedIsSeen, Recoverable
    <3> QED BY <3>1 DEF Approved, Fresh, NoneAsks, Watched, Unapproved, Past
  <2>3. CASE RecoveryFails
    <3>1. UNCHANGED <<item, phase, act, watch>> /\ \A r \in Runs : row'[r] # "running"
      BY <2>3 DEF RecoveryFails, Recoverable
    <3>2. \A r \in Runs : row[r] = "none" => row'[r] = "none"
      BY <2>3 DEF RecoveryFails, Recoverable
    <3> QED BY <3>1, <3>2 DEF Approved, Fresh, NoneAsks, ClosedIsSeen, Watched, Unapproved, Past
  <2>4. ASSUME NEW r \in Runs, RecoverRun(r)
        PROVE  Goal
    <3>1. /\ UNCHANGED <<item, phase, act, rec, watch>> /\ listed' = listed \ {r}
          /\ \A s \in Runs : row'[s] = row[s] \/ (row[s] # "none" /\ row'[s] # "running")
          /\ phase[r] \in {"working", "lost"} \/ row'[r] # "running"
      BY <1>0, <2>4 DEF RecoverRun, Recoverable
    <3>2. ClosedIsSeen(phase, row)'
      BY <3>1 DEF Approved, ClosedIsSeen
    <3> QED BY <3>1, <3>2 DEF Approved, Fresh, NoneAsks, Watched, Unapproved, Past
  <2>5. CASE PollEnds
    BY <2>5, ApprovedKept DEF PollEnds, RecoveryKept
  <2>6. CASE RecoveryEnds
    <3>1. rec = "tasks" /\ listed = {}
      BY <2>6 DEF RecoveryEnds
    <3>2. \A r \in Running : phase[r] \notin {"none", "closed"} /\ r \in Runs
      BY <3>1 DEF Running, Approved, Fresh, ClosedIsSeen
    <3>3. ASSUME ~act, NEW r \in Running, StartRecovered(r), UNCHANGED <<item, row, act, watch>>
          PROVE  Goal
      <4>1. phase[r] \in Past \/ lane.running
        BY <1>0, <3>2, FreeLane DEF Past, Phase, Busy
      <4> QED BY <3>1, <3>2, <3>3, <4>1, StartRecoveredApproved DEF RecoveryKept
    <3>4. CASE act /\ watch' \in Running /\ UNCHANGED <<item, phase, row, lane, act, resumed>>
      <4>1. phase[watch'] \in Past
        BY <1>0, <3>2, <3>4 DEF Approved, NoneAsks, Past, Phase
      <4>2. ClosedIsSeen(phase, row)'
        BY <3>1, <3>4 DEF Approved, ClosedIsSeen
      <4> QED BY <3>4, <4>1, <4>2 DEF Approved, Fresh, NoneAsks, Watched, Unapproved, Past
    <3>5. CASE DrainIfFree(queue, item) /\ watch' = watch
      BY <1>0, <3>1, <3>5, DrainIfFreeApproved DEF RecoveryKept
    <3>6. CASE UNCHANGED <<item, phase, row, act, watch>>
      BY <3>1, <3>6 DEF Approved, Fresh, NoneAsks, ClosedIsSeen, Watched, Unapproved, Past
    <3> QED BY <2>6, <3>3, <3>4, <3>5, <3>6 DEF RecoveryEnds
  <2>7. CASE CallBack
    <3>1. CASE ~act /\ watch # None
      <4>1. phase[watch] \in Past /\ watch \in Runs
        BY <3>1 DEF Approved, Watched, TypeOK
      <4> QED BY <2>7, <3>1, <4>1, StartRecoveredApproved DEF CallBack, RecoveryKept
    <3>2. CASE ~(~act /\ watch # None)
      BY <2>7, <3>2, ApprovedKept DEF CallBack, RecoveryKept
    <3> QED BY <3>1, <3>2
  <2> QED BY <1>4, <2>1, <2>2, <2>3, <2>4, <2>5, <2>6, <2>7 DEF RecoveryStep
<1> QED BY <1>1, <1>2, <1>3, <1>4 DEF Next

(* For any requests and any restarts, kills, resumes and callbacks: a run
   that asks for an approval works only once it was given.                  *)
THEOREM WorkIsApproved == Spec => NoWorkUnapproved
<1>1. Init => Approved(item, phase, row, act)
  BY DEF Init, Approved, Fresh, NoneAsks, ClosedIsSeen, Watched, Runs
<1>2. TypeOK /\ OneActiveRun /\ Approved(item, phase, row, act) /\ [Next]_vars
        => /\ Approved(item, phase, row, act)'
           /\ [\A r \in Gated : phase'[r] = "working" =>
                   phase[r] \in {"approving", "working", "ended", "lost"}]_vars
  <2>1. CASE UNCHANGED vars
    BY <2>1 DEF vars, laneVars, recVars, Approved, Fresh, NoneAsks, ClosedIsSeen, Watched
  <2> QED BY <2>1, ApprovedStep DEF Unapproved, Past
<1> QED BY <1>1, <1>2, TypeCorrect, OneRunIsActive, PTL DEF Spec, NoWorkUnapproved
-----------------------------------------------------------------------------
(* A free lane leaves no request waiting.                                   *)

LEMMA LeastPosition ==
  ASSUME NEW T \in SUBSET Nat, T # {}
  PROVE  \E n \in T : \A m \in T : n <= m
<1>1. PICK n \in T : \A m \in T : <<m, n>> \notin OpToRel(<, Nat)
  BY NatLessThanWellFounded, WFMin
<1>2. \A m \in T : ~(m < n)
  BY <1>1 DEF OpToRel
<1> QED BY <1>2

(* The positions of an item and of its predecessors in their batch. *)
LEMMA PlaceOf ==
  ASSUME NEW i \in Items
  PROVE  \E b \in Batches : \E k \in DOMAIN b :
             /\ b[k] = i /\ DOMAIN b \subseteq Nat
             /\ \A m \in DOMAIN b :
                    Predecessors(b[m]) = {b[j] : j \in {j \in DOMAIN b : j < m}}
<1>1. PICK b \in Batches : i \in Members(b)
  BY DEF Items
<1>2. PICK k \in DOMAIN b : b[k] = i
  BY <1>1 DEF Members
<1>3. DOMAIN b \subseteq Nat
  <2>1. b \in Seq(Members(b))
    BY BatchesAreApart
  <2> QED BY <2>1
<1>4. ASSUME NEW m \in DOMAIN b
      PROVE  Predecessors(b[m]) = {b[j] : j \in {j \in DOMAIN b : j < m}}
  <2>1. \A c \in Batches : \A n \in DOMAIN c : c[n] = b[m] => c = b /\ n = m
    BY BatchesAreApart
  <2> QED BY <2>1 DEF Predecessors
<1> QED BY <1>2, <1>3, <1>4

(* Of a set of items one comes after no other of the set, and what comes
   before what precedes it precedes it too. *)
LEMMA FirstOf ==
  ASSUME NEW Q \in SUBSET Items, Q # {}
  PROVE  \E i \in Q : /\ Predecessors(i) \intersect Q = {}
                      /\ \A p \in Predecessors(i) : Predecessors(p) \subseteq Predecessors(i)
<1>1. PICK i \in Q : TRUE
  OBVIOUS
<1>2. PICK b \in Batches : \E k \in DOMAIN b :
             /\ b[k] = i /\ DOMAIN b \subseteq Nat
             /\ \A m \in DOMAIN b :
                    Predecessors(b[m]) = {b[j] : j \in {j \in DOMAIN b : j < m}}
  BY PlaceOf
<1> DEFINE T == {k \in DOMAIN b : b[k] \in Q}
<1>3. T \in SUBSET Nat /\ T # {}
  BY <1>2
<1>4. PICK n \in T : \A m \in T : n <= m
  <2> HIDE DEF T
  <2> QED BY <1>3, LeastPosition
<1>5. b[n] \in Q
  OBVIOUS
<1>6. \A j \in DOMAIN b : j < n => b[j] \notin Q
  BY <1>2, <1>4
<1>7. Predecessors(b[n]) \intersect Q = {}
  BY <1>2, <1>6
<1>8. ASSUME NEW p \in Predecessors(b[n])
      PROVE  Predecessors(p) \subseteq Predecessors(b[n])
  <2>1. PICK j \in DOMAIN b : p = b[j] /\ j < n
    BY <1>2
  <2>2. \A m \in DOMAIN b : m < j => m < n
    BY <1>2, <2>1
  <2> QED BY <1>2, <2>1, <2>2
<1> QED BY <1>5, <1>7, <1>8

(* What waits is in the queue; what it waits for waits, is over, or is run. *)
Queued(it, qu) == \A i \in Items : it[i] = "queued" => \E k \in DOMAIN qu : qu[k] = i

Awaits(it, ph) ==
    \A i \in Items : it[i] = "queued" => \A p \in Predecessors(i) :
        it[p] \in {"queued"} \union Terminal \/ (it[p] = "running" /\ ph[p] \in Busy)

Drained(it) == \A i \in Items : it[i] # "queued"

(* One pass of the skips is enough for the drain to start an item if any is
   left: the first item that is left has its predecessors over, and one that
   was skipped was so for a cause that skips this item too. *)
LEMMA NothingReady ==
  ASSUME NEW qu \in Seq(Items), NEW it \in [Items -> ItemStatus], Queued(it, qu),
         \A i \in Items : it[i] = "queued" => \A p \in Predecessors(i) : it[p] \in {"queued"} \union Terminal,
         {k \in DOMAIN qu : Runnable(Propagated(it), qu[k])} = {}
  PROVE  Drained(Propagated(it))
<1> DEFINE q == Propagated(it)
           Q == {i \in Items : q[i] = "queued"}
<1> SUFFICES ASSUME Q # {}
             PROVE  FALSE
  BY DEF Drained
<1>1. PICK i \in Q : /\ Predecessors(i) \intersect Q = {}
                     /\ \A p \in Predecessors(i) : Predecessors(p) \subseteq Predecessors(i)
  <2>1. Q \in SUBSET Items
    OBVIOUS
  <2> HIDE DEF Q
  <2> QED BY <2>1, FirstOf
<1>2. i \in Items /\ it[i] = "queued" /\ ~Blocked(it, i)
  BY DEF Propagated
<1>3. \A p \in Predecessors(i) :
          q[p] # "queued" /\ it[p] \in {"queued"} \union Terminal /\ p \in Items
  BY <1>1, <1>2, PredecessorsAreItems
<1>4. \A p \in Predecessors(i) : q[p] \in Terminal /\ (it[p] # "queued" => q[p] = it[p])
  BY <1>3 DEF Propagated, Terminal, Blocking
<1>5. ~Blocked(q, i)
  <2> SUFFICES ASSUME NEW p \in Predecessors(i) \ tolerant, q[p] \in Blocking
               PROVE  FALSE
    BY DEF Blocked
  <2>1. CASE it[p] = "queued"
    <3>1. Blocked(it, p)
      BY <1>3, <2>1 DEF Propagated, Blocking
    <3>2. Predecessors(p) \subseteq Predecessors(i)
      BY <1>1
    <3> QED BY <1>2, <3>1, <3>2 DEF Blocked
  <2>2. CASE it[p] # "queued"
    BY <1>2, <1>4, <2>2 DEF Blocked
  <2> QED BY <2>1, <2>2
<1>6. Runnable(q, i)
  BY <1>4, <1>5 DEF Runnable
<1>7. \E k \in DOMAIN qu : qu[k] = i
  BY <1>2 DEF Queued
<1> QED BY <1>6, <1>7

Owned(l) == l.running => l.currentRun = l.controller

(* The queue as a step leaves it. *)
Waits(it, qu, ph, l, res) ==
    /\ Queued(it, qu) /\ Awaits(it, ph)
    /\ ~res => Owned(l) /\ (l.running \/ Drained(it))

LEMMA DrainWaits ==
  ASSUME NEW qu \in Seq(Items), NEW it \in [Items -> ItemStatus], NEW ph \in [Runs -> Phase],
         NEW rw, NEW l, NEW a, ~l.running, \A r \in Runs : ph[r] \notin Busy,
         Queued(it, qu), Awaits(it, ph), Drain(qu, it, ph, rw, l, a)
  PROVE  \A res \in BOOLEAN : Waits(item', qu, phase', lane', res)
<1> DEFINE q == Propagated(it)
           ready == {k \in DOMAIN qu : Runnable(q, qu[k])}
<1>1. q \in [Items -> ItemStatus]
  BY PropagatedType
<1>2. \A i \in Items : \/ q[i] = it[i]
                       \/ it[i] = "queued" /\ q[i] \in Terminal
  BY DEF Propagated, Terminal, Blocking
<1>3. \A i \in Items : it[i] = "queued" =>
          \A p \in Predecessors(i) : it[p] \in {"queued"} \union Terminal /\ p \in Items /\ p \in Runs
  BY PredecessorsAreItems DEF Awaits, Runs
<1>4. Queued(q, qu)
  BY <1>2 DEF Queued, Terminal, Blocking
<1>5. \A i \in Items : q[i] = "queued" =>
          \A p \in Predecessors(i) : q[p] \in {"queued"} \union Terminal
  BY <1>2, <1>3 DEF Terminal, Blocking
<1>6. CASE ready = {} /\ item' = q /\ phase' = ph /\ lane' = l
  <2>1. Drained(q)
    BY <1>3, <1>6, NothingReady
  <2>2. Queued(item', qu) /\ Awaits(item', phase') /\ Owned(lane')
    BY <1>4, <1>5, <1>6 DEF Awaits, Owned
  <2> QED BY <1>6, <2>1, <2>2 DEF Waits
<1>7. ASSUME NEW k \in ready, Started(qu[k], [q EXCEPT ![qu[k]] = "running"], ph, rw)
      PROVE  \A res \in BOOLEAN : Waits(item', qu, phase', lane', res)
  <2>1. PICK n \in Items : n = qu[k]
    OBVIOUS
  <2>2. item' = [q EXCEPT ![n] = "running"] /\ lane'.running /\ lane'.currentRun = lane'.controller
    BY <1>7, <2>1 DEF Started
  <2>3. phase'[n] \in Busy
    BY <1>7, <2>1 DEF Started, Busy, Runs
  <2> HIDE DEF q
  <2>4. Queued(item', qu)
    BY <1>1, <1>4, <2>2 DEF Queued
  <2>5. Awaits(item', phase')
    BY <1>1, <1>3, <1>5, <2>2, <2>3, PredecessorsAreItems DEF Awaits
  <2> QED BY <2>2, <2>4, <2>5 DEF Waits, Owned
<1> QED BY <1>6, <1>7 DEF Drain

LEMMA DrainIfFreeWaits ==
  ASSUME TypeOK, OneActiveRun, NEW qu \in Seq(Items), NEW it \in [Items -> ItemStatus],
         Queued(it, qu), Awaits(it, phase), ~resumed => Owned(lane), DrainIfFree(qu, it)
  PROVE  Waits(item', qu, phase', lane', resumed)
<1>1. CASE lane.running
  BY <1>1 DEF DrainIfFree, Waits
<1>2. CASE ~lane.running
  <2>1. \A r \in Runs : phase[r] \notin Busy
    BY <1>2, FreeLane
  <2>2. Drain(qu, it, phase, row, lane, act) /\ resumed \in BOOLEAN /\ phase \in [Runs -> Phase]
    BY <1>2 DEF DrainIfFree, TypeOK
  <2> QED BY <1>2, <2>1, <2>2, DrainWaits
<1> QED BY <1>1, <1>2

(* Queued items may be over; the runs at work go on. *)
LEMMA WaitsKept ==
  ASSUME Queued(item, queue), Awaits(item, phase),
         NEW it, \A i \in Items : it[i] = item[i] \/ (item[i] = "queued" /\ it[i] \in Terminal),
         NEW ph, \A r \in Runs : phase[r] \in Busy => ph[r] \in Busy
  PROVE  /\ Queued(it, queue) /\ Awaits(it, ph)
         /\ Drained(item) => Drained(it)
<1>1. \A i \in Items : Predecessors(i) \subseteq Items /\ i \in Runs
  BY PredecessorsAreItems DEF Runs
<1> QED BY <1>1 DEF Queued, Awaits, Drained, Terminal, Blocking

LEMMA NoneQueued ==
  ASSUME NEW it, \A i \in Items : it[i] # "queued", NEW qu, NEW ph, NEW l, Owned(l), NEW res
  PROVE  Waits(it, qu, ph, l, res)
  BY DEF Waits, Queued, Awaits, Drained

WaitsNow == Waits(item, queue, phase, lane, resumed)

LEMMA StopWaits ==
  ASSUME TypeOK, WaitsNow, UNCHANGED <<phase, lane, resumed>>,
         \/ queue' = queue /\ \A i \in Items : \/ item'[i] = item[i]
                                               \/ item[i] = "queued" /\ item'[i] \in Terminal
         \/ \A i \in Items : item'[i] # "queued"
  PROVE  WaitsNow'
<1>1. CASE queue' = queue /\ \A i \in Items : \/ item'[i] = item[i]
                                              \/ item[i] = "queued" /\ item'[i] \in Terminal
  BY <1>1, WaitsKept DEF WaitsNow, Waits
<1>2. CASE \A i \in Items : item'[i] # "queued"
  BY <1>2 DEF WaitsNow, Waits, Queued, Awaits, Drained
<1> QED BY <1>1, <1>2

LEMMA KillEffectsWaits ==
  ASSUME TypeOK, WaitsNow, UNCHANGED <<phase, lane, resumed>>, NEW target, NEW purge \in BOOLEAN,
         KillEffects(target, purge) \/ UNCHANGED <<item, queue>>
  PROVE  WaitsNow'
<1>1. CASE UNCHANGED <<item, queue>>
  BY <1>1 DEF WaitsNow
<1>2. CASE KillEffects(target, purge)
  BY <1>2, StopWaits DEF KillEffects, QueueCancelled
<1> QED BY <1>1, <1>2

LEMMA EndedWaits ==
  ASSUME TypeOK, OneActiveRun, WaitsNow, NEW r \in Runs, Live(r), UNCHANGED <<queue, resumed>>,
         NEW outcome \in {"done", "error", "cancelled"},
         IF lane.currentRun = r THEN Ended(r, outcome) ELSE RecoveredEnded(r, outcome)
  PROVE  WaitsNow'
<1> DEFINE it == ItemAfter(r, outcome)
           ph == PhaseAfter(r)
           rw == [row EXCEPT ![r] = outcome]
<1>0. it \in [Items -> ItemStatus] /\ ph \in [Runs -> Phase] /\ queue \in Seq(Items)
  BY DEF TypeOK, ItemAfter, PhaseAfter, ItemStatus, Terminal, Blocking, Phase
<1>1. /\ \A s \in Runs : ph[s] \notin Busy
      /\ \A s \in Runs : s # r => phase[s] \notin Busy
      /\ lane.running /\ lane.controller = r
  BY DEF TypeOK, OneActiveRun, Live, Busy, PhaseAfter
<1>2. \A i \in Items : \/ it[i] = item[i] /\ (i = r => item[i] # "running")
                       \/ i = r /\ item[i] = "running" /\ it[i] \in Terminal
  BY DEF ItemAfter, Terminal, Blocking
<1>3. Queued(it, queue)
  BY <1>2 DEF WaitsNow, Waits, Queued, Terminal, Blocking
<1>4. Awaits(it, ph)
  <2>1. \A i \in Items : Predecessors(i) \subseteq Items /\ i \in Runs
    BY PredecessorsAreItems DEF Runs
  <2> HIDE DEF it, ph
  <2> QED BY <1>1, <1>2, <2>1 DEF WaitsNow, Waits, Awaits, Terminal, Blocking
<1>5. CASE Ended(r, outcome)
  <2>1. Drain(queue, it, ph, rw, LaneAfter(r), ActAfter(outcome)) /\ ~LaneAfter(r).running
    BY <1>5 DEF Ended, LaneAfter
  <2>2. resumed \in BOOLEAN
    BY DEF TypeOK
  <2> HIDE DEF it, ph, rw
  <2> QED BY <1>0, <1>1, <1>3, <1>4, <2>1, <2>2, DrainWaits DEF WaitsNow
<1>6. CASE RecoveredEnded(r, outcome) /\ lane.currentRun # r
  <2>1. resumed
    BY <1>1, <1>6 DEF WaitsNow, Waits, Owned
  <2> QED BY <1>3, <1>4, <1>6, <2>1 DEF RecoveredEnded, WaitsNow, Waits
<1> QED BY <1>5, <1>6

LEMMA StartRecoveredWaits ==
  ASSUME TypeOK, WaitsNow, NEW r \in Runs, StartRecovered(r), UNCHANGED <<item, queue>>
  PROVE  WaitsNow'
<1>1. CASE lane.running
  BY <1>1 DEF StartRecovered, WaitsNow
<1>2. CASE ~lane.running
  <2>1. \A s \in Runs : phase[s] \in Busy => phase'[s] \in Busy
    BY <1>2 DEF StartRecovered, TypeOK, Busy
  <2>2. Queued(item, queue) /\ Awaits(item, phase) /\ resumed'
    BY <1>2 DEF WaitsNow, Waits, StartRecovered
  <2> QED BY <2>1, <2>2, WaitsKept DEF WaitsNow, Waits
<1> QED BY <1>1, <1>2

LEMMA WaitsStep ==
  ASSUME TypeOK, OneActiveRun, WaitsNow, Next
  PROVE  WaitsNow'
<1>0. /\ queue \in Seq(Items) /\ phase \in [Runs -> Phase] /\ item \in [Items -> ItemStatus]
      /\ Queued(item, queue) /\ Awaits(item, phase) /\ (~resumed => Owned(lane))
  BY DEF TypeOK, WaitsNow, Waits
<1>1. CASE RequestStep
  <2>1. ASSUME NEW d \in Direct, PostRun(d)
        PROVE  WaitsNow'
    <3>1. Started(d, item, phase, row) /\ UNCHANGED <<queue, resumed>> /\ d \in Runs
      BY <2>1 DEF PostRun, recVars, Runs
    <3>2. \A s \in Runs : phase[s] \in Busy => phase'[s] \in Busy
      BY <1>0, <3>1 DEF Started, Busy
    <3>3. Owned(lane') /\ lane'.running /\ item' = item
      BY <3>1 DEF Started, Owned
    <3> QED BY <1>0, <3>1, <3>2, <3>3, WaitsKept DEF WaitsNow, Waits
  <2>2. ASSUME NEW b \in Batches, NEW marked, Enqueue(b, marked)
        PROVE  WaitsNow'
    <3> DEFINE it == [i \in Items |-> IF i \in Members(b) THEN "queued" ELSE item[i]]
    <3>1. it \in [Items -> ItemStatus] /\ queue \o b \in Seq(Items) /\ b \in Seq(Items)
      BY <1>0, MarkedAreItems DEF ItemStatus
    <3>2. DrainIfFree(queue \o b, it) /\ queue' = queue \o b /\ resumed' = resumed
      BY <2>2 DEF Enqueue, recVars
    <3>3. Queued(it, queue \o b)
      <4>1. ASSUME NEW i \in Items, i \in Members(b)
            PROVE  \E k \in DOMAIN (queue \o b) : (queue \o b)[k] = i
        <5>1. PICK k \in DOMAIN b : b[k] = i
          BY <4>1 DEF Members
        <5>2. Len(queue) + k \in DOMAIN (queue \o b) /\ (queue \o b)[Len(queue) + k] = i
          BY <1>0, <3>1, <5>1
        <5> QED BY <5>2
      <4>2. ASSUME NEW i \in Items, item[i] = "queued"
            PROVE  \E k \in DOMAIN (queue \o b) : (queue \o b)[k] = i
        <5>1. PICK k \in DOMAIN queue : queue[k] = i
          BY <1>0, <4>2 DEF Queued
        <5>2. k \in DOMAIN (queue \o b) /\ (queue \o b)[k] = i
          BY <1>0, <3>1, <5>1
        <5> QED BY <5>2
      <4> QED BY <4>1, <4>2 DEF Queued
    <3>4. Awaits(it, phase)
      <4>1. ASSUME NEW i \in Items, i \in Members(b)
            PROVE  Predecessors(i) \subseteq Members(b)
        BY <4>1, BatchesAreApart DEF Predecessors, Members
      <4> QED BY <1>0, <2>2, <4>1, PredecessorsAreItems DEF Enqueue, Awaits, Terminal, Blocking
    <3> HIDE DEF it
    <3> QED BY <1>0, <3>1, <3>2, <3>3, <3>4, DrainIfFreeWaits DEF WaitsNow
  <2>3. ASSUME NEW i \in Items, CancelItem(i)
        PROVE  WaitsNow'
    <3> DEFINE it == [j \in Items |->
              IF j = i THEN "cancelled"
              ELSE IF i \notin tolerant /\ i \in Predecessors(j) /\ item[j] = "queued"
                   THEN "skipped" ELSE item[j]]
    <3>1. it \in [Items -> ItemStatus]
      BY <1>0 DEF ItemStatus, Terminal, Blocking
    <3>2. DrainIfFree(queue, it) /\ UNCHANGED <<queue, resumed>> /\ item[i] = "queued"
      BY <2>3 DEF CancelItem, recVars
    <3>3. \A j \in Items : it[j] = item[j] \/ (item[j] = "queued" /\ it[j] \in Terminal)
      BY <3>2 DEF Terminal, Blocking
    <3> HIDE DEF it
    <3>4. Queued(it, queue) /\ Awaits(it, phase)
      BY <1>0, <3>3, WaitsKept
    <3> QED BY <1>0, <3>1, <3>2, <3>4, DrainIfFreeWaits DEF WaitsNow
  <2> QED BY <1>1, <2>1, <2>2, <2>3 DEF RequestStep
<1>2. CASE RunStep
  <2>1. ASSUME NEW r \in Runs, AsksApproval(r) \/ Approve(r) \/ JobStarts(r) \/ JobSettled(r)
        PROVE  WaitsNow'
    <3>1. UNCHANGED <<item, queue, lane, resumed>> /\ \A s \in Runs : phase[s] \in Busy => phase'[s] \in Busy
      BY <1>0, <2>1 DEF AsksApproval, Approve, JobStarts, JobSettled, recVars, Busy
    <3> QED BY <1>0, <3>1, WaitsKept DEF WaitsNow, Waits
  <2>2. ASSUME NEW r \in Runs, RunEnds(r)
        PROVE  WaitsNow'
    BY <2>2, OutcomesType, EndedWaits DEF RunEnds, recVars
  <2> QED BY <1>2, <2>1, <2>2 DEF RunStep
<1>3. CASE StopStep
  <2>1. CASE Cancel
    BY <2>1, StopWaits DEF Cancel, ChainCancelled, recVars, Terminal, Blocking
  <2>2. CASE CancelByMessage \/ CancelIdle
    BY <2>2 DEF CancelByMessage, CancelIdle, laneVars, recVars, WaitsNow
  <2>3. ASSUME NEW r \in Runs, StopOrphan(r)
        PROVE  WaitsNow'
    BY <2>3, StopWaits DEF StopOrphan, ChainCancelled, recVars, Terminal, Blocking
  <2>4. ASSUME NEW target, NEW purge \in BOOLEAN, KillRequest(target, purge)
        PROVE  WaitsNow'
    <3>1. KillEffects(target, purge) \/ UNCHANGED <<item, queue>>
      BY <2>4 DEF KillRequest, KillLists
    <3> QED BY <2>4, <3>1, KillEffectsWaits DEF KillRequest, recVars
  <2>5. CASE KillWaited \/ KillFinishes
    <3>1. kill.purge \in BOOLEAN
      BY DEF TypeOK
    <3>2. KillEffects(kill.target, kill.purge) \/ UNCHANGED <<item, queue>>
      BY <2>5 DEF KillWaited, KillFinishes, KillLists
    <3> QED BY <2>5, <3>1, <3>2, KillEffectsWaits DEF KillWaited, KillFinishes, recVars
  <2> QED BY <1>3, <2>1, <2>2, <2>3, <2>4, <2>5 DEF StopStep
<1>4. CASE RecoveryStep
  <2>1. CASE Restart
    <3>1. Owned(lane') /\ \A i \in Items : item'[i] # "queued"
      BY <2>1 DEF Restart, QueueCancelled, Idle, Owned
    <3> QED BY <3>1, NoneQueued DEF WaitsNow
  <2>2. CASE Resume \/ RecoveryFails \/ RecoveryLists \/ PollEnds \/ \E r \in Runs : RecoverRun(r)
    BY <2>2 DEF Resume, RecoveryFails, RecoveryLists, PollEnds, RecoverRun, laneVars, WaitsNow
  <2>3. CASE RecoveryEnds
    <3>1. ASSUME NEW r \in Running, StartRecovered(r), item' = item
          PROVE  WaitsNow'
      BY <2>3, <3>1, StartRecoveredWaits DEF RecoveryEnds, Running
    <3>2. CASE UNCHANGED <<item, phase, lane, resumed>>
      BY <2>3, <3>2 DEF RecoveryEnds, WaitsNow
    <3>3. CASE DrainIfFree(queue, item) /\ resumed' = resumed
      BY <1>0, <2>3, <3>3, DrainIfFreeWaits DEF RecoveryEnds, WaitsNow
    <3> QED BY <2>3, <3>1, <3>2, <3>3 DEF RecoveryEnds
  <2>4. CASE CallBack
    <3>1. CASE ~act /\ watch # None
      BY <2>4, <3>1, StartRecoveredWaits DEF CallBack, TypeOK
    <3>2. CASE ~(~act /\ watch # None)
      BY <2>4, <3>2 DEF CallBack, WaitsNow
    <3> QED BY <3>1, <3>2
  <2> QED BY <1>4, <2>1, <2>2, <2>3, <2>4 DEF RecoveryStep
<1> QED BY <1>1, <1>2, <1>3, <1>4 DEF Next

(* For any requests, chains and marks: a lane without a run leaves no request
   in the queue, until a recovered run was started.                         *)
THEOREM FreeLaneIsDrained == Spec => []IdleMeansDrained
<1>1. Init => WaitsNow
  BY DEF Init, WaitsNow, Waits, Queued, Awaits, Owned, Idle, Drained
<1>2. TypeOK /\ OneActiveRun /\ WaitsNow /\ [Next]_vars => WaitsNow'
  <2>1. CASE UNCHANGED vars
    BY <2>1 DEF vars, laneVars, recVars, WaitsNow
  <2> QED BY <2>1, WaitsStep
<1>3. WaitsNow => IdleMeansDrained
  BY DEF WaitsNow, Waits, Drained, IdleMeansDrained
<1> QED BY <1>1, <1>2, <1>3, TypeCorrect, OneRunIsActive, PTL DEF Spec
=============================================================================
