------------------------- MODULE TaskRecoveryProofs -------------------------
(* Theorems about TaskRecovery, for every set of tasks, any number of        *)
(* restarts and of requests to resume.                                       *)
EXTENDS TaskRecovery, SequenceTheorems, TLAPS

Deduplicated == Keyed \ External

(* A task that is not deduplicated has no job before it is sent. *)
UnsentHasNoJob ==
    \A t \in Tasks \ Deduplicated :
        /\ plan[t] = "pending" => worker[t] = "none" /\ jobs[t] = <<>>
        /\ worker[t] \in {"launched", "assigned"} => jobs[t] = <<>>
        /\ Len(jobs[t]) <= 1

(* Only the last job of a task can be at work or done. *)
LastJobCounts ==
    \A t \in Tasks : \A j \in DOMAIN jobs[t] :
        j # Len(jobs[t]) => jobs[t][j] \in {"failed", "cancelled"}

(* What the rows, the workers and the recovery know of each other. *)
Coupled ==
    /\ ~up => ~loop
    /\ IF rec.stage = "off" THEN rec.todo = {} ELSE up
    /\ \A t \in Tasks : plan[t] = "pending" => row[t] = "pending"
    /\ \A t \in Tasks : worker[t] # "none" => loop

(* As long as no recovery was beside a run at work. *)
Apart ==
    ~beside =>
        /\ rec.stage # "off" => ~loop
        /\ \A t \in Tasks : worker[t] # "none" \/ t \in rec.todo => row[t] = "running"

IInv == TypeOK /\ UnsentHasNoJob /\ LastJobCounts /\ Coupled /\ Apart

-----------------------------------------------------------------------------
(* What the steps of a task come to.                                        *)

TaskStep(t) == Launch(t) \/ Assign(t) \/ Execute(t) \/ Follow(t) \/ CallFails(t) \/ Accept(t)
LookStep(t) == Unresolvable(t) \/ NoJob(t) \/ Ask(t)

LEMMA FrameOver == \A s \in {"done", "failed", "cancelled"} : Frame(s) \in {"done", "failed"}
  BY DEF Frame, UnsuccessfulStatuses, TerminalStatuses

LEMMA FrameAny == \A s \in JobStatus : Frame(s) \in TaskStatus \ {"pending"}
  BY DEF Frame, UnsuccessfulStatuses, TerminalStatuses, JobStatus, TaskStatus

(* A frame of an activity changes the plan only to statuses past "pending".  *)
LEMMA ProjectedPlan ==
  ASSUME TypeOK, NEW t \in Tasks, NEW s \in JobStatus, NEW lv,
         NEW sh \in [Tasks -> {"none", "done", "failed"}]
  PROVE  /\ Projected(t, s, sh, lv) \in [Tasks -> TaskStatus]
         /\ \A u \in Tasks : Projected(t, s, sh, lv)[u] = "pending" => plan[u] = "pending"
<1> DEFINE moved == IF plan[t] \in TerminalStatuses THEN plan ELSE [plan EXCEPT ![t] = Frame(s)]
<1>1. Frame(s) \in TaskStatus \ {"pending"}
  BY FrameAny
<1>2. plan \in [Tasks -> TaskStatus]
  BY DEF TypeOK
<1>3. moved \in [Tasks -> TaskStatus] /\ \A u \in Tasks : moved[u] = "pending" => plan[u] = "pending"
  BY <1>1, <1>2
<1>4. Projected(t, s, sh, lv) = [u \in Tasks |->
            IF moved[u] \in TerminalStatuses THEN moved[u]
            ELSE IF sh[u] # "none" THEN sh[u]
            ELSE IF \E a \in lv : a[1] = u THEN "running"
            ELSE moved[u]]
  BY DEF Projected
<1> HIDE DEF moved
<1>5. {"none", "done", "failed"} \subseteq TaskStatus \union {"none"}
  BY DEF TaskStatus
<1> QED BY <1>3, <1>4, <1>5 DEF TaskStatus

(* The attempts with the job of an attempt recorded.                        *)
LEMMA WithJobType ==
  ASSUME TypeOK, NEW t \in Tasks, NEW n \in Nat, NEW j \in {0} \union DOMAIN jobs[t]
  PROVE  /\ WithJob(t, n, j) \in [Tasks -> Seq([number : Nat, job : Nat])]
         /\ \A u \in Tasks : \A k \in DOMAIN WithJob(t, n, j)[u] :
               WithJob(t, n, j)[u][k].job \in {0} \union DOMAIN jobs[u]
<1> DEFINE Rec == [number : Nat, job : Nat]
           s == started[t]
           new == [number |-> n, job |-> j]
           over == [k \in DOMAIN s |-> IF s[k].number = n THEN new ELSE s[k]]
           after == IF Numbered(t, n) THEN over ELSE Append(s, new)
<1>1. s \in Seq(Rec) /\ started \in [Tasks -> Seq(Rec)] /\ jobs[t] \in Seq(JobStatus)
  BY DEF TypeOK
<1>2. new \in Rec /\ new.job = j
  BY <1>1
<1>3. \A k \in DOMAIN s : s[k].job \in {0} \union DOMAIN jobs[t] /\ s[k] \in Rec
  <2>1. \A k \in DOMAIN s : s[k].job \in {0} \union DOMAIN jobs[t]
    BY DEF TypeOK
  <2>2. \A k \in DOMAIN s : s[k] \in Rec
    <3> HIDE DEF Rec, s
    <3> QED BY <1>1
  <2> QED BY <2>1, <2>2
<1>4. over \in Seq(Rec) /\ \A k \in DOMAIN over : over[k].job \in {0} \union DOMAIN jobs[t]
  <2>1. DOMAIN over = 1..Len(s) /\ Len(s) \in Nat
    BY <1>1
  <2>2. \A k \in 1..Len(s) : over[k] \in Rec /\ over[k].job \in {0} \union DOMAIN jobs[t]
    BY <1>2, <1>3, <2>1
  <2>3. over \in [1..Len(s) -> Rec]
    BY <2>1, <2>2
  <2>4. over \in Seq(Rec)
    <3> HIDE DEF over, Rec
    <3> QED BY <2>1, <2>3, SeqDef
  <2> QED BY <2>1, <2>2, <2>4
<1>5. /\ Append(s, new) \in Seq(Rec)
      /\ \A k \in DOMAIN Append(s, new) : Append(s, new)[k].job \in {0} \union DOMAIN jobs[t]
  <2> HIDE DEF new
  <2> QED BY <1>1, <1>2, <1>3
<1>6. after \in Seq(Rec) /\ \A k \in DOMAIN after : after[k].job \in {0} \union DOMAIN jobs[t]
  BY <1>4, <1>5
<1>7. WithJob(t, n, j) = [started EXCEPT ![t] = after]
  BY DEF WithJob
<1> HIDE DEF after
<1> QED BY <1>1, <1>6, <1>7 DEF TypeOK

LEMMA InitIInv == Init => IInv
<1> SUFFICES ASSUME Init PROVE IInv
  OBVIOUS
<1>1. TypeOK
  <2>1. /\ plan \in [Tasks -> TaskStatus] /\ row \in [Tasks -> TaskStatus] /\ run \in RunStatus
        /\ shown \in [Tasks -> {"none", "done", "failed"}] /\ worker \in [Tasks -> WorkerStates]
    BY DEF Init, RunStatus, TaskStatus, WorkerStates
  <2>2. /\ started \in [Tasks -> Seq([number : Nat, job : Nat])] /\ jobs \in [Tasks -> Seq(JobStatus)]
        /\ \A t \in Tasks : started[t] = <<>>
    BY DEF Init
  <2>3. rec \in [stage : {"off", "begin", "tasks"}, todo : SUBSET Tasks, asked : Tasks \union {NoTask},
                 job : Nat, answer : JobStatus \union {"none"}, progressed : BOOLEAN, failed : BOOLEAN]
    BY DEF Init, Off
  <2>4. boots \in 0..MaxBoots /\ resumes \in 0..MaxResumes
    BY RecoveryAssumption DEF Init
  <2>5. /\ unstarted \in [Tasks -> SUBSET Nat] /\ live \subseteq Tasks \X Nat
        /\ up \in BOOLEAN /\ loop \in BOOLEAN /\ watch \in BOOLEAN /\ beside \in BOOLEAN
        /\ attempt \in [Tasks -> Nat] /\ held \in [Tasks -> Nat] /\ next \in Nat
    BY DEF Init
  <2>6. /\ \A a \in live : a[2] \in DOMAIN jobs[a[1]]
        /\ \A t \in Tasks : worker[t] \notin {"sent", "following"}
        /\ rec.asked = NoTask
    BY DEF Init, Off
  <2> QED BY <2>1, <2>2, <2>3, <2>4, <2>5, <2>6 DEF TypeOK
<1>2. UnsentHasNoJob /\ LastJobCounts
  BY DEF Init, UnsentHasNoJob, LastJobCounts
<1>3. Coupled /\ Apart
  BY DEF Init, Coupled, Apart, Off
<1> QED BY <1>1, <1>2, <1>3 DEF IInv

-----------------------------------------------------------------------------
(* Types.                                                                   *)

RecType == [stage : {"off", "begin", "tasks"}, todo : SUBSET Tasks, asked : Tasks \union {NoTask},
            job : Nat, answer : JobStatus \union {"none"}, progressed : BOOLEAN, failed : BOOLEAN]

(* The jobs of a task only become more, so that a name of one stays good.   *)
LEMMA JobNamesStay ==
  ASSUME TypeOK, NEW t \in Tasks, NEW s \in JobStatus, jobs' = [jobs EXCEPT ![t] = Append(@, s)]
  PROVE  /\ jobs' \in [Tasks -> Seq(JobStatus)]
         /\ \A u \in Tasks : DOMAIN jobs[u] \subseteq DOMAIN jobs'[u]
         /\ Len(jobs[t]) + 1 \in DOMAIN jobs'[t] /\ Len(jobs[t]) \in Nat
         /\ Len(jobs'[t]) = Len(jobs[t]) + 1
         /\ \A u \in Tasks : \A k \in DOMAIN jobs[u] : jobs'[u][k] = jobs[u][k]
<1>1. jobs \in [Tasks -> Seq(JobStatus)] /\ jobs[t] \in Seq(JobStatus)
  BY DEF TypeOK
<1>2. jobs'[t] = Append(jobs[t], s) /\ \A u \in Tasks \ {t} : jobs'[u] = jobs[u]
  BY <1>1
<1>3. Append(jobs[t], s) \in Seq(JobStatus)
  BY <1>1
<1> QED BY <1>1, <1>2, <1>3

LEMMA JobChanged ==
  ASSUME TypeOK, NEW t \in Tasks, NEW j \in DOMAIN jobs[t], NEW s \in JobStatus,
         jobs' = [jobs EXCEPT ![t][j] = s]
  PROVE  /\ jobs' \in [Tasks -> Seq(JobStatus)]
         /\ \A u \in Tasks : DOMAIN jobs'[u] = DOMAIN jobs[u] /\ Len(jobs'[u]) = Len(jobs[u])
         /\ \A u \in Tasks : \A k \in DOMAIN jobs[u] :
               jobs'[u][k] = IF u = t /\ k = j THEN s ELSE jobs[u][k]
<1>1. jobs \in [Tasks -> Seq(JobStatus)] /\ jobs[t] \in Seq(JobStatus)
  BY DEF TypeOK
<1>2. jobs'[t] = [jobs[t] EXCEPT ![j] = s] /\ \A u \in Tasks \ {t} : jobs'[u] = jobs[u]
  BY <1>1
<1>3. [jobs[t] EXCEPT ![j] = s] \in Seq(JobStatus)
  BY <1>1
<1> QED BY <1>1, <1>2, <1>3

LEMMA StepTypes ==
  ASSUME TypeOK, NEW t \in Tasks, NEW s \in TaskStatus, Stepped(t, s)
  PROVE  plan' \in [Tasks -> TaskStatus] /\ row' \in [Tasks -> TaskStatus]
  BY DEF TypeOK, Stepped

LEMMA EndedTypes ==
  ASSUME TypeOK, NEW t \in Tasks, NEW j, NEW s \in JobStatus \ {"running"}, Ended(t, j, s)
  PROVE  /\ shown' \in [Tasks -> {"none", "done", "failed"}]
         /\ live' \subseteq live
<1>1. Frame(s) \in {"done", "failed"}
  BY FrameOver DEF JobStatus
<1> QED BY <1>1 DEF Ended, TypeOK

LEMMA TaskStepType == ASSUME TypeOK, NEW t \in Tasks, TaskStep(t) PROVE TypeOK'
<1>1. CASE Launch(t)
  <2>1. "running" \in TaskStatus /\ next + 1 \in Nat
    BY DEF TaskStatus, TypeOK
  <2>2. plan' \in [Tasks -> TaskStatus] /\ row' \in [Tasks -> TaskStatus]
    BY <1>1, <2>1, StepTypes DEF Launch
  <2> QED BY <1>1, <2>1, <2>2 DEF Launch, TypeOK, countVars, WorkerStates
<1>2. CASE Assign(t)
  BY <1>2 DEF Assign, TypeOK, countVars, WorkerStates
<1>3. CASE Execute(t)
  <2>1. CASE /\ Len(jobs[t]) > 0 /\ held' = [held EXCEPT ![t] = Len(jobs[t])] /\ UNCHANGED jobs
    <3>1. Len(jobs[t]) \in Nat /\ Len(jobs[t]) \in DOMAIN jobs[t]
      BY <2>1 DEF TypeOK
    <3> QED BY <1>3, <2>1, <3>1 DEF Execute, TypeOK, storeVars, countVars, WorkerStates
  <2>2. CASE /\ jobs' = [jobs EXCEPT ![t] = Append(@, "running")]
             /\ held' = [held EXCEPT ![t] = Len(jobs[t]) + 1]
    <3>1. /\ jobs' \in [Tasks -> Seq(JobStatus)]
          /\ \A u \in Tasks : DOMAIN jobs[u] \subseteq DOMAIN jobs'[u]
          /\ Len(jobs[t]) + 1 \in DOMAIN jobs'[t] /\ Len(jobs[t]) \in Nat
      BY <2>2, JobNamesStay DEF JobStatus
    <3>2. /\ worker' \in [Tasks -> WorkerStates] /\ worker'[t] = "sent"
          /\ \A u \in Tasks \ {t} : worker'[u] = worker[u]
      BY <1>3 DEF Execute, TypeOK, WorkerStates
    <3>3. /\ held' \in [Tasks -> Nat] /\ held'[t] = Len(jobs[t]) + 1
          /\ \A u \in Tasks \ {t} : held'[u] = held[u]
      BY <2>2, <3>1 DEF TypeOK
    <3>4. \A u \in Tasks : worker'[u] \in {"sent", "following"} => held'[u] \in DOMAIN jobs'[u]
      BY <3>1, <3>2, <3>3 DEF TypeOK
    <3>5. UNCHANGED <<storeVars, up, loop, watch, attempt, next, rec, countVars>>
      BY <1>3 DEF Execute
    <3>6. /\ \A u \in Tasks : \A k \in DOMAIN started[u] : started[u][k].job \in {0} \union DOMAIN jobs'[u]
          /\ \A a \in live : a[2] \in DOMAIN jobs'[a[1]]
          /\ rec.asked # NoTask =>
                /\ rec.stage = "tasks" /\ rec.asked \in rec.todo
                /\ rec.job \in DOMAIN jobs'[rec.asked] /\ rec.answer \in JobStatus
      <4>1. \A a \in live : a[1] \in Tasks
        BY DEF TypeOK
      <4>2. rec.asked # NoTask => rec.asked \in Tasks
        BY DEF TypeOK
      <4> QED BY <3>1, <4>1, <4>2 DEF TypeOK
    <3> QED BY <3>1, <3>2, <3>3, <3>4, <3>5, <3>6 DEF TypeOK, storeVars, countVars
  <2> QED BY <1>3, <2>1, <2>2 DEF Execute
<1>4. CASE Follow(t)
  <2>1. held[t] \in DOMAIN jobs[t] /\ attempt[t] \in Nat /\ held[t] \in Nat
    BY <1>4 DEF Follow, TypeOK
  <2>2. /\ started' \in [Tasks -> Seq([number : Nat, job : Nat])]
        /\ \A u \in Tasks : \A k \in DOMAIN started'[u] : started'[u][k].job \in {0} \union DOMAIN jobs[u]
    BY <1>4, <2>1, WithJobType DEF Follow, Recorded
  <2>3. plan' \in [Tasks -> TaskStatus]
    <3>1. "running" \in JobStatus /\ shown \in [Tasks -> {"none", "done", "failed"}]
      BY DEF TypeOK, JobStatus
    <3> QED BY <1>4, <3>1, ProjectedPlan DEF Follow
  <2>4. live' \subseteq Tasks \X Nat /\ \A a \in live' : a[2] \in DOMAIN jobs[a[1]]
    <3>1. live' = live \union {<<t, held[t]>>}
      BY <1>4 DEF Follow
    <3> QED BY <2>1, <3>1 DEF TypeOK
  <2>5. worker' \in [Tasks -> WorkerStates] /\ \A u \in Tasks : worker'[u] \in {"sent", "following"} => held[u] \in DOMAIN jobs[u]
    BY <1>4, <2>1 DEF Follow, TypeOK, WorkerStates
  <2>6. unstarted' \in [Tasks -> SUBSET Nat]
    BY <1>4 DEF Follow, Recorded, TypeOK
  <2>7. UNCHANGED <<run, row, shown, up, loop, watch, attempt, held, next, rec, jobs, countVars>>
    BY <1>4 DEF Follow
  <2> QED BY <2>2, <2>3, <2>4, <2>5, <2>6, <2>7 DEF TypeOK, countVars
<1>5. CASE CallFails(t)
  <2>1. attempt[t] \in Nat /\ "failed" \in TaskStatus
    BY DEF TypeOK, TaskStatus
  <2>2. /\ started' \in [Tasks -> Seq([number : Nat, job : Nat])]
        /\ \A u \in Tasks : \A k \in DOMAIN started'[u] : started'[u][k].job \in {0} \union DOMAIN jobs[u]
    BY <1>5, <2>1, WithJobType DEF CallFails, TypeOK
  <2>3. plan' \in [Tasks -> TaskStatus] /\ row' \in [Tasks -> TaskStatus]
    BY <1>5, <2>1, StepTypes DEF CallFails
  <2> QED BY <1>5, <2>2, <2>3 DEF CallFails, TypeOK, countVars, WorkerStates
<1>6. CASE Accept(t)
  <2> DEFINE status == jobs[t][held[t]]
  <2>1. status \in JobStatus \ {"running"} /\ status \in TaskStatus
    BY <1>6 DEF Accept, TypeOK, JobStatus, TaskStatus
  <2>2. /\ shown' \in [Tasks -> {"none", "done", "failed"}] /\ live' \subseteq live
    BY <1>6, <2>1, EndedTypes DEF Accept, TypeOK
  <2>3. plan' \in [Tasks -> TaskStatus]
    <3>1. CASE t \in External
      <4>1. Projected(t, status, shown', live') \in [Tasks -> TaskStatus]
        BY <2>1, <2>2, ProjectedPlan
      <4>2. plan' = [Projected(t, status, shown', live') EXCEPT ![t] = status]
        BY <1>6, <3>1 DEF Accept
      <4> QED BY <2>1, <4>1, <4>2
    <3>2. CASE t \notin External
      BY <1>6, <2>1, <3>2 DEF Accept, TypeOK
    <3> QED BY <3>1, <3>2
  <2>4. row' \in [Tasks -> TaskStatus]
    BY <1>6, <2>1 DEF Accept, TypeOK
  <2> HIDE DEF status
  <2> QED BY <1>6, <2>2, <2>3, <2>4 DEF Accept, TypeOK, countVars, WorkerStates
<1> QED BY <1>1, <1>2, <1>3, <1>4, <1>5, <1>6 DEF TaskStep

LEMMA ResumedType ==
  ASSUME TypeOK, Resumed \/ UNCHANGED <<loop, next>> PROVE loop' \in BOOLEAN /\ next' \in Nat
<1>1. CASE UNCHANGED <<loop, next>>
  BY <1>1 DEF TypeOK
<1>2. CASE loop' = TRUE /\ next' = 0
  BY <1>2
<1> QED BY <1>1, <1>2 DEF Resumed

LEMMA AgentStepType == TypeOK /\ AgentStep => TypeOK'
<1> SUFFICES ASSUME TypeOK, NEW t \in Tasks, NEW j \in DOMAIN jobs[t], JobEnds(t, j) \/ Poll(t, j)
             PROVE  TypeOK'
  BY DEF AgentStep
<1>1. CASE JobEnds(t, j)
  <2>1. PICK s \in {"done", "failed"} : jobs' = [jobs EXCEPT ![t][j] = s]
    BY <1>1 DEF JobEnds
  <2>2. /\ jobs' \in [Tasks -> Seq(JobStatus)]
        /\ \A u \in Tasks : DOMAIN jobs'[u] = DOMAIN jobs[u]
    BY <2>1, JobChanged DEF JobStatus
  <2> QED BY <1>1, <2>2 DEF JobEnds, TypeOK, storeVars, workVars, countVars
<1>2. CASE Poll(t, j)
  <2>1. jobs[t][j] \in JobStatus
    BY DEF TypeOK
  <2>2. shown' \in [Tasks -> {"none", "done", "failed"}] /\ live' \subseteq live
    BY <1>2, <2>1, EndedTypes DEF Poll, TypeOK
  <2>3. plan' \in [Tasks -> TaskStatus]
    <3>1. "running" \in JobStatus /\ shown \in [Tasks -> {"none", "done", "failed"}]
      BY DEF TypeOK, JobStatus
    <3>2. \/ plan' = Projected(t, "running", shown, live)
          \/ plan' = Projected(t, jobs[t][j], shown', live')
      BY <1>2 DEF Poll
    <3>3. Projected(t, "running", shown, live) \in [Tasks -> TaskStatus]
      BY <3>1, ProjectedPlan
    <3>4. Projected(t, jobs[t][j], shown', live') \in [Tasks -> TaskStatus]
      BY <2>1, <2>2, ProjectedPlan
    <3> QED BY <3>2, <3>3, <3>4
  <2>4. watch' \in BOOLEAN /\ loop' \in BOOLEAN /\ next' \in Nat /\ beside' \in BOOLEAN
    <3>1. \/ UNCHANGED <<watch, loop, next, beside>>
          \/ watch' = FALSE /\ Resumed /\ beside' = (beside \/ rec # Off)
      BY <1>2 DEF Poll, Watched
    <3>2. CASE UNCHANGED <<watch, loop, next, beside>>
      BY <3>2 DEF TypeOK
    <3>3. CASE watch' = FALSE /\ Resumed /\ beside' = (beside \/ rec # Off)
      <4>1. beside' \in BOOLEAN
        BY <3>3, Zenon
      <4>2. loop' \in BOOLEAN /\ next' \in Nat
        BY <3>3, ResumedType
      <4> QED BY <3>3, <4>1, <4>2
    <3> QED BY <3>1, <3>2, <3>3
  <2> QED BY <1>2, <2>2, <2>3, <2>4 DEF Poll, TypeOK
<1> QED BY <1>1, <1>2

LEMMA LookStepType == ASSUME TypeOK, NEW t \in Tasks, LookStep(t) PROVE TypeOK'
<1>1. rec \in RecType
  BY DEF TypeOK, RecType
<1>2. CASE Unresolvable(t)
  <2>1. plan' \in [Tasks -> TaskStatus] /\ row' \in [Tasks -> TaskStatus]
    BY <1>2, StepTypes DEF Unresolvable, TaskStatus
  <2>2. rec' \in RecType /\ rec'.asked = NoTask
    BY <1>1, <1>2 DEF Unresolvable, ToDo, RecType
  <2> QED BY <1>2, <2>1, <2>2 DEF Unresolvable, TypeOK, RecType, workVars, countVars
<1>3. CASE NoJob(t)
  <2>2. rec' \in RecType /\ rec'.asked = NoTask
    BY <1>1, <1>3 DEF NoJob, ToDo, RecType
  <2> QED BY <1>3, <2>2 DEF NoJob, TypeOK, RecType, storeVars, workVars, countVars
<1>4. CASE Ask(t)
  <2>1. LatestJob(t) \in DOMAIN jobs[t] /\ LatestJob(t) \in Nat
    BY <1>4 DEF Ask, LatestJob, TypeOK
  <2>2. jobs[t][LatestJob(t)] \in JobStatus
    BY <2>1 DEF TypeOK
  <2>3. /\ rec' \in RecType /\ rec'.stage = "tasks" /\ rec'.asked = t /\ t \in rec'.todo
        /\ rec'.job = LatestJob(t) /\ rec'.answer \in JobStatus
    BY <1>1, <1>4, <2>1, <2>2 DEF Ask, ToDo, RecType
  <2> QED BY <1>4, <2>1, <2>3 DEF Ask, TypeOK, RecType, storeVars, workVars, countVars
<1> QED BY <1>2, <1>3, <1>4 DEF LookStep

LEMMA AnsweredType ==
  TypeOK => Answered \in RecType /\ Answered.asked = NoTask /\ Answered.stage = rec.stage
            /\ Answered.todo = rec.todo \ {rec.asked}
  BY DEF TypeOK, RecType, Answered

LEMMA RecoveryStepType ==
  ASSUME TypeOK, Begin \/ AskFails \/ Recover \/ RecoveryEnds PROVE TypeOK'
<1>1. rec \in RecType
  BY DEF TypeOK, RecType
<1>2. CASE Begin
  <2>1. rec.asked = NoTask
    BY <1>2 DEF Begin, TypeOK
  <2>2. ActiveRows \subseteq Tasks
    BY DEF ActiveRows
  <2>3. Off \in RecType /\ Off.asked = NoTask
    BY DEF Off, RecType
  <2>4. rec' \in RecType /\ rec'.asked = NoTask
    BY <1>1, <1>2, <2>1, <2>2, <2>3 DEF Begin, RecType
  <2>5. run' \in RunStatus
    BY <1>2 DEF Begin, Interrupted, TypeOK, RunStatus
  <2> QED BY <1>2, <2>4, <2>5 DEF Begin, TypeOK, RecType, workVars, countVars
<1>3. CASE AskFails
  <2>1. rec' \in RecType /\ rec'.asked = NoTask
    BY <1>3, AnsweredType DEF AskFails, RecType
  <2> QED BY <1>3, <2>1 DEF AskFails, TypeOK, RecType, storeVars, workVars, countVars
<1>4. CASE Recover
  <2>1. rec' \in RecType /\ rec'.asked = NoTask
    <3>1. rec' = Answered \/ rec' = [Answered EXCEPT !.progressed = TRUE]
      BY <1>4, Zenon DEF Recover
    <3> QED BY <3>1, AnsweredType DEF RecType
  <2>2. rec.asked \in Tasks /\ rec.answer \in JobStatus /\ rec.answer \in TaskStatus
        /\ "pending" \in TaskStatus /\ rec.job \in DOMAIN jobs[rec.asked]
    BY <1>4 DEF Recover, TypeOK, JobStatus, TaskStatus
  <2>3. plan' \in [Tasks -> TaskStatus] /\ row' \in [Tasks -> TaskStatus]
    <3>1. Stepped(rec.asked, rec.answer) \/ Stepped(rec.asked, "pending") \/ UNCHANGED <<plan, row>>
      BY <1>4, Zenon DEF Recover
    <3>2. CASE UNCHANGED <<plan, row>>
      BY <3>2 DEF TypeOK
    <3> QED BY <2>2, <3>1, <3>2, StepTypes
  <2>4. UNCHANGED jobs \/ jobs' = [jobs EXCEPT ![rec.asked][rec.job] = "cancelled"]
    BY <1>4, Zenon DEF Recover
  <2>5. /\ jobs' \in [Tasks -> Seq(JobStatus)]
        /\ \A u \in Tasks : DOMAIN jobs'[u] = DOMAIN jobs[u]
    <3>1. CASE UNCHANGED jobs
      BY <3>1 DEF TypeOK
    <3>2. CASE jobs' = [jobs EXCEPT ![rec.asked][rec.job] = "cancelled"]
      BY <2>2, <3>2, JobChanged DEF JobStatus
    <3> QED BY <2>4, <3>1, <3>2
  <2>6. UNCHANGED <<run, started, unstarted, live, shown, up, loop, watch, workVars, countVars>>
    BY <1>4 DEF Recover
  <2> QED BY <2>1, <2>3, <2>5, <2>6 DEF TypeOK, RecType, workVars, countVars
<1>5. CASE RecoveryEnds
  <2>1. rec' \in RecType /\ rec'.asked = NoTask
    BY <1>5 DEF RecoveryEnds, Off, RecType
  <2>2. run' \in RunStatus
    BY <1>5 DEF RecoveryEnds, Interrupted, TypeOK, RunStatus
  <2>3. loop' \in BOOLEAN /\ next' \in Nat
    BY <1>5, ResumedType DEF RecoveryEnds
  <2>4. watch' \in BOOLEAN
    <3>1. UNCHANGED watch \/ watch' = (watch \/ (run' = "running" /\ Pollable(live) # {}))
      BY <1>5, Zenon DEF RecoveryEnds
    <3>2. CASE UNCHANGED watch
      BY <3>2 DEF TypeOK
    <3>3. CASE watch' = (watch \/ (run' = "running" /\ Pollable(live) # {}))
      BY <3>3, Zenon
    <3> QED BY <3>1, <3>2, <3>3
  <2> QED BY <1>5, <2>1, <2>2, <2>3, <2>4 DEF RecoveryEnds, TypeOK, RecType, countVars
<1> QED BY <1>2, <1>3, <1>4, <1>5

LEMMA RestartType == ASSUME TypeOK, LoopEnds \/ Crash \/ Boot \/ Resume PROVE TypeOK'
<1>1. CASE LoopEnds
  BY <1>1 DEF LoopEnds, TypeOK, RunStatus, workVars, countVars
<1>2. CASE Crash
  <2>1. /\ started' \in [Tasks -> Seq([number : Nat, job : Nat])]
        /\ \A u \in Tasks : \A k \in DOMAIN started'[u] : started'[u][k].job \in {0} \union DOMAIN jobs[u]
        /\ unstarted' \in [Tasks -> SUBSET Nat]
    <3>1. CASE UNCHANGED <<started, unstarted>>
      BY <3>1 DEF TypeOK
    <3>2. ASSUME NEW t \in Tasks, worker[t] = "sent", Recorded(t)
          PROVE /\ started' \in [Tasks -> Seq([number : Nat, job : Nat])]
                /\ \A u \in Tasks : \A k \in DOMAIN started'[u] : started'[u][k].job \in {0} \union DOMAIN jobs[u]
                /\ unstarted' \in [Tasks -> SUBSET Nat]
      <4>1. held[t] \in DOMAIN jobs[t] /\ attempt[t] \in Nat
        BY <3>2 DEF TypeOK
      <4> QED BY <3>2, <4>1, WithJobType DEF Recorded, TypeOK
    <3> QED BY <1>2, <3>1, <3>2 DEF Crash
  <2>2. rec' \in RecType /\ rec'.asked = NoTask
    BY <1>2 DEF Crash, Off, RecType
  <2>3. boots' \in 0..MaxBoots
    BY <1>2, RecoveryAssumption DEF Crash, TypeOK
  <2> QED BY <1>2, <2>1, <2>2, <2>3 DEF Crash, TypeOK, RecType, WorkerStates
<1>3. CASE Boot
  <2>1. rec' \in RecType /\ rec'.asked = NoTask
    BY <1>3 DEF Boot, Off, RecType
  <2> QED BY <1>3, <2>1 DEF Boot, TypeOK, RecType, storeVars, workVars, countVars
<1>4. CASE Resume
  <2>1. rec' \in RecType /\ rec'.asked = NoTask
    BY <1>4 DEF Resume, Off, RecType
  <2>2. resumes' \in 0..MaxResumes
    BY <1>4, RecoveryAssumption DEF Resume, TypeOK
  <2>3. beside' \in BOOLEAN
    BY <1>4, Zenon DEF Resume
  <2> QED BY <1>4, <2>1, <2>2, <2>3 DEF Resume, TypeOK, RecType, storeVars, workVars
<1> QED BY <1>1, <1>2, <1>3, <1>4

LEMMA NextType == TypeOK /\ [Next]_vars => TypeOK'
<1> SUFFICES ASSUME TypeOK, [Next]_vars PROVE TypeOK'
  OBVIOUS
<1>1. CASE UNCHANGED vars
  BY <1>1 DEF TypeOK, vars, storeVars, workVars, countVars
<1>2. CASE RunStep
  BY <1>2, TaskStepType, RestartType DEF RunStep, TaskStep
<1>3. CASE AgentStep
  BY <1>3, AgentStepType
<1>4. CASE RecoveryStep
  BY <1>4, LookStepType, RecoveryStepType DEF RecoveryStep, LookStep
<1>5. CASE Crash \/ Boot \/ Resume
  BY <1>5, RestartType
<1> QED BY <1>1, <1>2, <1>3, <1>4, <1>5 DEF Next

-----------------------------------------------------------------------------
(* Work is done once.                                                       *)

WorkInv == UnsentHasNoJob /\ LastJobCounts

(* No job is added or comes to life, and no task is pending or unsent that
   was not.                                                                 *)
NoNewWork ==
    /\ \A t \in Tasks :
          /\ DOMAIN jobs'[t] = DOMAIN jobs[t] /\ Len(jobs'[t]) = Len(jobs[t])
          /\ \A j \in DOMAIN jobs[t] :
                jobs'[t][j] = jobs[t][j] \/ jobs[t][j] = "running"
          /\ t \notin Deduplicated =>
                /\ plan'[t] = "pending" => plan[t] = "pending" /\ (worker[t] = "none" => worker'[t] = "none")
                /\ worker'[t] \in {"launched", "assigned"} =>
                      plan[t] = "pending" \/ worker[t] \in {"launched", "assigned"}

LEMMA NoNewWorkKeeps ==
  ASSUME TypeOK, TypeOK', WorkInv, NoNewWork PROVE WorkInv'
<1>1. UnsentHasNoJob'
  <2> SUFFICES ASSUME NEW t \in Tasks \ Deduplicated
               PROVE  /\ plan'[t] = "pending" => worker'[t] = "none" /\ jobs'[t] = <<>>
                      /\ worker'[t] \in {"launched", "assigned"} => jobs'[t] = <<>>
                      /\ Len(jobs'[t]) <= 1
    BY DEF UnsentHasNoJob, Deduplicated
  <2>1. Len(jobs'[t]) = Len(jobs[t]) /\ jobs[t] \in Seq(JobStatus) /\ jobs'[t] \in Seq(JobStatus)
    BY DEF NoNewWork, TypeOK
  <2>2. Len(jobs'[t]) <= 1
    BY <2>1 DEF WorkInv, UnsentHasNoJob
  <2>3. ASSUME worker'[t] \in {"launched", "assigned"} PROVE jobs'[t] = <<>>
    BY <2>1, <2>3 DEF NoNewWork, WorkInv, UnsentHasNoJob
  <2>4. ASSUME plan'[t] = "pending" PROVE worker'[t] = "none" /\ jobs'[t] = <<>>
    BY <2>1, <2>4 DEF NoNewWork, WorkInv, UnsentHasNoJob
  <2> QED BY <2>2, <2>3, <2>4
<1>2. LastJobCounts'
  BY DEF NoNewWork, WorkInv, LastJobCounts
<1> QED BY <1>1, <1>2 DEF WorkInv

(* The steps that change neither the jobs nor what is pending.              *)
LEMMA QuietSteps ==
  ASSUME TypeOK, UNCHANGED jobs,
         \A t \in Tasks : plan'[t] = "pending" => plan[t] = "pending",
         \A t \in Tasks : /\ worker[t] = "none" => worker'[t] = "none"
                          /\ worker'[t] \in {"launched", "assigned"} => worker[t] \in {"launched", "assigned"}
  PROVE  NoNewWork
<1>1. \A t \in Tasks : /\ DOMAIN jobs'[t] = DOMAIN jobs[t] /\ Len(jobs'[t]) = Len(jobs[t])
                       /\ \A j \in DOMAIN jobs[t] : jobs'[t][j] = jobs[t][j]
  OBVIOUS
<1>2. \A t \in Tasks :
        /\ plan'[t] = "pending" => plan[t] = "pending" /\ (worker[t] = "none" => worker'[t] = "none")
        /\ worker'[t] \in {"launched", "assigned"} =>
              plan[t] = "pending" \/ worker[t] \in {"launched", "assigned"}
  OBVIOUS
<1> QED BY <1>1, <1>2 DEF NoNewWork

LEMMA ExecuteKeepsWork ==
  ASSUME TypeOK, TypeOK', WorkInv, NEW t \in Tasks, Execute(t) PROVE WorkInv'
<1>1. /\ worker[t] = "assigned" /\ worker' = [worker EXCEPT ![t] = "sent"]
      /\ UNCHANGED plan /\ worker \in [Tasks -> WorkerStates]
  BY DEF Execute, storeVars, TypeOK
<1>2. CASE UNCHANGED jobs
  <2>1. NoNewWork
    BY <1>1, <1>2 DEF NoNewWork
  <2> QED BY <2>1, NoNewWorkKeeps
<1>3. CASE /\ (Len(jobs[t]) > 0 /\ t \in Deduplicated) => jobs[t][Len(jobs[t])] \in UnsuccessfulStatuses
           /\ jobs' = [jobs EXCEPT ![t] = Append(@, "running")]
  <2>1. /\ \A u \in Tasks : jobs[u] \in Seq(JobStatus) /\ jobs'[u] \in Seq(JobStatus)
        /\ Len(jobs'[t]) = Len(jobs[t]) + 1 /\ Len(jobs[t]) \in Nat
        /\ \A k \in DOMAIN jobs[t] : jobs'[t][k] = jobs[t][k]
        /\ \A u \in Tasks \ {t} : jobs'[u] = jobs[u]
    BY <1>3, JobNamesStay DEF TypeOK, JobStatus
  <2>2. t \notin Deduplicated => jobs[t] = <<>>
    BY <1>1 DEF WorkInv, UnsentHasNoJob
  <2>3. UnsentHasNoJob'
    <3> SUFFICES ASSUME NEW u \in Tasks \ Deduplicated
                 PROVE  /\ plan'[u] = "pending" => worker'[u] = "none" /\ jobs'[u] = <<>>
                        /\ worker'[u] \in {"launched", "assigned"} => jobs'[u] = <<>>
                        /\ Len(jobs'[u]) <= 1
      BY DEF UnsentHasNoJob, Deduplicated
    <3>1. CASE u # t
      BY <1>1, <2>1, <3>1 DEF WorkInv, UnsentHasNoJob
    <3>2. CASE u = t
      <4>1. plan'[t] # "pending" /\ worker'[t] = "sent" /\ jobs[t] = <<>>
        BY <1>1, <2>2, <3>2 DEF WorkInv, UnsentHasNoJob
      <4>2. Len(jobs'[t]) = 1
        BY <2>1, <4>1
      <4> QED BY <3>2, <4>1, <4>2
    <3> QED BY <3>1, <3>2
  <2>4. \A k \in DOMAIN jobs[t] : jobs[t][k] \in {"failed", "cancelled"}
    <3>1. CASE t \in Deduplicated
      BY <1>3, <2>1, <3>1 DEF WorkInv, LastJobCounts, UnsuccessfulStatuses, TerminalStatuses, TypeOK, JobStatus
    <3>2. CASE t \notin Deduplicated
      BY <2>1, <2>2, <3>2
    <3> QED BY <3>1, <3>2
  <2>5. \A k \in DOMAIN jobs'[t] : k # Len(jobs'[t]) => k \in DOMAIN jobs[t]
    BY <2>1
  <2>6. LastJobCounts'
    BY <2>1, <2>4, <2>5 DEF WorkInv, LastJobCounts
  <2> QED BY <2>3, <2>6 DEF WorkInv
<1> QED BY <1>2, <1>3, Zenon DEF Execute, Deduplicated

LEMMA TaskStepKeepsWork ==
  ASSUME TypeOK, TypeOK', WorkInv, NEW t \in Tasks, TaskStep(t) PROVE WorkInv'
<1>1. CASE Launch(t) \/ Assign(t) \/ CallFails(t)
  <2>1. NoNewWork
    <3>1. /\ UNCHANGED jobs /\ worker \in [Tasks -> WorkerStates] /\ plan \in [Tasks -> TaskStatus]
      BY <1>1 DEF Launch, Assign, CallFails, TypeOK
    <3>2. CASE Launch(t)
      <4>1. plan[t] = "pending" /\ plan' = [plan EXCEPT ![t] = "running"] /\ worker' = [worker EXCEPT ![t] = "launched"]
        BY <3>2 DEF Launch, Stepped
      <4> QED BY <3>1, <4>1 DEF NoNewWork
    <3>3. CASE Assign(t)
      <4>1. worker[t] = "launched" /\ UNCHANGED plan /\ worker' = [worker EXCEPT ![t] = "assigned"]
        BY <3>3 DEF Assign
      <4> QED BY <3>1, <4>1 DEF NoNewWork
    <3>4. CASE CallFails(t)
      <4>1. plan' = [plan EXCEPT ![t] = "failed"] /\ worker' = [worker EXCEPT ![t] = "none"]
        BY <3>4 DEF CallFails, Stepped
      <4> QED BY <3>1, <4>1 DEF NoNewWork
    <3> QED BY <1>1, <3>2, <3>3, <3>4
  <2> QED BY <2>1, NoNewWorkKeeps
<1>2. CASE Execute(t)
  BY <1>2, ExecuteKeepsWork
<1>3. CASE Follow(t)
  <2>1. "running" \in JobStatus /\ shown \in [Tasks -> {"none", "done", "failed"}]
    BY DEF TypeOK, JobStatus
  <2>2. \A u \in Tasks : plan'[u] = "pending" => plan[u] = "pending"
    BY <1>3, <2>1, ProjectedPlan DEF Follow
  <2>3. /\ UNCHANGED jobs
        /\ \A u \in Tasks : /\ worker[u] = "none" => worker'[u] = "none"
                            /\ worker'[u] \in {"launched", "assigned"} => worker[u] \in {"launched", "assigned"}
    BY <1>3 DEF Follow, TypeOK
  <2>4. NoNewWork
    BY <2>2, <2>3, QuietSteps
  <2> QED BY <2>4, NoNewWorkKeeps
<1>4. CASE Accept(t)
  <2> DEFINE status == jobs[t][held[t]]
  <2>1. status \in JobStatus \ {"running"} /\ status # "pending"
    BY <1>4 DEF Accept, TypeOK, JobStatus
  <2>2. \A u \in Tasks : plan'[u] = "pending" => plan[u] = "pending"
    <3>1. CASE t \in External
      <4>1. shown' \in [Tasks -> {"none", "done", "failed"}]
        BY DEF TypeOK
      <4>2. plan' = [Projected(t, status, shown', live') EXCEPT ![t] = status]
        BY <1>4, <3>1 DEF Accept
      <4>3. /\ Projected(t, status, shown', live') \in [Tasks -> TaskStatus]
            /\ \A u \in Tasks : Projected(t, status, shown', live')[u] = "pending" => plan[u] = "pending"
        BY <2>1, <4>1, ProjectedPlan
      <4> QED BY <2>1, <4>2, <4>3
    <3>2. CASE t \notin External
      BY <1>4, <2>1, <3>2 DEF Accept, TypeOK
    <3> QED BY <3>1, <3>2
  <2>3. /\ UNCHANGED jobs
        /\ \A u \in Tasks : /\ worker[u] = "none" => worker'[u] = "none"
                            /\ worker'[u] \in {"launched", "assigned"} => worker[u] \in {"launched", "assigned"}
    BY <1>4 DEF Accept, TypeOK
  <2>4. NoNewWork
    BY <2>2, <2>3, QuietSteps
  <2> QED BY <2>4, NoNewWorkKeeps
<1> QED BY <1>1, <1>2, <1>3, <1>4 DEF TaskStep

LEMMA AgentStepKeepsWork ==
  ASSUME TypeOK, TypeOK', WorkInv, AgentStep PROVE WorkInv'
<1>0. PICK t \in Tasks : \E j \in DOMAIN jobs[t] : JobEnds(t, j) \/ Poll(t, j)
  BY DEF AgentStep
<1>1. PICK j \in DOMAIN jobs[t] : JobEnds(t, j) \/ Poll(t, j)
  BY <1>0
<1>2. CASE JobEnds(t, j)
  <2>1. PICK s \in {"done", "failed"} : jobs' = [jobs EXCEPT ![t][j] = s]
    BY <1>2 DEF JobEnds
  <2>2. NoNewWork
    BY <1>2, <2>1, JobChanged DEF JobEnds, NoNewWork, JobStatus, storeVars, workVars
  <2> QED BY <2>2, NoNewWorkKeeps
<1>3. CASE Poll(t, j)
  <2>1. /\ "running" \in JobStatus /\ jobs[t][j] \in JobStatus
        /\ shown \in [Tasks -> {"none", "done", "failed"}]
        /\ shown' \in [Tasks -> {"none", "done", "failed"}]
    BY DEF TypeOK, JobStatus
  <2>2. \/ plan' = Projected(t, "running", shown, live)
        \/ plan' = Projected(t, jobs[t][j], shown', live')
    BY <1>3 DEF Poll
  <2>3. \A u \in Tasks : plan'[u] = "pending" => plan[u] = "pending"
    BY <2>1, <2>2, ProjectedPlan
  <2>4. UNCHANGED <<jobs, worker>>
    BY <1>3 DEF Poll
  <2>5. NoNewWork
    BY <2>3, <2>4, QuietSteps
  <2> QED BY <2>5, NoNewWorkKeeps
<1> QED BY <1>1, <1>2, <1>3

(* What the recovery does with the task it asked about.                     *)
LEMMA RecoverCases ==
  ASSUME TypeOK, Recover
  PROVE  /\ rec.asked \in rec.todo /\ rec.asked \in Tasks /\ rec.stage = "tasks" /\ rec.job \in DOMAIN jobs[rec.asked]
         /\ rec'.stage = rec.stage /\ rec'.todo = rec.todo \ {rec.asked}
         /\ \/ /\ UNCHANGED jobs
               /\ \/ Stepped(rec.asked, rec.answer) /\ rec.answer \in JobStatus
                  \/ Stepped(rec.asked, "pending") /\ rec.asked \in Deduplicated
                  \/ UNCHANGED <<plan, row>>
            \/ /\ UNCHANGED <<plan, row>> /\ jobs[rec.asked][rec.job] = "running"
               /\ jobs' = [jobs EXCEPT ![rec.asked][rec.job] = "cancelled"]
<1>1. rec.asked \in rec.todo /\ rec.asked \in Tasks /\ rec.stage = "tasks" /\ rec.job \in DOMAIN jobs[rec.asked]
  BY DEF Recover, TypeOK
<1>2. rec' = Answered \/ rec' = [Answered EXCEPT !.progressed = TRUE]
  BY Zenon DEF Recover
<1>3. rec'.stage = rec.stage /\ rec'.todo = rec.todo \ {rec.asked}
  BY <1>2, AnsweredType DEF RecType
<1>4. rec.answer \in JobStatus
  BY DEF Recover, TypeOK
<1>5. \/ /\ UNCHANGED jobs
         /\ \/ Stepped(rec.asked, rec.answer) /\ rec.answer \in JobStatus
            \/ Stepped(rec.asked, "pending") /\ rec.asked \in Deduplicated
            \/ UNCHANGED <<plan, row>>
      \/ /\ UNCHANGED <<plan, row>> /\ jobs[rec.asked][rec.job] = "running"
         /\ jobs' = [jobs EXCEPT ![rec.asked][rec.job] = "cancelled"]
  BY <1>4, Zenon DEF Recover, Requeues, Deduplicated
<1> QED BY <1>1, <1>3, <1>5

LEMMA RecoverKeepsWork ==
  ASSUME TypeOK, TypeOK', WorkInv, Recover PROVE WorkInv'
<1> DEFINE t == rec.asked
<1>1. t \in Tasks /\ rec.job \in DOMAIN jobs[t] /\ UNCHANGED worker /\ plan \in [Tasks -> TaskStatus]
  BY RecoverCases DEF Recover, TypeOK, workVars
<1>2. CASE UNCHANGED jobs /\ Stepped(t, rec.answer) /\ rec.answer \in JobStatus
  BY <1>1, <1>2, NoNewWorkKeeps DEF NoNewWork, Stepped, JobStatus
<1>3. CASE UNCHANGED jobs /\ Stepped(t, "pending") /\ t \in Deduplicated
  BY <1>1, <1>3, NoNewWorkKeeps DEF NoNewWork, Stepped
<1>4. CASE UNCHANGED <<jobs, plan, row>>
  BY <1>1, <1>4, NoNewWorkKeeps DEF NoNewWork
<1>5. CASE /\ UNCHANGED <<plan, row>> /\ jobs[t][rec.job] = "running"
           /\ jobs' = [jobs EXCEPT ![t][rec.job] = "cancelled"]
  <2>1. NoNewWork
    BY <1>1, <1>5, JobChanged DEF NoNewWork, JobStatus
  <2> QED BY <2>1, NoNewWorkKeeps
<1> QED BY <1>2, <1>3, <1>4, <1>5, RecoverCases

LEMMA NextWork == TypeOK /\ TypeOK' /\ WorkInv /\ [Next]_vars => WorkInv'
<1> SUFFICES ASSUME TypeOK, TypeOK', WorkInv, [Next]_vars PROVE WorkInv'
  OBVIOUS
<1>1. CASE \E t \in Tasks : TaskStep(t)
  BY <1>1, TaskStepKeepsWork
<1>2. CASE AgentStep
  BY <1>2, AgentStepKeepsWork
<1>3. CASE Recover
  BY <1>3, RecoverKeepsWork
<1>4. CASE LoopEnds \/ Begin \/ AskFails \/ RecoveryEnds \/ Crash \/ Boot \/ Resume \/ UNCHANGED vars
           \/ \E t \in Tasks : LookStep(t)
  <2>1. UNCHANGED jobs
    BY <1>4 DEF LoopEnds, Begin, AskFails, RecoveryEnds, Crash, Boot, Resume, vars, LookStep, Unresolvable, NoJob, Ask
  <2>2. \A t \in Tasks : plan'[t] = "pending" => plan[t] = "pending"
    BY <1>4 DEF LoopEnds, Begin, AskFails, RecoveryEnds, Crash, Boot, Resume, vars, LookStep, Unresolvable,
       NoJob, Ask, storeVars, Stepped, TypeOK
  <2>3. \A t \in Tasks : worker'[t] # "none" => worker'[t] = worker[t]
    BY <1>4 DEF LoopEnds, Begin, AskFails, RecoveryEnds, Crash, Boot, Resume, vars, LookStep, Unresolvable,
       NoJob, Ask, workVars
  <2>4. NoNewWork
    BY <2>1, <2>2, <2>3, QuietSteps
  <2> QED BY <2>4, NoNewWorkKeeps
<1> QED BY <1>1, <1>2, <1>3, <1>4 DEF Next, RunStep, RecoveryStep, TaskStep, LookStep

-----------------------------------------------------------------------------
(* What is settled stays.                                                   *)

RowInv == Coupled /\ Apart

(* A step that leaves the rows, the stage and the list of the recovery, and
   starts neither a worker nor a loop beside a recovery.                    *)
RowsKept ==
    /\ UNCHANGED <<row, up>> /\ rec'.stage = rec.stage /\ rec'.todo \subseteq rec.todo
    /\ \A t \in Tasks : plan'[t] = "pending" => plan[t] = "pending"
    /\ \A t \in Tasks : worker'[t] # "none" => worker[t] # "none"
    /\ loop => loop'
    /\ beside => beside'
    /\ loop' => loop \/ (up /\ (beside' \/ rec.stage = "off"))

LEMMA RowsKeptKeeps == RowInv /\ RowsKept => RowInv'
  BY DEF RowInv, RowsKept, Coupled, Apart

LEMMA TaskStepKeepsRows ==
  ASSUME TypeOK, TypeOK', RowInv, NEW t \in Tasks, TaskStep(t)
  PROVE  /\ RowInv'
         /\ \A u \in Tasks : row[u] \in TerminalStatuses => row'[u] = row[u] \/ beside
<1>1. CASE Launch(t)
  <2>1. /\ loop /\ loop' /\ row[t] = "pending" /\ row' = [row EXCEPT ![t] = "running"]
        /\ plan' = [plan EXCEPT ![t] = "running"]
        /\ worker' = [worker EXCEPT ![t] = "launched"] /\ UNCHANGED <<rec, beside, up>>
    BY <1>1 DEF Launch, Stepped, RowInv, Coupled, countVars
  <2> QED BY <2>1 DEF RowInv, Coupled, Apart, TypeOK, TerminalStatuses
<1>2. CASE Assign(t) \/ Execute(t)
  <2>1. /\ RowsKept /\ UNCHANGED row
    BY <1>2 DEF Assign, Execute, RowsKept, storeVars, countVars, TypeOK
  <2> QED BY <2>1, RowsKeptKeeps
<1>3. CASE Follow(t)
  <2>1. "running" \in JobStatus /\ shown \in [Tasks -> {"none", "done", "failed"}]
    BY DEF TypeOK, JobStatus
  <2>2. \A u \in Tasks : plan'[u] = "pending" => plan[u] = "pending"
    BY <1>3, <2>1, ProjectedPlan DEF Follow
  <2>3. RowsKept /\ UNCHANGED row
    BY <1>3, <2>2 DEF Follow, RowsKept, countVars, TypeOK
  <2> QED BY <2>3, RowsKeptKeeps
<1>4. CASE CallFails(t)
  <2>1. /\ worker[t] # "none" /\ row' = [row EXCEPT ![t] = "failed"]
        /\ plan' = [plan EXCEPT ![t] = "failed"]
        /\ worker' = [worker EXCEPT ![t] = "none"] /\ UNCHANGED <<rec, beside, up, loop>>
    BY <1>4 DEF CallFails, Stepped, countVars
  <2> QED BY <2>1 DEF RowInv, Coupled, Apart, TypeOK, TerminalStatuses
<1>5. CASE Accept(t)
  <2> DEFINE status == jobs[t][held[t]]
  <2>1. status \in JobStatus \ {"running"} /\ status # "pending"
    BY <1>5 DEF Accept, TypeOK, JobStatus
  <2>2. plan'[t] # "pending" /\ \A u \in Tasks : plan'[u] = "pending" => plan[u] = "pending"
    <3>1. CASE t \in External
      <4>1. shown' \in [Tasks -> {"none", "done", "failed"}]
        BY DEF TypeOK
      <4>2. plan' = [Projected(t, status, shown', live') EXCEPT ![t] = status]
        BY <1>5, <3>1 DEF Accept
      <4>3. /\ Projected(t, status, shown', live') \in [Tasks -> TaskStatus]
            /\ \A u \in Tasks : Projected(t, status, shown', live')[u] = "pending" => plan[u] = "pending"
        BY <2>1, <4>1, ProjectedPlan
      <4> QED BY <2>1, <4>2, <4>3
    <3>2. CASE t \notin External
      BY <1>5, <2>1, <3>2 DEF Accept, TypeOK
    <3> QED BY <3>1, <3>2
  <2>3. /\ worker[t] # "none" /\ row' = [row EXCEPT ![t] = status]
        /\ worker' = [worker EXCEPT ![t] = "none"] /\ UNCHANGED <<rec, beside, up, loop>>
    BY <1>5 DEF Accept, countVars
  <2>4. worker \in [Tasks -> WorkerStates] /\ row \in [Tasks -> TaskStatus]
    BY DEF TypeOK
  <2> HIDE DEF status
  <2>5. Coupled'
    BY <2>2, <2>3, <2>4 DEF RowInv, Coupled
  <2>6. Apart'
    BY <2>2, <2>3, <2>4 DEF RowInv, Coupled, Apart
  <2>7. \A u \in Tasks : row[u] \in TerminalStatuses => row'[u] = row[u] \/ beside
    BY <2>3, <2>4 DEF RowInv, Apart, TerminalStatuses
  <2> QED BY <2>5, <2>6, <2>7 DEF RowInv
<1> QED BY <1>1, <1>2, <1>3, <1>4, <1>5 DEF TaskStep

LEMMA AgentStepKeepsRows ==
  ASSUME TypeOK, TypeOK', RowInv, AgentStep PROVE RowInv' /\ UNCHANGED row
<1>0. PICK t \in Tasks : \E j \in DOMAIN jobs[t] : JobEnds(t, j) \/ Poll(t, j)
  BY DEF AgentStep
<1>1. PICK j \in DOMAIN jobs[t] : JobEnds(t, j) \/ Poll(t, j)
  BY <1>0
<1>2. CASE JobEnds(t, j)
  <2>1. RowsKept /\ UNCHANGED row
    BY <1>2 DEF JobEnds, RowsKept, storeVars, workVars, countVars
  <2> QED BY <2>1, RowsKeptKeeps
<1>3. CASE Poll(t, j)
  <2>1. /\ "running" \in JobStatus /\ jobs[t][j] \in JobStatus
        /\ shown \in [Tasks -> {"none", "done", "failed"}]
        /\ shown' \in [Tasks -> {"none", "done", "failed"}]
    BY DEF TypeOK, JobStatus
  <2>2. \/ plan' = Projected(t, "running", shown, live)
        \/ plan' = Projected(t, jobs[t][j], shown', live')
    BY <1>3 DEF Poll
  <2>3. \A u \in Tasks : plan'[u] = "pending" => plan[u] = "pending"
    BY <2>1, <2>2, ProjectedPlan
  <2>4. up /\ UNCHANGED <<row, up, worker, rec>>
    BY <1>3 DEF Poll
  <2>5. /\ loop => loop'
        /\ beside => beside'
        /\ loop' => loop \/ beside' \/ rec.stage = "off"
    <3>1. \/ UNCHANGED <<watch, loop, next, beside>>
          \/ Resumed /\ beside' = (beside \/ rec # Off)
      BY <1>3 DEF Poll, Watched
    <3>2. Resumed => loop'
      BY DEF Resumed
    <3>3. rec = Off => rec.stage = "off"
      BY DEF Off
    <3>4. CASE UNCHANGED <<watch, loop, next, beside>>
      BY <3>4
    <3>5. CASE Resumed /\ beside' = (beside \/ rec # Off)
      <4>1. beside' <=> beside \/ rec # Off
        BY <3>5, Zenon
      <4> QED BY <3>2, <3>3, <3>5, <4>1
    <3> QED BY <3>1, <3>4, <3>5
  <2>6. RowsKept
    BY <2>3, <2>4, <2>5 DEF RowsKept
  <2> QED BY <2>4, <2>6, RowsKeptKeeps
<1> QED BY <1>1, <1>2, <1>3

(* A step of the recovery on one task of its list.                          *)
LEMMA OnListKeeps ==
  ASSUME TypeOK, TypeOK', RowInv, NEW t \in rec.todo, rec.stage = "tasks", NEW s \in TaskStatus,
         Stepped(t, s) \/ UNCHANGED <<plan, row>>,
         rec'.stage = rec.stage, rec'.todo = rec.todo \ {t}, UNCHANGED <<worker, loop, beside, up>>
  PROVE  /\ RowInv'
         /\ \A u \in Tasks : row[u] \in TerminalStatuses => row'[u] = row[u] \/ beside
<1>1. t \in Tasks /\ plan \in [Tasks -> TaskStatus] /\ row \in [Tasks -> TaskStatus]
  BY DEF TypeOK
<1>2. Coupled'
  BY <1>1 DEF RowInv, Coupled, Stepped
<1>3. Apart'
  BY <1>1 DEF RowInv, Coupled, Apart, Stepped
<1>4. \A u \in Tasks : row[u] \in TerminalStatuses => row'[u] = row[u] \/ beside
  BY <1>1 DEF RowInv, Apart, Stepped, TerminalStatuses
<1> QED BY <1>2, <1>3, <1>4 DEF RowInv

LEMMA LookStepKeepsRows ==
  ASSUME TypeOK, TypeOK', RowInv, NEW t \in Tasks, LookStep(t)
  PROVE  /\ RowInv'
         /\ \A u \in Tasks : row[u] \in TerminalStatuses => row'[u] = row[u] \/ beside
<1>1. t \in rec.todo /\ rec.stage = "tasks" /\ "failed" \in TaskStatus /\ rec \in RecType
  BY DEF LookStep, Unresolvable, NoJob, Ask, ToDo, TaskStatus, TypeOK, RecType
<1>2. CASE Unresolvable(t) \/ NoJob(t)
  <2>1. /\ Stepped(t, "failed") \/ UNCHANGED <<plan, row>>
        /\ UNCHANGED <<worker, loop, beside, up>>
    BY <1>2 DEF Unresolvable, NoJob, storeVars, workVars, countVars
  <2>2. rec'.stage = rec.stage /\ rec'.todo = rec.todo \ {t}
    BY <1>1, <1>2 DEF Unresolvable, NoJob, RecType
  <2> QED BY <1>1, <2>1, <2>2, OnListKeeps
<1>3. CASE Ask(t)
  <2>1. RowsKept /\ UNCHANGED row
    BY <1>1, <1>3 DEF Ask, RowsKept, RecType, storeVars, workVars, countVars
  <2> QED BY <2>1, RowsKeptKeeps
<1> QED BY <1>2, <1>3 DEF LookStep

LEMMA RecoverKeepsRows ==
  ASSUME TypeOK, TypeOK', RowInv, AskFails \/ Recover
  PROVE  /\ RowInv'
         /\ \A u \in Tasks : row[u] \in TerminalStatuses => row'[u] = row[u] \/ beside
<1>1. CASE AskFails
  <2>1. rec'.stage = rec.stage /\ rec'.todo \subseteq rec.todo
    BY <1>1, AnsweredType DEF AskFails, RecType
  <2>2. RowsKept /\ UNCHANGED row
    BY <1>1, <2>1 DEF AskFails, RowsKept, storeVars, workVars, countVars
  <2> QED BY <2>2, RowsKeptKeeps
<1>2. CASE Recover
  <2>1. UNCHANGED <<worker, loop, beside, up>>
    BY <1>2 DEF Recover, workVars, countVars
  <2>2. JobStatus \subseteq TaskStatus /\ "pending" \in TaskStatus
    BY DEF JobStatus, TaskStatus
  <2>3. PICK s \in TaskStatus : Stepped(rec.asked, s) \/ UNCHANGED <<plan, row>>
    BY <1>2, <2>2, RecoverCases
  <2> QED BY <1>2, <2>1, <2>3, RecoverCases, OnListKeeps
<1> QED BY <1>1, <1>2

LEMMA RunStepsKeepRows ==
  ASSUME TypeOK, TypeOK', RowInv, LoopEnds \/ Begin \/ RecoveryEnds \/ Crash \/ Boot \/ Resume
  PROVE  RowInv' /\ UNCHANGED row
<1>1. CASE LoopEnds
  BY <1>1 DEF LoopEnds, RowInv, Coupled, Apart, workVars, countVars
<1>2. CASE Begin
  <2>1. /\ UNCHANGED <<plan, row, up, loop, worker, beside>> /\ rec.stage = "begin"
        /\ \/ rec'.stage = "off" /\ rec'.todo = {}
           \/ rec'.stage = "tasks" /\ rec'.todo = ActiveRows
           \/ rec'.stage = "tasks" /\ rec'.todo = rec.todo
    <3>1. rec \in RecType
      BY DEF TypeOK, RecType
    <3>2. UNCHANGED <<plan, row, up, loop, worker, beside>> /\ rec.stage = "begin"
      BY <1>2 DEF Begin, workVars, countVars
    <3>3. \/ rec' = Off
          \/ rec' = [rec EXCEPT !.stage = "tasks", !.todo = ActiveRows]
          \/ rec' = [rec EXCEPT !.stage = "tasks"]
      BY <1>2 DEF Begin
    <3>4. Off.stage = "off" /\ Off.todo = {}
      BY DEF Off
    <3> QED BY <3>1, <3>2, <3>3, <3>4 DEF RecType
  <2>2. \A t \in ActiveRows : row[t] = "running"
    BY DEF ActiveRows, Active
  <2> QED BY <2>1, <2>2 DEF RowInv, Coupled, Apart
<1>3. CASE RecoveryEnds
  <2>1. /\ UNCHANGED <<plan, row, up, worker, beside>> /\ rec'.stage = "off" /\ rec'.todo = {}
        /\ loop => loop'
    BY <1>3 DEF RecoveryEnds, Resumed, Off, countVars
  <2>2. up
    BY <1>3 DEF RecoveryEnds, RowInv, Coupled
  <2> QED BY <2>1, <2>2 DEF RowInv, Coupled, Apart
<1>4. CASE Crash
  BY <1>4 DEF Crash, Off, RowInv, Coupled, Apart
<1>5. CASE Boot
  BY <1>5 DEF Boot, Off, RowInv, Coupled, Apart, storeVars, workVars, countVars
<1>6. CASE Resume
  <2>1. /\ UNCHANGED <<plan, row, up, loop, worker>> /\ up
        /\ rec'.stage = "begin" /\ rec'.todo = {}
    BY <1>6 DEF Resume, Off, storeVars, workVars
  <2>2. beside' <=> beside \/ loop
    BY <1>6, Zenon DEF Resume
  <2>3. Coupled'
    BY <2>1 DEF RowInv, Coupled
  <2>4. Apart'
    BY <2>1, <2>2 DEF RowInv, Apart
  <2> QED BY <2>1, <2>3, <2>4 DEF RowInv
<1> QED BY <1>1, <1>2, <1>3, <1>4, <1>5, <1>6

LEMMA NextRows ==
  ASSUME TypeOK, TypeOK', RowInv, [Next]_vars
  PROVE  /\ RowInv'
         /\ \A u \in Tasks : row[u] \in TerminalStatuses => row'[u] = row[u] \/ beside
<1>1. CASE \E t \in Tasks : TaskStep(t)
  BY <1>1, TaskStepKeepsRows
<1>2. CASE AgentStep
  BY <1>2, AgentStepKeepsRows
<1>3. CASE \E t \in Tasks : LookStep(t)
  BY <1>3, LookStepKeepsRows
<1>4. CASE AskFails \/ Recover
  BY <1>4, RecoverKeepsRows
<1>5. CASE LoopEnds \/ Begin \/ RecoveryEnds \/ Crash \/ Boot \/ Resume
  BY <1>5, RunStepsKeepRows
<1>6. CASE UNCHANGED vars
  BY <1>6 DEF vars, storeVars, workVars, countVars, RowInv, Coupled, Apart
<1> QED BY <1>1, <1>2, <1>3, <1>4, <1>5, <1>6 DEF Next, RunStep, RecoveryStep, TaskStep, LookStep

-----------------------------------------------------------------------------
(* The theorems.                                                            *)

LEMMA AlwaysIInv == Spec => []IInv
<1>1. Init => IInv
  BY InitIInv
<1>2. IInv /\ [Next]_vars => IInv'
  <2> SUFFICES ASSUME IInv, [Next]_vars PROVE IInv'
    OBVIOUS
  <2>1. TypeOK'
    BY NextType DEF IInv
  <2>2. WorkInv'
    BY <2>1, NextWork DEF IInv, WorkInv
  <2>3. RowInv'
    BY <2>1, NextRows DEF IInv, RowInv
  <2> QED BY <2>1, <2>2, <2>3 DEF IInv, WorkInv, RowInv
<1> QED BY <1>1, <1>2, PTL DEF Spec

(* The variables have their types, and what names a job names one there is,
   for every set of tasks and any number of restarts.                       *)
THEOREM RecoveryTypeCorrect == Spec => []TypeOK
<1>1. IInv => TypeOK
  BY DEF IInv
<1> QED BY <1>1, AlwaysIInv, PTL

(* However often the manager stops and whoever resumes the run, the work of a
   task is not done twice: recoverTask (recoveryManager.js) puts back only a
   task whose agent knows its key.                                          *)
THEOREM RecoveryWorksOnce == Spec => []WorkDoneOnce
<1>1. IInv => WorkDoneOnce
  <2> SUFFICES ASSUME IInv, NEW t \in Tasks
               PROVE  /\ t \notin Keyed \ External => Len(jobs[t]) <= 1
                      /\ \A j, k \in DOMAIN jobs[t] :
                            jobs[t][j] \in {"running", "done"} /\ jobs[t][k] \in {"running", "done"} => j = k
    BY DEF WorkDoneOnce
  <2>1. t \notin Keyed \ External => Len(jobs[t]) <= 1
    BY DEF IInv, UnsentHasNoJob, Deduplicated
  <2>2. \A j \in DOMAIN jobs[t] : jobs[t][j] \in {"running", "done"} => j = Len(jobs[t])
    BY DEF IInv, LastJobCounts
  <2> QED BY <2>1, <2>2
<1> QED BY <1>1, AlwaysIInv, PTL

(* A result the store has is not replaced, by the run or by a recovery, while
   no recovery was beside a run at work.                                    *)
THEOREM RecoverySettlesOnce == Spec => SettledStays
<1>1. IInv /\ [Next]_vars =>
        [\A t \in Tasks : row[t] \in TerminalStatuses /\ ~beside => row'[t] = row[t]]_vars
  <2> SUFFICES ASSUME IInv, [Next]_vars
               PROVE  \A t \in Tasks : row[t] \in TerminalStatuses /\ ~beside => row'[t] = row[t]
    OBVIOUS
  <2>1. TypeOK'
    BY NextType DEF IInv
  <2> QED BY <2>1, NextRows DEF IInv, RowInv
<1> QED BY <1>1, AlwaysIInv, PTL DEF Spec, SettledStays
=============================================================================
