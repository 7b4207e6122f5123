-------------------------- MODULE MCPlanScheduler --------------------------
(* Small plans for PlanScheduler. *)
EXTENDS PlanScheduler, TLC

CONSTANTS out1

NoFragments == [t \in Tasks |-> {}]

(* b depends on a; c is independent and writes the whole workspace.        *)
ChainTasks == {"a", "b", "c"}
ChainDeps == "a" :> {} @@ "b" :> {"a"} @@ "c" :> {}
ChainLocks == "a" :> {"page"} @@ "b" :> {} @@ "c" :> {"workspace"}
ChainRank == "a" :> 1 @@ "b" :> 2 @@ "c" :> 3
TwoLocks == {"page", "workspace"}
NoGroups == [t \in Tasks |-> NoGroup]
(* b waits for a group that was declared and has no member. *)
EmptyBarrier == [t \in Tasks |-> IF t = "b" THEN "h" ELSE NoGroup]
RetryC == [t \in Tasks |-> IF t = "c" THEN 2 ELSE 1]
RetryOne == [t \in Tasks |-> IF t = "a" THEN 2 ELSE 1]
NoRetry == [t \in Tasks |-> 1]
NoOutsiders == [o \in {} |-> {}]

(* p and q form a group, r waits for the group and for p.  p may expand    *)
(* the plan with x, on which r then waits in place of p, unless r was      *)
(* quicker; x needs an approval.  q and x can be ready together and both   *)
(* write one page, which r writes after q.                                 *)
SquadTasks == {"p", "q", "r", "x"}
SquadInitial == {"p", "q", "r"}
SquadDeps == "p" :> {} @@ "q" :> {} @@ "r" :> {"p"} @@ "x" :> {}
SquadFragment == "p" :> {"x"} @@ "q" :> {} @@ "r" :> {} @@ "x" :> {}
SquadMembership == "p" :> "g" @@ "q" :> "g" @@ "r" :> NoGroup @@ "x" :> NoGroup
SquadBarriers == "p" :> NoGroup @@ "q" :> NoGroup @@ "r" :> "g" @@ "x" :> NoGroup
SquadLocks == "p" :> {} @@ "q" :> {"page"} @@ "r" :> {"page"} @@ "x" :> {"page", "workspace"}
SquadRank == "p" :> 1 @@ "q" :> 2 @@ "r" :> 3 @@ "x" :> 4

(* What NeverStalled needs of a plan holds of this one. *)
SquadDepth == "p" :> 0 @@ "q" :> 0 @@ "x" :> 1 @@ "r" :> 2
ASSUME SquadIsSound ==
    Tasks = SquadTasks => NoRetries /\ PlanIsSound(SquadDepth, SquadFragment)

OnePage == out1 :> {"page"}
=============================================================================
