------------------------ MODULE MaintenanceAdmission ------------------------
(***************************************************************************)
(* The admission that tasks of the user and maintenance actions share      *)
(* (src/maintenance/admission.js).                                         *)
(*                                                                         *)
(* It orders starts: a maintenance action waits for whatever conflicts     *)
(* with it, a user's task only for maintenance, and a waiting user's task  *)
(* keeps every conflicting maintenance action out.  A holder that can be   *)
(* stopped is asked once to yield.  A request looks when it is made and    *)
(* every 100 ms after that; each look is one synchronous turn.             *)
(***************************************************************************)
EXTENDS FiniteSets

CONSTANTS
    Requests,
    Background,   \* the requests of maintenance
    Preemptible,  \* the requests with onPreempt
    ScopesOf,     \* ScopesOf[r]: task.locks, never empty: ["*"] stands in
    Wide          \* "*" and the workspace-write scopes: they meet every other

VARIABLES
    place,        \* "out", "waiting" (state.waiting) or "holding" (.holders)
    asked         \* the holders with preemptAsked

admission == <<place, asked>>

TypeOK ==
    /\ place \in [Requests -> {"out", "waiting", "holding"}]
    /\ asked \subseteq Requests

Init ==
    /\ place = [r \in Requests |-> "out"]
    /\ asked = {}

-----------------------------------------------------------------------------
Holding == {r \in Requests : place[r] = "holding"}
Waiting == {r \in Requests : place[r] = "waiting"}

Conflict(r, s) ==
    \/ (ScopesOf[r] \union ScopesOf[s]) \cap Wide # {}
    \/ ScopesOf[r] \cap ScopesOf[s] # {}

(* Mutant: only maintenance waits. *)
BlockersOfMaintenance(r) == {h \in Holding : r \in Background /\ Conflict(h, r)}

(* Two tasks of the user never block each other here. *)
Blockers(r) ==
    {h \in Holding : (r \in Background \/ h \in Background) /\ Conflict(h, r)}

(* Mutant: maintenance admitted as soon as no holder is in its way. *)
NoPriority(r) == {}

(* The user's requests maintenance lets pass. *)
Priority(r) == IF r \in Background
               THEN {u \in Waiting \ Background : Conflict(u, r)}
               ELSE {}

(* One look of admitExecution, the first of which also joins `waiting`: in *)
(* if nothing is in the way, else a user's request asks the holders that   *)
(* can be stopped to yield.                                                *)
Look(r) ==
    /\ place[r] # "holding"
    /\ IF Blockers(r) = {} /\ Priority(r) = {}
       THEN /\ place' = [place EXCEPT ![r] = "holding"]
            /\ UNCHANGED asked
       ELSE /\ place' = [place EXCEPT ![r] = "waiting"]
            /\ asked' = IF r \in Background THEN asked
                        ELSE asked \union (Blockers(r) \cap Preemptible)

(* The signal aborted: noticed at the next look, before it is taken. *)
Withdraw(r) ==
    /\ place[r] = "waiting"
    /\ place' = [place EXCEPT ![r] = "out"]
    /\ UNCHANGED asked

(* The release closure: the request, with its preemptAsked, is gone. *)
Release(r) ==
    /\ place[r] = "holding"
    /\ place' = [place EXCEPT ![r] = "out"]
    /\ asked' = asked \ {r}

(* The process dies: the map of workspaces was in memory. *)
Forget ==
    /\ place' = [r \in Requests |-> "out"]
    /\ asked' = {}

Next == Forget \/ \E r \in Requests : Look(r) \/ Withdraw(r) \/ Release(r)

Spec == Init /\ [][Next]_admission

-----------------------------------------------------------------------------
(* Maintenance is never admitted beside anything it conflicts with, the    *)
(* user's tasks or other maintenance, in whatever order the requests come, *)
(* leave and look.                                                         *)
AdmittedApart ==
    \A r, s \in Holding : r # s /\ Conflict(r, s) => {r, s} \cap Background = {}

(* "A user task registered before a maintenance start wins": maintenance   *)
(* is never admitted past a user's request that waits and conflicts.       *)
UserGoesFirst ==
    [][\A r \in Requests \cap Background : place[r] # "holding" /\ place'[r] = "holding"
          => \A u \in Waiting \ Background : ~Conflict(u, r)]_admission
=============================================================================
