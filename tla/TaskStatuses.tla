---------------------------- MODULE TaskStatuses ----------------------------
(***************************************************************************)
(* The single vocabulary for task statuses                                 *)
(* (src/orchestrator/taskStatuses.js), after its aliases are normalised.   *)
(* "absent" is a task the plan does not contain yet.                       *)
(***************************************************************************)

(* Not yet executable, but able to become so. *)
PendingStatuses == {"pending", "pending_approval", "waiting_approval"}

(* Nothing more is meant to happen to the task in this run. *)
TerminalStatuses == {"done", "failed", "cancelled", "skipped"}

(* Terminal without having succeeded. *)
UnsuccessfulStatuses == TerminalStatuses \ {"done"}

Statuses == PendingStatuses \union {"running"} \union TerminalStatuses
PlanStatuses == Statuses \union {"absent"}
=============================================================================
