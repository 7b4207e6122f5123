----------------------- MODULE MCMaintenanceActions -----------------------
(* "index" writes the workspace and can yield, "build" writes the page the *)
(* user's run works on and cannot, "curate" is of an external runtime and  *)
(* takes no admission.                                                     *)
EXTENDS MaintenanceActions, TLC

CONSTANTS d1, d2, u1

OneUser == {u1}
BothScopes == "index" :> {"workspace-write"} @@ "build" :> {"page"} @@ u1 :> {"page"}
Symmetric == Permutations({d1, d2})
=============================================================================
