--------------------------- MODULE MCLockRegistry ---------------------------
(* Two runs and a direct action share three locks; their handles overlap   *)
(* pairwise, and one handle needs no lock at all.                          *)
EXTENDS LockRegistry, TLC

CONSTANTS run1, run2, direct

MCRuns == {run1, run2, direct}
MCHandles == {"a1", "a2", "b1", "b2", "b3", "d1"}
MCLockNames == {"workspace", "page", "deliverable"}
MCRunOf == "a1" :> run1 @@ "a2" :> run1 @@ "b1" :> run2 @@ "b2" :> run2
           @@ "b3" :> run2 @@ "d1" :> direct
MCWants == "a1" :> {"workspace"} @@ "a2" :> {"page", "deliverable"}
           @@ "b1" :> {"workspace", "page"} @@ "b2" :> {"deliverable"}
           @@ "b3" :> {} @@ "d1" :> {"page"}

=============================================================================
