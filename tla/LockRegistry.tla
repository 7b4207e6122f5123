---------------------------- MODULE LockRegistry ----------------------------
(***************************************************************************)
(* The workspace lock registry (src/orchestrator/lockManager.js) and the   *)
(* reservations the attempt managers keep in it                            *)
(* (src/orchestrator/attemptManager.js).                                   *)
(*                                                                         *)
(* One registry hangs on a workspace session and is shared by every run    *)
(* and every direct action.  It is a set of lock names and a map from lock *)
(* name to the run that holds it.  Each run has an attempt manager that    *)
(* reserves the locks of a task under a fresh handle; a handle gives its   *)
(* locks back once, however often its release closure is called.           *)
(*                                                                         *)
(* JavaScript runs one synchronous turn at a time, and one turn of a       *)
(* scheduler reserves for every task it starts, so Reserve and Release     *)
(* take a set of handles.                                                  *)
(***************************************************************************)
EXTENDS Naturals, FiniteSets

CONSTANTS
    Runs,        \* the owners: run ids
    Handles,     \* the attempts, each reserved at most once
    LockNames,
    RunOf,       \* RunOf[h]: the run whose attempt manager creates handle h
    Wants,       \* Wants[h]: locksForTask of the task of handle h
    NoRun        \* an absent entry of the owners map

ASSUME RegistryAssumption ==
    /\ RunOf \in [Handles -> Runs]
    /\ Wants \in [Handles -> SUBSET LockNames]
    /\ NoRun \notin Runs

VARIABLES
    locks,       \* registry.locks, a Set of names
    owners,      \* registry.owners, a Map from name to run
    handle       \* per handle: "fresh", "held" or "released"

vars == <<locks, owners, handle>>

TypeOK ==
    /\ locks \subseteq LockNames
    /\ owners \in [LockNames -> Runs \union {NoRun}]
    /\ handle \in [Handles -> {"fresh", "held", "released"}]

Init ==
    /\ locks = {}
    /\ owners = [l \in LockNames |-> NoRun]
    /\ handle = [h \in Handles |-> "fresh"]

-----------------------------------------------------------------------------
Held == {h \in Handles : handle[h] = "held"}

(* The reservations Set of one attempt manager. *)
Reservations(r) == {h \in Held : RunOf[h] = r}

LocksOfAll(H) == UNION {Wants[h] : h \in H}

Fresh(h) == handle[h] = "fresh"

(* Mutant: a request granted as soon as one of its locks is free. *)
CanAcquireAny(wanted) == wanted = {} \/ wanted \ locks # {}

(* canAcquire: every lock of the request is free. *)
CanAcquire(wanted) == wanted \cap locks = {}

(* foreignHolders: the locks of a request that another run holds. *)
ForeignHolders(r, wanted) == {l \in wanted \cap locks : owners[l] # r}

-----------------------------------------------------------------------------
(* Mutants: an acquire that records the attempt instead of the run, a      *)
(* release without the `released` flag, a clear that empties the Set.      *)
ReserveNamingAttempt(H) ==
    /\ \A h \in H : Fresh(h) /\ CanAcquire(Wants[h])
    /\ \A g, h \in H : g # h => Wants[g] \cap Wants[h] = {}
    /\ locks' = locks \union LocksOfAll(H)
    /\ owners' = [l \in LockNames |->
                    IF \E h \in H : l \in Wants[h]
                    THEN CHOOSE h \in H : l \in Wants[h]
                    ELSE owners[l]]
    /\ handle' = [h \in Handles |-> IF h \in H THEN "held" ELSE handle[h]]

ReleaseTwice(H) ==
    LET given == LocksOfAll(H) IN
    /\ \A h \in H : ~Fresh(h)
    /\ locks' = locks \ given
    /\ owners' = [l \in LockNames |-> IF l \in given THEN NoRun ELSE owners[l]]
    /\ handle' = [h \in Handles |-> IF h \in H THEN "released" ELSE handle[h]]

ClearRegistry(r) ==
    /\ locks' = {}
    /\ owners' = [l \in LockNames |-> NoRun]
    /\ handle' = [h \in Handles |-> IF h \in Reservations(r) THEN "released"
                                    ELSE handle[h]]

-----------------------------------------------------------------------------
(* reserve for each handle of H within one turn: acquire is all or nothing *)
(* and a refused request leaves no trace, so H holds the granted ones.     *)
Reserve(H) ==
    /\ \A h \in H : Fresh(h) /\ CanAcquire(Wants[h])
    /\ \A g, h \in H : g # h => Wants[g] \cap Wants[h] = {}
    /\ locks' = locks \union LocksOfAll(H)
    /\ owners' = [l \in LockNames |->
                    IF \E h \in H : l \in Wants[h]
                    THEN RunOf[CHOOSE h \in H : l \in Wants[h]]
                    ELSE owners[l]]
    /\ handle' = [h \in Handles |-> IF h \in H THEN "held" ELSE handle[h]]

(* The release closure of each handle of H.  The `released` flag makes a   *)
(* second call do nothing: by then another run may hold the same names.    *)
Release(H) ==
    LET given == LocksOfAll(H \cap Held) IN
    /\ \A h \in H : ~Fresh(h)
    /\ locks' = locks \ given
    /\ owners' = [l \in LockNames |-> IF l \in given THEN NoRun ELSE owners[l]]
    /\ handle' = [h \in Handles |-> IF h \in H THEN "released" ELSE handle[h]]

(* clear: an attempt manager gives back what it reserved, and no more. *)
Clear(r) == Release(Reservations(r))

Next ==
    \/ \E H \in SUBSET Handles : Reserve(H) \/ Release(H)
    \/ \E r \in Runs : Clear(r)

Spec == Init /\ [][Next]_vars

-----------------------------------------------------------------------------
(* No lock is held under two live handles, whichever runs they belong to:  *)
(* the reason the registry was moved from the run to the workspace.        *)
Exclusive ==
    \A g, h \in Held : g # h => Wants[g] \cap Wants[h] = {}

(* The shared Set is exactly what the live handles hold: nothing a handle  *)
(* still needs was freed by another handle's late release or another run's *)
(* clear, and nothing stays locked after its handle let go.                *)
RegistryIsLiveHandles == locks = LocksOfAll(Held)

(* The owners map names the run of the live handle, so a scheduler that    *)
(* waits behind a lock waits for a run that really holds it.               *)
OwnersNameHolders ==
    /\ \A h \in Held : \A l \in Wants[h] : owners[l] = RunOf[h]
    /\ \A l \in LockNames : owners[l] # NoRun <=> l \in locks

RegistryInv == Exclusive /\ RegistryIsLiveHandles /\ OwnersNameHolders

(* The registry implements the abstract lock service. *)
Abstract == INSTANCE ExclusiveLocks WITH
    Claimants <- Handles, Resources <- LockNames,
    holding <- [h \in Handles |-> IF handle[h] = "held" THEN Wants[h] ELSE {}],
    finished <- {h \in Handles : handle[h] = "released"}

ImplementsExclusiveLocks == Abstract!Spec
=============================================================================
