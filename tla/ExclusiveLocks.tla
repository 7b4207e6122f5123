--------------------------- MODULE ExclusiveLocks ---------------------------
(***************************************************************************)
(* What the workspace lock registry promises its users, with none of its   *)
(* bookkeeping: a claimant holds a set of resources, no resource is held   *)
(* by two claimants, a claim is granted whole or not at all, and a         *)
(* claimant that let go never holds anything again (a claim is one task    *)
(* attempt, used once).                                                    *)
(***************************************************************************)
CONSTANTS Claimants, Resources

VARIABLES holding,     \* holding[c]: the resources claimant c holds now
          finished     \* the claimants whose claim is over

vars == <<holding, finished>>

TypeOK == /\ holding \in [Claimants -> SUBSET Resources]
          /\ finished \subseteq Claimants

Init == /\ holding = [c \in Claimants |-> {}]
        /\ finished = {}

(* One or several claimants receive everything they ask for, at once. *)
Claim(C, wants) ==
    /\ C \cap finished = {}
    /\ \A c \in C : holding[c] = {}
    /\ \A c \in C, d \in Claimants : wants[c] \cap holding[d] = {}
    /\ \A c, d \in C : c # d => wants[c] \cap wants[d] = {}
    /\ holding' = [c \in Claimants |-> IF c \in C THEN wants[c] ELSE holding[c]]
    /\ UNCHANGED finished

(* Claimants let go of everything they hold, for good. *)
LetGo(C) ==
    /\ holding' = [c \in Claimants |-> IF c \in C THEN {} ELSE holding[c]]
    /\ finished' = finished \union C

Next == \E C \in SUBSET Claimants :
            \/ LetGo(C)
            \/ \E wants \in [C -> SUBSET Resources] : Claim(C, wants)

Spec == Init /\ [][Next]_vars
=============================================================================
