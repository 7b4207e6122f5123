------------------------- MODULE LockRegistryProofs -------------------------
(***************************************************************************)
(* For every set of runs, handles and locks: the registry's type, its      *)
(* exclusion, the agreement of its Set and its owners map with the live    *)
(* handles, and its refinement of ExclusiveLocks.                          *)
(*                                                                         *)
(* Exclusive alone is not inductive: releasing one handle removes its      *)
(* names from the Set, and only because the Set is exactly what live,      *)
(* pairwise disjoint handles hold does every other handle keep its own.    *)
(* RegistryInv is the conjunction that is.                                 *)
(***************************************************************************)
EXTENDS LockRegistry, TLAPS

Inv == TypeOK /\ RegistryInv

(* The handle a reserved lock belongs to is the one that asked for it:     *)
(* the handles reserved in one turn ask for disjoint sets.                 *)
LEMMA ChosenHandle ==
    ASSUME NEW H \in SUBSET Handles,
           \A g, h \in H : g # h => Wants[g] \cap Wants[h] = {},
           NEW h \in H, NEW l \in Wants[h]
    PROVE  (CHOOSE g \in H : l \in Wants[g]) = h
<1> DEFINE c == CHOOSE g \in H : l \in Wants[g]
<1>1. c \in H /\ l \in Wants[c]
  OBVIOUS
<1> QED
  BY <1>1

(* The registry starts empty, with every handle fresh. *)
LEMMA InitInv == Init => Inv
BY RegistryAssumption
   DEF Init, Inv, TypeOK, RegistryInv, Exclusive, RegistryIsLiveHandles,
       OwnersNameHolders, Held, LocksOfAll

(* acquire keeps the registry and the live handles in step. *)
LEMMA ReserveInv ==
    ASSUME Inv, NEW H \in SUBSET Handles, Reserve(H)
    PROVE  Inv'
<1> USE RegistryAssumption DEF Inv, TypeOK
<1>1. /\ \A h \in H : handle[h] = "fresh" /\ Wants[h] \cap locks = {}
      /\ \A g, h \in H : g # h => Wants[g] \cap Wants[h] = {}
  BY DEF Reserve, Fresh, CanAcquire
<1>2. Held' = Held \union H
  BY <1>1 DEF Reserve, Held
<1>3. \A h \in H : \A l \in Wants[h] : owners'[l] = RunOf[h]
  <2> SUFFICES ASSUME NEW h \in H, NEW l \in Wants[h]
               PROVE  owners'[l] = RunOf[h]
    OBVIOUS
  <2>1. (CHOOSE g \in H : l \in Wants[g]) = h
    BY <1>1, ChosenHandle
  <2>2. l \in LockNames
    OBVIOUS
  <2> QED
    BY <2>1, <2>2 DEF Reserve
<1>4. \A l \in LockNames \ LocksOfAll(H) : owners'[l] = owners[l]
  BY DEF Reserve, LocksOfAll
<1>5. TypeOK'
  <2>1. locks' \subseteq LockNames
    BY DEF Reserve, LocksOfAll
  <2>2. owners' \in [LockNames -> Runs \union {NoRun}]
    <3>1. \A l \in LockNames : owners'[l] \in Runs \union {NoRun}
      <4> SUFFICES ASSUME NEW l \in LockNames
                   PROVE  owners'[l] \in Runs \union {NoRun}
        OBVIOUS
      <4>1. CASE l \in LocksOfAll(H)
        BY <4>1, <1>3 DEF LocksOfAll
      <4>2. CASE l \notin LocksOfAll(H)
        BY <4>2, <1>4
      <4> QED
        BY <4>1, <4>2
    <3> QED
      BY <3>1 DEF Reserve
  <2>3. handle' \in [Handles -> {"fresh", "held", "released"}]
    BY DEF Reserve
  <2> QED
    BY <2>1, <2>2, <2>3
<1>6. Exclusive'
  <2> SUFFICES ASSUME NEW g \in Held', NEW h \in Held', g # h
               PROVE  Wants[g] \cap Wants[h] = {}
    BY DEF Exclusive
  <2>1. \A k \in Held : Wants[k] \subseteq locks
    BY DEF RegistryInv, RegistryIsLiveHandles, LocksOfAll
  <2> QED
    BY <1>1, <1>2, <2>1 DEF RegistryInv, Exclusive
<1>7. RegistryIsLiveHandles'
  BY <1>2 DEF RegistryInv, RegistryIsLiveHandles, LocksOfAll, Reserve
<1>8. OwnersNameHolders'
  <2>1. ASSUME NEW h \in Held', NEW l \in Wants[h]
        PROVE  owners'[l] = RunOf[h]
    <3>1. CASE h \in H
      BY <3>1, <1>3, <2>1
    <3>2. CASE h \in Held
      <4>1. l \in locks /\ owners[l] = RunOf[h]
        BY <3>2, <2>1 DEF RegistryInv, RegistryIsLiveHandles, LocksOfAll,
                          OwnersNameHolders
      <4>2. l \in LockNames /\ l \notin LocksOfAll(H)
        BY <4>1, <1>1 DEF LocksOfAll
      <4> QED
        BY <4>1, <4>2, <1>4
    <3> QED
      BY <3>1, <3>2, <1>2, <2>1
  <2>2. ASSUME NEW l \in LockNames
        PROVE  owners'[l] # NoRun <=> l \in locks'
    <3>1. CASE l \in LocksOfAll(H)
      <4>1. owners'[l] \in Runs
        BY <3>1, <1>3 DEF LocksOfAll
      <4> QED
        BY <3>1, <4>1 DEF Reserve
    <3>2. CASE l \notin LocksOfAll(H)
      <4>1. owners[l] # NoRun <=> l \in locks
        BY DEF RegistryInv, OwnersNameHolders
      <4> QED
        BY <3>2, <4>1, <1>4 DEF Reserve
    <3> QED
      BY <3>1, <3>2
  <2> QED
    BY <2>1, <2>2 DEF OwnersNameHolders
<1> QED
  BY <1>5, <1>6, <1>7, <1>8 DEF RegistryInv

(* A release, repeated or not, takes back what its live handles hold and   *)
(* nothing another handle holds.                                           *)
LEMMA ReleaseInv ==
    ASSUME Inv, NEW H \in SUBSET Handles, Release(H)
    PROVE  Inv'
<1> USE RegistryAssumption DEF Inv, TypeOK
<1> DEFINE given == LocksOfAll(H \cap Held)
<1>1. /\ locks' = locks \ given
      /\ owners' = [l \in LockNames |-> IF l \in given THEN NoRun ELSE owners[l]]
      /\ handle' = [h \in Handles |-> IF h \in H THEN "released" ELSE handle[h]]
  BY DEF Release
<1>2. Held' = Held \ H
  BY <1>1 DEF Held
<1>3. \A h \in Held \ H : Wants[h] \cap given = {}
  BY DEF RegistryInv, Exclusive, LocksOfAll
<1>4. TypeOK'
  BY <1>1
<1>5. Exclusive'
  BY <1>2 DEF RegistryInv, Exclusive
<1>6. RegistryIsLiveHandles'
  <2>1. locks = LocksOfAll(Held)
    BY DEF RegistryInv, RegistryIsLiveHandles
  <2>2. locks' \subseteq LocksOfAll(Held \ H)
    BY <1>1, <2>1 DEF LocksOfAll
  <2>3. LocksOfAll(Held \ H) \subseteq locks'
    BY <1>1, <1>3, <2>1 DEF LocksOfAll
  <2>4. LocksOfAll(Held)' = LocksOfAll(Held \ H)
    BY <1>2 DEF LocksOfAll
  <2> QED
    BY <2>2, <2>3, <2>4 DEF RegistryIsLiveHandles
<1>7. OwnersNameHolders'
  <2>1. ASSUME NEW h \in Held', NEW l \in Wants[h]
        PROVE  owners'[l] = RunOf[h]
    BY <1>1, <1>2, <1>3, <2>1 DEF RegistryInv, OwnersNameHolders, Held
  <2>2. ASSUME NEW l \in LockNames
        PROVE  owners'[l] # NoRun <=> l \in locks'
    BY <1>1 DEF RegistryInv, OwnersNameHolders
  <2> QED
    BY <2>1, <2>2 DEF OwnersNameHolders
<1> QED
  BY <1>4, <1>5, <1>6, <1>7 DEF RegistryInv

LEMMA NextInv == Inv /\ [Next]_vars => Inv'
<1> SUFFICES ASSUME Inv, [Next]_vars
             PROVE  Inv'
  OBVIOUS
<1>1. ASSUME NEW H \in SUBSET Handles, Reserve(H)
      PROVE  Inv'
  BY <1>1, ReserveInv
<1>2. ASSUME NEW H \in SUBSET Handles, Release(H)
      PROVE  Inv'
  BY <1>2, ReleaseInv
<1>3. ASSUME NEW r \in Runs, Clear(r)
      PROVE  Inv'
  BY <1>3, ReleaseInv DEF Clear, Reservations, Held
<1>4. CASE UNCHANGED vars
  BY <1>4 DEF vars, Inv, TypeOK, RegistryInv, Exclusive,
              RegistryIsLiveHandles, OwnersNameHolders, Held, LocksOfAll
<1> QED
  BY <1>1, <1>2, <1>3, <1>4 DEF Next

LEMMA InvAlways == Spec => []Inv
<1>1. Init => Inv
  BY InitInv
<1>2. Inv /\ [Next]_vars => Inv'
  BY NextInv
<1> QED
  BY <1>1, <1>2, PTL DEF Spec

(* The three variables of the registry keep their types. *)
THEOREM TypeCorrect == Spec => []TypeOK
<1>1. Inv => TypeOK
  BY DEF Inv
<1> QED
  BY <1>1, InvAlways, PTL

(* No lock is ever held under two live handles, of one run or of two.      *)
THEOREM ExclusionHolds == Spec => []Exclusive
<1>1. Inv => Exclusive
  BY DEF Inv, RegistryInv
<1> QED
  BY <1>1, InvAlways, PTL

(* The shared Set is at every moment what the live handles hold: no        *)
(* repeated release and no clear of one run frees a name of another.       *)
THEOREM NothingLeaksOrVanishes == Spec => []RegistryIsLiveHandles
<1>1. Inv => RegistryIsLiveHandles
  BY DEF Inv, RegistryInv
<1> QED
  BY <1>1, InvAlways, PTL

(* The owners map names the run of the live handle of every held lock.     *)
THEOREM OwnersAreRight == Spec => []OwnersNameHolders
<1>1. Inv => OwnersNameHolders
  BY DEF Inv, RegistryInv
<1> QED
  BY <1>1, InvAlways, PTL

-----------------------------------------------------------------------------
(* Refinement.  A reservation is a Claim of its handles, a release and a   *)
(* clear are a LetGo, whether the handles still held something or not.     *)

LEMMA InitRefines == Init => Abstract!Init
BY DEF Init, Abstract!Init

LEMMA ReserveRefines ==
    ASSUME Inv, NEW H \in SUBSET Handles, Reserve(H)
    PROVE  Abstract!Next
<1> USE RegistryAssumption DEF Inv, TypeOK
<1> DEFINE wants == [h \in H |-> Wants[h]]
           holding == [h \in Handles |-> IF handle[h] = "held" THEN Wants[h] ELSE {}]
<1>1. /\ \A h \in H : handle[h] = "fresh" /\ Wants[h] \cap locks = {}
      /\ \A g, h \in H : g # h => Wants[g] \cap Wants[h] = {}
      /\ handle' = [h \in Handles |-> IF h \in H THEN "held" ELSE handle[h]]
  BY DEF Reserve, Fresh, CanAcquire
<1>2. wants \in [H -> SUBSET LockNames]
  OBVIOUS
<1>3. \A d \in Handles : holding[d] \subseteq locks
  BY DEF RegistryInv, RegistryIsLiveHandles, LocksOfAll, Held
<1>4. H \cap {h \in Handles : handle[h] = "released"} = {}
  BY <1>1
<1>5. \A h \in H : holding[h] = {}
  BY <1>1
<1>6. \A c \in H, d \in Handles : wants[c] \cap holding[d] = {}
  BY <1>1, <1>3
<1>7. \A c, d \in H : c # d => wants[c] \cap wants[d] = {}
  BY <1>1
<1>8. holding' = [c \in Handles |-> IF c \in H THEN wants[c] ELSE holding[c]]
  BY <1>1
<1>9. {h \in Handles : handle'[h] = "released"} = {h \in Handles : handle[h] = "released"}
  BY <1>1
<1>10. Abstract!Claim(H, wants)
  BY <1>4, <1>5, <1>6, <1>7, <1>8, <1>9 DEF Abstract!Claim
<1> QED
  BY <1>2, <1>10 DEF Abstract!Next

LEMMA ReleaseRefines ==
    ASSUME Inv, NEW H \in SUBSET Handles, Release(H)
    PROVE  Abstract!Next
<1> USE DEF Inv, TypeOK
<1>1. handle' = [h \in Handles |-> IF h \in H THEN "released" ELSE handle[h]]
  BY DEF Release
<1>2. Abstract!LetGo(H)
  BY <1>1 DEF Abstract!LetGo
<1> QED
  BY <1>2 DEF Abstract!Next

(* The registry implements the abstract lock service: what a claimant is   *)
(* granted it holds alone and whole, until it lets go of it for good.      *)
THEOREM RegistryImplementsLocks == Spec => ImplementsExclusiveLocks
<1>1. Init => Abstract!Init
  BY InitRefines
<1>2. Inv /\ [Next]_vars => [Abstract!Next]_(Abstract!vars)
  <2> SUFFICES ASSUME Inv, [Next]_vars
               PROVE  [Abstract!Next]_(Abstract!vars)
    OBVIOUS
  <2>1. ASSUME NEW H \in SUBSET Handles, Reserve(H)
        PROVE  Abstract!Next
    BY <2>1, ReserveRefines
  <2>2. ASSUME NEW H \in SUBSET Handles, Release(H)
        PROVE  Abstract!Next
    BY <2>2, ReleaseRefines
  <2>3. ASSUME NEW r \in Runs, Clear(r)
        PROVE  Abstract!Next
    BY <2>3, ReleaseRefines DEF Clear, Reservations, Held
  <2>4. CASE UNCHANGED vars
    BY <2>4 DEF vars, Abstract!vars
  <2> QED
    BY <2>1, <2>2, <2>3, <2>4 DEF Next
<1> QED
  BY <1>1, <1>2, InvAlways, PTL DEF Spec, ImplementsExclusiveLocks, Abstract!Spec
=============================================================================
