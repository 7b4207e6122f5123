--------------------- MODULE MaintenanceAdmissionProofs ---------------------
(* Theorems about the admission, for every set of requests and every       *)
(* assignment of scopes to them.                                           *)
EXTENDS MaintenanceAdmission, TLAPS

-----------------------------------------------------------------------------
(* Scopes meet both ways.                                                  *)
LEMMA ConflictSymmetric == \A r, s : Conflict(r, s) <=> Conflict(s, r)
BY DEF Conflict

(* One step keeps the type.                                                *)
LEMMA NextKeepsType == TypeOK /\ [Next]_admission => TypeOK'
<1> SUFFICES ASSUME TypeOK, [Next]_admission PROVE TypeOK'
  OBVIOUS
<1>1. CASE Forget
  BY <1>1 DEF Forget, TypeOK
<1>2. ASSUME NEW r \in Requests, Look(r) PROVE TypeOK'
  <2>1. Blockers(r) \subseteq Requests
    BY DEF Blockers, Holding
  <2>2. asked' \subseteq Requests
    BY <1>2, <2>1 DEF Look, TypeOK
  <2> QED
    BY <1>2, <2>2 DEF Look, TypeOK
<1>3. ASSUME NEW r \in Requests, Withdraw(r) \/ Release(r) PROVE TypeOK'
  BY <1>3 DEF Withdraw, Release, TypeOK
<1>4. CASE UNCHANGED admission
  BY <1>4 DEF admission, TypeOK
<1> QED
  BY <1>1, <1>2, <1>3, <1>4 DEF Next

(* The state keeps its type: no request is anywhere but out, waiting or    *)
(* holding.                                                                *)
THEOREM TypeCorrect == Spec => []TypeOK
<1>1. Init => TypeOK
  BY DEF Init, TypeOK
<1>2. TypeOK /\ [Next]_admission => TypeOK'
  BY NextKeepsType
<1> QED
  BY <1>1, <1>2, PTL DEF Spec

-----------------------------------------------------------------------------
(* A step that only takes requests away from the holders keeps them apart. *)
LEMMA FewerHoldersApart ==
    ASSUME AdmittedApart, Holding' \subseteq Holding
    PROVE  AdmittedApart'
<1> SUFFICES ASSUME NEW r \in Holding', NEW s \in Holding', r # s, Conflict(r, s)
             PROVE  {r, s} \cap Background = {}
  BY DEF AdmittedApart, Conflict
<1> QED
  BY DEF AdmittedApart

(* One step keeps them apart.                                              *)
LEMMA NextKeepsApart ==
    TypeOK /\ AdmittedApart /\ [Next]_admission => AdmittedApart'
<1> SUFFICES ASSUME TypeOK, AdmittedApart, [Next]_admission PROVE AdmittedApart'
  OBVIOUS
<1>1. CASE Forget
  BY <1>1, FewerHoldersApart DEF Forget, Holding
<1>2. ASSUME NEW q \in Requests, Look(q) PROVE AdmittedApart'
  <2>1. CASE Blockers(q) = {} /\ Priority(q) = {}
    <3>1. Holding' = Holding \union {q}
      BY <1>2, <2>1 DEF Look, Holding, TypeOK
    <3>2. \A h \in Holding : Conflict(h, q) => {h, q} \cap Background = {}
      BY <2>1 DEF Blockers
    <3> SUFFICES ASSUME NEW r \in Holding', NEW s \in Holding', r # s, Conflict(r, s)
                 PROVE  {r, s} \cap Background = {}
      BY DEF AdmittedApart, Conflict
    <3>3. CASE r = q
      BY <3>1, <3>2, <3>3, ConflictSymmetric
    <3>4. CASE s = q
      BY <3>1, <3>2, <3>4
    <3>5. CASE r # q /\ s # q
      BY <3>1, <3>5 DEF AdmittedApart
    <3> QED
      BY <3>3, <3>4, <3>5
  <2>2. CASE ~(Blockers(q) = {} /\ Priority(q) = {})
    BY <1>2, <2>2, FewerHoldersApart DEF Look, Holding, TypeOK
  <2> QED
    BY <2>1, <2>2
<1>3. ASSUME NEW q \in Requests, Withdraw(q) \/ Release(q) PROVE AdmittedApart'
  BY <1>3, FewerHoldersApart DEF Withdraw, Release, Holding, TypeOK
<1>4. CASE UNCHANGED admission
  BY <1>4, FewerHoldersApart DEF admission, Holding
<1> QED
  BY <1>1, <1>2, <1>3, <1>4 DEF Next

(* Maintenance is never admitted beside what it conflicts with: a look     *)
(* compares the request with every holder, whichever of the two is of      *)
(* maintenance, and nothing but a look admits.                             *)
THEOREM AdmissionsApart == Spec => []AdmittedApart
<1>1. Init => AdmittedApart
  BY DEF Init, AdmittedApart, Holding
<1>2. TypeOK /\ AdmittedApart /\ [Next]_admission => AdmittedApart'
  BY NextKeepsApart
<1> QED
  BY <1>1, <1>2, TypeCorrect, PTL DEF Spec

-----------------------------------------------------------------------------
(* One step admits no maintenance past a waiting user.                     *)
LEMMA NextUserFirst ==
    TypeOK /\ Next =>
      \A r \in Requests \cap Background :
         place[r] # "holding" /\ place'[r] = "holding"
            => \A u \in Waiting \ Background : ~Conflict(u, r)
<1> SUFFICES ASSUME TypeOK, Next, NEW r \in Requests \cap Background,
                    place[r] # "holding", place'[r] = "holding",
                    NEW u \in Waiting \ Background
             PROVE  ~Conflict(u, r)
  OBVIOUS
<1>1. CASE Forget
  BY <1>1 DEF Forget, TypeOK, Waiting
<1>2. ASSUME NEW q \in Requests, Look(q) PROVE ~Conflict(u, r)
  <2>1. q = r /\ Priority(q) = {}
    BY <1>2 DEF Look, TypeOK
  <2> QED
    BY <2>1 DEF Priority
<1>3. ASSUME NEW q \in Requests, Withdraw(q) \/ Release(q) PROVE ~Conflict(u, r)
  BY <1>3 DEF Withdraw, Release, TypeOK
<1> QED
  BY <1>1, <1>2, <1>3 DEF Next

(* A waiting request of the user that conflicts keeps maintenance out.     *)
THEOREM WaitingUserFirst == Spec => UserGoesFirst
<1>1. TypeOK /\ [Next]_admission =>
        [\A r \in Requests \cap Background : place[r] # "holding" /\ place'[r] = "holding"
           => \A u \in Waiting \ Background : ~Conflict(u, r)]_admission
  BY NextUserFirst
<1> QED
  BY <1>1, TypeCorrect, PTL DEF Spec, UserGoesFirst
=============================================================================
