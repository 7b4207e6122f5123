---------------------- MODULE MaintenanceActionsProofs ----------------------
(***************************************************************************)
(* Theorems about the reservations of maintenance, for every set of        *)
(* candidates, tickets and users, every limit and every set of faults.     *)
(*                                                                         *)
(* Each step either moves reserved rows to a settled status (KeepsUnits)   *)
(* or takes one unit for a row not in force, within the budget             *)
(* (TakesUnit).  The limit and the finality of settlements follow.  Each   *)
(* step also takes at most one step of the admission, whose theorems are   *)
(* carried over here.                                                      *)
(***************************************************************************)
EXTENDS MaintenanceActions, FiniteSetTheorems, TLAPS

AdmissionFacts == INSTANCE MaintenanceAdmissionProofs WITH
    Background <- Tickets \X Scoped,
    Preemptible <- Tickets \X CanYield,
    ScopesOf <- [r \in Requests |-> IF r \in Users THEN Scopes[r] ELSE Scopes[r[2]]]

RowsTyped == row \in [Keys -> Rows]

KeepsUnits ==
    \A k \in Keys : \/ row'[k].status = row[k].status
                    \/ /\ row[k].status = "reserved"
                       /\ row'[k].status \in {"consumed", "released"}

TakesUnit ==
    \E k \in Keys :
       /\ WithinBudget
       /\ ~HasRow(k)
       /\ row'[k].status \in {"reserved", "released"}
       /\ \A x \in Keys \ {k} : row'[x] = row[x]

RowStep == RowsTyped' /\ (KeepsUnits \/ TakesUnit)

-----------------------------------------------------------------------------
(* What the helpers of the store return is a row.                          *)
LEMMA NewRowTyped == NewRow \in Rows /\ NewRow.status = "reserved"
<1>1. 0 \in 0 .. MaxJobs
  BY ActionsAssumption
<1>2. NoRow \in Rows
  BY <1>1 DEF NoRow, Rows
<1> QED
  BY <1>2 DEF NewRow, Rows

(* settle changes the status of a reserved row, and of no other.           *)
LEMMA SettledTyped ==
    ASSUME NEW r \in Rows, NEW s \in {"consumed", "released"}
    PROVE  /\ Settled(r, s) \in Rows
           /\ r.status = "reserved" => Settled(r, s).status = s
           /\ r.status # "reserved" => Settled(r, s) = r
BY DEF Settled, Rows

(* A write of the payload leaves the status alone.                         *)
LEMMA OutcomeTyped ==
    ASSUME NEW r \in Rows, NEW o \in {"done", "failed", "cancelled"}
    PROVE  /\ [r EXCEPT !.outcome = o] \in Rows
           /\ [r EXCEPT !.outcome = o].status = r.status
           /\ [r EXCEPT !.dispatched = TRUE] \in Rows
           /\ [r EXCEPT !.dispatched = TRUE].status = r.status
BY DEF Rows

(* completeJob consumes a reserved row, and changes no other.              *)
LEMMA CompletedTyped ==
    ASSUME NEW r \in Rows, NEW o \in {"done", "failed", "cancelled"}
    PROVE  /\ Completed(r, o) \in Rows
           /\ r.status = "reserved" => Completed(r, o).status = "consumed"
           /\ r.status # "reserved" => Completed(r, o) = r
BY DEF Completed, Rows

(* A step that rewrites one row, settling it or leaving its status.        *)
LEMMA OneRowKept ==
    ASSUME RowsTyped, NEW k, NEW r,
           row' = [row EXCEPT ![k] = r],
           k \in Keys => /\ r \in Rows
                         /\ \/ r.status = row[k].status
                            \/ /\ row[k].status = "reserved"
                               /\ r.status \in {"consumed", "released"}
    PROVE  RowStep
<1>1. CASE k \in Keys
  BY <1>1 DEF RowsTyped, RowStep, KeepsUnits
<1>2. CASE k \notin Keys
  <2>1. row' = row
    BY <1>2 DEF RowsTyped
  <2> QED
    BY <2>1 DEF RowsTyped, RowStep, KeepsUnits
<1> QED
  BY <1>1, <1>2

(* An outcome written, then the row settled.                               *)
LEMMA SettledWithOutcome ==
    ASSUME RowsTyped, NEW k, NEW o \in {"failed", "cancelled"},
           NEW s \in {"consumed", "released"},
           row' = [row EXCEPT ![k] = Settled([row[k] EXCEPT !.outcome = o], s)]
    PROVE  RowStep
<1> DEFINE r == [row[k] EXCEPT !.outcome = o]
<1>1. CASE k \in Keys
  <2>1. row[k] \in Rows
    BY <1>1 DEF RowsTyped
  <2>2. r \in Rows /\ r.status = row[k].status
    BY <2>1, OutcomeTyped
  <2>3. row' = [row EXCEPT ![k] = Settled(r, s)]
    OBVIOUS
  <2> HIDE DEF r
  <2>4. /\ Settled(r, s) \in Rows
        /\ r.status = "reserved" => Settled(r, s).status = s
        /\ r.status # "reserved" => Settled(r, s) = r
    BY <2>2, SettledTyped
  <2> DEFINE t == Settled(r, s)
  <2>5. /\ row' = [row EXCEPT ![k] = t]
        /\ t \in Rows
        /\ \/ t.status = row[k].status
           \/ /\ row[k].status = "reserved"
              /\ t.status \in {"consumed", "released"}
    BY <2>2, <2>3, <2>4
  <2> HIDE DEF t
  <2> QED
    BY <2>5, OneRowKept
<1>2. CASE k \notin Keys
  BY <1>2, OneRowKept
<1> QED
  BY <1>1, <1>2

(* A row completed, unless it was settled before.                          *)
LEMMA CompletedKept ==
    ASSUME RowsTyped, NEW k, NEW o \in {"done", "failed", "cancelled"},
           row' = [row EXCEPT ![k] = Completed(row[k], o)]
    PROVE  RowStep
<1> DEFINE t == Completed(row[k], o)
<1>1. row' = [row EXCEPT ![k] = t]
  OBVIOUS
<1>2. CASE k \in Keys
  <2>1. row[k] \in Rows
    BY <1>2 DEF RowsTyped
  <2>2. /\ t \in Rows
        /\ row[k].status = "reserved" => t.status = "consumed"
        /\ row[k].status # "reserved" => t = row[k]
    BY <2>1, CompletedTyped
  <2> HIDE DEF t
  <2> QED
    BY <1>1, <2>2, OneRowKept
<1>3. CASE k \notin Keys
  BY <1>1, <1>3, OneRowKept
<1> QED
  BY <1>2, <1>3

(* A step of a reservation: what it writes is the row in force with its    *)
(* status kept or settled, or a new row taken within the budget.           *)
LEMMA ReservationStep ==
    ASSUME RowsTyped, NEW k, NEW r, Reserve(k), row[k].status # "consumed",
           row' = [row EXCEPT ![k] = r],
           r \in Rows, r.status \in {"reserved", "released"}
    PROVE  RowStep
<1>1. CASE HasRow(k)
  BY <1>1, OneRowKept DEF HasRow
<1>2. CASE ~HasRow(k) /\ k \in Keys
  BY <1>2 DEF RowsTyped, RowStep, TakesUnit, Reserve
<1>3. CASE k \notin Keys
  BY <1>3, OneRowKept
<1> QED
  BY <1>1, <1>2, <1>3

(* A step that leaves the rows alone.                                      *)
LEMMA SameRows ==
    ASSUME RowsTyped, UNCHANGED row PROVE RowStep
BY DEF RowsTyped, RowStep, KeepsUnits

-----------------------------------------------------------------------------
(* The steps of a ticket that write a row.                                 *)
LEMMA TicketWrites ==
    ASSUME RowsTyped, NEW d \in Tickets,
           \/ Uncertain(d) \/ YieldEarly(d) \/ Dispatch(d) \/ AgentAccepts(d)
           \/ AgentRefuses(d) \/ Ended(d) \/ CrashReserving(d)
    PROVE  RowStep
<1> DEFINE k == key[d]
<1>1. CASE Uncertain(d)
  <2>1. row' = [row EXCEPT ![k] = Settled(row[k], "released")]
    BY <1>1 DEF Uncertain, RowsTyped
  <2> HIDE DEF k
  <2> QED
    BY <2>1, OneRowKept, SettledTyped DEF RowsTyped
<1>2. CASE YieldEarly(d)
  <2>1. /\ Reserve(k)
        /\ row[k].status # "consumed"
        /\ row' = [row EXCEPT ![k] = Settled(AfterReserve(k), "released")]
    BY <1>2 DEF YieldEarly, Dispatchable
  <2> HIDE DEF k
  <2>2. CASE k \in Keys
    <3>1. AfterReserve(k) \in Rows /\ AfterReserve(k).status = "reserved"
      BY <2>1, <2>2, NewRowTyped DEF AfterReserve, HasRow, RowsTyped
    <3> QED
      BY <2>1, <3>1, SettledTyped, ReservationStep
  <2>3. CASE k \notin Keys
    BY <2>1, <2>3, OneRowKept
  <2> QED
    BY <2>2, <2>3
<1>3. CASE Dispatch(d)
  <2>1. /\ Reserve(k)
        /\ row[k].status # "consumed"
        /\ row' = [row EXCEPT ![k] = [AfterReserve(k) EXCEPT !.dispatched = TRUE]]
    BY <1>3 DEF Dispatch, Dispatchable
  <2> HIDE DEF k
  <2>2. CASE k \in Keys
    <3>1. AfterReserve(k) \in Rows /\ AfterReserve(k).status = "reserved"
      BY <2>1, <2>2, NewRowTyped DEF AfterReserve, HasRow, RowsTyped
    <3> QED
      BY <2>1, <3>1, OutcomeTyped, ReservationStep
  <2>3. CASE k \notin Keys
    BY <2>1, <2>3, OneRowKept
  <2> QED
    BY <2>2, <2>3
<1>4. CASE AgentAccepts(d)
  <2>1. PICK i \in Answers(k) : UNCHANGED row \/ row' = [row EXCEPT ![k].job = i]
    BY <1>4 DEF AgentAccepts
  <2>2. i \in 0 .. MaxJobs
    BY <2>1, ActionsAssumption DEF Answers
  <2> HIDE DEF k
  <2>3. CASE row' = [row EXCEPT ![k].job = i]
    <3>1. row' = [row EXCEPT ![k] = [row[k] EXCEPT !.job = i]]
      BY <2>3 DEF RowsTyped
    <3>2. k \in Keys => /\ [row[k] EXCEPT !.job = i] \in Rows
                        /\ [row[k] EXCEPT !.job = i].status = row[k].status
      BY <2>2 DEF RowsTyped, Rows
    <3> QED
      BY <3>1, <3>2, OneRowKept
  <2> QED
    BY <2>1, <2>3, SameRows
<1>5. CASE AgentRefuses(d)
  <2>1. row' = [row EXCEPT ![k] = Settled(row[k], "released")]
    BY <1>5 DEF AgentRefuses, RowsTyped
  <2> HIDE DEF k
  <2> QED
    BY <2>1, OneRowKept, SettledTyped DEF RowsTyped
<1>6. CASE Ended(d)
  <2>1. Followed(d) \in Terminal
    BY <1>6 DEF Ended
  <2>2. \/ row' = [row EXCEPT ![k] =
                     Settled([row[k] EXCEPT !.outcome = "cancelled"], "released")]
        \/ row' = [row EXCEPT ![k] =
                     Settled([row[k] EXCEPT !.outcome = "failed"], "consumed")]
        \/ row' = [row EXCEPT ![k] = Completed(row[k], Followed(d))]
    BY <1>6 DEF Ended, RowsTyped
  <2> HIDE DEF k
  <2>3. Followed(d) \in {"done", "failed", "cancelled"}
    BY <2>1 DEF Terminal
  <2>4. CASE row' = [row EXCEPT ![k] =
                       Settled([row[k] EXCEPT !.outcome = "cancelled"], "released")]
    BY <2>4, SettledWithOutcome
  <2>5. CASE row' = [row EXCEPT ![k] =
                       Settled([row[k] EXCEPT !.outcome = "failed"], "consumed")]
    BY <2>5, SettledWithOutcome
  <2>6. CASE row' = [row EXCEPT ![k] = Completed(row[k], Followed(d))]
    BY <2>3, <2>6, CompletedKept
  <2> QED
    BY <2>2, <2>4, <2>5, <2>6
<1>7. CASE CrashReserving(d)
  <2>1. Reserve(k) /\ ~HasRow(k) /\ row' = [row EXCEPT ![k] = NewRow]
    BY <1>7 DEF CrashReserving
  <2> HIDE DEF k
  <2> QED
    BY <2>1, NewRowTyped, ReservationStep DEF HasRow
<1> QED
  BY <1>1, <1>2, <1>3, <1>4, <1>5, <1>6, <1>7

(* Rows after a write that keeps the status of each or settles it.         *)
Moved(rows) ==
    /\ rows \in [Keys -> Rows]
    /\ \A k \in Keys : \/ rows[k].status = row[k].status
                       \/ /\ row[k].status = "reserved"
                          /\ rows[k].status \in {"consumed", "released"}

(* What a walk does to one row, then to the rows it gives back.            *)
LEMMA MovedOne ==
    ASSUME RowsTyped, NEW k, NEW r,
           k \in Keys => /\ r \in Rows
                         /\ \/ r.status = row[k].status
                            \/ /\ row[k].status = "reserved"
                               /\ r.status \in {"consumed", "released"}
    PROVE  Moved([row EXCEPT ![k] = r])
<1>1. CASE k \in Keys
  BY <1>1 DEF RowsTyped, Moved
<1>2. CASE k \notin Keys
  BY <1>2 DEF RowsTyped, Moved
<1> QED
  BY <1>1, <1>2

LEMMA GivenBackKept ==
    ASSUME RowsTyped, NEW rows, Moved(rows), NEW now, row' = GivenBack(rows, now)
    PROVE  RowStep
<1>1. ASSUME NEW k \in Keys
      PROVE  /\ row'[k] \in Rows
             /\ \/ row'[k].status = row[k].status
                \/ /\ row[k].status = "reserved"
                   /\ row'[k].status \in {"consumed", "released"}
  <2>1. rows[k] \in Rows
    BY DEF Moved
  <2>2. row'[k] = rows[k] \/ row'[k] = Settled(rows[k], "released")
    BY DEF GivenBack
  <2> QED
    BY <2>1, <2>2, SettledTyped DEF Moved
<1> QED
  BY <1>1 DEF RowStep, RowsTyped, KeepsUnits, GivenBack

(* A row completed by the scan, unless it was settled before.              *)
LEMMA CompletedMoved ==
    ASSUME RowsTyped, NEW k, NEW o \in {"done", "failed", "cancelled"}
    PROVE  Moved([row EXCEPT ![k] = Completed(row[k], o)])
<1> DEFINE t == Completed(row[k], o)
<1>1. k \in Keys => /\ t \in Rows
                    /\ row[k].status = "reserved" => t.status = "consumed"
                    /\ row[k].status # "reserved" => t = row[k]
  BY CompletedTyped DEF RowsTyped
<1> HIDE DEF t
<1>2. Moved([row EXCEPT ![k] = t])
  BY <1>1, MovedOne
<1> QED
  BY <1>2 DEF t

(* A row settled by the Stop.                                              *)
LEMMA CancelledMoved ==
    ASSUME RowsTyped, NEW k
    PROVE  Moved([row EXCEPT ![k] =
                    Settled([row[k] EXCEPT !.outcome = "cancelled"], "consumed")])
<1> DEFINE r == [row[k] EXCEPT !.outcome = "cancelled"]
<1>1. k \in Keys => r \in Rows /\ r.status = row[k].status
  BY OutcomeTyped DEF RowsTyped
<1> HIDE DEF r
<1>2. Moved([row EXCEPT ![k] = Settled(r, "consumed")])
  BY <1>1, SettledTyped, MovedOne
<1> QED
  BY <1>2 DEF r

(* The steps of the scan and of the Stop that write a row, and the crash   *)
(* that leaves an outcome in one.                                          *)
LEMMA OtherWrites ==
    ASSUME RowsTyped,
           \/ ScanReads \/ StopConfirms
           \/ \E j \in Jobs : Reconcile(j) \/ StopSettles(j) \/ CrashSettling(j)
    PROVE  RowStep
<1>1. Moved(row)
  BY DEF RowsTyped, Moved
<1>2. CASE ScanReads \/ StopConfirms
  BY <1>1, <1>2, GivenBackKept DEF ScanReads, StopConfirms
<1>3. ASSUME NEW j \in Jobs, Reconcile(j) PROVE RowStep
  <2> DEFINE done == [row EXCEPT ![j[1]] = Completed(row[j[1]], job[j])]
  <2>1. PICK now : \/ job[j] \in Terminal /\ row' = GivenBack(done, now)
                   \/ row' = GivenBack(row, now)
    BY <1>3 DEF Reconcile, RowsTyped
  <2>2. job[j] \in Terminal => Moved(done)
    BY CompletedMoved DEF Terminal
  <2> HIDE DEF done
  <2> QED
    BY <1>1, <2>1, <2>2, GivenBackKept
<1>4. ASSUME NEW j \in Jobs, StopSettles(j) PROVE RowStep
  <2> DEFINE done == [row EXCEPT ![j[1]] =
                        Settled([row[j[1]] EXCEPT !.outcome = "cancelled"], "consumed")]
  <2>1. PICK now : row' = GivenBack(done, now)
    BY <1>4 DEF StopSettles, RowsTyped
  <2>2. Moved(done)
    BY CancelledMoved
  <2> HIDE DEF done
  <2> QED
    BY <2>1, <2>2, GivenBackKept
<1>5. ASSUME NEW j \in Jobs, CrashSettling(j) PROVE RowStep
  <2>1. PICK how \in Terminal :
             row' = [row EXCEPT ![j[1]] = [row[j[1]] EXCEPT !.outcome = how]]
    BY <1>5 DEF CrashSettling, RowsTyped
  <2> DEFINE r == [row[j[1]] EXCEPT !.outcome = how]
  <2>2. j[1] \in Keys => r \in Rows /\ r.status = row[j[1]].status
    BY OutcomeTyped DEF Terminal, RowsTyped
  <2> HIDE DEF r
  <2>3. row' = [row EXCEPT ![j[1]] = r]
    BY <2>1 DEF r
  <2> QED
    BY <2>2, <2>3, OneRowKept
<1> QED
  BY <1>2, <1>3, <1>4, <1>5

(* Every step is a RowStep: the others leave the rows alone.               *)
LEMMA EveryStep == RowsTyped /\ [Next]_vars => RowStep
<1> SUFFICES ASSUME RowsTyped, [Next]_vars PROVE RowStep
  OBVIOUS
<1>1. ASSUME NEW d \in Tickets, TicketStep(d) \/ TicketFault(d) PROVE RowStep
  <2>1. CASE \/ Uncertain(d) \/ YieldEarly(d) \/ Dispatch(d) \/ AgentAccepts(d)
             \/ AgentRefuses(d) \/ Ended(d) \/ CrashReserving(d)
    BY <2>1, TicketWrites
  <2>2. CASE \/ LookAgain(d) \/ Check(d) \/ Refuse(d) \/ OverBudget(d)
             \/ AlreadyConsumed(d) \/ Resume(d) \/ CallLost(d) \/ StopForUser(d)
             \/ StopForCeiling(d) \/ Unconfirmed(d) \/ Start(d)
             \/ GiveUpWaiting(d) \/ StatusLost(d) \/ Interrupted(d)
    BY <2>2, SameRows DEF LookAgain, Check, Refuse, OverBudget, AlreadyConsumed, Resume,
       CallLost, StopForUser, StopForCeiling, Unconfirmed, Start, GiveUpWaiting,
       StatusLost, Interrupted, rowVars
  <2> QED
    BY <1>1, <2>1, <2>2 DEF TicketStep, TicketFault
<1>2. CASE \E j \in Jobs : JobEnds(j)
  BY <1>2, SameRows DEF JobEnds, rowVars
<1>3. CASE ScanBegins \/ ScanReads \/ \E j \in Jobs : Reconcile(j) \/ CrashSettling(j)
  BY <1>3, OtherWrites, SameRows DEF ScanBegins, rowVars
<1>4. CASE StopStep
  BY <1>4, OtherWrites, SameRows
     DEF StopStep, Stop, StopEnds, ResumeMaintenance, StopCancels, rowVars
<1>5. CASE \E u \in Users : UserStep(u)
  BY <1>5, SameRows
     DEF UserStep, RunStarts, TaskLooks, TaskEnds, TaskAborts, RunEnds, rowVars
<1>6. CASE Crash
  BY <1>6, SameRows DEF Crash
<1>7. CASE UNCHANGED vars
  BY <1>7, SameRows DEF vars, rowVars
<1> QED
  BY <1>1, <1>2, <1>3, <1>4, <1>5, <1>6, <1>7 DEF Next

(* The reservations keep their type.                                       *)
THEOREM RowsKeepType == Spec => []RowsTyped
<1>1. Init => RowsTyped
  BY ActionsAssumption DEF Init, RowsTyped, NoRow, Rows
<1>2. RowsTyped /\ [Next]_vars => RowsTyped'
  BY EveryStep DEF RowStep
<1> QED
  BY <1>1, <1>2, PTL DEF Spec

-----------------------------------------------------------------------------
(* A settled attempt is settled for good, whoever comes late to it.        *)
THEOREM SettlementsLast == Spec => SettledOnce
<1>1. RowsTyped /\ [Next]_vars =>
        [\A k \in Keys :
           /\ row[k].status = "consumed" => row'[k].status = "consumed"
           /\ row[k].status = "released" => row'[k].status # "consumed"]_vars
  BY EveryStep DEF RowStep, KeepsUnits, TakesUnit, HasRow
<1> QED
  BY <1>1, RowsKeepType, PTL DEF Spec, SettledOnce

-----------------------------------------------------------------------------
(* The units in use never pass the limit of the day.                       *)
(* The units in use can be counted.                                        *)
LEMMA UnitsFinite ==
    /\ IsFiniteSet(Reserved \union Consumed)
    /\ Cardinality(Reserved \union Consumed) \in Nat
<1>1. IsFiniteSet(0 .. MaxRetries)
  BY FS_Interval, ActionsAssumption
<1>2. IsFiniteSet(Keys)
  BY <1>1, FS_Product, ActionsAssumption DEF Keys
<1>3. IsFiniteSet(Reserved \union Consumed)
  BY <1>2, FS_Subset DEF Reserved, Consumed
<1> QED
  BY <1>3, FS_CardinalityType

THEOREM UnitsBounded == Spec => []BudgetHolds
<1>1. Init => BudgetHolds
  <2>1. Init => Reserved \union Consumed = {}
    BY DEF Init, Reserved, Consumed, NoRow
  <2> QED
    BY <2>1, FS_EmptySet, ActionsAssumption DEF BudgetHolds
<1>2. RowsTyped /\ BudgetHolds /\ [Next]_vars => BudgetHolds'
  <2> SUFFICES ASSUME RowsTyped, BudgetHolds, [Next]_vars PROVE BudgetHolds'
    OBVIOUS
  <2> DEFINE U == Reserved \union Consumed
  <2>1. KeepsUnits \/ TakesUnit
    BY EveryStep DEF RowStep
  <2>2. CASE KeepsUnits
    <3>1. U' \subseteq U
      BY <2>2 DEF KeepsUnits, Reserved, Consumed
    <3>2. Cardinality(U') \in Nat /\ Cardinality(U') <= Cardinality(U)
      BY <3>1, UnitsFinite, FS_Subset, FS_CardinalityType
    <3> QED
      BY <3>2, UnitsFinite, ActionsAssumption DEF BudgetHolds
  <2>3. CASE TakesUnit
    <3>1. PICK k \in Keys : WithinBudget /\ ~HasRow(k)
                            /\ \A x \in Keys \ {k} : row'[x] = row[x]
      BY <2>3 DEF TakesUnit
    <3>2. U' \subseteq U \union {k}
      BY <3>1 DEF Reserved, Consumed
    <3>3. k \notin U
      BY <3>1 DEF HasRow, Reserved, Consumed
    <3>4. /\ IsFiniteSet(U \union {k})
          /\ Cardinality(U \union {k}) = Cardinality(U) + 1
      BY <3>3, UnitsFinite, FS_AddElement
    <3>5. Cardinality(U') \in Nat /\ Cardinality(U') <= Cardinality(U) + 1
      BY <3>2, <3>4, FS_Subset, FS_CardinalityType
    <3> QED
      BY <3>1, <3>5, UnitsFinite, ActionsAssumption DEF WithinBudget, BudgetHolds
  <2> QED
    BY <2>1, <2>2, <2>3
<1> QED
  BY <1>1, <1>2, RowsKeepType, PTL DEF Spec

-----------------------------------------------------------------------------
(* A ticket that is not idle has an attempt; one that waits for the        *)
(* admission waits for a request it may make.                              *)
TicketsInv ==
    /\ TicketsTypeOK
    /\ \A d \in Tickets : ticket[d] = "admitting" => TakesAdmission(d)
    /\ \A d \in Tickets : ticket[d] # "idle" => key[d] \in Keys

(* The id computed for a candidate is one of its attempts.                 *)
LEMMA NextKeysOf ==
    ASSUME NEW c \in Candidates, NEW k \in NextKeys(c)
    PROVE  k \in Keys /\ k[1] = c
<1>1. <<c, 0>> \in Keys
  BY ActionsAssumption DEF Keys
<1> QED
  BY <1>1 DEF NextKeys, Reserved, Attempts

(* Every step keeps it.                                                    *)
LEMMA TicketsKept == RowsTyped /\ TicketsInv /\ [Next]_vars => TicketsInv'
<1> SUFFICES ASSUME RowsTyped, TicketsInv, [Next]_vars PROVE TicketsInv'
  OBVIOUS
<1> USE DEF TicketsInv, TicketsTypeOK, TakesAdmission
<1>1. ASSUME NEW d \in Tickets, Start(d) PROVE TicketsInv'
  <2> PICK c \in Candidates :
           /\ \E k \in NextKeys(c) : key' = [key EXCEPT ![d] = k]
           /\ \/ ticket' = [ticket EXCEPT ![d] = "admitted"]
              \/ c \in Scoped /\ ticket' = [ticket EXCEPT ![d] = "admitting"]
    BY <1>1 DEF Start
  <2>1. PICK k \in NextKeys(c) : key' = [key EXCEPT ![d] = k]
    OBVIOUS
  <2>2. k \in Keys /\ k[1] = c
    BY <2>1, NextKeysOf
  <2>3. stop' = stop /\ followed' = followed
    BY <1>1 DEF Start
  <2> QED
    BY <2>1, <2>2, <2>3
<1>2. ASSUME NEW d \in Tickets, Leave(d) PROVE TicketsInv'
  BY <1>2, ActionsAssumption DEF Leave
<1>3. ASSUME NEW d \in Tickets,
             \/ LookAgain(d) \/ Check(d) \/ Dispatch(d)
             \/ StopForUser(d) \/ StopForCeiling(d) \/ GiveUpWaiting(d)
      PROVE  TicketsInv'
  BY <1>3 DEF LookAgain, Check, Dispatch, StopForUser, StopForCeiling,
     GiveUpWaiting, Current
<1>12. ASSUME NEW d \in Tickets, RowsTyped, Resume(d) PROVE TicketsInv'
  <2>1. row[key[d]].job \in 0 .. MaxJobs
    BY <1>12 DEF Resume, Current, RowsTyped, Rows
  <2> QED
    BY <1>12, <2>1 DEF Resume, Current
<1>13. ASSUME NEW d \in Tickets, AgentAccepts(d) PROVE TicketsInv'
  <2>1. PICK i \in Answers(key[d]) :
             \/ /\ ticket' = [ticket EXCEPT ![d] = "following"]
                /\ followed' = [followed EXCEPT ![d] = i]
             \/ /\ ticket' = [ticket EXCEPT ![d] = "accepted"]
                /\ followed' = followed
    BY <1>13 DEF AgentAccepts
  <2>2. i \in 0 .. MaxJobs
    BY ActionsAssumption DEF Answers
  <2>3. ticket[d] = "submitting" /\ key' = key /\ stop' = stop
    BY <1>13 DEF AgentAccepts
  <2> QED
    BY <2>1, <2>2, <2>3
<1>4. ASSUME NEW d \in Tickets,
             \/ Refuse(d) \/ OverBudget(d) \/ AlreadyConsumed(d) \/ Uncertain(d)
             \/ YieldEarly(d) \/ AgentRefuses(d) \/ CallLost(d) \/ Ended(d)
             \/ Unconfirmed(d) \/ StatusLost(d) \/ Interrupted(d)
      PROVE  TicketsInv'
  BY <1>2, <1>4 DEF Refuse, OverBudget, AlreadyConsumed, Uncertain, YieldEarly,
     AgentRefuses, CallLost, Ended, Unconfirmed, StatusLost, Interrupted
<1>5. CASE Restarted
  BY <1>5, ActionsAssumption DEF Restarted
<1>6. CASE UNCHANGED ticketVars
  BY <1>6 DEF ticketVars
<1>7. ASSUME NEW j \in Jobs, JobEnds(j) \/ StopCancels(j) \/ StopSettles(j)
      PROVE  UNCHANGED ticketVars
  BY <1>7 DEF JobEnds, StopCancels, StopSettles
<1>8. ASSUME NEW j \in Jobs, Reconcile(j) PROVE UNCHANGED ticketVars
  BY <1>8 DEF Reconcile
<1>9. ASSUME NEW u \in Users, UserStep(u) PROVE UNCHANGED ticketVars
  BY <1>9 DEF UserStep, RunStarts, TaskLooks, TaskEnds, TaskAborts, RunEnds
<1>10. CASE \/ ScanBegins \/ ScanReads
            \/ Stop \/ StopConfirms \/ StopEnds \/ ResumeMaintenance \/ UNCHANGED vars
  BY <1>6, <1>10
     DEF ScanBegins, ScanReads, Stop, StopConfirms, StopEnds, ResumeMaintenance, vars
<1>11. CASE \/ \E d \in Tickets : CrashReserving(d)
            \/ \E j \in Jobs : CrashSettling(j)
  BY <1>5, <1>11 DEF CrashReserving, CrashSettling
<1> QED
  BY <1>1, <1>3, <1>4, <1>5, <1>6, <1>7, <1>8, <1>9, <1>10, <1>11, <1>12, <1>13
     DEF Next, TicketStep, TicketFault, StopStep, Crash

(* The tickets have their type, and wait for what they may ask.            *)
THEOREM TicketsCorrect == Spec => []TicketsInv
<1>1. Init => TicketsInv
  BY ActionsAssumption DEF Init, TicketsInv, TicketsTypeOK
<1> QED
  BY <1>1, TicketsKept, RowsKeepType, PTL DEF Spec

-----------------------------------------------------------------------------
(* Each step takes at most one step of the admission.                      *)
LEMMA AdmissionStep ==
    TicketsInv /\ [Next]_vars => Admission!Next \/ UNCHANGED admission
<1> SUFFICES ASSUME TicketsInv, [Next]_vars
             PROVE  Admission!Next \/ UNCHANGED admission
  OBVIOUS
<1> DEFINE Goal == Admission!Next \/ UNCHANGED admission
<1>1. ASSUME NEW r \in Requests,
             Admission!Look(r) \/ Admission!Withdraw(r) \/ Admission!Release(r)
      PROVE  Goal
  BY <1>1 DEF Admission!Next
<1>2. ASSUME NEW d \in Tickets, TakesAdmission(d) PROVE Request(d) \in Requests
  BY <1>2 DEF TakesAdmission, Request, Requests
<1>3. ASSUME NEW d \in Tickets, Start(d) PROVE Goal
  <2>1. PICK c \in Candidates : IF c \in Scoped THEN Admission!Look(<<d, c>>)
                                ELSE UNCHANGED admission
    BY <1>3 DEF Start
  <2>2. c \in Scoped => <<d, c>> \in Requests
    BY DEF Requests
  <2> QED
    BY <1>1, <2>1, <2>2
<1>4. ASSUME NEW d \in Tickets, Leave(d) PROVE Goal
  BY <1>1, <1>2, <1>4 DEF Leave
<1>5. ASSUME NEW d \in Tickets, LookAgain(d) \/ GiveUpWaiting(d) PROVE Goal
  <2>1. Request(d) \in Requests
    BY <1>2, <1>5 DEF LookAgain, GiveUpWaiting, TicketsInv
  <2> QED
    BY <1>1, <1>5, <2>1 DEF LookAgain, GiveUpWaiting
<1>6. ASSUME NEW d \in Tickets,
             \/ Check(d) \/ Resume(d) \/ Dispatch(d) \/ AgentAccepts(d)
             \/ StopForUser(d) \/ StopForCeiling(d)
      PROVE  UNCHANGED admission
  BY <1>6 DEF Check, Resume, Dispatch, AgentAccepts, StopForUser, StopForCeiling
<1>7. ASSUME NEW d \in Tickets,
             \/ Refuse(d) \/ OverBudget(d) \/ AlreadyConsumed(d) \/ Uncertain(d)
             \/ YieldEarly(d) \/ AgentRefuses(d) \/ CallLost(d) \/ Ended(d)
             \/ Unconfirmed(d) \/ StatusLost(d) \/ Interrupted(d)
      PROVE  Leave(d)
  BY <1>7 DEF Refuse, OverBudget, AlreadyConsumed, Uncertain, YieldEarly,
     AgentRefuses, CallLost, Ended, Unconfirmed, StatusLost, Interrupted
<1>8. ASSUME NEW u \in Users, UserStep(u) PROVE Goal
  <2>1. u \in Requests
    BY DEF Requests
  <2> QED
    BY <1>1, <1>8, <2>1
       DEF UserStep, RunStarts, TaskLooks, TaskEnds, TaskAborts, RunEnds
<1>9. ASSUME NEW j \in Jobs, JobEnds(j) \/ StopCancels(j) \/ StopSettles(j)
      PROVE  UNCHANGED admission
  BY <1>9 DEF JobEnds, StopCancels, StopSettles
<1>10. ASSUME NEW j \in Jobs, Reconcile(j) PROVE UNCHANGED admission
  BY <1>10 DEF Reconcile
<1>11. CASE \/ ScanBegins \/ ScanReads
            \/ Stop \/ StopConfirms \/ StopEnds \/ ResumeMaintenance \/ UNCHANGED vars
  BY <1>11
     DEF ScanBegins, ScanReads, Stop, StopConfirms, StopEnds, ResumeMaintenance, vars
<1>12. CASE Restarted
  BY <1>12 DEF Restarted, Admission!Next
<1>13. CASE \/ \E d \in Tickets : CrashReserving(d)
            \/ \E j \in Jobs : CrashSettling(j)
  BY <1>12, <1>13 DEF CrashReserving, CrashSettling
<1> QED
  BY <1>3, <1>4, <1>5, <1>6, <1>7, <1>8, <1>9, <1>10, <1>11, <1>12, <1>13
     DEF Next, TicketStep, TicketFault, StopStep, Crash

(* The tickets, the users and the crashes use the admission as it is       *)
(* specified: what is proved of it holds for them.                         *)
THEOREM ActionsImplementAdmission == Spec => Admission!Spec
<1>1. Init => Admission!Init
  BY DEF Init
<1>2. TicketsInv /\ [Next]_vars => [Admission!Next]_(Admission!admission)
  BY AdmissionStep DEF admission, Admission!admission
<1> QED
  BY <1>1, <1>2, TicketsCorrect, PTL DEF Spec, Admission!Spec

-----------------------------------------------------------------------------
(* The lemmas of the admission, under the names it has here.               *)
LEMMA AdmissionKeepsType ==
    Admission!TypeOK /\ [Admission!Next]_(Admission!admission) => Admission!TypeOK'
BY AdmissionFacts!NextKeepsType
   DEF Admission!TypeOK, AdmissionFacts!TypeOK,
       Admission!Next, AdmissionFacts!Next,
       Admission!admission, AdmissionFacts!admission,
       Admission!Holding, AdmissionFacts!Holding,
       Admission!Waiting, AdmissionFacts!Waiting,
       Admission!Conflict, AdmissionFacts!Conflict,
       Admission!Blockers, AdmissionFacts!Blockers,
       Admission!Priority, AdmissionFacts!Priority,
       Admission!Look, AdmissionFacts!Look,
       Admission!Withdraw, AdmissionFacts!Withdraw,
       Admission!Release, AdmissionFacts!Release,
       Admission!Forget, AdmissionFacts!Forget

(* Holders stay apart.                                                     *)
LEMMA AdmissionKeepsApart ==
    /\ Admission!TypeOK
    /\ Admission!AdmittedApart
    /\ [Admission!Next]_(Admission!admission)
    => Admission!AdmittedApart'
BY AdmissionFacts!NextKeepsApart
   DEF Admission!TypeOK, AdmissionFacts!TypeOK,
       Admission!AdmittedApart, AdmissionFacts!AdmittedApart,
       Admission!Next, AdmissionFacts!Next,
       Admission!admission, AdmissionFacts!admission,
       Admission!Holding, AdmissionFacts!Holding,
       Admission!Waiting, AdmissionFacts!Waiting,
       Admission!Conflict, AdmissionFacts!Conflict,
       Admission!Blockers, AdmissionFacts!Blockers,
       Admission!Priority, AdmissionFacts!Priority,
       Admission!Look, AdmissionFacts!Look,
       Admission!Withdraw, AdmissionFacts!Withdraw,
       Admission!Release, AdmissionFacts!Release,
       Admission!Forget, AdmissionFacts!Forget

(* A waiting user is not passed.                                           *)
LEMMA AdmissionServesUsers ==
    Admission!TypeOK /\ Admission!Next =>
      \A r \in Requests \cap (Tickets \X Scoped) :
         place[r] # "holding" /\ place'[r] = "holding"
            => \A u \in Admission!Waiting \ (Tickets \X Scoped) :
                  ~Admission!Conflict(u, r)
BY AdmissionFacts!NextUserFirst
   DEF Admission!TypeOK, AdmissionFacts!TypeOK,
       Admission!Next, AdmissionFacts!Next,
       Admission!Holding, AdmissionFacts!Holding,
       Admission!Waiting, AdmissionFacts!Waiting,
       Admission!Conflict, AdmissionFacts!Conflict,
       Admission!Blockers, AdmissionFacts!Blockers,
       Admission!Priority, AdmissionFacts!Priority,
       Admission!Look, AdmissionFacts!Look,
       Admission!Withdraw, AdmissionFacts!Withdraw,
       Admission!Release, AdmissionFacts!Release,
       Admission!Forget, AdmissionFacts!Forget

(* The admission keeps its type.                                           *)
THEOREM AdmissionTyped == Spec => []Admission!TypeOK
<1>1. Admission!Init => Admission!TypeOK
  BY DEF Admission!Init, Admission!TypeOK
<1> QED
  BY <1>1, AdmissionKeepsType, ActionsImplementAdmission, PTL DEF Admission!Spec

(* Maintenance is never admitted beside what it conflicts with, through    *)
(* yields, Stops, interrupted tickets and crashes.                         *)
THEOREM AdmissionsStayApart == Spec => []AdmittedApart
<1>1. Admission!Init => Admission!AdmittedApart
  BY DEF Admission!Init, Admission!AdmittedApart, Admission!Holding
<1>2. Spec => []Admission!AdmittedApart
  BY <1>1, AdmissionKeepsApart, AdmissionTyped, ActionsImplementAdmission, PTL
     DEF Admission!Spec
<1>3. Admission!AdmittedApart => AdmittedApart
  BY DEF AdmittedApart
<1> QED
  BY <1>2, <1>3, PTL

(* No ticket is admitted past a waiting task of the user it conflicts with. *)
THEOREM UsersGoFirst == Spec => UserGoesFirst
<1>1. Admission!TypeOK /\ [Admission!Next]_(Admission!admission) =>
        [\A r \in Requests \cap (Tickets \X Scoped) :
           place[r] # "holding" /\ place'[r] = "holding"
             => \A u \in Admission!Waiting \ (Tickets \X Scoped) :
                   ~Admission!Conflict(u, r)]_(Admission!admission)
  BY AdmissionServesUsers
<1> QED
  BY <1>1, AdmissionTyped, ActionsImplementAdmission, PTL
     DEF Admission!Spec, UserGoesFirst, Admission!UserGoesFirst
=============================================================================
