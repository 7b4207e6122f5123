----------------------- MODULE MaintenanceJobsProofs -----------------------
(***************************************************************************)
(* Theorems about the work of maintenance: what a ticket at work holds,    *)
(* and what the row of a job that runs says.                               *)
(*                                                                         *)
(* A ticket past its wait holds the admission (CoverInv), so two tickets   *)
(* of one scoped candidate are never at work together; the row of a ticket *)
(* at work stays in force, or it was overtaken by a walk that decided by   *)
(* an old copy (WorkInv); a consumed row's job has ended (EffectInv); and  *)
(* the attempts of a candidate none of which was overtaken follow one      *)
(* another (SeriesInv), so that one job of it runs at most.                *)
(***************************************************************************)
EXTENDS MaintenanceActionsProofs, FunctionTheorems

(* What the admission gives a ticket that is past its wait. *)
CoverInv ==
    \A d \in Tickets :
       ticket[d] \notin {"idle", "admitting"} /\ TakesAdmission(d)
          => place[Request(d)] = "holding"

(* A request of the admission moves, or all are forgotten; the others stay. *)
LEMMA OthersStay ==
    ASSUME Admission!TypeOK, NEW r \in Requests,
           Admission!Look(r) \/ Admission!Withdraw(r) \/ Admission!Release(r)
    PROVE  \A s \in Requests \ {r} : place'[s] = place[s]
BY DEF Admission!TypeOK, Admission!Look, Admission!Withdraw, Admission!Release

(* Two tickets, or a ticket and a run of the user, never make one request. *)
LEMMA RequestsDiffer ==
    ASSUME TicketsInv, NEW d \in Tickets, ticket[d] # "idle", TakesAdmission(d)
    PROVE  /\ Request(d) \in Requests
           /\ Request(d) \in Tickets \X Scoped
           /\ Request(d) \notin Users
           /\ \A e \in Tickets \ {d} : Request(e) # Request(d)
<1>1. key[d] \in Keys /\ key[d][1] \in Candidates
  BY DEF TicketsInv, Keys
<1> QED
  BY <1>1, ActionsAssumption DEF TakesAdmission, Request, Requests

(* A step of another ticket, or of a user, leaves what a ticket holds.     *)
LEMMA CoverFrame ==
    ASSUME TicketsInv, Admission!TypeOK, CoverInv, NEW d \in Tickets,
           ticket'[d] = ticket[d], key'[d] = key[d],
           \/ UNCHANGED admission
           \/ \E r \in Requests : /\ r \in Users \/ \E e \in Tickets \ {d}, c \in Candidates : r = <<e, c>>
                                  /\ Admission!Look(r) \/ Admission!Withdraw(r) \/ Admission!Release(r),
           ticket'[d] \notin {"idle", "admitting"}, TakesAdmission(d)'
    PROVE  place'[Request(d)'] = "holding"
<1>1. /\ place[Request(d)] = "holding"
      /\ Request(d)' = Request(d)
      /\ TakesAdmission(d)
  BY DEF CoverInv, TakesAdmission, Request
<1>2. CASE UNCHANGED admission
  BY <1>1, <1>2 DEF admission
<1>3. ASSUME NEW r \in Requests,
             r \in Users \/ \E e \in Tickets \ {d}, c \in Candidates : r = <<e, c>>,
             Admission!Look(r) \/ Admission!Withdraw(r) \/ Admission!Release(r)
      PROVE  place'[Request(d)'] = "holding"
  <2>1. Request(d) # r /\ Request(d) \in Requests
    BY <1>1, <1>3, RequestsDiffer DEF Request
  <2> QED
    BY <1>1, <1>3, <2>1, OthersStay
<1> QED
  BY <1>2, <1>3

(* The step of a ticket leaves the other tickets alone, and takes at most  *)
(* a step of the ticket's own requests.                                    *)
Elsewhere(d) ==
    \/ UNCHANGED admission
    \/ \E c \in Candidates :
          /\ <<d, c>> \in Requests
          /\ \/ Admission!Look(<<d, c>>)
             \/ Admission!Withdraw(<<d, c>>)
             \/ Admission!Release(<<d, c>>)

Leaves(d) ==
    \/ Refuse(d) \/ OverBudget(d) \/ AlreadyConsumed(d) \/ Uncertain(d)
    \/ YieldEarly(d) \/ AgentRefuses(d) \/ CallLost(d) \/ Ended(d)
    \/ Unconfirmed(d) \/ StatusLost(d) \/ Interrupted(d)

Works(d) ==
    \/ Check(d) \/ Resume(d) \/ Dispatch(d) \/ AgentAccepts(d) \/ StopForUser(d)
    \/ StopForCeiling(d)

Waits(d) == Start(d) \/ LookAgain(d) \/ GiveUpWaiting(d)

(* The steps of the tickets, by what becomes of the ticket.                *)
LEMMA StepsOfTickets ==
    ASSUME NEW d \in Tickets, TicketStep(d) \/ TicketFault(d)
    PROVE  Leaves(d) \/ Works(d) \/ Waits(d) \/ CrashReserving(d)
BY DEF TicketStep, TicketFault, Leaves, Works, Waits

(* The finally of runCandidate.                                            *)
LEMMA LeavesIdle ==
    ASSUME TicketsInv, NEW d \in Tickets, Leaves(d)
    PROVE  Leave(d) /\ ticket'[d] = "idle" /\ ticket[d] # "idle"
<1>1. Leave(d) /\ ticket[d] # "idle"
  BY DEF Leaves, Refuse, OverBudget, AlreadyConsumed, Uncertain,
     YieldEarly, AgentRefuses, CallLost, Ended, Unconfirmed, StatusLost,
     Interrupted, Current, Following
<1> QED
  BY <1>1 DEF Leave, TicketsInv, TicketsTypeOK

(* A ticket that goes on has its admission and its attempt.                *)
LEMMA WorksOn ==
    ASSUME TicketsInv, NEW d \in Tickets, Works(d)
    PROVE  /\ ticket[d] \notin {"idle", "admitting"}
           /\ ticket' = [ticket EXCEPT ![d] = ticket'[d]]
           /\ followed' = [followed EXCEPT ![d] = followed'[d]]
           /\ UNCHANGED <<key, admission, closed, walkVars, run>>
BY DEF Works, Check, Resume, Dispatch, AgentAccepts, StopForUser, StopForCeiling,
   Current, Following, TicketsInv, TicketsTypeOK, rowVars

(* One ticket moves at a time.                                             *)
LEMMA OneTicketMoves ==
    ASSUME TicketsInv, NEW d \in Tickets, Leaves(d) \/ Works(d) \/ Waits(d)
    PROVE  /\ \A e \in Tickets \ {d} : /\ ticket'[e] = ticket[e] /\ key'[e] = key[e]
                                       /\ followed'[e] = followed[e]
           /\ Elsewhere(d)
<1> USE DEF TicketsInv, TicketsTypeOK
<1>1. CASE Leaves(d)
  <2>1. Leave(d) /\ ticket[d] # "idle"
    BY <1>1, LeavesIdle
  <2>2. TakesAdmission(d) => key[d][1] \in Candidates /\ Request(d) \in Requests
    BY <2>1, RequestsDiffer DEF Keys
  <2> QED
    BY <2>1, <2>2 DEF Leave, Elsewhere, Request
<1>2. CASE Works(d)
  BY <1>2, WorksOn DEF Elsewhere, admission
<1>3. CASE Start(d)
  <2>1. PICK c \in Candidates :
          /\ UNCHANGED followed
          /\ \E k \in NextKeys(c) : key' = [key EXCEPT ![d] = k]
          /\ IF c \in Scoped
             THEN /\ Admission!Look(<<d, c>>)
                  /\ ticket' = [ticket EXCEPT ![d] = IF place'[<<d, c>>] = "holding"
                                                     THEN "admitted" ELSE "admitting"]
             ELSE ticket' = [ticket EXCEPT ![d] = "admitted"] /\ UNCHANGED admission
    BY <1>3 DEF Start
  <2>2. c \in Scoped => <<d, c>> \in Requests
    BY DEF Requests
  <2> QED
    BY <2>1, <2>2 DEF Elsewhere
<1>4. CASE LookAgain(d) \/ GiveUpWaiting(d)
  <2>1. key[d][1] \in Candidates /\ Request(d) \in Requests
    BY <1>4, RequestsDiffer DEF LookAgain, GiveUpWaiting, Keys
  <2> QED
    BY <1>4, <2>1 DEF LookAgain, GiveUpWaiting, Elsewhere, Request
<1> QED
  BY <1>1, <1>2, <1>3, <1>4 DEF Waits

(* The steps of the rest of the service leave the tickets alone.           *)
Around ==
    \/ ScanBegins \/ ScanReads
    \/ \E j \in Jobs : JobEnds(j) \/ Reconcile(j) \/ StopCancels(j) \/ StopSettles(j)
    \/ Stop \/ StopConfirms \/ StopEnds \/ ResumeMaintenance
    \/ \E u \in Users : UserStep(u)
    \/ UNCHANGED vars

LEMMA AroundTickets ==
    Around => /\ UNCHANGED ticketVars
              /\ \/ UNCHANGED admission
                 \/ \E u \in Users : Admission!Look(u) \/ Admission!Withdraw(u)
                                     \/ Admission!Release(u)
<1>1. ASSUME NEW u \in Users, UserStep(u)
      PROVE  /\ UNCHANGED ticketVars
             /\ UNCHANGED admission \/ Admission!Look(u) \/ Admission!Withdraw(u)
                \/ Admission!Release(u)
  BY <1>1 DEF UserStep, RunStarts, TaskLooks, TaskEnds, TaskAborts, RunEnds
<1>2. ASSUME NEW j \in Jobs,
             JobEnds(j) \/ Reconcile(j) \/ StopCancels(j) \/ StopSettles(j)
      PROVE  UNCHANGED <<ticketVars, admission>>
  BY <1>2 DEF JobEnds, Reconcile, StopCancels, StopSettles
<1>3. ASSUME \/ ScanBegins \/ ScanReads
             \/ Stop \/ StopConfirms \/ StopEnds \/ ResumeMaintenance \/ UNCHANGED vars
      PROVE  UNCHANGED <<ticketVars, admission>>
  BY <1>3 DEF ScanBegins, ScanReads, Stop, StopConfirms, StopEnds,
     ResumeMaintenance, vars
<1> QED
  BY <1>1, <1>2, <1>3 DEF Around

(* The process dies between two writes.                                    *)
Torn == \/ \E d \in Tickets : CrashReserving(d)
        \/ \E j \in Jobs : CrashSettling(j)

(* Every step is of a ticket, around the tickets, or a restart.            *)
LEMMA StepKinds ==
    ASSUME [Next]_vars
    PROVE  \/ \E d \in Tickets : Leaves(d) \/ Works(d) \/ Waits(d)
           \/ Torn
           \/ Crash
           \/ Around
BY StepsOfTickets DEF Next, StopStep, Around, Torn

(* Every step keeps it: the admission is left when the work is.            *)
LEMMA CoverKept ==
    TicketsInv /\ Admission!TypeOK /\ CoverInv /\ [Next]_vars => CoverInv'
<1> SUFFICES ASSUME TicketsInv, Admission!TypeOK, CoverInv, [Next]_vars,
                    NEW d \in Tickets, ticket'[d] \notin {"idle", "admitting"},
                    TakesAdmission(d)'
             PROVE  place'[Request(d)'] = "holding"
  BY DEF CoverInv
<1> DEFINE Goal == place'[Request(d)'] = "holding"
<1>1. ASSUME NEW e \in Tickets, Leaves(e) \/ Works(e) \/ Waits(e), e # d
      PROVE  Goal
  <2>1. ticket'[d] = ticket[d] /\ key'[d] = key[d] /\ Elsewhere(e)
    BY <1>1, OneTicketMoves
  <2> QED
    BY <1>1, <2>1, CoverFrame DEF Elsewhere
<1>2. CASE Leaves(d)
  BY <1>2, LeavesIdle
<1>3. CASE Works(d)
  BY <1>3, WorksOn DEF CoverInv, TakesAdmission, Request, admission
<1>4. CASE Start(d)
  <2>1. PICK c \in Candidates :
          /\ \E k \in NextKeys(c) : key' = [key EXCEPT ![d] = k]
          /\ c \in Scoped =>
               ticket' = [ticket EXCEPT ![d] = IF place'[<<d, c>>] = "holding"
                                               THEN "admitted" ELSE "admitting"]
    BY <1>4 DEF Start
  <2>2. PICK k \in NextKeys(c) : key' = [key EXCEPT ![d] = k]
    BY <2>1
  <2>3. key'[d] = k /\ k[1] = c
    BY <2>2, NextKeysOf DEF TicketsInv, TicketsTypeOK
  <2> QED
    BY <2>1, <2>3 DEF TakesAdmission, Request, TicketsInv, TicketsTypeOK
<1>5. CASE LookAgain(d)
  BY <1>5 DEF LookAgain, Request, TicketsInv, TicketsTypeOK
<1>6. CASE GiveUpWaiting(d)
  BY <1>6 DEF GiveUpWaiting, TicketsInv, TicketsTypeOK
<1>7. CASE Around
  <2>1. ticket'[d] = ticket[d] /\ key'[d] = key[d]
    BY <1>7, AroundTickets DEF ticketVars
  <2>2. Users \subseteq Requests
    BY DEF Requests
  <2> QED
    BY <1>7, <2>1, <2>2, AroundTickets, CoverFrame
<1>8. CASE Crash \/ Torn
  BY <1>8 DEF Crash, Torn, CrashReserving, CrashSettling, Restarted
<1> QED
  BY <1>1, <1>2, <1>3, <1>4, <1>5, <1>6, <1>7, <1>8, StepKinds DEF Waits

(* The admission covers the work of the tickets.                           *)
THEOREM WorkIsCovered == Spec => []CoverInv
<1>1. Init => CoverInv
  BY DEF Init, CoverInv
<1> QED
  BY <1>1, CoverKept, TicketsCorrect, AdmissionTyped, PTL DEF Spec

(* Two tickets past the wait are not of one scoped candidate: its scopes    *)
(* meet themselves.                                                        *)
LEMMA Alone ==
    ASSUME TicketsInv, CoverInv, AdmittedApart,
           NEW d \in Tickets, NEW e \in Tickets,
           {ticket[d], ticket[e]} \cap {"idle", "admitting"} = {},
           key[d][1] = key[e][1], key[d][1] \in Scoped
    PROVE  d = e
<1> SUFFICES ASSUME d # e PROVE FALSE
  OBVIOUS
<1> DEFINE r == Request(d)
           t == Request(e)
<1>1. TakesAdmission(d) /\ TakesAdmission(e)
  BY DEF TakesAdmission
<1>2. /\ r \in Tickets \X Scoped /\ t \in Tickets \X Scoped
      /\ r \in Requests \ Users /\ t \in Requests \ Users /\ r # t
      /\ r[2] = t[2] /\ r[2] \in Scoped
  BY <1>1, RequestsDiffer DEF Request
<1>3. place[r] = "holding" /\ place[t] = "holding"
  BY <1>1 DEF CoverInv
<1> HIDE DEF r, t
<1>4. Admission!Conflict(r, t)
  BY <1>2, ActionsAssumption DEF Admission!Conflict
<1> QED
  BY <1>2, <1>3, <1>4 DEF AdmittedApart, Admission!AdmittedApart, Admission!Holding

(* The admission a ticket takes covers its work: no task of the user that  *)
(* conflicts with it, and no other ticket, is at work meanwhile.           *)
THEOREM WorkStaysApart == Spec => []WorkApart
<1>1. TicketsInv /\ CoverInv /\ AdmittedApart => WorkApart
  <2> SUFFICES ASSUME TicketsInv, CoverInv, AdmittedApart, NEW d \in Tickets,
                      ticket[d] \notin {"idle", "admitting"}, TakesAdmission(d)
               PROVE  /\ \A u \in Users : place[u] = "holding"
                            => ~Admission!Conflict(u, Request(d))
                      /\ \A e \in Tickets \ {d} :
                            ticket[e] \notin {"idle", "admitting"} /\ TakesAdmission(e)
                              => ~Admission!Conflict(Request(d), Request(e))
    BY DEF WorkApart
  <2>1. /\ Request(d) \in Requests /\ Request(d) \in Tickets \X Scoped
        /\ place[Request(d)] = "holding" /\ Request(d) \notin Users
    BY RequestsDiffer DEF CoverInv
  <2>2. ASSUME NEW u \in Users, place[u] = "holding"
        PROVE  ~Admission!Conflict(u, Request(d))
    <3>1. u \in Requests
      BY DEF Requests
    <3> QED
      BY <2>1, <2>2, <3>1 DEF AdmittedApart, Admission!AdmittedApart, Admission!Holding
  <2>3. ASSUME NEW e \in Tickets \ {d}, ticket[e] \notin {"idle", "admitting"},
               TakesAdmission(e)
        PROVE  ~Admission!Conflict(Request(d), Request(e))
    <3>1. Request(e) \in Requests /\ place[Request(e)] = "holding" /\ Request(e) # Request(d)
      BY <2>3, RequestsDiffer DEF CoverInv
    <3> QED
      BY <2>1, <3>1 DEF AdmittedApart, Admission!AdmittedApart, Admission!Holding
  <2> QED
    BY <2>2, <2>3
<1> QED
  BY <1>1, TicketsCorrect, WorkIsCovered, AdmissionsStayApart, PTL

-----------------------------------------------------------------------------
(* What a step does to a row.                                              *)

LEMMA SettledKeeps ==
    ASSUME NEW r \in Rows, NEW s \in {"consumed", "released"}
    PROVE  /\ Settled(r, s).job = r.job
           /\ Settled(r, s).dispatched = r.dispatched
           /\ Settled(r, s).outcome = r.outcome
           /\ Settled(r, s).status = IF r.status = "reserved" THEN s ELSE r.status
BY DEF Settled, Rows

LEMMA CompletedKeeps ==
    ASSUME NEW r \in Rows, NEW o \in {"done", "failed", "cancelled"}
    PROVE  /\ Completed(r, o).job = r.job
           /\ Completed(r, o).dispatched = r.dispatched
           /\ Completed(r, o).outcome = IF r.status = "reserved" THEN o ELSE r.outcome
           /\ Completed(r, o).status = IF r.status = "reserved" THEN "consumed" ELSE r.status
BY DEF Completed, Rows

LEMMA StampedKeeps ==
    ASSUME NEW r \in Rows, NEW o \in {"failed", "cancelled"},
           NEW s \in {"consumed", "released"}
    PROVE  /\ Settled([r EXCEPT !.outcome = o], s).job = r.job
           /\ Settled([r EXCEPT !.outcome = o], s).dispatched = r.dispatched
           /\ Settled([r EXCEPT !.outcome = o], s).outcome = o
           /\ Settled([r EXCEPT !.outcome = o], s).status =
                 IF r.status = "reserved" THEN s ELSE r.status
BY DEF Settled, Rows

(* The receipt and the mark of the dispatch stay. *)
SameEffect(k) ==
    row'[k].job = row[k].job /\ row'[k].dispatched = row[k].dispatched

(* A job of k has ended, and a ticket or a walk has it in its hands.       *)
KnownEnded(k) ==
    \/ \E d \in Tickets : Following(d) /\ key[d] = k /\ Followed(d) \in Terminal
    \/ \E j \in Jobs \cap (scanned \union stopping) : j[1] = k /\ job[j] \in Terminal

Kept(k) ==
    /\ SameEffect(k)
    /\ \/ row'[k].status = row[k].status
       \/ /\ row[k].status = "reserved" /\ row'[k].status = "consumed"
          /\ KnownEnded(k)

Dropped(k) ==
    /\ SameEffect(k)
    /\ row[k].status = "reserved" /\ row'[k].status = "released"

(* A walk leaves a row, or gives a reserved one back.                      *)
LEMMA GivenBackRow ==
    ASSUME NEW rows \in [Keys -> Rows], NEW now, row' = GivenBack(rows, now),
           NEW k \in Keys
    PROVE  \/ row'[k] = rows[k]
           \/ /\ k \in now /\ rows[k].status = "reserved"
              /\ row'[k] = Settled(rows[k], "released")
BY DEF GivenBack, Settled

(* Given back while reserved: an attempt dispatched since then is noted.   *)
LEMMA GivenBackNoted ==
    ASSUME NEW now, NEW k \in now, row[k].status = "reserved", row[k].dispatched,
           overtaken' = Overtaken(now)
    PROVE  k \in overtaken'
BY DEF Overtaken

(* What a step of a walk does to each row: it leaves it, completes it, or  *)
(* gives it back.                                                          *)
GaveBack(k) ==
    /\ row[k].status = "reserved"
    /\ row'[k] = Settled(row[k], "released")
    /\ row[k].dispatched => k \in overtaken'

LEMMA ReadsMove ==
    ASSUME RowsTyped, ScanReads \/ StopConfirms, NEW k \in Keys
    PROVE  row'[k] = row[k] \/ GaveBack(k)
<1>1. PICK now \in SUBSET UnsentRows : row' = GivenBack(row, now)
  BY DEF ScanReads, StopConfirms
<1>2. \A x \in now : ~row[x].dispatched
  BY DEF UnsentRows, Unsent
<1> QED
  BY <1>1, <1>2, GivenBackRow DEF RowsTyped, GaveBack

LEMMA ReconcileMoves ==
    ASSUME RowsTyped, NEW j \in Jobs, Reconcile(j), NEW k \in Keys
    PROVE  \/ row'[k] = row[k]
           \/ GaveBack(k)
           \/ /\ j[1] = k /\ j \in scanned /\ job[j] \in Terminal
              /\ row'[k] = Completed(row[k], job[j])
<1> DEFINE done == [row EXCEPT ![j[1]] = Completed(row[j[1]], job[j])]
<1>1. PICK now : /\ overtaken' = Overtaken(now)
                 /\ \/ job[j] \in Terminal /\ row' = GivenBack(done, now)
                    \/ row' = GivenBack(row, now)
  BY DEF Reconcile, RowsTyped
<1>2. CASE row' = GivenBack(row, now)
  <2>1. \/ row'[k] = row[k]
        \/ /\ k \in now /\ row[k].status = "reserved"
           /\ row'[k] = Settled(row[k], "released")
    BY <1>2, GivenBackRow DEF RowsTyped
  <2> QED
    BY <1>1, <2>1, GivenBackNoted DEF GaveBack
<1>3. CASE job[j] \in Terminal /\ row' = GivenBack(done, now)
  <2>1. /\ done \in [Keys -> Rows]
        /\ k # j[1] => done[k] = row[k]
        /\ k = j[1] => done[k] = Completed(row[k], job[j]) /\ done[k].status # "reserved"
    <3>1. job[j] \in {"done", "failed", "cancelled"} /\ j[1] \in Keys
      BY <1>3 DEF Terminal, Jobs
    <3>2. row[j[1]] \in Rows /\ Completed(row[j[1]], job[j]) \in Rows
      BY <3>1, CompletedTyped DEF RowsTyped
    <3>3. Completed(row[j[1]], job[j]).status # "reserved"
      BY <3>1, <3>2, CompletedKeeps
    <3> QED
      BY <3>1, <3>2, <3>3 DEF RowsTyped
  <2>2. j \in scanned
    BY DEF Reconcile, JobsLeft
  <2> HIDE DEF done
  <2>3. \/ row'[k] = done[k]
        \/ /\ k \in now /\ done[k].status = "reserved"
           /\ row'[k] = Settled(done[k], "released")
    BY <1>3, <2>1, GivenBackRow
  <2> QED
    BY <1>1, <1>3, <2>1, <2>2, <2>3, GivenBackNoted DEF GaveBack
<1> QED
  BY <1>1, <1>2, <1>3

LEMMA StopMoves ==
    ASSUME RowsTyped, NEW j \in Jobs, StopSettles(j), NEW k \in Keys
    PROVE  \/ row'[k] = row[k]
           \/ GaveBack(k)
           \/ /\ j[1] = k /\ j \in stopping /\ job[j] \in Terminal
              /\ row'[k] = Settled([row[k] EXCEPT !.outcome = "cancelled"], "consumed")
<1> DEFINE t == Settled([row[j[1]] EXCEPT !.outcome = "cancelled"], "consumed")
           done == [row EXCEPT ![j[1]] = t]
<1>1. PICK now : overtaken' = Overtaken(now) /\ row' = GivenBack(done, now)
  BY DEF StopSettles, RowsTyped
<1>2. /\ done \in [Keys -> Rows]
      /\ k # j[1] => done[k] = row[k]
      /\ k = j[1] => done[k] = t /\ done[k].status # "reserved"
  <2>1. j[1] \in Keys /\ row[j[1]] \in Rows
    BY DEF Jobs, RowsTyped
  <2> DEFINE o == [row[j[1]] EXCEPT !.outcome = "cancelled"]
  <2>2. o \in Rows
    BY <2>1, OutcomeTyped
  <2>3. t = Settled(o, "consumed")
    OBVIOUS
  <2> HIDE DEF o
  <2>4. Settled(o, "consumed") \in Rows
    BY <2>2, SettledTyped
  <2>5. Settled(o, "consumed").status # "reserved"
    BY <2>2, SettledKeeps
  <2> HIDE DEF t
  <2> QED
    BY <2>1, <2>3, <2>4, <2>5 DEF RowsTyped
<1>3. j \in stopping /\ job[j] \in Terminal
  BY DEF StopSettles, StopSees, JobsLeft
<1>4. k = j[1] => t = Settled([row[k] EXCEPT !.outcome = "cancelled"], "consumed")
  OBVIOUS
<1> HIDE DEF done, t
<1>5. \/ row'[k] = done[k]
      \/ /\ k \in now /\ done[k].status = "reserved"
         /\ row'[k] = Settled(done[k], "released")
  BY <1>1, <1>2, GivenBackRow
<1> QED
  BY <1>1, <1>2, <1>3, <1>4, <1>5, GivenBackNoted DEF GaveBack

LEMMA RestKeepsRows ==
    ASSUME \/ \E j \in Jobs : JobEnds(j) \/ StopCancels(j)
           \/ ScanBegins \/ Stop \/ StopEnds \/ ResumeMaintenance
           \/ \E u \in Users : UserStep(u)
           \/ UNCHANGED vars
    PROVE  UNCHANGED row
BY DEF JobEnds, StopCancels, ScanBegins, Stop, StopEnds, ResumeMaintenance, vars,
   UserStep, RunStarts, TaskLooks, TaskEnds, TaskAborts, RunEnds, rowVars

(* A scan or a Stop drops a row only when nothing was dispatched for it,   *)
(* or it notes the attempt as overtaken.                                   *)
LEMMA RowsAround ==
    ASSUME RowsTyped, Around, NEW k \in Keys
    PROVE  Kept(k) \/ (Dropped(k) /\ (row[k].dispatched => k \in overtaken'))
<1> DEFINE Goal == Kept(k) \/ (Dropped(k) /\ (row[k].dispatched => k \in overtaken'))
<1>1. row[k] \in Rows
  BY DEF RowsTyped
<1>2. CASE row'[k] = row[k]
  BY <1>2 DEF Kept, SameEffect
<1>3. CASE GaveBack(k)
  BY <1>1, <1>3, SettledKeeps DEF GaveBack, Dropped, SameEffect
<1>4. CASE ScanReads \/ StopConfirms
  BY <1>2, <1>3, <1>4, ReadsMove
<1>5. ASSUME NEW j \in Jobs, Reconcile(j) PROVE Goal
  <2>1. CASE /\ j[1] = k /\ j \in scanned /\ job[j] \in Terminal
             /\ row'[k] = Completed(row[k], job[j])
    <3>1. job[j] \in {"done", "failed", "cancelled"} /\ KnownEnded(k)
      BY <2>1 DEF Terminal, KnownEnded
    <3> QED
      BY <1>1, <2>1, <3>1, CompletedKeeps DEF Kept, SameEffect
  <2> QED
    BY <1>2, <1>3, <1>5, <2>1, ReconcileMoves
<1>6. ASSUME NEW j \in Jobs, StopSettles(j) PROVE Goal
  <2>1. CASE /\ j[1] = k /\ j \in stopping /\ job[j] \in Terminal
             /\ row'[k] = Settled([row[k] EXCEPT !.outcome = "cancelled"], "consumed")
    <3> DEFINE t == Settled([row[k] EXCEPT !.outcome = "cancelled"], "consumed")
    <3>1. /\ t.job = row[k].job /\ t.dispatched = row[k].dispatched
          /\ t.status = IF row[k].status = "reserved" THEN "consumed" ELSE row[k].status
      BY <1>1, StampedKeeps
    <3>2. row'[k] = t /\ KnownEnded(k)
      BY <2>1 DEF KnownEnded
    <3> HIDE DEF t
    <3> QED
      BY <3>1, <3>2 DEF Kept, SameEffect
  <2> QED
    BY <1>2, <1>3, <1>6, <2>1, StopMoves
<1> QED
  BY <1>2, <1>4, <1>5, <1>6, RestKeepsRows DEF Around

(* A process that dies between the outcome and the settlement.             *)
LEMMA TornOutcome ==
    ASSUME RowsTyped, NEW j \in Jobs, CrashSettling(j), NEW k \in Keys
    PROVE  /\ SameEffect(k) /\ row'[k].status = row[k].status
           /\ k # j[1] => row'[k] = row[k]
<1>1. PICK how \in Terminal : row' = [row EXCEPT ![j[1]].outcome = how]
  BY DEF CrashSettling
<1> QED
  BY <1>1 DEF RowsTyped, Rows, SameEffect

(* A call of runCandidate touches the row of its own attempt.              *)
LEMMA RowsElsewhere ==
    ASSUME RowsTyped, NEW d \in Tickets, Leaves(d) \/ Works(d) \/ Waits(d),
           NEW k \in Keys, k # key[d]
    PROVE  row'[k] = row[k]
BY DEF RowsTyped, Leaves, Refuse, OverBudget, AlreadyConsumed, Uncertain,
   YieldEarly, AgentRefuses, CallLost, Ended, Unconfirmed, StatusLost,
   Interrupted, Works, Check, Resume, Dispatch, AgentAccepts, StopForUser,
   StopForCeiling, Waits, Start, LookAgain, GiveUpWaiting, rowVars

(* A call that ends gives the unit back when the candidate is not offered  *)
(* any more, when it holds the admission, or before its dispatch.          *)
LEMMA RowsLeft ==
    ASSUME RowsTyped, TicketsInv, NEW d \in Tickets, Leaves(d)
    PROVE  \/ Kept(key[d])
           \/ (Dropped(key[d]) /\ (key[d][1] \in closed' \/ TakesAdmission(d)))
           \/ YieldEarly(d)
<1> DEFINE k == key[d]
           Goal == \/ Kept(k)
                   \/ (Dropped(k) /\ (k[1] \in closed' \/ TakesAdmission(d)))
                   \/ YieldEarly(d)
<1>1. k \in Keys /\ row[k] \in Rows
  BY LeavesIdle DEF RowsTyped, TicketsInv
<1>2. CASE UNCHANGED row
  BY <1>2 DEF Kept, SameEffect
<1>3. CASE Uncertain(d) \/ AgentRefuses(d)
  <2>1. k[1] \in closed' /\ row'[k] = Settled(row[k], "released")
    BY <1>1, <1>3 DEF Uncertain, AgentRefuses, RowsTyped
  <2> QED
    BY <1>1, <2>1, SettledKeeps DEF Kept, Dropped, SameEffect
<1>4. CASE Ended(d)
  <2>1. /\ Followed(d) \in {"done", "failed", "cancelled"} /\ Following(d)
        /\ KnownEnded(k)
    BY <1>4 DEF Ended, Terminal, KnownEnded
  <2>2. \/ Yields(d) /\ row'[k] = Settled([row[k] EXCEPT !.outcome = "cancelled"], "released")
        \/ row'[k] = Settled([row[k] EXCEPT !.outcome = "failed"], "consumed")
        \/ row'[k] = Completed(row[k], Followed(d))
    BY <1>1, <1>4 DEF Ended, ForUser, RowsTyped
  <2>3. CASE Yields(d) /\ row'[k] = Settled([row[k] EXCEPT !.outcome = "cancelled"], "released")
    <3> DEFINE t == Settled([row[k] EXCEPT !.outcome = "cancelled"], "released")
    <3>1. /\ t.job = row[k].job /\ t.dispatched = row[k].dispatched
          /\ t.status = IF row[k].status = "reserved" THEN "released" ELSE row[k].status
      BY <1>1, StampedKeeps
    <3>2. row'[k] = t /\ TakesAdmission(d)
      BY <2>3 DEF Yields
    <3> HIDE DEF t
    <3> QED
      BY <3>1, <3>2 DEF Kept, Dropped, SameEffect
  <2>4. CASE row'[k] = Settled([row[k] EXCEPT !.outcome = "failed"], "consumed")
    <3> DEFINE t == Settled([row[k] EXCEPT !.outcome = "failed"], "consumed")
    <3>1. /\ t.job = row[k].job /\ t.dispatched = row[k].dispatched
          /\ t.status = IF row[k].status = "reserved" THEN "consumed" ELSE row[k].status
      BY <1>1, StampedKeeps
    <3>2. row'[k] = t
      BY <2>4
    <3> HIDE DEF t
    <3> QED
      BY <2>1, <3>1, <3>2 DEF Kept, SameEffect
  <2>5. CASE row'[k] = Completed(row[k], Followed(d))
    BY <1>1, <2>1, <2>5, CompletedKeeps DEF Kept, SameEffect
  <2> QED
    BY <2>2, <2>3, <2>4, <2>5
<1>5. CASE \/ Refuse(d) \/ OverBudget(d) \/ AlreadyConsumed(d) \/ CallLost(d)
           \/ Unconfirmed(d) \/ StatusLost(d) \/ Interrupted(d)
  BY <1>2, <1>5 DEF Refuse, OverBudget, AlreadyConsumed, CallLost, Unconfirmed,
     StatusLost, Interrupted, rowVars
<1> QED
  BY <1>3, <1>4, <1>5 DEF Leaves

(* A call that goes on: the row it leaves is in force and dispatched.      *)
LEMMA RowsWorked ==
    ASSUME RowsTyped, TicketsInv, NEW d \in Tickets, Works(d)
    PROVE  \/ UNCHANGED row
           \/ /\ Dispatch(d)
              /\ row'[key[d]].dispatched
              /\ row'[key[d]].status = "reserved"
              /\ row'[key[d]].job = 0
              /\ HasRow(key[d]) => row[key[d]].status = "reserved" /\ row[key[d]].job = 0
           \/ /\ AgentAccepts(d)
              /\ row'[key[d]].dispatched = row[key[d]].dispatched
              /\ row'[key[d]].status = row[key[d]].status
              /\ row'[key[d]].job \in Answers(key[d])
<1> DEFINE k == key[d]
<1>1. k \in Keys /\ row[k] \in Rows
  BY WorksOn DEF RowsTyped, TicketsInv
<1>2. CASE Dispatch(d)
  <2>1. /\ row'[k] = [AfterReserve(k) EXCEPT !.dispatched = TRUE]
        /\ row[k].status # "consumed" /\ AfterReserve(k).job = 0
    BY <1>1, <1>2 DEF Dispatch, Dispatchable, RowsTyped
  <2>2. /\ AfterReserve(k) \in Rows /\ AfterReserve(k).status = "reserved"
        /\ HasRow(k) => AfterReserve(k) = row[k]
    BY <1>1, <2>1, NewRowTyped DEF AfterReserve, HasRow
  <2> QED
    BY <1>2, <2>1, <2>2 DEF Rows
<1>3. CASE AgentAccepts(d)
  <2>1. PICK i \in Answers(k) : UNCHANGED row \/ row' = [row EXCEPT ![k].job = i]
    BY <1>3 DEF AgentAccepts
  <2> QED
    BY <1>1, <1>3, <2>1 DEF RowsTyped, Rows
<1>4. CASE Check(d) \/ Resume(d) \/ StopForUser(d) \/ StopForCeiling(d)
  BY <1>4 DEF Check, Resume, StopForUser, StopForCeiling, rowVars
<1> QED
  BY <1>2, <1>3, <1>4 DEF Works

-----------------------------------------------------------------------------
(* A row with a job was dispatched.  The row of a ticket at work is in     *)
(* force, unless the agent refused another ticket for the same candidate,  *)
(* which is not offered since and takes no admission; or a walk gave it    *)
(* back by an old copy.                                                    *)
AtWork(d) == ticket[d] \in {"submitting", "accepted", "following"}

Backed(d) ==
    /\ key[d] \in Keys
    /\ row[key[d]].dispatched
    /\ Following(d) => /\ followed[d] \in 1 .. MaxJobs
                       /\ row[key[d]].job # 0 \/ key[d] \in overtaken
    /\ \/ row[key[d]].status \in {"reserved", "consumed"}
       \/ /\ row[key[d]].status = "released"
          /\ key[d][1] \in closed \ Scoped \/ key[d] \in overtaken

WorkInv ==
    /\ \A k \in Keys : row[k].job # 0 => row[k].dispatched
    /\ \A d \in Tickets : AtWork(d) => Backed(d)

(* What is closed stays so, and what was overtaken.                        *)
LEMMA ClosedGrows == [Next]_vars => closed \subseteq closed' /\ overtaken \subseteq overtaken'
<1> DEFINE Goal == closed \subseteq closed' /\ overtaken \subseteq overtaken'
<1> SUFFICES ASSUME [Next]_vars PROVE Goal
  OBVIOUS
<1>1. ASSUME NEW d \in Tickets, Leaves(d) \/ Works(d) \/ Waits(d)
      PROVE  Goal
  BY <1>1 DEF Leaves, Refuse, OverBudget, AlreadyConsumed, Uncertain,
     YieldEarly, AgentRefuses, CallLost, Ended, Unconfirmed, StatusLost,
     Interrupted, Works, Check, Resume, Dispatch, AgentAccepts, StopForUser,
     StopForCeiling, Waits, Start, LookAgain, GiveUpWaiting, rowVars, walkVars
<1>2. CASE Around
  BY <1>2 DEF Around, ScanBegins, ScanReads, JobEnds, StopCancels, StopSettles,
     Reconcile, Overtaken, Stop, StopConfirms, StopEnds, ResumeMaintenance,
     UserStep, RunStarts, TaskLooks, TaskEnds, TaskAborts, RunEnds, vars, rowVars,
     walkVars
<1> QED
  BY <1>1, <1>2, StepKinds DEF Torn, CrashReserving, CrashSettling, Crash, Restarted

(* A ticket whose step it is not stays backed while its row is kept, or    *)
(* dropped with its candidate closed or its attempt noted.                 *)
LEMMA BackedFrame ==
    ASSUME [Next]_vars, NEW d \in Tickets, AtWork(d), Backed(d),
           ticket'[d] = ticket[d], key'[d] = key[d], followed'[d] = followed[d],
           \/ Kept(key[d])
           \/ /\ Dropped(key[d])
              /\ key[d][1] \in closed' \ Scoped \/ key[d] \in overtaken'
    PROVE  Backed(d)'
BY ClosedGrows DEF Backed, Kept, Dropped, SameEffect, Following

(* The agent's answer is the number of a job.                              *)
LEMMA AnswersArePositive ==
    ASSUME NEW k, NEW i \in Answers(k) PROVE i \in 1 .. MaxJobs
BY ActionsAssumption DEF Answers

(* Every step keeps it.                                                    *)
LEMMA WorkKept ==
    /\ RowsTyped /\ TicketsInv /\ CoverInv /\ AdmittedApart /\ WorkInv
    /\ [Next]_vars
    => WorkInv'
<1> SUFFICES ASSUME RowsTyped, TicketsInv, CoverInv, AdmittedApart, WorkInv,
                    [Next]_vars
             PROVE  WorkInv'
  OBVIOUS
<1>1. ASSUME NEW e \in Tickets, Leaves(e) PROVE WorkInv'
  <2> DEFINE k == key[e]
  <2>1. /\ k \in Keys /\ row[k] \in Rows /\ ticket'[e] = "idle"
        /\ ticket[e] # "idle"
    BY <1>1, LeavesIdle DEF RowsTyped, TicketsInv
  <2>3. YieldEarly(e) => /\ row'[k].job = 0
                         /\ TakesAdmission(e)
                         /\ ticket[e] \notin {"idle", "admitting"}
    <3> SUFFICES ASSUME YieldEarly(e)
                 PROVE  row'[k].job = 0
      BY DEF YieldEarly, Yields, Current
    <3>1. /\ row'[k] = Settled(AfterReserve(k), "released")
          /\ row[k].status # "consumed" /\ AfterReserve(k).job = 0
      BY <2>1 DEF YieldEarly, Dispatchable, RowsTyped
    <3>2. AfterReserve(k) \in Rows
      BY <2>1, NewRowTyped DEF AfterReserve
    <3> QED
      BY <3>1, <3>2, SettledKeeps
  <2>4. \/ Kept(k)
        \/ (Dropped(k) /\ (k[1] \in closed' \/ TakesAdmission(e)))
        \/ YieldEarly(e)
    BY <1>1, RowsLeft
  <2>5. \A x \in Keys \ {k} : row'[x] = row[x]
    BY <1>1, RowsElsewhere
  <2>6. ASSUME NEW x \in Keys, row'[x].job # 0 PROVE row'[x].dispatched
    BY <2>3, <2>4, <2>5, <2>6 DEF WorkInv, Kept, Dropped, SameEffect
  <2>7. ASSUME NEW d \in Tickets, AtWork(d)' PROVE Backed(d)'
    <3>1. /\ d # e /\ ticket'[d] = ticket[d] /\ key'[d] = key[d]
          /\ followed'[d] = followed[d]
      BY <1>1, <2>1, <2>7, OneTicketMoves DEF AtWork
    <3>2. AtWork(d) /\ Backed(d)
      BY <2>7, <3>1 DEF AtWork, WorkInv
    <3>3. CASE key[d] # k
      BY <2>5, <3>1, <3>2, <3>3, BackedFrame DEF Kept, SameEffect, Backed
    <3>4. CASE key[d] = k
      <4>1. ~(TakesAdmission(e) /\ ticket[e] \notin {"idle", "admitting"})
        BY <3>1, <3>2, <3>4, Alone DEF AtWork, TakesAdmission
      <4>2. Dropped(k) => k[1] \in closed' \ Scoped
        <5> SUFFICES ASSUME Dropped(k) PROVE k[1] \in closed' \ Scoped
          OBVIOUS
        <5>1. ticket[e] # "admitting"
          BY <1>1 DEF Leaves, Refuse, OverBudget, AlreadyConsumed, Uncertain,
             YieldEarly, AgentRefuses, CallLost, Ended, Unconfirmed, StatusLost,
             Interrupted, Current, Following
        <5>2. ~TakesAdmission(e)
          BY <2>1, <4>1, <5>1
        <5> QED
          BY <2>3, <2>4, <5>2 DEF TakesAdmission, Kept, Dropped
      <4>3. ~YieldEarly(e)
        BY <2>3, <4>1
      <4> QED
        BY <2>4, <3>1, <3>2, <3>4, <4>2, <4>3, BackedFrame
    <3> QED
      BY <3>3, <3>4
  <2> QED
    BY <2>6, <2>7 DEF WorkInv
<1>2. ASSUME NEW e \in Tickets, Works(e) PROVE WorkInv'
  <2> DEFINE k == key[e]
  <2>1. /\ k \in Keys /\ row[k] \in Rows /\ UNCHANGED <<key, closed>>
        /\ ticket' = [ticket EXCEPT ![e] = ticket'[e]]
    BY <1>2, WorksOn DEF RowsTyped, TicketsInv
  <2>2. \A x \in Keys \ {k} : row'[x] = row[x]
    BY <1>2, RowsElsewhere
  <2>3. /\ \A d \in Tickets \ {e} : ticket'[d] = ticket[d] /\ followed'[d] = followed[d]
        /\ UNCHANGED overtaken
    BY <1>2, OneTicketMoves, WorksOn DEF walkVars
  <2>4. CASE UNCHANGED row
    <3>1. ASSUME AtWork(e)' PROVE Backed(e)'
      <4>0. CASE Check(e)
        <5>1. ticket'[e] = "checked"
          BY <4>0 DEF Check, TicketsInv, TicketsTypeOK
        <5> QED
          BY <3>1, <5>1 DEF AtWork
      <4>1. CASE Resume(e)
        <5>1. /\ row[k].status = "reserved" /\ row[k].job # 0
              /\ followed'[e] = row[k].job
          BY <4>1 DEF Resume, TicketsInv, TicketsTypeOK
        <5>2. followed'[e] \in 1 .. MaxJobs
          BY <2>1, <5>1, ActionsAssumption DEF Rows
        <5> QED
          BY <2>1, <2>4, <5>1, <5>2 DEF Backed, WorkInv
      <4>2. CASE Dispatch(e)
        <5>1. /\ row'[k].dispatched /\ row'[k].status = "reserved"
              /\ ticket'[e] = "submitting"
          BY <2>1, <4>2, NewRowTyped
             DEF Dispatch, Dispatchable, AfterReserve, HasRow, RowsTyped, Rows,
                 TicketsInv, TicketsTypeOK
        <5> QED
          BY <2>1, <5>1 DEF Backed, Following
      <4>3. CASE AgentAccepts(e)
        <5>1. AtWork(e) /\ Backed(e)
          BY <4>3 DEF AgentAccepts, AtWork, WorkInv
        <5>2. PICK i \in Answers(k) :
                 \/ ticket' = [ticket EXCEPT ![e] = "accepted"]
                 \/ /\ row' = [row EXCEPT ![k].job = i]
                    /\ followed' = [followed EXCEPT ![e] = i]
          BY <4>3 DEF AgentAccepts
        <5>3. i # 0 /\ i \in 1 .. MaxJobs
          BY <5>2, AnswersArePositive
        <5>4. Following(e)' => row'[k].job # 0 /\ followed'[e] = i
          BY <2>1, <5>2, <5>3 DEF Following, RowsTyped, Rows, TicketsInv, TicketsTypeOK
        <5> QED
          BY <2>1, <2>3, <2>4, <5>1, <5>3, <5>4 DEF Backed
      <4>4. CASE StopForUser(e) \/ StopForCeiling(e)
        BY <2>1, <2>3, <2>4, <4>4
           DEF StopForUser, StopForCeiling, WorkInv, AtWork, Backed, Following
      <4> QED
        BY <1>2, <4>0, <4>1, <4>2, <4>3, <4>4 DEF Works
    <3>2. ASSUME NEW d \in Tickets \ {e}, AtWork(d)' PROVE Backed(d)'
      BY <2>1, <2>3, <2>4, <3>2 DEF AtWork, Backed, WorkInv, Following
    <3> QED
      BY <2>4, <3>1, <3>2 DEF WorkInv
  <2>5. CASE Dispatch(e) /\ row' # row
    <3>1. /\ row'[k].dispatched /\ row'[k].status = "reserved" /\ row'[k].job = 0
          /\ HasRow(k) => row[k].status = "reserved" /\ row[k].job = 0
      BY <1>2, <2>5, RowsWorked DEF Dispatch, AgentAccepts, Current
    <3>2. k[1] \notin closed /\ ticket'[e] = "submitting"
      BY <2>1, <2>5 DEF Dispatch, Current, Offered, TicketsInv, TicketsTypeOK
    <3>3. ASSUME NEW d \in Tickets \ {e}, AtWork(d)' PROVE Backed(d)'
      <4>1. AtWork(d) /\ Backed(d)
        BY <2>3, <3>3 DEF AtWork, WorkInv
      <4>2. CASE key[d] # k
        BY <2>1, <2>2, <2>3, <4>1, <4>2 DEF Backed, Following
      <4>3. CASE key[d] = k
        <5>1. HasRow(k) \/ k \in overtaken
          BY <3>2, <4>1, <4>3 DEF Backed, HasRow
        <5> QED
          BY <2>1, <2>3, <3>1, <4>1, <4>3, <5>1 DEF Backed, Following
      <4> QED
        BY <4>2, <4>3
    <3>4. Backed(e)'
      BY <2>1, <3>1, <3>2 DEF Backed, Following
    <3> QED
      BY <2>2, <3>1, <3>3, <3>4 DEF WorkInv
  <2>6. CASE AgentAccepts(e) /\ row' # row
    <3>1. /\ row'[k].dispatched = row[k].dispatched
          /\ row'[k].status = row[k].status
          /\ row'[k].job \in Answers(k)
      BY <1>2, <2>6, RowsWorked DEF Dispatch, AgentAccepts, Current
    <3>2. row'[k].job # 0 /\ (Following(e)' => followed'[e] \in 1 .. MaxJobs)
      <4>1. PICK i \in Answers(k) :
               \/ UNCHANGED row
               \/ followed' = [followed EXCEPT ![e] = i]
        BY <2>6 DEF AgentAccepts
      <4> QED
        BY <2>6, <3>1, <4>1, AnswersArePositive DEF TicketsInv, TicketsTypeOK
    <3>3. AtWork(e) /\ Backed(e)
      BY <2>6 DEF AgentAccepts, AtWork, WorkInv
    <3>4. ASSUME NEW d \in Tickets, AtWork(d)' PROVE Backed(d)'
      <4>1. AtWork(d) /\ Backed(d)
        BY <2>3, <3>3, <3>4 DEF AtWork, WorkInv
      <4> QED
        BY <2>1, <2>2, <2>3, <3>1, <3>2, <4>1 DEF Backed, Following
    <3> QED
      BY <2>2, <3>1, <3>3, <3>4 DEF WorkInv, Backed
  <2> QED
    BY <1>2, <2>4, <2>5, <2>6, RowsWorked
<1>3. ASSUME NEW e \in Tickets, Waits(e) PROVE WorkInv'
  <2>1. UNCHANGED <<row, closed, overtaken>>
    BY <1>3 DEF Waits, Start, LookAgain, GiveUpWaiting, rowVars, walkVars
  <2>2. ~AtWork(e)'
    BY <1>3 DEF Waits, Start, LookAgain, GiveUpWaiting, AtWork, TicketsInv,
       TicketsTypeOK
  <2>3. \A d \in Tickets \ {e} :
           ticket'[d] = ticket[d] /\ key'[d] = key[d] /\ followed'[d] = followed[d]
    BY <1>3, OneTicketMoves
  <2> QED
    BY <2>1, <2>2, <2>3 DEF WorkInv, AtWork, Backed, Following
<1>4. CASE Around
  <2>1. \A k \in Keys :
           Kept(k) \/ (Dropped(k) /\ (row[k].dispatched => k \in overtaken'))
    BY <1>4, RowsAround
  <2>2. UNCHANGED <<ticket, key, followed>>
    BY <1>4, AroundTickets DEF ticketVars
  <2>3. ASSUME NEW d \in Tickets, AtWork(d)' PROVE Backed(d)'
    <3>1. AtWork(d) /\ Backed(d)
      BY <2>2, <2>3 DEF AtWork, WorkInv
    <3>2. Kept(key[d]) \/ (Dropped(key[d]) /\ key[d] \in overtaken')
      BY <2>1, <3>1 DEF Backed
    <3> QED
      BY <2>2, <3>1, <3>2, BackedFrame
  <2> QED
    BY <2>1, <2>3 DEF WorkInv, Kept, Dropped, SameEffect
<1>5. CASE Crash
  BY <1>5 DEF Crash, Restarted, WorkInv, AtWork
<1>6. ASSUME NEW e \in Tickets, CrashReserving(e) PROVE WorkInv'
  BY <1>6, NewRowTyped
     DEF CrashReserving, Restarted, WorkInv, AtWork, RowsTyped, NewRow, NoRow
<1>7. ASSUME NEW j \in Jobs, CrashSettling(j) PROVE WorkInv'
  <2>1. \A k \in Keys : SameEffect(k)
    BY <1>7, TornOutcome
  <2>2. \A d \in Tickets : ~AtWork(d)'
    BY <1>7 DEF CrashSettling, Restarted, AtWork
  <2> QED
    BY <2>1, <2>2 DEF WorkInv, SameEffect
<1> QED
  BY <1>1, <1>2, <1>3, <1>4, <1>5, <1>6, <1>7, StepKinds DEF Torn

(* The row of a ticket at work was dispatched and is in force, but for a   *)
(* candidate without an admission that is not offered any more, and for an *)
(* attempt that a walk gave back by the copy it read before the dispatch.  *)
THEOREM WorkIsBacked == Spec => []WorkInv
<1>1. Init => WorkInv
  BY DEF Init, WorkInv, NoRow, AtWork
<1> QED
  BY <1>1, WorkKept, RowsKeepType, TicketsCorrect, WorkIsCovered,
     AdmissionsStayApart, PTL DEF Spec

-----------------------------------------------------------------------------
(* The rest of the types.                                                  *)
RestTyped ==
    /\ last \in [Candidates -> -1 .. MaxRetries]
    /\ closed \subseteq Candidates
    /\ paused \in BOOLEAN
    /\ job \in [Jobs -> {"none", "running", "done", "failed", "cancelled"}]
    /\ cancelAsked \subseteq Jobs
    /\ scanning \in BOOLEAN
    /\ scanned \subseteq Entries
    /\ stage \in {"none", "cancelling", "confirming"}
    /\ stopping \subseteq Entries
    /\ overtaken \subseteq Keys
    /\ run \in [Users -> BOOLEAN]

(* What a walk reads of a row is an entry.                                 *)
LEMMA EntriesOfRows ==
    ASSUME RowsTyped, NEW k \in Keys PROVE JobOf(k) \in Entries
BY DEF RowsTyped, Rows, JobOf, Entries

(* What a walk has in its hands is left of it, or was read of a reserved   *)
(* row; and an attempt is noted as overtaken when it is in a walk.         *)
LEMMA WalksMove ==
    ASSUME [Next]_vars
    PROVE  \A e \in scanned' \union stopping' :
              \/ e \in scanned \union stopping
              \/ \E k \in Reserved : e = JobOf(k)
<1> DEFINE Goal == \A e \in scanned' \union stopping' :
                      \/ e \in scanned \union stopping
                      \/ \E k \in Reserved : e = JobOf(k)
<1>1. ASSUME NEW d \in Tickets, Leaves(d) \/ Works(d) \/ Waits(d)
      PROVE  Goal
  BY <1>1 DEF Leaves, Refuse, OverBudget, AlreadyConsumed, Uncertain, YieldEarly,
     AgentRefuses, CallLost, Ended, Unconfirmed, StatusLost, Interrupted, Works,
     Check, Resume, Dispatch, AgentAccepts, StopForUser, StopForCeiling, Waits, Start,
     LookAgain, GiveUpWaiting, walkVars, scanVars, stopVars
<1>2. ASSUME NEW j \in Jobs, Reconcile(j) PROVE Goal
  BY <1>2 DEF Reconcile, Without, stopVars
<1>3. ASSUME NEW j \in Jobs, StopSettles(j) PROVE Goal
  BY <1>3 DEF StopSettles, Without, scanVars
<1>4. CASE ScanReads \/ StopConfirms \/ Stop
  BY <1>4 DEF ScanReads, StopConfirms, Stop, UnsentRows, SentRows, scanVars, stopVars
<1>5. ASSUME \/ \E j \in Jobs : JobEnds(j) \/ StopCancels(j)
             \/ ScanBegins \/ StopEnds \/ ResumeMaintenance
             \/ \E u \in Users : UserStep(u)
             \/ UNCHANGED vars
      PROVE  Goal
  BY <1>5 DEF JobEnds, StopCancels, ScanBegins, StopEnds, ResumeMaintenance, UserStep,
     RunStarts, TaskLooks, TaskEnds, TaskAborts, RunEnds, vars, walkVars, scanVars,
     stopVars
<1>6. CASE Torn \/ Crash
  BY <1>6 DEF Torn, Crash, CrashReserving, CrashSettling, Restarted
<1> QED
  BY <1>1, <1>2, <1>3, <1>4, <1>5, <1>6, StepKinds DEF Around

(* An attempt is noted as overtaken by the walk that comes to it.          *)
LEMMA OvertakenTyped ==
    ASSUME overtaken \subseteq Keys, [Next]_vars PROVE overtaken' \subseteq Keys
<1>1. ASSUME NEW d \in Tickets, Leaves(d) \/ Works(d) \/ Waits(d)
      PROVE  UNCHANGED overtaken
  BY <1>1 DEF Leaves, Refuse, OverBudget, AlreadyConsumed, Uncertain, YieldEarly,
     AgentRefuses, CallLost, Ended, Unconfirmed, StatusLost, Interrupted, Works,
     Check, Resume, Dispatch, AgentAccepts, StopForUser, StopForCeiling, Waits, Start,
     LookAgain, GiveUpWaiting, walkVars
<1>2. ASSUME NEW j \in Jobs, Reconcile(j) \/ StopSettles(j)
      PROVE  overtaken' \subseteq Keys
  BY <1>2 DEF Reconcile, StopSettles, LeftUnsent, Overtaken
<1>3. ASSUME \/ \E j \in Jobs : JobEnds(j) \/ StopCancels(j)
             \/ ScanBegins \/ ScanReads \/ Stop \/ StopConfirms \/ StopEnds
             \/ ResumeMaintenance
             \/ \E u \in Users : UserStep(u)
             \/ UNCHANGED vars
      PROVE  UNCHANGED overtaken
  BY <1>3 DEF JobEnds, StopCancels, ScanBegins, ScanReads, Stop, StopConfirms,
     StopEnds, ResumeMaintenance, UserStep, RunStarts, TaskLooks, TaskEnds,
     TaskAborts, RunEnds, vars, walkVars
<1>4. CASE Torn \/ Crash
  BY <1>4 DEF Torn, Crash, CrashReserving, CrashSettling, Restarted
<1> QED
  BY <1>1, <1>2, <1>3, <1>4, StepKinds DEF Around

(* Every step keeps them.                                                  *)
LEMMA RestKept ==
    RowsTyped /\ TicketsInv /\ WorkInv /\ RestTyped /\ [Next]_vars => RestTyped'
<1> SUFFICES ASSUME RowsTyped, TicketsInv, WorkInv, RestTyped, [Next]_vars
             PROVE  RestTyped'
  OBVIOUS
<1> DEFINE Others == /\ last' \in [Candidates -> -1 .. MaxRetries]
                     /\ closed' \subseteq Candidates
                     /\ paused' \in BOOLEAN
                     /\ job' \in [Jobs -> {"none", "running", "done", "failed", "cancelled"}]
                     /\ cancelAsked' \subseteq Jobs
                     /\ scanning' \in BOOLEAN
                     /\ stage' \in {"none", "cancelling", "confirming"}
                     /\ run' \in [Users -> BOOLEAN]
<1> SUFFICES Others
  <2>1. scanned' \subseteq Entries /\ stopping' \subseteq Entries
    BY WalksMove, EntriesOfRows DEF RestTyped, Reserved
  <2>2. overtaken' \subseteq Keys
    BY OvertakenTyped DEF RestTyped
  <2> QED
    BY <2>1, <2>2 DEF RestTyped
<1> USE DEF RestTyped, rowVars, jobVars, ticketVars, walkVars, scanVars, stopVars
<1>1. ASSUME NEW k \in Keys, Reserve(k) PROVE last' \in [Candidates -> -1 .. MaxRetries]
  BY <1>1 DEF Reserve, Keys
<1>2. ASSUME NEW d \in Tickets, Following(d) PROVE FollowedJob(d) \in Jobs
  BY <1>2 DEF WorkInv, AtWork, Following, Backed, FollowedJob, Jobs
<1>3. ASSUME NEW d \in Tickets, ticket[d] # "idle"
      PROVE  key[d] \in Keys /\ key[d][1] \in Candidates
  BY <1>3 DEF TicketsInv, Keys
<1>4. ASSUME NEW d \in Tickets, Leaves(d) PROVE Others
  <2>1. key[d] \in Keys /\ key[d][1] \in Candidates
    BY <1>3, <1>4, LeavesIdle
  <2>2. CASE YieldEarly(d)
    BY <1>1, <2>1, <2>2 DEF YieldEarly
  <2>3. CASE ~YieldEarly(d)
    BY <1>4, <2>1, <2>3 DEF Leaves, Refuse, OverBudget, AlreadyConsumed, Uncertain,
       AgentRefuses, CallLost, Ended, Unconfirmed, StatusLost, Interrupted
  <2> QED
    BY <2>2, <2>3
<1>5. ASSUME NEW d \in Tickets, Works(d) PROVE Others
  <2>1. key[d] \in Keys
    BY <1>5, WorksOn DEF TicketsInv
  <2>2. CASE Check(d) \/ Resume(d)
    BY <2>2 DEF Check, Resume
  <2>3. CASE Dispatch(d)
    BY <1>1, <2>1, <2>3 DEF Dispatch
  <2>4. CASE AgentAccepts(d)
    <3>1. PICK i \in Answers(key[d]) :
             job' = [job EXCEPT ![<<key[d], i>>] = IF @ = "none" THEN "running" ELSE @]
      BY <2>4 DEF AgentAccepts
    <3>2. <<key[d], i>> \in Jobs
      BY <2>1, AnswersArePositive DEF Jobs
    <3> QED
      BY <2>4, <3>1, <3>2 DEF AgentAccepts
  <2>5. CASE StopForUser(d) \/ StopForCeiling(d)
    <3>1. FollowedJob(d) \in Jobs /\ SendCancel(FollowedJob(d))
      BY <1>2, <2>5 DEF StopForUser, StopForCeiling
    <3>2. cancelAsked' \subseteq Jobs
      BY <3>1 DEF SendCancel
    <3> QED
      BY <2>5, <3>2 DEF StopForUser, StopForCeiling
  <2> QED
    BY <1>5, <2>2, <2>3, <2>4, <2>5 DEF Works
<1>6. ASSUME NEW d \in Tickets, Waits(d) PROVE Others
  BY <1>6 DEF Waits, Start, LookAgain, GiveUpWaiting
<1>7. ASSUME NEW j \in Jobs, JobEnds(j) PROVE Others
  BY <1>7 DEF JobEnds, Terminal
<1>8. ASSUME NEW j \in Jobs, Reconcile(j) \/ StopCancels(j) \/ StopSettles(j)
      PROVE  Others
  BY <1>8 DEF Reconcile, StopCancels, StopSettles
<1>9. CASE ScanBegins \/ ScanReads \/ Stop \/ StopConfirms
  BY <1>9 DEF ScanBegins, ScanReads, Stop, StopConfirms
<1>10. CASE StopEnds \/ ResumeMaintenance \/ UNCHANGED vars
  BY <1>10 DEF StopEnds, ResumeMaintenance, vars
<1>11. ASSUME NEW u \in Users, UserStep(u) PROVE Others
  BY <1>11 DEF UserStep, RunStarts, TaskLooks, TaskEnds, TaskAborts, RunEnds
<1>12. CASE Crash \/ \E j \in Jobs : CrashSettling(j)
  BY <1>12 DEF Crash, CrashSettling, Restarted
<1>13. ASSUME NEW d \in Tickets, CrashReserving(d) PROVE Others
  <2>1. key[d] \in Keys
    BY <1>3, <1>13 DEF CrashReserving, Current
  <2> QED
    BY <1>1, <1>13, <2>1 DEF CrashReserving, Restarted
<1> QED
  BY <1>4, <1>5, <1>6, <1>7, <1>8, <1>9, <1>10, <1>11, <1>12, <1>13, StepKinds
     DEF Around, Torn

(* The offers, the jobs, the walks and the runs keep their types.          *)
THEOREM RestKeepsType == Spec => []RestTyped
<1>1. Init => RestTyped
  <2> SUFFICES ASSUME Init PROVE RestTyped
    OBVIOUS
  <2>1. -1 \in -1 .. MaxRetries
    BY ActionsAssumption
  <2>2. run \in [Users -> BOOLEAN]
    BY Zenon DEF Init
  <2> QED
    BY <2>1, <2>2 DEF Init, RestTyped
<1> QED
  BY <1>1, RestKept, RowsKeepType, TicketsCorrect, WorkIsBacked, PTL DEF Spec

(* The reservations, the jobs, the tickets, the Stop and the admission     *)
(* have their types.                                                       *)
THEOREM TypesCorrect == Spec => []TypeOK
<1>1. RowsTyped /\ TicketsInv /\ RestTyped /\ Admission!TypeOK => TypeOK
  BY DEF RowsTyped, TicketsInv, RestTyped, TypeOK, RowsTypeOK
<1> QED
  BY <1>1, RestKeepsType, RowsKeepType, TicketsCorrect, AdmissionTyped, PTL

-----------------------------------------------------------------------------
(* What a step may do to one row, and to one job.                          *)
Taken(k) ==
    /\ row[k].status # "consumed"
    /\ row'[k].status \in {"reserved", "released"}
    /\ row'[k].job = 0

Receipted(k) ==
    /\ \E d \in Tickets : AgentAccepts(d) /\ key[d] = k
    /\ row'[k].status = row[k].status
    /\ row'[k].job \in Answers(k)

LEMMA RowMoves ==
    ASSUME RowsTyped, TicketsInv, WorkInv, [Next]_vars, NEW k \in Keys
    PROVE  Kept(k) \/ Dropped(k) \/ Taken(k) \/ Receipted(k)
<1> DEFINE Goal == Kept(k) \/ Dropped(k) \/ Taken(k) \/ Receipted(k)
<1>1. row[k] \in Rows
  BY DEF RowsTyped
<1>2. CASE row'[k] = row[k]
  BY <1>2 DEF Kept, SameEffect
<1>3. ASSUME NEW d \in Tickets, Leaves(d), key[d] = k PROVE Goal
  <2>1. CASE YieldEarly(d)
    <3>1. /\ row'[k] = Settled(AfterReserve(k), "released")
          /\ row[k].status # "consumed" /\ AfterReserve(k).job = 0
      BY <1>1, <1>3, <2>1 DEF YieldEarly, Dispatchable, RowsTyped
    <3>2. AfterReserve(k) \in Rows /\ AfterReserve(k).status = "reserved"
      BY <1>1, <3>1, NewRowTyped DEF AfterReserve, HasRow
    <3> QED
      BY <3>1, <3>2, SettledKeeps DEF Taken
  <2> QED
    BY <1>3, <2>1, RowsLeft
<1>4. ASSUME NEW d \in Tickets, Works(d), key[d] = k PROVE Goal
  <2>1. CASE UNCHANGED row
    BY <1>2, <2>1
  <2>2. CASE Dispatch(d) /\ row' # row
    BY <1>4, <2>2, RowsWorked
       DEF Dispatch, Dispatchable, Taken, Current, AgentAccepts
  <2>3. CASE AgentAccepts(d) /\ row' # row
    BY <1>4, <2>3, RowsWorked
       DEF Receipted, Dispatch, AgentAccepts, Current
  <2> QED
    BY <1>4, <2>1, <2>2, <2>3, RowsWorked
<1>5. ASSUME NEW d \in Tickets, Waits(d) PROVE Goal
  BY <1>2, <1>5 DEF Waits, Start, LookAgain, GiveUpWaiting, rowVars
<1>6. ASSUME NEW d \in Tickets, Leaves(d) \/ Works(d), key[d] # k PROVE Goal
  BY <1>2, <1>6, RowsElsewhere
<1>7. ASSUME NEW d \in Tickets, CrashReserving(d) PROVE Goal
  <2>1. CASE key[d] = k
    BY <1>1, <1>7, <2>1, NewRowTyped
       DEF CrashReserving, HasRow, RowsTyped, Taken, NewRow, NoRow
  <2>2. CASE key[d] # k
    BY <1>2, <1>7, <2>2 DEF CrashReserving, RowsTyped
  <2> QED
    BY <2>1, <2>2
<1>8. ASSUME NEW j \in Jobs, CrashSettling(j) PROVE Goal
  BY <1>8, TornOutcome DEF Kept
<1>9. CASE Around
  BY <1>9, RowsAround
<1>10. CASE Crash
  BY <1>2, <1>10 DEF Crash
<1> QED
  BY <1>3, <1>4, <1>5, <1>6, <1>7, <1>8, <1>9, <1>10, StepKinds DEF Torn

Accepted(j) ==
    \E d \in Tickets : /\ AgentAccepts(d)
                       /\ j[1] = key[d] /\ j[2] \in Answers(key[d])

LEMMA JobMoves ==
    ASSUME RestTyped, TicketsInv, [Next]_vars, NEW j \in Jobs
    PROVE  \/ job'[j] = job[j]
           \/ (job[j] = "none" /\ job'[j] = "running" /\ Accepted(j))
           \/ (job[j] = "running" /\ job'[j] \in Terminal)
<1> DEFINE Goal == \/ job'[j] = job[j]
                   \/ (job[j] = "none" /\ job'[j] = "running" /\ Accepted(j))
                   \/ (job[j] = "running" /\ job'[j] \in Terminal)
<1> USE DEF RestTyped, jobVars
<1>1. ASSUME NEW d \in Tickets, AgentAccepts(d) PROVE Goal
  <2>1. PICK i \in Answers(key[d]) :
           job' = [job EXCEPT ![<<key[d], i>>] = IF @ = "none" THEN "running" ELSE @]
    BY <1>1 DEF AgentAccepts
  <2>2. CASE j = <<key[d], i>>
    <3>1. j[1] = key[d] /\ j[2] = i
      BY <2>2
    <3>2. Accepted(j)
      BY <1>1, <3>1 DEF Accepted
    <3> QED
      BY <2>1, <2>2, <3>2
  <2>3. CASE j # <<key[d], i>>
    BY <2>1, <2>3
  <2> QED
    BY <2>2, <2>3
<1>2. ASSUME NEW d \in Tickets, Leaves(d) \/ Works(d) \/ Waits(d), ~AgentAccepts(d)
      PROVE  job' = job
  BY <1>2 DEF Leaves, Refuse, OverBudget, AlreadyConsumed, Uncertain, YieldEarly,
     AgentRefuses, CallLost, Ended, Unconfirmed, StatusLost, Interrupted, Works,
     Check, Resume, Dispatch, StopForUser, StopForCeiling, Waits, Start, LookAgain,
     GiveUpWaiting
<1>3. ASSUME NEW x \in Jobs, JobEnds(x) PROVE Goal
  BY <1>3 DEF JobEnds, Terminal
<1>4. ASSUME Around, \A x \in Jobs : ~JobEnds(x) PROVE job' = job
  BY <1>4 DEF Around, ScanBegins, ScanReads, StopCancels, StopSettles, Reconcile, Stop,
     StopConfirms, StopEnds, ResumeMaintenance, UserStep, RunStarts, TaskLooks,
     TaskEnds, TaskAborts, RunEnds, vars
<1>5. ASSUME Crash \/ Torn PROVE job' = job
  BY <1>5 DEF Crash, Torn, CrashReserving, CrashSettling, Restarted
<1> QED
  BY <1>1, <1>2, <1>3, <1>4, <1>5, StepKinds

-----------------------------------------------------------------------------
(* What the row of an agent that knows keys says of its one job: a row     *)
(* there is not has none, a receipt is of a job there is, and the job of a *)
(* consumed row has ended.                                                 *)
FirstJob(k) == <<k, 1>>

Truthful(k) ==
    /\ row[k].job \in {0, 1}
    /\ row[k].job # 0 => job[FirstJob(k)] # "none"
    /\ row[k].status = "none" => job[FirstJob(k)] = "none"
    /\ row[k].status = "consumed" => job[FirstJob(k)] \in Terminal
    /\ \A j \in Jobs : j[1] = k /\ j[2] # 1 => job[j] = "none"

Keyed == {k \in Keys : k[1] \notin External}

EffectInv ==
    /\ \A k \in Keyed : Truthful(k)
    /\ \A e \in scanned \union stopping : e[1] \in Keyed => e[2] \in {0, 1}
    /\ \A d \in Tickets : Following(d) /\ key[d] \in Keyed => followed[d] = 1

LEMMA FirstJobs == ASSUME NEW k \in Keys PROVE FirstJob(k) \in Jobs
BY ActionsAssumption DEF FirstJob, Jobs

(* Somebody who has an ended job of k in his hands has the one it has.     *)
LEMMA EndedIsFirst ==
    ASSUME RestTyped, EffectInv, NEW k \in Keyed, KnownEnded(k)
    PROVE  job[FirstJob(k)] \in Terminal
<1>1. ASSUME NEW d \in Tickets, Following(d), key[d] = k, Followed(d) \in Terminal
      PROVE  job[FirstJob(k)] \in Terminal
  BY <1>1 DEF EffectInv, Followed, FollowedJob, FirstJob
<1>2. ASSUME NEW j \in Jobs \cap (scanned \union stopping), j[1] = k,
             job[j] \in Terminal
      PROVE  job[FirstJob(k)] \in Terminal
  <2>1. j = <<j[1], j[2]>> /\ j[2] # 0
    BY DEF Jobs
  <2>2. j = FirstJob(k)
    BY <1>2, <2>1 DEF EffectInv, FirstJob
  <2> QED
    BY <1>2, <2>2
<1> QED
  BY <1>1, <1>2 DEF KnownEnded

(* A ticket follows the job its row names, or the one its agent answers.   *)
LEMMA FollowsRow ==
    ASSUME TicketsInv, [Next]_vars, NEW d \in Tickets, Following(d)'
    PROVE  \/ /\ Following(d) /\ key'[d] = key[d] /\ followed'[d] = followed[d]
           \/ /\ key'[d] = key[d] /\ key[d] \in Keys
              /\ row[key[d]].job # 0 /\ followed'[d] = row[key[d]].job
           \/ key'[d] = key[d] /\ followed'[d] \in Answers(key[d])
<1> DEFINE Goal == \/ /\ Following(d) /\ key'[d] = key[d] /\ followed'[d] = followed[d]
                   \/ /\ key'[d] = key[d] /\ key[d] \in Keys
                      /\ row[key[d]].job # 0 /\ followed'[d] = row[key[d]].job
                   \/ key'[d] = key[d] /\ followed'[d] \in Answers(key[d])
<1> USE DEF TicketsInv, TicketsTypeOK, Following
<1>1. CASE Resume(d)
  BY <1>1 DEF Resume, Current
<1>2. CASE AgentAccepts(d)
  BY <1>2 DEF AgentAccepts
<1>3. CASE Check(d) \/ Dispatch(d) \/ StopForUser(d) \/ StopForCeiling(d)
  BY <1>3 DEF Check, Dispatch, StopForUser, StopForCeiling
<1>4. CASE Leaves(d)
  BY <1>4, LeavesIdle
<1>5. CASE Waits(d)
  BY <1>5 DEF Waits, Start, LookAgain, GiveUpWaiting
<1>6. ASSUME NEW e \in Tickets, Leaves(e) \/ Works(e) \/ Waits(e), e # d PROVE Goal
  BY <1>6, OneTicketMoves
<1>7. CASE Around
  BY <1>7, AroundTickets DEF ticketVars
<1>8. CASE Torn \/ Crash
  BY <1>8 DEF Torn, Crash, CrashReserving, CrashSettling, Restarted
<1> QED
  BY <1>1, <1>2, <1>3, <1>4, <1>5, <1>6, <1>7, <1>8, StepKinds DEF Works

(* Every step keeps it.                                                    *)
LEMMA EffectKept ==
    /\ RowsTyped /\ TicketsInv /\ WorkInv /\ RestTyped /\ EffectInv
    /\ [Next]_vars
    => EffectInv'
<1> SUFFICES ASSUME RowsTyped, TicketsInv, WorkInv, RestTyped, EffectInv,
                    [Next]_vars
             PROVE  EffectInv'
  OBVIOUS
<1>1. ASSUME NEW k \in Keyed PROVE Truthful(k)'
  <2>1. k \in Keys /\ Truthful(k) /\ row[k] \in Rows /\ FirstJob(k) \in Jobs
    BY FirstJobs DEF Keyed, EffectInv, RowsTyped
  <2>2. Answers(k) = {1}
    BY DEF Answers, Keyed
  <2>3. job[FirstJob(k)] \in Terminal => job'[FirstJob(k)] \in Terminal
    BY <2>1, JobMoves DEF Terminal
  <2>4. job[FirstJob(k)] # "none" => job'[FirstJob(k)] # "none"
    BY <2>1, JobMoves DEF Terminal
  <2>5. ASSUME NEW j \in Jobs, j[1] = k, j[2] # 1 PROVE job'[j] = "none"
    BY <2>1, <2>2, <2>5, JobMoves DEF Truthful, Accepted
  <2>6. ASSUME NEW d \in Tickets, AgentAccepts(d), key[d] = k
        PROVE  job'[FirstJob(k)] # "none"
    BY <2>1, <2>2, <2>6 DEF AgentAccepts, FirstJob, RestTyped
  <2>7. job'[FirstJob(k)] = job[FirstJob(k)] \/ row[k].status # "none"
    <3>1. ASSUME NEW d \in Tickets, AgentAccepts(d), key[d] = k
          PROVE  row[k].status # "none"
      BY <3>1 DEF AgentAccepts, WorkInv, AtWork, Backed
    <3> QED
      BY <2>1, <3>1, JobMoves DEF Accepted, FirstJob, Truthful
  <2>8. CASE Kept(k) \/ Dropped(k)
    <3>1. row'[k].status = "consumed" => job[FirstJob(k)] \in Terminal
      BY <2>1, <2>8, EndedIsFirst DEF Kept, Dropped, Truthful
    <3> QED
      BY <2>1, <2>3, <2>4, <2>5, <2>7, <2>8, <3>1
         DEF Kept, Dropped, SameEffect, Truthful
  <2>9. CASE Taken(k)
    BY <2>1, <2>5, <2>9 DEF Taken, Truthful
  <2>10. CASE Receipted(k)
    BY <2>1, <2>2, <2>3, <2>5, <2>6, <2>7, <2>10 DEF Receipted, Truthful
  <2> QED
    BY <2>1, <2>8, <2>9, <2>10, RowMoves
<1>2. ASSUME NEW e \in scanned' \union stopping', e[1] \in Keyed
      PROVE  e[2] \in {0, 1}
  <2>1. ASSUME NEW k \in Reserved, e = JobOf(k) PROVE e[2] \in {0, 1}
    BY <1>2, <2>1 DEF JobOf, EffectInv, Truthful
  <2> QED
    BY <1>2, <2>1, WalksMove DEF EffectInv
<1>3. ASSUME NEW d \in Tickets, Following(d)', key'[d] \in Keyed
      PROVE  followed'[d] = 1
  <2>1. key'[d] = key[d] => Answers(key[d]) = {1}
    BY <1>3 DEF Answers, Keyed
  <2> QED
    BY <1>3, <2>1, FollowsRow DEF EffectInv, Truthful
<1> QED
  BY <1>1, <1>2, <1>3 DEF EffectInv, Keyed

(* The rows of agents that know keys tell the truth of their jobs.         *)
THEOREM RowsTellEffects == Spec => []EffectInv
<1>1. Init => EffectInv
  <2> SUFFICES ASSUME Init PROVE EffectInv
    OBVIOUS
  <2>1. \A k \in Keyed : row[k] = NoRow /\ job[FirstJob(k)] = "none"
    BY FirstJobs DEF Init, Keyed
  <2>2. \A j \in Jobs : job[j] = "none"
    BY DEF Init
  <2>3. ASSUME NEW k \in Keyed PROVE Truthful(k)
    <3>1. row[k].job = 0 /\ row[k].status = "none"
      BY <2>1 DEF NoRow
    <3> QED
      BY <2>1, <2>2, <3>1 DEF Truthful
  <2> QED
    BY <2>3 DEF Init, EffectInv, Following
<1> QED
  BY <1>1, EffectKept, RestKeepsType, RowsKeepType, TicketsCorrect, WorkIsBacked, PTL
     DEF Spec

(* A job that writes the workspace and that a ticket follows holds its     *)
(* unit of the budget until it has ended, whatever scans, Stops, crashes   *)
(* and other tickets for the same candidate do meanwhile, but for the      *)
(* attempt that a walk took for unsent by an old copy.                     *)
THEOREM FollowedStaysHeld == Spec => []FollowedIsHeld
<1>1. WorkInv /\ EffectInv => FollowedIsHeld
  <2> SUFFICES ASSUME WorkInv, EffectInv, NEW d \in Tickets, Following(d),
                      TakesAdmission(d), Followed(d) = "running",
                      key[d] \notin overtaken
               PROVE  row[key[d]].status = "reserved"
    BY DEF FollowedIsHeld
  <2>1. /\ key[d] \in Keyed
        /\ row[key[d]].status \in {"reserved", "consumed"}
    BY ActionsAssumption
       DEF WorkInv, AtWork, Backed, Following, TakesAdmission, Keyed
  <2>2. Followed(d) = job[FirstJob(key[d])]
    BY <2>1 DEF EffectInv, Followed, FollowedJob, FirstJob
  <2> QED
    BY <2>1, <2>2 DEF EffectInv, Truthful, Terminal
<1> QED
  BY <1>1, WorkIsBacked, RowsTellEffects, PTL

-----------------------------------------------------------------------------
(* Only a user's task asks, and only of a ticket that can yield.           *)
AskedInv == \A r \in asked : r \in Tickets \X CanYield /\ Users # {}

(* A ticket is asked to yield only if its candidate can, and a user is     *)
(* there to ask.                                                           *)
THEOREM UsersAsk == Spec => []AskedInv
<1>1. Admission!Init => AskedInv
  BY DEF Admission!Init, AskedInv
<1>2. AskedInv /\ [Admission!Next]_(Admission!admission) => AskedInv'
  <2> SUFFICES ASSUME AskedInv, Admission!Next PROVE AskedInv'
    BY DEF AskedInv, Admission!admission
  <2>1. ASSUME NEW r \in Requests, Admission!Look(r) PROVE AskedInv'
    <3>1. r \in Tickets \X Scoped \/ Users # {}
      BY DEF Requests
    <3> QED
      BY <2>1, <3>1 DEF Admission!Look, AskedInv
  <2> QED
    BY <2>1 DEF Admission!Next, Admission!Withdraw, Admission!Release,
       Admission!Forget, AskedInv
<1> QED
  BY <1>1, <1>2, ActionsImplementAdmission, PTL DEF Admission!Spec

(* No ticket of a calm candidate yields.                                   *)
LEMMA CalmNeverYields ==
    ASSUME AskedInv, NEW d, key[d][1] \in Calm PROVE ~Yields(d)
BY DEF AskedInv, Calm, Yields, Request

-----------------------------------------------------------------------------
(* The attempts of a calm candidate no walk overtook: each but the last    *)
(* was consumed, and what a ticket will reserve is one of them or the one  *)
(* after.                                                                  *)
Numbered(c) ==
    \A k \in Keys : k[1] = c =>
       /\ row[k].status = "none" <=> k[2] > last[c]
       /\ k[2] < last[c] => row[k].status = "consumed"

Follows(k) ==
    \/ k[2] <= last[k[1]]
    \/ /\ k[2] = last[k[1]] + 1
       /\ last[k[1]] # -1 => row[<<k[1], last[k[1]]>>].status = "consumed"

(* A reserved row with an outcome has its receipt (the process died before *)
(* the settlement), and none with "cancelled" is released.                 *)
Marked(k) ==
    /\ row[k].status = "reserved" /\ row[k].outcome # "none" => row[k].job # 0
    /\ row[k].status = "released" => row[k].outcome # "cancelled"

CalmKeys == {k \in Keys : k[1] \in Untouched}

SeriesInv ==
    /\ \A c \in Untouched : Numbered(c)
    /\ \A k \in CalmKeys : Marked(k)
    /\ \A d \in Tickets : ticket[d] # "idle" /\ key[d] \in CalmKeys => Follows(key[d])
    /\ \A e \in scanned \union stopping : e[1] \in CalmKeys /\ e[2] # 0
          => HasRow(e[1]) /\ row[e[1]].job # 0

(* Who is untouched was so before.                                         *)
LEMMA UntouchedBefore ==
    [Next]_vars => Untouched' \subseteq Untouched /\ CalmKeys' \subseteq CalmKeys
BY ClosedGrows DEF Untouched, CalmKeys

(* Of such a candidate, what was overtaken is not.                         *)
LEMMA NotOvertaken ==
    ASSUME NEW k \in CalmKeys PROVE k \notin overtaken
BY DEF CalmKeys, Untouched

(* A row with a receipt in force stays so.                                 *)
LEMMA ReceiptLasts ==
    ASSUME RowsTyped, TicketsInv, WorkInv, RestTyped, EffectInv, AskedInv,
           [Next]_vars, NEW k \in CalmKeys', HasRow(k), row[k].job # 0
    PROVE  HasRow(k)' /\ row'[k].job # 0
<1> DEFINE Goal == HasRow(k)' /\ row'[k].job # 0
<1>1. /\ k \in Keys /\ row[k] \in Rows /\ k \in Keyed /\ k[1] \in Calm
      /\ job[FirstJob(k)] # "none" /\ row[k].dispatched /\ k \notin overtaken'
  BY DEF CalmKeys, Untouched, Calm, Keyed, RowsTyped, EffectInv, Truthful, WorkInv
<1>2. CASE Kept(k)
  BY <1>2 DEF Kept, SameEffect, HasRow
<1>3. CASE UNCHANGED row
  BY <1>3 DEF HasRow
<1>4. ASSUME NEW d \in Tickets, Leaves(d), key[d] = k PROVE Goal
  <2>1. ~YieldEarly(d)
    BY <1>1, <1>4, CalmNeverYields DEF YieldEarly
  <2>2. ~Uncertain(d) /\ ~AgentRefuses(d)
    BY <1>1, <1>4 DEF Uncertain, AgentRefuses, FirstJob
  <2>3. CASE Ended(d)
    <3>1. Following(d) /\ Followed(d) \in {"done", "failed", "cancelled"} /\ ~Yields(d)
      BY <1>1, <1>4, <2>3, CalmNeverYields DEF Ended, Terminal
    <3>2. \/ row'[k] = Settled([row[k] EXCEPT !.outcome = "failed"], "consumed")
          \/ row'[k] = Completed(row[k], Followed(d))
      BY <1>1, <1>4, <2>3, <3>1 DEF Ended, ForUser, RowsTyped
    <3>3. CASE row'[k] = Settled([row[k] EXCEPT !.outcome = "failed"], "consumed")
      <4> DEFINE t == Settled([row[k] EXCEPT !.outcome = "failed"], "consumed")
      <4>1. /\ t.job = row[k].job
            /\ t.status = IF row[k].status = "reserved" THEN "consumed" ELSE row[k].status
        BY <1>1, StampedKeeps
      <4>2. row'[k] = t
        BY <3>3
      <4> HIDE DEF t
      <4> QED
        BY <4>1, <4>2 DEF HasRow
    <3>4. CASE row'[k] = Completed(row[k], Followed(d))
      BY <1>1, <3>1, <3>4, CompletedKeeps DEF HasRow
    <3> QED
      BY <3>2, <3>3, <3>4
  <2>4. CASE \/ Refuse(d) \/ OverBudget(d) \/ AlreadyConsumed(d) \/ CallLost(d)
             \/ Unconfirmed(d) \/ StatusLost(d) \/ Interrupted(d)
    BY <1>3, <2>4 DEF Refuse, OverBudget, AlreadyConsumed, CallLost, Unconfirmed,
       StatusLost, Interrupted, rowVars
  <2> QED
    BY <1>4, <2>1, <2>2, <2>3, <2>4 DEF Leaves
<1>5. ASSUME NEW d \in Tickets, Works(d), key[d] = k PROVE Goal
  <2>1. CASE Dispatch(d)
    BY <2>1, <1>5 DEF Dispatch, Dispatchable, AfterReserve
  <2>2. CASE AgentAccepts(d)
    <3>1. PICK i \in Answers(k) : UNCHANGED row \/ row' = [row EXCEPT ![k].job = i]
      BY <1>5, <2>2 DEF AgentAccepts
    <3>2. i # 0
      BY AnswersArePositive
    <3> QED
      BY <1>1, <3>1, <3>2 DEF HasRow, RowsTyped, Rows
  <2>3. CASE Check(d) \/ Resume(d) \/ StopForUser(d) \/ StopForCeiling(d)
    BY <1>3, <2>3 DEF Check, Resume, StopForUser, StopForCeiling, rowVars
  <2> QED
    BY <1>5, <2>1, <2>2, <2>3 DEF Works
<1>6. ASSUME NEW d \in Tickets, Leaves(d) \/ Works(d) \/ Waits(d), key[d] # k
      PROVE  Goal
  BY <1>1, <1>6, RowsElsewhere DEF HasRow
<1>7. ASSUME NEW d \in Tickets, Waits(d) PROVE Goal
  BY <1>3, <1>7 DEF Waits, Start, LookAgain, GiveUpWaiting, rowVars
<1>8. CASE Around
  BY <1>1, <1>2, <1>8, RowsAround DEF Dropped
<1>9. CASE Crash
  BY <1>3, <1>9 DEF Crash
<1>10. ASSUME NEW d \in Tickets, CrashReserving(d) PROVE Goal
  BY <1>1, <1>10 DEF CrashReserving, HasRow, RowsTyped
<1>11. ASSUME NEW j \in Jobs, CrashSettling(j) PROVE Goal
  BY <1>1, <1>11, TornOutcome DEF SameEffect, HasRow
<1> QED
  BY <1>4, <1>5, <1>6, <1>7, <1>8, <1>9, <1>10, <1>11, StepKinds DEF Torn

(* What a row of a calm candidate says stays so.                           *)
LEMMA MarkedKept ==
    ASSUME RowsTyped, TicketsInv, WorkInv, EffectInv, AskedInv, SeriesInv,
           [Next]_vars, NEW k \in CalmKeys'
    PROVE  Marked(k)'
<1>1. /\ k \in Keys /\ row[k] \in Rows /\ k[1] \in Calm /\ Marked(k)
      /\ k \in CalmKeys /\ k \in Keyed /\ k \notin overtaken /\ k \notin overtaken'
  BY UntouchedBefore, NotOvertaken
     DEF CalmKeys, Untouched, Calm, Keyed, RowsTyped, SeriesInv
<1>2. CASE row'[k] = row[k]
  BY <1>1, <1>2 DEF Marked
<1>3. ASSUME row'[k] = Settled(row[k], "released"),
             row[k].status = "reserved" => row[k].job = 0
      PROVE  Marked(k)'
  BY <1>1, <1>3, SettledKeeps DEF Marked
<1>3a. CASE GaveBack(k)
  BY <1>3a, <1>1, <1>3 DEF GaveBack, WorkInv
<1>4. ASSUME NEW o \in {"done", "failed", "cancelled"}, row'[k] = Completed(row[k], o)
      PROVE  Marked(k)'
  BY <1>1, <1>4, CompletedKeeps DEF Marked
<1>5. ASSUME NEW o \in {"failed", "cancelled"},
             row'[k] = Settled([row[k] EXCEPT !.outcome = o], "consumed"),
             o = "cancelled" => row[k].status # "released"
      PROVE  Marked(k)'
  <2> DEFINE t == Settled([row[k] EXCEPT !.outcome = o], "consumed")
  <2>1. /\ t.outcome = o
        /\ t.status = IF row[k].status = "reserved" THEN "consumed" ELSE row[k].status
    BY <1>1, StampedKeeps
  <2>2. row'[k] = t
    BY <1>5
  <2> HIDE DEF t
  <2> QED
    BY <1>5, <2>1, <2>2 DEF Marked
<1>6. row'[k].status = "reserved" /\ row'[k].outcome = "none" => Marked(k)'
  BY DEF Marked
<1>7. ASSUME NEW d \in Tickets, Leaves(d), key[d] = k PROVE Marked(k)'
  <2>1. CASE Uncertain(d) \/ AgentRefuses(d)
    <3>1. AgentRefuses(d)
      BY <1>1, <1>7, <2>1 DEF Uncertain, Keyed
    <3>2. job[FirstJob(k)] = "none" /\ row'[k] = Settled(row[k], "released")
      BY <1>1, <1>7, <3>1 DEF AgentRefuses, FirstJob, RowsTyped
    <3> QED
      BY <1>1, <1>3, <3>2 DEF EffectInv, Truthful
  <2>2. ~YieldEarly(d)
    BY <1>1, <1>7, CalmNeverYields DEF YieldEarly
  <2>3. CASE Ended(d)
    <3>1. Followed(d) \in {"done", "failed", "cancelled"} /\ ~Yields(d)
      BY <1>1, <1>7, <2>3, CalmNeverYields DEF Ended, Terminal
    <3>2. \/ row'[k] = Settled([row[k] EXCEPT !.outcome = "failed"], "consumed")
          \/ row'[k] = Completed(row[k], Followed(d))
      BY <1>1, <1>7, <2>3, <3>1 DEF Ended, ForUser, RowsTyped
    <3> QED
      BY <1>4, <1>5, <3>1, <3>2
  <2>4. CASE \/ Refuse(d) \/ OverBudget(d) \/ AlreadyConsumed(d) \/ CallLost(d)
             \/ Unconfirmed(d) \/ StatusLost(d) \/ Interrupted(d)
    BY <1>2, <2>4 DEF Refuse, OverBudget, AlreadyConsumed, CallLost, Unconfirmed,
       StatusLost, Interrupted, rowVars
  <2> QED
    BY <1>7, <2>1, <2>2, <2>3, <2>4 DEF Leaves
<1>8. NewRow.status = "reserved" /\ NewRow.outcome = "none"
  BY DEF NewRow, NoRow
<1>9. ASSUME NEW d \in Tickets, Works(d), key[d] = k PROVE Marked(k)'
  <2>1. CASE Dispatch(d)
    <3>1. /\ row'[k] = [AfterReserve(k) EXCEPT !.dispatched = TRUE]
          /\ row[k].status # "consumed"
      BY <1>1, <1>9, <2>1 DEF Dispatch, Dispatchable, RowsTyped
    <3>2. /\ AfterReserve(k) \in Rows /\ AfterReserve(k).status = "reserved"
          /\ AfterReserve(k).outcome = "none"
      BY <1>1, <1>8, <1>9, <2>1, <3>1, NewRowTyped
         DEF Dispatch, Dispatchable, AfterReserve, HasRow, Marked
    <3> QED
      BY <1>6, <3>1, <3>2 DEF Rows
  <2>2. CASE AgentAccepts(d)
    <3>1. PICK i \in Answers(k) : UNCHANGED row \/ row' = [row EXCEPT ![k].job = i]
      BY <1>9, <2>2 DEF AgentAccepts
    <3>2. i # 0
      BY AnswersArePositive
    <3> QED
      BY <1>1, <3>1, <3>2 DEF Marked, RowsTyped, Rows
  <2>3. CASE Check(d) \/ Resume(d) \/ StopForUser(d) \/ StopForCeiling(d)
    BY <1>2, <2>3 DEF Check, Resume, StopForUser, StopForCeiling, rowVars
  <2> QED
    BY <1>9, <2>1, <2>2, <2>3 DEF Works
<1>10. ASSUME NEW d \in Tickets, Leaves(d) \/ Works(d) \/ Waits(d), key[d] # k
       PROVE  Marked(k)'
  BY <1>1, <1>2, <1>10, RowsElsewhere
<1>11. ASSUME NEW d \in Tickets, Waits(d) PROVE Marked(k)'
  BY <1>2, <1>11 DEF Waits, Start, LookAgain, GiveUpWaiting, rowVars
<1>12. ASSUME NEW j \in Jobs, Reconcile(j) PROVE Marked(k)'
  BY <1>3a, <1>1, <1>2, <1>4, <1>12, ReconcileMoves DEF Terminal
<1>13. CASE ScanReads \/ StopConfirms
  BY <1>3a, <1>1, <1>2, <1>13, ReadsMove
<1>14. ASSUME NEW j \in Jobs, StopSettles(j) PROVE Marked(k)'
  <2>1. CASE /\ j[1] = k /\ j \in stopping /\ job[j] \in Terminal
             /\ row'[k] = Settled([row[k] EXCEPT !.outcome = "cancelled"], "consumed")
    <3>1. row[k].status # "released"
      BY <1>1, <2>1, ActionsAssumption DEF SeriesInv, HasRow, Jobs
    <3> QED
      BY <1>5, <2>1, <3>1
  <2> QED
    BY <1>3a, <1>1, <1>2, <1>14, <2>1, StopMoves
<1>15. CASE Crash
  BY <1>2, <1>15 DEF Crash
<1>17. ASSUME NEW j \in Jobs, CrashSettling(j) PROVE Marked(k)'
  <2>1. CASE k # j[1]
    BY <1>1, <1>2, <1>17, <2>1, TornOutcome
  <2>2. CASE k = j[1]
    <3>1. ASSUME NEW d \in Tickets, Following(d), FollowedJob(d) = j
          PROVE  row[k].job # 0
      BY <1>1, <2>2, <3>1 DEF FollowedJob, WorkInv, AtWork, Backed, Following
    <3>2. ASSUME j \in scanned \union stopping PROVE row[k].job # 0
      BY <1>1, <2>2, <3>2, ActionsAssumption DEF SeriesInv, Jobs
    <3>3. row[k].job # 0 /\ row[k].status = "reserved"
      BY <1>17, <2>2, <3>1, <3>2 DEF CrashSettling, StopSees, JobsLeft
    <3> QED
      BY <1>1, <1>17, <3>3, TornOutcome DEF SameEffect, Marked
  <2> QED
    BY <2>1, <2>2
<1>16. ASSUME NEW d \in Tickets, CrashReserving(d) PROVE Marked(k)'
  <2>1. row'[k] = row[k] \/ row'[k] = NewRow
    BY <1>1, <1>16 DEF CrashReserving, RowsTyped
  <2> QED
    BY <1>2, <1>6, <1>8, <2>1
<1> QED
  BY <1>2, <1>7, <1>9, <1>10, <1>11, <1>12, <1>13, <1>14, <1>15, <1>16, <1>17,
     StepKinds, RestKeepsRows DEF Around, Torn

-----------------------------------------------------------------------------
(* A step inserts the row of the attempt a ticket has, or none.            *)
Inserted(k) ==
    /\ \E d \in Tickets : ticket[d] # "idle" /\ key[d] = k
    /\ ~HasRow(k)
    /\ last' = [last EXCEPT ![k[1]] = k[2]]
    /\ row'[k].status # "none"
    /\ \A x \in Keys \ {k} : row'[x] = row[x]

NoneInserted ==
    /\ last' = last
    /\ \A x \in Keys : row'[x].status = "none" <=> row[x].status = "none"

LEMMA ReservedOrInserted ==
    ASSUME RowsTyped, NEW d \in Tickets, ticket[d] # "idle",
           NEW k \in Keys, k = key[d], Reserve(k),
           \A x \in Keys \ {k} : row'[x] = row[x],
           row'[k].status # "none"
    PROVE  NoneInserted \/ Inserted(k)
<1>1. CASE HasRow(k)
  BY <1>1 DEF HasRow, Reserve, NoneInserted
<1>2. CASE ~HasRow(k)
  BY <1>2 DEF Reserve, Inserted
<1> QED
  BY <1>1, <1>2

LEMMA Insertions ==
    ASSUME RowsTyped, TicketsInv, WorkInv, [Next]_vars
    PROVE  NoneInserted \/ \E k \in Keys : Inserted(k)
<1> DEFINE Goal == NoneInserted \/ \E k \in Keys : Inserted(k)
<1>1. ASSUME last' = last, \A k \in Keys : Kept(k) \/ Dropped(k) \/ Receipted(k)
      PROVE  Goal
  BY <1>1 DEF NoneInserted, Kept, Dropped, Receipted
<1>2. ASSUME last' = last, row' = row PROVE Goal
  BY <1>2 DEF NoneInserted
<1>3. ASSUME NEW d \in Tickets, Leaves(d) PROVE Goal
  <2>1. /\ key[d] \in Keys /\ ticket[d] # "idle"
        /\ \A x \in Keys \ {key[d]} : row'[x] = row[x]
    BY <1>3, LeavesIdle, RowsElsewhere DEF TicketsInv
  <2>2. CASE YieldEarly(d)
    <3>1. /\ row'[key[d]] = Settled(AfterReserve(key[d]), "released")
          /\ Reserve(key[d]) /\ row[key[d]].status # "consumed"
      BY <2>1, <2>2 DEF YieldEarly, Dispatchable, RowsTyped
    <3>2. AfterReserve(key[d]) \in Rows /\ AfterReserve(key[d]).status = "reserved"
      BY <2>1, <3>1, NewRowTyped DEF AfterReserve, HasRow, RowsTyped
    <3>3. row'[key[d]].status # "none"
      BY <3>1, <3>2, SettledKeeps
    <3> QED
      BY <2>1, <3>1, <3>3, ReservedOrInserted
  <2>3. CASE ~YieldEarly(d)
    <3>1. last' = last
      BY <1>3, <2>3 DEF Leaves, Refuse, OverBudget, AlreadyConsumed, Uncertain,
         AgentRefuses, CallLost, Ended, Unconfirmed, StatusLost, Interrupted, rowVars
    <3>2. Kept(key[d]) \/ Dropped(key[d])
      BY <1>3, <2>3, RowsLeft
    <3> QED
      BY <1>1, <2>1, <3>1, <3>2 DEF Kept, SameEffect
  <2> QED
    BY <2>2, <2>3
<1>4. ASSUME NEW d \in Tickets, Works(d) PROVE Goal
  <2>1. /\ key[d] \in Keys /\ ticket[d] # "idle"
        /\ \A x \in Keys \ {key[d]} : row'[x] = row[x]
    BY <1>4, WorksOn, RowsElsewhere DEF TicketsInv
  <2>2. CASE Dispatch(d)
    <3>1. /\ row'[key[d]] = [AfterReserve(key[d]) EXCEPT !.dispatched = TRUE]
          /\ Reserve(key[d]) /\ row[key[d]].status # "consumed"
      BY <2>1, <2>2 DEF Dispatch, Dispatchable, RowsTyped
    <3>2. AfterReserve(key[d]) \in Rows /\ AfterReserve(key[d]).status = "reserved"
      BY <2>1, <3>1, NewRowTyped DEF AfterReserve, HasRow, RowsTyped
    <3>3. row'[key[d]].status # "none"
      BY <3>1, <3>2 DEF Rows
    <3> QED
      BY <2>1, <3>1, <3>3, ReservedOrInserted
  <2>3. CASE AgentAccepts(d)
    <3>1. PICK i \in Answers(key[d]) : UNCHANGED row \/ row' = [row EXCEPT ![key[d]].job = i]
      BY <2>3 DEF AgentAccepts
    <3>2. row'[key[d]].status = row[key[d]].status
      BY <2>1, <3>1 DEF RowsTyped, Rows
    <3> QED
      BY <2>1, <2>3, <3>2 DEF AgentAccepts, NoneInserted
  <2>4. CASE Check(d) \/ Resume(d) \/ StopForUser(d) \/ StopForCeiling(d)
    BY <1>2, <2>4 DEF Check, Resume, StopForUser, StopForCeiling, rowVars
  <2> QED
    BY <1>4, <2>2, <2>3, <2>4 DEF Works
<1>5. ASSUME NEW d \in Tickets, Waits(d) PROVE Goal
  BY <1>2, <1>5 DEF Waits, Start, LookAgain, GiveUpWaiting, rowVars
<1>6. CASE Around
  <2>1. last' = last
    BY <1>6 DEF Around, ScanBegins, ScanReads, JobEnds, StopCancels, StopSettles,
       Reconcile, Stop, StopConfirms, StopEnds, ResumeMaintenance, UserStep,
       RunStarts, TaskLooks, TaskEnds, TaskAborts, RunEnds, vars, rowVars
  <2> QED
    BY <1>1, <1>6, <2>1, RowsAround
<1>7. CASE Crash
  BY <1>2, <1>7 DEF Crash
<1>8. ASSUME NEW d \in Tickets, CrashReserving(d) PROVE Goal
  <2>1. /\ key[d] \in Keys /\ ticket[d] # "idle" /\ Reserve(key[d])
        /\ row' = [row EXCEPT ![key[d]] = NewRow]
    BY <1>8 DEF CrashReserving, Current, TicketsInv
  <2> QED
    BY <2>1, NewRowTyped, ReservedOrInserted DEF RowsTyped
<1>9. ASSUME NEW j \in Jobs, CrashSettling(j) PROVE Goal
  <2>1. last' = last /\ \A k \in Keys : Kept(k)
    BY <1>9, TornOutcome DEF CrashSettling, Kept
  <2> QED
    BY <1>1, <2>1
<1> QED
  BY <1>3, <1>4, <1>5, <1>6, <1>7, <1>8, <1>9, StepKinds DEF Torn

(* The rows of a calm candidate are counted by their last.                 *)
LEMMA FreshIsNext ==
    ASSUME RestTyped, NEW c \in Calm, Numbered(c)
    PROVE  Cardinality(RowsOf(c)) = last[c] + 1
<1> DEFINE n == last[c]
           f == [i \in 0 .. n |-> <<c, i>>]
<1>1. c \in Candidates /\ n \in -1 .. MaxRetries
  BY DEF Calm, RestTyped
<1>2. RowsOf(c) = {k \in Keys : k[1] = c /\ k[2] <= n}
  BY <1>1, ActionsAssumption DEF RowsOf, Numbered, Keys
<1>3. RowsOf(c) = {<<c, i>> : i \in 0 .. n}
  BY <1>1, <1>2, ActionsAssumption DEF Keys
<1>4. f \in [0 .. n -> RowsOf(c)]
  BY <1>3
<1>5. \A a, b \in 0 .. n : f[a] = f[b] => a = b
  OBVIOUS
<1>6. \A t \in RowsOf(c) : \E i \in 0 .. n : f[i] = t
  BY <1>3
<1> HIDE DEF f, n
<1>7. f \in Bijection(0 .. n, RowsOf(c))
  BY <1>4, <1>5, <1>6, Fun_IsBij
<1>8. ExistsBijection(0 .. n, RowsOf(c))
  BY <1>7, Fun_ExistsBij
<1>9. n \in Int /\ IsFiniteSet(0 .. n) /\ Cardinality(0 .. n) = IF 0 > n THEN 0 ELSE n - 0 + 1
  BY <1>1, ActionsAssumption, FS_Interval
<1>10. Cardinality(RowsOf(c)) = Cardinality(0 .. n)
  BY <1>8, <1>9, FS_Bijection
<1> QED
  BY <1>1, <1>9, <1>10, ActionsAssumption DEF n

(* So a call that starts has an attempt that follows.                      *)
LEMMA NextFollows ==
    ASSUME RestTyped, SeriesInv, NEW c \in Untouched, NEW k \in NextKeys(c)
    PROVE  Follows(k)
<1>0. c \in Calm /\ c \in Candidates
  BY DEF Untouched, Calm
<1>1. /\ c \in Candidates /\ k \in Keys /\ k[1] = c /\ Numbered(c)
      /\ last[c] \in -1 .. MaxRetries
  BY <1>0, NextKeysOf DEF SeriesInv, RestTyped
<1>2. CASE k \in Reserved
  BY <1>1, <1>2 DEF Reserved, Numbered, Follows, Keys
<1>3. CASE /\ last[c] # -1 /\ row[<<c, last[c]>>].status \in {"consumed", "released"}
           /\ row[<<c, last[c]>>].outcome = "cancelled"
           /\ k \in {<<c, Cardinality(RowsOf(c))>>}
  <2>1. <<c, last[c]>> \in CalmKeys
    BY <1>1, <1>3, ActionsAssumption DEF CalmKeys, Keys
  <2>2. row[<<c, last[c]>>].status = "consumed"
    BY <1>3, <2>1 DEF SeriesInv, Marked
  <2>3. k[2] = last[c] + 1
    BY <1>0, <1>1, <1>3, FreshIsNext
  <2> QED
    BY <1>1, <2>2, <2>3 DEF Follows
<1>4. CASE k = <<c, 0>>
  BY <1>1, <1>4, ActionsAssumption DEF Follows
<1> QED
  BY <1>2, <1>3, <1>4 DEF NextKeys

(* A consumed row stays consumed.                                          *)
LEMMA ConsumedStays ==
    ASSUME RowsTyped, TicketsInv, WorkInv, [Next]_vars, NEW k \in Keys,
           row[k].status = "consumed"
    PROVE  row'[k].status = "consumed"
BY RowMoves DEF Kept, Dropped, Taken, Receipted

(* What follows goes on to follow.                                         *)
LEMMA FollowsKept ==
    ASSUME RowsTyped, TicketsInv, WorkInv, RestTyped, SeriesInv, [Next]_vars,
           NEW k \in CalmKeys, Follows(k)
    PROVE  Follows(k)'
<1> DEFINE c == k[1]
           n == last[c]
<1>1. /\ c \in Untouched /\ c \in Candidates /\ k \in Keys /\ k = <<c, k[2]>>
      /\ k[2] \in 0 .. MaxRetries /\ n \in -1 .. MaxRetries
      /\ Numbered(c)
  BY DEF CalmKeys, Untouched, Calm, Keys, RestTyped, SeriesInv
<1>2. n # -1 => <<c, n>> \in Keys
  BY <1>1, ActionsAssumption DEF Keys
<1>3. n # -1 /\ row[<<c, n>>].status = "consumed" => row'[<<c, n>>].status = "consumed"
  BY <1>2, ConsumedStays
<1>4. CASE last'[c] = n
  BY <1>3, <1>4 DEF Follows
<1>5. ASSUME NEW x \in Keys, Inserted(x), last'[c] # n PROVE Follows(k)'
  <2>1. x[1] = c /\ last'[c] = x[2] /\ x \in CalmKeys /\ x[2] \in 0 .. MaxRetries
    BY <1>1, <1>5 DEF Inserted, RestTyped, CalmKeys, Keys
  <2>2. Follows(x) /\ ~HasRow(x)
    BY <1>5, <2>1 DEF Inserted, SeriesInv
  <2>3. ~(x[2] < n)
    BY <1>1, <1>5, <2>1, <2>2 DEF Numbered, HasRow
  <2>4. x[2] = n + 1
    BY <1>1, <1>5, <2>1, <2>2, <2>3, ActionsAssumption DEF Follows
  <2> QED
    BY <1>1, <2>1, <2>4, ActionsAssumption DEF Follows
<1> QED
  BY <1>4, <1>5, Insertions DEF NoneInserted

(* The rows stay numbered.                                                 *)
LEMMA NumberedKept ==
    ASSUME RowsTyped, TicketsInv, WorkInv, RestTyped, SeriesInv, [Next]_vars,
           NEW c \in Untouched
    PROVE  Numbered(c)'
<1> DEFINE n == last[c]
<1>1. c \in Candidates /\ n \in -1 .. MaxRetries /\ Numbered(c)
  BY DEF Untouched, Calm, RestTyped, SeriesInv
<1>2. \A k \in Keys : k[1] = c => k[2] \in 0 .. MaxRetries /\ k = <<c, k[2]>>
  BY DEF Keys
<1>3. \A k \in Keys : row[k].status = "consumed" => row'[k].status = "consumed"
  BY ConsumedStays
<1>4. CASE NoneInserted
  BY <1>1, <1>3, <1>4 DEF Numbered, NoneInserted
<1>5. ASSUME NEW x \in Keys, Inserted(x) PROVE Numbered(c)'
  <2>1. CASE x[1] # c
    BY <1>1, <1>5, <2>1 DEF Inserted, Numbered, RestTyped
  <2>2. CASE x[1] = c
    <3>1. last'[c] = x[2] /\ x \in CalmKeys /\ x[2] \in 0 .. MaxRetries
      BY <1>1, <1>2, <1>5, <2>2 DEF Inserted, RestTyped, CalmKeys
    <3>2. Follows(x) /\ ~HasRow(x)
      BY <1>5, <3>1 DEF Inserted, SeriesInv
    <3>3. ~(x[2] < n)
      BY <1>1, <2>2, <3>2 DEF Numbered, HasRow
    <3>4. row'[x].status # "none" /\ \A k \in Keys \ {x} : row'[k] = row[k]
      BY <1>5 DEF Inserted
    <3>5. CASE x[2] = n
      <4>1. row[x].status # "none"
        BY <1>1, <2>2, <3>5 DEF Numbered
      <4> QED
        BY <1>1, <1>3, <2>2, <3>1, <3>4, <3>5, <4>1 DEF Numbered
    <3>6. CASE /\ x[2] = n + 1
               /\ n # -1 => row[<<c, n>>].status = "consumed"
      <4>1. ASSUME NEW k \in Keys, k[1] = c
            PROVE  row'[k].status = "none" <=> k[2] > x[2]
        <5>1. CASE k = x
          BY <3>4, <5>1, <3>1
        <5>2. CASE k # x
          <6>1. k[2] # x[2]
            BY <1>2, <2>2, <4>1, <5>2
          <6>2. row[k].status = "none" <=> k[2] > n
            BY <1>1, <4>1 DEF Numbered
          <6> QED
            BY <1>1, <1>2, <3>4, <3>6, <4>1, <5>2, <6>1, <6>2, ActionsAssumption
        <5> QED
          BY <5>1, <5>2
      <4>2. ASSUME NEW k \in Keys, k[1] = c, k[2] < x[2]
            PROVE  row'[k].status = "consumed"
        <5>1. k[2] < n \/ (k = <<c, n>> /\ n # -1)
          BY <1>1, <1>2, <3>6, <4>2, ActionsAssumption
        <5> QED
          BY <1>1, <1>3, <3>6, <4>2, <5>1 DEF Numbered
      <4> QED
        BY <3>1, <4>1, <4>2 DEF Numbered
    <3> QED
      BY <1>1, <2>2, <3>1, <3>2, <3>3, <3>5, <3>6, ActionsAssumption DEF Follows
  <2> QED
    BY <2>1, <2>2
<1> QED
  BY <1>4, <1>5, Insertions

(* Every step keeps the series.                                            *)
LEMMA SeriesKept ==
    /\ RowsTyped /\ TicketsInv /\ WorkInv /\ RestTyped /\ EffectInv /\ AskedInv
    /\ SeriesInv /\ [Next]_vars
    => SeriesInv'
<1> SUFFICES ASSUME RowsTyped, TicketsInv, WorkInv, RestTyped, EffectInv,
                    AskedInv, SeriesInv, [Next]_vars
             PROVE  SeriesInv'
  OBVIOUS
<1>0. Untouched' \subseteq Untouched /\ CalmKeys' \subseteq CalmKeys
  BY UntouchedBefore
<1>1. \A c \in Untouched' : Numbered(c)'
  BY <1>0, NumberedKept
<1>2. \A k \in CalmKeys' : Marked(k)'
  BY MarkedKept
<1>3. ASSUME NEW d \in Tickets, ticket'[d] # "idle", key'[d] \in CalmKeys
      PROVE  Follows(key[d])'
  <2>1. CASE ticket[d] # "idle" /\ key'[d] = key[d]
    <3>1. Follows(key[d])
      BY <1>3, <2>1 DEF SeriesInv
    <3>2. \A k \in CalmKeys : Follows(k) => Follows(k)'
      BY FollowsKept
    <3> QED
      BY <1>3, <2>1, <3>1, <3>2 DEF Follows
  <2>2. CASE Start(d)
    <3>1. PICK c \in Candidates : \E k \in NextKeys(c) : key' = [key EXCEPT ![d] = k]
      BY <2>2 DEF Start
    <3>2. PICK k \in NextKeys(c) : key' = [key EXCEPT ![d] = k]
      BY <3>1
    <3>3. key'[d] = k /\ k[1] = c /\ c \in Untouched
      BY <1>3, <3>2, NextKeysOf DEF TicketsInv, TicketsTypeOK, CalmKeys
    <3>4. Follows(k)
      BY <3>3, NextFollows
    <3> QED
      BY <2>2, <3>3, <3>4 DEF Start, Follows, rowVars
  <2>3. CASE LookAgain(d)
    BY <2>1, <2>3 DEF LookAgain
  <2>4. CASE GiveUpWaiting(d)
    BY <1>3, <2>4 DEF GiveUpWaiting, TicketsInv, TicketsTypeOK
  <2>5. CASE Leaves(d)
    BY <1>3, <2>5, LeavesIdle
  <2>6. CASE Works(d)
    BY <2>1, <2>6, WorksOn
  <2>7. ASSUME NEW e \in Tickets, Leaves(e) \/ Works(e) \/ Waits(e), e # d
        PROVE  Follows(key[d])'
    BY <1>3, <2>1, <2>7, OneTicketMoves
  <2>8. CASE Around
    BY <1>3, <2>1, <2>8, AroundTickets DEF ticketVars
  <2>9. CASE Crash \/ Torn
    BY <1>3, <2>9 DEF Crash, Torn, CrashReserving, CrashSettling, Restarted
  <2> QED
    BY <2>2, <2>3, <2>4, <2>5, <2>6, <2>7, <2>8, <2>9, StepKinds DEF Waits
<1>4. ASSUME NEW e \in scanned' \union stopping', e[1] \in CalmKeys', e[2] # 0
      PROVE  HasRow(e[1])' /\ row'[e[1]].job # 0
  <2>1. HasRow(e[1]) /\ row[e[1]].job # 0
    <3>1. ASSUME NEW k \in Reserved, e = JobOf(k)
          PROVE  HasRow(e[1]) /\ row[e[1]].job # 0
      BY <1>4, <3>1 DEF JobOf, Reserved, HasRow
    <3> QED
      BY <1>0, <1>4, <3>1, WalksMove DEF SeriesInv
  <2> QED
    BY <1>4, <2>1, ReceiptLasts
<1>5. SeriesInv' = (/\ \A c \in Untouched' : Numbered(c)'
                    /\ \A k \in CalmKeys' : Marked(k)'
                    /\ \A d \in Tickets : ticket'[d] # "idle" /\ key'[d] \in CalmKeys'
                          => Follows(key[d])'
                    /\ \A e \in scanned' \union stopping' :
                          e[1] \in CalmKeys' /\ e[2] # 0
                             => HasRow(e[1])' /\ row'[e[1]].job # 0)
  BY DEF SeriesInv, HasRow
<1> QED
  BY <1>0, <1>1, <1>2, <1>3, <1>4, <1>5

(* The attempts of an untouched candidate follow one another.              *)
THEOREM AttemptsInSeries == Spec => []SeriesInv
<1>1. Init => SeriesInv
  <2> SUFFICES ASSUME Init PROVE SeriesInv
    OBVIOUS
  <2>1. \A k \in Keys : row[k].status = "none" /\ k[2] \in Nat /\ k[1] \in Candidates
    BY ActionsAssumption DEF Init, NoRow, Keys
  <2>2. \A c \in Candidates : last[c] = -1
    BY DEF Init
  <2>3. \A c \in Untouched : Numbered(c)
    BY <2>1, <2>2 DEF Numbered, Untouched, Calm
  <2>4. \A k \in CalmKeys : Marked(k)
    BY <2>1 DEF Marked, CalmKeys
  <2> QED
    BY <2>3, <2>4 DEF Init, SeriesInv
<1> QED
  BY <1>1, SeriesKept, RowsKeepType, TicketsCorrect, WorkIsBacked, RestKeepsType,
     RowsTellEffects, UsersAsk, PTL DEF Spec

(* However often an action of an agent that knows keys is tried, stopped   *)
(* and found again after a crash, one job of it runs, unless a call of it  *)
(* was asked to yield or a walk gave its row back by an old copy.          *)
THEOREM OneJobRuns == Spec => []OneJobAtATime
<1>1. RestTyped /\ EffectInv /\ SeriesInv => OneJobAtATime
  <2> SUFFICES ASSUME RestTyped, EffectInv, SeriesInv, NEW c \in Untouched
               PROVE  Cardinality({j \in Jobs : j[1][1] = c /\ job[j] = "running"}) <= 1
    BY DEF OneJobAtATime
  <2> DEFINE R == {j \in Jobs : j[1][1] = c /\ job[j] = "running"}
             one == <<<<c, last[c]>>, 1>>
  <2>1. c \in Candidates \ External /\ last[c] \in -1 .. MaxRetries /\ Numbered(c)
    BY DEF Untouched, Calm, RestTyped, SeriesInv
  <2>2. ASSUME NEW j \in R PROVE j = one
    <3>1. /\ j = <<j[1], j[2]>> /\ j[1] \in Keyed /\ Truthful(j[1])
          /\ j[1] = <<c, j[1][2]>> /\ j[1][2] \in 0 .. MaxRetries
      BY <2>1, <2>2 DEF Jobs, Keys, Keyed, EffectInv
    <3>2. j[2] = 1 /\ j = FirstJob(j[1])
      BY <2>2, <3>1 DEF Truthful, FirstJob
    <3>3. row[j[1]].status # "none" /\ row[j[1]].status # "consumed"
      BY <2>2, <3>1, <3>2 DEF Truthful, Terminal
    <3>4. j[1][2] = last[c]
      BY <2>1, <3>1, <3>3, ActionsAssumption DEF Numbered, Keyed
    <3> QED
      BY <3>1, <3>2, <3>4
  <2>3. R \subseteq {one}
    BY <2>2
  <2> HIDE DEF R, one
  <2>4. IsFiniteSet({one}) /\ Cardinality({one}) = 1
    BY FS_Singleton
  <2>5. IsFiniteSet(R) /\ Cardinality(R) <= 1
    BY <2>3, <2>4, FS_Subset
  <2> QED
    BY <2>5 DEF R
<1> QED
  BY <1>1, RestKeepsType, RowsTellEffects, AttemptsInSeries, PTL
=============================================================================
