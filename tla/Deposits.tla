------------------------------ MODULE Deposits ------------------------------
(***************************************************************************)
(* Refundable deposits and the queue of their refunds: staff mark a deposit *)
(* eligible or forfeit it (FinanceDepositsService), open a refund dispatch  *)
(* for it, and approve, reject or complete the dispatch                     *)
(* (FinanceRefundDispatchesService).  The payment of an approval fee marks  *)
(* the deposit of the booking it confirms as held (BookingsService).        *)
(*                                                                         *)
(* Every handler of the two finance services checks the status it read      *)
(* against the lifecycle and writes the new one by id alone; the booking    *)
(* confirmation writes by id and asks nothing of the lifecycle.  A refund   *)
(* handler runs in a READ COMMITTED transaction: its reads are separate     *)
(* steps, its writes appear together.  The partial unique index on open     *)
(* dispatches is checked as they appear.                                    *)
(***************************************************************************)
EXTENDS Naturals, FiniteSets

CONSTANTS
  DepositIds,
  DispatchIds,
  Requests,      \* handlers that can be in flight at one time
  None

ASSUME NoneAssumption == None \notin DepositIds \cup DispatchIds

\* ALLOWED of deposit-lifecycle.ts: where a deposit may go from each status.
Allowed ==
  [held                  |-> {"eligible_for_release", "forfeited"},
   eligible_for_release  |-> {"refund_pending_review", "forfeited"},
   refund_pending_review |-> {"refund_approved", "eligible_for_release"},
   refund_approved       |-> {"refunded"},
   refunded              |-> {},
   forfeited             |-> {}]

DepositStatuses  == DOMAIN Allowed
DispatchStatuses == {"pending_review", "approved", "rejected", "completed_without_psp"}
OpenStatuses     == {"pending_review", "approved"}

\* The three decisions on a dispatch: the statuses each one demands and the ones it writes.
Decision(from, to, depositFrom, depositTo) ==
  [from |-> from, to |-> to, depositFrom |-> depositFrom, depositTo |-> depositTo]

Approve  == Decision("pending_review", "approved", "refund_pending_review", "refund_approved")

\* The mutant rejects the dispatch and forgets the deposit.
RejectDispatchOnly ==
  Decision("pending_review", "rejected", "refund_pending_review", "refund_pending_review")
Reject   == Decision("pending_review", "rejected", "refund_pending_review", "eligible_for_release")

\* The mutant writes the dispatch's status into the deposit.
CompleteBoth ==
  Decision("approved", "completed_without_psp", "refund_approved", "completed_without_psp")
Complete == Decision("approved", "completed_without_psp", "refund_approved", "refunded")

Decisions == [approve |-> Approve, reject |-> Reject, complete |-> Complete]

VARIABLES
  deposits,     \* the deposits table: status of each deposit, "absent" before its insert
  dispatches,   \* the refund_dispatches table
  req           \* the handlers in flight

vars == <<deposits, dispatches, req>>

Dispatch == [status : DispatchStatuses \cup {"absent"}, deposit : DepositIds \cup {None}]

Steps == {"idle", "save_deposit", "find_open", "save_submission", "check_deposit", "save_decision"}

Request == [pc : Steps,
            deposit  : DepositIds \cup {None},
            dispatch : DispatchIds \cup {None},
            to       : DepositStatuses \cup {None},            \* of save_deposit
            decision : DOMAIN Decisions \cup {None}]           \* of check_deposit, save_decision

TypeOK ==
  /\ deposits \in [DepositIds -> DepositStatuses \cup {"absent"}]
  /\ dispatches \in [DispatchIds -> Dispatch]
  /\ req \in [Requests -> Request]

Idle == [pc |-> "idle", deposit |-> None, dispatch |-> None, to |-> None, decision |-> None]

Init ==
  /\ deposits = [d \in DepositIds |-> "absent"]
  /\ dispatches = [x \in DispatchIds |-> [status |-> "absent", deposit |-> None]]
  /\ req = [r \in Requests |-> Idle]

-----------------------------------------------------------------------------

\* assertDepositTransition does not throw.
MayMove(from, to) == to \in Allowed[from]

IsOpen(x, d) == dispatches[x].deposit = d /\ dispatches[x].status \in OpenStatuses

\* refund_dispatches_open_queue_idx lets row x be open for deposit d; the mutant is its absence.
NoIndex(x, d)              == x \in DispatchIds /\ d \in DepositIds
OpenQueueIndexAllows(x, d) == \A y \in DispatchIds \ {x} : ~IsOpen(y, d)

Goto(r, step) == req' = [req EXCEPT ![r].pc = step]
Finish(r)     == req' = [req EXCEPT ![r] = Idle]

-----------------------------------------------------------------------------
(* FinanceDepositsService *)

Create(d) ==
  /\ deposits[d] = "absent"
  /\ deposits' = [deposits EXCEPT ![d] = "held"]
  /\ UNCHANGED <<dispatches, req>>

\* Both handlers below read the deposit, ask the lifecycle, and write in a later step.
MoveDeposit(r, d, to) ==
  /\ req[r].pc = "idle"
  /\ deposits[d] # "absent"
  /\ MayMove(deposits[d], to)
  /\ req' = [req EXCEPT ![r] = [Idle EXCEPT !.pc = "save_deposit", !.deposit = d, !.to = to]]
  /\ UNCHANGED <<deposits, dispatches>>

MarkEligibleForRelease(r, d) == MoveDeposit(r, d, "eligible_for_release")

Forfeit(r, d) ==
  /\ deposits[d] \in {"held", "eligible_for_release"}
  /\ MoveDeposit(r, d, "forfeited")

SaveDeposit(r) ==
  /\ req[r].pc = "save_deposit"
  /\ deposits' = [deposits EXCEPT ![req[r].deposit] = req[r].to]
  /\ Finish(r)
  /\ UNCHANGED dispatches

-----------------------------------------------------------------------------
(* BookingsService *)

\* The approval payment found a hold that names deposit d, and will write it as held by id,
\* whatever its status is.  (A hold without a deposit gets a new one: Create.)
ConfirmHoldAfterApprovalPayment(r, d) ==
  /\ req[r].pc = "idle"
  /\ deposits[d] # "absent"
  /\ req' = [req EXCEPT ![r] = [Idle EXCEPT !.pc = "save_deposit", !.deposit = d, !.to = "held"]]
  /\ UNCHANGED <<deposits, dispatches>>

-----------------------------------------------------------------------------
(* FinanceRefundDispatchesService *)

SubmitFromEligibleDeposit(r, d) ==
  /\ req[r].pc = "idle"
  /\ deposits[d] = "eligible_for_release"
  /\ req' = [req EXCEPT ![r] = [Idle EXCEPT !.pc = "find_open", !.deposit = d]]
  /\ UNCHANGED <<deposits, dispatches>>

FindOpen(r) ==
  /\ req[r].pc = "find_open"
  /\ IF \E x \in DispatchIds : IsOpen(x, req[r].deposit)
     THEN Finish(r)
     ELSE Goto(r, "save_submission")
  /\ UNCHANGED <<deposits, dispatches>>

SaveSubmission(r, x) ==
  /\ req[r].pc = "save_submission"
  /\ dispatches[x].status = "absent"
  /\ OpenQueueIndexAllows(x, req[r].deposit)
  /\ deposits' = [deposits EXCEPT ![req[r].deposit] = "refund_pending_review"]
  /\ dispatches' = [dispatches EXCEPT ![x] = [status |-> "pending_review",
                                              deposit |-> req[r].deposit]]
  /\ Finish(r)

\* approve, reject and completeWithoutPsp: read the dispatch, read its deposit, write both.
Decide(r, decision, x) ==
  /\ req[r].pc = "idle"
  /\ dispatches[x].status = Decisions[decision].from
  /\ req' = [req EXCEPT ![r] = [Idle EXCEPT !.pc = "check_deposit", !.dispatch = x,
                                  !.deposit = dispatches[x].deposit, !.decision = decision]]
  /\ UNCHANGED <<deposits, dispatches>>

CheckDeposit(r) ==
  /\ req[r].pc = "check_deposit"
  /\ IF deposits[req[r].deposit] = Decisions[req[r].decision].depositFrom
     THEN Goto(r, "save_decision")
     ELSE Finish(r)
  /\ UNCHANGED <<deposits, dispatches>>

SaveDecision(r) ==
  /\ req[r].pc = "save_decision"
  /\ LET decision == Decisions[req[r].decision]
         x == req[r].dispatch
     IN  /\ decision.to \in OpenStatuses => OpenQueueIndexAllows(x, req[r].deposit)
         /\ deposits' = [deposits EXCEPT ![req[r].deposit] = decision.depositTo]
         /\ dispatches' = [dispatches EXCEPT ![x].status = decision.to]
  /\ Finish(r)

\* The index refuses the dispatch and the transaction rolls back.
RollBack(r) ==
  /\ \/ /\ req[r].pc = "save_submission"
        /\ \E x \in DispatchIds : IsOpen(x, req[r].deposit)
     \/ /\ req[r].pc = "save_decision"
        /\ Decisions[req[r].decision].to \in OpenStatuses
        /\ ~OpenQueueIndexAllows(req[r].dispatch, req[r].deposit)
  /\ Finish(r)
  /\ UNCHANGED <<deposits, dispatches>>

-----------------------------------------------------------------------------

Next ==
  \/ \E d \in DepositIds : Create(d)
  \/ \E r \in Requests :
       \/ \E d \in DepositIds : \/ MarkEligibleForRelease(r, d)
                                \/ Forfeit(r, d)
                                \/ ConfirmHoldAfterApprovalPayment(r, d)
                                \/ SubmitFromEligibleDeposit(r, d)
       \/ \E x \in DispatchIds : \/ SaveSubmission(r, x)
                                 \/ \E decision \in DOMAIN Decisions : Decide(r, decision, x)
       \/ SaveDeposit(r) \/ FindOpen(r) \/ CheckDeposit(r) \/ SaveDecision(r) \/ RollBack(r)

Spec == Init /\ [][Next]_vars

-----------------------------------------------------------------------------
(* What must hold *)

Backed(d, status) == \E x \in DispatchIds : dispatches[x] = [status |-> status, deposit |-> d]

\* A deposit under review, approved or refunded has a dispatch in the matching status, however
\* late the other handlers write: no deposit is refunded without a dispatch that was approved.
DispatchBacksDeposit ==
  \A d \in DepositIds :
    /\ deposits[d] = "refund_pending_review" => Backed(d, "pending_review")
    /\ deposits[d] = "refund_approved"       => Backed(d, "approved")
    /\ deposits[d] = "refunded"              => Backed(d, "completed_without_psp")

\* A deposit has one open refund at most, also when an approval that lost a race to a rejection
\* reopens a dispatch after the next one was submitted.
OneOpenDispatch ==
  \A d \in DepositIds : Cardinality({x \in DispatchIds : IsOpen(x, d)}) <= 1

\* A stored change that ALLOWED of deposit-lifecycle.ts forbids only puts a deposit back to held,
\* which is what the booking confirmation does.  (So with handlers one at a time, not otherwise.)
OnlyReheldOutOfTurn ==
  [][\A d \in DepositIds :
       (deposits[d] # "absent" /\ deposits'[d] # deposits[d] /\ deposits'[d] \notin Allowed[deposits[d]])
         => deposits'[d] = "held"]_vars

=============================================================================
