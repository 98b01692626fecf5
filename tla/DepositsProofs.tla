--------------------------- MODULE DepositsProofs ---------------------------
(***************************************************************************)
(* Proofs about Deposits for any number of deposits, dispatches and         *)
(* handlers: the two invariants of the refund queue hold under every        *)
(* interleaving; when handlers run one at a time, the only change the       *)
(* lifecycle of a deposit forbids is that of the booking confirmation.      *)
(***************************************************************************)
EXTENDS Deposits, FiniteSetTheorems, TLAPS

\* A dispatch belongs to one existing deposit from its insert on.
RowsWellFormed ==
  \A x \in DispatchIds :
    dispatches[x].status # "absent" =>
      dispatches[x].deposit \in DepositIds /\ deposits[dispatches[x].deposit] # "absent"

\* What a handler's locals still say when it writes.
HandlerOK(r) ==
  /\ req[r].pc # "idle" => req[r].deposit \in DepositIds /\ deposits[req[r].deposit] # "absent"
  /\ req[r].pc = "save_deposit" => req[r].to \in {"held", "eligible_for_release", "forfeited"}
  /\ req[r].pc \in {"check_deposit", "save_decision"} =>
       /\ req[r].dispatch \in DispatchIds
       /\ req[r].decision \in DOMAIN Decisions
       /\ dispatches[req[r].dispatch].status # "absent"
       /\ dispatches[req[r].dispatch].deposit = req[r].deposit

\* A handler has just chosen to write status to into deposit d by id.
Starts(r, d, to) ==
  /\ req[r].pc = "idle"
  /\ deposits[d] # "absent"
  /\ req' = [req EXCEPT ![r] = [Idle EXCEPT !.pc = "save_deposit", !.deposit = d, !.to = to]]
  /\ UNCHANGED <<deposits, dispatches>>

\* OneOpenDispatch without counting.
OpenUnique ==
  \A d \in DepositIds, x, y \in DispatchIds : IsOpen(x, d) /\ IsOpen(y, d) => x = y

IInv ==
  /\ TypeOK
  /\ RowsWellFormed
  /\ \A r \in Requests : HandlerOK(r)
  /\ DispatchBacksDeposit
  /\ OpenUnique

\* What a handler read of its deposit is still so; a handler nobody overtook keeps it until it writes.
StillTrue(r) ==
  /\ req[r].pc = "save_deposit" /\ req[r].to # "held" =>
       req[r].to \in Allowed[deposits[req[r].deposit]]
  /\ req[r].pc \in {"find_open", "save_submission"} =>
       deposits[req[r].deposit] = "eligible_for_release"
  /\ req[r].pc = "save_decision" =>
       deposits[req[r].deposit] = Decisions[req[r].decision].depositFrom

-----------------------------------------------------------------------------
(* The constants of the lifecycle *)

LEMMA Statuses ==
  /\ DepositStatuses = {"held", "eligible_for_release", "refund_pending_review",
                        "refund_approved", "refunded", "forfeited"}
  /\ DOMAIN Decisions = {"approve", "reject", "complete"}
  BY DEF DepositStatuses, Allowed, Decisions

\* Each decision leaves the dispatch in the status that backs the deposit's new one, and its own
\* change of the deposit is one the lifecycle allows.
LEMMA DecisionFacts ==
  ASSUME NEW c \in DOMAIN Decisions
  PROVE  /\ Decisions[c].from \in DispatchStatuses
         /\ Decisions[c].to \in DispatchStatuses
         /\ Decisions[c].depositFrom \in DepositStatuses
         /\ Decisions[c].depositTo \in Allowed[Decisions[c].depositFrom]
         /\ \/ Decisions[c].depositTo = "eligible_for_release"
            \/ Decisions[c].depositTo = "refund_approved" /\ Decisions[c].to = "approved"
            \/ Decisions[c].depositTo = "refunded" /\ Decisions[c].to = "completed_without_psp"
         /\ Decisions[c].depositTo \in DepositStatuses
<1>1. CASE c = "approve"
  BY <1>1 DEF Decisions, Decision, Approve, DispatchStatuses, DepositStatuses, Allowed
<1>2. CASE c = "reject"
  BY <1>2 DEF Decisions, Decision, Reject, DispatchStatuses, DepositStatuses, Allowed
<1>3. CASE c = "complete"
  BY <1>3 DEF Decisions, Decision, Complete, DispatchStatuses, DepositStatuses, Allowed
<1>. QED BY <1>1, <1>2, <1>3, Statuses

LEMMA IdleFacts == Idle \in Request /\ Idle.pc = "idle"
  BY DEF Idle, Request, Steps

-----------------------------------------------------------------------------
(* The initial state *)

LEMMA InitIInv == Init => IInv
<1>. SUFFICES ASSUME Init PROVE IInv
  OBVIOUS
<1>1. TypeOK
  BY IdleFacts DEF Init, TypeOK, Dispatch
<1>2. RowsWellFormed /\ OpenUnique /\ \A r \in Requests : HandlerOK(r)
  BY IdleFacts DEF Init, RowsWellFormed, OpenUnique, IsOpen, OpenStatuses, HandlerOK
<1>3. DispatchBacksDeposit
  BY DEF Init, DispatchBacksDeposit
<1>. QED BY <1>1, <1>2, <1>3 DEF IInv

-----------------------------------------------------------------------------
(* Steps that only move a handler *)

\* A step that leaves both tables alone and sets one handler's locals to sound ones.
LEMMA HandlerStep ==
  ASSUME IInv, UNCHANGED <<deposits, dispatches>>,
         NEW r \in Requests, NEW q \in Request, req' = [req EXCEPT ![r] = q],
         HandlerOK(r)'
  PROVE  IInv'
<1>1. TypeOK'
  BY DEF IInv, TypeOK
<1>2. \A s \in Requests : HandlerOK(s)'
  BY DEF IInv, TypeOK, HandlerOK
<1>3. RowsWellFormed' /\ DispatchBacksDeposit' /\ OpenUnique'
  BY DEF IInv, RowsWellFormed, DispatchBacksDeposit, Backed, OpenUnique, IsOpen
<1>. QED BY <1>1, <1>2, <1>3 DEF IInv

\* Every handler that calls, asks or gives up.
LEMMA QuietSteps ==
  ASSUME IInv, NEW r \in Requests,
         \/ \E d \in DepositIds : \/ MarkEligibleForRelease(r, d)
                                  \/ Forfeit(r, d)
                                  \/ ConfirmHoldAfterApprovalPayment(r, d)
                                  \/ SubmitFromEligibleDeposit(r, d)
         \/ \E x \in DispatchIds, c \in DOMAIN Decisions : Decide(r, c, x)
         \/ FindOpen(r) \/ CheckDeposit(r) \/ RollBack(r)
  PROVE  IInv'
<1>. USE IdleFacts DEF Request, Steps
<1>1. ASSUME Finish(r), UNCHANGED <<deposits, dispatches>>
      PROVE  IInv'
  <2>1. HandlerOK(r)'
    BY <1>1 DEF Finish, HandlerOK, IInv, TypeOK
  <2>. QED BY <1>1, <2>1, HandlerStep DEF Finish
<1>2. ASSUME NEW d \in DepositIds, NEW to \in {"held", "eligible_for_release", "forfeited"},
             Starts(r, d, to)
      PROVE  IInv'
  <2>. DEFINE q == [Idle EXCEPT !.pc = "save_deposit", !.deposit = d, !.to = to]
  <2>1. q \in Request
    BY Statuses
  <2>2. req' = [req EXCEPT ![r] = q]
    BY <1>2 DEF Starts
  <2>3. req'[r] = q
    BY <2>2 DEF IInv, TypeOK
  <2>4. q.pc = "save_deposit" /\ q.deposit = d /\ q.to = to
    BY DEF Idle
  <2>5. HandlerOK(r)'
    BY <1>2, <2>3, <2>4 DEF HandlerOK, Starts
  <2>. QED BY <1>2, <2>1, <2>2, <2>5, HandlerStep DEF Starts
<1>3. ASSUME NEW d \in DepositIds, SubmitFromEligibleDeposit(r, d)
      PROVE  IInv'
  <2>. DEFINE q == [Idle EXCEPT !.pc = "find_open", !.deposit = d]
  <2>1. q \in Request /\ q.pc = "find_open" /\ q.deposit = d
    BY DEF Idle
  <2>2. req' = [req EXCEPT ![r] = q]
    BY <1>3 DEF SubmitFromEligibleDeposit
  <2>3. req'[r] = q
    BY <2>2 DEF IInv, TypeOK
  <2>4. HandlerOK(r)'
    BY <1>3, <2>1, <2>3 DEF HandlerOK, SubmitFromEligibleDeposit
  <2>. QED BY <1>3, <2>1, <2>2, <2>4, HandlerStep DEF SubmitFromEligibleDeposit
<1>4. ASSUME NEW x \in DispatchIds, NEW c \in DOMAIN Decisions, Decide(r, c, x)
      PROVE  IInv'
  <2>. DEFINE q == [Idle EXCEPT !.pc = "check_deposit", !.dispatch = x,
                                !.deposit = dispatches[x].deposit, !.decision = c]
  <2>1. dispatches[x].status # "absent"
    BY <1>4, DecisionFacts DEF Decide, DispatchStatuses
  <2>2. dispatches[x].deposit \in DepositIds /\ deposits[dispatches[x].deposit] # "absent"
    BY <2>1 DEF IInv, RowsWellFormed
  <2>3. /\ q \in Request
        /\ q.pc = "check_deposit" /\ q.dispatch = x /\ q.decision = c
        /\ q.deposit = dispatches[x].deposit
    BY <2>2 DEF Idle
  <2>4. req' = [req EXCEPT ![r] = q]
    BY <1>4 DEF Decide
  <2>5. req'[r] = q
    BY <2>4 DEF IInv, TypeOK
  <2>6. HandlerOK(r)'
    BY ZenonT(60), <1>4, <2>1, <2>2, <2>3, <2>5 DEF HandlerOK, Decide
  <2>. QED BY <1>4, <2>3, <2>4, <2>6, HandlerStep DEF Decide
<1>5. ASSUME NEW step \in {"save_submission", "save_decision"}, Goto(r, step),
             step = "save_submission" => req[r].pc = "find_open",
             step = "save_decision" => req[r].pc = "check_deposit",
             UNCHANGED <<deposits, dispatches>>
      PROVE  IInv'
  <2>. DEFINE q == [req[r] EXCEPT !.pc = step]
  <2>1. /\ q \in Request
        /\ q.pc = step /\ q.deposit = req[r].deposit /\ q.dispatch = req[r].dispatch
        /\ q.decision = req[r].decision
    BY DEF IInv, TypeOK
  <2>2. req' = [req EXCEPT ![r] = q]
    BY <1>5 DEF Goto
  <2>3. req'[r] = q
    BY <2>2 DEF IInv, TypeOK
  <2>4. HandlerOK(r)
    BY DEF IInv
  <2>5. HandlerOK(r)'
    BY <1>5, <2>1, <2>3, <2>4 DEF HandlerOK
  <2>. QED BY <1>5, <2>1, <2>2, <2>5, HandlerStep
<1>6. CASE FindOpen(r)
  BY <1>1, <1>5, <1>6 DEF FindOpen
<1>7. CASE CheckDeposit(r)
  BY <1>1, <1>5, <1>7 DEF CheckDeposit
<1>8. CASE RollBack(r)
  BY <1>1, <1>8 DEF RollBack
<1>. QED BY <1>2, <1>3, <1>4, <1>6, <1>7, <1>8 DEF MarkEligibleForRelease, Forfeit, MoveDeposit,
         ConfirmHoldAfterApprovalPayment, Starts
-----------------------------------------------------------------------------
(* Steps that write the tables *)

LEMMA CreateStep ==
  ASSUME IInv, NEW d \in DepositIds, Create(d)
  PROVE  IInv'
<1>1. TypeOK'
  BY Statuses DEF IInv, TypeOK, Create
<1>2. RowsWellFormed' /\ OpenUnique' /\ \A r \in Requests : HandlerOK(r)'
  BY DEF IInv, Create, RowsWellFormed, OpenUnique, IsOpen, HandlerOK
<1>3. DispatchBacksDeposit'
  BY DEF IInv, TypeOK, Create, DispatchBacksDeposit, Backed
<1>. QED BY <1>1, <1>2, <1>3 DEF IInv

\* A late write of a deposit lands in a status that no dispatch has to back.
LEMMA SaveDepositStep ==
  ASSUME IInv, NEW r \in Requests, SaveDeposit(r)
  PROVE  IInv'
<1>1. /\ req[r].deposit \in DepositIds
      /\ req[r].to \in {"held", "eligible_for_release", "forfeited"}
  BY DEF IInv, HandlerOK, SaveDeposit
<1>2. TypeOK'
  BY <1>1, Statuses, IdleFacts DEF IInv, TypeOK, SaveDeposit, Finish
<1>3. \A d \in DepositIds : deposits[d] # "absent" => deposits'[d] # "absent"
  BY <1>1 DEF IInv, TypeOK, SaveDeposit
<1>4. RowsWellFormed' /\ OpenUnique' /\ \A s \in Requests : HandlerOK(s)'
  <2>1. RowsWellFormed'
    BY <1>3 DEF IInv, SaveDeposit, RowsWellFormed
  <2>2. OpenUnique'
    BY DEF IInv, SaveDeposit, OpenUnique, IsOpen
  <2>3. \A s \in Requests : HandlerOK(s)'
    BY <1>3, IdleFacts DEF IInv, TypeOK, SaveDeposit, Finish, HandlerOK
  <2>. QED BY <2>1, <2>2, <2>3
<1>5. DispatchBacksDeposit'
  BY <1>1 DEF IInv, TypeOK, SaveDeposit, DispatchBacksDeposit, Backed
<1>. QED BY <1>2, <1>4, <1>5 DEF IInv

\* A write of one deposit together with one of its dispatches: what the two refund transactions
\* have in common.  Only dispatch x of deposit d changes, and it backs d's new status.
LEMMA PairWrite ==
  ASSUME IInv, NEW r \in Requests, Finish(r),
         NEW d \in DepositIds, NEW x \in DispatchIds,
         NEW status \in DepositStatuses, NEW to \in DispatchStatuses,
         deposits' = [deposits EXCEPT ![d] = status],
         dispatches' = [dispatches EXCEPT ![x] = [status |-> to, deposit |-> d]],
         dispatches[x].status = "absent" \/ dispatches[x].deposit = d,
         to \in OpenStatuses => OpenQueueIndexAllows(x, d),
         status = "refund_pending_review" => to = "pending_review",
         status = "refund_approved" => to = "approved",
         status = "refunded" => to = "completed_without_psp"
  PROVE  IInv'
<1>0. /\ to # "absent"
      /\ deposits'[d] # "absent"
      /\ \A e \in DepositIds : deposits[e] # "absent" => deposits'[e] # "absent"
  BY Statuses DEF DispatchStatuses, IInv, TypeOK
<1>1. TypeOK'
  BY IdleFacts DEF IInv, TypeOK, Finish, Dispatch
<1>2. RowsWellFormed'
  BY <1>0 DEF IInv, TypeOK, RowsWellFormed
<1>3. \A s \in Requests : HandlerOK(s)'
  <2>. SUFFICES ASSUME NEW s \in Requests PROVE HandlerOK(s)'
    OBVIOUS
  <2>1. CASE s = r
    BY <2>1, IdleFacts DEF IInv, TypeOK, Finish, HandlerOK
  <2>2. CASE s # r
    <3>1. req'[s] = req[s] /\ HandlerOK(s)
      BY <2>2 DEF IInv, TypeOK, Finish
    <3>2. ASSUME req[s].pc \in {"check_deposit", "save_decision"}
          PROVE  /\ dispatches'[req[s].dispatch].status # "absent"
                 /\ dispatches'[req[s].dispatch].deposit = req[s].deposit
      BY <1>0, <3>1, <3>2 DEF IInv, TypeOK, HandlerOK
    <3>. QED BY <1>0, <3>1, <3>2 DEF HandlerOK
  <2>. QED BY <2>1, <2>2
<1>4. DispatchBacksDeposit'
  <2>. SUFFICES ASSUME NEW e \in DepositIds
                PROVE  /\ deposits'[e] = "refund_pending_review" => Backed(e, "pending_review")'
                       /\ deposits'[e] = "refund_approved" => Backed(e, "approved")'
                       /\ deposits'[e] = "refunded" => Backed(e, "completed_without_psp")'
    BY DEF DispatchBacksDeposit
  <2>1. CASE e = d
    <3>1. deposits'[e] = status /\ dispatches'[x] = [status |-> to, deposit |-> e]
      BY <2>1 DEF IInv, TypeOK
    <3>. QED BY <3>1 DEF Backed
  <2>2. CASE e # d
    <3>1. deposits'[e] = deposits[e]
      BY <2>2 DEF IInv, TypeOK
    <3>2. ASSUME NEW st \in DispatchStatuses, Backed(e, st)
          PROVE  Backed(e, st)'
      <4>1. PICK y \in DispatchIds : dispatches[y] = [status |-> st, deposit |-> e]
        BY <3>2 DEF Backed
      <4>2. y # x
        BY <2>2, <4>1 DEF DispatchStatuses
      <4>3. dispatches'[y] = dispatches[y]
        BY <4>2 DEF IInv, TypeOK
      <4>. QED BY <4>1, <4>3 DEF Backed
    <3>. QED BY <3>1, <3>2 DEF IInv, DispatchBacksDeposit, DispatchStatuses
  <2>. QED BY <2>1, <2>2
<1>5. OpenUnique'
  <2>. SUFFICES ASSUME NEW e \in DepositIds, NEW y \in DispatchIds, NEW z \in DispatchIds,
                       IsOpen(y, e)', IsOpen(z, e)'
                PROVE  y = z
    BY DEF OpenUnique
  <2>1. ASSUME NEW v \in DispatchIds, v # x
        PROVE  IsOpen(v, e)' = IsOpen(v, e)
    BY <2>1 DEF IInv, TypeOK, IsOpen
  <2>2. IsOpen(x, e)' => e = d /\ OpenQueueIndexAllows(x, e)
    BY DEF IInv, TypeOK, IsOpen
  <2>3. CASE y # x /\ z # x
    BY <2>1, <2>3 DEF IInv, OpenUnique
  <2>4. CASE y = x \/ z = x
    BY <2>1, <2>2, <2>4 DEF OpenQueueIndexAllows
  <2>. QED BY <2>3, <2>4
<1>. QED BY <1>1, <1>2, <1>3, <1>4, <1>5 DEF IInv

LEMMA SaveSubmissionStep ==
  ASSUME IInv, NEW r \in Requests, NEW x \in DispatchIds, SaveSubmission(r, x)
  PROVE  IInv'
<1>1. req[r].deposit \in DepositIds
  BY DEF IInv, HandlerOK, SaveSubmission
<1>2. "refund_pending_review" \in DepositStatuses /\ "pending_review" \in DispatchStatuses
  BY Statuses DEF DispatchStatuses
<1>. QED BY <1>1, <1>2, PairWrite DEF SaveSubmission

LEMMA SaveDecisionStep ==
  ASSUME IInv, NEW r \in Requests, SaveDecision(r)
  PROVE  IInv'
<1>. DEFINE x == req[r].dispatch
            d == req[r].deposit
            c == Decisions[req[r].decision]
<1>1. /\ d \in DepositIds /\ x \in DispatchIds
      /\ req[r].decision \in DOMAIN Decisions
      /\ dispatches[x].deposit = d
  BY DEF IInv, HandlerOK, SaveDecision
<1>2. /\ c.to \in DispatchStatuses /\ c.depositTo \in DepositStatuses
      /\ c.depositTo = "refund_pending_review" => c.to = "pending_review"
      /\ c.depositTo = "refund_approved" => c.to = "approved"
      /\ c.depositTo = "refunded" => c.to = "completed_without_psp"
  BY <1>1, DecisionFacts
<1>3. dispatches' = [dispatches EXCEPT ![x] = [status |-> c.to, deposit |-> d]]
  <2>1. [dispatches[x] EXCEPT !.status = c.to] = [status |-> c.to, deposit |-> d]
    BY <1>1 DEF IInv, TypeOK, Dispatch
  <2>2. dispatches' = [dispatches EXCEPT ![x] = [dispatches[x] EXCEPT !.status = c.to]]
    BY DEF SaveDecision
  <2>. QED BY <2>1, <2>2
<1>4. /\ deposits' = [deposits EXCEPT ![d] = c.depositTo]
      /\ c.to \in OpenStatuses => OpenQueueIndexAllows(x, d)
      /\ Finish(r)
  BY DEF SaveDecision
<1>. QED BY <1>1, <1>2, <1>3, <1>4, PairWrite

LEMMA StepIInv == IInv /\ [Next]_vars => IInv'
<1>. SUFFICES ASSUME IInv, [Next]_vars PROVE IInv'
  OBVIOUS
<1>1. CASE UNCHANGED vars
  BY <1>1 DEF vars, IInv, TypeOK, RowsWellFormed, HandlerOK, DispatchBacksDeposit, Backed,
              OpenUnique, IsOpen
<1>2. ASSUME NEW d \in DepositIds, Create(d) PROVE IInv'
  BY <1>2, CreateStep
<1>3. ASSUME NEW r \in Requests, SaveDeposit(r) PROVE IInv'
  BY <1>3, SaveDepositStep
<1>4. ASSUME NEW r \in Requests, NEW x \in DispatchIds, SaveSubmission(r, x) PROVE IInv'
  BY <1>4, SaveSubmissionStep
<1>5. ASSUME NEW r \in Requests, SaveDecision(r) PROVE IInv'
  BY <1>5, SaveDecisionStep
<1>. QED BY <1>1, <1>2, <1>3, <1>4, <1>5, QuietSteps DEF Next

-----------------------------------------------------------------------------
(* The theorems *)

\* The inductive invariant holds in every reachable state.
THEOREM Invariance == Spec => []IInv
  BY InitIInv, StepIInv, PTL DEF Spec

\* Every variable keeps its type.
THEOREM TypeCorrect == Spec => []TypeOK
<1>1. IInv => TypeOK
  BY DEF IInv
<1>. QED BY <1>1, Invariance, PTL

\* No deposit is under review, approved or refunded without a dispatch that says so, whatever
\* handlers overlap (FinanceRefundDispatchesService).
THEOREM RefundsAreBacked == Spec => []DispatchBacksDeposit
<1>1. IInv => DispatchBacksDeposit
  BY DEF IInv
<1>. QED BY <1>1, Invariance, PTL

\* No deposit ever has two open refunds (refund_dispatches_open_queue_idx).
THEOREM OneOpen == Spec => []OneOpenDispatch
<1>1. ASSUME IInv PROVE OneOpenDispatch
  <2>. SUFFICES ASSUME NEW d \in DepositIds
                PROVE  Cardinality({x \in DispatchIds : IsOpen(x, d)}) <= 1
    BY DEF OneOpenDispatch
  <2>. DEFINE open == {x \in DispatchIds : IsOpen(x, d)}
  <2>1. CASE open = {}
    BY <2>1, FS_EmptySet
  <2>2. CASE open # {}
    <3>1. PICK z : z \in open
      BY <2>2
    <3>2. open = {z}
      BY <1>1, <3>1 DEF IInv, OpenUnique
    <3>3. Cardinality({z}) = 1
      BY FS_Singleton
    <3>. QED BY <3>2, <3>3
  <2>. QED BY <2>1, <2>2
<1>. QED BY <1>1, Invariance, PTL
-----------------------------------------------------------------------------
(* Late writes *)

LEMMA InitStillTrue == Init => \A r \in Requests : StillTrue(r)
  BY IdleFacts DEF Init, StillTrue

\* A handler under way keeps what it read while its deposit keeps its status.
LEMMA StepStillTrue ==
  ASSUME IInv, NEW r \in Requests, StillTrue(r), [Next]_vars,
         req[r].pc # "idle" /\ req'[r].pc # "idle"
           => deposits'[req[r].deposit] = deposits[req[r].deposit]
  PROVE  StillTrue(r)'
<1>. USE DEF StillTrue
<1>0. HandlerOK(r) /\ req \in [Requests -> Request]
  BY DEF IInv, TypeOK
<1>1. CASE req'[r].pc = "idle"
  BY <1>1
<1>2. CASE req'[r] = req[r] /\ req'[r].pc # "idle"
  <2>1. deposits'[req[r].deposit] = deposits[req[r].deposit]
    BY <1>2
  <2>. QED BY <1>2, <2>1
<1>3. ASSUME NEW d \in DepositIds, NEW to \in {"eligible_for_release", "forfeited"},
             MoveDeposit(r, d, to)
      PROVE  StillTrue(r)'
  <2>1. /\ req'[r].pc = "save_deposit" /\ req'[r].deposit = d /\ req'[r].to = to
        /\ to \in Allowed[deposits[d]] /\ UNCHANGED deposits
    BY <1>3 DEF MoveDeposit, MayMove, Idle, IInv, TypeOK
  <2>. QED BY <2>1
<1>4. ASSUME NEW d \in DepositIds, SubmitFromEligibleDeposit(r, d) PROVE StillTrue(r)'
  <2>1. /\ req'[r].pc = "find_open" /\ req'[r].deposit = d
        /\ deposits[d] = "eligible_for_release" /\ UNCHANGED deposits
    BY <1>4 DEF SubmitFromEligibleDeposit, Idle, IInv, TypeOK
  <2>. QED BY <2>1
<1>5. ASSUME NEW x \in DispatchIds, NEW c \in DOMAIN Decisions, Decide(r, c, x)
      PROVE  StillTrue(r)'
  <2>1. req'[r].pc = "check_deposit"
    BY <1>5 DEF Decide, Idle, IInv, TypeOK
  <2>. QED BY <2>1
<1>6. ASSUME Finish(r) PROVE StillTrue(r)'
  BY <1>6, IdleFacts DEF Finish, IInv, TypeOK
<1>7. CASE FindOpen(r)
  BY <1>0, <1>6, <1>7 DEF FindOpen, Goto, IInv, TypeOK, Request
<1>8. CASE CheckDeposit(r)
  BY <1>0, <1>6, <1>8 DEF CheckDeposit, Goto, IInv, TypeOK, Request
<1>9. ASSUME NEW x \in DispatchIds, SaveSubmission(r, x) PROVE StillTrue(r)'
  BY <1>6, <1>9 DEF SaveSubmission
<1>10. CASE SaveDeposit(r) \/ SaveDecision(r) \/ RollBack(r)
  BY <1>6, <1>10 DEF SaveDeposit, SaveDecision, RollBack
<1>13. ASSUME NEW d \in DepositIds, ConfirmHoldAfterApprovalPayment(r, d) PROVE StillTrue(r)'
  <2>1. req'[r].pc = "save_deposit" /\ req'[r].to = "held"
    BY <1>13 DEF ConfirmHoldAfterApprovalPayment, Idle, IInv, TypeOK
  <2>. QED BY <2>1
<1>11. ASSUME NEW d \in DepositIds, Create(d) PROVE req'[r] = req[r]
  BY <1>11 DEF Create
<1>12. ASSUME NEW s \in Requests, s # r, req'[r] # req[r],
              \/ \E d \in DepositIds : \/ MarkEligibleForRelease(s, d)
                                       \/ Forfeit(s, d)
                                       \/ ConfirmHoldAfterApprovalPayment(s, d)
                                       \/ SubmitFromEligibleDeposit(s, d)
              \/ \E x \in DispatchIds : \/ SaveSubmission(s, x)
                                        \/ \E c \in DOMAIN Decisions : Decide(s, c, x)
              \/ SaveDeposit(s) \/ FindOpen(s) \/ CheckDeposit(s) \/ SaveDecision(s) \/ RollBack(s)
       PROVE  FALSE
  BY <1>0, <1>12 DEF MarkEligibleForRelease, Forfeit, MoveDeposit, SubmitFromEligibleDeposit, SaveSubmission,
     ConfirmHoldAfterApprovalPayment, Decide, SaveDeposit, FindOpen, CheckDeposit, SaveDecision, RollBack,
     Finish, Goto
<1>. QED BY <1>1, <1>2, <1>3, <1>4, <1>5, <1>7, <1>8, <1>9, <1>10, <1>11, <1>12, <1>13
         DEF Next, vars, MarkEligibleForRelease, Forfeit

\* A change the lifecycle forbids, other than one back to held, is the last write of a handler
\* whose read is no longer true.
LEMMA StepLifecycle ==
  ASSUME IInv, [Next]_vars, NEW d \in DepositIds,
         deposits[d] # "absent", deposits'[d] # deposits[d], deposits'[d] \notin Allowed[deposits[d]],
         deposits'[d] # "held"
  PROVE  \E r \in Requests : req[r].deposit = d /\ req'[r].pc = "idle" /\ ~StillTrue(r)
<1>1. \/ \E e \in DepositIds : Create(e)
      \/ \E r \in Requests : \/ SaveDeposit(r) \/ SaveDecision(r)
                               \/ \E x \in DispatchIds : SaveSubmission(r, x)
  BY DEF Next, vars, MarkEligibleForRelease, Forfeit, MoveDeposit, SubmitFromEligibleDeposit,
         ConfirmHoldAfterApprovalPayment, Decide, FindOpen, CheckDeposit, RollBack
<1>2. ASSUME NEW e \in DepositIds, Create(e) PROVE FALSE
  BY <1>2 DEF Create, IInv, TypeOK
<1>3. ASSUME NEW r \in Requests, SaveDeposit(r)
      PROVE  req[r].deposit = d /\ req'[r].pc = "idle" /\ ~StillTrue(r)
  BY <1>3, IdleFacts DEF SaveDeposit, Finish, StillTrue, IInv, TypeOK
<1>4. ASSUME NEW r \in Requests, NEW x \in DispatchIds, SaveSubmission(r, x)
      PROVE  req[r].deposit = d /\ req'[r].pc = "idle" /\ ~StillTrue(r)
  <2>1. req[r].deposit = d /\ req'[r].pc = "idle" /\ deposits'[d] = "refund_pending_review"
    BY <1>4, IdleFacts DEF SaveSubmission, Finish, IInv, TypeOK
  <2>2. deposits[d] # "eligible_for_release"
    BY <2>1 DEF Allowed
  <2>. QED BY <1>4, <2>1, <2>2 DEF SaveSubmission, StillTrue
<1>5. ASSUME NEW r \in Requests, SaveDecision(r)
      PROVE  req[r].deposit = d /\ req'[r].pc = "idle" /\ ~StillTrue(r)
  <2>1. HandlerOK(r)
    BY DEF IInv
  <2>2. /\ req[r].deposit = d /\ req'[r].pc = "idle"
        /\ deposits'[d] = Decisions[req[r].decision].depositTo
        /\ req[r].decision \in DOMAIN Decisions
    BY <1>5, <2>1, IdleFacts DEF SaveDecision, Finish, HandlerOK, IInv, TypeOK
  <2>3. deposits[d] # Decisions[req[r].decision].depositFrom
    BY <2>2, DecisionFacts
  <2>. QED BY <1>5, <2>2, <2>3 DEF SaveDecision, StillTrue
<1>. QED BY <1>1, <1>2, <1>3, <1>4, <1>5

\* When handlers run one at a time, a stored change that ALLOWED of deposit-lifecycle.ts forbids is
\* the booking confirmation's write of held, which asks nothing: the undone forfeitures and
\* refunds that the finance services' own late writes cause are due to interleaving alone.
THEOREM SerialLifecycle ==
  ASSUME \A r, s \in Requests : r = s
  PROVE  Spec => OnlyReheldOutOfTurn
<1>. DEFINE Still == \A r \in Requests : StillTrue(r)
            Moves == \A d \in DepositIds :
                       (deposits[d] # "absent" /\ deposits'[d] # deposits[d]
                          /\ deposits'[d] \notin Allowed[deposits[d]]) => deposits'[d] = "held"
<1>1. Init => Still
  BY InitStillTrue
<1>2. IInv /\ Still /\ [Next]_vars => Still'
  <2>. SUFFICES ASSUME IInv, Still, [Next]_vars, NEW r \in Requests, req[r].pc # "idle", req'[r].pc # "idle"
                PROVE  deposits'[req[r].deposit] = deposits[req[r].deposit]
    BY StepStillTrue
  <2>1. req[r].deposit \in DepositIds /\ deposits[req[r].deposit] # "absent"
    BY DEF IInv, HandlerOK
  <2>2. ASSUME NEW d \in DepositIds, Create(d) PROVE deposits'[req[r].deposit] = deposits[req[r].deposit]
    BY <2>1, <2>2 DEF Create, IInv, TypeOK
  <2>3. ASSUME Finish(r) PROVE FALSE
    BY <2>3, IdleFacts DEF Finish, IInv, TypeOK
  <2>. QED BY <2>2, <2>3 DEF Next, vars, MarkEligibleForRelease, Forfeit, MoveDeposit,
       SubmitFromEligibleDeposit, ConfirmHoldAfterApprovalPayment, Decide, FindOpen, CheckDeposit, SaveSubmission,
       SaveDeposit, SaveDecision, RollBack
<1>3. IInv /\ Still /\ [Next]_vars => [Moves]_vars
  BY StepLifecycle
<1>. HIDE DEF Still, Moves
<1>4. Spec => [][Moves]_vars
  BY <1>1, <1>2, <1>3, Invariance, PTL DEF Spec
<1>. QED BY <1>4 DEF Moves, OnlyReheldOutOfTurn

=============================================================================
