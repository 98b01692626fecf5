--------------------------- MODULE ApplicationDesk ---------------------------
(***************************************************************************)
(* An approved application on its way to closure: the department head's     *)
(* payment link, payments the citizen opens on the pending line, their      *)
(* completion, the system's transitions that follow, the work order, and    *)
(* the citizen's other calls.                                               *)
(*                                                                         *)
(* The workflow is data, a set of edges; an edge is followed by evaluating  *)
(* it on a copy of the application's snapshot and writing the whole copy    *)
(* back later.  Desk staff, the citizen and the payment completion do that  *)
(* without a lock.  The payment tables are the abstract FeeAccount that     *)
(* Payments implements; the service's schedule is deferred_only.            *)
(***************************************************************************)
EXTENDS Naturals, FiniteSets

CONSTANTS
  Applications,
  CitizenPayments,   \* payments citizens may open under idempotency keys of their own
  Requests,      \* API handlers that can be in flight at one time
  MaxCrashes,    \* handlers that die in one behaviour
  MaxElsewhere,  \* work orders issued for applications outside the model
  None

ASSUME NoneAssumption    == None \notin Applications \cup CitizenPayments
ASSUME FiniteAssumption  == IsFiniteSet(Applications)
ASSUME BoundAssumption   == MaxCrashes \in Nat /\ MaxElsewhere \in Nat

\* The desk's link uses the key desk-payment:<application>:approval: the application stands for
\* the one payment that key can have.
PaymentIds == Applications \cup CitizenPayments

-----------------------------------------------------------------------------
(* The workflow: the post-approval blocks of the designer's templates *)

Edge(from, verb, to, actor, guard) ==
  [from |-> from, verb |-> verb, to |-> to, actor |-> actor, guard |-> guard]

Edges == {
  Edge("dept-head-final",   "forward",         "payment-pending",   "staff",   "none"),
  Edge("dept-head-final",   "reject",          "rejected",          "staff",   "none"),
  Edge("payment-pending",   "confirm-payment", "payment-received",  "system",  "payment_paid"),
  Edge("payment-received",  "forward",         "work-order-issued", "system",  "approval_fee_paid"),
  Edge("work-order-issued", "forward",         "work-in-progress",  "staff",   "approval_fee_paid"),
  Edge("work-in-progress",  "forward",         "work-completed",    "staff",   "approval_fee_paid"),
  Edge("work-completed",    "forward",         "citizen-feedback",  "staff",   "approval_fee_paid"),
  Edge("citizen-feedback",  "submit-feedback", "closed",            "citizen", "none") }

Verbs      == {e.verb : e \in Edges}
Executing  == {"work-order-issued", "work-in-progress", "work-completed", "citizen-feedback", "closed"}
StageCodes == {e.from : e \in Edges} \cup {e.to : e \in Edges} \cup {"withdrawn"}

\* The part of the runtime snapshot the workflow looks at: the stage and the approval fee.
Snapshot  == [stage : StageCodes, fee : {"not_required", "pending", "paid"}]
OrderStatuses == {"issued", "assigned", "in_progress", "completed"}
Numbers   == 0 .. (Cardinality(Applications) + MaxElsewhere)
WorkOrder == [no : Numbers, status : {"absent"} \cup OrderStatuses]

Saves == {"save_desk", "save_patch", "save_paid", "save_confirm", "save_forward", "save_citizen"}
Request == [pc    : Saves \cup {"idle", "link", "find", "open", "patch", "settle", "paid", "advance", "refresh",
                                "find_order", "insert_order", "sync", "assign"},
            app   : Applications \cup {None},
            payment : PaymentIds \cup {None},          \* the payment it opens or completes
            seen  : Snapshot,                          \* the snapshot it last read or wrote
            next  : Snapshot,                          \* the snapshot it is about to write
            order : WorkOrder]                         \* the work order it read or will insert

VARIABLES
  app,         \* runtime_snapshot of each application
  slot, posted, used,   \* the approval line's payments, see FeeAccount
  workOrder,   \* the work_orders table, at most one row for each application
  elsewhere,   \* the numbers of the other work orders of the tenant and year
  req,         \* handlers in flight
  visited,     \* (observation) the stages of the workflow each application has shown
  disturbed,   \* (observation) applications some handler failed on, or wrote to late
  crashes      \* (bound) handlers that died

appVars   == <<app, visited>>
feeVars   == <<slot, posted, used>>
orderVars == <<workOrder, elsewhere>>
vars == <<appVars, feeVars, orderVars, req, disturbed, crashes>>

Fee == INSTANCE FeeAccount WITH Lines <- Applications

NoOrder == [no |-> 0, status |-> "absent"]
Arrived == [stage |-> "dept-head-final", fee |-> "not_required"]
Idle    == [pc |-> "idle", app |-> None, payment |-> None, seen |-> Arrived, next |-> Arrived, order |-> NoOrder]

TypeOK ==
  /\ app \in [Applications -> Snapshot]
  /\ visited \in [Applications -> SUBSET StageCodes]
  /\ slot \in [Applications -> PaymentIds \cup {None}]
  /\ posted \in [Applications -> SUBSET PaymentIds]
  /\ used \in SUBSET PaymentIds
  /\ workOrder \in [Applications -> WorkOrder]
  /\ elsewhere \in SUBSET Numbers
  /\ req \in [Requests -> Request]
  /\ disturbed \in SUBSET Applications
  /\ crashes \in 0 .. MaxCrashes

Init ==
  /\ app = [a \in Applications |-> Arrived]
  /\ visited = [a \in Applications |-> {Arrived.stage}]
  /\ Fee!Init
  /\ workOrder = [a \in Applications |-> NoOrder]
  /\ elsewhere = {}
  /\ req = [r \in Requests |-> Idle]
  /\ disturbed = {}
  /\ crashes = 0

-----------------------------------------------------------------------------
(* evaluateTransition *)

\* rollupPaymentStatus makes payment_status follow the approval line of a deferred_only service.
GuardHolds(guard, doc) ==
  CASE guard = "payment_paid"      -> doc.fee = "paid"
    [] guard = "approval_fee_paid" -> doc.fee \in {"paid", "not_required"}
    [] OTHER                       -> TRUE

\* Mutant: the verb alone selects the edge.
VerbSelects(e, stage, verb) == e.verb = verb

Selects(e, stage, verb) == e.from = stage /\ e.verb = verb

\* The edges an actor may follow from the stage of a snapshot; at most one.
Permitted(doc, verb, actor) ==
  {e \in Edges : Selects(e, doc.stage, verb) /\ e.actor = actor /\ GuardHolds(e.guard, doc)}

-----------------------------------------------------------------------------
(* Steps all handlers share *)

Begin(r, step, a, next) ==
  /\ req[r].pc = "idle"
  /\ req' = [req EXCEPT ![r] = [Idle EXCEPT !.pc = step, !.app = a, !.seen = app[a], !.next = next]]

Goto(r, step) == req' = [req EXCEPT ![r].pc = step]
Finish(r)     == req' = [req EXCEPT ![r] = Idle]

\* Read the application again and prepare to write it.
ReadAgain(r, step, next) ==
  req' = [req EXCEPT ![r] = [@ EXCEPT !.pc = step, !.seen = app[req[r].app], !.next = next]]

Disturb(a)   == disturbed' = disturbed \cup {a}
Overtaken(r) == app[req[r].app] # req[r].seen

\* What follows a save of each kind.
AfterSave(r) ==
  LET to == req[r].next.stage
  IN CASE req[r].pc = "save_desk" /\ to = "payment-pending" -> "link"
       [] req[r].pc = "save_desk" /\ to \in {"work-in-progress", "work-completed"} -> "sync"
       [] req[r].pc = "save_paid" -> "advance"
       [] req[r].pc = "save_confirm" -> "refresh"
       [] req[r].pc = "save_forward" -> "find_order"
       [] OTHER -> "idle"

\* The whole snapshot is written, whatever the row holds by now.
SaveApplication(r) ==
  LET a == req[r].app
  IN /\ req[r].pc \in Saves
     /\ app' = [app EXCEPT ![a] = req[r].next]
     /\ visited' = [visited EXCEPT ![a] = @ \cup ({req[r].next.stage} \ {"withdrawn"})]
     /\ req' = [req EXCEPT ![r] = IF AfterSave(r) = "idle" THEN Idle
                                  ELSE [Idle EXCEPT !.pc = AfterSave(r), !.app = a, !.seen = req[r].next]]
     /\ IF Overtaken(r) \/ (app[a].fee = "paid" /\ req[r].next.fee # "paid")
        THEN Disturb(a) ELSE UNCHANGED disturbed
     /\ UNCHANGED <<feeVars, orderVars, crashes>>

-----------------------------------------------------------------------------
(* The desk: transitionDeskApplication and issueDeskPaymentLink *)

TransitionDeskApplication(r, a) ==
  /\ \E verb \in Verbs : \E e \in Permitted(app[a], verb, "staff") :
       Begin(r, "save_desk", a, [app[a] EXCEPT !.stage = e.to])
  /\ UNCHANGED <<appVars, feeVars, orderVars, disturbed, crashes>>

\* A paid line is an error and an open payment is returned as it is: both end the call.
IssueDeskPaymentLink(r) ==
  LET a == req[r].app
  IN /\ req[r].pc = "link"
     /\ IF app[a].fee = "paid" \/ slot[a] # None THEN Finish(r)
        ELSE req' = [req EXCEPT ![r].pc = "open", ![r].payment = a]
     /\ UNCHANGED <<appVars, feeVars, orderVars, disturbed, crashes>>

\* createPendingPayment: the partial unique index keeps one open payment on the line, and a key
\* that has been used refuses another.
OpenPayment(r) ==
  LET a == req[r].app
  IN /\ req[r].pc = "open"
     /\ IF slot[a] = None /\ req[r].payment \notin used
        THEN Fee!Open(a, req[r].payment) /\ Goto(r, "patch")
        ELSE UNCHANGED feeVars /\ Finish(r)
     /\ UNCHANGED <<appVars, orderVars, disturbed, crashes>>

\* updateFeeLineSettlementForTenant, or updateFeeLineSettlement after the citizen's own call.
ReadForPatch(r) ==
  /\ req[r].pc = "patch"
  /\ ReadAgain(r, "save_patch", [app[req[r].app] EXCEPT !.fee = "pending"])
  /\ UNCHANGED <<appVars, feeVars, orderVars, disturbed, crashes>>

-----------------------------------------------------------------------------
(* initiate, completeStubPayment and tryAdvancePostApprovalOnPaymentPaid *)

\* The citizen opens a payment on the pending line under a key of his own.  The line is judged as
\* it was read, before the look for an open payment.
Initiate(r, a, p) ==
  /\ app[a].fee = "pending"
  /\ p \notin used
  /\ req[r].pc = "idle"
  /\ req' = [req EXCEPT ![r] = [Idle EXCEPT !.pc = "find", !.app = a, !.payment = p]]
  /\ UNCHANGED <<appVars, feeVars, orderVars, disturbed, crashes>>

\* An open payment is returned as it is.
FindActivePayment(r) ==
  /\ req[r].pc = "find"
  /\ IF slot[req[r].app] # None THEN Finish(r) ELSE Goto(r, "open")
  /\ UNCHANGED <<appVars, feeVars, orderVars, disturbed, crashes>>

\* Mutant: the line is marked paid before the ledger is settled.
FirstStepPaid == "paid"

FirstStep == "settle"

CompleteStubPayment(r, a) ==
  /\ slot[a] # None
  /\ req[r].pc = "idle"
  /\ req' = [req EXCEPT ![r] = [Idle EXCEPT !.pc = FirstStep, !.app = a, !.payment = slot[a]]]
  /\ UNCHANGED <<appVars, feeVars, orderVars, disturbed, crashes>>

SettleStubLedger(r) ==
  LET a == req[r].app
  IN /\ req[r].pc = "settle"
     /\ IF slot[a] = req[r].payment
        THEN Fee!Capture(a) /\ Goto(r, "paid")
        ELSE UNCHANGED feeVars /\ Finish(r)
     /\ UNCHANGED <<appVars, orderVars, disturbed, crashes>>

\* updateFeeLineSettlement reads the application and saves it with the line paid.
ReadForPaid(r) ==
  /\ req[r].pc = "paid"
  /\ ReadAgain(r, "save_paid", [app[req[r].app] EXCEPT !.fee = "paid"])
  /\ UNCHANGED <<appVars, feeVars, orderVars, disturbed, crashes>>

\* Mutant: looks for the stage the confirmation leads to.
AwaitsConfirmed(doc) == doc.stage = "payment-received" /\ doc.fee # "pending"

AwaitsPayment(doc) == doc.stage = "payment-pending" /\ doc.fee # "pending"

\* A system transition on what is read now, or the end of the handler.
SystemTransition(r, step, ready, verb) ==
  LET doc == app[req[r].app]
  IN IF ready /\ Permitted(doc, verb, "system") # {}
     THEN \E e \in Permitted(doc, verb, "system") : ReadAgain(r, step, [doc EXCEPT !.stage = e.to])
     ELSE Finish(r)

TryAdvance(r) ==
  /\ req[r].pc = "advance"
  /\ SystemTransition(r, "save_confirm", AwaitsPayment(app[req[r].app]), "confirm-payment")
  /\ UNCHANGED <<appVars, feeVars, orderVars, disturbed, crashes>>

Refresh(r) ==
  /\ req[r].pc = "refresh"
  /\ SystemTransition(r, "save_forward", app[req[r].app].stage = "payment-received", "forward")
  /\ UNCHANGED <<appVars, feeVars, orderVars, disturbed, crashes>>

-----------------------------------------------------------------------------
(* Work orders *)

Issued == {a \in Applications : workOrder[a].status # "absent"}

Taken  == {workOrder[a].no : a \in Issued} \cup elsewhere

\* createForApplication: nothing to do for an application that has one, else the next number.
FindWorkOrder(r) ==
  /\ req[r].pc = "find_order"
  /\ IF req[r].app \in Issued
     THEN Finish(r)
     ELSE req' = [req EXCEPT ![r].pc = "insert_order",
                             ![r].order = [no |-> Cardinality(Taken) + 1, status |-> "issued"]]
  /\ UNCHANGED <<appVars, feeVars, orderVars, disturbed, crashes>>

\* One row for an application and one for a number.
OrderIndexesAllow(a, no) == a \notin Issued /\ no \notin Taken

\* The insert of a used number throws, and nobody catches it.
InsertWorkOrder(r) ==
  LET a == req[r].app
  IN /\ req[r].pc = "insert_order"
     /\ IF OrderIndexesAllow(a, req[r].order.no)
        THEN /\ workOrder' = [workOrder EXCEPT ![a] = req[r].order]
             /\ IF Overtaken(r) THEN Disturb(a) ELSE UNCHANGED disturbed
        ELSE UNCHANGED workOrder /\ Disturb(a)
     /\ Finish(r)
     /\ UNCHANGED <<appVars, feeVars, elsewhere, crashes>>

\* A work order of an application outside the model is issued; once every application has its own
\* order, the numbers of others no longer matter.
IssueElsewhere ==
  /\ Issued # Applications
  /\ Cardinality(elsewhere) < MaxElsewhere
  /\ elsewhere' = elsewhere \cup {Cardinality(Taken) + 1}
  /\ UNCHANGED <<appVars, feeVars, workOrder, req, disturbed, crashes>>

\* Mutant: the stage's code is taken for the status.
StageAsStatus(stage, status) == stage

\* Mutant: only the start of the work reaches the work order.
StartOnly(stage, status) == IF stage = "work-in-progress" THEN "in_progress" ELSE status

StatusAt(stage, status) ==
  CASE stage = "work-in-progress" -> "in_progress"
    [] stage = "work-completed"   -> "completed"

\* syncWorkOrderStatusForStage: the row, if there is one, is updated by its id.
SyncWorkOrder(r) ==
  LET a == req[r].app
  IN /\ req[r].pc = "sync"
     /\ workOrder' = IF a \in Issued
                     THEN [workOrder EXCEPT ![a].status = StatusAt(req[r].seen.stage, @)]
                     ELSE workOrder
     /\ IF Overtaken(r) THEN Disturb(a) ELSE UNCHANGED disturbed
     /\ Finish(r)
     /\ UNCHANGED <<appVars, feeVars, elsewhere, crashes>>

AssignDeskWorkOrder(r, a) ==
  /\ a \in Issued
  /\ req[r].pc = "idle"
  /\ req' = [req EXCEPT ![r] = [Idle EXCEPT !.pc = "assign", !.app = a, !.order = workOrder[a]]]
  /\ UNCHANGED <<appVars, feeVars, orderVars, disturbed, crashes>>

\* The status it read is written back unless the work has not begun.
SaveAssignment(r) ==
  LET a  == req[r].app
      to == IF req[r].order.status \in {"issued", "assigned"} THEN "assigned" ELSE req[r].order.status
  IN /\ req[r].pc = "assign"
     /\ workOrder' = [workOrder EXCEPT ![a].status = to]
     /\ IF workOrder[a] # req[r].order THEN Disturb(a) ELSE UNCHANGED disturbed
     /\ Finish(r)
     /\ UNCHANGED <<appVars, feeVars, elsewhere, crashes>>

-----------------------------------------------------------------------------
(* The citizen's calls *)

\* cancel asks nothing but whether the application has been withdrawn already.
Cancel(r, a) ==
  /\ app[a].stage # "withdrawn"
  /\ Begin(r, "save_citizen", a, [app[a] EXCEPT !.stage = "withdrawn"])
  /\ UNCHANGED <<appVars, feeVars, orderVars, disturbed, crashes>>

\* comment and mergeDocument save the snapshot they read, with one item more.
Comment(r, a) ==
  /\ Begin(r, "save_citizen", a, app[a])
  /\ UNCHANGED <<appVars, feeVars, orderVars, disturbed, crashes>>

SubmitFeedback(r, a) ==
  /\ app[a].stage = "citizen-feedback"
  /\ \E e \in Permitted(app[a], "submit-feedback", "citizen") :
       Begin(r, "save_citizen", a, [app[a] EXCEPT !.stage = e.to])
  /\ UNCHANGED <<appVars, feeVars, orderVars, disturbed, crashes>>

-----------------------------------------------------------------------------

\* The process dies, or an awaited call throws, before handler r has finished.
Die(r) ==
  /\ req[r].pc # "idle"
  /\ crashes < MaxCrashes
  /\ crashes' = crashes + 1
  /\ Disturb(req[r].app)
  /\ Finish(r)
  /\ UNCHANGED <<appVars, feeVars, orderVars>>

Call(r) == \E a \in Applications :
  \/ TransitionDeskApplication(r, a) \/ CompleteStubPayment(r, a) \/ AssignDeskWorkOrder(r, a)
  \/ \E p \in CitizenPayments : Initiate(r, a, p)
  \/ Cancel(r, a) \/ Comment(r, a) \/ SubmitFeedback(r, a)

Continue(r) ==
  \/ SaveApplication(r)
  \/ IssueDeskPaymentLink(r) \/ FindActivePayment(r) \/ OpenPayment(r) \/ ReadForPatch(r)
  \/ SettleStubLedger(r) \/ ReadForPaid(r) \/ TryAdvance(r) \/ Refresh(r)
  \/ FindWorkOrder(r) \/ InsertWorkOrder(r) \/ SyncWorkOrder(r) \/ SaveAssignment(r)

Next == IssueElsewhere \/ \E r \in Requests : Call(r) \/ Continue(r) \/ Die(r)

Spec == Init /\ [][Next]_vars

\* The event loop resumes every handler that is not dead; nobody has to call.
FairSpec == Spec /\ \A r \in Requests : WF_vars(Continue(r))

-----------------------------------------------------------------------------
(* What must hold *)

\* No work is ordered, and no stage past the payment is reached, before the approval fee has
\* been collected, however late any handler writes the snapshot it read and whoever dies.
WorkIsPaidFor ==
  \A a \in Applications :
    (a \in Issued \/ app[a].stage \in Executing \cup {"payment-received"}) => posted[a] # {}

\* No stage is skipped: whatever handlers overtake each other, or revive a withdrawn application
\* with the snapshot they hold, a stage of the workflow is shown only when one that leads to it
\* was shown before.
StagesInOrder ==
  \A a \in Applications : \A stage \in visited[a] \ {Arrived.stage} :
    \E e \in Edges : e.to = stage /\ e.from \in visited[a]

Quiet(a) == a \notin disturbed /\ \A r \in Requests : req[r].app # a

\* Between calls, the documents, the payments and the work order of an undisturbed application
\* agree: the line is paid when a payment was collected, and only then, and pending only while one
\* is open; a stage past the payment has its work order, in the status the stage says.  A payment
\* may still be open on a paid line: the citizen opened it between the settlement of another and
\* the write of the line.
QuietIsConsistent ==
  \A a \in Applications : Quiet(a) =>
    /\ app[a].fee = "paid" <=> posted[a] # {}
    /\ app[a].fee = "pending" => slot[a] # None
    /\ slot[a] # None => app[a].fee # "not_required"
    /\ app[a].stage # "payment-received"
    /\ app[a].stage \in Executing => a \in Issued
    /\ app[a].stage = "work-in-progress" => workOrder[a].status = "in_progress"
    /\ app[a].stage \in {"work-completed", "citizen-feedback", "closed"} => workOrder[a].status = "completed"

\* An application whose fee was collected does not stay in payment-pending.
CollectedMovesOn ==
  \A a \in Applications :
    (posted[a] # {} /\ app[a].stage = "payment-pending")
      ~> (app[a].stage # "payment-pending" \/ a \in disturbed)

=============================================================================
