------------------------ MODULE ApplicationDeskProofs ------------------------
(***************************************************************************)
(* Proofs about ApplicationDesk for any number of applications, handlers,   *)
(* payments, crashes and work orders elsewhere: nothing is ordered, and no  *)
(* stage past the payment reached, before the fee is collected; no stage is *)
(* skipped; and between calls document, payments and work order agree.      *)
(*                                                                         *)
(* Handlers write whole snapshots they read long before, so the invariant   *)
(* speaks of the snapshots in their hands as well as of those stored, and   *)
(* of who is on the way to supply what an application still lacks.          *)
(***************************************************************************)
EXTENDS ApplicationDesk, FiniteSetTheorems, TLAPS

PaidStages == Executing \cup {"payment-received"}

\* A snapshot of application a that shows a collected fee, or a stage past the payment, is
\* backed by a posted payment.
Backed(a, doc) == (doc.fee = "paid" \/ doc.stage \in PaidStages) => posted[a] # {}

Follows(from, to) == to \in {from, "withdrawn"} \/ \E e \in Edges : e.from = from /\ e.to = to

\* Application a has shown the stage.
Shown(a, stage) == stage \in visited[a] \cup {"withdrawn"}

\* The steps that come only after the settlement, or after a work order was found.
AfterSettlement == {"paid", "save_forward", "find_order", "insert_order", "assign"}

\* What the locals q of a handler in flight still say when it writes.
Sound(q) ==
  q.pc # "idle" =>
    /\ q.app \in Applications
    /\ Backed(q.app, q.next)
    /\ q.pc \in AfterSettlement => posted[q.app] # {}
    /\ q.pc = "sync" => q.seen.stage \in {"work-in-progress", "work-completed"}
    /\ q.pc \in {"find", "open"} => q.payment # None
    /\ q.pc \in Saves => Follows(q.seen.stage, q.next.stage) /\ Shown(q.app, q.seen.stage)

DocumentsBacked == \A a \in Applications : Backed(a, app[a])
StagesShown     == StagesInOrder /\ \A a \in Applications : Shown(a, app[a].stage)
OrdersBacked    == \A a \in Issued : posted[a] # {}
ElsewhereFinite == IsFiniteSet(elsewhere) /\ Cardinality(elsewhere) <= MaxElsewhere

IInv ==
  /\ TypeOK
  /\ DocumentsBacked
  /\ StagesShown
  /\ OrdersBacked
  /\ ElsewhereFinite
  /\ \A r \in Requests : Sound(req[r])

-----------------------------------------------------------------------------
(* The workflow and the constants *)

\* Every edge leads to a known stage; one into a paid stage starts in another or asks for the
\* payment.
LEMMA EdgeFacts ==
  \A e \in Edges : /\ e.to \in StageCodes
                   /\ e.to \in PaidStages => e.from \in PaidStages \/ e.guard = "payment_paid"
<1>1. \A e \in Edges : e.to \in StageCodes
  BY DEF StageCodes
<1>2. \A e \in Edges : e.to \in PaidStages => e.from \in PaidStages \/ e.guard = "payment_paid"
  BY DEF Edges, Edge, PaidStages, Executing
<1>. QED BY <1>1, <1>2

LEMMA StageFacts ==
  /\ {"dept-head-final", "payment-pending", "withdrawn"} \subseteq StageCodes
  /\ {"dept-head-final", "payment-pending", "withdrawn"} \cap PaidStages = {}
<1>1. Edge("dept-head-final", "forward", "payment-pending", "staff", "none") \in Edges
  BY DEF Edges
<1>2. {"dept-head-final", "payment-pending", "withdrawn"} \subseteq StageCodes
  BY <1>1 DEF StageCodes, Edge
<1>. QED BY <1>2 DEF PaidStages, Executing

LEMMA NumberFacts == Cardinality(Applications) + MaxElsewhere \in Nat /\ 0 \in Numbers
  BY FiniteAssumption, BoundAssumption, FS_CardinalityType DEF Numbers

LEMMA IdleFacts ==
  Idle \in Request /\ Idle.pc = "idle" /\ Arrived \in Snapshot /\ NoOrder \in WorkOrder
<1>1. Arrived \in Snapshot
  BY StageFacts DEF Arrived, Snapshot
<1>2. NoOrder \in WorkOrder
  BY NumberFacts DEF NoOrder, WorkOrder
<1>. QED BY <1>1, <1>2 DEF Idle, Request

\* A permitted edge keeps a backed snapshot backed, and its stage follows the old one.
LEMMA PermittedFacts ==
  ASSUME NEW a \in Applications, NEW doc \in Snapshot, Backed(a, doc),
         NEW verb, NEW actor, NEW e \in Permitted(doc, verb, actor)
  PROVE  LET new == [doc EXCEPT !.stage = e.to]
         IN /\ new \in Snapshot
            /\ new.stage = e.to
            /\ Backed(a, new)
            /\ Follows(doc.stage, new.stage)
<1>. DEFINE new == [doc EXCEPT !.stage = e.to]
<1>1. e \in Edges /\ e.from = doc.stage /\ GuardHolds(e.guard, doc)
  BY DEF Permitted, Selects
<1>2. new.stage = e.to /\ new.fee = doc.fee /\ new \in Snapshot
  BY <1>1, EdgeFacts DEF Snapshot
<1>3. Backed(a, new)
  BY <1>1, <1>2, EdgeFacts DEF Backed, GuardHolds
<1>4. Follows(doc.stage, new.stage)
  BY <1>1, <1>2 DEF Follows
<1>. QED BY <1>2, <1>3, <1>4

\* A fresh number is one of Numbers while the count of the orders allows it.
LEMMA TakenBound ==
  ASSUME TypeOK, ElsewhereFinite
  PROVE  /\ IsFiniteSet(Issued) /\ Cardinality(Issued) \in Nat
         /\ Cardinality(elsewhere) \in Nat /\ Cardinality(Taken) \in Nat
         /\ Cardinality(Taken) <= Cardinality(Issued) + Cardinality(elsewhere)
<1>. DEFINE numbers == {workOrder[a].no : a \in Issued}
            f == [a \in Issued |-> workOrder[a].no]
<1>1. IsFiniteSet(Issued)
  BY FiniteAssumption, FS_Subset DEF Issued
<1>2. f \in Surjection(Issued, numbers)
  BY DEF Surjection
<1>3. IsFiniteSet(numbers) /\ Cardinality(numbers) <= Cardinality(Issued)
  <2>. HIDE DEF f, numbers
  <2>. QED BY <1>1, <1>2, FS_Surjection
<1>4. Taken = numbers \cup elsewhere
  BY DEF Taken
<1>5. /\ IsFiniteSet(numbers \cup elsewhere)
      /\ Cardinality(numbers \cup elsewhere)
           = Cardinality(numbers) + Cardinality(elsewhere) - Cardinality(numbers \cap elsewhere)
  <2>. HIDE DEF numbers
  <2>. QED BY <1>3, FS_Union DEF ElsewhereFinite
<1>6. IsFiniteSet(numbers \cap elsewhere)
  <2>. HIDE DEF numbers
  <2>1. numbers \cap elsewhere \in SUBSET elsewhere
    OBVIOUS
  <2>. QED BY <2>1, FS_Subset DEF ElsewhereFinite
<1>7. /\ Cardinality(Issued) \in Nat /\ Cardinality(elsewhere) \in Nat
      /\ Cardinality(numbers) \in Nat /\ Cardinality(numbers \cap elsewhere) \in Nat
      /\ Cardinality(Taken) \in Nat
  <2>. HIDE DEF numbers
  <2>. QED BY <1>1, <1>3, <1>4, <1>5, <1>6, FS_CardinalityType DEF ElsewhereFinite
<1>. HIDE DEF numbers
<1>. QED BY <1>1, <1>3, <1>4, <1>5, <1>7

-----------------------------------------------------------------------------
(* Steps *)

LEMMA InitIInv == Init => IInv
<1>. SUFFICES ASSUME Init PROVE IInv
  OBVIOUS
<1>. USE DEF Init, Fee!Init
<1>1. TypeOK
  <2>1. {Arrived.stage} \subseteq StageCodes
    BY StageFacts DEF Arrived
  <2>. QED BY <2>1, IdleFacts, BoundAssumption DEF TypeOK
<1>2. Issued = {}
  BY DEF Issued, NoOrder
<1>3. DocumentsBacked
  BY StageFacts DEF DocumentsBacked, Backed, Arrived
<1>4. ElsewhereFinite
  BY FS_EmptySet, BoundAssumption DEF ElsewhereFinite
<1>5. \A r \in Requests : Sound(req[r])
  BY IdleFacts DEF Sound
<1>6. StagesShown
  BY DEF StagesShown, StagesInOrder, Shown
<1>. QED BY <1>1, <1>2, <1>3, <1>4, <1>5, <1>6 DEF IInv, OrdersBacked

\* One handler moves to the locals q, or ends, and no posted payment is taken back: its own
\* promises and those of the rows are all there is to show.
LEMMA Step ==
  ASSUME IInv, NEW r \in Requests, NEW q \in Request, req' = [req EXCEPT ![r] = q],
         posted' \in [Applications -> SUBSET PaymentIds],
         \A a \in Applications : posted[a] # {} => posted'[a] # {},
         app' \in [Applications -> Snapshot],
         visited' \in [Applications -> SUBSET StageCodes],
         \A a \in Applications : visited[a] \subseteq visited'[a],
         slot' \in [Applications -> PaymentIds \cup {None}],
         used' \in SUBSET PaymentIds,
         workOrder' \in [Applications -> WorkOrder],
         UNCHANGED elsewhere,
         disturbed' \in SUBSET Applications, crashes' \in 0 .. MaxCrashes,
         DocumentsBacked', StagesShown', OrdersBacked', Sound(q)'
  PROVE  IInv'
<1>1. TypeOK'
  BY DEF IInv, TypeOK
<1>2. ElsewhereFinite'
  BY DEF IInv, ElsewhereFinite
<1>3. ASSUME NEW s \in Requests PROVE Sound(req[s])'
  <2>1. CASE s = r
    <3>1. req'[s] = q
      BY <2>1 DEF IInv, TypeOK
    <3>. QED BY <3>1 DEF Sound, Backed, Shown
  <2>2. CASE s # r
    <3>1. req'[s] = req[s]
      BY <2>2 DEF IInv, TypeOK
    <3>2. Sound(req[s])
      BY DEF IInv
    <3>. QED BY <3>1, <3>2 DEF Sound, Backed, Shown
  <2>. QED BY <2>1, <2>2
<1>. QED BY <1>1, <1>2, <1>3 DEF IInv

\* A step that only moves one handler.
LEMMA HandlerStep ==
  ASSUME IInv, NEW r \in Requests, NEW q \in Request, req' = [req EXCEPT ![r] = q], Sound(q),
         UNCHANGED <<appVars, feeVars, orderVars>>,
         disturbed' \in SUBSET Applications, crashes' \in 0 .. MaxCrashes
  PROVE  IInv'
<1>. USE DEF appVars, feeVars, orderVars
<1>1. TypeOK
  BY DEF IInv
<1>2. DocumentsBacked' /\ StagesShown'
  BY DEF IInv, DocumentsBacked, Backed, StagesShown, StagesInOrder, Shown
<1>3. OrdersBacked'
  BY DEF IInv, OrdersBacked, Issued
<1>4. Sound(q)'
  BY DEF Sound, Backed, Shown
<1>. QED BY <1>1, <1>2, <1>3, <1>4, Step DEF TypeOK

LEMMA FinishSound == Sound(Idle)
  BY IdleFacts DEF Sound

\* A handler that starts on application a with a snapshot of it and a next one that is sound.
LEMMA BeginStep ==
  ASSUME IInv, NEW r \in Requests, NEW a \in Applications, NEW next \in Snapshot,
         NEW step \in {"save_desk", "save_citizen"},
         Begin(r, step, a, next), Backed(a, next), Follows(app[a].stage, next.stage),
         UNCHANGED <<appVars, feeVars, orderVars, disturbed, crashes>>
  PROVE  IInv'
<1>. DEFINE q == [Idle EXCEPT !.pc = step, !.app = a, !.seen = app[a], !.next = next]
<1>1. q \in Request
  BY IdleFacts DEF Idle, Request, IInv, TypeOK, Saves
<1>2. q.pc = step /\ q.app = a /\ q.seen = app[a] /\ q.next = next
  BY DEF Idle
<1>3. Sound(q)
  <2>. HIDE DEF q
  <2>. QED BY <1>2 DEF Sound, AfterSettlement, Saves, IInv, StagesShown
<1>4. req' = [req EXCEPT ![r] = q]
  BY DEF Begin
<1>. HIDE DEF q
<1>. QED BY <1>1, <1>3, <1>4, HandlerStep DEF IInv, TypeOK

\* A handler that reads its application again, towards a next snapshot that is sound.
LEMMA ReadStep ==
  ASSUME IInv, NEW r \in Requests, NEW next \in Snapshot, req[r].pc # "idle",
         NEW step \in {"save_patch", "save_paid", "save_confirm", "save_forward"},
         ReadAgain(r, step, next), Backed(req[r].app, next),
         step = "save_forward" => posted[req[r].app] # {},
         Follows(app[req[r].app].stage, next.stage),
         UNCHANGED <<appVars, feeVars, orderVars, disturbed, crashes>>
  PROVE  IInv'
<1>. DEFINE q == [req[r] EXCEPT !.pc = step, !.seen = app[req[r].app], !.next = next]
<1>1. req[r] \in Request /\ req[r].app \in Applications
  BY DEF IInv, TypeOK, Sound
<1>2. q \in Request
  BY <1>1 DEF Request, IInv, TypeOK, Saves
<1>3. q.pc = step /\ q.app = req[r].app /\ q.seen = app[req[r].app] /\ q.next = next
  BY <1>1 DEF Request
<1>4. Sound(q)
  <2>. HIDE DEF q
  <2>. QED BY <1>1, <1>3 DEF Sound, AfterSettlement, Saves, IInv, StagesShown
<1>5. req' = [req EXCEPT ![r] = q]
  BY DEF ReadAgain
<1>. HIDE DEF q
<1>. QED BY <1>2, <1>4, <1>5, HandlerStep DEF IInv, TypeOK

\* A handler that ends, or goes on to a step that promises no more than the one it leaves.
LEMMA EndStep ==
  ASSUME IInv, NEW r \in Requests, Finish(r), UNCHANGED <<appVars, feeVars, orderVars>>,
         disturbed' \in SUBSET Applications, crashes' \in 0 .. MaxCrashes
  PROVE  IInv'
  BY HandlerStep, FinishSound, IdleFacts DEF Finish

-----------------------------------------------------------------------------
(* The handlers that only read *)

LEMMA CallSteps ==
  ASSUME IInv, NEW r \in Requests, Call(r)
  PROVE  IInv'
<1>. USE DEF IInv, TypeOK
<1>1. ASSUME NEW a \in Applications, TransitionDeskApplication(r, a) PROVE IInv'
  <2>. PICK verb \in Verbs : \E e \in Permitted(app[a], verb, "staff") :
           Begin(r, "save_desk", a, [app[a] EXCEPT !.stage = e.to])
    BY <1>1 DEF TransitionDeskApplication
  <2>1. PICK e \in Permitted(app[a], verb, "staff") :
           Begin(r, "save_desk", a, [app[a] EXCEPT !.stage = e.to])
    OBVIOUS
  <2>. DEFINE next == [app[a] EXCEPT !.stage = e.to]
  <2>2. Backed(a, app[a])
    BY DEF DocumentsBacked
  <2>3. next \in Snapshot /\ Backed(a, next) /\ Follows(app[a].stage, next.stage)
    BY <2>2, PermittedFacts
  <2>4. UNCHANGED <<appVars, feeVars, orderVars, disturbed, crashes>>
    BY <1>1 DEF TransitionDeskApplication
  <2>5. Begin(r, "save_desk", a, next)
    BY <2>1
  <2>. HIDE DEF next
  <2>. QED BY <2>3, <2>4, <2>5, BeginStep
<1>2. ASSUME NEW a \in Applications, NEW p \in PaymentIds, NEW step \in {"find", "settle"},
             req' = [req EXCEPT ![r] = [Idle EXCEPT !.pc = step, !.app = a, !.payment = p]],
             UNCHANGED <<appVars, feeVars, orderVars, disturbed, crashes>>
      PROVE  IInv'
  <2>1. PICK q : q = [Idle EXCEPT !.pc = step, !.app = a, !.payment = p]
    OBVIOUS
  <2>2. q \in Request
    BY <2>1, IdleFacts DEF Idle, Request
  <2>3. q.pc = step /\ q.app = a /\ q.payment = p /\ q.next = Arrived
    BY <2>1 DEF Idle
  <2>4. Sound(q)
    BY <2>3, NoneAssumption, StageFacts DEF Sound, Backed, Arrived, AfterSettlement, Saves, PaymentIds
  <2>. QED BY <1>2, <2>1, <2>2, <2>4, HandlerStep
<1>7. ASSUME NEW a \in Applications, CompleteStubPayment(r, a) PROVE IInv'
  <2>1. slot[a] \in PaymentIds
    BY <1>7 DEF CompleteStubPayment
  <2>. QED BY <1>2, <1>7, <2>1 DEF CompleteStubPayment, FirstStep
<1>8. ASSUME NEW a \in Applications, NEW p \in CitizenPayments, Initiate(r, a, p) PROVE IInv'
  BY <1>2, <1>8 DEF Initiate, PaymentIds
<1>3. ASSUME NEW a \in Applications, AssignDeskWorkOrder(r, a) PROVE IInv'
  <2>. DEFINE q == [Idle EXCEPT !.pc = "assign", !.app = a, !.order = workOrder[a]]
  <2>1. q \in Request
    BY IdleFacts DEF Idle, Request
  <2>2. q.pc = "assign" /\ q.app = a /\ q.next = Arrived
    BY DEF Idle
  <2>3. posted[a] # {}
    BY <1>3 DEF AssignDeskWorkOrder, OrdersBacked
  <2>4. Sound(q)
    <3>. HIDE DEF q
    <3>. QED BY <2>2, <2>3 DEF Sound, Backed, Saves
  <2>5. req' = [req EXCEPT ![r] = q]
    BY <1>3 DEF AssignDeskWorkOrder
  <2>. HIDE DEF q
  <2>. QED BY <1>3, <2>1, <2>4, <2>5, HandlerStep DEF AssignDeskWorkOrder
<1>4. ASSUME NEW a \in Applications, Cancel(r, a) PROVE IInv'
  <2>. DEFINE next == [app[a] EXCEPT !.stage = "withdrawn"]
  <2>1. next \in Snapshot /\ next.stage = "withdrawn" /\ next.fee = app[a].fee
    BY StageFacts DEF Snapshot
  <2>2. Backed(a, next) /\ Follows(app[a].stage, next.stage)
    BY <2>1, StageFacts DEF DocumentsBacked, Backed, Follows
  <2>. QED BY <1>4, <2>1, <2>2, BeginStep DEF Cancel
<1>5. ASSUME NEW a \in Applications, Comment(r, a) PROVE IInv'
  <2>1. Backed(a, app[a]) /\ Follows(app[a].stage, app[a].stage)
    BY DEF DocumentsBacked, Follows
  <2>. QED BY <1>5, <2>1, BeginStep DEF Comment
<1>6. ASSUME NEW a \in Applications, SubmitFeedback(r, a) PROVE IInv'
  <2>1. PICK e \in Permitted(app[a], "submit-feedback", "citizen") :
           Begin(r, "save_citizen", a, [app[a] EXCEPT !.stage = e.to])
    BY <1>6 DEF SubmitFeedback
  <2>2. Backed(a, app[a])
    BY DEF DocumentsBacked
  <2>. QED BY ZenonT(60), <1>6, <2>1, <2>2, PermittedFacts, BeginStep DEF SubmitFeedback
<1>. QED BY <1>1, <1>3, <1>4, <1>5, <1>6, <1>7, <1>8 DEF Call

\* The rows of the application of a handler in flight.
LEMMA InFlight ==
  ASSUME IInv, NEW r \in Requests, req[r].pc # "idle"
  PROVE  /\ req[r] \in Request /\ req[r].app \in Applications
         /\ app[req[r].app] \in Snapshot
         /\ Backed(req[r].app, app[req[r].app])
         /\ Follows(app[req[r].app].stage, app[req[r].app].stage)
         /\ req[r].pc \in AfterSettlement => posted[req[r].app] # {}
  BY DEF IInv, TypeOK, Sound, DocumentsBacked, Follows

\* Changing the fee of a snapshot leaves its stage backed; a paid fee must be posted.
LEMMA FeeFacts ==
  ASSUME NEW a \in Applications, NEW doc \in Snapshot, Backed(a, doc),
         NEW fee \in {"pending", "paid"}, fee = "paid" => posted[a] # {}
  PROVE  LET new == [doc EXCEPT !.fee = fee]
         IN new \in Snapshot /\ new.stage = doc.stage /\ Backed(a, new)
<1>. DEFINE new == [doc EXCEPT !.fee = fee]
<1>1. new \in Snapshot /\ new.stage = doc.stage /\ new.fee = fee
  BY DEF Snapshot
<1>. QED BY <1>1 DEF Backed

LEMMA PatchSteps ==
  ASSUME IInv, NEW r \in Requests, ReadForPatch(r) \/ ReadForPaid(r)
  PROVE  IInv'
<1>1. CASE ReadForPatch(r)
  BY <1>1, InFlight, FeeFacts, ReadStep DEF ReadForPatch
<1>2. CASE ReadForPaid(r)
  <2>1. posted[req[r].app] # {}
    BY <1>2, InFlight DEF ReadForPaid, AfterSettlement
  <2>. QED BY <1>2, <2>1, InFlight, FeeFacts, ReadStep DEF ReadForPaid
<1>. QED BY <1>1, <1>2

\* A system transition to save_forward starts in a paid stage.
LEMMA SystemStep ==
  ASSUME IInv, NEW r \in Requests, req[r].pc # "idle",
         NEW step \in {"save_confirm", "save_forward"}, NEW ready \in BOOLEAN, NEW verb,
         SystemTransition(r, step, ready, verb),
         ready /\ step = "save_forward" => posted[req[r].app] # {},
         UNCHANGED <<appVars, feeVars, orderVars, disturbed, crashes>>
  PROVE  IInv'
<1>. DEFINE doc == app[req[r].app]
<1>1. CASE ready /\ Permitted(doc, verb, "system") # {}
  <2>1. PICK e \in Permitted(doc, verb, "system") :
           ReadAgain(r, step, [doc EXCEPT !.stage = e.to])
    BY <1>1 DEF SystemTransition
  <2>2. /\ [doc EXCEPT !.stage = e.to] \in Snapshot
        /\ Backed(req[r].app, [doc EXCEPT !.stage = e.to])
        /\ Follows(doc.stage, [doc EXCEPT !.stage = e.to].stage)
    BY InFlight, PermittedFacts
  <2>. QED BY <1>1, <2>1, <2>2, ReadStep
<1>2. CASE ~(ready /\ Permitted(doc, verb, "system") # {})
  <2>1. Finish(r)
    BY <1>2 DEF SystemTransition
  <2>. QED BY <2>1, EndStep DEF IInv, TypeOK
<1>. QED BY <1>1, <1>2

LEMMA AdvanceSteps ==
  ASSUME IInv, NEW r \in Requests, TryAdvance(r) \/ Refresh(r)
  PROVE  IInv'
<1>1. CASE TryAdvance(r)
  <2>1. AwaitsPayment(app[req[r].app]) \in BOOLEAN
    BY DEF AwaitsPayment
  <2>. QED BY <1>1, <2>1, SystemStep DEF TryAdvance
<1>2. CASE Refresh(r)
  <2>1. app[req[r].app].stage = "payment-received" => posted[req[r].app] # {}
    BY <1>2, InFlight DEF Refresh, Backed, PaidStages
  <2>2. (app[req[r].app].stage = "payment-received") \in BOOLEAN
    OBVIOUS
  <2>. QED BY <1>2, <2>1, <2>2, SystemStep DEF Refresh
<1>. QED BY <1>1, <1>2

-----------------------------------------------------------------------------
(* The statements that write *)

\* A handler goes on to a step that promises nothing beyond its next snapshot.
LEMMA GotoSound ==
  ASSUME IInv, NEW r \in Requests, req[r].pc # "idle",
         NEW step \in {"open", "patch", "paid"},
         step = "open" => req[r].payment # None,
         step = "paid" => posted'[req[r].app] # {},
         posted[req[r].app] # {} => posted'[req[r].app] # {},
         Goto(r, step)
  PROVE  \E q \in Request : req' = [req EXCEPT ![r] = q] /\ Sound(q)'
<1>1. req[r] \in Request /\ req[r].app \in Applications /\ Backed(req[r].app, req[r].next)
  BY DEF IInv, TypeOK, Sound
<1>2. PICK q : q = [req[r] EXCEPT !.pc = step]
  OBVIOUS
<1>3. q \in Request
  BY <1>1, <1>2 DEF Request
<1>4. q.pc = step /\ q.app = req[r].app /\ q.next = req[r].next /\ q.payment = req[r].payment
  BY <1>1, <1>2 DEF Request
<1>5. req' = [req EXCEPT ![r] = q]
  BY <1>2 DEF Goto, IInv, TypeOK
<1>6. Sound(q)'
  BY <1>1, <1>4 DEF Sound, Backed, AfterSettlement, Saves
<1>. QED BY <1>3, <1>5, <1>6

\* The link takes the payment of its application's key.
LEMMA LinkSound ==
  ASSUME IInv, NEW r \in Requests, req[r].pc # "idle",
         req' = [req EXCEPT ![r].pc = "open", ![r].payment = req[r].app], UNCHANGED posted
  PROVE  \E q \in Request : /\ req' = [req EXCEPT ![r] = q] /\ Sound(q)'
                            /\ q.pc = "open" /\ q.app = req[r].app
<1>1. /\ req[r] \in Request /\ req[r].app \in Applications /\ Backed(req[r].app, req[r].next)
      /\ req \in [Requests -> Request]
  BY DEF IInv, TypeOK, Sound
<1>2. PICK a : a = req[r].app
  OBVIOUS
<1>3. PICK q : q = [req[r] EXCEPT !.pc = "open", !.payment = a]
  OBVIOUS
<1>4. q \in Request
  BY <1>1, <1>2, <1>3 DEF Request, PaymentIds
<1>5. q.pc = "open" /\ q.app = a /\ q.next = req[r].next /\ q.payment = a
  BY <1>1, <1>2, <1>3 DEF Request
<1>6. req' = [req EXCEPT ![r] = q]
  BY <1>1, <1>2, <1>3
<1>7. Sound(q)'
  BY <1>1, <1>2, <1>5, NoneAssumption DEF Sound, Backed, AfterSettlement, Saves
<1>. QED BY <1>2, <1>4, <1>5, <1>6, <1>7

LEMMA PaymentSteps ==
  ASSUME IInv, NEW r \in Requests,
         IssueDeskPaymentLink(r) \/ FindActivePayment(r) \/ OpenPayment(r) \/ SettleStubLedger(r)
  PROVE  IInv'
<1>1. PICK a \in Applications : a = req[r].app
  BY DEF IssueDeskPaymentLink, FindActivePayment, OpenPayment, SettleStubLedger, IInv, Sound
<1>2. /\ app \in [Applications -> Snapshot] /\ workOrder \in [Applications -> WorkOrder]
      /\ disturbed \in SUBSET Applications /\ crashes \in 0 .. MaxCrashes
      /\ visited \in [Applications -> SUBSET StageCodes]
      /\ posted \in [Applications -> SUBSET PaymentIds] /\ used \in SUBSET PaymentIds
      /\ slot \in [Applications -> PaymentIds \cup {None}]
      /\ DocumentsBacked /\ StagesShown /\ OrdersBacked
      /\ req[r] \in Request /\ Sound(req[r])
  BY DEF IInv, TypeOK
<1>3. CASE Finish(r) /\ UNCHANGED <<appVars, feeVars, orderVars, disturbed, crashes>>
  BY <1>2, <1>3, EndStep
<1>4. UNCHANGED <<appVars, orderVars, disturbed, crashes>> /\ req[r].pc # "idle"
  BY DEF IssueDeskPaymentLink, FindActivePayment, OpenPayment, SettleStubLedger
<1>5. StagesShown' /\ UNCHANGED <<app, visited, workOrder, elsewhere, disturbed, crashes>>
  BY <1>2, <1>4 DEF StagesShown, StagesInOrder, Shown, appVars, orderVars
<1>6. ASSUME UNCHANGED feeVars, NEW q \in Request, req' = [req EXCEPT ![r] = q], Sound(q)'
      PROVE  IInv'
  <2>1. UNCHANGED <<posted, slot, used>>
    BY <1>6 DEF feeVars
  <2>2. DocumentsBacked' /\ OrdersBacked'
    BY <1>2, <1>5, <2>1 DEF DocumentsBacked, Backed, OrdersBacked, Issued
  <2>. QED BY <1>2, <1>5, <1>6, <2>1, <2>2, Step
<1>7. CASE req' = [req EXCEPT ![r].pc = "open", ![r].payment = req[r].app] /\ UNCHANGED feeVars
  BY <1>4, <1>6, <1>7, LinkSound DEF feeVars
<1>8. CASE req[r].pc = "find" /\ Goto(r, "open") /\ UNCHANGED feeVars
  <2>1. req[r].payment # None /\ UNCHANGED posted
    BY <1>2, <1>8 DEF Sound, feeVars
  <2>2. PICK q \in Request : req' = [req EXCEPT ![r] = q] /\ Sound(q)'
    BY <1>4, <1>8, <2>1, GotoSound
  <2>. QED BY <1>6, <1>8, <2>2
<1>9. CASE req[r].pc = "open" /\ Fee!Open(a, req[r].payment) /\ Goto(r, "patch")
  <2>1. PICK p \in PaymentIds : p = req[r].payment
    BY <1>2, <1>9 DEF Sound, Request
  <2>2. posted' = posted /\ slot' = [slot EXCEPT ![a] = p] /\ used' = used \cup {p}
    BY <1>9, <2>1 DEF Fee!Open
  <2>3. PICK q \in Request : req' = [req EXCEPT ![r] = q] /\ Sound(q)'
    BY <1>4, <1>9, <2>2, GotoSound
  <2>4. DocumentsBacked' /\ OrdersBacked'
    BY <1>2, <1>5, <2>2 DEF DocumentsBacked, Backed, OrdersBacked, Issued
  <2>5. slot' \in [Applications -> PaymentIds \cup {None}] /\ used' \in SUBSET PaymentIds
    BY <1>2, <2>2
  <2>. QED BY <1>2, <1>5, <2>2, <2>3, <2>4, <2>5, Step
<1>10. CASE Fee!Capture(a) /\ Goto(r, "paid")
  <2>1. /\ slot[a] # None /\ used' = used /\ slot' = [slot EXCEPT ![a] = None]
        /\ posted' = [posted EXCEPT ![a] = posted[a] \cup {slot[a]}]
    BY <1>10 DEF Fee!Capture
  <2>2. posted' \in [Applications -> SUBSET PaymentIds] /\ posted'[a] # {}
    BY <1>2, <2>1
  <2>3. \A b \in Applications : posted[b] # {} => posted'[b] # {}
    BY <1>2, <2>1
  <2>4. PICK q \in Request : req' = [req EXCEPT ![r] = q] /\ Sound(q)'
    BY <1>1, <1>4, <1>10, <2>2, GotoSound
  <2>5. DocumentsBacked' /\ OrdersBacked'
    BY <1>2, <1>5, <2>3 DEF DocumentsBacked, Backed, OrdersBacked, Issued
  <2>6. slot' \in [Applications -> PaymentIds \cup {None}]
    BY <1>2, <2>1
  <2>. QED BY <1>2, <1>5, <2>1, <2>2, <2>3, <2>4, <2>5, <2>6, Step
<1>. QED BY <1>1, <1>3, <1>7, <1>8, <1>9, <1>10
     DEF IssueDeskPaymentLink, FindActivePayment, OpenPayment, SettleStubLedger

\* A stage that is stored follows one that was shown.
LEMMA StoredStages ==
  ASSUME IInv, NEW r \in Requests, req[r].pc \in Saves,
         app' = [app EXCEPT ![req[r].app] = req[r].next],
         visited' = [visited EXCEPT ![req[r].app] = @ \cup ({req[r].next.stage} \ {"withdrawn"})]
  PROVE  StagesShown'
<1>1. /\ app \in [Applications -> Snapshot] /\ visited \in [Applications -> SUBSET StageCodes]
      /\ StagesShown /\ req[r].pc # "idle" /\ Sound(req[r])
  BY DEF IInv, TypeOK, Saves
<1>2. PICK a \in Applications : a = req[r].app
  BY <1>1 DEF Sound
<1>3. PICK to : to = req[r].next.stage
  OBVIOUS
<1>4. /\ visited'[a] = visited[a] \cup ({to} \ {"withdrawn"}) /\ app'[a].stage = to
      /\ \A b \in Applications \ {a} : visited'[b] = visited[b] /\ app'[b] = app[b]
  BY <1>1, <1>2, <1>3
<1>5. to \in visited[a] \cup {"withdrawn"} \/ \E e \in Edges : e.to = to /\ e.from \in visited[a]
  <2>1. Shown(a, req[r].seen.stage) /\ Follows(req[r].seen.stage, to)
    BY <1>1, <1>2, <1>3 DEF Sound
  <2>2. \A e \in Edges : e.from # "withdrawn"
    BY DEF Edges, Edge
  <2>. QED BY <2>1, <2>2 DEF Shown, Follows
<1>6. \A stage \in visited'[a] \ {Arrived.stage} :
        \E e \in Edges : e.to = stage /\ e.from \in visited'[a]
  BY <1>1, <1>4, <1>5 DEF StagesShown, StagesInOrder
<1>7. Shown(a, app[a].stage)'
  BY <1>4 DEF Shown
<1>. QED BY <1>1, <1>4, <1>6, <1>7 DEF StagesShown, StagesInOrder, Shown

LEMMA SaveStep ==
  ASSUME IInv, NEW r \in Requests, SaveApplication(r)
  PROVE  IInv'
<1>. DEFINE a == req[r].app
            q == IF AfterSave(r) = "idle" THEN Idle
                 ELSE [Idle EXCEPT !.pc = AfterSave(r), !.app = a, !.seen = req[r].next]
<1>. USE DEF IInv, TypeOK
<1>1. req[r].pc # "idle" /\ req[r].pc \in Saves
  BY DEF SaveApplication, Saves
<1>2. req[r] \in Request /\ a \in Applications /\ req[r].next \in Snapshot
  BY <1>1, InFlight DEF Request
<1>3. Backed(a, req[r].next)
  BY <1>1 DEF Sound
<1>4. /\ AfterSave(r) \in {"idle", "link", "sync", "advance", "refresh", "find_order"}
      /\ AfterSave(r) = "sync" => req[r].next.stage \in {"work-in-progress", "work-completed"}
      /\ AfterSave(r) = "find_order" => req[r].pc = "save_forward"
  BY DEF AfterSave
<1>5. q \in Request
  BY <1>2, <1>4, IdleFacts DEF Request, Idle
<1>6. Sound(q)
  <2>1. CASE AfterSave(r) = "idle"
    BY <2>1, FinishSound
  <2>2. CASE AfterSave(r) # "idle"
    <3>1. q.pc = AfterSave(r) /\ q.app = a /\ q.next = Arrived /\ q.seen = req[r].next
      BY <2>2 DEF Idle
    <3>2. AfterSave(r) = "find_order" => posted[a] # {}
      BY <1>1, <1>4, InFlight DEF AfterSettlement
    <3>3. Backed(a, Arrived)
      BY StageFacts DEF Backed, Arrived
    <3>. HIDE DEF q
    <3>. QED BY <1>2, <1>4, <3>1, <3>2, <3>3 DEF Sound, AfterSettlement, Saves
  <2>. QED BY <2>1, <2>2
<1>7. /\ req' = [req EXCEPT ![r] = q] /\ app' = [app EXCEPT ![a] = req[r].next]
      /\ visited' = [visited EXCEPT ![a] = visited[a] \cup ({req[r].next.stage} \ {"withdrawn"})]
  BY DEF SaveApplication
<1>8. UNCHANGED <<slot, posted, used, workOrder, elsewhere, crashes>>
  BY DEF SaveApplication, feeVars, orderVars
<1>9. disturbed' \in SUBSET Applications /\ app' \in [Applications -> Snapshot]
  BY <1>2, <1>7 DEF SaveApplication, Disturb
<1>10. DocumentsBacked' /\ OrdersBacked'
  BY <1>2, <1>3, <1>7, <1>8 DEF DocumentsBacked, Backed, OrdersBacked, Issued
<1>11. PICK locals \in Request : locals = q
  BY <1>5
<1>12. Sound(locals)'
  <2>1. Sound(locals)
    BY <1>6, <1>11
  <2>. QED BY <1>4, <1>8, <1>11, <2>1 DEF Sound, Backed, Idle, Saves
<1>13. req' = [req EXCEPT ![r] = locals]
  BY <1>7, <1>11
<1>14. /\ visited' \in [Applications -> SUBSET StageCodes]
       /\ \A b \in Applications : visited[b] \subseteq visited'[b]
  BY <1>2, <1>7 DEF Snapshot
<1>15. StagesShown'
  BY <1>1, <1>2, StoredStages DEF SaveApplication
<1>. QED BY <1>7, <1>8, <1>9, <1>10, <1>12, <1>13, <1>14, <1>15, Step

-----------------------------------------------------------------------------
(* Work orders *)

\* The handler ends after writing one row of the work orders of a paid application.
LEMMA OrderStep ==
  ASSUME IInv, NEW r \in Requests, Finish(r), NEW a \in Applications,
         NEW row \in WorkOrder, workOrder' = [workOrder EXCEPT ![a] = row],
         row.status # "absent" => posted[a] # {},
         UNCHANGED <<appVars, feeVars, elsewhere, crashes>>, disturbed' \in SUBSET Applications
  PROVE  IInv'
<1>. USE DEF IInv, TypeOK, appVars, feeVars
<1>1. DocumentsBacked' /\ StagesShown'
  BY DEF DocumentsBacked, Backed, StagesShown, StagesInOrder, Shown
<1>2. OrdersBacked'
  BY DEF OrdersBacked, Issued
<1>3. Sound(Idle)'
  BY IdleFacts DEF Sound
<1>4. req' = [req EXCEPT ![r] = Idle]
  BY DEF Finish
<1>. QED BY <1>1, <1>2, <1>3, <1>4, IdleFacts, Step

LEMMA OrderSteps ==
  ASSUME IInv, NEW r \in Requests,
         FindWorkOrder(r) \/ InsertWorkOrder(r) \/ SyncWorkOrder(r) \/ SaveAssignment(r)
  PROVE  IInv'
<1>. DEFINE a == req[r].app
<1>1. req[r].pc # "idle"
  BY DEF FindWorkOrder, InsertWorkOrder, SyncWorkOrder, SaveAssignment
<1>2. req[r] \in Request /\ a \in Applications /\ req[r].order \in WorkOrder
  BY <1>1, InFlight DEF Request
<1>. USE DEF IInv, TypeOK
<1>3. CASE FindWorkOrder(r)
  <2>1. CASE a \in Issued
    BY <1>3, <2>1, EndStep DEF FindWorkOrder
  <2>2. CASE a \notin Issued
    <3>. DEFINE order == [no |-> Cardinality(Taken) + 1, status |-> "issued"]
                q == [req[r] EXCEPT !.pc = "insert_order", !.order = order]
    <3>1. Cardinality(Issued) + 1 <= Cardinality(Applications)
      <4>1. Issued \in SUBSET Applications /\ Issued # Applications
        BY <1>2, <2>2 DEF Issued
      <4>2. /\ Cardinality(Issued) <= Cardinality(Applications)
            /\ Cardinality(Issued) # Cardinality(Applications)
        BY <4>1, FS_Subset, FiniteAssumption
      <4>3. Cardinality(Issued) \in Nat /\ Cardinality(Applications) \in Nat
        BY TakenBound, FS_CardinalityType, FiniteAssumption
      <4>. QED BY <4>2, <4>3
    <3>2. Cardinality(Taken) + 1 \in Numbers
      BY <3>1, TakenBound, FS_CardinalityType, FiniteAssumption, BoundAssumption
         DEF ElsewhereFinite, Numbers
    <3>3. order \in WorkOrder
      BY <3>2 DEF WorkOrder, OrderStatuses
    <3>. HIDE DEF order
    <3>4. q \in Request /\ q.pc = "insert_order" /\ q.app = a /\ q.next = req[r].next
      BY <1>2, <3>3 DEF Request
    <3>5. posted[a] # {} /\ Backed(a, req[r].next)
      BY <1>1, <1>3, InFlight DEF FindWorkOrder, AfterSettlement, Sound
    <3>6. Sound(q)
      <4>. HIDE DEF q
      <4>. QED BY <1>2, <3>4, <3>5 DEF Sound, Saves
    <3>7. req' = [req EXCEPT ![r] = q]
      BY <1>2, <1>3, <2>2 DEF FindWorkOrder, order
    <3>8. PICK locals \in Request : locals = q
      BY <3>4
    <3>. QED BY <1>3, <3>6, <3>7, <3>8, HandlerStep DEF FindWorkOrder
  <2>. QED BY <2>1, <2>2
<1>4. CASE InsertWorkOrder(r)
  <2>1. posted[a] # {}
    BY <1>1, <1>4, InFlight DEF InsertWorkOrder, AfterSettlement
  <2>2. disturbed' \in SUBSET Applications
    BY <1>2, <1>4 DEF InsertWorkOrder, Disturb
  <2>3. CASE OrderIndexesAllow(a, req[r].order.no)
    BY <1>2, <1>4, <2>1, <2>2, <2>3, OrderStep DEF InsertWorkOrder
  <2>4. CASE ~OrderIndexesAllow(a, req[r].order.no)
    BY <1>4, <2>2, <2>4, EndStep DEF InsertWorkOrder, orderVars
  <2>. QED BY <2>3, <2>4
<1>5. CASE SyncWorkOrder(r)
  <2>1. disturbed' \in SUBSET Applications
    BY <1>2, <1>5 DEF SyncWorkOrder, Disturb
  <2>2. CASE a \in Issued
    <3>. DEFINE to == StatusAt(req[r].seen.stage, workOrder[a].status)
                row == [workOrder[a] EXCEPT !.status = to]
    <3>1. req[r].seen.stage \in {"work-in-progress", "work-completed"}
      BY <1>1, <1>5 DEF SyncWorkOrder, Sound
    <3>2. to \in OrderStatuses
      BY <3>1 DEF StatusAt, OrderStatuses
    <3>3. row \in WorkOrder
      BY <1>2, <3>2 DEF WorkOrder
    <3>4. posted[a] # {}
      BY <2>2 DEF OrdersBacked
    <3>5. workOrder' = [workOrder EXCEPT ![a] = row]
      BY <1>2, <1>5, <2>2 DEF SyncWorkOrder
    <3>6. PICK new \in WorkOrder : new = row
      BY <3>3
    <3>7. Finish(r) /\ UNCHANGED <<appVars, feeVars, elsewhere, crashes>>
      BY <1>5 DEF SyncWorkOrder
    <3>. QED BY <1>2, <2>1, <3>4, <3>5, <3>6, <3>7, OrderStep
  <2>3. CASE a \notin Issued
    BY <1>5, <2>1, <2>3, EndStep DEF SyncWorkOrder, orderVars
  <2>. QED BY <2>2, <2>3
<1>6. CASE SaveAssignment(r)
  <2>. DEFINE to == IF req[r].order.status \in {"issued", "assigned"} THEN "assigned"
                    ELSE req[r].order.status
              row == [workOrder[a] EXCEPT !.status = to]
  <2>1. disturbed' \in SUBSET Applications
    BY <1>2, <1>6 DEF SaveAssignment, Disturb
  <2>2. to \in {"absent"} \cup OrderStatuses
    BY <1>2 DEF WorkOrder, OrderStatuses
  <2>3. row \in WorkOrder
    <3>. HIDE DEF to
    <3>. QED BY <1>2, <2>2 DEF WorkOrder
  <2>4. posted[a] # {}
    BY <1>1, <1>6, InFlight DEF SaveAssignment, AfterSettlement
  <2>5. workOrder' = [workOrder EXCEPT ![a] = row]
    BY <1>2, <1>6 DEF SaveAssignment
  <2>6. PICK new \in WorkOrder : new = row
    BY <2>3
  <2>7. Finish(r) /\ UNCHANGED <<appVars, feeVars, elsewhere, crashes>>
    BY <1>6 DEF SaveAssignment
  <2>. QED BY <1>2, <2>1, <2>4, <2>5, <2>6, <2>7, OrderStep
<1>. QED BY <1>3, <1>4, <1>5, <1>6

LEMMA ElsewhereStep ==
  ASSUME IInv, IssueElsewhere
  PROVE  IInv'
<1>. USE DEF IInv, TypeOK, appVars, feeVars
<1>. DEFINE no == Cardinality(Taken) + 1
<1>1. Cardinality(Issued) <= Cardinality(Applications)
  BY FS_Subset, FiniteAssumption DEF Issued
<1>2. no \in Numbers
  BY <1>1, TakenBound, FS_CardinalityType, FiniteAssumption, BoundAssumption
     DEF ElsewhereFinite, Numbers, IssueElsewhere
<1>3. elsewhere' = elsewhere \cup {no}
  BY DEF IssueElsewhere
<1>4. PICK n \in Numbers : n = no
  BY <1>2
<1>5. ElsewhereFinite'
  <2>1. IsFiniteSet(elsewhere) /\ Cardinality(elsewhere) \in Nat
    BY TakenBound DEF ElsewhereFinite
  <2>2. /\ IsFiniteSet(elsewhere \cup {n})
        /\ \/ Cardinality(elsewhere \cup {n}) = Cardinality(elsewhere)
           \/ Cardinality(elsewhere \cup {n}) = Cardinality(elsewhere) + 1
    BY <2>1, FS_AddElement
  <2>3. elsewhere' = elsewhere \cup {n}
    BY <1>3, <1>4
  <2>4. Cardinality(elsewhere) < MaxElsewhere
    BY DEF IssueElsewhere
  <2>5. Cardinality(elsewhere \cup {n}) <= MaxElsewhere
    BY <2>1, <2>2, <2>4, BoundAssumption
  <2>. QED BY <2>2, <2>3, <2>5 DEF ElsewhereFinite
<1>6. TypeOK'
  BY <1>3, <1>4 DEF IssueElsewhere
<1>7. DocumentsBacked' /\ OrdersBacked'
  BY DEF IssueElsewhere, DocumentsBacked, Backed, OrdersBacked, Issued
<1>8. (\A r \in Requests : Sound(req[r])') /\ StagesShown'
  BY DEF IssueElsewhere, Sound, Backed, StagesShown, StagesInOrder, Shown
<1>. QED BY <1>5, <1>6, <1>7, <1>8

-----------------------------------------------------------------------------
(* The invariant *)

LEMMA NextIInv == IInv /\ [Next]_vars => IInv'
<1>. SUFFICES ASSUME IInv, [Next]_vars PROVE IInv'
  OBVIOUS
<1>1. CASE UNCHANGED vars
  BY <1>1 DEF vars, appVars, feeVars, orderVars, IInv, TypeOK, DocumentsBacked, Backed, OrdersBacked,
              Issued, ElsewhereFinite, Sound, StagesShown, StagesInOrder, Shown
<1>2. CASE IssueElsewhere
  BY <1>2, ElsewhereStep
<1>3. ASSUME NEW r \in Requests, Call(r) PROVE IInv'
  BY <1>3, CallSteps
<1>4. ASSUME NEW r \in Requests, Continue(r) PROVE IInv'
  BY <1>4, SaveStep, PaymentSteps, PatchSteps, AdvanceSteps, OrderSteps DEF Continue
<1>5. ASSUME NEW r \in Requests, Die(r) PROVE IInv'
  <2>1. disturbed' \in SUBSET Applications
    BY <1>5, InFlight DEF Die, Disturb, IInv, TypeOK
  <2>2. crashes' \in 0 .. MaxCrashes
    BY <1>5, BoundAssumption DEF Die, IInv, TypeOK
  <2>. QED BY <1>5, <2>1, <2>2, EndStep DEF Die
<1>. QED BY <1>1, <1>2, <1>3, <1>4, <1>5 DEF Next

\* The rows, the payments and what handlers hold of them are always well typed.
THEOREM TypeCorrect == Spec => []TypeOK
<1>1. IInv => TypeOK
  BY DEF IInv
<1>. QED BY <1>1, InitIInv, NextIInv, PTL DEF Spec

\* No work is ordered, and no stage past the payment reached, before the approval fee is
\* collected: for any number of handlers that write snapshots they read before, and of deaths.
THEOREM WorkIsPaidForHolds == Spec => []WorkIsPaidFor
<1>1. IInv => WorkIsPaidFor
  BY DEF IInv, TypeOK, DocumentsBacked, OrdersBacked, Backed, PaidStages, WorkIsPaidFor
<1>. QED BY <1>1, InitIInv, NextIInv, PTL DEF Spec

\* No stage of the workflow is shown before one that leads to it (evaluateTransition), although
\* every handler writes the snapshot it read, whoever wrote meanwhile: for any number of handlers
\* and deaths.
THEOREM StagesInOrderHolds == Spec => []StagesInOrder
<1>1. IInv => StagesInOrder
  BY DEF IInv, StagesShown
<1>. QED BY <1>1, InitIInv, NextIInv, PTL DEF Spec

-----------------------------------------------------------------------------
(* Between calls everything agrees: what is still missing is somebody's duty *)

\* A payment of the application has been opened, and may have been collected since.
Begun(a) == slot[a] # None \/ posted[a] # {}

\* The stages a save of each kind leads from and to.
DeskMoves == { <<"dept-head-final", "payment-pending">>, <<"dept-head-final", "rejected">>,
               <<"work-order-issued", "work-in-progress">>, <<"work-in-progress", "work-completed">>,
               <<"work-completed", "citizen-feedback">> }

Moves(step, from, to) ==
  \/ step \in {"save_patch", "save_paid"} /\ to = from
  \/ step = "save_confirm" /\ from = "payment-pending" /\ to = "payment-received"
  \/ step = "save_forward" /\ from = "payment-received" /\ to = "work-order-issued"
  \/ step = "save_citizen" /\ (to \in {from, "withdrawn"} \/ (from = "citizen-feedback" /\ to = "closed"))
  \/ step = "save_desk" /\ <<from, to>> \in DeskMoves

\* What the snapshots and the row in a handler's hands say of each other.
Known(q) ==
  /\ q.pc = "idle" => q.app = None
  /\ q.pc \in {"patch", "save_patch"} => q.app \in Applications /\ Begun(q.app)
  /\ q.pc \in Saves => Moves(q.pc, q.seen.stage, q.next.stage)
  /\ q.pc = "save_patch" => q.next.fee = "pending"
  /\ q.pc = "save_paid" => q.next.fee = "paid"
  /\ q.pc \in Saves \ {"save_patch", "save_paid"} => q.next.fee = q.seen.fee
  /\ q.pc = "save_confirm" => q.seen.fee = "paid"
  /\ q.pc \in {"find_order", "insert_order"} => q.seen.stage = "work-order-issued"
  /\ q.pc = "insert_order" => q.order.status = "issued"

Duties == {"pay", "show", "forward", "order", "start", "finish"}

\* What the rows of application a lack: the fee marked paid or pending, the transition or the
\* work order that follows the payment, the status of the work order.
Needs(a, duty) ==
  \/ duty = "pay" /\ \/ posted[a] # {} /\ app[a].fee # "paid"
                     \/ app[a].fee = "pending" /\ slot[a] = None
  \/ duty = "show" /\ slot[a] # None /\ app[a].fee = "not_required"
  \/ duty = "forward" /\ app[a].stage = "payment-received"
  \/ duty = "order" /\ app[a].stage \in Executing /\ workOrder[a].status = "absent"
  \/ /\ duty = "start" /\ app[a].stage = "work-in-progress"
     /\ workOrder[a].status \notin {"absent", "in_progress"}
  \/ /\ duty = "finish" /\ app[a].stage \in {"work-completed", "citizen-feedback", "closed"}
     /\ workOrder[a].status \notin {"absent", "completed"}

\* A handler with the locals q is on its way to supply it.
HasDuty(q, duty) ==
  \/ duty = "pay"     /\ q.pc \in {"paid", "save_paid"}
  \/ duty = "show"    /\ q.pc \in {"patch", "save_patch"}
  \/ duty = "forward" /\ q.pc \in {"refresh", "save_forward"}
  \/ duty = "order"   /\ q.pc \in {"find_order", "insert_order"}
  \/ duty = "start"   /\ q.pc = "sync" /\ q.seen.stage = "work-in-progress"
  \/ duty = "finish"  /\ q.pc = "sync" /\ q.seen.stage = "work-completed"

Does(a, duty) == \E r \in Requests : req[r].app = a /\ HasDuty(req[r], duty)

\* What an undisturbed application lacks somebody is about to supply, and past the payment its
\* own snapshot shows the fee as paid.
FeeShown(a)   == app[a].stage \in PaidStages => app[a].fee = "paid"
Attended(a)   == \A duty \in Duties : Needs(a, duty) => Does(a, duty)
Consistent(a) == a \notin disturbed => FeeShown(a) /\ Attended(a)

QInv ==
  /\ IInv
  /\ \A r \in Requests : Known(req[r])
  /\ \A a \in Applications : Consistent(a)

\* One handler, at work on a or free, moves to the locals q, or becomes free; only the rows of
\* a change. What a lacks afterwards is what it lacked before and somebody else sees to, or the
\* handler's own duty.
LEMMA QuietStep ==
  ASSUME QInv, IInv', NEW r \in Requests, NEW q \in Request, req' = [req EXCEPT ![r] = q],
         NEW a \in Applications, q.app \in {a, None}, req[r].app \in {a, None},
         \A b \in Applications : Begun(b) => Begun(b)', disturbed \subseteq disturbed',
         \A b \in Applications \ {a} : /\ app'[b] = app[b] /\ workOrder'[b] = workOrder[b]
                                       /\ slot'[b] = slot[b] /\ posted'[b] = posted[b],
         Known(q)', a \notin disturbed' => FeeShown(a)',
         a \notin disturbed' =>
           \A duty \in Duties : Needs(a, duty)' =>
             \/ q.app = a /\ HasDuty(q, duty)
             \/ Needs(a, duty) /\ ~HasDuty(req[r], duty)
  PROVE  QInv'
<1>1. req'[r] = q /\ \A s \in Requests \ {r} : req'[s] = req[s]
  BY DEF QInv, IInv, TypeOK
<1>2. \A s \in Requests : Known(req[s])'
  <2>1. ASSUME NEW s \in Requests \ {r} PROVE Known(req[s])'
    BY <1>1, <2>1 DEF QInv, Known
  <2>2. Known(req[r])'
    BY <1>1 DEF Known
  <2>. QED BY <2>1, <2>2
<1>3. ASSUME NEW b \in Applications \ {a} PROVE Consistent(b)'
  <2>1. CASE b \notin disturbed'
    <3>1. FeeShown(b) /\ Attended(b)
      BY <2>1 DEF QInv, Consistent
    <3>2. FeeShown(b)'
      BY <3>1 DEF FeeShown
    <3>3. ASSUME NEW duty \in Duties, Needs(b, duty)' PROVE Does(b, duty)'
      <4>1. Needs(b, duty)
        BY <3>3 DEF Needs
      <4>2. PICK s \in Requests : req[s].app = b /\ HasDuty(req[s], duty)
        BY <3>1, <4>1 DEF Attended, Does
      <4>3. s # r
        BY <4>2, NoneAssumption
      <4>4. req'[s] = req[s]
        BY <1>1, <4>3
      <4>. QED BY <4>2, <4>4 DEF Does, HasDuty
    <3>. QED BY <3>2, <3>3 DEF Consistent, Attended
  <2>. QED BY <2>1 DEF Consistent
<1>4. Consistent(a)'
  <2>1. CASE a \notin disturbed'
    <3>1. ASSUME NEW duty \in Duties, Needs(a, duty)' PROVE Does(a, duty)'
      <4>1. CASE q.app = a /\ HasDuty(q, duty)
        BY <1>1, <4>1 DEF Does, HasDuty
      <4>2. CASE Needs(a, duty) /\ ~HasDuty(req[r], duty)
        <5>1. Attended(a)
          BY <2>1 DEF QInv, Consistent
        <5>2. PICK s \in Requests : req[s].app = a /\ HasDuty(req[s], duty)
          BY <4>2, <5>1 DEF Attended, Does
        <5>3. req'[s] = req[s]
          BY <1>1, <4>2, <5>2
        <5>. QED BY <5>2, <5>3 DEF Does, HasDuty
      <4>. QED BY <2>1, <3>1, <4>1, <4>2
    <3>. QED BY <2>1, <3>1 DEF Consistent, Attended
  <2>. QED BY <2>1 DEF Consistent
<1>. QED BY <1>2, <1>3, <1>4 DEF QInv

\* A step that changes no row: the handler keeps the duties it had, or they are none any more.
LEMMA QuietHandler ==
  ASSUME QInv, IInv', NEW r \in Requests, NEW q \in Request, req' = [req EXCEPT ![r] = q],
         NEW a \in Applications, q.app \in {a, None}, req[r].app \in {a, None},
         UNCHANGED <<appVars, feeVars, orderVars>>, disturbed \subseteq disturbed', Known(q),
         a \notin disturbed' =>
           \A duty \in Duties : Needs(a, duty) /\ HasDuty(req[r], duty) =>
             q.app = a /\ HasDuty(q, duty)
  PROVE  QInv'
<1>. USE DEF appVars, feeVars, orderVars
<1>1. \A b \in Applications : Begun(b) => Begun(b)'
  BY DEF Begun
<1>2. Known(q)'
  BY <1>1 DEF Known
<1>3. ASSUME a \notin disturbed' PROVE FeeShown(a)'
  BY <1>3 DEF QInv, Consistent, FeeShown
<1>4. ASSUME a \notin disturbed', NEW duty \in Duties, Needs(a, duty)'
      PROVE  \/ q.app = a /\ HasDuty(q, duty)
             \/ Needs(a, duty) /\ ~HasDuty(req[r], duty)
  <2>1. Needs(a, duty)
    BY <1>4 DEF Needs
  <2>. QED BY <1>4, <2>1
<1>. QED BY <1>1, <1>2, <1>3, <1>4, QuietStep

LEMMA IdleKnown == Idle \in Request /\ Idle.app = None /\ Known(Idle)
  BY IdleFacts DEF Idle, Known, Saves

\* The handler ends without having written, and nobody counts on it.
LEMMA QuietEnd ==
  ASSUME QInv, IInv', NEW r \in Requests, Finish(r), req[r].pc # "idle",
         UNCHANGED <<appVars, feeVars, orderVars>>, disturbed \subseteq disturbed',
         req[r].app \notin disturbed' =>
           \A duty \in Duties : Needs(req[r].app, duty) => ~HasDuty(req[r], duty)
  PROVE  QInv'
<1>1. PICK a \in Applications : a = req[r].app
  BY DEF QInv, IInv, Sound
<1>2. PICK q : q = Idle
  OBVIOUS
<1>3. q \in Request /\ q.app = None /\ Known(q) /\ req' = [req EXCEPT ![r] = q]
  BY <1>2, IdleKnown DEF Finish
<1>. QED BY <1>1, <1>3, QuietHandler

\* Where the edges of each actor lead.
LEMMA EdgeMoves ==
  \A e \in Edges :
    /\ e.actor = "staff" => <<e.from, e.to>> \in DeskMoves
    /\ e.actor = "citizen" => e.from = "citizen-feedback" /\ e.to = "closed"
    /\ e.actor = "system" /\ e.verb = "confirm-payment" =>
         e.from = "payment-pending" /\ e.to = "payment-received" /\ e.guard = "payment_paid"
    /\ e.actor = "system" /\ e.verb = "forward" =>
         e.from = "payment-received" /\ e.to = "work-order-issued"
  BY DEF Edges, Edge, DeskMoves

\* A paid application in payment-received can always be forwarded by the system.
LEMMA ForwardIsPermitted ==
  ASSUME NEW doc \in Snapshot, doc.stage = "payment-received", doc.fee = "paid"
  PROVE  Permitted(doc, "forward", "system") # {}
<1>. DEFINE e == Edge("payment-received", "forward", "work-order-issued", "system", "approval_fee_paid")
<1>1. e \in Edges
  BY DEF Edges
<1>2. /\ e.from = "payment-received" /\ e.verb = "forward" /\ e.actor = "system"
      /\ e.guard = "approval_fee_paid"
  BY DEF Edge
<1>. HIDE DEF e
<1>. QED BY <1>1, <1>2 DEF Permitted, Selects, GuardHolds

\* A handler that starts to write application a with a next snapshot of the same fee.
LEMMA QuietBegin ==
  ASSUME QInv, IInv', NEW r \in Requests, NEW a \in Applications, NEW next \in Snapshot,
         NEW step \in {"save_desk", "save_citizen"}, Begin(r, step, a, next),
         next.fee = app[a].fee, Moves(step, app[a].stage, next.stage),
         UNCHANGED <<appVars, feeVars, orderVars, disturbed, crashes>>
  PROVE  QInv'
<1>1. PICK q : q = [Idle EXCEPT !.pc = step, !.app = a, !.seen = app[a], !.next = next]
  OBVIOUS
<1>2. q \in Request
  BY <1>1, IdleFacts DEF Idle, Request, QInv, IInv, TypeOK, Saves
<1>3. q.pc = step /\ q.app = a /\ q.seen = app[a] /\ q.next = next
  BY <1>1 DEF Idle
<1>4. Known(q)
  BY <1>3 DEF Known, Saves
<1>5. req[r].pc = "idle" /\ req' = [req EXCEPT ![r] = q]
  BY <1>1 DEF Begin
<1>6. req[r].app = None /\ \A duty \in Duties : ~HasDuty(req[r], duty)
  BY <1>5 DEF QInv, Known, HasDuty
<1>. QED BY <1>2, <1>3, <1>4, <1>5, <1>6, QuietHandler

LEMMA QuietCalls ==
  ASSUME QInv, IInv', NEW r \in Requests, Call(r)
  PROVE  QInv'
<1>. USE DEF QInv, IInv, TypeOK
<1>1. ASSUME NEW a \in Applications, TransitionDeskApplication(r, a) PROVE QInv'
  <2>1. PICK verb \in Verbs : \E e \in Permitted(app[a], verb, "staff") :
           Begin(r, "save_desk", a, [app[a] EXCEPT !.stage = e.to])
    BY <1>1 DEF TransitionDeskApplication
  <2>2. PICK e \in Permitted(app[a], verb, "staff") :
           Begin(r, "save_desk", a, [app[a] EXCEPT !.stage = e.to])
    BY <2>1
  <2>3. e \in Edges /\ e.from = app[a].stage /\ e.actor = "staff"
    BY DEF Permitted, Selects
  <2>4. PICK next : next = [app[a] EXCEPT !.stage = e.to]
    OBVIOUS
  <2>5. next \in Snapshot /\ next.stage = e.to /\ next.fee = app[a].fee
    BY <2>3, <2>4, EdgeFacts DEF Snapshot
  <2>6. Moves("save_desk", app[a].stage, next.stage)
    BY <2>3, <2>5, EdgeMoves DEF Moves
  <2>7. UNCHANGED <<appVars, feeVars, orderVars, disturbed, crashes>>
    BY <1>1 DEF TransitionDeskApplication
  <2>. QED BY <2>2, <2>4, <2>5, <2>6, <2>7, QuietBegin
<1>2. ASSUME NEW a \in Applications, NEW p \in PaymentIds, NEW step \in {"find", "settle"},
             req[r].pc = "idle",
             req' = [req EXCEPT ![r] = [Idle EXCEPT !.pc = step, !.app = a, !.payment = p]],
             UNCHANGED <<appVars, feeVars, orderVars, disturbed, crashes>>
      PROVE  QInv'
  <2>1. PICK q : q = [Idle EXCEPT !.pc = step, !.app = a, !.payment = p]
    OBVIOUS
  <2>2. q \in Request
    BY <2>1, IdleFacts DEF Idle, Request
  <2>3. q.pc = step /\ q.app = a
    BY <2>1 DEF Idle
  <2>4. Known(q)
    BY <2>3 DEF Known, Saves
  <2>5. req[r].app = None /\ \A duty \in Duties : ~HasDuty(req[r], duty)
    BY <1>2 DEF Known, HasDuty
  <2>6. req' = [req EXCEPT ![r] = q]
    BY <1>2, <2>1
  <2>. QED BY <1>2, <2>2, <2>3, <2>4, <2>5, <2>6, QuietHandler
<1>7. ASSUME NEW a \in Applications, CompleteStubPayment(r, a) PROVE QInv'
  <2>1. slot[a] \in PaymentIds
    BY <1>7 DEF CompleteStubPayment
  <2>. QED BY <1>2, <1>7, <2>1 DEF CompleteStubPayment, FirstStep
<1>8. ASSUME NEW a \in Applications, NEW p \in CitizenPayments, Initiate(r, a, p) PROVE QInv'
  BY <1>2, <1>8 DEF Initiate, PaymentIds
<1>3. ASSUME NEW a \in Applications, AssignDeskWorkOrder(r, a) PROVE QInv'
  <2>1. PICK q : q = [Idle EXCEPT !.pc = "assign", !.app = a, !.order = workOrder[a]]
    OBVIOUS
  <2>2. q \in Request
    BY <2>1, IdleFacts DEF Idle, Request
  <2>3. q.pc = "assign" /\ q.app = a
    BY <2>1 DEF Idle
  <2>4. Known(q)
    BY <2>3 DEF Known, Saves
  <2>5. /\ req[r].pc = "idle" /\ req' = [req EXCEPT ![r] = q]
        /\ UNCHANGED <<appVars, feeVars, orderVars, disturbed>>
    BY <1>3, <2>1 DEF AssignDeskWorkOrder
  <2>6. req[r].app = None /\ \A duty \in Duties : ~HasDuty(req[r], duty)
    BY <2>5 DEF Known, HasDuty
  <2>. QED BY <2>2, <2>3, <2>4, <2>5, <2>6, QuietHandler
<1>4. ASSUME NEW a \in Applications, Cancel(r, a) PROVE QInv'
  <2>1. PICK next : next = [app[a] EXCEPT !.stage = "withdrawn"]
    OBVIOUS
  <2>2. next \in Snapshot /\ next.stage = "withdrawn" /\ next.fee = app[a].fee
    BY <2>1, StageFacts DEF Snapshot
  <2>3. Moves("save_citizen", app[a].stage, next.stage)
    BY <2>2 DEF Moves
  <2>. QED BY <1>4, <2>1, <2>2, <2>3, QuietBegin DEF Cancel
<1>5. ASSUME NEW a \in Applications, Comment(r, a) PROVE QInv'
  <2>1. Moves("save_citizen", app[a].stage, app[a].stage)
    BY DEF Moves
  <2>. QED BY <1>5, <2>1, QuietBegin DEF Comment
<1>6. ASSUME NEW a \in Applications, SubmitFeedback(r, a) PROVE QInv'
  <2>1. PICK e \in Permitted(app[a], "submit-feedback", "citizen") :
           Begin(r, "save_citizen", a, [app[a] EXCEPT !.stage = e.to])
    BY <1>6 DEF SubmitFeedback
  <2>2. e \in Edges /\ e.from = app[a].stage /\ e.actor = "citizen"
    BY DEF Permitted, Selects
  <2>3. PICK next : next = [app[a] EXCEPT !.stage = e.to]
    OBVIOUS
  <2>4. next \in Snapshot /\ next.stage = e.to /\ next.fee = app[a].fee
    <3>1. e.to \in StageCodes
      BY <2>2, EdgeFacts
    <3>2. app[a] \in Snapshot
      BY DEF QInv, IInv, TypeOK
    <3>. QED BY <2>3, <3>1, <3>2 DEF Snapshot
  <2>5. Moves("save_citizen", app[a].stage, next.stage)
    BY <2>2, <2>4, EdgeMoves DEF Moves
  <2>6. UNCHANGED <<appVars, feeVars, orderVars, disturbed, crashes>>
    BY <1>6 DEF SubmitFeedback
  <2>. QED BY <2>1, <2>3, <2>4, <2>5, <2>6, QuietBegin
<1>. QED BY <1>1, <1>3, <1>4, <1>5, <1>6, <1>7, <1>8 DEF Call

\* A handler reads its application again, towards a save that keeps its duty.
LEMMA QuietRead ==
  ASSUME QInv, IInv', NEW r \in Requests, NEW next \in Snapshot,
         req[r].pc \in {"patch", "paid", "advance", "refresh"},
         NEW step \in {"save_patch", "save_paid", "save_confirm", "save_forward"},
         ReadAgain(r, step, next),
         UNCHANGED <<appVars, feeVars, orderVars, disturbed, crashes>>,
         \A q \in Request :
           /\ q.pc = step /\ q.app = req[r].app /\ q.seen = app[req[r].app] /\ q.next = next
           => Known(q) /\ \A duty \in Duties : HasDuty(req[r], duty) => HasDuty(q, duty)
  PROVE  QInv'
<1>1. PICK a \in Applications : a = req[r].app
  BY DEF QInv, IInv, Sound
<1>2. req[r] \in Request /\ app[a] \in Snapshot
  BY DEF QInv, IInv, TypeOK
<1>3. PICK q : q = [req[r] EXCEPT !.pc = step, !.seen = app[req[r].app], !.next = next]
  OBVIOUS
<1>4. q \in Request
  BY <1>1, <1>2, <1>3 DEF Request, Saves
<1>5. q.pc = step /\ q.app = a /\ q.seen = app[a] /\ q.next = next
  BY <1>1, <1>2, <1>3 DEF Request
<1>6. req' = [req EXCEPT ![r] = q]
  BY <1>3 DEF ReadAgain
<1>7. Known(q) /\ \A duty \in Duties : HasDuty(req[r], duty) => HasDuty(q, duty)
  BY <1>1, <1>4, <1>5
<1>. QED BY <1>1, <1>4, <1>5, <1>6, <1>7, QuietHandler

LEMMA QuietReads ==
  ASSUME QInv, IInv', NEW r \in Requests,
         ReadForPatch(r) \/ ReadForPaid(r) \/ TryAdvance(r) \/ Refresh(r)
  PROVE  QInv'
<1>1. PICK a \in Applications : a = req[r].app
  BY DEF QInv, IInv, Sound, ReadForPatch, ReadForPaid, TryAdvance, Refresh
<1>2. app[a] \in Snapshot
  BY DEF QInv, IInv, TypeOK
<1>3. CASE ReadForPatch(r)
  <2>1. PICK next : next = [app[a] EXCEPT !.fee = "pending"]
    OBVIOUS
  <2>2. next \in Snapshot /\ next.stage = app[a].stage /\ next.fee = "pending"
    BY <1>2, <2>1 DEF Snapshot
  <2>3. req[r].pc = "patch" /\ Begun(a)
    BY <1>1, <1>3 DEF ReadForPatch, QInv, Known
  <2>4. ASSUME NEW q \in Request, q.pc = "save_patch", q.app = a, q.seen = app[a], q.next = next
        PROVE  Known(q) /\ \A duty \in Duties : HasDuty(req[r], duty) => HasDuty(q, duty)
    BY <2>2, <2>3, <2>4 DEF Known, Saves, Moves, HasDuty
  <2>. QED BY <1>1, <1>3, <2>1, <2>2, <2>3, <2>4, QuietRead DEF ReadForPatch
<1>4. CASE ReadForPaid(r)
  <2>1. PICK next : next = [app[a] EXCEPT !.fee = "paid"]
    OBVIOUS
  <2>2. next \in Snapshot /\ next.stage = app[a].stage /\ next.fee = "paid"
    BY <1>2, <2>1 DEF Snapshot
  <2>3. req[r].pc = "paid"
    BY <1>4 DEF ReadForPaid
  <2>4. ASSUME NEW q \in Request, q.pc = "save_paid", q.app = a, q.seen = app[a], q.next = next
        PROVE  Known(q) /\ \A duty \in Duties : HasDuty(req[r], duty) => HasDuty(q, duty)
    BY <2>2, <2>3, <2>4 DEF Known, Saves, Moves, HasDuty
  <2>. QED BY <1>1, <1>4, <2>1, <2>2, <2>3, <2>4, QuietRead DEF ReadForPaid
<1>5. CASE TryAdvance(r)
  <2>1. req[r].pc = "advance" /\ \A duty \in Duties : ~HasDuty(req[r], duty)
    BY <1>5 DEF TryAdvance, HasDuty
  <2>2. CASE Finish(r)
    BY <1>5, <2>1, <2>2, QuietEnd DEF TryAdvance
  <2>3. CASE ~Finish(r)
    <3>1. PICK e \in Permitted(app[a], "confirm-payment", "system") :
             ReadAgain(r, "save_confirm", [app[a] EXCEPT !.stage = e.to])
      BY <1>1, <1>5, <2>3 DEF TryAdvance, SystemTransition
    <3>2. /\ e \in Edges /\ e.from = app[a].stage /\ e.verb = "confirm-payment"
          /\ e.actor = "system" /\ GuardHolds(e.guard, app[a])
      BY DEF Permitted, Selects
    <3>3. PICK next : next = [app[a] EXCEPT !.stage = e.to]
      OBVIOUS
    <3>4. next \in Snapshot /\ next.stage = e.to /\ next.fee = app[a].fee
      BY <1>2, <3>2, <3>3, EdgeFacts DEF Snapshot
    <3>5. /\ app[a].stage = "payment-pending" /\ next.stage = "payment-received"
          /\ app[a].fee = "paid"
      BY <3>2, <3>4, EdgeMoves DEF GuardHolds
    <3>6. ASSUME NEW q \in Request, q.pc = "save_confirm", q.app = a, q.seen = app[a], q.next = next
          PROVE  Known(q) /\ \A duty \in Duties : HasDuty(req[r], duty) => HasDuty(q, duty)
      BY <2>1, <3>4, <3>5, <3>6 DEF Known, Saves, Moves
    <3>. QED BY <1>1, <1>5, <2>1, <3>1, <3>3, <3>4, <3>6, QuietRead DEF TryAdvance
  <2>. QED BY <2>2, <2>3
<1>6. CASE Refresh(r)
  <2>1. /\ req[r].pc = "refresh"
        /\ \A duty \in Duties : HasDuty(req[r], duty) => duty = "forward"
    BY <1>6 DEF Refresh, HasDuty
  <2>2. CASE app[a].stage = "payment-received" /\ Permitted(app[a], "forward", "system") # {}
    <3>1. PICK e \in Permitted(app[a], "forward", "system") :
             ReadAgain(r, "save_forward", [app[a] EXCEPT !.stage = e.to])
      BY <1>1, <1>6, <2>2 DEF Refresh, SystemTransition
    <3>2. /\ e \in Edges /\ e.from = app[a].stage /\ e.verb = "forward" /\ e.actor = "system"
      BY DEF Permitted, Selects
    <3>3. PICK next : next = [app[a] EXCEPT !.stage = e.to]
      OBVIOUS
    <3>4. next \in Snapshot /\ next.stage = e.to /\ next.fee = app[a].fee
      BY <1>2, <3>2, <3>3, EdgeFacts DEF Snapshot
    <3>5. app[a].stage = "payment-received" /\ next.stage = "work-order-issued"
      BY <3>2, <3>4, EdgeMoves
    <3>6. ASSUME NEW q \in Request, q.pc = "save_forward", q.app = a, q.seen = app[a], q.next = next
          PROVE  Known(q) /\ \A duty \in Duties : HasDuty(req[r], duty) => HasDuty(q, duty)
      BY <2>1, <3>4, <3>5, <3>6 DEF Known, Saves, Moves, HasDuty
    <3>. QED BY <1>1, <1>6, <2>1, <3>1, <3>3, <3>4, <3>6, QuietRead DEF Refresh
  <2>3. CASE ~(app[a].stage = "payment-received" /\ Permitted(app[a], "forward", "system") # {})
    <3>1. Finish(r)
      BY <1>1, <1>6, <2>3 DEF Refresh, SystemTransition
    <3>2. ASSUME a \notin disturbed PROVE app[a].stage # "payment-received"
      <4>1. FeeShown(a)
        BY <3>2 DEF QInv, Consistent
      <4>. QED BY <1>2, <2>3, <4>1, ForwardIsPermitted DEF FeeShown, PaidStages
    <3>3. ASSUME a \notin disturbed, NEW duty \in Duties, Needs(a, duty) PROVE ~HasDuty(req[r], duty)
      BY <2>1, <3>2, <3>3 DEF Needs
    <3>. QED BY <1>1, <1>6, <2>1, <3>1, <3>3, QuietEnd DEF Refresh
  <2>. QED BY <2>2, <2>3
<1>. QED BY <1>3, <1>4, <1>5, <1>6

\* A handler goes on to a step at which its snapshots no longer matter.
LEMMA QuietGoto ==
  ASSUME QInv, NEW r \in Requests, req[r].pc # "idle",
         NEW step \in {"open", "patch", "paid"}, Goto(r, step)
  PROVE  \E q \in Request : /\ q.pc = step /\ q.app = req[r].app
                            /\ req' = [req EXCEPT ![r] = q]
<1>1. req[r] \in Request /\ req \in [Requests -> Request]
  BY DEF QInv, IInv, TypeOK
<1>2. PICK q : q = [req[r] EXCEPT !.pc = step]
  OBVIOUS
<1>3. q \in Request
  BY <1>1, <1>2 DEF Request
<1>4. q.pc = step /\ q.app = req[r].app
  BY <1>1, <1>2 DEF Request
<1>5. req' = [req EXCEPT ![r] = q]
  BY <1>1, <1>2 DEF Goto
<1>. QED BY <1>3, <1>4, <1>5

LEMMA QuietPayments ==
  ASSUME QInv, IInv', NEW r \in Requests,
         IssueDeskPaymentLink(r) \/ FindActivePayment(r) \/ OpenPayment(r) \/ SettleStubLedger(r)
  PROVE  QInv'
<1>1. /\ req[r].pc \in {"link", "find", "open", "settle"}
      /\ UNCHANGED <<appVars, orderVars, disturbed, crashes>>
      /\ \A duty \in Duties : ~HasDuty(req[r], duty)
  BY DEF IssueDeskPaymentLink, FindActivePayment, OpenPayment, SettleStubLedger, HasDuty
<1>2. PICK a \in Applications : a = req[r].app
  BY <1>1 DEF QInv, IInv, Sound
<1>3. CASE Finish(r) /\ UNCHANGED feeVars
  BY <1>1, <1>3, QuietEnd
<1>4. ASSUME NEW q \in Request, q.pc = "open", q.app = a, req' = [req EXCEPT ![r] = q], UNCHANGED feeVars
      PROVE  QInv'
  <2>1. Known(q)
    BY <1>4 DEF Known, Saves
  <2>. QED BY <1>1, <1>2, <1>4, <2>1, QuietHandler
<1>5. CASE Goto(r, "open") /\ UNCHANGED feeVars
  <2>1. PICK q \in Request : q.pc = "open" /\ q.app = a /\ req' = [req EXCEPT ![r] = q]
    BY <1>1, <1>2, <1>5, QuietGoto
  <2>. QED BY <1>4, <1>5, <2>1
<1>6. CASE req' = [req EXCEPT ![r].pc = "open", ![r].payment = req[r].app] /\ UNCHANGED feeVars
  <2>1. UNCHANGED posted
    BY <1>6 DEF feeVars
  <2>2. PICK q \in Request : q.pc = "open" /\ q.app = a /\ req' = [req EXCEPT ![r] = q]
    BY <1>1, <1>2, <1>6, <2>1, LinkSound DEF QInv
  <2>. QED BY <1>4, <1>6, <2>2
<1>7. CASE req[r].pc = "open" /\ Fee!Open(a, req[r].payment) /\ Goto(r, "patch")
  <2>1. PICK p : p = req[r].payment
    OBVIOUS
  <2>2. p # None
    BY <1>7, <2>1 DEF QInv, IInv, Sound
  <2>3. PICK q \in Request : q.pc = "patch" /\ q.app = a /\ req' = [req EXCEPT ![r] = q]
    BY <1>1, <1>2, <1>7, QuietGoto
  <2>4. posted' = posted /\ slot' = [slot EXCEPT ![a] = p]
    BY <1>7, <2>1 DEF Fee!Open
  <2>5. slot'[a] = p /\ \A b \in Applications \ {a} : slot'[b] = slot[b]
    BY <2>4 DEF QInv, IInv, TypeOK
  <2>6. \A b \in Applications : Begun(b) => Begun(b)'
    BY <2>2, <2>4, <2>5 DEF Begun
  <2>7. Known(q)'
    BY <2>2, <2>3, <2>5 DEF Known, Begun, Saves
  <2>8. UNCHANGED <<app, workOrder>>
    BY <1>1 DEF appVars, orderVars
  <2>9. ASSUME a \notin disturbed' PROVE FeeShown(a)'
    BY <1>1, <2>8, <2>9 DEF QInv, Consistent, FeeShown
  <2>10. ASSUME NEW duty \in Duties, Needs(a, duty)'
         PROVE  HasDuty(q, duty) \/ Needs(a, duty)
    BY <2>2, <2>3, <2>4, <2>5, <2>8, <2>10 DEF Needs, HasDuty
  <2>11. \A duty \in Duties : Needs(a, duty)' =>
           \/ q.app = a /\ HasDuty(q, duty)
           \/ Needs(a, duty) /\ ~HasDuty(req[r], duty)
    BY <1>1, <2>3, <2>10
  <2>. QED BY <1>1, <1>2, <2>3, <2>4, <2>5, <2>6, <2>7, <2>8, <2>9, <2>11, QuietStep
<1>8. CASE Fee!Capture(a) /\ Goto(r, "paid")
  <2>1. PICK q \in Request : q.pc = "paid" /\ q.app = a /\ req' = [req EXCEPT ![r] = q]
    BY <1>1, <1>2, <1>8, QuietGoto
  <2>2. /\ slot[a] # None /\ slot' = [slot EXCEPT ![a] = None]
        /\ posted' = [posted EXCEPT ![a] = posted[a] \cup {slot[a]}]
    BY <1>8 DEF Fee!Capture
  <2>3. /\ slot'[a] = None /\ posted'[a] # {}
        /\ \A b \in Applications \ {a} : slot'[b] = slot[b] /\ posted'[b] = posted[b]
    BY <2>2 DEF QInv, IInv, TypeOK
  <2>4. \A b \in Applications : Begun(b) => Begun(b)'
    BY <2>3 DEF Begun
  <2>5. Known(q)'
    BY <2>1 DEF Known, Saves
  <2>6. UNCHANGED <<app, workOrder>>
    BY <1>1 DEF appVars, orderVars
  <2>7. ASSUME a \notin disturbed' PROVE FeeShown(a)'
    BY <1>1, <2>6, <2>7 DEF QInv, Consistent, FeeShown
  <2>8. ASSUME NEW duty \in Duties, Needs(a, duty)'
        PROVE  HasDuty(q, duty) \/ Needs(a, duty)
    BY <2>1, <2>3, <2>6, <2>8 DEF Needs, HasDuty
  <2>9. \A duty \in Duties : Needs(a, duty)' =>
          \/ q.app = a /\ HasDuty(q, duty)
          \/ Needs(a, duty) /\ ~HasDuty(req[r], duty)
    BY <1>1, <2>1, <2>8
  <2>. QED BY <1>1, <1>2, <2>1, <2>3, <2>4, <2>5, <2>6, <2>7, <2>9, QuietStep
<1>. QED BY <1>1, <1>2, <1>3, <1>5, <1>6, <1>7, <1>8
     DEF IssueDeskPaymentLink, FindActivePayment, OpenPayment, SettleStubLedger, feeVars

\* The save of a snapshot that was overtaken, or that takes a paid fee back, disturbs the
\* application; any other replaces exactly what the handler read.
LEMMA QuietSave ==
  ASSUME QInv, IInv', NEW r \in Requests, SaveApplication(r)
  PROVE  QInv'
<1>1. req[r].pc \in Saves /\ req[r].pc # "idle"
  BY DEF SaveApplication, Saves
<1>2. PICK a \in Applications : a = req[r].app
  BY <1>1 DEF QInv, IInv, Sound
<1>3. /\ req[r] \in Request /\ req[r].next \in Snapshot /\ req[r].seen \in Snapshot
      /\ app[a] \in Snapshot /\ Known(req[r])
  BY DEF QInv, IInv, TypeOK, Request
<1>4. PICK q : q = IF AfterSave(r) = "idle" THEN Idle
                   ELSE [Idle EXCEPT !.pc = AfterSave(r), !.app = a, !.seen = req[r].next]
  OBVIOUS
<1>5. AfterSave(r) \in {"idle", "link", "sync", "advance", "refresh", "find_order"}
  BY DEF AfterSave
<1>6. q \in Request /\ q.app \in {a, None}
  BY <1>2, <1>3, <1>4, <1>5, IdleKnown DEF Request, Idle
<1>7. AfterSave(r) # "idle" => q.pc = AfterSave(r) /\ q.app = a /\ q.seen = req[r].next
  BY <1>4 DEF Idle
<1>8. /\ req' = [req EXCEPT ![r] = q] /\ UNCHANGED <<slot, posted, used, workOrder>>
      /\ app'[a] = req[r].next /\ \A b \in Applications \ {a} : app'[b] = app[b]
      /\ disturbed \subseteq disturbed'
  BY <1>2, <1>4 DEF SaveApplication, feeVars, orderVars, QInv, IInv, TypeOK, Disturb
<1>9. \A b \in Applications : Begun(b) => Begun(b)'
  BY <1>8 DEF Begun
<1>10. Known(q)'
  <2>1. CASE AfterSave(r) = "idle"
    BY <1>4, <2>1, IdleKnown DEF Idle, Known, Saves
  <2>2. CASE AfterSave(r) # "idle"
    <3>1. AfterSave(r) = "find_order" => req[r].next.stage = "work-order-issued"
      BY <1>1, <1>3 DEF AfterSave, Known, Moves
    <3>. QED BY <1>5, <1>7, <2>2, <3>1 DEF Known, Saves
  <2>. QED BY <2>1, <2>2
<1>11. ASSUME a \notin disturbed'
       PROVE  /\ app[a] = req[r].seen
              /\ app[a].fee = "paid" => req[r].next.fee = "paid"
              /\ FeeShown(a) /\ Attended(a)
  BY <1>2, <1>8, <1>11 DEF SaveApplication, Overtaken, Disturb, QInv, Consistent
<1>12. ASSUME a \notin disturbed' PROVE FeeShown(a)'
  <2>1. CASE req[r].pc = "save_confirm"
    BY <1>3, <1>8, <1>11, <1>12, <2>1 DEF Known, Saves, FeeShown
  <2>2. CASE req[r].pc # "save_confirm"
    <3>1. req[r].next.stage \in PaidStages => req[r].seen.stage \in PaidStages
      BY <1>1, <1>3, <2>2 DEF Known, Moves, DeskMoves, PaidStages, Executing
    <3>. QED BY <1>8, <1>11, <1>12, <3>1 DEF FeeShown
  <2>. QED BY <2>1, <2>2
<1>13. ASSUME a \notin disturbed', NEW duty \in Duties, Needs(a, duty)'
       PROVE  \/ q.app = a /\ HasDuty(q, duty)
              \/ Needs(a, duty) /\ ~HasDuty(req[r], duty)
  <2>. DEFINE next == req[r].next
  <2>1. /\ app[a] = req[r].seen /\ app'[a] = next /\ workOrder' = workOrder
        /\ slot' = slot /\ posted' = posted
    BY <1>8, <1>11, <1>13
  <2>2. CASE duty = "pay"
    <3>1. \/ posted[a] # {} /\ next.fee # "paid"
          \/ next.fee = "pending" /\ slot[a] = None
      BY <1>13, <2>1, <2>2 DEF Needs
    <3>2. req[r].pc # "save_paid"
      BY <1>3, <3>1 DEF Known, Saves
    <3>3. CASE req[r].pc = "save_patch"
      <4>1. Begun(a)
        BY <1>2, <1>3, <3>3 DEF Known
      <4>2. posted[a] # {}
        BY <3>1, <4>1 DEF Begun
      <4>3. app[a].fee # "paid"
        BY <1>3, <1>11, <1>13, <3>3 DEF Known
      <4>. QED BY <2>2, <3>3, <4>2, <4>3 DEF Needs, HasDuty
    <3>4. CASE req[r].pc # "save_patch"
      <4>1. next.fee = app[a].fee
        BY <1>1, <1>3, <2>1, <3>2, <3>4 DEF Known
      <4>. QED BY <1>1, <2>2, <3>1, <3>2, <4>1 DEF Needs, HasDuty, Saves
    <3>. QED BY <3>3, <3>4
  <2>3. CASE duty = "show"
    <3>1. slot[a] # None /\ next.fee = "not_required"
      BY <1>13, <2>1, <2>3 DEF Needs
    <3>2. req[r].pc # "save_patch"
      BY <1>3, <3>1 DEF Known
    <3>3. req[r].pc # "save_paid"
      BY <1>3, <3>1 DEF Known
    <3>4. next.fee = app[a].fee
      BY <1>1, <1>3, <2>1, <3>2, <3>3 DEF Known
    <3>. QED BY <1>1, <2>3, <3>1, <3>2, <3>4 DEF Needs, HasDuty, Saves
  <2>4. CASE duty = "forward"
    <3>1. next.stage = "payment-received"
      BY <1>13, <2>1, <2>4 DEF Needs
    <3>2. CASE req[r].pc = "save_confirm"
      BY <1>7, <2>4, <3>2 DEF AfterSave, HasDuty
    <3>3. CASE req[r].pc # "save_confirm"
      <4>1. req[r].pc # "save_forward" /\ req[r].seen.stage = "payment-received"
        BY <1>1, <1>3, <3>1, <3>3 DEF Known, Moves, DeskMoves
      <4>. QED BY <1>1, <2>1, <2>4, <4>1 DEF Needs, HasDuty, Saves
    <3>. QED BY <3>2, <3>3
  <2>5. CASE duty = "order"
    <3>1. next.stage \in Executing /\ workOrder[a].status = "absent"
      BY <1>13, <2>1, <2>5 DEF Needs
    <3>2. CASE req[r].pc = "save_forward"
      BY <1>7, <2>5, <3>2 DEF AfterSave, HasDuty
    <3>3. CASE req[r].pc # "save_forward"
      <4>1. req[r].seen.stage \in Executing
        BY <1>1, <1>3, <3>1, <3>3 DEF Known, Moves, DeskMoves, Executing
      <4>. QED BY <1>1, <2>1, <2>5, <3>1, <4>1 DEF Needs, HasDuty, Saves
    <3>. QED BY <3>2, <3>3
  <2>6. CASE duty = "start"
    <3>1. next.stage = "work-in-progress" /\ workOrder[a].status \notin {"absent", "in_progress"}
      BY <1>13, <2>1, <2>6 DEF Needs
    <3>2. CASE req[r].pc = "save_desk"
      BY <1>7, <2>6, <3>1, <3>2 DEF AfterSave, HasDuty
    <3>3. CASE req[r].pc # "save_desk"
      <4>1. req[r].seen.stage = "work-in-progress"
        BY <1>1, <1>3, <3>1, <3>3 DEF Known, Moves
      <4>. QED BY <1>1, <2>1, <2>6, <3>1, <4>1 DEF Needs, HasDuty, Saves
    <3>. QED BY <3>2, <3>3
  <2>7. CASE duty = "finish"
    <3>1. /\ next.stage \in {"work-completed", "citizen-feedback", "closed"}
          /\ workOrder[a].status \notin {"absent", "completed"}
      BY <1>13, <2>1, <2>7 DEF Needs
    <3>2. CASE req[r].pc = "save_desk" /\ next.stage = "work-completed"
      BY <1>7, <2>7, <3>2 DEF AfterSave, HasDuty
    <3>3. CASE ~(req[r].pc = "save_desk" /\ next.stage = "work-completed")
      <4>1. req[r].seen.stage \in {"work-completed", "citizen-feedback", "closed"}
        BY <1>1, <1>3, <3>1, <3>3 DEF Known, Moves, DeskMoves
      <4>. QED BY <1>1, <2>1, <2>7, <3>1, <4>1 DEF Needs, HasDuty, Saves
    <3>. QED BY <3>2, <3>3
  <2>. QED BY <2>2, <2>3, <2>4, <2>5, <2>6, <2>7 DEF Duties
<1>. QED BY <1>2, <1>6, <1>8, <1>9, <1>10, <1>12, <1>13, QuietStep

\* The handler ends after writing the work order of its application.
LEMMA QuietOrder ==
  ASSUME QInv, IInv', NEW r \in Requests, Finish(r), req[r].pc # "idle",
         NEW a \in Applications, a = req[r].app,
         NEW row \in WorkOrder, workOrder' = [workOrder EXCEPT ![a] = row],
         UNCHANGED <<appVars, feeVars>>, disturbed \subseteq disturbed',
         a \notin disturbed' =>
           \A duty \in Duties : Needs(a, duty)' => Needs(a, duty) /\ ~HasDuty(req[r], duty)
  PROVE  QInv'
<1>1. PICK q : q = Idle
  OBVIOUS
<1>2. q \in Request /\ q.app = None /\ Known(q) /\ req' = [req EXCEPT ![r] = q]
  BY <1>1, IdleKnown DEF Finish
<1>3. Known(q)'
  BY <1>1, IdleKnown DEF Idle, Known, Saves
<1>4. UNCHANGED <<app, slot, posted, used>> /\ \A b \in Applications : Begun(b) => Begun(b)'
  BY DEF appVars, feeVars, Begun
<1>5. \A b \in Applications \ {a} : workOrder'[b] = workOrder[b]
  BY DEF QInv, IInv, TypeOK
<1>6. ASSUME a \notin disturbed' PROVE FeeShown(a)'
  BY <1>4, <1>6 DEF QInv, Consistent, FeeShown
<1>. QED BY <1>2, <1>3, <1>4, <1>5, <1>6, QuietStep

LEMMA QuietOrders ==
  ASSUME QInv, IInv', NEW r \in Requests,
         FindWorkOrder(r) \/ InsertWorkOrder(r) \/ SyncWorkOrder(r) \/ SaveAssignment(r)
  PROVE  QInv'
<1>1. req[r].pc \in {"find_order", "insert_order", "sync", "assign"}
  BY DEF FindWorkOrder, InsertWorkOrder, SyncWorkOrder, SaveAssignment
<1>2. PICK a \in Applications : a = req[r].app
  BY <1>1 DEF QInv, IInv, Sound
<1>3. /\ req[r] \in Request /\ req \in [Requests -> Request] /\ Known(req[r])
      /\ workOrder \in [Applications -> WorkOrder] /\ workOrder[a] \in WorkOrder
      /\ req[r].order \in WorkOrder
  BY DEF QInv, IInv, TypeOK, Request
<1>4. CASE FindWorkOrder(r)
  <2>1. /\ req[r].pc = "find_order" /\ UNCHANGED <<appVars, feeVars, orderVars, disturbed>>
        /\ \A duty \in Duties : HasDuty(req[r], duty) => duty = "order"
    BY <1>4 DEF FindWorkOrder, HasDuty
  <2>2. CASE a \in Issued
    <3>1. \A duty \in Duties : Needs(a, duty) => ~HasDuty(req[r], duty)
      BY <2>1, <2>2 DEF Needs, Issued
    <3>. QED BY <1>2, <1>4, <2>1, <2>2, <3>1, QuietEnd DEF FindWorkOrder
  <2>3. CASE a \notin Issued
    <3>1. PICK q : q = [req[r] EXCEPT !.pc = "insert_order",
                                      !.order = [no |-> Cardinality(Taken) + 1, status |-> "issued"]]
      OBVIOUS
    <3>2. req' = [req EXCEPT ![r] = q]
      BY <1>2, <1>3, <1>4, <2>3, <3>1 DEF FindWorkOrder
    <3>3. q \in Request
      BY <1>3, <3>2 DEF QInv, IInv, TypeOK
    <3>4. q.pc = "insert_order" /\ q.app = a /\ q.seen = req[r].seen /\ q.order.status = "issued"
      BY <1>2, <1>3, <3>1 DEF Request
    <3>5. Known(q)
      BY <1>3, <2>1, <3>4 DEF Known, Saves
    <3>6. \A duty \in Duties : HasDuty(req[r], duty) => HasDuty(q, duty)
      BY <2>1, <3>4 DEF HasDuty
    <3>. QED BY <1>2, <2>1, <3>2, <3>3, <3>4, <3>5, <3>6, QuietHandler
  <2>. QED BY <2>2, <2>3
<1>5. CASE InsertWorkOrder(r)
  <2>1. /\ req[r].pc = "insert_order" /\ UNCHANGED <<appVars, feeVars, elsewhere>> /\ Finish(r)
        /\ disturbed \subseteq disturbed'
    BY <1>5 DEF InsertWorkOrder, Disturb
  <2>2. req[r].order.status = "issued" /\ req[r].seen.stage = "work-order-issued"
    BY <1>3, <2>1 DEF Known
  <2>3. CASE OrderIndexesAllow(a, req[r].order.no)
    <3>1. workOrder' = [workOrder EXCEPT ![a] = req[r].order] /\ workOrder'[a].status = "issued"
      BY <1>2, <1>3, <1>5, <2>2, <2>3 DEF InsertWorkOrder
    <3>2. ASSUME a \notin disturbed' PROVE app[a].stage = "work-order-issued"
      BY <1>2, <1>5, <2>2, <2>3, <3>2 DEF InsertWorkOrder, Overtaken, Disturb
    <3>3. ASSUME a \notin disturbed', NEW duty \in Duties, Needs(a, duty)'
          PROVE  Needs(a, duty) /\ ~HasDuty(req[r], duty)
      <4>1. duty \in {"pay", "show"}
        BY <2>1, <3>1, <3>2, <3>3 DEF Needs, Duties, appVars
      <4>2. Needs(a, duty)
        BY <2>1, <3>3, <4>1 DEF Needs, appVars, feeVars
      <4>. QED BY <2>1, <4>1, <4>2 DEF HasDuty
    <3>. QED BY <1>2, <1>3, <2>1, <3>1, <3>3, QuietOrder
  <2>4. CASE ~OrderIndexesAllow(a, req[r].order.no)
    <3>1. UNCHANGED orderVars /\ a \in disturbed'
      BY <1>2, <1>5, <2>1, <2>4 DEF InsertWorkOrder, Disturb, orderVars
    <3>. QED BY <1>2, <2>1, <3>1, QuietEnd
  <2>. QED BY <2>3, <2>4
<1>6. CASE SyncWorkOrder(r)
  <2>1. /\ req[r].pc = "sync" /\ UNCHANGED <<appVars, feeVars, elsewhere>> /\ Finish(r)
        /\ disturbed \subseteq disturbed' /\ (a \notin disturbed' => app[a] = req[r].seen)
    BY <1>2, <1>6 DEF SyncWorkOrder, Disturb, Overtaken
  <2>2. req[r].seen.stage \in {"work-in-progress", "work-completed"}
    BY <2>1 DEF QInv, IInv, Sound
  <2>3. CASE a \in Issued
    <3>. DEFINE to == StatusAt(req[r].seen.stage, workOrder[a].status)
    <3>1. PICK row : row = [workOrder[a] EXCEPT !.status = to]
      OBVIOUS
    <3>2. workOrder' = [workOrder EXCEPT ![a] = row]
      BY <1>2, <1>3, <1>6, <2>3, <3>1 DEF SyncWorkOrder
    <3>3. to = IF req[r].seen.stage = "work-in-progress" THEN "in_progress" ELSE "completed"
      BY <2>2 DEF StatusAt
    <3>. HIDE DEF to
    <3>4. row.status = to /\ row \in WorkOrder
      BY <1>3, <3>1, <3>3 DEF WorkOrder, OrderStatuses
    <3>5. workOrder'[a].status = to
      BY <1>3, <3>2, <3>4
    <3>6. ASSUME a \notin disturbed', NEW duty \in Duties, Needs(a, duty)'
          PROVE  Needs(a, duty) /\ ~HasDuty(req[r], duty)
      <4>1. duty \in {"pay", "show"}
        BY <2>1, <2>2, <3>3, <3>5, <3>6 DEF Needs, Duties, Executing, appVars
      <4>2. Needs(a, duty)
        BY <2>1, <3>6, <4>1 DEF Needs, appVars, feeVars
      <4>. QED BY <2>1, <4>1, <4>2 DEF HasDuty
    <3>. QED BY <1>2, <2>1, <3>2, <3>4, <3>6, QuietOrder
  <2>4. CASE a \notin Issued
    <3>1. UNCHANGED orderVars
      BY <1>2, <1>6, <2>4 DEF SyncWorkOrder, orderVars
    <3>2. ASSUME NEW duty \in Duties, Needs(a, duty) PROVE ~HasDuty(req[r], duty)
      BY <2>1, <2>4, <3>2 DEF Needs, HasDuty, Issued
    <3>. QED BY <1>2, <2>1, <3>1, <3>2, QuietEnd
  <2>. QED BY <2>3, <2>4
<1>7. CASE SaveAssignment(r)
  <2>. DEFINE to == IF req[r].order.status \in {"issued", "assigned"} THEN "assigned"
                    ELSE req[r].order.status
  <2>1. /\ req[r].pc = "assign" /\ UNCHANGED <<appVars, feeVars, elsewhere>> /\ Finish(r)
        /\ disturbed \subseteq disturbed' /\ (a \notin disturbed' => workOrder[a] = req[r].order)
    BY <1>2, <1>7 DEF SaveAssignment, Disturb
  <2>2. PICK row : row = [workOrder[a] EXCEPT !.status = to]
    OBVIOUS
  <2>3. workOrder' = [workOrder EXCEPT ![a] = row]
    BY <1>2, <1>3, <1>7, <2>2 DEF SaveAssignment
  <2>4. to \in {"absent"} \cup OrderStatuses
    BY <1>3 DEF WorkOrder, OrderStatuses
  <2>5. row.status = to /\ row \in WorkOrder
    <3>. HIDE DEF to
    <3>. QED BY <1>3, <2>2, <2>4 DEF WorkOrder
  <2>6. workOrder'[a].status = to
    BY <1>3, <2>3, <2>5
  <2>7. ASSUME a \notin disturbed', NEW duty \in Duties, Needs(a, duty)'
        PROVE  Needs(a, duty) /\ ~HasDuty(req[r], duty)
    <3>1. /\ to = "absent" <=> workOrder[a].status = "absent"
          /\ to = "in_progress" <=> workOrder[a].status = "in_progress"
          /\ to = "completed" <=> workOrder[a].status = "completed"
      BY <2>1, <2>7
    <3>2. Needs(a, duty)
      <4>. HIDE DEF to
      <4>. QED BY <2>1, <2>6, <2>7, <3>1 DEF Needs, appVars, feeVars
    <3>. QED BY <2>1, <3>2 DEF HasDuty
  <2>. QED BY <1>2, <2>1, <2>3, <2>5, <2>7, QuietOrder
<1>. QED BY <1>4, <1>5, <1>6, <1>7

LEMMA InitQInv == Init => QInv
<1>. SUFFICES ASSUME Init PROVE QInv
  OBVIOUS
<1>1. IInv
  BY InitIInv
<1>. USE DEF Init, Fee!Init
<1>3. \A r \in Requests : Known(req[r])
  BY IdleKnown
<1>4. \A a \in Applications : Consistent(a)
  BY DEF Arrived, Consistent, FeeShown, Attended, Needs, PaidStages, Executing
<1>. QED BY <1>1, <1>3, <1>4 DEF QInv

LEMMA NextQInv == QInv /\ [Next]_vars => QInv'
<1>. SUFFICES ASSUME QInv, [Next]_vars PROVE QInv'
  OBVIOUS
<1>1. IInv'
  BY NextIInv DEF QInv
<1>2. ASSUME UNCHANGED <<app, feeVars, workOrder, req, disturbed>> PROVE QInv'
  <2>1. \A r \in Requests : Known(req[r])'
    BY <1>2 DEF QInv, Known, Begun, feeVars
  <2>2. ASSUME NEW a \in Applications PROVE Consistent(a)'
    <3>1. Consistent(a)
      BY DEF QInv
    <3>2. \A duty \in Duties : Needs(a, duty)' = Needs(a, duty)
      BY <1>2 DEF Needs, appVars, feeVars
    <3>3. \A duty \in Duties : Does(a, duty)' = Does(a, duty)
      BY <1>2 DEF Does
    <3>. QED BY <1>2, <3>1, <3>2, <3>3 DEF Consistent, FeeShown, Attended
  <2>. QED BY <1>1, <2>1, <2>2 DEF QInv
<1>3. CASE UNCHANGED vars
  BY <1>2, <1>3 DEF vars, appVars, orderVars
<1>4. CASE IssueElsewhere
  BY <1>2, <1>4 DEF IssueElsewhere, appVars
<1>5. ASSUME NEW r \in Requests, Call(r) PROVE QInv'
  BY <1>1, <1>5, QuietCalls
<1>6. ASSUME NEW r \in Requests, Continue(r) PROVE QInv'
  BY <1>1, <1>6, QuietSave, QuietPayments, QuietReads, QuietOrders DEF Continue
<1>7. ASSUME NEW r \in Requests, Die(r) PROVE QInv'
  BY <1>1, <1>7, QuietEnd DEF Die, Disturb
<1>. QED BY <1>3, <1>4, <1>5, <1>6, <1>7 DEF Next

\* Between calls, the documents, the payment and the work order of an application agree unless
\* a handler failed on it or wrote to it late: for any number of handlers, and wherever the
\* others stand.
THEOREM QuietIsConsistentHolds == Spec => []QuietIsConsistent
<1>1. ASSUME QInv, NEW a \in Applications, Quiet(a)
      PROVE  \A duty \in Duties : ~Needs(a, duty)
  BY <1>1 DEF QInv, Consistent, Attended, Does, Quiet
<1>2. QInv => QuietIsConsistent
  <2>. SUFFICES ASSUME QInv, NEW a \in Applications, Quiet(a)
                PROVE  /\ app[a].fee = "paid" <=> posted[a] # {}
                       /\ app[a].fee = "pending" => slot[a] # None
                       /\ slot[a] # None => app[a].fee # "not_required"
                       /\ app[a].stage # "payment-received"
                       /\ app[a].stage \in Executing => a \in Issued
                       /\ app[a].stage = "work-in-progress" => workOrder[a].status = "in_progress"
                       /\ app[a].stage \in {"work-completed", "citizen-feedback", "closed"}
                            => workOrder[a].status = "completed"
    BY DEF QuietIsConsistent
  <2>1. ~Needs(a, "pay") /\ ~Needs(a, "show")
    BY <1>1 DEF Duties
  <2>2. ~Needs(a, "forward") /\ ~Needs(a, "order") /\ ~Needs(a, "start") /\ ~Needs(a, "finish")
    BY <1>1 DEF Duties
  <2>3. Backed(a, app[a])
    BY DEF QInv, IInv, DocumentsBacked
  <2>4. app[a].fee = "paid" <=> posted[a] # {}
    BY <2>1, <2>3 DEF Needs, Backed
  <2>5. /\ app[a].fee = "pending" => slot[a] # None
        /\ slot[a] # None => app[a].fee # "not_required"
    BY <2>1 DEF Needs
  <2>6. app[a].stage # "payment-received" /\ (app[a].stage \in Executing => a \in Issued)
    BY <2>2 DEF Needs, Issued
  <2>7. /\ app[a].stage = "work-in-progress" => workOrder[a].status = "in_progress"
        /\ app[a].stage \in {"work-completed", "citizen-feedback", "closed"}
             => workOrder[a].status = "completed"
    BY <2>2 DEF Needs, Executing
  <2>. QED BY <2>4, <2>5, <2>6, <2>7
<1>. QED BY <1>2, InitQInv, NextQInv, PTL DEF Spec
=============================================================================
