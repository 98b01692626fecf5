--------------------------- MODULE PaymentsProofs ---------------------------
(***************************************************************************)
(* Proofs about Payments for every number of applications, keys, payments   *)
(* and handlers.  One inductive invariant carries all four safety           *)
(* properties; the refinement of FeeAccount is proved from it, and a second *)
(* invariant shows when a fee line can be charged only once.                *)
(***************************************************************************)
EXTENDS Payments, FiniteSetTheorems, TLAPS

\* Payment p has been collected for line l.
SettledFor(p, l) == payments[p] = [status |-> "settled", line |-> l]

Collected(l) == \E p \in PaymentIds : SettledFor(p, l)

\* What PaidLineIsSettled and SubmittedImpliesCollected ask of a stored snapshot
\* must already hold of every snapshot a handler has read and may write back.
Backed(a, s) ==
  /\ \A c \in FeeCodes :
       s.fees[c].status = "paid" =>
         \E p \in PaymentIds : s.fees[c].payment = p /\ SettledFor(p, <<a, c>>)
  /\ (s.stage = "submitted" /\ ApplicationFeeDue(a)) =>
         Collected(<<a, "application">>)

RowsWellFormed ==
  \A p \in PaymentIds : payments[p].status # "absent" => payments[p].line \in Lines

\* The locals a handler relies on after each of its awaits.
HandlerOK(r) ==
  /\ req[r].pc # "idle" => req[r].line \in Lines
  /\ req[r].pc \in {"find_key", "find_active", "create"} => req[r].key \in IdempotencyKeys
  /\ req[r].pc \in {"settle_read", "settle_commit", "read_fee", "save_fee"} =>
       /\ req[r].payment \in PaymentIds
       /\ payments[req[r].payment].status # "absent"
       /\ payments[req[r].payment].line = req[r].line
  /\ (req[r].pc \in {"read_fee", "save_fee"} /\ req[r].patch = "paid") =>
       payments[req[r].payment].status = "settled"
  /\ req[r].pc \in {"save_fee", "save_submit"} => Backed(req[r].line[1], req[r].seen)
  /\ (req[r].pc = "save_submit" /\ ApplicationFeeDue(req[r].line[1])) =>
       Collected(<<req[r].line[1], "application">>)

SnapshotsBacked == \A a \in Applications : Backed(a, snapshot[a])

IInv ==
  /\ TypeOK
  /\ RowsWellFormed
  /\ OneActiveAttempt
  /\ BooksBalance
  /\ SnapshotsBacked
  /\ \A r \in Requests : HandlerOK(r)

-----------------------------------------------------------------------------
(* Type correctness *)

LEMMA IdleType == Idle \in Request
  BY DEF Idle, Request, BlankSnapshot, Snapshot, FeeLine, FeeCodes, Steps

\* Patching one line of a snapshot yields a snapshot.
LEMMA PatchType ==
  ASSUME NEW s \in Snapshot, NEW c \in FeeCodes,
         NEW status \in {"pending", "paid"}, NEW p \in PaymentIds \cup {None}
  PROVE  /\ PatchFeeLine(s, c, status, p) \in Snapshot
         /\ PatchFeeLine(s, c, status, p).stage = s.stage
         /\ PatchFeeLine(s, c, status, p).fees[c] = [status |-> status, payment |-> p]
         /\ \A d \in FeeCodes \ {c} : PatchFeeLine(s, c, status, p).fees[d] = s.fees[d]
  BY DEF PatchFeeLine, Snapshot, FeeLine

LEMMA InitType == Init => TypeOK
<1>. SUFFICES ASSUME Init PROVE TypeOK
  OBVIOUS
<1>1. req \in [Requests -> Request]
  BY IdleType DEF Init
<1>2. snapshot \in [Applications -> Snapshot]
  BY DEF Init, Snapshot, FeeLine, FeeCodes, InitialFeeSettlement
<1>3. /\ payments \in [PaymentIds -> PaymentRow]
      /\ idempotency \in [IdempotencyKeys -> PaymentIds \cup {None}]
      /\ receipts \in [PaymentIds -> Nat]
      /\ glPostings \in [PaymentIds -> Nat]
      /\ crashes \in Nat
  BY DEF Init, PaymentRow
<1>. QED BY <1>1, <1>2, <1>3 DEF TypeOK

\* Every step keeps the types, given the locals HandlerOK vouches for.
LEMMA StepType ==
  ASSUME TypeOK, \A r \in Requests : HandlerOK(r), [Next]_vars
  PROVE  TypeOK'
<1>. USE IdleType DEF TypeOK, Request, Steps, Goto, Finish, ledgerVars
<1>1. CASE UNCHANGED vars
  BY <1>1 DEF vars
<1>2. ASSUME NEW r \in Requests, NEW l \in Lines, NEW k \in Keys, Initiate(r, l, k)
      PROVE  TypeOK'
  <2>1. snapshot[l[1]] \in Snapshot
    BY DEF Lines
  <2>. QED BY <1>2, <2>1 DEF Initiate, IdempotencyKeys
<1>3. ASSUME NEW r \in Requests, NEW a \in Applications, IssueDeskPaymentLink(r, a)
      PROVE  TypeOK'
  BY ZenonT(60), <1>3 DEF IssueDeskPaymentLink, IdempotencyKeys, Lines, FeeCodes
<1>4. ASSUME NEW r \in Requests, NEW a \in Applications, SubmitDraft(r, a)
      PROVE  TypeOK'
  BY <1>4 DEF SubmitDraft, Lines, FeeCodes
<1>5. ASSUME NEW r \in Requests, NEW p \in PaymentIds, CompleteStubPayment(r, p)
      PROVE  TypeOK'
  BY <1>5 DEF CompleteStubPayment, PaymentRow
<1>6. ASSUME NEW r \in Requests, FindIdempotencyRecord(r)
      PROVE  TypeOK'
  BY <1>6 DEF FindIdempotencyRecord
<1>7. ASSUME NEW r \in Requests, FindActivePayment(r)
      PROVE  TypeOK'
  BY <1>7 DEF FindActivePayment, ActivePayments
<1>8. ASSUME NEW r \in Requests, NEW p \in PaymentIds, CreatePendingPayment(r, p)
      PROVE  TypeOK'
  <2>1. req[r].line \in Lines /\ req[r].key \in IdempotencyKeys
    BY <1>8 DEF CreatePendingPayment, HandlerOK
  <2>2. payments' \in [PaymentIds -> PaymentRow]
    BY <1>8, <2>1 DEF CreatePendingPayment, PaymentRow
  <2>3. req' \in [Requests -> Request]
    <3>. DEFINE q == [req[r] EXCEPT !.pc = "read_fee", !.payment = p, !.patch = "pending"]
    <3>1. q \in Request
      OBVIOUS
    <3>2. req' = [req EXCEPT ![r] = q]
      BY <1>8 DEF CreatePendingPayment
    <3>. QED BY <3>1, <3>2
  <2>. QED BY <1>8, <2>1, <2>2, <2>3 DEF CreatePendingPayment
<1>9. ASSUME NEW r \in Requests,
             \/ RejectDuplicatePayment(r) \/ RejectDoubleSettlement(r) \/ ReadForSettlement(r)
      PROVE  TypeOK'
  <2>1. Finish(r) \/ Goto(r, "settle_commit")
    BY <1>9 DEF RejectDuplicatePayment, RejectDoubleSettlement, ReadForSettlement
  <2>2. UNCHANGED <<ledgerVars, snapshot, crashes>>
    BY <1>9 DEF RejectDuplicatePayment, RejectDoubleSettlement, ReadForSettlement
  <2>. QED BY <2>1, <2>2
<1>10. ASSUME NEW r \in Requests, SettleStubLedger(r)
       PROVE  TypeOK'
  <2>1. req[r].payment \in PaymentIds
    BY <1>10 DEF SettleStubLedger, HandlerOK
  <2>2. payments' \in [PaymentIds -> PaymentRow]
    BY ZenonT(60), <1>10, <2>1 DEF SettleStubLedger, PaymentRow
  <2>3. req' \in [Requests -> Request]
    BY ZenonT(60), <1>10 DEF SettleStubLedger
  <2>4. receipts' \in [PaymentIds -> Nat] /\ glPostings' \in [PaymentIds -> Nat]
    BY <1>10, <2>1 DEF SettleStubLedger
  <2>. QED BY <1>10, <2>2, <2>3, <2>4 DEF SettleStubLedger
<1>11. ASSUME NEW r \in Requests, ReadFeeSettlement(r)
       PROVE  TypeOK'
  <2>1. snapshot[req[r].line[1]] \in Snapshot
    BY <1>11 DEF ReadFeeSettlement, HandlerOK, Lines
  <2>. QED BY ZenonT(60), <1>11, <2>1 DEF ReadFeeSettlement
<1>12. ASSUME NEW r \in Requests, SaveFeeSettlement(r)
       PROVE  TypeOK'
  <2>1. PatchFeeLine(req[r].seen, req[r].line[2], req[r].patch, req[r].payment) \in Snapshot
    BY <1>12, PatchType DEF SaveFeeSettlement, HandlerOK, Lines
  <2>. QED BY <1>12, <2>1 DEF SaveFeeSettlement, HandlerOK
<1>13. ASSUME NEW r \in Requests, SaveSubmission(r)
       PROVE  TypeOK'
  <2>1. [req[r].seen EXCEPT !.stage = "submitted"] \in Snapshot
    BY DEF Snapshot
  <2>. QED BY <1>13, <2>1 DEF SaveSubmission
<1>14. ASSUME NEW r \in Requests, Crash(r)
       PROVE  TypeOK'
  BY <1>14 DEF Crash
<1>. QED
  BY <1>1, <1>2, <1>3, <1>4, <1>5, <1>6, <1>7, <1>8, <1>9, <1>10, <1>11, <1>12, <1>13, <1>14
     DEF Next, Call, Continue

-----------------------------------------------------------------------------
(* The payments table only moves forward *)

\* A row keeps its line, never disappears, and stays settled.
RowsGrow ==
  \A p \in PaymentIds :
    /\ payments[p].status # "absent" =>
         payments'[p].status # "absent" /\ payments'[p].line = payments[p].line
    /\ payments[p].status = "settled" => payments'[p] = payments[p]

\* Only two steps write the ledger tables.
LEMMA LedgerFrame ==
  ASSUME [Next]_vars
  PROVE  \/ UNCHANGED ledgerVars
         \/ \E r \in Requests : SettleStubLedger(r)
         \/ \E r \in Requests, p \in PaymentIds : CreatePendingPayment(r, p)
  BY DEF vars, ledgerVars, Next, Call, Continue, Initiate, IssueDeskPaymentLink, SubmitDraft,
         CompleteStubPayment, FindIdempotencyRecord, FindActivePayment, RejectDuplicatePayment,
         RejectDoubleSettlement, ReadForSettlement, ReadFeeSettlement, SaveFeeSettlement,
         SaveSubmission, Crash

LEMMA StepRows ==
  ASSUME TypeOK, \A r \in Requests : HandlerOK(r), [Next]_vars
  PROVE  RowsGrow
<1>1. CASE UNCHANGED ledgerVars
  BY <1>1 DEF ledgerVars, RowsGrow
<1>2. ASSUME NEW r \in Requests, NEW p \in PaymentIds, CreatePendingPayment(r, p)
      PROVE  RowsGrow
  BY <1>2 DEF CreatePendingPayment, RowsGrow, TypeOK
<1>3. ASSUME NEW r \in Requests, SettleStubLedger(r)
      PROVE  RowsGrow
  BY <1>3 DEF SettleStubLedger, RowsGrow, TypeOK, PaymentRow
<1>. QED BY <1>1, <1>2, <1>3, LedgerFrame

\* The ledger part of the invariant.
LEMMA StepLedger ==
  ASSUME IInv, [Next]_vars
  PROVE  (RowsWellFormed /\ OneActiveAttempt /\ BooksBalance)'
<1>. USE DEF IInv, TypeOK, PaymentRow
<1>1. CASE UNCHANGED ledgerVars
  BY <1>1 DEF ledgerVars, RowsWellFormed, OneActiveAttempt, BooksBalance
<1>2. ASSUME NEW r \in Requests, NEW p \in PaymentIds, CreatePendingPayment(r, p)
      PROVE  (RowsWellFormed /\ OneActiveAttempt /\ BooksBalance)'
  <2>1. req[r].line \in Lines
    BY <1>2 DEF CreatePendingPayment, HandlerOK
  <2>2. RowsWellFormed'
    BY <1>2, <2>1 DEF CreatePendingPayment, RowsWellFormed
  <2>3. OneActiveAttempt'
    BY <1>2 DEF CreatePendingPayment, OneActiveAttempt, NoActiveAttempt, ActivePayments
  <2>4. BooksBalance'
    BY <1>2 DEF CreatePendingPayment, BooksBalance
  <2>. QED BY <2>2, <2>3, <2>4
<1>3. ASSUME NEW r \in Requests, SettleStubLedger(r)
      PROVE  (RowsWellFormed /\ OneActiveAttempt /\ BooksBalance)'
  <2>1. req[r].payment \in PaymentIds /\ payments[req[r].payment].status # "absent"
    BY <1>3 DEF SettleStubLedger, HandlerOK
  <2>2. RowsWellFormed'
    BY <1>3, <2>1 DEF SettleStubLedger, RowsWellFormed
  <2>3. OneActiveAttempt'
    BY <1>3, <2>1 DEF SettleStubLedger, OneActiveAttempt
  <2>4. BooksBalance'
    BY <1>3, <2>1 DEF SettleStubLedger, BooksBalance, NotYetPosted
  <2>. QED BY <2>2, <2>3, <2>4
<1>. QED BY <1>1, <1>2, <1>3, LedgerFrame

-----------------------------------------------------------------------------
(* Stored and stale snapshots stay backed by settled payments *)

LEMMA BackedStable ==
  ASSUME TypeOK, RowsGrow, NEW a \in Applications, NEW s \in Snapshot, Backed(a, s)
  PROVE  Backed(a, s)'
  BY DEF Backed, Collected, SettledFor, RowsGrow

LEMMA IdleOK ==
  ASSUME NEW r \in Requests, req'[r] = Idle
  PROVE  HandlerOK(r)'
  BY DEF HandlerOK, Idle

\* A handler that did not move keeps what it relies on.
LEMMA HandlerStable ==
  ASSUME TypeOK, RowsGrow, NEW r \in Requests, HandlerOK(r), req'[r] = req[r]
  PROVE  HandlerOK(r)'
<1>1. req[r] \in Request
  BY DEF TypeOK
<1>2. CASE req[r].pc = "idle"
  BY <1>2 DEF HandlerOK
<1>3. CASE req[r].pc # "idle"
  <2>1. req[r].line[1] \in Applications /\ req[r].seen \in Snapshot
    BY <1>1, <1>3 DEF HandlerOK, Lines, Request
  <2>2. Backed(req[r].line[1], req[r].seen) => Backed(req[r].line[1], req[r].seen)'
    <3>. SUFFICES ASSUME NEW a \in Applications, NEW s \in Snapshot,
                         a = req[r].line[1], s = req[r].seen, Backed(a, s)
                  PROVE  Backed(req[r].line[1], req[r].seen)'
      BY <2>1
    <3>1. Backed(a, s)'
      BY BackedStable
    <3>. QED BY <3>1 DEF Backed
  <2>3. Collected(<<req[r].line[1], "application">>) =>
          Collected(<<req[r].line[1], "application">>)'
    BY DEF Collected, SettledFor, RowsGrow
  <2>. QED BY <2>2, <2>3 DEF HandlerOK, RowsGrow
<1>. QED BY <1>2, <1>3

\* Only two steps write a snapshot.
LEMMA SnapshotFrame ==
  ASSUME [Next]_vars
  PROVE  \/ UNCHANGED snapshot
         \/ \E r \in Requests : SaveFeeSettlement(r)
         \/ \E r \in Requests : SaveSubmission(r)
  BY DEF vars, Next, Call, Continue, Initiate, IssueDeskPaymentLink, SubmitDraft,
         CompleteStubPayment, FindIdempotencyRecord, FindActivePayment, CreatePendingPayment,
         RejectDuplicatePayment, RejectDoubleSettlement, ReadForSettlement, SettleStubLedger,
         ReadFeeSettlement, Crash

LEMMA StepSnapshots ==
  ASSUME IInv, [Next]_vars
  PROVE  SnapshotsBacked'
<1>1. RowsGrow
  BY StepRows DEF IInv
<1>2. \A a \in Applications : Backed(a, snapshot[a]) =>
        (snapshot'[a] = snapshot[a] => Backed(a, snapshot[a])')
  BY <1>1, BackedStable DEF IInv, TypeOK
<1>3. CASE UNCHANGED snapshot
  BY <1>2, <1>3 DEF IInv, SnapshotsBacked
<1>4. ASSUME NEW r \in Requests, SaveFeeSettlement(r)
      PROVE  SnapshotsBacked'
  <2>. DEFINE a == req[r].line[1]
              c == req[r].line[2]
              s == PatchFeeLine(req[r].seen, c, req[r].patch, req[r].payment)
  <2>1. /\ req[r] \in Request
        /\ req[r].line \in Lines
        /\ a \in Applications /\ c \in FeeCodes /\ req[r].line = <<a, c>>
        /\ req[r].payment \in PaymentIds
    <3>1. req[r] \in Request
      BY DEF IInv, TypeOK
    <3>2. req[r].line \in Lines /\ req[r].payment \in PaymentIds
      BY <1>4 DEF SaveFeeSettlement, HandlerOK, IInv
    <3>. QED BY <3>1, <3>2 DEF Lines
  <2>2. /\ s.stage = req[r].seen.stage
        /\ s.fees[c] = [status |-> req[r].patch, payment |-> req[r].payment]
        /\ \A d \in FeeCodes \ {c} : s.fees[d] = req[r].seen.fees[d]
    BY <2>1, PatchType DEF Request
  <2>3. Backed(a, req[r].seen) /\ UNCHANGED payments
    BY <1>4 DEF SaveFeeSettlement, HandlerOK, IInv, ledgerVars
  <2>4. req[r].patch = "paid" => SettledFor(req[r].payment, <<a, c>>)
    BY <1>4, <2>1 DEF SaveFeeSettlement, HandlerOK, IInv, SettledFor, TypeOK, PaymentRow
  <2>5. ASSUME NEW d \in FeeCodes, s.fees[d].status = "paid"
        PROVE  \E p \in PaymentIds : s.fees[d].payment = p /\ SettledFor(p, <<a, d>>)
    <3>1. CASE d = c
      <4>1. s.fees[d].status = req[r].patch /\ s.fees[d].payment = req[r].payment
        BY <2>2, <3>1
      <4>. QED BY <2>1, <2>4, <2>5, <3>1, <4>1
    <3>2. CASE d # c
      <4>1. s.fees[d] = req[r].seen.fees[d]
        BY <2>2, <3>2
      <4>. HIDE DEF s, a, c
      <4>. QED BY <2>3, <2>5, <4>1 DEF Backed
    <3>. QED BY <3>1, <3>2
  <2>6. Backed(a, s)
    BY <2>2, <2>3, <2>5 DEF Backed
  <2>7. snapshot' = [snapshot EXCEPT ![a] = s]
    BY <1>4 DEF SaveFeeSettlement
  <2>8. ASSUME NEW b \in Applications
        PROVE  Backed(b, snapshot[b])'
    <3>1. CASE b # a
      BY <1>2, <2>7, <3>1 DEF IInv, SnapshotsBacked, TypeOK
    <3>2. CASE b = a
      <4>1. snapshot'[b] = s
        BY <2>1, <2>7, <3>2 DEF IInv, TypeOK
      <4>2. Backed(b, snapshot'[b])
        BY <2>6, <3>2, <4>1
      <4>. QED BY <2>3, <4>2 DEF Backed, Collected, SettledFor
    <3>. QED BY <3>1, <3>2
  <2>. QED BY <2>8 DEF SnapshotsBacked
<1>5. ASSUME NEW r \in Requests, SaveSubmission(r)
      PROVE  SnapshotsBacked'
  <2>. DEFINE a == req[r].line[1]
              s == [req[r].seen EXCEPT !.stage = "submitted"]
  <2>1. /\ req[r].line \in Lines /\ req[r].seen \in Snapshot
        /\ a \in Applications
    BY <1>5 DEF SaveSubmission, HandlerOK, IInv, TypeOK, Lines, Request
  <2>2. /\ Backed(a, req[r].seen) /\ UNCHANGED payments
        /\ ApplicationFeeDue(a) => Collected(<<a, "application">>)
    BY <1>5 DEF SaveSubmission, HandlerOK, IInv, ledgerVars
  <2>3. s.fees = req[r].seen.fees
    BY <2>1 DEF Snapshot
  <2>4. Backed(a, s)
    BY <2>2, <2>3 DEF Backed
  <2>5. snapshot' = [snapshot EXCEPT ![a] = s]
    BY <1>5 DEF SaveSubmission
  <2>6. ASSUME NEW b \in Applications
        PROVE  Backed(b, snapshot[b])'
    <3>1. CASE b # a
      BY <1>2, <2>5, <3>1 DEF IInv, SnapshotsBacked, TypeOK
    <3>2. CASE b = a
      <4>1. snapshot'[b] = s
        BY <2>1, <2>5, <3>2 DEF IInv, TypeOK
      <4>2. Backed(b, snapshot'[b])
        BY <2>4, <3>2, <4>1
      <4>. QED BY <2>2, <4>2 DEF Backed, Collected, SettledFor
    <3>. QED BY <3>1, <3>2
  <2>. QED BY <2>6 DEF SnapshotsBacked
<1>. QED BY <1>3, <1>4, <1>5, SnapshotFrame

-----------------------------------------------------------------------------
(* Each handler keeps the facts it relies on *)

\* Moving on to the next await changes nothing else of a handler.
LEMMA GotoFields ==
  ASSUME TypeOK, NEW r \in Requests, NEW step \in Steps, Goto(r, step)
  PROVE  /\ req'[r].pc = step
         /\ req'[r].line = req[r].line /\ req'[r].key = req[r].key
         /\ req'[r].payment = req[r].payment /\ req'[r].patch = req[r].patch
         /\ req'[r].seen = req[r].seen
<1>1. req[r] \in Request
  BY DEF TypeOK
<1>2. req'[r] = [req[r] EXCEPT !.pc = step]
  BY DEF Goto, TypeOK
<1>. QED BY <1>1, <1>2 DEF Request

\* The handler that took the step.
LEMMA StepMover ==
  ASSUME IInv, RowsGrow, NEW r \in Requests, Call(r) \/ Continue(r) \/ Crash(r)
  PROVE  HandlerOK(r)'
<1>. USE DEF IInv
<1>0. req[r] \in Request
  BY DEF TypeOK
<1>1. ASSUME req' = [req EXCEPT ![r] = Idle]
      PROVE  HandlerOK(r)'
  BY <1>1, IdleOK DEF TypeOK
<1>2. ASSUME NEW l \in Lines, NEW k \in Keys, Initiate(r, l, k)
      PROVE  HandlerOK(r)'
  BY <1>2 DEF Initiate, HandlerOK, Idle, TypeOK, IdempotencyKeys
<1>3. ASSUME NEW a \in Applications, IssueDeskPaymentLink(r, a)
      PROVE  HandlerOK(r)'
  BY <1>3 DEF IssueDeskPaymentLink, HandlerOK, Idle, TypeOK, IdempotencyKeys, Lines, FeeCodes
<1>4. ASSUME NEW a \in Applications, SubmitDraft(r, a)
      PROVE  HandlerOK(r)'
  <2>1. /\ req'[r].pc = "save_submit" /\ req'[r].line = <<a, "application">>
        /\ req'[r].seen = snapshot[a]
        /\ UNCHANGED payments
    BY <1>4 DEF SubmitDraft, Idle, TypeOK, ledgerVars
  <2>2. Backed(a, snapshot[a])
    BY DEF SnapshotsBacked
  <2>3. ApplicationFeeDue(a) => Collected(<<a, "application">>)
    BY <1>4, <2>2 DEF SubmitDraft, ApplicationFeePaid, Backed, Collected, FeeCodes
  <2>4. <<a, "application">> \in Lines
    BY DEF Lines, FeeCodes
  <2>5. Backed(a, snapshot[a]) => Backed(req'[r].line[1], req'[r].seen)
    BY <2>1
  <2>. QED BY <2>1, <2>2, <2>3, <2>4, <2>5 DEF HandlerOK, Backed, Collected, SettledFor
<1>5. ASSUME NEW p \in PaymentIds, CompleteStubPayment(r, p)
      PROVE  HandlerOK(r)'
  BY <1>5 DEF CompleteStubPayment, HandlerOK, Idle, TypeOK, RowsWellFormed, ledgerVars
<1>6. ASSUME FindIdempotencyRecord(r), Goto(r, "find_active")
      PROVE  HandlerOK(r)'
  <2>1. req'[r].pc = "find_active" /\ req'[r].line = req[r].line /\ req'[r].key = req[r].key
    BY <1>6, GotoFields DEF Steps
  <2>2. req[r].pc = "find_key"
    BY <1>6 DEF FindIdempotencyRecord
  <2>. QED BY <2>1, <2>2 DEF HandlerOK
<1>7. ASSUME FindActivePayment(r), Goto(r, "create")
      PROVE  HandlerOK(r)'
  <2>1. req'[r].pc = "create" /\ req'[r].line = req[r].line /\ req'[r].key = req[r].key
    BY <1>7, GotoFields DEF Steps
  <2>2. req[r].pc = "find_active"
    BY <1>7 DEF FindActivePayment
  <2>. QED BY <2>1, <2>2 DEF HandlerOK
<1>8. ASSUME NEW p \in PaymentIds, CreatePendingPayment(r, p)
      PROVE  HandlerOK(r)'
  <2>1. req'[r] = [req[r] EXCEPT !.pc = "read_fee", !.payment = p, !.patch = "pending"]
    BY <1>8 DEF CreatePendingPayment, TypeOK
  <2>2. /\ req'[r].pc = "read_fee" /\ req'[r].payment = p /\ req'[r].patch = "pending"
        /\ req'[r].line = req[r].line
    BY <1>0, <2>1 DEF Request
  <2>3. req[r].line \in Lines
    BY <1>8 DEF CreatePendingPayment, HandlerOK
  <2>4. payments'[p] = [status |-> "requires_action", line |-> req[r].line]
    BY <1>8 DEF CreatePendingPayment, TypeOK
  <2>. QED BY <2>2, <2>3, <2>4 DEF HandlerOK
<1>9. ASSUME ReadForSettlement(r), Goto(r, "settle_commit")
      PROVE  HandlerOK(r)'
  <2>1. /\ req'[r].pc = "settle_commit"
        /\ req'[r].line = req[r].line /\ req'[r].payment = req[r].payment
    BY <1>9, GotoFields DEF Steps
  <2>2. req[r].pc = "settle_read" /\ UNCHANGED payments
    BY <1>9 DEF ReadForSettlement, ledgerVars
  <2>. QED BY <2>1, <2>2 DEF HandlerOK
<1>10. ASSUME SettleStubLedger(r)
       PROVE  HandlerOK(r)'
  <2>1. req'[r] = [req[r] EXCEPT !.pc = "read_fee", !.patch = "paid"]
    BY <1>10 DEF SettleStubLedger, TypeOK
  <2>2. /\ req'[r].pc = "read_fee" /\ req'[r].payment = req[r].payment
        /\ req'[r].line = req[r].line
    BY <1>0, <2>1 DEF Request
  <2>3. /\ req[r].line \in Lines /\ req[r].payment \in PaymentIds
        /\ payments[req[r].payment].line = req[r].line
    BY <1>10 DEF SettleStubLedger, HandlerOK
  <2>4. /\ payments'[req[r].payment].status = "settled"
        /\ payments'[req[r].payment].line = req[r].line
    BY <1>10, <2>3 DEF SettleStubLedger, TypeOK, PaymentRow
  <2>. QED BY <2>2, <2>3, <2>4 DEF HandlerOK
<1>11. ASSUME ReadFeeSettlement(r)
       PROVE  HandlerOK(r)'
  <2>1. req[r].line \in Lines /\ req[r].line[1] \in Applications
    BY <1>11 DEF ReadFeeSettlement, HandlerOK, Lines
  <2>2. /\ req'[r] = [req[r] EXCEPT !.pc = "save_fee", !.seen = snapshot[req[r].line[1]]]
        /\ UNCHANGED payments
    BY <1>11 DEF ReadFeeSettlement, TypeOK, ledgerVars
  <2>3. /\ req'[r].pc = "save_fee" /\ req'[r].seen = snapshot[req[r].line[1]]
        /\ req'[r].line = req[r].line /\ req'[r].payment = req[r].payment
        /\ req'[r].patch = req[r].patch
    BY <1>0, <2>2 DEF Request
  <2>4. Backed(req[r].line[1], snapshot[req[r].line[1]])
    BY <2>1 DEF SnapshotsBacked
  <2>5. Backed(req'[r].line[1], req'[r].seen)
    BY <2>3, <2>4
  <2>6. Backed(req[r].line[1], req[r].seen)'
    BY <2>2, <2>5 DEF Backed, Collected, SettledFor
  <2>. QED BY <1>11, <2>1, <2>2, <2>3, <2>6 DEF ReadFeeSettlement, HandlerOK
<1>12. CASE Call(r)
  BY <1>2, <1>3, <1>4, <1>5, <1>12 DEF Call
<1>13. CASE Continue(r)
  BY <1>1, <1>6, <1>7, <1>8, <1>9, <1>10, <1>11, <1>13
     DEF Continue, FindIdempotencyRecord, FindActivePayment, RejectDuplicatePayment,
         ReadForSettlement, RejectDoubleSettlement, SaveFeeSettlement, SaveSubmission,
         Finish
<1>14. CASE Crash(r)
  BY <1>1, <1>14 DEF Crash, Finish
<1>. QED BY <1>12, <1>13, <1>14

\* A step moves one handler only.
LEMMA OthersStay ==
  ASSUME TypeOK, NEW r \in Requests, Call(r) \/ Continue(r) \/ Crash(r),
         NEW q \in Requests, q # r
  PROVE  req'[q] = req[q]
  BY DEF TypeOK, Call, Continue, Initiate, IssueDeskPaymentLink, SubmitDraft,
         CompleteStubPayment, FindIdempotencyRecord, FindActivePayment, CreatePendingPayment,
         RejectDuplicatePayment, RejectDoubleSettlement, ReadForSettlement, SettleStubLedger,
         ReadFeeSettlement, SaveFeeSettlement, SaveSubmission, Crash, Goto, Finish

LEMMA StepHandlers ==
  ASSUME IInv, [Next]_vars
  PROVE  (\A r \in Requests : HandlerOK(r))'
<1>1. RowsGrow
  BY StepRows DEF IInv
<1>2. CASE UNCHANGED vars
  BY <1>1, <1>2, HandlerStable DEF IInv, vars
<1>3. ASSUME NEW r \in Requests, Call(r) \/ Continue(r) \/ Crash(r), NEW q \in Requests
      PROVE  HandlerOK(q)'
  <2>1. CASE q = r
    BY <1>1, <1>3, <2>1, StepMover
  <2>2. CASE q # r
    BY <1>1, <1>3, <2>2, OthersStay, HandlerStable DEF IInv
  <2>. QED BY <2>1, <2>2
<1>. QED BY <1>2, <1>3 DEF Next

-----------------------------------------------------------------------------
(* The theorems *)

LEMMA InitInv == Init => IInv
<1>. SUFFICES ASSUME Init PROVE IInv
  OBVIOUS
<1>1. RowsWellFormed /\ OneActiveAttempt /\ BooksBalance
  BY DEF Init, RowsWellFormed, OneActiveAttempt, BooksBalance
<1>2. SnapshotsBacked
  BY DEF Init, SnapshotsBacked, Backed, InitialFeeSettlement
<1>3. \A r \in Requests : HandlerOK(r)
  BY DEF Init, HandlerOK, Idle
<1>. QED BY <1>1, <1>2, <1>3, InitType DEF IInv

LEMMA StepInv == IInv /\ [Next]_vars => IInv'
  BY StepType, StepLedger, StepSnapshots, StepHandlers DEF IInv

THEOREM Invariance == Spec => []IInv
  BY InitInv, StepInv, PTL DEF Spec

\* Every reachable state is well typed.
THEOREM TypeCorrect == Spec => []TypeOK
<1>1. IInv => TypeOK
  BY DEF IInv
<1>. QED BY <1>1, Invariance, PTL

\* No interleaving of citizens and desk leaves two attempts open on one fee line.
THEOREM OneActiveAttemptHolds == Spec => []OneActiveAttempt
<1>1. IInv => OneActiveAttempt
  BY DEF IInv
<1>. QED BY <1>1, Invariance, PTL

\* Racing completions never post a payment twice, nor settle one without its rows.
THEOREM BooksBalanceHolds == Spec => []BooksBalance
<1>1. IInv => BooksBalance
  BY DEF IInv
<1>. QED BY <1>1, Invariance, PTL

\* A line shown as paid names a payment that was settled for it, even though the
\* snapshot is written back whole from stale reads.
THEOREM PaidLineIsSettledHolds == Spec => []PaidLineIsSettled
<1>1. IInv => PaidLineIsSettled
  BY DEF IInv, SnapshotsBacked, Backed, PaidLineIsSettled, SettledFor
<1>. QED BY <1>1, Invariance, PTL

\* The submit gate: no upfront application leaves draft before its fee is collected.
THEOREM SubmittedImpliesCollectedHolds == Spec => []SubmittedImpliesCollected
<1>1. IInv => SubmittedImpliesCollected
  BY DEF IInv, SnapshotsBacked, Backed, SubmittedImpliesCollected, Collected, SettledFor
<1>. QED BY <1>1, Invariance, PTL

\* An idempotency key is bound to one payment for ever.
THEOREM KeyBindsOnceHolds == Spec => KeyBindsOnce
<1>1. ASSUME IInv, [Next]_vars, NEW k \in IdempotencyKeys, idempotency[k] # None
      PROVE  idempotency'[k] = idempotency[k]
  BY <1>1, LedgerFrame
     DEF ledgerVars, SettleStubLedger, CreatePendingPayment, KeyUnused, IInv, TypeOK
<1>2. ASSUME IInv, [Next]_vars
      PROVE  [\A k \in IdempotencyKeys :
                idempotency[k] # None => idempotency'[k] = idempotency[k]]_vars
  BY <1>1, <1>2
<1>. QED BY <1>2, Invariance, PTL DEF Spec, KeyBindsOnce

-----------------------------------------------------------------------------
(* Refinement of the fee account *)

\* The slot of a line holds its only attempt awaiting completion.
LEMMA SlotIsActive ==
  ASSUME OneActiveAttempt, NEW l \in Lines, NEW p \in ActivePayments(l)
  PROVE  ActivePayments(l) = {p} /\ Slot(l) = p
  BY DEF OneActiveAttempt, ActivePayments, Slot

LEMMA InitRefines == Init => Account!Init
<1>. SUFFICES ASSUME Init PROVE Account!Init
  OBVIOUS
<1>1. \A l \in Lines : ActivePayments(l) = {} /\ Slot(l) = None /\ Posted(l) = {}
  BY DEF Init, ActivePayments, Slot, Posted
<1>. QED BY <1>1 DEF Init, Account!Init

\* Handlers that write no ledger table leave the account alone.
LEMMA LedgerStutter ==
  ASSUME UNCHANGED ledgerVars
  PROVE  UNCHANGED Account!accountVars
<1>1. \A l \in Lines : ActivePayments(l)' = ActivePayments(l)
  BY DEF ledgerVars, ActivePayments
<1>2. \A l \in Lines : Slot(l)' = Slot(l) /\ Posted(l)' = Posted(l)
  BY <1>1 DEF ledgerVars, Slot, Posted, ActivePayments
<1>. QED BY <1>2 DEF ledgerVars, Account!accountVars

LEMMA CreateRefines ==
  ASSUME IInv, NEW r \in Requests, NEW p \in PaymentIds, CreatePendingPayment(r, p),
         NEW l \in Lines, l = req[r].line
  PROVE  Account!Open(l, p)
<1>1. /\ p \in PaymentIds /\ payments[p].status = "absent" /\ ActivePayments(l) = {}
      /\ payments' = [payments EXCEPT ![p] = [status |-> "requires_action", line |-> l]]
      /\ UNCHANGED <<receipts, glPostings>>
  BY DEF CreatePendingPayment, NoActiveAttempt
<1>2. \A q \in PaymentIds :
        payments'[q] = IF q = p THEN [status |-> "requires_action", line |-> l] ELSE payments[q]
  BY <1>1 DEF IInv, TypeOK
<1>3. Slot(l) = None
  BY <1>1 DEF Slot
<1>4. Slot(l)' = p
  <2>1. ActivePayments(l)' = {p}
    BY <1>1, <1>2 DEF ActivePayments
  <2>. QED BY <2>1 DEF Slot
<1>5. \A m \in Lines \ {l} : Slot(m)' = Slot(m)
  <2>. TAKE m \in Lines \ {l}
  <2>1. ActivePayments(m)' = ActivePayments(m)
    BY <1>1, <1>2 DEF ActivePayments
  <2>2. CASE ActivePayments(m) = {}
    BY <2>1, <2>2 DEF Slot
  <2>3. CASE ActivePayments(m) # {}
    <3>1. PICK q \in ActivePayments(m) : TRUE
      BY <2>3
    <3>2. ActivePayments(m) = {q} /\ Slot(m) = q
      BY SlotIsActive DEF IInv
    <3>3. Slot(m)' = q
      BY <2>1, <3>2 DEF Slot
    <3>. QED BY <3>2, <3>3
  <2>. QED BY <2>2, <2>3
<1>6. \A m \in Lines : Posted(m)' = Posted(m)
  <2>1. ~(receipts[p] > 0)
    BY <1>1 DEF IInv, BooksBalance
  <2>. QED BY <1>1, <1>2, <2>1 DEF Posted
<1>7. {q \in PaymentIds : payments[q].status # "absent"}'
        = {q \in PaymentIds : payments[q].status # "absent"} \cup {p}
  BY <1>1, <1>2
<1>8. [m \in Lines |-> Slot(m)]' = [[m \in Lines |-> Slot(m)] EXCEPT ![l] = p]
  BY <1>4, <1>5
<1>9. UNCHANGED [m \in Lines |-> Posted(m)]
  BY <1>6
<1>. QED BY <1>1, <1>3, <1>7, <1>8, <1>9 DEF Account!Open

LEMMA SettleRefines ==
  ASSUME IInv, NEW r \in Requests, SettleStubLedger(r),
         NEW l \in Lines, l = req[r].line, NEW p \in PaymentIds, p = req[r].payment
  PROVE  Account!Capture(l)
<1>1. /\ payments[p].status # "absent" /\ payments[p].line = l /\ NotYetPosted(p)
      /\ payments' = [payments EXCEPT ![p].status = "settled"]
      /\ receipts' = [receipts EXCEPT ![p] = @ + 1]
      /\ glPostings' = [glPostings EXCEPT ![p] = @ + 1]
  BY DEF SettleStubLedger, IInv, HandlerOK
<1>2. payments[p] = [status |-> "requires_action", line |-> l]
  BY <1>1 DEF NotYetPosted, IInv, BooksBalance, TypeOK, PaymentRow
<1>3. \A q \in PaymentIds :
        payments'[q] = IF q = p THEN [status |-> "settled", line |-> l] ELSE payments[q]
  BY <1>1, <1>2 DEF IInv, TypeOK
<1>4. ActivePayments(l) = {p} /\ Slot(l) = p
  <2>1. p \in ActivePayments(l)
    BY <1>2 DEF ActivePayments
  <2>. QED BY <2>1, SlotIsActive DEF IInv
<1>5. Slot(l)' = None
  <2>1. ActivePayments(l)' = {}
    <3>1. \A q \in PaymentIds : q # p => payments[q] # [status |-> "requires_action", line |-> l]
      BY <1>4 DEF ActivePayments
    <3>. QED BY <1>3, <3>1 DEF ActivePayments
  <2>. QED BY <2>1 DEF Slot
<1>6. \A m \in Lines \ {l} : Slot(m)' = Slot(m)
  <2>. TAKE m \in Lines \ {l}
  <2>1. ActivePayments(m)' = ActivePayments(m)
    BY <1>2, <1>3 DEF ActivePayments
  <2>2. CASE ActivePayments(m) = {}
    BY <2>1, <2>2 DEF Slot
  <2>3. CASE ActivePayments(m) # {}
    <3>1. PICK q \in ActivePayments(m) : TRUE
      BY <2>3
    <3>2. ActivePayments(m) = {q} /\ Slot(m) = q
      BY SlotIsActive DEF IInv
    <3>3. Slot(m)' = q
      BY <2>1, <3>2 DEF Slot
    <3>. QED BY <3>2, <3>3
  <2>. QED BY <2>2, <2>3
<1>7. \A m \in Lines : Posted(m)' = IF m = l THEN Posted(m) \cup {p} ELSE Posted(m)
  <2>1. \A q \in PaymentIds : (receipts'[q] > 0 /\ glPostings'[q] > 0) <=>
                               (q = p \/ (receipts[q] > 0 /\ glPostings[q] > 0))
    BY <1>1 DEF IInv, TypeOK
  <2>2. \A q \in PaymentIds : payments'[q].line = payments[q].line
    BY <1>1, <1>3
  <2>. QED BY <1>1, <2>1, <2>2 DEF Posted
<1>8. UNCHANGED {q \in PaymentIds : payments[q].status # "absent"}
  BY <1>1, <1>3
<1>9. [m \in Lines |-> Slot(m)]' = [[m \in Lines |-> Slot(m)] EXCEPT ![l] = None]
  BY <1>5, <1>6
<1>10. [m \in Lines |-> Posted(m)]'
         = [[m \in Lines |-> Posted(m)] EXCEPT ![l] = @ \cup {[m \in Lines |-> Slot(m)][l]}]
  BY <1>4, <1>7
<1>11. p # None
  BY NoneAssumption
<1>. QED BY <1>4, <1>8, <1>9, <1>10, <1>11 DEF Account!Capture

\* The handlers implement the fee account, whatever the constants: this is the
\* at-most-once collection promise of the ledger tables.
THEOREM Refinement == Spec => ImplementsFeeAccount
<1>1. ASSUME IInv, IInv', [Next]_vars
      PROVE  [Account!Next]_(Account!accountVars)
  <2>1. CASE UNCHANGED ledgerVars
    BY <2>1, LedgerStutter
  <2>2. ASSUME NEW r \in Requests, SettleStubLedger(r)
        PROVE  Account!Next
    <3>1. req[r].line \in Lines /\ req[r].payment \in PaymentIds
      BY <1>1, <2>2 DEF IInv, HandlerOK, SettleStubLedger
    <3>. QED BY <1>1, <2>2, <3>1, SettleRefines DEF Account!Next
  <2>3. ASSUME NEW r \in Requests, NEW p \in PaymentIds, CreatePendingPayment(r, p)
        PROVE  Account!Next
    <3>1. req[r].line \in Lines
      BY <1>1, <2>3 DEF IInv, HandlerOK, CreatePendingPayment
    <3>. QED BY <1>1, <2>3, <3>1, CreateRefines DEF Account!Next
  <2>. QED BY <1>1, <2>1, <2>2, <2>3, LedgerFrame
<1>. QED
  BY <1>1, InitRefines, Invariance, PTL DEF Spec, ImplementsFeeAccount, Account!Spec


-----------------------------------------------------------------------------
(* When a fee line is charged once                                           *)

\* A handler in flight works on an application.
About(r, a) == req[r].pc # "idle" /\ req[r].line[1] = a

\* No two handlers work on one application at a time, and none has died.
HandlersApart ==
  /\ crashes = 0
  /\ \A a \in Applications, r, q \in Requests : (About(r, a) /\ About(q, a)) => r = q

\* A line is paid by one payment only, or awaits one.
OnePaymentPerLine ==
  \A p, q \in PaymentIds :
    (payments[p].status # "absent" /\ payments[q].status # "absent"
      /\ payments[p].line = payments[q].line) => p = q

\* Handler r has collected payment p and is about to write its line as paid.
WritesBack(r, p) ==
  req[r].pc \in {"read_fee", "save_fee"} /\ req[r].patch = "paid" /\ req[r].payment = p

Shown(l) == snapshot[l[1]].fees[l[2]].status = "paid"

\* The snapshot shows a collected payment, or its handler is still to write it.
CollectedIsShown ==
  \A p \in PaymentIds : payments[p].status = "settled" =>
    Shown(payments[p].line) \/ \E r \in Requests : WritesBack(r, p)

\* A handler alone on its application holds the snapshot that is stored, opens a
\* payment only of a line that is not paid, and its payment still awaits completion
\* when it writes the line as pending.
Fresh(r) ==
  /\ req[r].pc \in {"find_key", "find_active", "create", "save_fee", "save_submit"} =>
       req[r].seen = snapshot[req[r].line[1]]
  /\ req[r].pc = "find_key" => req[r].key \in Keys
  /\ req[r].pc = "find_active" => (req[r].key \in Keys \/ ~Shown(req[r].line))
  /\ req[r].pc = "create" => ~Shown(req[r].line)
  /\ (req[r].pc \in {"read_fee", "save_fee"} /\ req[r].patch = "pending") =>
       payments[req[r].payment].status = "requires_action"

ApartInv ==
  /\ OnePaymentPerLine
  /\ CollectedIsShown
  /\ \A r \in Requests : Fresh(r)

\* A handler changes nothing of an application it does not work on.
LEMMA ElsewhereStays ==
  ASSUME IInv, NEW r \in Requests, Continue(r), NEW a \in Applications, ~About(r, a)
  PROVE  /\ snapshot'[a] = snapshot[a]
         /\ \A p \in PaymentIds :
              (payments[p].status # "absent" /\ payments[p].line[1] = a) =>
                payments'[p] = payments[p]
<1>. USE DEF IInv, TypeOK
<1>1. ASSUME NEW p \in PaymentIds, CreatePendingPayment(r, p)
      PROVE  /\ snapshot' = snapshot
             /\ \A q \in PaymentIds : payments[q].status # "absent" => payments'[q] = payments[q]
  BY <1>1 DEF CreatePendingPayment
<1>2. ASSUME SettleStubLedger(r)
      PROVE  /\ snapshot' = snapshot
             /\ \A q \in PaymentIds : payments[q].line[1] = a => payments'[q] = payments[q]
  <2>1. payments[req[r].payment].line[1] # a
    BY <1>2 DEF SettleStubLedger, HandlerOK, About
  <2>. QED BY <1>2, <2>1 DEF SettleStubLedger
<1>3. CASE SaveFeeSettlement(r) \/ SaveSubmission(r)
  BY <1>3 DEF SaveFeeSettlement, SaveSubmission, About, ledgerVars
<1>. QED BY <1>1, <1>2, <1>3
        DEF Continue, FindIdempotencyRecord, FindActivePayment, RejectDuplicatePayment,
            ReadForSettlement, RejectDoubleSettlement, ReadFeeSettlement, ledgerVars

\* What the other handlers hold stays true, since none of them is about that application.
LEMMA OthersFresh ==
  ASSUME IInv, HandlersApart, NEW r \in Requests, Call(r) \/ Continue(r),
         NEW q \in Requests, q # r, Fresh(q)
  PROVE  Fresh(q)'
<1>1. req'[q] = req[q] /\ req[q] \in Request
  BY OthersStay DEF IInv, TypeOK
<1>2. CASE req[q].pc = "idle"
  BY <1>1, <1>2 DEF Fresh
<1>3. CASE req[q].pc # "idle" /\ Call(r)
  <2>1. UNCHANGED <<payments, snapshot>>
    BY <1>3 DEF Call, Initiate, IssueDeskPaymentLink, SubmitDraft, CompleteStubPayment, ledgerVars
  <2>. QED BY <1>1, <2>1 DEF Fresh, Shown
<1>4. CASE req[q].pc # "idle" /\ Continue(r)
  <2>. DEFINE a == req[q].line[1]
  <2>1. a \in Applications /\ HandlerOK(q)
    BY <1>4 DEF IInv, HandlerOK, Lines
  <2>2. ~About(r, a)
    BY <1>4, <2>1 DEF HandlersApart, About
  <2>3. /\ snapshot'[a] = snapshot[a]
        /\ \A p \in PaymentIds :
             (payments[p].status # "absent" /\ payments[p].line[1] = a) =>
               payments'[p] = payments[p]
    BY <1>4, <2>1, <2>2, ElsewhereStays
  <2>4. req[q].pc \in {"read_fee", "save_fee"} => payments'[req[q].payment] = payments[req[q].payment]
    BY <2>1, <2>3 DEF HandlerOK
  <2>. QED BY <1>1, <2>3, <2>4 DEF Fresh, Shown
<1>. QED BY <1>2, <1>3, <1>4

\* The handler that moved, one case for each await.
LEMMA MoverFresh ==
  ASSUME IInv, ApartInv, NEW r \in Requests, Call(r) \/ Continue(r)
  PROVE  Fresh(r)'
<1>. USE DEF IInv, TypeOK
<1>0. req[r] \in Request /\ Fresh(r) /\ HandlerOK(r)
  BY DEF ApartInv
<1>1. ASSUME req' = [req EXCEPT ![r] = Idle] PROVE Fresh(r)'
  BY <1>1 DEF Fresh, Idle
<1>2. ASSUME NEW l \in Lines, NEW k \in Keys, Initiate(r, l, k) PROVE Fresh(r)'
  BY <1>2 DEF Initiate, Fresh, Idle
<1>3. ASSUME NEW a \in Applications, IssueDeskPaymentLink(r, a) PROVE Fresh(r)'
  BY <1>3 DEF IssueDeskPaymentLink, Fresh, Idle, Shown
<1>4. ASSUME NEW a \in Applications, SubmitDraft(r, a) PROVE Fresh(r)'
  BY <1>4 DEF SubmitDraft, Fresh, Idle
<1>5. ASSUME NEW p \in PaymentIds, CompleteStubPayment(r, p) PROVE Fresh(r)'
  BY <1>5 DEF CompleteStubPayment, Fresh, Idle
<1>6. ASSUME FindIdempotencyRecord(r), Goto(r, "find_active") PROVE Fresh(r)'
  <2>1. /\ req'[r].pc = "find_active" /\ req'[r].line = req[r].line
        /\ req'[r].key = req[r].key /\ req'[r].seen = req[r].seen
    BY <1>6, GotoFields DEF Steps
  <2>. QED BY <1>0, <1>6, <2>1 DEF FindIdempotencyRecord, Fresh
<1>7. ASSUME FindActivePayment(r), Goto(r, "create"),
             req[r].key \in Keys => CitizenMayInitiate(req[r].line, req[r].seen)
      PROVE  Fresh(r)'
  <2>1. /\ req'[r].pc = "create" /\ req'[r].line = req[r].line /\ req'[r].seen = req[r].seen
    BY <1>7, GotoFields DEF Steps
  <2>2. req[r].pc = "find_active" /\ snapshot' = snapshot
    BY <1>7 DEF FindActivePayment
  <2>3. ~Shown(req[r].line)
    BY <1>0, <1>7, <2>2 DEF Fresh, Shown, CitizenMayInitiate
  <2>. QED BY <1>0, <2>1, <2>2, <2>3 DEF Fresh, Shown
<1>8. ASSUME NEW p \in PaymentIds, CreatePendingPayment(r, p) PROVE Fresh(r)'
  <2>1. req'[r] = [req[r] EXCEPT !.pc = "read_fee", !.payment = p, !.patch = "pending"]
    BY <1>8 DEF CreatePendingPayment
  <2>2. req'[r].pc = "read_fee" /\ req'[r].payment = p
    BY <1>0, <2>1 DEF Request
  <2>3. payments'[p].status = "requires_action"
    BY <1>8 DEF CreatePendingPayment
  <2>. QED BY <2>2, <2>3 DEF Fresh
<1>9. ASSUME ReadForSettlement(r), Goto(r, "settle_commit") PROVE Fresh(r)'
  BY <1>9, GotoFields DEF Fresh, Steps
<1>10. ASSUME SettleStubLedger(r) PROVE Fresh(r)'
  <2>1. req'[r] = [req[r] EXCEPT !.pc = "read_fee", !.patch = "paid"]
    BY <1>10 DEF SettleStubLedger
  <2>2. req'[r].pc = "read_fee" /\ req'[r].patch = "paid"
    BY <1>0, <2>1 DEF Request
  <2>. QED BY <2>2 DEF Fresh
<1>11. ASSUME ReadFeeSettlement(r) PROVE Fresh(r)'
  <2>1. /\ req'[r] = [req[r] EXCEPT !.pc = "save_fee", !.seen = snapshot[req[r].line[1]]]
        /\ UNCHANGED <<payments, snapshot>> /\ req[r].pc = "read_fee"
    BY <1>11 DEF ReadFeeSettlement, ledgerVars
  <2>2. /\ req'[r].pc = "save_fee" /\ req'[r].seen = snapshot[req[r].line[1]]
        /\ req'[r].line = req[r].line /\ req'[r].payment = req[r].payment
        /\ req'[r].patch = req[r].patch
    BY <1>0, <2>1 DEF Request
  <2>. QED BY <1>0, <2>1, <2>2 DEF Fresh
<1>12. CASE Call(r)
  BY <1>2, <1>3, <1>4, <1>5, <1>12 DEF Call
<1>13. CASE Continue(r)
  BY <1>1, <1>6, <1>7, <1>8, <1>9, <1>10, <1>11, <1>13
     DEF Continue, FindIdempotencyRecord, FindActivePayment, RejectDuplicatePayment,
         ReadForSettlement, RejectDoubleSettlement, SaveFeeSettlement, SaveSubmission, Finish
<1>. QED BY <1>12, <1>13

\* An attempt is opened on a line that neither awaits a payment nor was paid: the
\* snapshot of a handler alone on its application says so truly.
LEMMA StepOnePayment ==
  ASSUME IInv, ApartInv, HandlersApart, [Next]_vars
  PROVE  OnePaymentPerLine'
<1>. USE DEF IInv, TypeOK, PaymentRow
<1>1. CASE UNCHANGED ledgerVars
  BY <1>1 DEF ledgerVars, ApartInv, OnePaymentPerLine
<1>2. ASSUME NEW r \in Requests, NEW p \in PaymentIds, CreatePendingPayment(r, p)
      PROVE  OnePaymentPerLine'
  <2>1. /\ req[r].line \in Lines /\ req[r].line[1] \in Applications
        /\ req[r].pc = "create" /\ ~Shown(req[r].line)
    BY <1>2 DEF CreatePendingPayment, HandlerOK, Lines, ApartInv, Fresh
  <2>2. ASSUME NEW q \in PaymentIds, payments[q].status # "absent",
               payments[q].line = req[r].line
        PROVE  FALSE
    <3>1. payments[q].status # "requires_action"
      BY <1>2, <2>2 DEF CreatePendingPayment, NoActiveAttempt, ActivePayments
    <3>2. payments[q].status = "settled"
      BY <2>2, <3>1
    <3>3. PICK s \in Requests : WritesBack(s, q)
      BY <2>1, <2>2, <3>2 DEF ApartInv, CollectedIsShown
    <3>4. About(s, req[r].line[1]) /\ About(r, req[r].line[1])
      BY <2>1, <2>2, <3>3 DEF WritesBack, HandlerOK, About
    <3>5. s = r
      BY <2>1, <3>4 DEF HandlersApart
    <3>. QED BY <2>1, <3>3, <3>5 DEF WritesBack
  <2>3. /\ payments'[p].line = req[r].line
        /\ \A q \in PaymentIds : q # p => payments'[q] = payments[q]
    BY <1>2 DEF CreatePendingPayment
  <2>. QED BY <2>2, <2>3 DEF ApartInv, OnePaymentPerLine
<1>3. ASSUME NEW r \in Requests, SettleStubLedger(r)
      PROVE  OnePaymentPerLine'
  <2>1. payments[req[r].payment].status # "absent"
    BY <1>3 DEF SettleStubLedger, HandlerOK
  <2>2. \A p \in PaymentIds : /\ payments'[p].line = payments[p].line
                              /\ payments'[p].status # "absent" => payments[p].status # "absent"
    BY <1>3, <2>1 DEF SettleStubLedger
  <2>. QED BY <2>2 DEF ApartInv, OnePaymentPerLine
<1>. QED BY <1>1, <1>2, <1>3, LedgerFrame

\* What a handler writes to a snapshot differs from what it read in its own line only.
LEMMA PatchedFees ==
  ASSUME IInv, NEW r \in Requests, NEW c \in FeeCodes, req[r].payment \in PaymentIds
  PROVE  LET s == PatchFeeLine(req[r].seen, c, req[r].patch, req[r].payment)
         IN  /\ s.fees[c].status = req[r].patch
             /\ \A d \in FeeCodes \ {c} : s.fees[d] = req[r].seen.fees[d]
<1>1. req[r].seen \in Snapshot /\ req[r].patch \in {"pending", "paid"}
  BY DEF IInv, TypeOK, Request
<1>2. ASSUME NEW x \in Snapshot, NEW status \in {"pending", "paid"}
      PROVE  LET s == PatchFeeLine(x, c, status, req[r].payment)
             IN  /\ s.fees[c].status = status
                 /\ \A d \in FeeCodes \ {c} : s.fees[d] = x.fees[d]
  BY DEF PatchFeeLine, Snapshot, FeeLine
<1>. QED BY <1>1, <1>2

\* A collected payment stays shown, or stays with the handler that will show it.
LEMMA StepCollectedIsShown ==
  ASSUME IInv, ApartInv, HandlersApart, NEW r \in Requests, Call(r) \/ Continue(r)
  PROVE  CollectedIsShown'
<1>. USE DEF IInv, TypeOK, PaymentRow
<1>0. req[r] \in Request /\ HandlerOK(r) /\ Fresh(r)
  BY DEF ApartInv
<1>. DEFINE Kept(p) == (Shown(payments[p].line) \/ \E s \in Requests : WritesBack(s, p))'
<1>1. ASSUME NEW p \in PaymentIds, NEW s \in Requests, WritesBack(s, p), s # r PROVE Kept(p)
  <2>1. req'[s] = req[s]
    BY <1>1, OthersStay
  <2>. QED BY <1>1, <2>1 DEF WritesBack
<1>2. ASSUME ~SettleStubLedger(r), ~ReadFeeSettlement(r), ~SaveFeeSettlement(r),
             ~SaveSubmission(r), NEW p \in PaymentIds, payments'[p].status = "settled"
      PROVE  Kept(p)
  <2>1. /\ snapshot' = snapshot
        /\ payments[p].status = "settled" /\ payments'[p] = payments[p]
        /\ req[r].pc \notin {"read_fee", "save_fee"}
    <3>1. ASSUME NEW x \in PaymentIds, CreatePendingPayment(r, x)
          PROVE  /\ snapshot' = snapshot
                 /\ payments[p].status = "settled" /\ payments'[p] = payments[p]
                 /\ req[r].pc \notin {"read_fee", "save_fee"}
      BY <1>2, <3>1 DEF CreatePendingPayment
    <3>2. CASE \A x \in PaymentIds : ~CreatePendingPayment(r, x)
      <4>1. /\ snapshot' = snapshot /\ payments' = payments
            /\ req[r].pc \notin {"read_fee", "save_fee"}
        BY <1>2, <3>2
           DEF Call, Continue, Initiate, IssueDeskPaymentLink, SubmitDraft, CompleteStubPayment,
               FindIdempotencyRecord, FindActivePayment, RejectDuplicatePayment,
               ReadForSettlement, RejectDoubleSettlement, ledgerVars
      <4>. QED BY <1>2, <4>1
    <3>. QED BY <3>1, <3>2
  <2>2. ~WritesBack(r, p)
    BY <2>1 DEF WritesBack
  <2>. QED BY <1>1, <2>1, <2>2 DEF ApartInv, CollectedIsShown, Shown
<1>3. ASSUME SettleStubLedger(r), NEW p \in PaymentIds, payments'[p].status = "settled"
      PROVE  Kept(p)
  <2>1. /\ req[r].pc = "settle_commit" /\ snapshot' = snapshot
        /\ req'[r] = [req[r] EXCEPT !.pc = "read_fee", !.patch = "paid"]
        /\ payments' = [payments EXCEPT ![req[r].payment].status = "settled"]
    BY <1>3 DEF SettleStubLedger
  <2>2. /\ req'[r].pc = "read_fee" /\ req'[r].patch = "paid"
        /\ req'[r].payment = req[r].payment
    BY <1>0, <2>1 DEF Request
  <2>3. CASE p = req[r].payment
    <3>1. WritesBack(r, p)'
      BY <2>2, <2>3 DEF WritesBack
    <3>. QED BY <3>1
  <2>4. CASE p # req[r].payment
    <3>1. payments'[p] = payments[p] /\ ~WritesBack(r, p)
      BY <2>1, <2>4 DEF WritesBack
    <3>. QED BY <1>1, <1>3, <2>1, <3>1 DEF ApartInv, CollectedIsShown, Shown
  <2>. QED BY <2>3, <2>4
<1>4. ASSUME ReadFeeSettlement(r), NEW p \in PaymentIds, payments'[p].status = "settled"
      PROVE  Kept(p)
  <2>1. /\ snapshot' = snapshot /\ payments' = payments
        /\ req'[r] = [req[r] EXCEPT !.pc = "save_fee", !.seen = snapshot[req[r].line[1]]]
    BY <1>4 DEF ReadFeeSettlement, ledgerVars
  <2>2. WritesBack(r, p) => WritesBack(r, p)'
    BY <1>0, <2>1 DEF Request, WritesBack
  <2>3. WritesBack(r, p) => Kept(p)
    BY <2>2
  <2>. QED BY <1>1, <1>4, <2>1, <2>3 DEF ApartInv, CollectedIsShown, Shown
<1>5. ASSUME SaveFeeSettlement(r), NEW p \in PaymentIds, payments'[p].status = "settled"
      PROVE  Kept(p)
  <2>. DEFINE a == req[r].line[1]
              c == req[r].line[2]
              s == PatchFeeLine(req[r].seen, c, req[r].patch, req[r].payment)
  <2>1. /\ a \in Applications /\ c \in FeeCodes /\ req[r].line = <<a, c>>
        /\ req[r].payment \in PaymentIds
        /\ payments[req[r].payment].line = req[r].line
        /\ req[r].pc = "save_fee" /\ payments' = payments
        /\ snapshot' = [snapshot EXCEPT ![a] = s]
    BY <1>0, <1>5 DEF SaveFeeSettlement, HandlerOK, Lines, ledgerVars
  <2>2. req[r].seen = snapshot[a]
    BY <1>0, <2>1 DEF Fresh
  <2>3. /\ s.fees[c].status = req[r].patch
        /\ \A d \in FeeCodes \ {c} : s.fees[d] = snapshot[a].fees[d]
    BY <2>1, <2>2, PatchedFees
  <2>4. payments[p].line \in Lines
    BY <1>5, <2>1 DEF RowsWellFormed
  <2>5. CASE payments[p].line = req[r].line
    <3>1. payments[p].status = "settled" /\ payments[req[r].payment].status # "absent"
      BY <1>0, <1>5, <2>1 DEF HandlerOK
    <3>2. p = req[r].payment
      BY <2>1, <2>5, <3>1 DEF ApartInv, OnePaymentPerLine
    <3>3. req[r].patch = "paid"
      BY <1>0, <2>1, <3>1, <3>2 DEF Fresh, Request
    <3>4. snapshot'[a].fees[c].status = "paid"
      BY <2>1, <2>3, <3>3
    <3>. QED BY <2>1, <2>5, <3>4 DEF Shown
  <2>6. CASE payments[p].line # req[r].line
    <3>1. Shown(payments[p].line) => Shown(payments[p].line)'
      <4>1. PICK b \in Applications, d \in FeeCodes : payments[p].line = <<b, d>>
        BY <2>4 DEF Lines
      <4>2. snapshot'[b].fees[d] = snapshot[b].fees[d]
        BY <2>1, <2>3, <2>6, <4>1
      <4>. QED BY <2>1, <4>1, <4>2 DEF Shown
    <3>2. ~WritesBack(r, p)
      BY <2>1, <2>6 DEF WritesBack
    <3>3. payments[p].status = "settled"
      BY <1>5, <2>1
    <3>. QED BY <1>1, <3>1, <3>2, <3>3 DEF ApartInv, CollectedIsShown
  <2>. QED BY <2>5, <2>6
<1>6. ASSUME SaveSubmission(r), NEW p \in PaymentIds, payments'[p].status = "settled"
      PROVE  Kept(p)
  <2>1. /\ req[r].line[1] \in Applications /\ payments' = payments
        /\ req[r].seen = snapshot[req[r].line[1]] /\ req[r].pc = "save_submit"
        /\ snapshot' = [snapshot EXCEPT ![req[r].line[1]] = [req[r].seen EXCEPT !.stage = "submitted"]]
    BY <1>0, <1>6 DEF SaveSubmission, HandlerOK, Lines, ledgerVars, Fresh
  <2>2. \A b \in Applications : snapshot'[b].fees = snapshot[b].fees
    BY <2>1 DEF Snapshot
  <2>3. payments[p].line \in Lines /\ payments[p].status = "settled"
    BY <1>6, <2>1 DEF RowsWellFormed
  <2>4. Shown(payments[p].line) => Shown(payments[p].line)'
    BY <2>1, <2>2, <2>3 DEF Shown, Lines
  <2>5. ~WritesBack(r, p)
    BY <2>1 DEF WritesBack
  <2>. QED BY <1>1, <2>3, <2>4, <2>5 DEF ApartInv, CollectedIsShown
<1>7. \A p \in PaymentIds : payments'[p].status = "settled" => Kept(p)
  BY <1>2, <1>3, <1>4, <1>5, <1>6
<1>. QED BY <1>7 DEF CollectedIsShown

LEMMA InitApart == Init => ApartInv
  BY DEF Init, ApartInv, OnePaymentPerLine, CollectedIsShown, Fresh, Idle

LEMMA StepApart ==
  ASSUME IInv, ApartInv, HandlersApart, HandlersApart', [Next]_vars
  PROVE  ApartInv'
<1>1. CASE UNCHANGED vars
  BY <1>1 DEF vars, ApartInv, OnePaymentPerLine, CollectedIsShown, WritesBack, Shown, Fresh
<1>2. ASSUME NEW r \in Requests, Crash(r) PROVE ApartInv'
  BY <1>2 DEF Crash, HandlersApart
<1>3. ASSUME NEW r \in Requests, Call(r) \/ Continue(r) PROVE ApartInv'
  <2>1. \A q \in Requests : Fresh(q)'
    BY <1>3, MoverFresh, OthersFresh DEF ApartInv
  <2>. QED BY <1>3, <2>1, StepOnePayment, StepCollectedIsShown DEF ApartInv
<1>. QED BY <1>1, <1>2, <1>3 DEF Next

\* A set whose members are all equal has at most one.
LEMMA AtMostOne ==
  ASSUME NEW S, \A x, y \in S : x = y
  PROVE  Cardinality(S) <= 1
<1>1. CASE S = {}
  BY <1>1, FS_EmptySet
<1>2. CASE S # {}
  <2>1. PICK x : S = {x}
    BY <1>2
  <2>2. Cardinality({x}) = 1
    BY FS_Singleton
  <2>. QED BY <2>1, <2>2
<1>. QED BY <1>1, <1>2

\* A fee line is charged twice only when two handlers work on one application at a
\* time or one died: initiate and issueDeskPaymentLink otherwise read a snapshot in
\* which what was collected is shown as paid, and turn a second payment away.
THEOREM FeeLineChargedOnceWhenApart == Spec /\ []HandlersApart => []FeeLineChargedOnce
<1>1. ASSUME IInv, ApartInv PROVE FeeLineChargedOnce
  <2>1. SUFFICES ASSUME NEW l \in Lines
                 PROVE  Cardinality({p \in PaymentIds :
                                       payments[p] = [status |-> "settled", line |-> l]}) <= 1
    BY DEF FeeLineChargedOnce
  <2>2. \A p, q \in {x \in PaymentIds : payments[x] = [status |-> "settled", line |-> l]} : p = q
    BY <1>1 DEF ApartInv, OnePaymentPerLine
  <2>. QED BY <2>2, AtMostOne
<1>2. IInv /\ ApartInv /\ HandlersApart /\ HandlersApart' /\ [Next]_vars => ApartInv'
  BY StepApart
<1>. QED BY <1>1, <1>2, InitApart, Invariance, PTL DEF Spec
=============================================================================
