---------------------------- MODULE LeasesProofs ----------------------------
(***************************************************************************)
(* Proofs about Leases for any number of assets, invoices, payments,        *)
(* handlers and overlapping scheduler runs: whatever is shown as paid has   *)
(* been paid, no period of a lease is skipped, and no late fee is charged    *)
(* that the invoice did not show.  That an invoice is paid once holds under *)
(* a condition stated where it is proved.                                   *)
(***************************************************************************)
EXTENDS LeasesHistory, FiniteSetTheorems, TLAPS

Stored(i) == i \in InvoiceIds /\ invoices[i].status # "absent"

\* A stored invoice belongs to an agreement, a stored payment to a stored invoice.
RowsWellFormed ==
  /\ \A i \in InvoiceIds : invoices[i].status # "absent" <=> invoices[i].agreement # None
  /\ \A p \in PaymentIds : payments[p].status # "absent" => Stored(payments[p].invoice)

PaySteps      == {"late_fee", "save_fee", "pay"}
CompleteSteps == {"check_invoice", "settle", "mark_paid"}

\* What a handler holds on to between two steps.
HandlerOK(r) ==
  /\ req[r].pc = "sign" => req[r].asset # None
  /\ req[r].pc \in PaySteps \cup CompleteSteps => Stored(req[r].invoice)
  /\ req[r].pc = "save_fee" => req[r].amount >= Rent
  /\ req[r].pc \in CompleteSteps =>
       /\ req[r].payment \in PaymentIds
       /\ payments[req[r].payment].invoice = req[r].invoice
       /\ payments[req[r].payment].status # "absent"
  /\ req[r].pc = "mark_paid" => payments[req[r].payment].status = "settled"

\* Period k of agreement g is its first, or follows one that is billed.
ItsTurn(g, k) ==
  /\ agreements[g].asset # None
  /\ k = agreements[g].start \/ Billed(g, k - 1)

BilledInTurn ==
  \A i \in InvoiceIds :
    invoices[i].agreement # None => ItsTurn(invoices[i].agreement, invoices[i].period)

\* The last bill, which NextPeriod looks for, exists.
LastBill ==
  \A g \in AgreementIds :
    Bills(g) # {} =>
      \E i \in Bills(g) : \A j \in Bills(g) : invoices[j].period <= invoices[i].period

\* What a scheduler run holds on to between two steps.
RunOK(r) ==
  /\ \A bill \in run[r].todo : ItsTurn(bill[1], bill[2])
  /\ run[r].pc = "insert" => /\ run[r].bill \in AgreementIds \X Nat
                             /\ ItsTurn(run[r].bill[1], run[r].bill[2])
  /\ \A i \in run[r].found : Stored(i)
  /\ run[r].pc = "overdue" => Stored(run[r].invoice)

IInv ==
  /\ TypeOK
  /\ RowsWellFormed
  /\ \A r \in Requests : HandlerOK(r)
  /\ BilledInTurn
  /\ LastBill
  /\ \A r \in Runs : RunOK(r)
  /\ PaidIsCollected

-----------------------------------------------------------------------------
(* What a step that leaves a table alone, or changes only part of it, keeps *)

\* Rows are never deleted, an invoice keeps its agreement and period, a payment its invoice.
InvoicesKept ==
  \A i \in InvoiceIds :
    /\ invoices'[i].agreement = invoices[i].agreement
    /\ invoices'[i].period = invoices[i].period
    /\ invoices'[i].status = "absent" <=> invoices[i].status = "absent"

LEMMA KeptBills ==
  ASSUME BilledInTurn, LastBill, agreements' = agreements, InvoicesKept
  PROVE  /\ BilledInTurn'
         /\ LastBill'
         /\ \A g, k : ItsTurn(g, k) => ItsTurn(g, k)'
<1>1. \A g : Bills(g)' = Bills(g)
  BY DEF InvoicesKept, Bills
<1>2. \A g, k : Billed(g, k)' <=> Billed(g, k)
  BY <1>1 DEF InvoicesKept, Billed, Bills
<1>3. \A g, k : ItsTurn(g, k)' <=> ItsTurn(g, k)
  BY <1>2 DEF ItsTurn
<1>4. BilledInTurn'
  BY <1>3 DEF InvoicesKept, BilledInTurn
<1>5. LastBill'
  BY <1>1 DEF InvoicesKept, LastBill, Bills
<1> QED BY <1>3, <1>4, <1>5

\* A run that is not in this step keeps what it holds on to.
LEMMA KeptRun ==
  ASSUME NEW r, RunOK(r), run'[r] = run[r],
         \A g, k : ItsTurn(g, k) => ItsTurn(g, k)',
         \A i : Stored(i) => Stored(i)'
  PROVE  RunOK(r)'
  BY DEF RunOK

LEMMA KeptHandler ==
  ASSUME NEW r, HandlerOK(r), req'[r] = req[r],
         \A i : Stored(i) => Stored(i)',
         \A p \in PaymentIds :
           payments[p].status # "absent" =>
             /\ payments'[p].invoice = payments[p].invoice
             /\ payments'[p].status # "absent"
             /\ payments[p].status = "settled" => payments'[p].status = "settled"
  PROVE  HandlerOK(r)'
  BY DEF HandlerOK, CompleteSteps

\* An invoice that is paid after the step was paid before it, and no collection is lost.
LEMMA KeptPaid ==
  ASSUME PaidIsCollected,
         \A i \in InvoiceIds : invoices'[i].status = "PAID" => invoices[i].status = "PAID",
         \A p \in PaymentIds, i \in InvoiceIds : Collected(p, i) => Collected(p, i)'
  PROVE  PaidIsCollected'
  BY DEF PaidIsCollected

-----------------------------------------------------------------------------
(* Types *)

LEMMA Times == LastPeriod \in Nat /\ LastPeriod >= 1 /\ Periods \subseteq Nat
  BY PeriodAssumption DEF Periods

\* A handler or a run goes to another step with some of its locals changed.
LEMMA ReqType ==
  ASSUME TypeOK, NEW r \in Requests, NEW q \in Request, req' = [req EXCEPT ![r] = q]
  PROVE  /\ req' \in [Requests -> Request]
         /\ req'[r] = q
         /\ \A s \in Requests \ {r} : req'[s] = req[s]
  BY DEF TypeOK

LEMMA RunType ==
  ASSUME TypeOK, NEW r \in Runs, NEW q \in Run, run' = [run EXCEPT ![r] = q]
  PROVE  /\ run' \in [Runs -> Run]
         /\ run'[r] = q
         /\ \A s \in Runs \ {r} : run'[s] = run[s]
  BY DEF TypeOK

LEMMA IdleTypes == Idle \in Request /\ NoRun \in Run
  BY DEF Idle, NoRun, Request, Run

\* The scheduler finds a next period for every agreement.
LEMMA NextPeriodType ==
  ASSUME TypeOK, LastBill, NEW g \in AgreementIds
  PROVE  /\ NextPeriod(g) \in Nat
         /\ Bills(g) = {} => NextPeriod(g) = agreements[g].start
         /\ Bills(g) # {} => Billed(g, NextPeriod(g) - 1)
<1>1. CASE Bills(g) = {}
  <2>1. NextPeriod(g) = agreements[g].start
    BY <1>1 DEF NextPeriod
  <2>2. agreements[g].start \in Nat
    BY Times DEF TypeOK, Agreement
  <2> QED BY <1>1, <2>1, <2>2
<1>2. CASE Bills(g) # {}
  <2>1. PICK i \in Bills(g) : \A j \in Bills(g) : invoices[j].period <= invoices[i].period
    BY <1>2 DEF LastBill
  <2>2. \E k \in {invoices[j].period : j \in Bills(g)} :
          \A j \in Bills(g) : invoices[j].period <= k
    BY <2>1
  <2>3. PICK k \in {invoices[j].period : j \in Bills(g)} : NextPeriod(g) = 1 + k
    BY <1>2, <2>2 DEF NextPeriod
  <2>4. k \in Nat
    BY <2>3 DEF Bills, TypeOK, Invoice
  <2>5. Billed(g, k)
    BY <2>3 DEF Billed
  <2>6. NextPeriod(g) \in Nat /\ NextPeriod(g) - 1 = k
    BY <2>3, <2>4
  <2> QED BY <1>2, <2>5, <2>6
<1> QED BY <1>1, <1>2

-----------------------------------------------------------------------------
(* Steps that write no table *)

LEMMA OnlyHandler ==
  ASSUME IInv, NEW r \in Requests, NEW q \in Request, req' = [req EXCEPT ![r] = q],
         UNCHANGED <<assets, agreements, invoices, payments, columnFee, legacyFee, now, run>>,
         HandlerOK(r)'
  PROVE  IInv'
<1>1. TypeOK'
  BY ReqType DEF IInv, TypeOK
<1>2. \A s \in Requests : HandlerOK(s)'
  <2>1. \A s \in Requests \ {r} : HandlerOK(s)'
    BY ReqType, KeptHandler DEF IInv, Stored
  <2> QED BY <2>1
<1>3. /\ BilledInTurn' /\ LastBill'
      /\ \A g, k : ItsTurn(g, k) => ItsTurn(g, k)'
  BY KeptBills DEF IInv, InvoicesKept
<1>4. \A s \in Runs : RunOK(s)'
  BY <1>3, KeptRun DEF IInv, Stored
<1>5. RowsWellFormed' /\ PaidIsCollected'
  BY DEF IInv, RowsWellFormed, Stored, PaidIsCollected, Collected
<1> QED BY <1>1, <1>2, <1>3, <1>4, <1>5 DEF IInv

LEMMA OnlyRun ==
  ASSUME IInv, NEW r \in Runs, NEW q \in Run, run' = [run EXCEPT ![r] = q],
         UNCHANGED <<assets, agreements, invoices, payments, columnFee, legacyFee, now, req>>,
         RunOK(r)'
  PROVE  IInv'
<1>1. TypeOK'
  BY RunType DEF IInv, TypeOK
<1>2. \A s \in Requests : HandlerOK(s)'
  BY KeptHandler DEF IInv, Stored
<1>3. /\ BilledInTurn' /\ LastBill'
      /\ \A g, k : ItsTurn(g, k) => ItsTurn(g, k)'
  BY KeptBills DEF IInv, InvoicesKept
<1>4. \A s \in Runs : RunOK(s)'
  <2>1. \A s \in Runs \ {r} : RunOK(s)'
    BY <1>3, RunType, KeptRun DEF IInv, Stored
  <2> QED BY <2>1
<1>5. RowsWellFormed' /\ PaidIsCollected'
  BY DEF IInv, RowsWellFormed, Stored, PaidIsCollected, Collected
<1> QED BY <1>1, <1>2, <1>3, <1>4, <1>5 DEF IInv

\* Time goes by, a fee changes, or nothing happens.
LEMMA OnlySettings ==
  ASSUME IInv, UNCHANGED <<assets, agreements, invoices, payments, run, req>>,
         columnFee' \in ColumnFees, legacyFee' \in LegacyFees, now' \in 0..2 * LastPeriod - 1
  PROVE  IInv'
<1>1. TypeOK'
  BY DEF IInv, TypeOK
<1>2. \A s \in Requests : HandlerOK(s)'
  BY KeptHandler DEF IInv, Stored
<1>3. /\ BilledInTurn' /\ LastBill'
      /\ \A g, k : ItsTurn(g, k) => ItsTurn(g, k)'
  BY KeptBills DEF IInv, InvoicesKept
<1>4. \A s \in Runs : RunOK(s)'
  BY <1>3, KeptRun DEF IInv, Stored
<1>5. RowsWellFormed' /\ PaidIsCollected'
  BY DEF IInv, RowsWellFormed, Stored, PaidIsCollected, Collected
<1> QED BY <1>1, <1>2, <1>3, <1>4, <1>5 DEF IInv

LEMMA CreateAgreementStep ==
  ASSUME IInv, NEW r \in Requests, NEW a \in Assets, CreateAgreement(r, a)
  PROVE  IInv'
<1> DEFINE q == [Idle EXCEPT !.pc = "sign", !.asset = a]
<1>1. q \in Request /\ q.pc = "sign" /\ q.asset = a /\ a # None
  BY NoneAssumption DEF Idle, Request
<1>2. req' = [req EXCEPT ![r] = q]
  BY DEF CreateAgreement
<1>3. req'[r] = q
  BY <1>1, <1>2, ReqType DEF IInv
<1> HIDE DEF q
<1>4. HandlerOK(r)'
  BY <1>1, <1>3 DEF HandlerOK, PaySteps, CompleteSteps
<1> QED BY <1>1, <1>2, <1>4, OnlyHandler DEF CreateAgreement

LEMMA PayInvoiceStep ==
  ASSUME IInv, NEW r \in Requests, NEW i \in InvoiceIds, NEW online \in BOOLEAN,
         PayInvoice(r, i, online)
  PROVE  IInv'
<1> DEFINE q == [Idle EXCEPT
                   !.pc = IF invoices[i].status = "OVERDUE" /\ invoices[i].lateFee = 0
                          THEN "late_fee" ELSE "pay",
                   !.invoice = i, !.online = online, !.amount = Rent + invoices[i].lateFee]
<1>1. Rent + invoices[i].lateFee \in Nat
  BY FeeAssumption DEF IInv, TypeOK, Invoice
<1>2. q \in Request /\ q.pc \in {"late_fee", "pay"} /\ q.invoice = i
  BY <1>1 DEF Idle, Request
<1>3. req' = [req EXCEPT ![r] = q]
  BY DEF PayInvoice
<1>4. req'[r] = q
  BY <1>2, <1>3, ReqType DEF IInv
<1> HIDE DEF q
<1>5. Stored(i)'
  BY DEF PayInvoice, Stored
<1>6. HandlerOK(r)'
  BY <1>2, <1>4, <1>5 DEF HandlerOK, PaySteps, CompleteSteps, Stored
<1> QED BY <1>2, <1>3, <1>6, OnlyHandler DEF PayInvoice

LEMMA ReadLateFeeStep ==
  ASSUME IInv, NEW r \in Requests, ReadLateFee(r)
  PROVE  IInv'
<1> DEFINE step == IF legacyFee = 0 THEN "pay" ELSE "save_fee"
           q == [req[r] EXCEPT !.pc = step, !.amount = Rent + legacyFee]
<1>1. Rent + legacyFee \in Nat /\ Rent + legacyFee >= Rent
  BY FeeAssumption DEF IInv, TypeOK
<1>2. req[r] \in Request
  BY DEF IInv, TypeOK
<1>3. /\ q \in Request
      /\ q.pc \in {"pay", "save_fee"}
      /\ q.invoice = req[r].invoice
      /\ q.amount >= Rent
  BY <1>1, <1>2 DEF Request
<1>4. req' = [req EXCEPT ![r] = q]
  BY <1>2 DEF ReadLateFee, IInv, TypeOK, Request
<1>5. req'[r] = q
  BY <1>3, <1>4, ReqType DEF IInv
<1> HIDE DEF q
<1>6. Stored(req[r].invoice)
  BY DEF ReadLateFee, IInv, HandlerOK, PaySteps, Stored
<1>7. HandlerOK(r)'
  BY <1>3, <1>5, <1>6 DEF HandlerOK, PaySteps, CompleteSteps, Stored, ReadLateFee
<1> QED BY <1>3, <1>4, <1>7, OnlyHandler DEF ReadLateFee

LEMMA CompletePaymentStep ==
  ASSUME IInv, NEW r \in Requests, NEW p \in PaymentIds, CompletePayment(r, p)
  PROVE  IInv'
<1> DEFINE q == [Idle EXCEPT !.pc = "check_invoice", !.payment = p,
                             !.invoice = payments[p].invoice]
<1>1. /\ q \in Request
      /\ q.pc = "check_invoice" /\ q.payment = p /\ q.invoice = payments[p].invoice
  BY DEF Idle, Request, IInv, TypeOK, PaymentRow
<1>2. req' = [req EXCEPT ![r] = q]
  BY DEF CompletePayment
<1>3. req'[r] = q
  BY <1>1, <1>2, ReqType DEF IInv
<1> HIDE DEF q
<1>4. Stored(payments[p].invoice)
  BY DEF CompletePayment, IInv, RowsWellFormed
<1>5. HandlerOK(r)'
  BY <1>1, <1>3, <1>4 DEF HandlerOK, PaySteps, CompleteSteps, Stored, CompletePayment
<1> QED BY <1>1, <1>2, <1>5, OnlyHandler DEF CompletePayment

\* A handler that ends holds on to nothing.
LEMMA FinishOK ==
  ASSUME IInv, NEW r \in Requests, Finish(r)
  PROVE  HandlerOK(r)' /\ req' \in [Requests -> Request]
<1>1. req'[r] = Idle /\ req' \in [Requests -> Request]
  BY ReqType, IdleTypes DEF Finish, IInv
<1> QED BY <1>1 DEF HandlerOK, Idle, PaySteps, CompleteSteps

\* A handler that goes on keeps its locals.
LEMMA GotoOK ==
  ASSUME IInv, NEW r \in Requests, NEW step \in {"pay", "settle", "mark_paid"}, Goto(r, step)
  PROVE  /\ req' \in [Requests -> Request]
         /\ req'[r].pc = step
         /\ req'[r].invoice = req[r].invoice
         /\ req'[r].payment = req[r].payment
         /\ \A s \in Requests \ {r} : req'[s] = req[s]
  BY DEF Goto, IInv, TypeOK, Request

LEMMA CheckInvoiceStep ==
  ASSUME IInv, NEW r \in Requests, CheckInvoice(r)
  PROVE  IInv'
<1>1. CASE Finish(r)
  BY <1>1, FinishOK, IdleTypes, OnlyHandler DEF Finish, CheckInvoice
<1>2. CASE Goto(r, "settle")
  <2> DEFINE q == [req[r] EXCEPT !.pc = "settle"]
  <2>1. q \in Request /\ req' = [req EXCEPT ![r] = q]
    BY <1>2 DEF Goto, IInv, TypeOK, Request
  <2>2. HandlerOK(r)'
    BY <1>2, GotoOK DEF HandlerOK, PaySteps, CompleteSteps, Stored, CheckInvoice, IInv
  <2> QED BY <2>1, <2>2, OnlyHandler DEF CheckInvoice
<1> QED BY <1>1, <1>2 DEF CheckInvoice

LEMMA HandlerReadSteps ==
  ASSUME IInv, NEW r \in Requests,
         \/ \E a \in Assets : CreateAgreement(r, a)
         \/ \E i \in InvoiceIds, online \in BOOLEAN : PayInvoice(r, i, online)
         \/ \E p \in PaymentIds : CompletePayment(r, p)
         \/ ReadLateFee(r) \/ CheckInvoice(r)
  PROVE  IInv'
  BY CreateAgreementStep, PayInvoiceStep, CompletePaymentStep, ReadLateFeeStep, CheckInvoiceStep

-----------------------------------------------------------------------------
(* Steps of handlers that write a table *)

LEMMA SaveAgreementStep ==
  ASSUME IInv, NEW r \in Requests, NEW g \in AgreementIds, NEW start \in Periods,
         SaveAgreement(r, g, start)
  PROVE  IInv'
<1>1. req[r].asset \in Assets
  BY DEF SaveAgreement, IInv, HandlerOK, TypeOK, Request
<1>2. TypeOK'
  BY <1>1, FinishOK DEF SaveAgreement, IInv, TypeOK, Agreement
<1>3. /\ agreements[g].asset = None
      /\ agreements'[g].asset # None
      /\ \A h \in AgreementIds \ {g} : agreements'[h] = agreements[h]
  BY <1>1, NoneAssumption DEF SaveAgreement, IInv, TypeOK, Agreement
<1>4. \A h \in AgreementIds : \A k : ItsTurn(h, k) => ItsTurn(h, k)'
  BY <1>3 DEF ItsTurn, Billed, Bills, SaveAgreement
<1>5. BilledInTurn'
  BY <1>4 DEF BilledInTurn, IInv, TypeOK, Invoice, SaveAgreement
<1>6. LastBill' /\ RowsWellFormed' /\ PaidIsCollected'
  BY DEF IInv, LastBill, Bills, RowsWellFormed, Stored, PaidIsCollected, Collected, SaveAgreement
<1>7. \A s \in Requests : HandlerOK(s)'
  <2>1. \A s \in Requests \ {r} : req'[s] = req[s]
    BY DEF SaveAgreement, Finish, IInv, TypeOK
  <2>2. \A s \in Requests \ {r} : HandlerOK(s)'
    BY <2>1, KeptHandler DEF SaveAgreement, Stored, IInv
  <2> QED BY <2>2, FinishOK DEF SaveAgreement
<1>8. ASSUME NEW s \in Runs PROVE RunOK(s)'
  <2>1. run[s] \in Run /\ RunOK(s) /\ run' = run /\ invoices' = invoices
    BY DEF SaveAgreement, IInv, TypeOK
  <2>2. \A bill \in run[s].todo : bill[1] \in AgreementIds
    BY <2>1 DEF Run
  <2>3. run[s].pc = "insert" => run[s].bill[1] \in AgreementIds
    BY <2>1 DEF RunOK
  <2> QED BY <1>4, <2>1, <2>2, <2>3 DEF RunOK, Stored
<1> QED BY <1>2, <1>5, <1>6, <1>7, <1>8 DEF IInv

PaymentKept(p) ==
  /\ payments'[p].status # "absent"
  /\ payments'[p].invoice = payments[p].invoice
  /\ payments[p].status \in {"settled", "succeeded"} => payments'[p].status = payments[p].status

PaymentsKept ==
  \A p \in PaymentIds : /\ payments[p].status # "absent" => PaymentKept(p)
                        /\ payments'[p].status # "absent" => Stored(payments'[p].invoice)

\* An invoice paid after the step was paid before it or is collected now.
PaidWritten ==
  \A i \in InvoiceIds :
    invoices'[i].status = "PAID" =>
      invoices[i].status = "PAID" \/ \E p \in PaymentIds : Collected(p, i)'

\* A handler's write of a payment, or of an invoice's status or fee.
LEMMA TablesWritten ==
  ASSUME IInv, NEW r \in Requests, InvoicesKept,
         UNCHANGED <<assets, agreements, columnFee, legacyFee, now, run>>,
         invoices' \in [InvoiceIds -> Invoice], req' \in [Requests -> Request],
         payments' \in [PaymentIds -> PaymentRow],
         \A s \in Requests \ {r} : req'[s] = req[s],
         HandlerOK(r)',
         PaymentsKept, PaidWritten
  PROVE  IInv'
<1>1. TypeOK'
  BY DEF IInv, TypeOK
<1>2. \A i : Stored(i) => Stored(i)'
  BY DEF Stored, InvoicesKept
<1>3. RowsWellFormed'
  BY <1>2 DEF RowsWellFormed, IInv, InvoicesKept, PaymentsKept
<1>4. \A s \in Requests : HandlerOK(s)'
  <2>1. \A s \in Requests \ {r} : HandlerOK(s)'
    BY <1>2, KeptHandler DEF IInv, PaymentKept, PaymentsKept
  <2> QED BY <2>1
<1>5. /\ BilledInTurn' /\ LastBill'
      /\ \A g, k : ItsTurn(g, k) => ItsTurn(g, k)'
  BY KeptBills DEF IInv
<1>6. \A s \in Runs : RunOK(s)'
  BY <1>2, <1>5, KeptRun DEF IInv
<1>7. PaidIsCollected'
  <2>1. \A p \in PaymentIds, i \in InvoiceIds : Collected(p, i) => Collected(p, i)'
    BY DEF Collected, PaymentKept, PaymentsKept
  <2> QED BY <2>1 DEF IInv, PaidIsCollected, PaidWritten
<1> QED BY <1>1, <1>3, <1>4, <1>5, <1>6, <1>7 DEF IInv

\* The invoice a handler or a run is about to write.
LEMMA OneInvoiceWritten ==
  ASSUME IInv, NEW i \in InvoiceIds, Stored(i), NEW row \in Invoice, row.status # "absent",
         row.agreement = invoices[i].agreement, row.period = invoices[i].period,
         invoices' = [invoices EXCEPT ![i] = row]
  PROVE  /\ invoices' \in [InvoiceIds -> Invoice]
         /\ InvoicesKept
         /\ invoices'[i] = row
         /\ \A j \in InvoiceIds \ {i} : invoices'[j] = invoices[j]
  BY DEF IInv, TypeOK, Stored, InvoicesKept

LEMMA SaveLateFeeStep ==
  ASSUME IInv, NEW r \in Requests, SaveLateFee(r)
  PROVE  IInv'
<1> DEFINE i == req[r].invoice
           row == [invoices[i] EXCEPT !.lateFee = req[r].amount - Rent]
<1>1. i \in InvoiceIds /\ Stored(i) /\ invoices[i] \in Invoice
  BY DEF SaveLateFee, IInv, HandlerOK, PaySteps, Stored, TypeOK
<1>2. req[r].amount - Rent \in Nat
  BY FeeAssumption DEF SaveLateFee, IInv, HandlerOK, TypeOK, Request
<1>3. /\ row \in Invoice /\ row.status = invoices[i].status
      /\ row.agreement = invoices[i].agreement /\ row.period = invoices[i].period
  BY <1>1, <1>2 DEF Invoice
<1>4. invoices' = [invoices EXCEPT ![i] = row]
  BY DEF SaveLateFee
<1>5. /\ invoices' \in [InvoiceIds -> Invoice]
      /\ InvoicesKept
      /\ \A j \in InvoiceIds : invoices'[j].status = invoices[j].status
  <2> HIDE DEF row, i
  <2> QED BY <1>1, <1>3, <1>4, OneInvoiceWritten DEF Stored
<1>6. HandlerOK(r)'
  BY <1>1, <1>5, GotoOK
  DEF SaveLateFee, HandlerOK, PaySteps, CompleteSteps, Stored, InvoicesKept
<1>7. PaymentsKept /\ PaidWritten
  BY <1>5 DEF SaveLateFee, PaymentsKept, PaymentKept, PaidWritten, IInv, RowsWellFormed
<1>8. /\ req' \in [Requests -> Request]
      /\ \A s \in Requests \ {r} : req'[s] = req[s]
  BY GotoOK DEF SaveLateFee
<1>9. payments' \in [PaymentIds -> PaymentRow]
  BY DEF SaveLateFee, IInv, TypeOK
<1> QED BY <1>5, <1>6, <1>7, <1>8, <1>9, TablesWritten DEF SaveLateFee

\* A new payment is well formed and replaces no other.
LEMMA NewPaymentFacts ==
  ASSUME IInv, NEW r \in Requests, NEW p \in PaymentIds,
         NEW status \in {"requires_action", "succeeded"}, NewPayment(p, r, status),
         req[r].pc = "pay"
  PROVE  /\ payments' \in [PaymentIds -> PaymentRow]
         /\ payments'[p].invoice = req[r].invoice /\ payments'[p].status = status
         /\ PaymentsKept
<1> DEFINE row == [status |-> status, invoice |-> req[r].invoice, amount |-> req[r].amount]
<1>1. Stored(req[r].invoice) /\ req[r] \in Request
  BY DEF IInv, HandlerOK, PaySteps, TypeOK
<1>2. row \in PaymentRow
  BY <1>1 DEF PaymentRow, Request
<1>3. payments' = [payments EXCEPT ![p] = row] /\ payments[p].status = "absent"
  BY DEF NewPayment
<1>4. row.status = status /\ row.invoice = req[r].invoice
  OBVIOUS
<1> HIDE DEF row
<1>5. /\ payments' \in [PaymentIds -> PaymentRow]
      /\ payments'[p] = row
      /\ \A x \in PaymentIds \ {p} : payments'[x] = payments[x]
  BY <1>2, <1>3 DEF IInv, TypeOK
<1> QED BY <1>1, <1>3, <1>4, <1>5 DEF PaymentKept, PaymentsKept, IInv, RowsWellFormed

LEMMA StartOnlinePaymentStep ==
  ASSUME IInv, NEW r \in Requests, NEW p \in PaymentIds, StartOnlinePayment(r, p)
  PROVE  IInv'
<1>1. payments' \in [PaymentIds -> PaymentRow] /\ PaymentsKept
  BY NewPaymentFacts DEF StartOnlinePayment
<1>2. invoices' \in [InvoiceIds -> Invoice] /\ InvoicesKept /\ PaidWritten
  BY DEF StartOnlinePayment, IInv, TypeOK, InvoicesKept, PaidWritten
<1>3. /\ HandlerOK(r)' /\ req' \in [Requests -> Request]
      /\ \A s \in Requests \ {r} : req'[s] = req[s]
  BY FinishOK, ReqType, IdleTypes DEF StartOnlinePayment, Finish, IInv
<1> QED BY <1>1, <1>2, <1>3, TablesWritten DEF StartOnlinePayment

LEMMA SettleOfflineStep ==
  ASSUME IInv, NEW r \in Requests, NEW p \in PaymentIds, SettleOffline(r, p)
  PROVE  IInv'
<1> DEFINE i == req[r].invoice
           row == [invoices[i] EXCEPT !.status = "PAID"]
<1>1. payments' \in [PaymentIds -> PaymentRow] /\ PaymentsKept
  BY NewPaymentFacts DEF SettleOffline
<1>2. i \in InvoiceIds /\ Stored(i) /\ invoices[i] \in Invoice
  BY DEF SettleOffline, IInv, HandlerOK, PaySteps, Stored, TypeOK
<1>3. /\ row \in Invoice /\ row.status = "PAID"
      /\ row.agreement = invoices[i].agreement /\ row.period = invoices[i].period
  BY <1>2 DEF Invoice
<1>4. invoices' = [invoices EXCEPT ![i] = row]
  BY DEF SettleOffline
<1>5. /\ invoices' \in [InvoiceIds -> Invoice]
      /\ InvoicesKept
      /\ \A j \in InvoiceIds \ {i} : invoices'[j] = invoices[j]
  <2> HIDE DEF row, i
  <2> QED BY <1>2, <1>3, <1>4, OneInvoiceWritten
<1>6. payments'[p].invoice = i /\ payments'[p].status = "succeeded"
  BY NewPaymentFacts DEF SettleOffline
<1>7. PaidWritten
  BY <1>5, <1>6 DEF PaidWritten, Collected
<1>8. /\ HandlerOK(r)' /\ req' \in [Requests -> Request]
      /\ \A s \in Requests \ {r} : req'[s] = req[s]
  BY FinishOK, ReqType, IdleTypes DEF SettleOffline, Finish, IInv
<1> QED BY <1>1, <1>5, <1>7, <1>8, TablesWritten DEF SettleOffline

LEMMA SettleStubLedgerStep ==
  ASSUME IInv, NEW r \in Requests, SettleStubLedger(r)
  PROVE  IInv'
<1> DEFINE p == req[r].payment
<1>1. p \in PaymentIds /\ payments[p] \in PaymentRow /\ Stored(req[r].invoice)
  BY DEF SettleStubLedger, IInv, HandlerOK, PaySteps, CompleteSteps, TypeOK
<1>2. CASE payments[p].status = "requires_action"
  <2> DEFINE row == [payments[p] EXCEPT !.status = "settled"]
  <2>1. row \in PaymentRow /\ row.status = "settled" /\ row.invoice = payments[p].invoice
    BY <1>1 DEF PaymentRow
  <2>2. payments' = [payments EXCEPT ![p] = row] /\ Goto(r, "mark_paid")
    BY <1>2 DEF SettleStubLedger
  <2> HIDE DEF row
  <2>3. /\ payments' \in [PaymentIds -> PaymentRow]
        /\ payments'[p] = row
        /\ \A x \in PaymentIds \ {p} : payments'[x] = payments[x]
    BY <1>1, <2>1, <2>2 DEF IInv, TypeOK
  <2>4. PaymentsKept
    BY <1>2, <2>1, <2>3 DEF PaymentsKept, PaymentKept, IInv, RowsWellFormed
  <2>5. /\ req' \in [Requests -> Request]
        /\ req'[r].pc = "mark_paid" /\ req'[r].invoice = req[r].invoice /\ req'[r].payment = p
        /\ \A s \in Requests \ {r} : req'[s] = req[s]
    BY <2>2, GotoOK
  <2>6. payments[p].invoice = req[r].invoice
    BY DEF SettleStubLedger, IInv, HandlerOK, CompleteSteps
  <2>7. HandlerOK(r)'
    BY <1>1, <2>1, <2>3, <2>5, <2>6
    DEF HandlerOK, PaySteps, CompleteSteps, Stored, SettleStubLedger
  <2>8. invoices' \in [InvoiceIds -> Invoice] /\ InvoicesKept /\ PaidWritten
    BY DEF SettleStubLedger, IInv, TypeOK, InvoicesKept, PaidWritten
  <2> QED BY <2>3, <2>4, <2>5, <2>7, <2>8, TablesWritten DEF SettleStubLedger
<1>3. CASE payments[p].status # "requires_action"
  BY <1>3, FinishOK, IdleTypes, OnlyHandler DEF Finish, SettleStubLedger
<1> QED BY <1>2, <1>3

LEMMA MarkPaidStep ==
  ASSUME IInv, NEW r \in Requests, MarkPaid(r)
  PROVE  IInv'
<1> DEFINE i == req[r].invoice
           row == [invoices[i] EXCEPT !.status = "PAID"]
<1>1. /\ i \in InvoiceIds /\ Stored(i) /\ invoices[i] \in Invoice
      /\ req[r].payment \in PaymentIds /\ Collected(req[r].payment, i)
  BY DEF MarkPaid, IInv, HandlerOK, CompleteSteps, Stored, TypeOK, Collected
<1>2. /\ row \in Invoice /\ row.status = "PAID"
      /\ row.agreement = invoices[i].agreement /\ row.period = invoices[i].period
  BY <1>1 DEF Invoice
<1>3. invoices' = [invoices EXCEPT ![i] = row]
  BY DEF MarkPaid
<1>4. /\ invoices' \in [InvoiceIds -> Invoice]
      /\ InvoicesKept
      /\ \A j \in InvoiceIds \ {i} : invoices'[j] = invoices[j]
  <2> HIDE DEF row, i
  <2> QED BY <1>1, <1>2, <1>3, OneInvoiceWritten
<1>5. PaidWritten
  BY <1>1, <1>4 DEF PaidWritten, Collected, MarkPaid
<1>6. /\ HandlerOK(r)' /\ req' \in [Requests -> Request]
      /\ \A s \in Requests \ {r} : req'[s] = req[s]
  BY FinishOK, ReqType, IdleTypes DEF MarkPaid, Finish, IInv
<1>7. payments' \in [PaymentIds -> PaymentRow] /\ PaymentsKept
  BY DEF MarkPaid, IInv, TypeOK, RowsWellFormed, PaymentsKept, PaymentKept
<1> QED BY <1>4, <1>5, <1>6, <1>7, TablesWritten DEF MarkPaid

-----------------------------------------------------------------------------
(* Steps of the scheduler *)

LEMMA StartRunStep ==
  ASSUME IInv, NEW r \in Runs, StartRun(r)
  PROVE  IInv'
<1> DEFINE due  == {h \in AgreementIds : agreements[h].asset # None /\ 2 * NextPeriod(h) - 1 <= now}
           todo == {<<g, NextPeriod(g)>> : g \in due}
           q    == [NoRun EXCEPT !.pc = "bill", !.time = now, !.todo = todo]
<1>1. todo \in SUBSET (AgreementIds \X Nat)
  BY NextPeriodType DEF IInv
<1>2. now \in Nat
  BY Times DEF IInv, TypeOK
<1>3. ASSUME NEW bill \in todo PROVE ItsTurn(bill[1], bill[2])
  <2>1. PICK g \in due : bill = <<g, NextPeriod(g)>>
    OBVIOUS
  <2> QED BY <2>1, NextPeriodType DEF ItsTurn, IInv
<1>4. run' = [run EXCEPT ![r] = q]
  BY DEF StartRun
<1> HIDE DEF todo
<1>5. q \in Run /\ q.pc = "bill" /\ q.todo = todo /\ q.found = {}
  BY <1>1, <1>2 DEF NoRun, Run
<1> HIDE DEF q
<1>6. run'[r] = q
  BY <1>4, <1>5, RunType DEF IInv
<1>7. agreements' = agreements /\ invoices' = invoices
  BY DEF StartRun
<1>8. RunOK(r)'
  BY <1>3, <1>5, <1>6, <1>7 DEF RunOK, ItsTurn, Billed, Bills
<1> QED BY <1>4, <1>5, <1>8, OnlyRun DEF StartRun

LEMMA CheckBillStep ==
  ASSUME IInv, NEW r \in Runs, NEW bill \in run[r].todo, CheckBill(r, bill)
  PROVE  IInv'
<1> DEFINE q == IF Billed(bill[1], bill[2])
                THEN [run[r] EXCEPT !.todo = @ \ {bill}]
                ELSE [run[r] EXCEPT !.pc = "insert", !.todo = @ \ {bill}, !.bill = bill]
<1>1. run[r] \in Run /\ bill \in AgreementIds \X Nat /\ run[r].pc = "bill" /\ RunOK(r)
  BY DEF CheckBill, IInv, TypeOK, Run
<1>2. /\ q \in Run /\ q.todo \subseteq run[r].todo /\ q.found = run[r].found
      /\ \/ q.pc = "bill"
         \/ q.pc = "insert" /\ q.bill = bill
  BY <1>1 DEF Run
<1>3. run' = [run EXCEPT ![r] = q]
  BY <1>1 DEF CheckBill, IInv, TypeOK, Run
<1> HIDE DEF q
<1>4. run'[r] = q
  BY <1>2, <1>3, RunType DEF IInv
<1>5. agreements' = agreements /\ invoices' = invoices
  BY DEF CheckBill
<1>6. RunOK(r)'
  BY <1>1, <1>2, <1>4, <1>5 DEF RunOK, ItsTurn, Billed, Bills, Stored
<1> QED BY <1>2, <1>3, <1>6, OnlyRun DEF CheckBill

LEMMA FindOverdueStep ==
  ASSUME IInv, NEW r \in Runs, FindOverdue(r)
  PROVE  IInv'
<1> DEFINE found == {i \in InvoiceIds : /\ invoices[i].status = "PENDING"
                                       /\ 2 * invoices[i].period <= run[r].time}
           q == IF found = {} THEN NoRun ELSE [run[r] EXCEPT !.pc = "flip", !.found = found]
<1>1. run[r] \in Run /\ run[r].todo = {} /\ \A i \in found : Stored(i)
  BY DEF FindOverdue, IInv, TypeOK, Stored
<1>2. run' = [run EXCEPT ![r] = q]
  BY <1>1 DEF FindOverdue, IInv, TypeOK
<1>3. found \subseteq InvoiceIds
  OBVIOUS
<1> HIDE DEF found
<1>4. q \in Run /\ q.pc \in {"idle", "flip"} /\ q.todo = {} /\ \A i \in q.found : Stored(i)
  BY <1>1, <1>3, IdleTypes DEF NoRun, Run
<1> HIDE DEF q
<1>5. run'[r] = q
  BY <1>2, <1>4, RunType DEF IInv
<1>6. RunOK(r)'
  BY <1>4, <1>5 DEF RunOK, Stored, FindOverdue
<1> QED BY <1>2, <1>4, <1>6, OnlyRun DEF FindOverdue

LEMMA ReadTenantFeeStep ==
  ASSUME IInv, NEW r \in Runs, NEW i \in InvoiceIds, ReadTenantFee(r, i)
  PROVE  IInv'
<1> DEFINE fee == IF columnFee = 0 THEN legacyFee ELSE columnFee
           q   == [run[r] EXCEPT !.pc = "overdue", !.found = @ \ {i}, !.invoice = i, !.fee = fee]
<1>1. fee \in Nat
  BY FeeAssumption DEF IInv, TypeOK
<1>2. run[r] \in Run /\ run[r].pc = "flip" /\ Stored(i) /\ RunOK(r)
  BY DEF ReadTenantFee, IInv, TypeOK, RunOK
<1> HIDE DEF fee
<1>3. /\ q \in Run /\ q.pc = "overdue" /\ q.invoice = i
      /\ q.todo = run[r].todo /\ q.found \subseteq run[r].found
  BY <1>1, <1>2 DEF Run
<1>4. run' = [run EXCEPT ![r] = q]
  BY <1>2 DEF ReadTenantFee, fee, IInv, TypeOK, Run
<1> HIDE DEF q
<1>5. run'[r] = q
  BY <1>3, <1>4, RunType DEF IInv
<1>6. agreements' = agreements /\ invoices' = invoices
  BY DEF ReadTenantFee
<1>7. RunOK(r)'
  BY <1>2, <1>3, <1>5, <1>6 DEF RunOK, ItsTurn, Billed, Bills, Stored
<1> QED BY <1>3, <1>4, <1>7, OnlyRun DEF ReadTenantFee

\* The run writes one invoice it found, whatever the invoice has become.
LEMMA FlipOverdueStep ==
  ASSUME IInv, NEW r \in Runs, FlipOverdue(r)
  PROVE  IInv'
<1> DEFINE i   == run[r].invoice
           row == [invoices[i] EXCEPT !.status = "OVERDUE", !.lateFee = run[r].fee]
           q   == IF run[r].found = {} THEN NoRun
                  ELSE [run[r] EXCEPT !.pc = "flip", !.invoice = None, !.fee = 0]
<1>1. /\ i \in InvoiceIds /\ Stored(i) /\ invoices[i] \in Invoice
      /\ run[r] \in Run /\ RunOK(r)
  BY DEF FlipOverdue, IInv, TypeOK, RunOK, Stored
<1>2. /\ row \in Invoice /\ row.status = "OVERDUE"
      /\ row.agreement = invoices[i].agreement /\ row.period = invoices[i].period
  BY <1>1 DEF Invoice, Run
<1>3. invoices' = [invoices EXCEPT ![i] = row]
  BY <1>1 DEF FlipOverdue, IInv, TypeOK, Invoice
<1>4. /\ invoices' \in [InvoiceIds -> Invoice] /\ InvoicesKept
      /\ invoices'[i] = row
      /\ \A j \in InvoiceIds \ {i} : invoices'[j] = invoices[j]
  <2> HIDE DEF row, i
  <2> QED BY <1>1, <1>2, <1>3, OneInvoiceWritten
<1>5. \A j \in InvoiceIds : invoices'[j].status = "PAID" => invoices[j].status = "PAID"
  BY <1>2, <1>4
<1>6. \A j : Stored(j) => Stored(j)'
  BY <1>4 DEF Stored, InvoicesKept
<1>7. /\ q \in Run /\ q.pc \in {"idle", "flip"}
      /\ q.todo \subseteq run[r].todo /\ q.found \subseteq run[r].found
  BY <1>1, IdleTypes DEF NoRun, Run
<1>8. run' = [run EXCEPT ![r] = q]
  BY DEF FlipOverdue
<1> HIDE DEF q, row, i
<1>9. /\ run' \in [Runs -> Run] /\ run'[r] = q
      /\ \A s \in Runs \ {r} : run'[s] = run[s]
  BY <1>7, <1>8, RunType DEF IInv
<1>10. /\ BilledInTurn' /\ LastBill'
       /\ \A g, k : ItsTurn(g, k) => ItsTurn(g, k)'
  BY <1>4, KeptBills DEF FlipOverdue, IInv
<1>11. \A s \in Runs : RunOK(s)'
  <2>1. \A s \in Runs \ {r} : RunOK(s)'
    BY <1>6, <1>9, <1>10, KeptRun DEF IInv
  <2>2. RunOK(r)'
    BY <1>1, <1>6, <1>7, <1>9, <1>10 DEF RunOK
  <2> QED BY <2>1, <2>2
<1>12. \A s \in Requests : HandlerOK(s)'
  BY <1>6, KeptHandler DEF FlipOverdue, IInv
<1>13. TypeOK'
  BY <1>4, <1>9 DEF FlipOverdue, IInv, TypeOK
<1>14. RowsWellFormed'
  BY <1>4, <1>6 DEF FlipOverdue, IInv, RowsWellFormed, InvoicesKept
<1>15. PaidIsCollected'
  BY <1>5, KeptPaid DEF FlipOverdue, IInv, Collected
<1> QED BY <1>10, <1>11, <1>12, <1>13, <1>14, <1>15 DEF IInv

\* The new bill is the first of its lease or follows one that is billed; it may be older than the
\* last one when runs overlap.
LEMMA InsertInvoiceStep ==
  ASSUME IInv, NEW r \in Runs, NEW i \in InvoiceIds, InsertInvoice(r, i)
  PROVE  IInv'
<1>0. /\ run[r] \in Run /\ RunOK(r) /\ run[r].pc = "insert"
      /\ run[r].bill \in AgreementIds \X Nat
  BY DEF InsertInvoice, IInv, TypeOK, RunOK
<1>g. PICK g \in AgreementIds, k \in Nat : run[r].bill = <<g, k>>
  BY <1>0
<1> DEFINE row == [status |-> "PENDING", agreement |-> g, period |-> k, lateFee |-> 0]
           q   == [run[r] EXCEPT !.pc = "bill", !.bill = None]
<1>1. run[r] \in Run /\ RunOK(r) /\ run[r].pc = "insert" /\ ItsTurn(g, k)
  BY <1>0, <1>g DEF RunOK
<1>2. g \in AgreementIds /\ g # None /\ k \in Nat
  BY NoneAssumption
<1>3. /\ row \in Invoice /\ row.status = "PENDING" /\ row.agreement = g /\ row.period = k
  BY <1>2 DEF Invoice
<1>4. /\ invoices' = [invoices EXCEPT ![i] = row]
      /\ invoices[i].status = "absent" /\ invoices[i].agreement = None
  BY <1>g DEF InsertInvoice, IInv, RowsWellFormed
<1> HIDE DEF row
<1>5. /\ invoices' \in [InvoiceIds -> Invoice]
      /\ invoices'[i] = row
      /\ \A j \in InvoiceIds \ {i} : invoices'[j] = invoices[j]
  BY <1>3, <1>4 DEF IInv, TypeOK
<1>6. /\ q \in Run /\ q.pc = "bill" /\ q.todo = run[r].todo /\ q.found = run[r].found
  BY <1>1 DEF Run
<1>7. run' = [run EXCEPT ![r] = q]
  BY <1>1 DEF InsertInvoice, IInv, TypeOK, Run
<1> HIDE DEF q
<1>8. /\ run' \in [Runs -> Run] /\ run'[r] = q
      /\ \A s \in Runs \ {r} : run'[s] = run[s]
  BY <1>6, <1>7, RunType DEF IInv
<1>9. \A j : Stored(j) => Stored(j)'
  BY <1>3, <1>5 DEF Stored
<1>10. \A h \in AgreementIds : Bills(h)' = IF h = g THEN Bills(h) \cup {i} ELSE Bills(h)
  BY <1>3, <1>4, <1>5, NoneAssumption DEF Bills
<1>11. \A h \in AgreementIds : \A m : Billed(h, m) => Billed(h, m)'
  <2>1. \A h \in AgreementIds : i \notin Bills(h)
    BY <1>4, NoneAssumption DEF Bills
  <2> QED BY <1>5, <1>10, <2>1 DEF Billed, Bills
<1>12. \A h \in AgreementIds : \A m : ItsTurn(h, m) => ItsTurn(h, m)'
  BY <1>11 DEF ItsTurn, InsertInvoice
<1>13. BilledInTurn'
  <2>1. ASSUME NEW j \in InvoiceIds \ {i}, invoices'[j].agreement # None
        PROVE  ItsTurn(invoices[j].agreement, invoices[j].period)'
    <3>1. invoices[j].agreement \in AgreementIds
      BY <1>5, <2>1 DEF IInv, TypeOK, Invoice
    <3>2. ItsTurn(invoices[j].agreement, invoices[j].period)
      BY <1>5, <2>1 DEF IInv, BilledInTurn
    <3> QED BY <1>5, <1>12, <3>1, <3>2
  <2>2. ItsTurn(g, k)'
    BY <1>1, <1>2, <1>12
  <2> QED BY <1>3, <1>5, <2>1, <2>2 DEF BilledInTurn
<1>14. LastBill'
  <2>1. ASSUME NEW h \in AgreementIds \ {g}, Bills(h)' # {}
        PROVE  \E j \in Bills(h)' : \A l \in Bills(h)' : invoices'[l].period <= invoices'[j].period
    <3>1. Bills(h)' = Bills(h) /\ i \notin Bills(h) /\ Bills(h) \subseteq InvoiceIds
      BY <1>4, <1>10, NoneAssumption DEF Bills
    <3> QED BY <1>5, <2>1, <3>1 DEF IInv, LastBill
  <2>2. \E j \in Bills(g)' : \A l \in Bills(g)' : invoices'[l].period <= invoices'[j].period
    <3>1. /\ Bills(g)' = Bills(g) \cup {i}
          /\ i \notin Bills(g) /\ Bills(g) \subseteq InvoiceIds
      BY <1>2, <1>4, <1>10, NoneAssumption DEF Bills
    <3>2. \A j \in InvoiceIds : invoices[j].period \in Nat /\ invoices'[j].period \in Nat
      BY <1>5 DEF IInv, TypeOK, Invoice
    <3>3. CASE Bills(g) = {}
      BY <3>1, <3>2, <3>3
    <3>4. CASE Bills(g) # {}
      <4>1. PICK j \in Bills(g) : \A l \in Bills(g) : invoices[l].period <= invoices[j].period
        BY <1>2, <3>4 DEF IInv, LastBill
      <4>2. \A l \in Bills(g) : invoices'[l].period <= invoices'[j].period
        BY <1>5, <3>1, <4>1
      <4>3. CASE invoices'[i].period <= invoices'[j].period
        BY <3>1, <4>2, <4>3
      <4>4. CASE invoices'[j].period <= invoices'[i].period
        BY <3>1, <3>2, <4>2, <4>4
      <4> QED BY <3>1, <3>2, <4>3, <4>4
    <3> QED BY <3>3, <3>4
  <2> QED BY <2>1, <2>2 DEF LastBill
<1>15. \A s \in Runs : RunOK(s)'
  <2>1. \A s \in Runs : /\ run[s] \in Run /\ RunOK(s)
                        /\ \A bill \in run[s].todo : bill[1] \in AgreementIds
    BY DEF IInv, TypeOK, Run
  <2>2. \A s \in Runs \ {r} : RunOK(s)'
    BY <1>8, <1>9, <1>12, <2>1 DEF RunOK
  <2>3. RunOK(r)'
    BY <1>6, <1>8, <1>9, <1>12, <2>1 DEF RunOK
  <2> QED BY <2>2, <2>3
<1>16. \A s \in Requests : HandlerOK(s)'
  BY <1>9, KeptHandler DEF InsertInvoice, IInv
<1>17. TypeOK'
  BY <1>5, <1>8 DEF InsertInvoice, IInv, TypeOK
<1>18. RowsWellFormed'
  BY <1>2, <1>3, <1>5, <1>9 DEF InsertInvoice, IInv, RowsWellFormed
<1>19. PaidIsCollected'
  <2>1. \A j \in InvoiceIds : invoices'[j].status = "PAID" => invoices[j].status = "PAID"
    BY <1>3, <1>5
  <2> QED BY <2>1, KeptPaid DEF InsertInvoice, IInv, Collected
<1> QED BY <1>13, <1>14, <1>15, <1>16, <1>17, <1>18, <1>19 DEF IInv

-----------------------------------------------------------------------------
(* The invariant and what it implies *)

LEMMA InitInv == Init => IInv
<1> SUFFICES ASSUME Init PROVE IInv
  OBVIOUS
<1>1. TypeOK
  BY FeeAssumption, Times, IdleTypes
  DEF Init, TypeOK, Agreement, Invoice, PaymentRow, Periods
<1>2. \A r \in Requests : HandlerOK(r)
  BY DEF Init, HandlerOK, Idle, PaySteps, CompleteSteps
<1>3. \A r \in Runs : RunOK(r)
  BY DEF Init, RunOK, NoRun
<1>4. RowsWellFormed /\ BilledInTurn /\ PaidIsCollected
  BY DEF Init, RowsWellFormed, BilledInTurn, PaidIsCollected
<1>5. LastBill
  BY NoneAssumption DEF Init, LastBill, Bills
<1> QED BY <1>1, <1>2, <1>3, <1>4, <1>5 DEF IInv

LEMMA NextInv == IInv /\ [Next]_vars => IInv'
<1> SUFFICES ASSUME IInv, [Next]_vars PROVE IInv'
  OBVIOUS
<1>1. CASE UNCHANGED vars
  BY <1>1, OnlySettings DEF vars, IInv, TypeOK
<1>2. CASE Tick \/ UpdateLateFee \/ UpsertTenant
  <2>1. now \in 0..2 * LastPeriod - 1 /\ columnFee \in ColumnFees /\ legacyFee \in LegacyFees
    BY DEF IInv, TypeOK
  <2>2. now' \in 0..2 * LastPeriod - 1
    BY <1>2, <2>1, Times DEF Tick, UpdateLateFee, UpsertTenant
  <2> QED BY <1>2, <2>1, <2>2, OnlySettings DEF Tick, UpdateLateFee, UpsertTenant
<1>3. ASSUME NEW r \in Runs, Schedule(r) PROVE IInv'
  BY <1>3, StartRunStep, CheckBillStep, InsertInvoiceStep, FindOverdueStep, ReadTenantFeeStep,
     FlipOverdueStep DEF Schedule
<1>4. ASSUME NEW r \in Requests, Call(r) \/ Continue(r) PROVE IInv'
  BY <1>4, HandlerReadSteps, SaveAgreementStep, SaveLateFeeStep, StartOnlinePaymentStep,
     SettleOfflineStep, SettleStubLedgerStep, MarkPaidStep DEF Call, Continue
<1> QED BY <1>1, <1>2, <1>3, <1>4 DEF Next

THEOREM Invariance == Spec => []IInv
  BY InitInv, NextInv, PTL DEF Spec

\* Every reachable state of leases, scheduler and handlers is well typed.
THEOREM TypeCorrect == Spec => []TypeOK
<1>1. IInv => TypeOK
  BY DEF IInv
<1> QED BY <1>1, Invariance, PTL

\* Whatever is shown as paid has been paid, however many handlers and runs overlap.
THEOREM PaidIsCollectedHolds == Spec => []PaidIsCollected
<1>1. IInv => PaidIsCollected
  BY DEF IInv
<1> QED BY <1>1, Invariance, PTL

\* No period is skipped, however late the scheduler runs and however many of its runs overlap.
THEOREM BilledWithoutGapsHolds == Spec => []BilledWithoutGaps
<1>1. IInv => BilledWithoutGaps
  <2> SUFFICES ASSUME IInv, NEW g \in AgreementIds, NEW k \in Periods, Billed(g, k + 1)
               PROVE  k + 1 = agreements[g].start \/ Billed(g, k)
    BY DEF BilledWithoutGaps
  <2>1. PICK i \in InvoiceIds : invoices[i].agreement = g /\ invoices[i].period = k + 1
    BY DEF Billed, Bills
  <2>2. ItsTurn(g, k + 1)
    BY <2>1, NoneAssumption DEF IInv, BilledInTurn
  <2>3. (k + 1) - 1 = k
    BY Times
  <2> QED BY <2>2, <2>3 DEF ItsTurn
<1> QED BY <1>1, Invariance, PTL

-----------------------------------------------------------------------------
(* What is charged was shown *)

\* A handler about to make a payment charges a fee its invoice has shown.
ShownInv ==
  /\ \A i \in InvoiceIds : 0 \in shown[i] /\ invoices[i].lateFee \in shown[i]
  /\ \A r \in Requests : req[r].pc = "pay" => req[r].amount - Rent \in shown[req[r].invoice]
  /\ ChargesAreShown

\* Handler r is as it was, does not pay next, or will charge what the invoice shows by now.
ChargeKept(r) ==
  \/ req'[r] = req[r]
  \/ req'[r].pc # "pay"
  \/ /\ req'[r].invoice \in InvoiceIds
     /\ req'[r].amount - Rent \in {0, invoices[req'[r].invoice].lateFee,
                                  invoices'[req'[r].invoice].lateFee}

\* Payment p was there before the step, or charges what a handler was about to.
PaymentCharged(p) ==
  \/ payments'[p].status = "absent"
  \/ /\ payments[p].status # "absent"
     /\ payments'[p].invoice = payments[p].invoice
     /\ payments'[p].amount = payments[p].amount
  \/ \E r \in Requests : /\ req[r].pc = "pay"
                         /\ payments'[p].invoice = req[r].invoice
                         /\ payments'[p].amount = req[r].amount

LEMMA InitShown == HistoryInit => ShownInv
  BY DEF HistoryInit, Init, Idle, ShownInv, ChargesAreShown

LEMMA ShownStep ==
  ASSUME IInv, ShownInv,
         shown' = [i \in InvoiceIds |-> shown[i] \cup {invoices'[i].lateFee}],
         \A r \in Requests : ChargeKept(r), \A p \in PaymentIds : PaymentCharged(p)
  PROVE  ShownInv'
<1>1. \A i \in InvoiceIds : shown[i] \subseteq shown'[i] /\ invoices'[i].lateFee \in shown'[i]
  OBVIOUS
<1>2. \A r \in Requests : req[r].pc = "pay" => req[r].invoice \in InvoiceIds
  BY DEF IInv, HandlerOK, PaySteps, Stored
<1>3. \A i \in InvoiceIds : 0 \in shown'[i] /\ invoices[i].lateFee \in shown'[i]
  BY <1>1 DEF ShownInv
<1>4. ASSUME NEW r \in Requests, req'[r].pc = "pay"
      PROVE  req'[r].amount - Rent \in shown'[req'[r].invoice]
  <2>1. CASE req'[r] = req[r]
    BY <1>1, <1>2, <1>4, <2>1 DEF ShownInv
  <2>2. CASE req'[r] # req[r]
    BY <1>1, <1>3, <1>4, <2>2 DEF ChargeKept
  <2> QED BY <2>1, <2>2
<1>5. ASSUME NEW p \in PaymentIds, payments'[p].status # "absent"
      PROVE  payments'[p].amount - Rent \in shown'[payments'[p].invoice]
  <2>1. CASE payments[p].status # "absent" /\ payments'[p].invoice = payments[p].invoice
             /\ payments'[p].amount = payments[p].amount
    <3>1. payments[p].invoice \in InvoiceIds
      BY <2>1 DEF IInv, RowsWellFormed, Stored
    <3> QED BY <1>1, <2>1, <3>1 DEF ShownInv, ChargesAreShown
  <2>2. ASSUME NEW r \in Requests, req[r].pc = "pay", payments'[p].invoice = req[r].invoice,
               payments'[p].amount = req[r].amount
        PROVE  payments'[p].amount - Rent \in shown'[payments'[p].invoice]
    BY <1>1, <1>2, <2>2 DEF ShownInv
  <2> QED BY <1>5, <2>1, <2>2 DEF PaymentCharged
<1> QED BY <1>1, <1>3, <1>4, <1>5 DEF ShownInv, ChargesAreShown

\* The two steps after which a handler pays next, and the one in which it saves the fee before.
LEMMA ChargesComputed ==
  ASSUME IInv, NEW r \in Requests,
         \/ \E i \in InvoiceIds, online \in BOOLEAN : PayInvoice(r, i, online)
         \/ ReadLateFee(r) \/ SaveLateFee(r)
  PROVE  (\A s \in Requests : ChargeKept(s)) /\ payments' = payments
<1>0. /\ req \in [Requests -> Request] /\ Rent \in Nat /\ legacyFee \in Nat
      /\ req[r].pc \in PaySteps => req[r].invoice \in InvoiceIds
      /\ \A i \in InvoiceIds : invoices[i] \in Invoice
  BY FeeAssumption DEF IInv, TypeOK, HandlerOK, Stored
<1>1. ASSUME NEW i \in InvoiceIds, NEW online \in BOOLEAN, PayInvoice(r, i, online)
      PROVE  (\A s \in Requests : ChargeKept(s)) /\ payments' = payments
  <2>1. /\ req'[r].invoice = i /\ req'[r].amount = Rent + invoices[i].lateFee
        /\ \A s \in Requests \ {r} : req'[s] = req[s]
    BY <1>0, <1>1 DEF PayInvoice, Idle
  <2>2. invoices[i].lateFee \in Nat
    BY <1>0 DEF Invoice
  <2>3. req'[r].amount - Rent = invoices[i].lateFee
    BY <1>0, <2>1, <2>2
  <2> QED BY <1>1, <2>1, <2>3 DEF ChargeKept, PayInvoice
<1>2. CASE ReadLateFee(r)
  <2>1. /\ req'[r].invoice = req[r].invoice /\ req'[r].amount = Rent + legacyFee
        /\ req'[r].pc = "pay" => legacyFee = 0
        /\ \A s \in Requests \ {r} : req'[s] = req[s]
        /\ req[r].pc \in PaySteps
    BY <1>0, <1>2 DEF ReadLateFee, Request, PaySteps
  <2>2. req'[r].pc = "pay" => req'[r].amount - Rent = 0
    BY <1>0, <2>1
  <2> QED BY <1>0, <1>2, <2>1, <2>2 DEF ChargeKept, ReadLateFee
<1>3. CASE SaveLateFee(r)
  <2>1. /\ req'[r].invoice = req[r].invoice /\ req'[r].amount = req[r].amount
        /\ \A s \in Requests \ {r} : req'[s] = req[s]
        /\ req[r].pc \in PaySteps
    BY <1>0, <1>3 DEF SaveLateFee, Goto, Request, PaySteps
  <2>2. invoices'[req[r].invoice].lateFee = req[r].amount - Rent
    BY <1>0, <1>3, <2>1 DEF SaveLateFee, Invoice, IInv, TypeOK
  <2> QED BY <1>0, <1>3, <2>1, <2>2 DEF ChargeKept, SaveLateFee
<1> QED BY <1>1, <1>2, <1>3

\* The steps that make or change a payment.
LEMMA ChargesStored ==
  ASSUME IInv, NEW r \in Requests, NEW p \in PaymentIds,
         StartOnlinePayment(r, p) \/ SettleOffline(r, p) \/ SettleStubLedger(r)
  PROVE  (\A s \in Requests : ChargeKept(s)) /\ \A x \in PaymentIds : PaymentCharged(x)
<1>1. ASSUME NEW status, NewPayment(p, r, status), req[r].pc = "pay", Finish(r)
      PROVE  (\A s \in Requests : ChargeKept(s)) /\ \A x \in PaymentIds : PaymentCharged(x)
  <2>1. \A s \in Requests : ChargeKept(s)
    BY <1>1 DEF Finish, Idle, ChargeKept, IInv, TypeOK
  <2>2. /\ payments'[p].amount = req[r].amount /\ payments'[p].invoice = req[r].invoice
        /\ \A x \in PaymentIds \ {p} : payments'[x] = payments[x]
    BY <1>1 DEF NewPayment, IInv, TypeOK
  <2> QED BY <1>1, <2>1, <2>2 DEF PaymentCharged
<1>2. CASE SettleStubLedger(r)
  <2>1. \A s \in Requests : ChargeKept(s)
    BY <1>2 DEF SettleStubLedger, Finish, Goto, Idle, ChargeKept, IInv, TypeOK, Request
  <2>2. ASSUME NEW x \in PaymentIds PROVE PaymentCharged(x)
    <3>1. payments[x] \in PaymentRow
      BY DEF IInv, TypeOK
    <3>2. \/ payments'[x] = payments[x]
          \/ x = req[r].payment /\ payments[x].status = "requires_action"
             /\ payments'[x] = [payments[x] EXCEPT !.status = "settled"]
      BY <1>2 DEF SettleStubLedger, IInv, TypeOK
    <3>3. CASE payments'[x] = payments[x]
      BY <3>3 DEF PaymentCharged
    <3>4. CASE payments[x].status = "requires_action"
               /\ payments'[x] = [payments[x] EXCEPT !.status = "settled"]
      BY <3>1, <3>4 DEF PaymentCharged, PaymentRow
    <3> QED BY <3>2, <3>3, <3>4
  <2> QED BY <2>1, <2>2
<1> QED BY <1>1, <1>2 DEF StartOnlinePayment, SettleOffline

LEMMA ShownNext ==
  ASSUME IInv, [Next]_vars
  PROVE  (\A s \in Requests : ChargeKept(s)) /\ \A x \in PaymentIds : PaymentCharged(x)
<1>0. payments' = payments => \A x \in PaymentIds : PaymentCharged(x)
  BY DEF PaymentCharged
<1>1. CASE req' = req /\ payments' = payments
  BY <1>0, <1>1 DEF ChargeKept
<1>2. ASSUME NEW r \in Requests, NEW p \in PaymentIds,
             StartOnlinePayment(r, p) \/ SettleOffline(r, p)
      PROVE  (\A s \in Requests : ChargeKept(s)) /\ \A x \in PaymentIds : PaymentCharged(x)
  BY <1>2, ChargesStored
<1>3. ASSUME NEW r \in Requests, SettleStubLedger(r)
      PROVE  (\A s \in Requests : ChargeKept(s)) /\ \A x \in PaymentIds : PaymentCharged(x)
  <2>1. req[r].payment \in PaymentIds
    BY <1>3 DEF SettleStubLedger, IInv, HandlerOK, CompleteSteps
  <2> QED BY <1>3, <2>1, ChargesStored
<1>4. ASSUME NEW r \in Requests,
             \/ \E i \in InvoiceIds, online \in BOOLEAN : PayInvoice(r, i, online)
             \/ ReadLateFee(r) \/ SaveLateFee(r)
      PROVE  (\A s \in Requests : ChargeKept(s)) /\ \A x \in PaymentIds : PaymentCharged(x)
  BY <1>0, <1>4, ChargesComputed
<1>5. ASSUME NEW r \in Requests,
             \/ \E a \in Assets : CreateAgreement(r, a)
             \/ \E p \in PaymentIds : CompletePayment(r, p)
             \/ \E g \in AgreementIds, start \in Periods : SaveAgreement(r, g, start)
             \/ CheckInvoice(r) \/ MarkPaid(r)
      PROVE  (\A s \in Requests : ChargeKept(s)) /\ payments' = payments
  <2>1. req \in [Requests -> Request]
    BY DEF IInv, TypeOK
  <2>2. ASSUME Finish(r) PROVE \A s \in Requests : ChargeKept(s)
    BY <2>1, <2>2 DEF Finish, Idle, ChargeKept
  <2>3. ASSUME NEW a \in Assets, CreateAgreement(r, a)
        PROVE  (\A s \in Requests : ChargeKept(s)) /\ payments' = payments
    BY <2>1, <2>3 DEF CreateAgreement, Idle, ChargeKept
  <2>4. ASSUME NEW p \in PaymentIds, CompletePayment(r, p)
        PROVE  (\A s \in Requests : ChargeKept(s)) /\ payments' = payments
    BY <2>1, <2>4 DEF CompletePayment, Idle, ChargeKept
  <2>5. ASSUME CheckInvoice(r)
        PROVE  (\A s \in Requests : ChargeKept(s)) /\ payments' = payments
    BY <2>1, <2>2, <2>5 DEF CheckInvoice, Goto, Request, ChargeKept
  <2>6. ASSUME NEW g \in AgreementIds, NEW start \in Periods, SaveAgreement(r, g, start)
        PROVE  (\A s \in Requests : ChargeKept(s)) /\ payments' = payments
    BY <2>2, <2>6 DEF SaveAgreement
  <2>7. ASSUME MarkPaid(r) PROVE (\A s \in Requests : ChargeKept(s)) /\ payments' = payments
    BY <2>2, <2>7 DEF MarkPaid
  <2> QED BY <1>5, <2>3, <2>4, <2>5, <2>6, <2>7
<1>6. ASSUME NEW r \in Runs, Schedule(r) PROVE req' = req /\ payments' = payments
  BY <1>6 DEF Schedule, StartRun, CheckBill, InsertInvoice, ReadTenantFee, FindOverdue, FlipOverdue
<1>7. CASE UNCHANGED vars \/ Tick \/ UpdateLateFee \/ UpsertTenant
  BY <1>1, <1>7 DEF Tick, UpdateLateFee, UpsertTenant, vars
<1>8. ASSUME NEW r \in Requests, Call(r)
      PROVE  (\A s \in Requests : ChargeKept(s)) /\ \A x \in PaymentIds : PaymentCharged(x)
  BY <1>0, <1>4, <1>5, <1>8, Zenon DEF Call
<1>9. ASSUME NEW r \in Requests, Continue(r)
      PROVE  (\A s \in Requests : ChargeKept(s)) /\ \A x \in PaymentIds : PaymentCharged(x)
  BY <1>0, <1>2, <1>3, <1>4, <1>5, <1>9, Zenon DEF Continue
<1> QED BY <1>1, <1>6, <1>7, <1>8, <1>9 DEF Next

\* No payment charges a late fee that its invoice had not shown by then (applyLateFeeIfOverdue), for
\* any fees and any number of overlapping handlers and scheduler runs.
THEOREM ChargesAreShownHolds == HistorySpec => []ChargesAreShown
<1>1. HistoryInit => IInv /\ ShownInv
  BY InitInv, InitShown DEF HistoryInit
<1>2. IInv /\ ShownInv /\ [HistoryNext]_<<vars, shown>> => IInv' /\ ShownInv'
  <2> SUFFICES ASSUME IInv, ShownInv, [HistoryNext]_<<vars, shown>> PROVE IInv' /\ ShownInv'
    OBVIOUS
  <2>1. [Next]_vars
    BY DEF HistoryNext
  <2>2. ASSUME UNCHANGED <<vars, shown>> PROVE ShownInv'
    BY <2>2 DEF ShownInv, ChargesAreShown, vars
  <2>3. ASSUME HistoryNext PROVE ShownInv'
    BY <2>1, <2>3, ShownNext, ShownStep DEF HistoryNext
  <2> QED BY <2>1, <2>2, <2>3, NextInv
<1>3. ShownInv => ChargesAreShown
  BY DEF ShownInv
<1> QED BY <1>1, <1>2, <1>3, PTL DEF HistorySpec

-----------------------------------------------------------------------------
(* Why an invoice is paid twice *)

\* Run r will write a fee to invoice i.
Fining(r, i) == i \in run[r].found \/ (run[r].pc = "overdue" /\ run[r].invoice = i)

\* A handler that has found the invoice unpaid and not yet written it paid.
Paying(q) == (q.pc \in PaySteps /\ ~q.online) \/ q.pc \in {"settle", "mark_paid"}

\* No two handlers are paying one invoice, and no scheduler run is about to write an invoice
\* overdue that somebody is paying.
PaymentsApart ==
  \A r \in Requests : Paying(req[r]) =>
    /\ \A s \in Requests \ {r} : Paying(req[s]) => req[s].invoice # req[r].invoice
    /\ \A t \in Runs : ~Fining(t, req[r].invoice)

BeingMarked(i) == \E r \in Requests : req[r].pc = "mark_paid" /\ req[r].invoice = i

\* A collected invoice has one payment and is shown as paid or about to be; nobody is collecting
\* it again, and no run takes the mark back.
OnceInv ==
  /\ \A p, q \in PaymentIds, i \in InvoiceIds : Collected(p, i) /\ Collected(q, i) => p = q
  /\ \A p \in PaymentIds, i \in InvoiceIds :
       Collected(p, i) => invoices[i].status = "PAID" \/ BeingMarked(i)
  /\ \A r \in Requests, p \in PaymentIds, i \in InvoiceIds :
       Paying(req[r]) /\ req[r].pc # "mark_paid" /\ req[r].invoice = i => ~Collected(p, i)
  /\ \A t \in Runs, i \in InvoiceIds : Fining(t, i) => invoices[i].status # "PAID"

LEMMA InitOnce == Init => OnceInv
<1> SUFFICES ASSUME Init PROVE OnceInv
  OBVIOUS
<1>1. /\ \A p \in PaymentIds : payments[p].status = "absent"
      /\ \A r \in Requests : req[r].pc = "idle"
      /\ \A t \in Runs : run[t].found = {} /\ run[t].pc = "idle"
  BY DEF Init, Idle, NoRun
<1> QED BY <1>1 DEF OnceInv, Collected, Paying, PaySteps, Fining

\* Steps of the scheduler: a run turns only to pending invoices, and what it writes overdue is
\* not being paid.
LEMMA OnceRun ==
  ASSUME IInv, OnceInv, UNCHANGED <<payments, req>>,
         \A t \in Runs, i \in InvoiceIds :
           Fining(t, i)' => Fining(t, i) \/ invoices[i].status = "PENDING",
         \A i \in InvoiceIds :
           \/ invoices'[i].status = invoices[i].status
           \/ invoices[i].status # "PAID" /\ invoices'[i].status # "PAID"
  PROVE  OnceInv'
<1>1. \A p \in PaymentIds, i \in InvoiceIds : Collected(p, i)' <=> Collected(p, i)
  BY DEF Collected
<1>2. \A i \in InvoiceIds : BeingMarked(i)' <=> BeingMarked(i)
  BY DEF BeingMarked
<1>3. \A r \in Requests : Paying(req[r])' <=> Paying(req[r])
  BY DEF Paying
<1> QED BY <1>1, <1>2, <1>3 DEF OnceInv

LEMMA OnceSchedule ==
  ASSUME IInv, OnceInv, NEW t \in Runs, Schedule(t)
  PROVE  OnceInv'
<1>1. run[t] \in Run /\ run \in [Runs -> Run] /\ invoices \in [InvoiceIds -> Invoice]
  BY DEF IInv, TypeOK
<1>2. CASE StartRun(t)
  <2>1. /\ UNCHANGED <<invoices, payments, req>>
        /\ run'[t].pc = "bill" /\ run'[t].found = {} /\ \A s \in Runs \ {t} : run'[s] = run[s]
    BY <1>1, <1>2 DEF StartRun, NoRun
  <2> QED BY <2>1, OnceRun DEF Fining
<1>3. ASSUME NEW bill \in run[t].todo, CheckBill(t, bill) PROVE OnceInv'
  <2>1. /\ UNCHANGED <<invoices, payments, req>>
        /\ run'[t].pc # "overdue" /\ run'[t].found = run[t].found
        /\ \A s \in Runs \ {t} : run'[s] = run[s]
    BY <1>1, <1>3 DEF CheckBill, Run
  <2> QED BY <2>1, OnceRun DEF Fining
<1>4. ASSUME NEW i \in InvoiceIds, InsertInvoice(t, i) PROVE OnceInv'
  <2>1. /\ UNCHANGED <<payments, req>> /\ run'[t].pc = "bill" /\ run'[t].found = run[t].found
        /\ \A s \in Runs \ {t} : run'[s] = run[s]
    BY <1>1, <1>4 DEF InsertInvoice, Run
  <2>2. /\ invoices[i].status = "absent" /\ invoices'[i].status = "PENDING"
        /\ \A j \in InvoiceIds \ {i} : invoices'[j] = invoices[j]
    BY <1>1, <1>4 DEF InsertInvoice
  <2> QED BY <2>1, <2>2, OnceRun DEF Fining
<1>5. ASSUME NEW i \in InvoiceIds, ReadTenantFee(t, i) PROVE OnceInv'
  <2>1. /\ UNCHANGED <<invoices, payments, req>> /\ i \in run[t].found
        /\ run'[t].invoice = i /\ run'[t].found = run[t].found \ {i}
        /\ \A s \in Runs \ {t} : run'[s] = run[s]
    BY <1>1, <1>5 DEF ReadTenantFee, Run
  <2> QED BY <2>1, OnceRun DEF Fining
<1>6. CASE FindOverdue(t)
  <2>1. /\ UNCHANGED <<invoices, payments, req>> /\ \A s \in Runs \ {t} : run'[s] = run[s]
        /\ run'[t].pc # "overdue"
        /\ \A i \in run'[t].found : i \in InvoiceIds /\ invoices[i].status = "PENDING"
    BY <1>1, <1>6 DEF FindOverdue, NoRun, Run
  <2> QED BY <2>1, OnceRun DEF Fining
<1>7. CASE FlipOverdue(t)
  <2>1. PICK i \in InvoiceIds : i = run[t].invoice
    BY <1>7 DEF FlipOverdue, IInv, RunOK, Stored
  <2>2. invoices[i].status # "PAID"
    BY <1>7, <2>1 DEF FlipOverdue, OnceInv, Fining
  <2>3. invoices'[i].status = "OVERDUE" /\ \A j \in InvoiceIds \ {i} : invoices'[j] = invoices[j]
    BY <1>1, <1>7, <2>1 DEF FlipOverdue, Invoice
  <2>4. /\ UNCHANGED <<payments, req>> /\ \A s \in Runs \ {t} : run'[s] = run[s]
        /\ run'[t].pc # "overdue" /\ run'[t].found \subseteq run[t].found
    BY <1>1, <1>7 DEF FlipOverdue, NoRun, Run
  <2> QED BY <2>2, <2>3, <2>4, OnceRun DEF Fining
<1> QED BY <1>2, <1>3, <1>4, <1>5, <1>6, <1>7 DEF Schedule

\* A handler that collects nothing and writes no status: if it is about to pay now, it was
\* before or sees an invoice that is not paid.
LEMMA OnceHandler ==
  ASSUME IInv, IInv', OnceInv, PaymentsApart', NEW r \in Requests, req[r].pc # "mark_paid",
         \A s \in Requests \ {r} : req'[s] = req[s], run' = run,
         \A p \in PaymentIds, i \in InvoiceIds : Collected(p, i)' => Collected(p, i),
         \A i \in InvoiceIds : invoices'[i].status = invoices[i].status,
         Paying(req'[r]) => req'[r].pc # "mark_paid" /\ req'[r].invoice \in InvoiceIds,
         Paying(req'[r]) => \/ Paying(req[r]) /\ req'[r].invoice = req[r].invoice
                            \/ invoices[req'[r].invoice].status # "PAID"
  PROVE  OnceInv'
<1>1. \A i \in InvoiceIds : BeingMarked(i) => BeingMarked(i)'
  BY DEF BeingMarked
<1>2. \A p \in PaymentIds, i \in InvoiceIds :
        Collected(p, i)' => invoices'[i].status = "PAID" \/ BeingMarked(i)'
  BY <1>1 DEF OnceInv
<1>3. ASSUME NEW s \in Requests, NEW p \in PaymentIds, NEW i \in InvoiceIds,
             Paying(req'[s]), req'[s].pc # "mark_paid", req'[s].invoice = i, Collected(p, i)'
      PROVE  FALSE
  <2>1. Collected(p, i)
    BY <1>3
  <2>2. CASE s # r \/ (Paying(req[r]) /\ req'[r].invoice = req[r].invoice)
    <3>1. Paying(req[s]) /\ req[s].pc # "mark_paid" /\ req[s].invoice = i
      BY <1>3, <2>2
    <3> QED BY <2>1, <3>1 DEF OnceInv
  <2>3. CASE s = r /\ invoices[i].status # "PAID"
    <3>1. PICK x \in Requests : req[x].pc = "mark_paid" /\ req[x].invoice = i
      BY <2>1, <2>3 DEF OnceInv, BeingMarked
    <3>2. x \in Requests \ {r} /\ req'[x] = req[x]
      BY <3>1
    <3>3. Paying(req'[x]) /\ req'[x].invoice = i
      BY <3>1, <3>2 DEF Paying
    <3>4. Paying(req'[r]) =>
            \A y \in Requests \ {r} : Paying(req'[y]) => req'[y].invoice # req'[r].invoice
      BY DEF PaymentsApart, Paying
    <3> QED BY <1>3, <2>3, <3>2, <3>3, <3>4
  <2> QED BY <1>3, <2>2, <2>3
<1>4. \A t \in Runs, i \in InvoiceIds : Fining(t, i)' => invoices'[i].status # "PAID"
  BY DEF OnceInv, Fining
<1>5. \A p, q \in PaymentIds, i \in InvoiceIds : Collected(p, i)' /\ Collected(q, i)' => p = q
  BY DEF OnceInv
<1> QED BY <1>2, <1>3, <1>4, <1>5 DEF OnceInv, Paying

\* A handler that settles payment p of invoice i, or marks i as paid after it did: nobody else is
\* paying i and no run is about to write it.
LEMMA OnceCollected ==
  ASSUME IInv, OnceInv, PaymentsApart, NEW r \in Requests, Paying(req[r]), run' = run,
         \A s \in Requests \ {r} : req'[s] = req[s],
         NEW i \in InvoiceIds, i = req[r].invoice, NEW p \in PaymentIds,
         req[r].pc = "mark_paid" => Collected(p, i),
         payments'[p].invoice = i, \A q \in PaymentIds \ {p} : payments'[q] = payments[q],
         \/ invoices'[i].status = "PAID"
         \/ req'[r].pc = "mark_paid" /\ req'[r].invoice = i,
         Paying(req'[r]) => req'[r].pc = "mark_paid",
         \A j \in InvoiceIds \ {i} : invoices'[j] = invoices[j]
  PROVE  OnceInv'
<1>1. \A s \in Requests \ {r} : Paying(req[s]) => req[s].invoice # i
  BY DEF PaymentsApart
<1>2. \A t \in Runs : ~Fining(t, i)
  BY DEF PaymentsApart
<1>3. \A q \in PaymentIds, j \in InvoiceIds : j # i /\ Collected(q, j)' => Collected(q, j)
  BY DEF Collected
<1>4. \A q \in PaymentIds : Collected(q, i)' => q = p
  <2>1. \A q \in PaymentIds \ {p} : Collected(q, i)' => Collected(q, i)
    BY DEF Collected
  <2>2. \A q \in PaymentIds \ {p} : ~Collected(q, i)
    BY DEF OnceInv
  <2> QED BY <2>1, <2>2
<1>5. \A q, x \in PaymentIds, j \in InvoiceIds : Collected(q, j)' /\ Collected(x, j)' => q = x
  BY <1>3, <1>4 DEF OnceInv
<1>6. ASSUME NEW j \in InvoiceIds, NEW q \in PaymentIds, Collected(q, j)'
      PROVE  invoices'[j].status = "PAID" \/ BeingMarked(j)'
  <2>1. CASE j = i
    BY <2>1 DEF BeingMarked
  <2>2. CASE j # i
    <3>1. invoices[j].status = "PAID" \/ BeingMarked(j)
      BY <1>3, <1>6, <2>2 DEF OnceInv
    <3>2. BeingMarked(j) => BeingMarked(j)'
      BY <2>2 DEF BeingMarked
    <3> QED BY <2>2, <3>1, <3>2
  <2> QED BY <2>1, <2>2
<1>7. ASSUME NEW s \in Requests, NEW q \in PaymentIds, NEW j \in InvoiceIds,
             Paying(req'[s]), req'[s].pc # "mark_paid", req'[s].invoice = j, Collected(q, j)'
      PROVE  FALSE
  <2>1. s \in Requests \ {r} /\ req'[s] = req[s]
    BY <1>7
  <2>2. Paying(req[s]) /\ req[s].pc # "mark_paid" /\ req[s].invoice = j /\ j # i
    BY <1>1, <1>7, <2>1
  <2>3. Collected(q, j)
    BY <1>3, <1>7, <2>2
  <2> QED BY <2>2, <2>3 DEF OnceInv
<1>8. \A t \in Runs, j \in InvoiceIds : Fining(t, j)' => invoices'[j].status # "PAID"
  <2>1. \A t \in Runs, j \in InvoiceIds : Fining(t, j)' <=> Fining(t, j)
    BY DEF Fining
  <2> QED BY <1>2, <2>1 DEF OnceInv
<1> QED BY <1>5, <1>6, <1>7, <1>8 DEF OnceInv, Paying

LEMMA OnceNext ==
  ASSUME IInv, IInv', OnceInv, PaymentsApart, PaymentsApart', [Next]_vars
  PROVE  OnceInv'
<1>1. /\ req \in [Requests -> Request] /\ invoices \in [InvoiceIds -> Invoice]
      /\ payments \in [PaymentIds -> PaymentRow]
  BY DEF IInv, TypeOK
<1>2. CASE UNCHANGED vars \/ Tick \/ UpdateLateFee \/ UpsertTenant
  BY <1>2, OnceRun DEF vars, Tick, UpdateLateFee, UpsertTenant, Fining
<1>3. ASSUME NEW t \in Runs, Schedule(t) PROVE OnceInv'
  BY <1>3, OnceSchedule
<1>4. ASSUME NEW r \in Requests, Finish(r), req[r].pc # "mark_paid", UNCHANGED <<invoices, run>>,
             \A p \in PaymentIds, i \in InvoiceIds : Collected(p, i)' => Collected(p, i)
      PROVE  OnceInv'
  <2>1. req'[r] = Idle /\ \A s \in Requests \ {r} : req'[s] = req[s]
    BY <1>1, <1>4 DEF Finish
  <2>2. ~Paying(req'[r])
    BY <2>1 DEF Paying, PaySteps, Idle
  <2> QED BY <1>4, <2>1, <2>2, OnceHandler
<1>5. ASSUME NEW r \in Requests, UNCHANGED <<invoices, payments, run>>, req[r].pc # "mark_paid",
             NEW q, req' = [req EXCEPT ![r] = q],
             q.pc \notin PaySteps \cup {"settle", "mark_paid"}
      PROVE  OnceInv'
  <2>1. req'[r] = q /\ \A s \in Requests \ {r} : req'[s] = req[s]
    BY <1>1, <1>5
  <2>2. ~Paying(req'[r])
    BY <1>5, <2>1 DEF Paying
  <2>3. \A p \in PaymentIds, i \in InvoiceIds : Collected(p, i)' => Collected(p, i)
    BY <1>5 DEF Collected
  <2> QED BY <1>5, <2>1, <2>2, <2>3, OnceHandler
<1>6. ASSUME NEW r \in Requests, NEW a \in Assets, CreateAgreement(r, a) PROVE OnceInv'
  <2>1. PICK q : q = [Idle EXCEPT !.pc = "sign", !.asset = a]
    OBVIOUS
  <2>2. q.pc = "sign"
    BY <2>1 DEF Idle
  <2> QED BY <1>5, <1>6, <2>1, <2>2 DEF CreateAgreement, PaySteps
<1>7. ASSUME NEW r \in Requests, NEW i \in InvoiceIds, NEW online \in BOOLEAN,
             PayInvoice(r, i, online)
      PROVE  OnceInv'
  <2>1. /\ req'[r].invoice = i /\ req'[r].pc \in {"late_fee", "pay"}
        /\ \A s \in Requests \ {r} : req'[s] = req[s]
    BY <1>1, <1>7 DEF PayInvoice, Idle
  <2>2. /\ req[r].pc = "idle" /\ invoices[i].status # "PAID"
        /\ UNCHANGED <<invoices, payments, run>>
    BY <1>7 DEF PayInvoice
  <2>3. \A p \in PaymentIds, j \in InvoiceIds : Collected(p, j)' => Collected(p, j)
    BY <2>2 DEF Collected
  <2> QED BY <2>1, <2>2, <2>3, OnceHandler
<1>8. ASSUME NEW r \in Requests, NEW p \in PaymentIds, CompletePayment(r, p) PROVE OnceInv'
  <2>1. PICK q : q = [Idle EXCEPT !.pc = "check_invoice", !.payment = p, !.invoice = payments[p].invoice]
    OBVIOUS
  <2>2. q.pc = "check_invoice"
    BY <2>1 DEF Idle
  <2> QED BY <1>5, <1>8, <2>1, <2>2 DEF CompletePayment, PaySteps
<1>9. ASSUME NEW r \in Requests, NEW g \in AgreementIds, NEW start \in Periods,
             SaveAgreement(r, g, start)
      PROVE  OnceInv'
  BY <1>4, <1>9 DEF SaveAgreement, Collected
<1>10. ASSUME NEW r \in Requests, ReadLateFee(r) \/ SaveLateFee(r) PROVE OnceInv'
  <2>1. /\ req[r].pc \in {"late_fee", "save_fee"} /\ UNCHANGED <<payments, run>>
        /\ req'[r].pc \in {"save_fee", "pay"}
        /\ req'[r].invoice = req[r].invoice /\ req'[r].online = req[r].online
        /\ \A s \in Requests \ {r} : req'[s] = req[s]
    BY <1>1, <1>10 DEF ReadLateFee, SaveLateFee, Goto, Request
  <2>2. req[r].invoice \in InvoiceIds
    BY <2>1 DEF IInv, HandlerOK, PaySteps, Stored
  <2>3. \A i \in InvoiceIds : invoices'[i].status = invoices[i].status
    BY <1>1, <1>10, <2>2 DEF ReadLateFee, SaveLateFee, Invoice
  <2>4. \A p \in PaymentIds, i \in InvoiceIds : Collected(p, i)' => Collected(p, i)
    BY <2>1 DEF Collected
  <2>5. Paying(req'[r]) => Paying(req[r])
    BY <2>1 DEF Paying, PaySteps
  <2> QED BY <2>1, <2>2, <2>3, <2>4, <2>5, OnceHandler
<1>11. ASSUME NEW r \in Requests, NEW p \in PaymentIds, StartOnlinePayment(r, p) PROVE OnceInv'
  <2>1. /\ payments'[p].status = "requires_action"
        /\ \A q \in PaymentIds \ {p} : payments'[q] = payments[q]
    BY <1>1, <1>11 DEF StartOnlinePayment, NewPayment
  <2>2. \A q \in PaymentIds, i \in InvoiceIds : Collected(q, i)' => Collected(q, i)
    BY <2>1 DEF Collected
  <2> QED BY <1>4, <1>11, <2>2 DEF StartOnlinePayment
<1>12. ASSUME NEW r \in Requests, NEW p \in PaymentIds, SettleOffline(r, p) PROVE OnceInv'
  <2>1. PICK i \in InvoiceIds : i = req[r].invoice
    BY <1>12 DEF SettleOffline, IInv, HandlerOK, PaySteps, Stored
  <2>2. /\ payments'[p].invoice = i /\ \A q \in PaymentIds \ {p} : payments'[q] = payments[q]
    BY <1>1, <1>12, <2>1 DEF SettleOffline, NewPayment
  <2>3. invoices'[i].status = "PAID" /\ \A j \in InvoiceIds \ {i} : invoices'[j] = invoices[j]
    BY <1>1, <1>12, <2>1 DEF SettleOffline, Invoice
  <2>4. req'[r] = Idle /\ \A s \in Requests \ {r} : req'[s] = req[s]
    BY <1>1, <1>12 DEF SettleOffline, Finish
  <2>5. Paying(req[r]) /\ req[r].pc # "mark_paid" /\ ~Paying(req'[r]) /\ run' = run
    BY <1>12, <2>4 DEF SettleOffline, Paying, PaySteps, Idle
  <2> QED BY <2>1, <2>2, <2>3, <2>4, <2>5, OnceCollected
<1>13. ASSUME NEW r \in Requests, CheckInvoice(r) PROVE OnceInv'
  <2>1. /\ req[r].pc = "check_invoice" /\ req[r].invoice \in InvoiceIds
        /\ UNCHANGED <<invoices, payments, run>>
    BY <1>13 DEF CheckInvoice, IInv, HandlerOK, CompleteSteps, Stored
  <2>2. \A p \in PaymentIds, i \in InvoiceIds : Collected(p, i)' => Collected(p, i)
    BY <2>1 DEF Collected
  <2>3. CASE Finish(r)
    BY <1>4, <2>1, <2>2, <2>3
  <2>4. CASE Goto(r, "settle") /\ invoices[req[r].invoice].status # "PAID"
    <3>1. /\ req'[r].pc = "settle" /\ req'[r].invoice = req[r].invoice
          /\ \A s \in Requests \ {r} : req'[s] = req[s]
      BY <1>1, <2>4 DEF Goto, Request
    <3> QED BY <2>1, <2>2, <2>4, <3>1, OnceHandler
  <2> QED BY <1>13, <2>3, <2>4 DEF CheckInvoice
<1>14. ASSUME NEW r \in Requests, SettleStubLedger(r) PROVE OnceInv'
  <2>1. PICK i \in InvoiceIds : i = req[r].invoice
    BY <1>14 DEF SettleStubLedger, IInv, HandlerOK, CompleteSteps, Stored
  <2>2. PICK p \in PaymentIds : p = req[r].payment /\ payments[p].invoice = i
    BY <1>14, <2>1 DEF SettleStubLedger, IInv, HandlerOK, CompleteSteps
  <2>3. req[r].pc = "settle" /\ UNCHANGED <<invoices, run>>
    BY <1>14 DEF SettleStubLedger
  <2>4. CASE payments[p].status = "requires_action"
    <3>1. /\ payments'[p].invoice = i /\ \A q \in PaymentIds \ {p} : payments'[q] = payments[q]
      BY <1>1, <1>14, <2>2, <2>4 DEF SettleStubLedger, PaymentRow
    <3>2. /\ req'[r].pc = "mark_paid" /\ req'[r].invoice = i
          /\ \A s \in Requests \ {r} : req'[s] = req[s]
      BY <1>1, <1>14, <2>1, <2>2, <2>4 DEF SettleStubLedger, Goto, Request
    <3>3. Paying(req[r])
      BY <2>3 DEF Paying
    <3> QED BY <2>1, <2>3, <3>1, <3>2, <3>3, OnceCollected
  <2>5. CASE payments[p].status # "requires_action"
    <3>1. Finish(r) /\ payments' = payments
      BY <1>14, <2>2, <2>5 DEF SettleStubLedger
    <3>2. \A q \in PaymentIds, j \in InvoiceIds : Collected(q, j)' => Collected(q, j)
      BY <3>1 DEF Collected
    <3> QED BY <1>4, <2>3, <3>1, <3>2
  <2> QED BY <2>4, <2>5
<1>15. ASSUME NEW r \in Requests, MarkPaid(r) PROVE OnceInv'
  <2>1. PICK i \in InvoiceIds : i = req[r].invoice
    BY <1>15 DEF MarkPaid, IInv, HandlerOK, CompleteSteps, Stored
  <2>2. PICK p \in PaymentIds : p = req[r].payment /\ Collected(p, i)
    BY <1>15, <2>1 DEF MarkPaid, IInv, HandlerOK, CompleteSteps, Collected
  <2>3. invoices'[i].status = "PAID" /\ \A j \in InvoiceIds \ {i} : invoices'[j] = invoices[j]
    BY <1>1, <1>15, <2>1 DEF MarkPaid, Invoice
  <2>4. req'[r] = Idle /\ \A s \in Requests \ {r} : req'[s] = req[s]
    BY <1>1, <1>15 DEF MarkPaid, Finish
  <2>5. Paying(req[r]) /\ ~Paying(req'[r]) /\ UNCHANGED <<run, payments>>
    BY <1>15, <2>4 DEF MarkPaid, Paying, PaySteps, Idle
  <2>6. payments'[p].invoice = i
    BY <2>2, <2>5 DEF Collected
  <2> QED BY <2>1, <2>2, <2>3, <2>4, <2>5, <2>6, OnceCollected
<1>16. ASSUME NEW r \in Requests, Call(r) PROVE OnceInv'
  BY <1>6, <1>7, <1>8, <1>16 DEF Call
<1>17. ASSUME NEW r \in Requests, Continue(r) PROVE OnceInv'
  BY <1>9, <1>10, <1>11, <1>12, <1>13, <1>14, <1>15, <1>17 DEF Continue
<1> QED BY <1>2, <1>3, <1>16, <1>17 DEF Next

\* An invoice is collected twice only when one payment of it is under way while another one, or a
\* run of the scheduler that has found it overdue, is about to write it (settleOffline,
\* completeLeaseStubPayment, runOnce): however many online payments of it were opened before.
THEOREM InvoicePaidOnceWhenApart == Spec /\ []PaymentsApart => []InvoicePaidOnce
<1>1. ASSUME OnceInv, NEW i \in InvoiceIds
      PROVE  Cardinality({p \in PaymentIds : Collected(p, i)}) <= 1
  <2> DEFINE paid == {p \in PaymentIds : Collected(p, i)}
  <2>1. CASE paid = {}
    BY <2>1, FS_EmptySet
  <2>2. CASE paid # {}
    <3>1. PICK p : p \in paid
      BY <2>2
    <3>2. paid = {p}
      BY <1>1, <3>1 DEF OnceInv
    <3>3. Cardinality({p}) = 1
      BY FS_Singleton
    <3> QED BY <3>2, <3>3
  <2> QED BY <2>1, <2>2
<1>2. OnceInv => InvoicePaidOnce
  BY <1>1 DEF InvoicePaidOnce
<1>3. IInv /\ IInv' /\ OnceInv /\ PaymentsApart /\ PaymentsApart' /\ [Next]_vars => OnceInv'
  BY OnceNext
<1> QED BY <1>2, <1>3, InitOnce, Invariance, PTL DEF Spec
=============================================================================
