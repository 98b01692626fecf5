------------------------------- MODULE Leases -------------------------------
(***************************************************************************)
(* Long leases of municipal assets: agreements (RentalAssetsService), the   *)
(* daily scheduler that bills them and marks what is overdue                *)
(* (LeaseSchedulerService), and the payment of an invoice at the desk or    *)
(* online (LeaseInvoicesService, PaymentsService.completeLeaseStubPayment). *)
(*                                                                         *)
(* Scheduler and handlers read an invoice, decide, and later write it by    *)
(* its id alone; no index stands behind them.  An agreement is active for   *)
(* good: nothing in the code ends it.  Settling a payment is one atomic     *)
(* step: Payments models it and proves that it happens once.                *)
(*                                                                         *)
(* Time is counted in half periods: invoices for period k may be made from  *)
(* 2k-1 on, a week ahead of its start, and are overdue from 2k on.          *)
(***************************************************************************)
EXTENDS Integers, FiniteSets

CONSTANTS
  Assets,
  AgreementIds,
  InvoiceIds,
  PaymentIds,
  Runs,          \* scheduler runs that can be in flight at one time
  Requests,      \* handlers that can be in flight at one time
  Rent,          \* baseLeaseRatePaise
  ColumnFees,    \* what tenants.late_fee_paise may be
  LegacyFees,    \* what rentalLateFee of tenants.config may charge, 0 while it is disabled
  LastPeriod,    \* bound: time stops when invoices for this period may be made
  None

ASSUME FeeAssumption ==
  /\ Rent \in Nat \ {0}
  /\ ColumnFees \subseteq Nat /\ 0 \in ColumnFees
  /\ LegacyFees \subseteq Nat /\ 0 \in LegacyFees
ASSUME PeriodAssumption == LastPeriod \in Nat \ {0}
ASSUME NoneAssumption == None \notin Assets \cup AgreementIds \cup InvoiceIds

Periods == 1..LastPeriod

Agreement == [asset : Assets \cup {None}, start : Periods]      \* absent when the asset is None

Invoice == [status    : {"absent", "PENDING", "PAID", "OVERDUE"},
            agreement : AgreementIds \cup {None},
            period    : Nat,
            lateFee   : Nat]

PaymentRow == [status  : {"absent", "requires_action", "settled", "succeeded"},
               invoice : InvoiceIds \cup {None},
               amount  : Nat]

\* A scheduler run: the bills it found missing and the one it is about to make, the invoices it
\* found overdue, the one it is about to write with its fee, and the time the run was called.
Run == [pc      : {"idle", "bill", "insert", "flip", "overdue"},
        todo    : SUBSET (AgreementIds \X Nat),
        bill    : (AgreementIds \X Nat) \cup {None},
        found   : SUBSET InvoiceIds,
        invoice : InvoiceIds \cup {None},
        fee     : Nat,
        time    : Nat]

Request == [pc : {"idle", "sign", "late_fee", "save_fee", "pay", "check_invoice", "settle", "mark_paid"},
            asset   : Assets \cup {None},
            invoice : InvoiceIds \cup {None},
            online  : BOOLEAN,
            amount  : Nat,
            payment : PaymentIds \cup {None}]

VARIABLES
  assets,       \* status of each rental asset
  agreements,   \* the lease_agreements table
  invoices,     \* the lease_invoices table
  payments,     \* payments with a lease_invoice_id
  columnFee,    \* late_fee_paise of the tenant
  legacyFee,    \* what its rentalLateFee charges
  now,          \* (bound) half periods gone by
  run,          \* the scheduler runs in flight
  req           \* the handlers in flight

vars == <<assets, agreements, invoices, payments, columnFee, legacyFee, now, run, req>>

TypeOK ==
  /\ assets \in [Assets -> {"AVAILABLE", "RENTED"}]
  /\ agreements \in [AgreementIds -> Agreement]
  /\ invoices \in [InvoiceIds -> Invoice]
  /\ payments \in [PaymentIds -> PaymentRow]
  /\ columnFee \in ColumnFees
  /\ legacyFee \in LegacyFees
  /\ now \in 0..2 * LastPeriod - 1
  /\ run \in [Runs -> Run]
  /\ req \in [Requests -> Request]

NoRun == [pc |-> "idle", todo |-> {}, bill |-> None, found |-> {}, invoice |-> None, fee |-> 0,
          time |-> 0]
Idle  == [pc |-> "idle", asset |-> None, invoice |-> None, online |-> FALSE, amount |-> 0,
          payment |-> None]

Init ==
  /\ assets = [a \in Assets |-> "AVAILABLE"]
  /\ agreements = [g \in AgreementIds |-> [asset |-> None, start |-> 1]]
  /\ invoices = [i \in InvoiceIds |->
                   [status |-> "absent", agreement |-> None, period |-> 0, lateFee |-> 0]]
  /\ payments = [p \in PaymentIds |-> [status |-> "absent", invoice |-> None, amount |-> 0]]
  /\ columnFee = 0
  /\ legacyFee = 0
  /\ now = 0
  /\ run = [r \in Runs |-> NoRun]
  /\ req = [r \in Requests |-> Idle]

Finish(r)     == req' = [req EXCEPT ![r] = Idle]
Goto(r, step) == req' = [req EXCEPT ![r].pc = step]

-----------------------------------------------------------------------------
(* createAgreement: one transaction that reads the asset, then writes. *)

CreateAgreement(r, a) ==
  /\ req[r].pc = "idle"
  /\ assets[a] = "AVAILABLE"
  /\ req' = [req EXCEPT ![r] = [Idle EXCEPT !.pc = "sign", !.asset = a]]
  /\ UNCHANGED <<assets, agreements, invoices, payments, columnFee, legacyFee, now, run>>

SaveAgreement(r, g, start) ==
  /\ req[r].pc = "sign"
  /\ agreements[g].asset = None
  /\ agreements' = [agreements EXCEPT ![g] = [asset |-> req[r].asset, start |-> start]]
  /\ assets' = [assets EXCEPT ![req[r].asset] = "RENTED"]
  /\ Finish(r)
  /\ UNCHANGED <<invoices, payments, columnFee, legacyFee, now, run>>

-----------------------------------------------------------------------------
(* LeaseSchedulerService.runOnce *)

Bills(g) == {i \in InvoiceIds : invoices[i].agreement = g}
Billed(g, k) == \E i \in Bills(g) : invoices[i].period = k

\* The period after the last one billed, the first one for a new agreement.  Mutant: the period
\* that is to start next, whatever was billed before.
PeriodAhead(g) == IF now \div 2 + 1 > agreements[g].start THEN now \div 2 + 1 ELSE agreements[g].start

NextPeriod(g) ==
  IF Bills(g) = {} THEN agreements[g].start
  ELSE 1 + (CHOOSE k \in {invoices[i].period : i \in Bills(g)} :
              \A i \in Bills(g) : invoices[i].period <= k)

\* One query reads every agreement with its last invoice.
StartRun(r) ==
  /\ run[r].pc = "idle"
  /\ run' = [run EXCEPT ![r] = [NoRun EXCEPT !.pc = "bill", !.time = now,
               !.todo = {<<g, NextPeriod(g)>> : g \in {h \in AgreementIds :
                           agreements[h].asset # None /\ 2 * NextPeriod(h) - 1 <= now}}]]
  /\ UNCHANGED <<assets, agreements, invoices, payments, columnFee, legacyFee, now, req>>

\* For each agreement in turn: is there an invoice of that period already?
CheckBill(r, bill) ==
  /\ run[r].pc = "bill"
  /\ bill \in run[r].todo
  /\ IF Billed(bill[1], bill[2])
     THEN run' = [run EXCEPT ![r].todo = @ \ {bill}]
     ELSE run' = [run EXCEPT ![r].pc = "insert", ![r].todo = @ \ {bill}, ![r].bill = bill]
  /\ UNCHANGED <<assets, agreements, invoices, payments, columnFee, legacyFee, now, req>>

InsertInvoice(r, i) ==
  /\ run[r].pc = "insert"
  /\ invoices[i].status = "absent"
  /\ invoices' = [invoices EXCEPT ![i] = [status |-> "PENDING", agreement |-> run[r].bill[1],
                                          period |-> run[r].bill[2], lateFee |-> 0]]
  /\ run' = [run EXCEPT ![r].pc = "bill", ![r].bill = None]
  /\ UNCHANGED <<assets, agreements, payments, columnFee, legacyFee, now, req>>

FindOverdue(r) ==
  LET found == {i \in InvoiceIds : /\ invoices[i].status = "PENDING"
                                   /\ 2 * invoices[i].period <= run[r].time}
  IN /\ run[r].pc = "bill" /\ run[r].todo = {}
     /\ run' = [run EXCEPT ![r] = IF found = {} THEN NoRun
                                  ELSE [@ EXCEPT !.pc = "flip", !.found = found]]
     /\ UNCHANGED <<assets, agreements, invoices, payments, columnFee, legacyFee, now, req>>

\* For each of them in turn, the tenant's fee: the column, or else the configuration.
ReadTenantFee(r, i) ==
  /\ run[r].pc = "flip"
  /\ i \in run[r].found
  /\ run' = [run EXCEPT ![r].pc = "overdue", ![r].found = @ \ {i}, ![r].invoice = i,
                        ![r].fee = IF columnFee = 0 THEN legacyFee ELSE columnFee]
  /\ UNCHANGED <<assets, agreements, invoices, payments, columnFee, legacyFee, now, req>>

\* Written whatever the invoice has become since it was found.
FlipOverdue(r) ==
  /\ run[r].pc = "overdue"
  /\ invoices' = [invoices EXCEPT ![run[r].invoice].status = "OVERDUE",
                                  ![run[r].invoice].lateFee = run[r].fee]
  /\ run' = [run EXCEPT ![r] = IF run[r].found = {} THEN NoRun
                               ELSE [@ EXCEPT !.pc = "flip", !.invoice = None, !.fee = 0]]
  /\ UNCHANGED <<assets, agreements, payments, columnFee, legacyFee, now, req>>

-----------------------------------------------------------------------------
(* recordPayment and citizenPayOnline *)

\* The amount is fixed by the invoice as it was read; an overdue one without a fee gets it first.
PayInvoice(r, i, online) ==
  /\ req[r].pc = "idle"
  /\ invoices[i].status \in {"PENDING", "OVERDUE"}
  /\ LET late == invoices[i].status = "OVERDUE" /\ invoices[i].lateFee = 0
     IN  req' = [req EXCEPT ![r] =
                   [Idle EXCEPT !.pc = IF late THEN "late_fee" ELSE "pay", !.invoice = i,
                                !.online = online, !.amount = Rent + invoices[i].lateFee]]
  /\ UNCHANGED <<assets, agreements, invoices, payments, columnFee, legacyFee, now, run>>

ReadLateFee(r) ==
  /\ req[r].pc = "late_fee"
  /\ req' = [req EXCEPT ![r].pc = IF legacyFee = 0 THEN "pay" ELSE "save_fee",
                        ![r].amount = Rent + legacyFee]
  /\ UNCHANGED <<assets, agreements, invoices, payments, columnFee, legacyFee, now, run>>

\* Mutant: the fee is charged but not saved.
ForgetLateFee(r) ==
  /\ req[r].pc = "save_fee"
  /\ Goto(r, "pay")
  /\ UNCHANGED <<assets, agreements, invoices, payments, columnFee, legacyFee, now, run>>

SaveLateFee(r) ==
  /\ req[r].pc = "save_fee"
  /\ invoices' = [invoices EXCEPT ![req[r].invoice].lateFee = req[r].amount - Rent]
  /\ Goto(r, "pay")
  /\ UNCHANGED <<assets, agreements, payments, columnFee, legacyFee, now, run>>

NewPayment(p, r, status) ==
  /\ payments[p].status = "absent"
  /\ payments' = [payments EXCEPT ![p] = [status |-> status, invoice |-> req[r].invoice,
                                          amount |-> req[r].amount]]

StartOnlinePayment(r, p) ==
  /\ req[r].pc = "pay" /\ req[r].online
  /\ NewPayment(p, r, "requires_action")
  /\ Finish(r)
  /\ UNCHANGED <<assets, agreements, invoices, columnFee, legacyFee, now, run>>

\* Mutant: the payment's status is written into the invoice.
SettleBoth(r, p) ==
  /\ req[r].pc = "pay" /\ ~req[r].online
  /\ NewPayment(p, r, "succeeded")
  /\ invoices' = [invoices EXCEPT ![req[r].invoice].status = "succeeded"]
  /\ Finish(r)
  /\ UNCHANGED <<assets, agreements, columnFee, legacyFee, now, run>>

\* One transaction, without another look at the invoice.
SettleOffline(r, p) ==
  /\ req[r].pc = "pay" /\ ~req[r].online
  /\ NewPayment(p, r, "succeeded")
  /\ invoices' = [invoices EXCEPT ![req[r].invoice].status = "PAID"]
  /\ Finish(r)
  /\ UNCHANGED <<assets, agreements, columnFee, legacyFee, now, run>>

-----------------------------------------------------------------------------
(* completeLeaseStubPayment *)

CompletePayment(r, p) ==
  /\ req[r].pc = "idle"
  /\ payments[p].status = "requires_action"
  /\ req' = [req EXCEPT ![r] = [Idle EXCEPT !.pc = "check_invoice", !.payment = p,
                                            !.invoice = payments[p].invoice]]
  /\ UNCHANGED <<assets, agreements, invoices, payments, columnFee, legacyFee, now, run>>

CheckInvoice(r) ==
  /\ req[r].pc = "check_invoice"
  /\ IF invoices[req[r].invoice].status = "PAID" THEN Finish(r) ELSE Goto(r, "settle")
  /\ UNCHANGED <<assets, agreements, invoices, payments, columnFee, legacyFee, now, run>>

\* Mutant: the handler goes on without its settlement.
SkipLedger(r) ==
  /\ req[r].pc = "settle"
  /\ Goto(r, "mark_paid")
  /\ UNCHANGED <<assets, agreements, invoices, payments, columnFee, legacyFee, now, run>>

SettleStubLedger(r) ==
  /\ req[r].pc = "settle"
  /\ \/ /\ payments[req[r].payment].status = "requires_action"
        /\ payments' = [payments EXCEPT ![req[r].payment].status = "settled"]
        /\ Goto(r, "mark_paid")
     \/ /\ payments[req[r].payment].status # "requires_action"
        /\ Finish(r)
        /\ UNCHANGED payments
  /\ UNCHANGED <<assets, agreements, invoices, columnFee, legacyFee, now, run>>

MarkPaid(r) ==
  /\ req[r].pc = "mark_paid"
  /\ invoices' = [invoices EXCEPT ![req[r].invoice].status = "PAID"]
  /\ Finish(r)
  /\ UNCHANGED <<assets, agreements, payments, columnFee, legacyFee, now, run>>

-----------------------------------------------------------------------------

\* updateLateFee sets the column; upsertTenant replaces the configuration.
UpdateLateFee ==
  /\ columnFee' \in ColumnFees
  /\ UNCHANGED <<assets, agreements, invoices, payments, legacyFee, now, run, req>>

UpsertTenant ==
  /\ legacyFee' \in LegacyFees
  /\ UNCHANGED <<assets, agreements, invoices, payments, columnFee, now, run, req>>

\* Half a period goes by.
Tick ==
  /\ now < 2 * LastPeriod - 1
  /\ now' = now + 1
  /\ UNCHANGED <<assets, agreements, invoices, payments, columnFee, legacyFee, run, req>>

Schedule(r) ==
  \/ StartRun(r)
  \/ \E bill \in run[r].todo : CheckBill(r, bill)
  \/ \E i \in InvoiceIds : InsertInvoice(r, i) \/ ReadTenantFee(r, i)
  \/ FindOverdue(r) \/ FlipOverdue(r)

Call(r) ==
  \/ \E a \in Assets : CreateAgreement(r, a)
  \/ \E i \in InvoiceIds, online \in BOOLEAN : PayInvoice(r, i, online)
  \/ \E p \in PaymentIds : CompletePayment(r, p)

Continue(r) ==
  \/ \E g \in AgreementIds, start \in Periods : SaveAgreement(r, g, start)
  \/ \E p \in PaymentIds : StartOnlinePayment(r, p) \/ SettleOffline(r, p)
  \/ ReadLateFee(r) \/ SaveLateFee(r) \/ CheckInvoice(r) \/ SettleStubLedger(r) \/ MarkPaid(r)

Next ==
  \/ Tick \/ UpdateLateFee \/ UpsertTenant
  \/ \E r \in Runs : Schedule(r)
  \/ \E r \in Requests : Call(r) \/ Continue(r)

Spec == Init /\ [][Next]_vars

\* The cron expression starts a run every day, and what was started or called goes on.
FairSpec ==
  /\ Spec
  /\ \A r \in Runs : WF_vars(Schedule(r))
  /\ \A r \in Requests : WF_vars(Continue(r))

-----------------------------------------------------------------------------
(* What must hold *)

Collected(p, i) == payments[p].invoice = i /\ payments[p].status \in {"settled", "succeeded"}

\* An invoice shown as paid has been paid, though the scheduler, the desk and the citizen's
\* completion write its status over one another.
PaidIsCollected ==
  \A i \in InvoiceIds : invoices[i].status = "PAID" => \E p \in PaymentIds : Collected(p, i)

\* No period of a lease is skipped, also when the scheduler did not run for more than a period:
\* whatever is billed after the start of the lease follows a period that is billed too.
BilledWithoutGaps ==
  \A g \in AgreementIds, k \in Periods :
    Billed(g, k + 1) => k + 1 = agreements[g].start \/ Billed(g, k)

\* Every period of a lease whose invoice may be made is billed in the end.
PeriodsAreBilled ==
  \A g \in AgreementIds, k \in Periods :
    (agreements[g].asset # None /\ agreements[g].start <= k /\ now >= 2 * k - 1) ~> Billed(g, k)

\* Rental payments design, section 6: "if a parallel request flips it first, the second returns
\* 409 Conflict", so no invoice is paid twice.
InvoicePaidOnce ==
  \A i \in InvoiceIds : Cardinality({p \in PaymentIds : Collected(p, i)}) <= 1
=============================================================================
