# eNagarSeba: a TLA+ model of its transactional core

eNagarSeba is a multi-tenant platform for the services of municipalities. A NestJS API
(`src/apps/api`) over Postgres (Prisma) serves a citizen web app, a mobile app and two
administration front-ends; a few workers take jobs from Redis. Every handler of the API is an
asynchronous function: between two `await`s any other handler may run, in the same process or in
another one, so a handler decides on rows it read some time ago. Almost all writes go *by id*,
without looking at the row again. The modules here take each `await` of a handler that touches
shared rows as a step of its own and ask what survives every interleaving.

Paths below are relative to `src/apps/api/src/modules/` unless they start with `src/`.

## 1. The system

| Part | State it keeps | Operations | Hard behaviour | What makes it correct |
| --- | --- | --- | --- | --- |
| Application-fee payments (`payments/`) | payments, idempotency records, receipts, general-ledger postings; the fee lines of an application's snapshot document | initiate, desk payment link, completion, submission gate | two initiates, two completions, a crash between settlement and fee line, retries with a key, stale whole-document writes | one attempt per fee line, one receipt and one posting per settled payment, paid lines backed by money |
| Applications (`applications/`) | snapshot document with its stage and fees, docket number, documents, comments | draft, save, submit, cancel, comment, feedback | whole-document writes by several handlers | no priced fee is skipped at submission, stages follow the workflow |
| EV charging (`ev-charging/`) | sessions, their payments, the meter | hold, sweep of expired holds, start, stop, pay, confirm | sweep against start, two holds, late confirmation | a charger has one active session, a completed session was paid |
| Deposits and refunds (`finance/`) | deposits, refund dispatches | create, release, forfeit, submit, approve, reject, complete | reads checked against the lifecycle long before the write | a refund was approved and is dispatched once |
| Bookings (`bookings/`) | reservations, deposits, payments, links to applications | hold, pay, three ways to confirm, cancel, desk entry | two holds, confirmation after cancellation, deposit shared or replaced | no slot given twice, nothing confirmed unpaid |
| Leases (`rental-assets/`, `lease-invoices/`) | assets, agreements, invoices, payments, late fee | let, daily billing and overdue run, desk and online payment | scheduler against payments, two clerks, missed days | every period billed, a paid invoice was paid, nobody is charged a fee the invoice did not show |
| Fleet bookings (`bookings/`) | reservations of an ambulance or a hearse the system assigns | hold, emergency hold, assignment, confirmation | two holds want the last vehicle; the daily limit on emergencies is checked outside the transaction | a vehicle serves one trip, none runs unpaid |
| Documents and scan worker (`documents/`, `src/apps/api/src/common/document-scan`, `src/services/document-scan-worker`) | document rows, the object store, a BullMQ queue | upload intent, confirm, enqueue, scan, submit gate | redelivery, stalled jobs, exhausted attempts, a late confirmation | no checked submission without a file found clean, a verdict stands for its file, every upload gets one |
| Smart parking (`smart-parking/`) | bays, reservations | hold, pay, confirm, release, sweep | sweep against confirm, two rows kept in step | an occupied bay is not given away |
| Application desk (`admin-tenant/`, `work-orders/`, `src/packages/workflow`) | stage and fee in the snapshot document, work orders | desk transitions, payment link, system transitions after the payment, work order, cancellation, comment, feedback | whole documents written late by desk, citizen and payment; a completion that dies half-way; two work orders with one number | no stage is skipped, no work is ordered unpaid, a paid application moves on |
| Grievances (`grievances/`, the desk's part in `admin-tenant/`) | number, status, role and officer, deadlines, breach marks | file, assign, move, resolve, rate, re-open, two sweeps that staff call | a sweep against a resolution, re-opening against rating, two filings | numbers without gaps, consistent rows between calls, one step up for one missed deadline |
| Water meters, challans | recharge payments; challans | recharge; issue, pay, cancel | two completions | credited once |
| Form import and its worker | jobs, extracted drafts | upload, extract, accept | redelivery | each job ends |
| Administration, set-up assistant, chatbot and knowledge base, catalogue, authentication, front-ends, shared packages, placeholder workers | master data, text | upserts, reads, generation | hardly any | - |

How they meet: `PaymentsService.completeStubPayment` is the common completion. It branches by what
the payment is for (fee line, booking, EV session, lease invoice, water meter), settles through
the payment store in one transaction, and then calls the owner of the thing paid for: it writes the
fee line of the application, and for the approval fee of an LED display it confirms the booking.
Bookings create rows of the deposits that the refund queue later releases. The desk's decisions on
an application confirm or cancel its reservation, and its payment link opens the payment whose
completion moves the application on and issues its work order. The upload of a document puts a job
on the queue of the scan worker, whose verdict the submission of the draft waits for. The lease
scheduler is started by a cron expression and by an administrator.

All of this runs at READ COMMITTED, Postgres' default: a `$transaction` is atomic in its writes but
reads what is committed at each statement. What is exclusive is exclusive through a unique index, a
partial unique index or an exclusion constraint; each of these is an operator of its module
(`NoActiveAttempt`, `KeyUnused`, `NotYetPosted`, `ActiveIndexesAllow`, `OpenQueueIndexAllows`,
`ExclusionAllows`, `OrderIndexesAllow` and the two `NumberIndexAllows`); most of the mutants drop or
weaken one of them.

## 2. The modules

| Module | What it is |
| --- | --- |
| `Payments` | initiate, completion and submission over the payment tables and the snapshot |
| `FeeAccount` | what the payment tables promise a fee line; implemented by `Payments` |
| `PaymentsProofs` | invariants of `Payments` and the refinement, proved |
| `EvCharging`, `EvChargingProofs` | the life of a charging session, with proofs |
| `Deposits`, `DepositsProofs` | deposits and their refund queue, with proofs |
| `Bookings`, `BookingsProofs` | holds, fleet assignment, deposits, confirmations and cancellations, with proofs |
| `Leases`, `LeasesHistory`, `LeasesProofs` | agreements, scheduler and invoice payments, a history of the fees an invoice has shown, and proofs |
| `DocumentScan`, `DocumentScanProofs` | upload, scan queue, worker and the submission gate, with proofs |
| `ApplicationDesk`, `ApplicationDeskProofs` | an approved application up to its closure, with proofs; an instance of `FeeAccount` stands for its payments |
| `Grievances`, `GrievancesProofs` | a grievance from filing to closure and the sweeps, with proofs |
| `MCPayments`, `MCEvCharging`, `MCDeposits`, `MCBookings`, `MCLeases`, `MCDocumentScan`, `MCGrievances` | instances for TLC (`ApplicationDesk` needs none) |

Conventions common to all. A table is a function from ids to rows, a row that is not there has
status `"absent"` (an agreement: asset `None`). `req[r]` is a handler in flight: its `pc` names the
statement that comes next and its other fields are the local variables that statement still needs.
A handler starts with an action named after the method, which does its first read and the checks
on it; each later database statement is an action. Checks that throw end the handler (`Finish`).
What a caller may pass is chosen with `\E` from the constants; authorisation is taken as given.
A gateway is the stub gateway of the repository, whose answer is the call to complete.

**Payments.** `payments`, `idempotency`, `receipts`, `glPostings` are the tables, `snapshot` the
document of an application (its stage and fee lines). `Initiate` and `IssueDeskPaymentLink` read the
snapshot and check the caller; `FindIdempotencyRecord`, `FindActivePayment`, `CreatePendingPayment` and
`RejectDuplicatePayment` follow `initiate` down to the unique index on active attempts.
`CompleteStubPayment`, `ReadForSettlement`, `SettleStubLedger` (one transaction: status, receipt,
posting) and `RejectDoubleSettlement` follow the completion; `ReadFeeSettlement` and `SaveFeeSettlement`
are `updateFeeLineSettlement`, which reads the whole document and writes the whole document.
`SubmitDraft`, `SaveSubmission` are the submission gate. `Payable` are the fee lines whose preview is
not zero: nothing else can be paid, and the gate asks for an application fee only if it is one of them
(`ApplicationFeeDue`), as `isApplicationFeeSettled` does with the preview option. `Crash` kills a
handler between two statements, at most `MaxCrashes` times.

**FeeAccount.** Each line has a slot for one attempt and the set of what was posted to it. `Open`
fills an empty slot with a new payment; `Capture` posts the attempt and empties the slot. `Payments`
implements it with the slot mapped to the line's `requires_action` payment, `posted` to the payments
with a receipt and a posting, `used` to the payments that have a row: whatever handlers, retries and
crashes do, an attempt leaves its slot only by being posted, once, to its own line.

**EvCharging.** `sessions` and `payments` with the handlers of the service. A session has an
`elapsed` flag for "its hold has run out", set by `HoldElapses`. `CreateHold` and `ListChargers`
first sweep: `FindExpiredOnCharger` or `FindExpired` selects, `CancelExpired` cancels by id. Then
`AssertChargerAvailable`, `AssertCitizenHasNoActiveSession`, `InsertHold` (against the two partial
unique indexes). Start, stop, payment and confirmation read in one step and save in a later one.

**Deposits.** `deposits` maps a deposit to its status, `Allowed` is the lifecycle table of
`deposit-lifecycle.ts`. `MarkEligibleForRelease`, `Forfeit` and `SubmitFromEligibleDeposit` read and
check, `SaveDeposit`, `FindOpen` and `SaveSubmission` write. `Decide` (approve, reject, complete)
runs in a transaction: it reads the dispatch and, in `CheckDeposit`, the deposit, and
`SaveDecision` writes both rows at once or `RollBack` neither. `ConfirmHoldAfterApprovalPayment` is the
bookings' writer of the same table: it reads a deposit and puts it back to `held` by id, whatever its
status and without asking the lifecycle.

**Bookings.** `reservations` with the exclusion constraint on overlapping windows, `deposits` and
`payments` of bookings, `drafts` the applications not yet submitted. `CreateAssetHold`/`InsertHold`;
`InitiateForHold` to `CreatePendingPayment`; `CompletePayment` (one atomic step, which `Payments`
justifies); the three confirmations end in the shared `CheckDeposit`, `CountNumbers`, `SaveConfirmed` of
`finalizeHoldConfirmation`. `AddBookingReservation` is the desk's manual entry. For an ambulance,
`CreateHealthFleetHold` checks the daily limit of an emergency and that a vehicle is free; `AssignUnit`
is the serializable transaction that picks one and inserts the hold (or `RefuseUnit`), and `CheckRent`
asks for the settled rent before such a hold is confirmed. The service is written in the hold's `note`,
and it is the note, not the asset, that selects these checks and the rent due (`RentDue`: none for an
emergency, less the subsidy for a declared BPL household). `LinkApplicationToHold` and `SaveLink` build
the note anew from its service code (`LinkedNote`), so an emergency or a subsidised hold becomes an
ordinary one of the fleet.

**Leases.** Time is counted in half periods (an invoice may be made a week before its period, and is
overdue once the period has started, so both happen at different times). A scheduler run reads all
agreements in one query, then checks and inserts bill by bill, then selects the overdue invoices, and
for each one reads the tenant's late fee and writes. `PayInvoice` is the common start of the desk's and
the citizen's payment; `UpdateLateFee` and `UpsertTenant` change the fee under way. `LeasesHistory` adds
`shown`, the fees each invoice has had so far; it constrains no step.

**DocumentScan.** Three systems that no step changes together: `rows` (the `application_documents`
table), `stored` (the object store) and `jobs` (the BullMQ queue, one job id for each document).
`ConfirmUpload`, `HeadObject`, `SaveUploaded`, `EnqueueScan` are `confirmUpload`; `Take`,
`LoadDocument`, `MarkProcessing`, `FetchObject`, `ApplyScanVerdict` the worker's `processScan`. The
queue delivers at least once: `AttemptFails` retries a job that threw, `LoseLock` is a worker that died
*or was held up and goes on*, `RecoverStalled` puts its job back for another worker, `Evict` forgets an
ended job. `bytes` is the file behind a document's key: the presigned URL stays usable, so `PutObject`
may replace it at any time, also after the confirmation and between a worker's fetch and its verdict.
`scanned` notes the verdicts found for a document. A draft is submitted through the documents check
(`SubmitDraft`) or by `create()`, which skips it (`SubmitCreated`). `lost` notes the documents whose job
used up its attempts or stalls, or was never added because the handler died first. BullMQ and the object
store are external: they are modelled from how the repository configures and calls them.

**ApplicationDesk.** `Edges` is the post-approval part of a service's workflow as the designer's
templates write it, `Permitted` is `evaluateTransition` with its guards on the fee. Every save writes
a whole snapshot: `seen` and `next` are the copy a handler read and the one it will write.
`TransitionDeskApplication` may continue with `IssueDeskPaymentLink`, `OpenPayment`, `ReadForPatch`
(the pending mark, which is written *after* the payment can be completed). `CompleteStubPayment`,
`SettleStubLedger`, `ReadForPaid`, `TryAdvance`, `Refresh`, `FindWorkOrder`, `InsertWorkOrder` are the
completion and the two system transitions that follow it in the same call. `Initiate`,
`FindActivePayment`, `OpenPayment` are the citizen's own call of `initiate` on the pending line, with a key
and a payment (`CitizenPayments`) of its own; the desk's link always uses the same one. `Cancel`, `Comment`,
`SubmitFeedback` are the citizen's, `AssignDeskWorkOrder` and `SyncWorkOrder` the work order's.
`FeeAccount` stands for the payment tables, which `Payments` is proved to implement. `disturbed` notes
the applications a handler died on, failed on or wrote to late, and `visited` the stages an application
has shown.

**Grievances.** `Read` and `Write` are what all handlers share: one reads and checks, the other writes
by id later. The service's and the desk's status updates differ in what they do with `resolved_at`,
their sweeps in the transaction (one for each case, `SaveBreach`; one for all, `SaveDeskBreaches`) and in
the role escalated to. `AllocateGrievanceNumber` counts, `Create` inserts under the unique index.
`DeadlinePasses` and `WindowPasses` are time. A sweep names the next role from the row it selected
(`NextRole`). `overtaken` and `disturbed` note late writes, and `reach` how far a case may have climbed:
the rank of the role it was filed with and one step for each deadline that has passed.

A handler that never proceeds is a behaviour of every module (no fairness is assumed for safety), so
a crash between two statements is covered in all of them. `Payments`, `DocumentScan`,
`ApplicationDesk` and `Grievances` name it as well, because there a retry or a later call meets what
the crash left.

## 3. The runs

| Run | Instance | Shows |
| --- | --- | --- |
| `payments_safety` | one dual-fee application (two lines) and one whose preview is zero, 2 keys, 2 payments, 2 handlers, 1 crash | `OneActiveAttempt`, `BooksBalance`, `PaidLineIsSettled`, `SubmittedImpliesCollected`, `KeyBindsOnce`, the refinement `ImplementsFeeAccount` and, fair, `CollectionReachesSnapshot` |
| `payments_charged_twice` | one deferred-fee application, 1 key | **fails**: `FeeLineChargedOnce` |
| `ev_safety` | 2 chargers, 2 citizens, 2 sessions, 1 payment, 1 key, 2 handlers | `ExclusiveUse`, `CompletedIsPaid`, `ExpiredHoldsDoNotBlock` |
| `ev_charging_cancelled` | 1 charger, 2 sessions, 2 handlers | **fails**: `ChargingUntilPaid` |
| `deposits_safety` | 2 deposits, 3 dispatches, 2 handlers | `DispatchBacksDeposit`, `OneOpenDispatch` |
| `bookings_safety` | one hall, 2 slots, 2 citizens, 2 reservations, 2 deposits, 1 payment, 2 handlers, manual entries | `NoOverlap`, `ConfirmedWhenSecured` |
| `bookings_desk` | a hall with a deposit and an ambulance, one slot, an application, approval fee, emergencies | the same on the paths through the desk and the fleet |
| `leases_safety` | one asset, 2 periods, 2 invoices, 2 payments, one scheduler run at a time, 2 handlers, late fees 0 or 1 in the column and 0 or 2 in the old configuration | `PaidIsCollected`, `BilledWithoutGaps`, `ChargesAreShown`, and, fair, `PeriodsAreBilled` |
| `leases_paid_twice` | the instance of `leases_safety`, fees 0 or 1 | **fails**: `InvoicePaidOnce` |
| `scan_safety` | one document, its file put twice, 2 API handlers, 2 concurrent jobs, 2 faults | `AwaitedVerdictHasJob`, `SubmittedFieldsClean`, `VerdictStands`, and, fair, `QueuedIsDecided` |
| `desk_safety` | one application, the desk's payment and one of the citizen's, 2 handlers, 1 crash, one work order of another application | `WorkIsPaidFor`, `QuietIsConsistent`, `StagesInOrder`, and, fair, `CollectedMovesOn` |
| `grievances_safety` | 2 cases, 2 handlers, 7 calls, any of which may die | `NumbersAreDense`, `QuietIsConsistent`, `OneStepPerDeadline` |

Each safety run also checks its module's `TypeOK` (not repeated for `bookings_desk`).

### What the failing runs say

Each states what the repository itself says and shows a behaviour of the code that differs.

- `payments_charged_twice`: the settlement commits before the fee line is written; a handler in
  between sees a line that is still pending and no active attempt, and opens a second payment.
- `ev_charging_cancelled`: the sweep cancels by id what it selected earlier, also a session that has
  started since.
- `leases_paid_twice`: `settleOffline` does not look at the invoice again inside its transaction.

For each of the three, section 5 proves the converse: what must overlap for it to happen.

### Bounds, and why they are enough

- *Two handlers in flight* (`Requests`). Every hazard listed is a race of two handlers; ids are reused
  as soon as a handler ends, so any number of calls follow one another. The proofs lift the bound
  where they exist.
- *Two rows contending for one thing*, or three where a sequence needs a history (three dispatches:
  a rejected one, and two contending for the deposit after it).
- *Two slots* (`Slots`): windows can be equal, overlap partly, or be disjoint; the index on equal
  windows that the exclusion constraint replaced is told apart from it (a mutant).
- *`MaxCrashes` = 1*: a crash leaves the rows as they are and frees its handler for a retry, which may
  then meet what the crash left. The theorems of section 5 hold for any number.
- *`ManualNumbers` = {0}* in `bookings_safety` (staff enter reservations without a number), *{}* in
  `bookings_desk` (they enter none, which keeps the run in its time). A hold confirmed twice takes the
  next number, so the unique index refuses the confirmation after it.
- *`MaxEmergency` = 1* (2 in the code): with two reservations, the limit is reached.
- *`IntentLimit` = 1* (more in the code): with one document the count stands before the insert; a second
  document shares nothing with the first but this limit.
- *`Attempts` = 2 (3 in the code), `MaxStalls` = 1 as in BullMQ, `MaxFaults` = 2*: two faults are enough
  to use up the attempts, or the stalls, which is what `Attempts` = 3 and three faults would do.
- *`MaxPuts` = 2*: the file the intent was made for and one put over it, before or after the
  confirmation, between two workers' fetches, or after the verdict.
- *`MaxElsewhere` = 1*: one work order of another application takes the number this one has counted.
- *`MaxCalls` = 7*: filing twice, routing, resolving, re-opening and a sweep that overlaps them.
- *`LastPeriod` = 2*: the scheduler may sleep through the first period and must then bill it before
  the second; an invoice may become overdue and be written late. Time stops at the point where the
  second period may be billed, so `PeriodsAreBilled` is asked of both.
- *Fees `{0, 1}` in the column, `{0, 2}` in the configuration, rent 2*: each may be off, and an invoice may
  show a fee of one amount and then of another.
- *`CitizenPayments` one*: the desk's payment and the citizen's contend for the one slot of the line.
- *Payments per instance*: one where a second contends with nothing (its own atomic settlement is
  `Payments`' subject), two elsewhere.

Symmetry is used in runs without liveness properties, over ids that no definition distinguishes (in
`bookings_safety`, which has no applications, over the citizens too).
Deadlock checking is off where the instance really stops: ids, calls or faults run out, an application
is closed, and handlers may be left waiting. `leases_safety` keeps it on, since the scheduler always has
a next run.

### Suppositions of the properties

- `ChargesAreShown` says that whoever pays is asked for an amount the invoice has shown, at some time;
  it does not say that the invoice shows it in the end. A slower handler or the scheduler may overwrite
  the fee with another one (section 6).
- `OnlyReheldOutOfTurn` is stated of serial handlers only (a theorem, section 5). With handlers that
  overlap every change the lifecycle table forbids can happen, since every write goes by id.
- `StagesInOrder` and `OneStepPerDeadline` except nothing: they hold whatever is written late. They say
  that no stage is shown before one that leads to it, and that a deadline missed takes a case up one
  step; they do not say that a stage is never taken back, or that a case is escalated only while it is
  open. Both happen (section 6).
- `SubmittedFieldsClean` speaks of a submission that passed the documents check; `create()` does not
  ask. It and `VerdictStands` say that a verdict is one found for the document's file, then or earlier.
  The file may have been replaced since (section 6).
- `QuietIsConsistent` (desk and grievances) speaks of rows no handler died on or wrote to late, and
  allows a payment to be open on a paid line, which needs no late write (section 6).
- `QueuedIsDecided`, `CollectedMovesOn` and `CollectionReachesSnapshot` except what the code gives up: a
  job without attempts left, an application that was disturbed, a handler that died.
- `BilledWithoutGaps` says nothing of a period billed twice: overlapping runs do that (below).
- `ConfirmedWhenSecured` speaks of the confirming step and of the rent under the note the handler read,
  since a late `LinkDeposit` may put another deposit in the row afterwards, and it does not claim the
  amount of the payment that captured the deposit: a booking without a security deposit keeps any
  deposit it is confirmed with, and its own later rent payment then captures that deposit.

## 4. Fairness

Safety properties need none. The liveness properties assume weak fairness of the handlers'
continuations only: Node's event loop resumes a handler when its awaited statement has completed, and
an enabled statement stays enabled for its handler (`Continue(r)` in `payments_safety`, `scan_safety`,
`desk_safety`). Nothing makes a client or an officer call. `leases_safety` adds the scheduler:
`@Cron` starts a run every day (`runOnce` is called while the process is up) and a run goes on to its
end. `scan_safety` adds what BullMQ does while the worker process is up or restarted: an idle worker
takes a waiting job, a job function goes on, and the stalled check runs every few seconds. Crashes and
faults owe nothing and are always allowed within their bound; the liveness properties name what they
may prevent.

## 5. What is proved

TLAPS proves, for every value of the constants that satisfies the named assumptions (sets of any
size, any number of handlers in flight, any number of crashes):

Every invariant and action property of a passing run is a theorem. In all modules a handler acts on
rows it read earlier, so each inductive invariant has two halves: what holds of the tables, and what
*the locals of a handler in flight still say* of them. The second half is provable because of what no
step undoes, stated once in each module (`RowsGrow`, `RowsKept`, `InvoicesKept`).

**PaymentsProofs.** `IInv` strengthens `TypeOK`
with: one active attempt per line; receipts and postings agree with each payment's status
(`BooksBalance`); after each await a handler's locals still name an existing payment of its line, settled
if it is about to write the line as paid (`HandlerOK`); and every paid line and submitted stage is
backed by a settled payment, in the documents (`SnapshotsBacked`) *and in the stale copies in the
hands of handlers*. The last part is what makes it inductive: `SaveFeeSettlement` and
`SaveSubmission` write such a copy back. From it follow
`TypeCorrect`, `OneActiveAttemptHolds`, `BooksBalanceHolds`, `PaidLineIsSettledHolds`,
`SubmittedImpliesCollectedHolds` (for any set `Payable` of priced fee lines),
`KeyBindsOnceHolds`, and `Refinement`: `Spec => ImplementsFeeAccount`.
`FeeLineChargedOnceWhenApart` is the converse of `payments_charged_twice`: while no two handlers work on
one application at a time and none has died (`HandlersApart`), no line is charged twice. Its
invariant says that the copy in a handler's hands is then the stored one (`Fresh`) and that a
collected payment is shown, or about to be (`CollectedIsShown`).

**EvChargingProofs.** `IInv` adds to `ExclusiveUse` that a completed session names a settled payment of
its citizen (`SessionSound`) and, for `ExpiredHoldsDoNotBlock`, where each hold that had expired when the
caller came must be by now: still expired before the sweep's query, in what the query found after it,
and no hold any more after its update (`OverdueSound`). No step makes a session a hold again or
gives it time. `ChargingUntilPaidWhenApart` is the converse of `ev_charging_cancelled`: a charging
session is cancelled only when its start was about to be saved while a sweep that had found its hold
expired was about to cancel it (`SweepsApart` excludes that moment, and nothing else).

**DepositsProofs.** `IInv` is `TypeOK` with the shape of rows, what a handler knows (`HandlerOK`), one
open dispatch per deposit (`OpenUnique`) and `DispatchBacksDeposit`. It gives `TypeCorrect`,
`RefundsAreBacked`, `OneOpen`, the writer that puts any deposit back to `held` included.
`SerialLifecycle` shows that when no two handlers overlap every change of a deposit is in the lifecycle
table, except that writer's (`OnlyReheldOutOfTurn`): with one handler, its check still holds when it
writes.

**BookingsProofs.** `NoOverlap` is inductive once the exclusion constraint stands behind each write that
makes a row active, the late ones included. `ConfirmedWhenSecuredHolds` needs what the handler's checks
have seen to last until it writes (`HandlerSound`): a reservation keeps its asset, window and citizen, a
deposit its citizen, amount and capture, a payment its settlement. A reservation does *not* keep its
note, which a link may rewrite; the rent is therefore that of the note in the handler's hands. The table
is finite in every reachable state, without which the number it counts would not be a number.

**LeasesProofs.** `IInv` says which rows a handler and a run may refer to, that bills come in turn
(`BilledInTurn`, `LastBill`) and that a paid invoice is collected or about to be. It gives
`TypeCorrect`, `PaidIsCollectedHolds`, `BilledWithoutGapsHolds`, for any number of overlapping
scheduler runs too. `ChargesAreShownHolds` supposes nothing of the fees or of the runs: its invariant
says that the amount in the hands of a handler that pays is one the invoice has shown, because it
was saved before it is charged. `InvoicePaidOnceWhenApart` is the converse of `leases_paid_twice`:
an invoice is collected once while no two handlers pay it at the same time and no scheduler run is
about to write it overdue under a payment (`PaymentsApart`), however many online payments were opened.

**DocumentScanProofs.** `IInv` adds to `AwaitedVerdictHasJob` and `SubmittedFieldsClean` that a
decided row shows a verdict found for its file and only a decided row is rejected (`RowSound`); that a
job is about an uploaded file, and that one which completed left a verdict and one which failed is
counted lost (`JobSound`); and that workers and handlers hold such documents, a worker about to write
one of the verdicts found. The second part is
what a *kept* job needs: `EnqueueScan` adds nothing while a job of that id is there, and this is
harmless only because of what an ended job has left behind. `VerdictStandsHolds` follows from
`RowSound` in both states of a step, for any number of deliveries, workers, faults and files put, and
the gate stays right because what was found stays found.

**ApplicationDeskProofs.** The invariant says that a snapshot, *stored or in the hands of a handler*,
which shows a paid fee or a stage past the payment has a posted payment, and that a work order was made
for such a stage; and that a handler's copy shows a stage the application has visited, or one that an
edge leads to from there. It gives `TypeCorrect`, `WorkIsPaidForHolds` and `StagesInOrderHolds`,
although every save overwrites the whole document. `QuietIsConsistentHolds` needs more (`QInv`): of an
application nobody disturbed, whatever its rows still lack (the fee to be shown as paid, the advance,
the order, the order's end) is the duty of a handler in flight, so once no handler is left nothing is
lacking. It holds for any number of payments the citizen opens: a slot may stay open on a paid line, but
no pending line is without one. Of the payments these proofs use only the step of `FeeAccount`, which
`Payments` is proved to implement.

**GrievancesProofs.** A handler saves by id what it checked earlier. The invariant says that all it
checked still holds of every case nobody else wrote in between (`Sound`, with `overtaken`), that the
numbers in use are `1 .. count`, and that two filings in flight are of different cases. From it follow
`TypeCorrect`, `NumbersAreDenseHolds` and `QuietIsConsistentHolds`. `OneStepPerDeadlineHolds` has an
invariant of its own: a role is within the `reach` of its case, strictly below it while a deadline has
passed that no sweep has recorded, and the role each sweep is about to write is within it too. It holds
of late writes as well, since the step is computed from the role that was selected.

The three converses (`...WhenApart`) have the form `Spec /\ []H => []P`. `H` speaks only of which
handlers are at which await together. It holds of every behaviour in which calls on one row do not
overlap, in which all operations still happen: TLC checked each invariant behind them on the
instance of its run, with `H` as the constraint, before it was proved.

Only model-checked: the liveness properties (`CollectionReachesSnapshot`, `PeriodsAreBilled`,
`QueuedIsDecided`, `CollectedMovesOn`), since the prover does not do liveness under fairness, and the
counterexamples of the failing runs.

## 6. Behaviour seen without a run

These came up while modelling. For most of them the repository states nothing that they contradict; for the
rest a property would only restate that an action exists or has no guard. PROJECT.json lists the places
under `hazards`.

Payments, EV charging, deposits:

- When `initiate` answers with an attempt it found active, the call's own Idempotency-Key is not
  recorded (`payments.service.ts:136`; `payments.service.spec.ts:143` expects a replay to return the same
  payment): a retry after that attempt was settled, but before its line was written, creates another.
- Two stops of one EV session count the meter twice. The confirmation of an EV session without a
  `payment_id` cannot succeed. Two initiates of an EV payment with different keys open two payments.
- `markEligibleForRelease` is allowed on a deposit whose refund awaits review; the dispatch can then
  neither be approved nor rejected and blocks a new one. By late writes a deposit can be refunded
  twice, or a forfeited one become eligible for release.
- The approval payment of a booking puts its deposit back to `held` by id, also one that was forfeited,
  refunded or sent to review meanwhile (`bookings.service.ts:747`); no handler need overlap.
- A paid fee line goes back to pending when a handler that read it pending saves its copy.

Bookings and fleet:

- A late confirmation of a booking revives a cancelled reservation if its slots are still free, or
  gives a confirmed one the next number; the count behind `nextBookingNo` then yields numbers in use.
- One captured deposit confirms two bookings of the same price; two initiates create two deposits.
- The approval fee is matched with *a* hold of the application; with several, not the one it was quoted for.
- A hold's expiry is only written down; no booking handler releases it.
- Two emergency holds of one citizen can exceed the daily limit, which is counted before the
  transaction (`bookings.service.ts:605`). An ambulance held through the ordinary hold of an asset
  is confirmed without its rent, since the hold's note does not name the service.
- Linking an application to an emergency or a subsidised hold rebuilds its note without either
  (`bookings.service.ts:644`): the confirmation then asks for the full rent.

Leases:

- Overlapping scheduler runs bill a period twice, and two administrators can let one asset twice.
- An online payment opened before its invoice became overdue settles it without the late fee, and a
  payment may be for a fee that a slower handler or the scheduler then replaces in the invoice.

Documents:

- A job that failed for good keeps the document's job id until it is evicted, so a renewed
  confirmation enqueues nothing; a document in `processing` is not enqueued at all.
- A confirmation that read `intent_created` writes `uploaded` over the worker's `rejected` (the
  verdict stays). Two intents can exceed the hourly limit by one.
- The presigned URL outlives the scan: a file put over a scanned one is never scanned, and keeps the
  verdict of the file before it. A slower worker that fetched the old file overwrites the verdict of the
  new one.
- `create()` submits with `enforceCleanDocuments` false (`applications.service.ts:108`): no document need be
  there, and none clean.

Application desk:

- Desk staff who move the application on before the work order's row exists leave it `issued`. An
  assignment that read `issued` writes `assigned` over `in_progress` or `completed`.
- The pending mark of a payment link, written late, takes a paid line back to pending; the advance
  after the payment is then refused, and nothing tries again.
- A completion that dies between settling and the system transitions leaves a paid application in
  `payment-pending`: completing again is a conflict, and nothing else advances it.
- Of two completions that counted the same work orders one is refused by the index, and not tried again:
  its application executes without a work order.
- Between the settlement of an approval payment and the write of its line, the citizen can open another
  payment with a key of its own. It stays open on a line that is then paid.
- A comment, a cancellation or a desk transition on an old snapshot takes a stage back or revives
  a withdrawn application. A cancellation is accepted in every stage, executing and closed included;
  `docs/glossary.md:165` has it "cancelled by the citizen before approval", and `:174` lets nothing follow a
  closed application.

Grievances:

- A sweep that selected a case before it was resolved or re-opened escalates it and drops its officer
  when it writes. Overlapping sweeps record one breach twice; the role is the same both times.
- Rating and re-opening race: a closed and rated case may be re-opened, or one without a `resolved_at`
  closed. An assignment writes the old status back.
- The desk's sweep escalates to `municipality_admin` whatever the role was, which hands a re-opened case
  that had climbed further back down; the service's chain starts again after `state_admin`.
- `docs/glossary.md:107` says a re-opened case escalates to the next officer: the code gives it a new
  deadline and leaves the role.

## 7. What is not modelled

Listed per component in PROJECT.json. In short:

- *Components whose protocol another module already has.* Smart parking holds a bay, takes a payment,
  confirms, and sweeps holds that ran out, as `EvCharging` does. Challans are a lifecycle table with a check
  and a write by id, as in `Deposits`. A recharge of a water meter is one more completion of a
  payment. The form-import worker takes jobs from its queue as the scan worker does.
- *Parts of modelled components.* The workflow's stages before the approval and the checker of
  workflow definitions; blackouts and the generation of booking slots; docket numbers and the
  calculation of fees; the choice of a routing rule or of an SLA; desks' views and exports.
- *Parts whose operations are single upserts of master data* (administration, catalogue, holdings),
  *whose outcome is text* (chatbot, knowledge base, set-up assistant, form extraction), views
  (front-ends), and placeholders (notification, reporting and workflow-engine services).

Most of the repository's lines are of the last kind, which is why the modules stand for a small part
of them. Authorisation and tenant scoping are taken as given: every model is one municipality.

## 8. Plan

1. Done: the modules of section 2 and the proofs of section 5.
2. Done too: a theorem for every property of a passing run that is not a liveness property, and
   for each failing run a theorem that says which steps must overlap.
3. More proofs: that numbers of bookings are fresh when no reservation is confirmed twice.
4. `SmartParking`, with the abstract `ExclusiveUse` it shares with `EvCharging`; `WorkflowEngine`
   for the checker of workflow definitions against a reference definition of reachability.

## 9. Running

    tlc -workers 2 -config payments_safety.cfg MCPayments
    tlapm PaymentsProofs.tla

Every run takes at most two or three minutes on two workers, or stops at its counterexample within seconds.
