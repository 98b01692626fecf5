------------------------------ MODULE Payments ------------------------------
(***************************************************************************)
(* Application-fee payments: PaymentsService.initiate, issueDeskPaymentLink *)
(* and completeStubPayment, the Postgres payment store under them, and the  *)
(* fee lines they keep in the application's runtime snapshot, together with *)
(* the submit gate that reads those lines.                                  *)
(*                                                                         *)
(* Every handler is an async function: each database statement it awaits is *)
(* a step of its own, and other requests run between two of them.  A        *)
(* transaction runs at READ COMMITTED: its reads are one step, its writes   *)
(* and the unique indexes they meet are the step that commits.  The         *)
(* application snapshot is one JSON document, always written whole.         *)
(***************************************************************************)
EXTENDS Naturals, FiniteSets

CONSTANTS
  Applications,   \* applications of one citizen
  Keys,           \* Idempotency-Key headers that citizen sends
  PaymentIds,     \* identifiers randomUUID() may yield
  Requests,       \* handlers that can be in flight at one time
  Schedule,       \* payment_schedule of each application's service
  Payable,        \* fee lines with a positive amount to pay
  MaxCrashes,     \* how many handlers may die half-way
  None

Schedules == {"upfront_only", "deferred_only", "upfront_and_deferred"}
FeeCodes  == {"application", "approval"}

ASSUME ScheduleAssumption == Schedule \in [Applications -> Schedules]
ASSUME NoneAssumption     == None \notin PaymentIds
ASSUME CrashAssumption    == MaxCrashes \in Nat

\* A fee line of an application: what one payment pays for.
Lines == Applications \X FeeCodes

\* A line previewed at zero, or not at all, is free: nothing can be paid on it.
ASSUME PayableAssumption == Payable \subseteq Lines

\* issueDeskPaymentLink records its payment under the key desk-payment:<app>:<fee>.
IdempotencyKeys == Keys \cup Lines

\* The fee lines a schedule requires; the other lines are absent from the snapshot.
RequiredFeeLines(schedule) ==
  CASE schedule = "upfront_only"         -> {"application"}
    [] schedule = "deferred_only"        -> {"approval"}
    [] schedule = "upfront_and_deferred" -> FeeCodes

SubmitRequiresApplicationFee(schedule) ==
  schedule \in {"upfront_only", "upfront_and_deferred"}

\* The application fee a submission waits for: none if the schedule asks for none
\* or the fee is free.
ApplicationFeeDue(a) ==
  SubmitRequiresApplicationFee(Schedule[a]) /\ <<a, "application">> \in Payable

FeeLine == [status  : {"absent", "not_required", "pending", "paid", "failed"},
            payment : PaymentIds \cup {None}]

Snapshot == [stage : {"draft", "submitted"}, fees : [FeeCodes -> FeeLine]]

PaymentRow == [status : {"absent", "requires_action", "settled"},
               line   : Lines \cup {None}]

\* What a handler awaits next.
Steps == {"idle", "find_key", "find_active", "create", "settle_read",
          "settle_commit", "read_fee", "save_fee", "save_submit"}

(***************************************************************************)
(* A handler's locals: its fee line, its idempotency key, its payment, the  *)
(* status it will write to the line, and the snapshot it last read.         *)
(***************************************************************************)
Request == [pc      : Steps,
            line    : Lines \cup {None},
            key     : IdempotencyKeys \cup {None},
            payment : PaymentIds \cup {None},
            patch   : {"pending", "paid"},
            seen    : Snapshot]

VARIABLES
  payments,      \* the payments table
  idempotency,   \* payment_idempotency_keys: key -> payment
  receipts,      \* number of receipts rows per payment
  glPostings,    \* number of gl_postings rows per payment
  snapshot,      \* applications.runtime_snapshot
  req,           \* the handlers in flight
  crashes        \* (bound) handlers that have died so far

ledgerVars == <<payments, idempotency, receipts, glPostings>>
vars == <<payments, idempotency, receipts, glPostings, snapshot, req, crashes>>

BlankSnapshot ==
  [stage |-> "draft", fees |-> [c \in FeeCodes |-> [status |-> "absent", payment |-> None]]]

Idle == [pc |-> "idle", line |-> None, key |-> None, payment |-> None,
         patch |-> "pending", seen |-> BlankSnapshot]

\* The lines a new draft starts with.
InitialFeeSettlement(schedule) ==
  [c \in FeeCodes |->
     [status  |-> IF c \in RequiredFeeLines(schedule) THEN "not_required" ELSE "absent",
      payment |-> None]]

TypeOK ==
  /\ payments \in [PaymentIds -> PaymentRow]
  /\ idempotency \in [IdempotencyKeys -> PaymentIds \cup {None}]
  /\ receipts \in [PaymentIds -> Nat]
  /\ glPostings \in [PaymentIds -> Nat]
  /\ snapshot \in [Applications -> Snapshot]
  /\ req \in [Requests -> Request]
  /\ crashes \in Nat

Init ==
  /\ payments = [p \in PaymentIds |-> [status |-> "absent", line |-> None]]
  /\ idempotency = [k \in IdempotencyKeys |-> None]
  /\ receipts = [p \in PaymentIds |-> 0]
  /\ glPostings = [p \in PaymentIds |-> 0]
  /\ snapshot = [a \in Applications |->
                   [stage |-> "draft", fees |-> InitialFeeSettlement(Schedule[a])]]
  /\ req = [r \in Requests |-> Idle]
  /\ crashes = 0

-----------------------------------------------------------------------------
(* Queries and rules the handlers share. *)

\* findActivePaymentByApplication: the line's attempt that awaits completion.
ActivePayments(l) == {p \in PaymentIds : payments[p] = [status |-> "requires_action", line |-> l]}

\* feeLineAllowsCitizenInitiate, on the snapshot the handler read.
CitizenMayInitiate(l, seen) ==
  LET status == seen.fees[l[2]].status
  IN  IF l[2] = "application"
      THEN status \in {"not_required", "failed"}
      ELSE status \in {"pending", "failed"}

\* applicationFeePaidForSubmit, and a mutant that lets a pending fee through.
PendingFeeAccepted(a, seen) ==
  ApplicationFeeDue(a) => seen.fees["application"].status \in {"pending", "paid"}

ApplicationFeePaid(a, seen) ==
  ApplicationFeeDue(a) => seen.fees["application"].status = "paid"

\* The unique indexes the insert of createPendingPayment meets; the mutants are the
\* tables without them.
NoActiveIndex(l) == TRUE
NoKeyIndex(k) == TRUE

NoActiveAttempt(l) == ActivePayments(l) = {}
KeyUnused(k) == idempotency[k] = None

\* receipts_payment_unique and gl_postings_payment_unique; the mutant drops them.
NoReceiptIndex(p) == TRUE

NotYetPosted(p) == receipts[p] = 0 /\ glPostings[p] = 0

Goto(r, step) == req' = [req EXCEPT ![r].pc = step]
Finish(r)     == req' = [req EXCEPT ![r] = Idle]

-----------------------------------------------------------------------------
(* initiate and issueDeskPaymentLink *)

\* A citizen calls POST /payments/initiate: the application is read first, and a
\* line with nothing to pay is refused.
Initiate(r, l, k) ==
  /\ req[r].pc = "idle"
  /\ l \in Payable
  /\ snapshot[l[1]].fees[l[2]].status # "absent"
  /\ req' = [req EXCEPT ![r] = [Idle EXCEPT !.pc = "find_key", !.line = l, !.key = k,
                                            !.seen = snapshot[l[1]]]]
  /\ UNCHANGED <<ledgerVars, snapshot, crashes>>

\* A key seen before ends the call: it is answered with its payment, or with a
\* conflict if that payment was for another line.
FindIdempotencyRecord(r) ==
  /\ req[r].pc = "find_key"
  /\ IF idempotency[req[r].key] = None THEN Goto(r, "find_active") ELSE Finish(r)
  /\ UNCHANGED <<ledgerVars, snapshot, crashes>>

\* An application moving to payment-pending makes the desk issue a link for the
\* approval line; a paid, unconfigured or free line is refused.
IssueDeskPaymentLink(r, a) ==
  LET l == <<a, "approval">>
  IN /\ req[r].pc = "idle"
     /\ snapshot[a].stage = "submitted"
     /\ snapshot[a].fees["approval"].status \notin {"absent", "paid"}
     /\ l \in Payable
     /\ req' = [req EXCEPT ![r] = [Idle EXCEPT !.pc = "find_active", !.line = l, !.key = l,
                                               !.seen = snapshot[a]]]
     /\ UNCHANGED <<ledgerVars, snapshot, crashes>>

\* An active attempt for the line is returned as it is, to whichever key asks.
FindActivePayment(r) ==
  LET active == ActivePayments(req[r].line)
      open   == req[r].key \in Keys => CitizenMayInitiate(req[r].line, req[r].seen)
  IN /\ req[r].pc = "find_active"
     /\ \/ active # {} /\ Finish(r)
        \/ active = {} /\ open /\ Goto(r, "create")
        \/ active = {} /\ ~open /\ Finish(r)
     /\ UNCHANGED <<ledgerVars, snapshot, crashes>>

\* One transaction inserts the payment and its idempotency record.
CreatePendingPayment(r, p) ==
  LET l == req[r].line
      k == req[r].key
  IN /\ req[r].pc = "create"
     /\ payments[p].status = "absent"
     /\ NoActiveAttempt(l) /\ KeyUnused(k)
     /\ payments' = [payments EXCEPT ![p] = [status |-> "requires_action", line |-> l]]
     /\ idempotency' = [idempotency EXCEPT ![k] = p]
     /\ req' = [req EXCEPT ![r].pc = "read_fee", ![r].payment = p, ![r].patch = "pending"]
     /\ UNCHANGED <<receipts, glPostings, snapshot, crashes>>

\* A unique index rejects the insert and the call fails.
RejectDuplicatePayment(r) ==
  /\ req[r].pc = "create"
  /\ ~(NoActiveAttempt(req[r].line) /\ KeyUnused(req[r].key))
  /\ Finish(r)
  /\ UNCHANGED <<ledgerVars, snapshot, crashes>>

-----------------------------------------------------------------------------
(* completeStubPayment and settleStubLedger *)

\* A payment awaiting completion is accepted; any other status is a conflict.
CompleteStubPayment(r, p) ==
  /\ req[r].pc = "idle"
  /\ payments[p].status = "requires_action"
  /\ req' = [req EXCEPT ![r] = [Idle EXCEPT !.pc = "settle_read", !.payment = p,
                                            !.line = payments[p].line]]
  /\ UNCHANGED <<ledgerVars, snapshot, crashes>>

\* The settlement transaction reads the payment again.
ReadForSettlement(r) ==
  /\ req[r].pc = "settle_read"
  /\ IF payments[req[r].payment].status = "requires_action"
     THEN Goto(r, "settle_commit")
     ELSE Finish(r)
  /\ UNCHANGED <<ledgerVars, snapshot, crashes>>

\* Receipt, GL posting and status are committed together.
SettleStubLedger(r) ==
  LET p == req[r].payment
  IN /\ req[r].pc = "settle_commit"
     /\ NotYetPosted(p)
     /\ receipts' = [receipts EXCEPT ![p] = @ + 1]
     /\ glPostings' = [glPostings EXCEPT ![p] = @ + 1]
     /\ payments' = [payments EXCEPT ![p].status = "settled"]
     /\ req' = [req EXCEPT ![r].pc = "read_fee", ![r].patch = "paid"]
     /\ UNCHANGED <<idempotency, snapshot, crashes>>

\* A concurrent settlement committed first: the unique indexes abort this one.
RejectDoubleSettlement(r) ==
  /\ req[r].pc = "settle_commit"
  /\ ~NotYetPosted(req[r].payment)
  /\ Finish(r)
  /\ UNCHANGED <<ledgerVars, snapshot, crashes>>

-----------------------------------------------------------------------------
(* updateFeeLineSettlement and updateFeeLineSettlementForTenant: read the    *)
(* whole snapshot, patch one line, write the whole snapshot back.            *)

ReadFeeSettlement(r) ==
  /\ req[r].pc = "read_fee"
  /\ req' = [req EXCEPT ![r].pc = "save_fee", ![r].seen = snapshot[req[r].line[1]]]
  /\ UNCHANGED <<ledgerVars, snapshot, crashes>>

\* Mutants of the patch: one stores the payment's status instead of the line's,
\* one forgets payment_id.
PatchWithPaymentStatus(seen, c, status, p) ==
  [seen EXCEPT !.fees[c] = [status  |-> IF status = "paid" THEN "settled" ELSE "requires_action",
                            payment |-> p]]
PatchStatusOnly(seen, c, status, p) == [seen EXCEPT !.fees[c].status = status]

PatchFeeLine(seen, c, status, p) ==
  [seen EXCEPT !.fees = [@ EXCEPT ![c] = [status |-> status, payment |-> p]]]

\* Mutant: a save that gives up when the snapshot changed since it was read.
SaveFeeIfUnchanged(r) ==
  /\ req[r].pc = "save_fee"
  /\ snapshot' = IF snapshot[req[r].line[1]] # req[r].seen THEN snapshot
                 ELSE [snapshot EXCEPT ![req[r].line[1]] =
                    PatchFeeLine(req[r].seen, req[r].line[2], req[r].patch, req[r].payment)]
  /\ Finish(r)
  /\ UNCHANGED <<ledgerVars, crashes>>

SaveFeeSettlement(r) ==
  /\ req[r].pc = "save_fee"
  /\ snapshot' = [snapshot EXCEPT ![req[r].line[1]] =
                    PatchFeeLine(req[r].seen, req[r].line[2], req[r].patch, req[r].payment)]
  /\ Finish(r)
  /\ UNCHANGED <<ledgerVars, crashes>>

-----------------------------------------------------------------------------
(* submitDraft *)

\* The draft's own snapshot decides whether the application fee is paid.
SubmitDraft(r, a) ==
  /\ req[r].pc = "idle"
  /\ snapshot[a].stage = "draft"
  /\ ApplicationFeePaid(a, snapshot[a])
  /\ req' = [req EXCEPT ![r] = [Idle EXCEPT !.pc = "save_submit", !.seen = snapshot[a],
                                            !.line = <<a, "application">>]]
  /\ UNCHANGED <<ledgerVars, snapshot, crashes>>

SaveSubmission(r) ==
  /\ req[r].pc = "save_submit"
  /\ snapshot' = [snapshot EXCEPT ![req[r].line[1]] = [req[r].seen EXCEPT !.stage = "submitted"]]
  /\ Finish(r)
  /\ UNCHANGED <<ledgerVars, crashes>>

-----------------------------------------------------------------------------
\* The process dies, or a statement fails, while handler r awaits: what it
\* committed stays, the rest never happens.
Crash(r) ==
  /\ req[r].pc # "idle"
  /\ crashes < MaxCrashes
  /\ crashes' = crashes + 1
  /\ Finish(r)
  /\ UNCHANGED <<ledgerVars, snapshot>>

\* What handler r does once called, unless it dies.
Continue(r) ==
  \/ FindIdempotencyRecord(r)
  \/ FindActivePayment(r)
  \/ \E p \in PaymentIds : CreatePendingPayment(r, p)
  \/ RejectDuplicatePayment(r)
  \/ ReadForSettlement(r)
  \/ SettleStubLedger(r)
  \/ RejectDoubleSettlement(r)
  \/ ReadFeeSettlement(r)
  \/ SaveFeeSettlement(r)
  \/ SaveSubmission(r)

Call(r) ==
  \/ \E l \in Lines, k \in Keys : Initiate(r, l, k)
  \/ \E a \in Applications : IssueDeskPaymentLink(r, a) \/ SubmitDraft(r, a)
  \/ \E p \in PaymentIds : CompleteStubPayment(r, p)

Next == \E r \in Requests : Call(r) \/ Continue(r) \/ Crash(r)

Spec == Init /\ [][Next]_vars

\* The event loop resumes every handler whose awaited statement has completed;
\* nothing makes a client call, and nothing prevents a crash within the bound.
FairSpec == Spec /\ \A r \in Requests : WF_vars(Continue(r))

-----------------------------------------------------------------------------
(* Properties *)

\* Two handlers that both found no active attempt never leave two attempts
\* awaiting completion for one fee line (payments_one_active_application_fee_idx).
OneActiveAttempt ==
  \A p, q \in PaymentIds :
    (payments[p].status = "requires_action" /\ payments[q] = payments[p]) => p = q

\* The books agree: a settled payment has exactly one receipt and one GL posting,
\* any other payment has none, however many completions race (settleStubLedger).
BooksBalance ==
  \A p \in PaymentIds :
    LET n == IF payments[p].status = "settled" THEN 1 ELSE 0
    IN  receipts[p] = n /\ glPostings[p] = n

\* A snapshot shows a fee line as paid only if the payment it names was settled
\* for that very line, whatever stale snapshots were written back meanwhile.
PaidLineIsSettled ==
  \A a \in Applications, c \in FeeCodes :
    LET line == snapshot[a].fees[c]
    IN  line.status = "paid" =>
          \E p \in PaymentIds : line.payment = p
                             /\ payments[p] = [status |-> "settled", line |-> <<a, c>>]

\* An application whose schedule demands an application fee that is not free has
\* left draft only if that fee has been collected (the submit gate of submitDraft,
\* passed on a copy of the snapshot that is then written back over later ones).
SubmittedImpliesCollected ==
  \A a \in Applications :
    (snapshot[a].stage = "submitted" /\ ApplicationFeeDue(a)) =>
      \E p \in PaymentIds : payments[p] = [status |-> "settled", line |-> <<a, "application">>]

\* A key that has been bound to a payment is never bound to another, even when two
\* calls with it race on different lines ("Reusing an idempotency key with a
\* different body must fail", ADR-0006).
KeyBindsOnce ==
  [][\A k \in IdempotencyKeys : idempotency[k] # None => idempotency'[k] = idempotency[k]]_vars

\* As long as no handler dies, a collection is written back: a handler that has
\* settled a payment later makes the snapshot show that line as paid by it, even
\* while other handlers write the same snapshot (completeStubPayment).
Collecting(p) ==
  \E r \in Requests : req[r].payment = p /\ req[r].patch = "paid"

CollectionReachesSnapshot ==
  \A p \in PaymentIds, l \in Lines :
    (Collecting(p) /\ payments[p].line = l) ~>
      \/ snapshot[l[1]].fees[l[2]] = [status |-> "paid", payment |-> p]
      \/ crashes > 0

\* A fee line is paid for at most once: "This fee line is already paid" is how
\* initiate and issueDeskPaymentLink turn a second payment away.
FeeLineChargedOnce ==
  \A l \in Lines : Cardinality({p \in PaymentIds : payments[p] = [status |-> "settled", line |-> l]}) <= 1

-----------------------------------------------------------------------------
(* The fee account the handlers implement: at every moment a line's slot     *)
(* holds its attempt awaiting completion, its postings are the payments with *)
(* both a receipt and a GL row, and the payments used up are those with a row. *)

Slot(l)   == IF ActivePayments(l) = {} THEN None ELSE CHOOSE p \in ActivePayments(l) : TRUE
Posted(l) == {p \in PaymentIds : payments[p].line = l /\ receipts[p] > 0 /\ glPostings[p] > 0}

Account == INSTANCE FeeAccount WITH
             slot   <- [l \in Lines |-> Slot(l)],
             posted <- [l \in Lines |-> Posted(l)],
             used   <- {p \in PaymentIds : payments[p].status # "absent"}

\* Every interleaving of the handlers is a behaviour of the fee account: an
\* attempt opens on an empty slot with a fresh payment, and leaves it only by
\* being posted, once, to its own line.
ImplementsFeeAccount == Account!Spec

=============================================================================
