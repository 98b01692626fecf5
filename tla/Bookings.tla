------------------------------ MODULE Bookings ------------------------------
(***************************************************************************)
(* Bookings of halls and hoardings (BookingsService and                     *)
(* BookingsDepositPaymentService): a hold on an asset's slots, the payment  *)
(* of its deposit, its confirmation by the citizen, by the desk or by the   *)
(* payment of an approval fee, and its cancellation.                        *)
(*                                                                         *)
(* Each handler reads the reservation, decides, and later writes it by its  *)
(* id alone.  What stands behind the decisions is the exclusion constraint  *)
(* on overlapping active reservations and the unique index on booking       *)
(* numbers.  Settling a payment is one atomic step: Payments models it and  *)
(* proves that it happens once.  Deposits models the later life of a        *)
(* deposit; here it is held or released.                                    *)
(*                                                                         *)
(* A hold's note carries the time it expires.  It is shown to the citizen;  *)
(* no handler compares it with the clock, so the model leaves it out.       *)
(* Rates and subsidies do not change.                                       *)
(*                                                                         *)
(* An ambulance or a hearse is assigned by the system, from the fleet of    *)
(* the service the hold's note names.                                       *)
(***************************************************************************)
EXTENDS Naturals, FiniteSets

CONSTANTS
  Assets,          \* active bookable assets of one municipality
  Fleet,           \* the assets that serve as ambulances
  MaxEmergency,    \* MAX_EMERGENCY_BOOKINGS_PER_DAY; the model is one day
  Slots,           \* the slots of a day, a set of consecutive naturals
  DepositDue,      \* securityDepositPaise of each asset
  Rent,            \* rent of a slot of each asset
  Subsidy,         \* bpl_subsidy_paise of each asset's rules
  Citizens,
  Applications,    \* the booking applications, each of the citizen Applicant names
  Applicant,
  ReservationIds,
  DepositIds,
  PaymentIds,
  ManualNumbers,   \* booking numbers staff may type, 0 for none; with {} staff add nothing
  Requests,        \* handlers that can be in flight at one time
  None

ASSUME AssetAssumption ==
  /\ Slots \subseteq Nat
  /\ Fleet \subseteq Assets
  /\ MaxEmergency \in Nat
  /\ DepositDue \in [Assets -> Nat]
  /\ Rent \in [Assets -> Nat \ {0}]
  /\ Subsidy \in [Assets -> Nat]
  /\ Applicant \in [Applications -> Citizens]
  /\ ManualNumbers \subseteq Nat

ASSUME NoneAssumption ==
  None \notin Assets \cup Citizens \cup Applications \cup ReservationIds \cup DepositIds \cup PaymentIds

Windows == {i..j : i, j \in Slots} \ {{}}

\* What the note says: nothing, a fleet service, and with it bpl_declared or an emergency.
Notes == {"plain", "fleet", "subsidised", "emergency"}

Reservation == [status      : {"absent", "hold", "confirmed", "cancelled"},
                note        : Notes,
                asset       : Assets \cup {None},
                window      : Windows \cup {{}},
                citizen     : Citizens \cup {None},
                deposit     : DepositIds \cup {None},
                application : Applications \cup {None},
                number      : Nat]         \* booking_no, 0 for NULL

DepositRow == [status  : {"absent", "held", "released"},
               citizen : Citizens \cup {None},
               amount  : Nat,
               capture : PaymentIds \cup {None}]   \* capture_payment_id

\* A payment of a hold, or the settled payment of an approval fee (reservation None).
PaymentRow == [status      : {"absent", "requires_action", "settled"},
               reservation : ReservationIds \cup {None},
               amount      : Nat]                  \* 0 for an approval fee: no booking reads it

Steps == {"idle", "insert_hold", "assign_unit", "check_rent", "find_active", "create_deposit", "link_deposit", "create_payment",
          "approved_hold", "approved_deposit", "check_deposit", "count_numbers", "save_confirmed",
          "save_cancelled", "save_link"}

Request == [pc : Steps,
            id          : ReservationIds \cup {None},
            note        : Notes,
            asset       : Assets \cup {None},
            window      : Windows \cup {{}},
            citizen     : Citizens \cup {None},
            deposit     : DepositIds \cup {None},
            application : Applications \cup {None},
            payment     : PaymentIds \cup {None},
            number      : Nat]

VARIABLES
  reservations,   \* the booking_reservations table
  deposits,       \* the deposits of bookings
  payments,       \* payments with a booking_reservation_id, and those of approval fees
  drafts,         \* the applications still in draft (ApplicationsService)
  req             \* the handlers in flight

vars == <<reservations, deposits, payments, drafts, req>>

TypeOK ==
  /\ reservations \in [ReservationIds -> Reservation]
  /\ deposits \in [DepositIds -> DepositRow]
  /\ payments \in [PaymentIds -> PaymentRow]
  /\ drafts \subseteq Applications
  /\ req \in [Requests -> Request]

NoReservation == [status |-> "absent", note |-> "plain", asset |-> None, window |-> {}, citizen |-> None,
                  deposit |-> None, application |-> None, number |-> 0]

Idle == [pc |-> "idle", id |-> None, note |-> "plain", asset |-> None, window |-> {}, citizen |-> None,
         deposit |-> None, application |-> None, payment |-> None, number |-> 0]

Init ==
  /\ reservations = [b \in ReservationIds |-> NoReservation]
  /\ deposits = [d \in DepositIds |->
                   [status |-> "absent", citizen |-> None, amount |-> 0, capture |-> None]]
  /\ payments = [p \in PaymentIds |-> [status |-> "absent", reservation |-> None, amount |-> 0]]
  /\ drafts = Applications
  /\ req = [r \in Requests |-> Idle]

-----------------------------------------------------------------------------
(* What the handlers ask the tables *)

Active(b) == reservations[b].status \in {"hold", "confirmed"}
IsHold(b) == reservations[b].status = "hold"

\* No active reservation other than b overlaps the window: what assertSlotFree reads, and what
\* booking_reservations_no_time_overlap demands when row b becomes or stays active.
Free(b, asset, window) ==
  \A c \in ReservationIds \ {b} :
    Active(c) /\ reservations[c].asset = asset => reservations[c].window \cap window = {}

\* The constraint; the mutants are the unique index on equal windows it replaced, and a constraint
\* that forgets confirmed reservations.
EqualWindowIndexAllows(b, asset, window) ==
  \A c \in ReservationIds \ {b} :
    Active(c) /\ reservations[c].asset = asset => reservations[c].window # window
HoldsExclusionAllows(b, asset, window) ==
  \A c \in ReservationIds \ {b} :
    reservations[c].status = "hold" /\ reservations[c].asset = asset
      => reservations[c].window \cap window = {}
ExclusionAllows(b, asset, window) == Free(b, asset, window)

\* booking_reservations_tenant_booking_no_idx lets row b have this number.
NumberIndexAllows(b, number) ==
  number = 0 \/ \A c \in ReservationIds \ {b} : reservations[c].number # number

\* nextBookingNo
NextBookingNo == Cardinality({b \in ReservationIds : reservations[b].number # 0}) + 1

RentOf(b) == Rent[reservations[b].asset] * Cardinality(reservations[b].window)

\* resolveHealthFleetRentPaise: the rent of b under a note; an emergency pays none.
RentDue(note, b) ==
  LET subsidy == Subsidy[reservations[b].asset]
  IN  CASE note = "emergency"  -> 0
        [] note = "subsidised" -> IF RentOf(b) > subsidy THEN RentOf(b) - subsidy ELSE 0
        [] OTHER               -> RentOf(b)

Goto(r, step) == req' = [req EXCEPT ![r].pc = step]
Finish(r)     == req' = [req EXCEPT ![r] = Idle]
Begin(r, locals) == req[r].pc = "idle" /\ req' = [req EXCEPT ![r] = locals]

-----------------------------------------------------------------------------
(* createAssetHold and addBookingReservation *)

CreateAssetHold(r, citizen, asset, window) ==
  /\ Free(None, asset, window)
  /\ Begin(r, [Idle EXCEPT !.pc = "insert_hold", !.citizen = citizen, !.asset = asset,
                           !.window = window])
  /\ UNCHANGED <<reservations, deposits, payments, drafts>>

InsertHold(r, b) ==
  /\ req[r].pc = "insert_hold"
  /\ reservations[b].status = "absent"
  /\ ExclusionAllows(b, req[r].asset, req[r].window)
  /\ reservations' = [reservations EXCEPT ![b] =
                        [NoReservation EXCEPT !.status = "hold", !.asset = req[r].asset,
                           !.window = req[r].window, !.citizen = req[r].citizen]]
  /\ Finish(r)
  /\ UNCHANGED <<deposits, payments, drafts>>

RefuseHold(r) ==
  /\ req[r].pc = "insert_hold"
  /\ ~ExclusionAllows(None, req[r].asset, req[r].window)
  /\ Finish(r)
  /\ UNCHANGED <<reservations, deposits, payments, drafts>>

\* createHealthFleetHold: the emergencies of the day are counted and a free unit is looked for.
CreateHealthFleetHold(r, citizen, window, note) ==
  /\ note = "emergency" => Cardinality({b \in ReservationIds : /\ Active(b)
                                                              /\ reservations[b].citizen = citizen
                                                              /\ reservations[b].note = "emergency"})
                             < MaxEmergency
  /\ \E asset \in Fleet : Free(None, asset, window)
  /\ Begin(r, [Idle EXCEPT !.pc = "assign_unit", !.citizen = citizen, !.window = window,
                           !.note = note])
  /\ UNCHANGED <<reservations, deposits, payments, drafts>>

\* One serializable transaction: a unit that is free now, and the hold on it.
AssignUnit(r, b, asset) ==
  /\ req[r].pc = "assign_unit"
  /\ reservations[b].status = "absent"
  /\ Free(b, asset, req[r].window)
  /\ reservations' = [reservations EXCEPT ![b] =
                        [NoReservation EXCEPT !.status = "hold", !.note = req[r].note, !.asset = asset,
                           !.window = req[r].window, !.citizen = req[r].citizen]]
  /\ Finish(r)
  /\ UNCHANGED <<deposits, payments, drafts>>

\* No unit is left, or the transaction cannot be serialized with another one.
RefuseUnit(r) ==
  /\ req[r].pc = "assign_unit"
  /\ Finish(r)
  /\ UNCHANGED <<reservations, deposits, payments, drafts>>

\* Staff add a reservation in any status, for a citizen or none, with a number they type or none,
\* and may name a deposit and an application.
AddBookingReservation(b, entry) ==
  /\ reservations[b].status = "absent"
  /\ entry.deposit # None => deposits[entry.deposit].status # "absent"
  /\ entry.status # "cancelled" => ExclusionAllows(b, entry.asset, entry.window)
  /\ NumberIndexAllows(b, entry.number)
  /\ reservations' = [reservations EXCEPT ![b] = entry]
  /\ UNCHANGED <<deposits, payments, drafts, req>>

ManualEntries ==
  [status : {"hold", "confirmed", "cancelled"}, note : {"plain"}, asset : Assets, window : Windows \ {{}},
   citizen : Citizens \cup {None}, deposit : DepositIds \cup {None},
   application : Applications \cup {None}, number : ManualNumbers]

-----------------------------------------------------------------------------
(* initiateForHold and the completion of its payment *)

InitiateForHold(r, b) ==
  /\ IsHold(b)
  /\ reservations[b].citizen # None
  /\ reservations[b].note # "emergency"
  /\ DepositDue[reservations[b].asset] > 0 \/ RentDue(reservations[b].note, b) > 0
  /\ Begin(r, [Idle EXCEPT !.pc = "find_active", !.id = b, !.citizen = reservations[b].citizen,
                           !.note = reservations[b].note, !.deposit = reservations[b].deposit])
  /\ UNCHANGED <<reservations, deposits, payments, drafts>>

FindActivePayment(r) ==
  /\ req[r].pc = "find_active"
  /\ IF \E p \in PaymentIds : /\ payments[p].reservation = req[r].id
                               /\ payments[p].status = "requires_action"
     THEN Finish(r)
     ELSE Goto(r, IF req[r].deposit = None THEN "create_deposit" ELSE "create_payment")
  /\ UNCHANGED <<reservations, deposits, payments, drafts>>

CreateDeposit(r, d) ==
  /\ req[r].pc = "create_deposit"
  /\ deposits[d].status = "absent"
  /\ LET due == DepositDue[reservations[req[r].id].asset]
     IN  deposits' = [deposits EXCEPT ![d] =
                        [status |-> "held", citizen |-> req[r].citizen,
                         amount |-> IF due > 0 THEN due ELSE RentDue(req[r].note, req[r].id),
                         capture |-> req[r].payment]]
  /\ req' = [req EXCEPT ![r].deposit = d, ![r].pc = "link_deposit"]
  /\ UNCHANGED <<reservations, payments, drafts>>

\* Only the approval path already has its payment.
LinkDeposit(r) ==
  /\ req[r].pc = "link_deposit"
  /\ reservations' = [reservations EXCEPT ![req[r].id].deposit = req[r].deposit]
  /\ Goto(r, IF req[r].payment = None THEN "create_payment" ELSE "check_deposit")
  /\ UNCHANGED <<deposits, payments, drafts>>

\* The deposit, with the full rent if the caller says include_rent; without a deposit the rent due.
Amounts(note, b) ==
  LET due == DepositDue[reservations[b].asset]
  IN  IF due > 0 THEN {due, due + RentOf(b)} ELSE {RentDue(note, b)}

CreatePendingPayment(r, p) ==
  /\ req[r].pc = "create_payment"
  /\ payments[p].status = "absent"
  /\ \E amount \in Amounts(req[r].note, req[r].id) :
       payments' = [payments EXCEPT ![p] =
                      [status |-> "requires_action", reservation |-> req[r].id, amount |-> amount]]
  /\ Finish(r)
  /\ UNCHANGED <<reservations, deposits, drafts>>

\* The citizen's Idempotency-Key took another payment meanwhile: the deposit stays.
RejectUsedKey(r) ==
  /\ req[r].pc = "create_payment"
  /\ \E p \in PaymentIds : /\ payments[p].reservation # None
                            /\ reservations[payments[p].reservation].citizen = req[r].citizen
  /\ Finish(r)
  /\ UNCHANGED <<reservations, deposits, payments, drafts>>

\* completeBookingStubPayment: whatever the reservation's status, the deposit it names now, if any,
\* is captured.  The mutant writes the gateway's word for a settled payment.
Capture(d, p) ==
  deposits' = [x \in DepositIds |->
                 IF x = d THEN [deposits[x] EXCEPT !.capture = p] ELSE deposits[x]]
RecordCapture(p, d) ==
  /\ payments' = [payments EXCEPT ![p].status = "captured"]
  /\ Capture(d, p)
SettleAndCapture(p, d) ==
  /\ payments' = [payments EXCEPT ![p].status = "settled"]
  /\ Capture(d, p)

CompletePayment(p) ==
  /\ payments[p].status = "requires_action"
  /\ SettleAndCapture(p, reservations[payments[p].reservation].deposit)
  /\ UNCHANGED <<reservations, drafts, req>>

-----------------------------------------------------------------------------
(* linkApplicationToHold, and the application's submission *)

LinkApplicationToHold(r, b, a) ==
  /\ IsHold(b)
  /\ reservations[b].citizen = Applicant[a]
  /\ a \in drafts
  /\ Begin(r, [Idle EXCEPT !.pc = "save_link", !.id = b, !.application = a,
                           !.note = reservations[b].note])
  /\ UNCHANGED <<reservations, deposits, payments, drafts>>

\* The note is built anew from the service code of the one read: an emergency and bpl_declared
\* are not taken over.
LinkedNote(note) == IF note = "plain" THEN "plain" ELSE "fleet"

SaveLink(r) ==
  /\ req[r].pc = "save_link"
  /\ reservations' = [reservations EXCEPT ![req[r].id].application = req[r].application,
                                          ![req[r].id].note = LinkedNote(req[r].note)]
  /\ Finish(r)
  /\ UNCHANGED <<deposits, payments, drafts>>

SubmitDraft(a) ==
  /\ a \in drafts
  /\ drafts' = drafts \ {a}
  /\ UNCHANGED <<reservations, deposits, payments, req>>

-----------------------------------------------------------------------------
(* confirmHold, confirmHoldForDeskApplication, confirmHoldAfterApprovalPayment *)

ConfirmHold(r, b, deposit) ==
  /\ IsHold(b)
  /\ reservations[b].citizen # None
  /\ reservations[b].application = None
  /\ Begin(r, [Idle EXCEPT !.pc = "check_deposit", !.id = b, !.citizen = reservations[b].citizen,
                           !.note = reservations[b].note,
                           !.deposit = IF deposit # None THEN deposit
                                                         ELSE reservations[b].deposit])
  /\ UNCHANGED <<reservations, deposits, payments, drafts>>

\* The desk confirms a hold linked to the application; findFirst picks one.
ConfirmHoldForDeskApplication(r, a, b) ==
  /\ a \notin drafts
  /\ IsHold(b)
  /\ reservations[b].application = a
  /\ Begin(r, [Idle EXCEPT !.pc = "check_deposit", !.id = b, !.citizen = reservations[b].citizen,
                           !.note = reservations[b].note, !.deposit = reservations[b].deposit,
                           !.application = a])
  /\ UNCHANGED <<reservations, deposits, payments, drafts>>

\* The approval fee of an application is settled, and the handler that settled it goes on to the
\* hold.
ApprovalFeePaid(r, p, a) ==
  /\ a \notin drafts
  /\ payments[p].status = "absent"
  /\ payments' = [payments EXCEPT ![p] = [status |-> "settled", reservation |-> None, amount |-> 0]]
  /\ Begin(r, [Idle EXCEPT !.pc = "approved_hold", !.payment = p, !.application = a])
  /\ UNCHANGED <<reservations, deposits, drafts>>

FindApprovedHold(r, b) ==
  /\ req[r].pc = "approved_hold"
  /\ IsHold(b)
  /\ reservations[b].application = req[r].application
  /\ reservations[b].citizen # None
  /\ LET row == reservations[b]
     IN  req' = [req EXCEPT ![r].id = b, ![r].citizen = row.citizen, ![r].note = row.note,
                           ![r].deposit = row.deposit,
                           ![r].pc = IF DepositDue[row.asset] = 0 THEN "check_deposit"
                                     ELSE IF row.deposit = None THEN "create_deposit"
                                     ELSE "approved_deposit"]
  /\ UNCHANGED <<reservations, deposits, payments, drafts>>

\* The hold was cancelled or confirmed since: the fee stays paid.
NoApprovedHold(r) ==
  /\ req[r].pc = "approved_hold"
  /\ \/ \A b \in ReservationIds : ~(/\ IsHold(b)
                                     /\ reservations[b].application = req[r].application)
     \/ \E b \in ReservationIds : /\ IsHold(b)
                                   /\ reservations[b].application = req[r].application
                                   /\ reservations[b].citizen = None
  /\ Finish(r)
  /\ UNCHANGED <<reservations, deposits, payments, drafts>>

CaptureApproved(r) ==
  /\ req[r].pc = "approved_deposit"
  /\ deposits' = [deposits EXCEPT ![req[r].deposit].capture = req[r].payment,
                                  ![req[r].deposit].status = "held"]
  /\ Goto(r, "check_deposit")
  /\ UNCHANGED <<reservations, payments, drafts>>

\* finalizeHoldConfirmation demands a held and captured deposit of the right amount; the mutant
\* forgets the capture.
HeldDeposit(d, citizen, due) ==
  /\ d # None
  /\ deposits[d].status = "held"
  /\ deposits[d].amount = due
  /\ citizen # None => deposits[d].citizen = citizen
DepositCaptured(d, citizen, due) ==
  /\ d # None
  /\ deposits[d].status = "held"
  /\ deposits[d].capture # None
  /\ deposits[d].amount = due
  /\ citizen # None => deposits[d].citizen = citizen

\* Only a fleet service asks for its rent.
NeedsRent(note, b) == note # "plain" /\ RentDue(note, b) > 0

CheckDeposit(r) ==
  /\ req[r].pc = "check_deposit"
  /\ LET due == DepositDue[reservations[req[r].id].asset]
     IN  IF due = 0 \/ DepositCaptured(req[r].deposit, req[r].citizen, due)
         THEN Goto(r, IF NeedsRent(req[r].note, req[r].id) THEN "check_rent" ELSE "count_numbers")
         ELSE Finish(r)
  /\ UNCHANGED <<reservations, deposits, payments, drafts>>

\* Mutant: a payment that was begun is enough.
RentBegun(b, due) == \E p \in PaymentIds : payments[p].reservation = b /\ payments[p].amount >= due

SettledFor(p, b) == payments[p].reservation = b /\ payments[p].status = "settled"

RentSettled(b, due) == \E p \in PaymentIds : SettledFor(p, b) /\ payments[p].amount >= due

\* A unit of the fleet is confirmed when the payment settled last covers the rent due; any settled
\* payment may be the last.
CheckRent(r) ==
  LET b   == req[r].id
      due == RentDue(req[r].note, b)
  IN  /\ req[r].pc = "check_rent"
      /\ \/ RentSettled(b, due) /\ Goto(r, "count_numbers")
         \/ /\ ~RentSettled(b, due) \/ \E p \in PaymentIds : SettledFor(p, b) /\ payments[p].amount < due
            /\ Finish(r)
      /\ UNCHANGED <<reservations, deposits, payments, drafts>>

CountNumbers(r) ==
  /\ req[r].pc = "count_numbers"
  /\ req' = [req EXCEPT ![r].number = NextBookingNo, ![r].pc = "save_confirmed"]
  /\ UNCHANGED <<reservations, deposits, payments, drafts>>

\* The constraints let the reservation be confirmed under the number counted.
CanConfirm(r) ==
  LET b == req[r].id
  IN  /\ ExclusionAllows(b, reservations[b].asset, reservations[b].window)
      /\ NumberIndexAllows(b, req[r].number)

SaveConfirmed(r) ==
  /\ req[r].pc = "save_confirmed"
  /\ CanConfirm(r)
  /\ reservations' = [reservations EXCEPT ![req[r].id].status = "confirmed",
                                          ![req[r].id].number = req[r].number,
                                          ![req[r].id].deposit = req[r].deposit,
                                          ![req[r].id].application = req[r].application]
  /\ Finish(r)
  /\ UNCHANGED <<deposits, payments, drafts>>

RefuseConfirmation(r) ==
  /\ req[r].pc = "save_confirmed"
  /\ ~CanConfirm(r)
  /\ Finish(r)
  /\ UNCHANGED <<reservations, deposits, payments, drafts>>

-----------------------------------------------------------------------------
(* cancelReservation, cancelHoldForDeskApplication, and the release of a deposit *)

CancelReservation(r, b) ==
  /\ Active(b)
  /\ Begin(r, [Idle EXCEPT !.pc = "save_cancelled", !.id = b])
  /\ UNCHANGED <<reservations, deposits, payments, drafts>>

CancelHoldForDeskApplication(r, a, b) ==
  /\ a \notin drafts
  /\ reservations[b].application = a
  /\ CancelReservation(r, b)

SaveCancelled(r) ==
  /\ req[r].pc = "save_cancelled"
  /\ reservations' = [reservations EXCEPT ![req[r].id].status = "cancelled"]
  /\ Finish(r)
  /\ UNCHANGED <<deposits, payments, drafts>>

ReleaseDeposit(d) ==
  /\ deposits[d].status = "held"
  /\ deposits' = [deposits EXCEPT ![d].status = "released"]
  /\ UNCHANGED <<reservations, payments, drafts, req>>

-----------------------------------------------------------------------------

Call(r) ==
  \/ \E c \in Citizens, x \in Assets, w \in Windows : CreateAssetHold(r, c, x, w)
  \/ \E c \in Citizens, w \in Windows, note \in Notes \ {"plain"} : CreateHealthFleetHold(r, c, w, note)
  \/ \E b \in ReservationIds :
       \/ InitiateForHold(r, b)
       \/ \E d \in {x \in DepositIds : deposits[x].status # "absent"} \cup {None} :
            ConfirmHold(r, b, d)
       \/ CancelReservation(r, b)
       \/ \E a \in Applications : \/ LinkApplicationToHold(r, b, a)
                                   \/ ConfirmHoldForDeskApplication(r, a, b)
                                   \/ CancelHoldForDeskApplication(r, a, b)
  \/ \E p \in PaymentIds, a \in Applications : ApprovalFeePaid(r, p, a)

Proceed(r) ==
  \/ \E b \in ReservationIds : InsertHold(r, b) \/ FindApprovedHold(r, b)
  \/ \E b \in ReservationIds, asset \in Fleet : AssignUnit(r, b, asset)
  \/ \E d \in DepositIds : CreateDeposit(r, d)
  \/ \E p \in PaymentIds : CreatePendingPayment(r, p)
  \/ RefuseHold(r) \/ FindActivePayment(r) \/ LinkDeposit(r) \/ RejectUsedKey(r) \/ SaveLink(r)
  \/ NoApprovedHold(r) \/ CaptureApproved(r) \/ CheckDeposit(r) \/ CheckRent(r) \/ CountNumbers(r) \/ RefuseUnit(r)
  \/ SaveConfirmed(r) \/ RefuseConfirmation(r) \/ SaveCancelled(r)

Next ==
  \/ \E r \in Requests : Call(r) \/ Proceed(r)
  \/ \E b \in ReservationIds, entry \in ManualEntries : AddBookingReservation(b, entry)
  \/ \E p \in PaymentIds : CompletePayment(p)
  \/ \E d \in DepositIds : ReleaseDeposit(d)
  \/ \E a \in Applications : SubmitDraft(a)

Spec == Init /\ [][Next]_vars

-----------------------------------------------------------------------------
(* What must hold *)

\* No slot of an asset is held or confirmed twice, though a late confirmation may revive a
\* cancelled reservation whose slots were given away.
NoOverlap ==
  \A b, c \in ReservationIds :
    b # c /\ Active(b) /\ Active(c) /\ reservations[b].asset = reservations[c].asset
      => reservations[b].window \cap reservations[c].window = {}

Captured(d) == d # None /\ deposits[d].capture # None

\* The reservation names its asset's security deposit, its citizen's and captured by a settled
\* payment, and a fleet service has a settled payment of its own that covers the rent due under the
\* note.  The amount of the deposit's payment is not claimed: a booking without a security deposit
\* keeps any deposit it is confirmed with, and its later rent payment captures that deposit.
Secured(b, note) ==
  LET row == reservations[b]
      d   == row.deposit
  IN  /\ DepositDue[row.asset] > 0 =>
           /\ Captured(d)
           /\ row.citizen # None => deposits[d].citizen = row.citizen
           /\ deposits[d].amount = DepositDue[row.asset]
           /\ payments[deposits[d].capture].status = "settled"
      /\ NeedsRent(note, b) =>
           \E p \in PaymentIds : SettledFor(p, b) /\ payments[p].amount >= RentDue(note, b)

\* The step that confirms a reservation leaves it secured, whatever happened to the row, the deposit
\* and the payments since the handler checked them.  The rent is that of the note the handler read;
\* an application linked meanwhile may have built the note anew.
ConfirmedWhenSecured ==
  [][\A r \in Requests, b \in ReservationIds, note \in Notes :
       /\ req[r].pc = "save_confirmed" /\ req[r].id = b /\ req[r].note = note
       /\ req'[r].pc = "idle" /\ reservations'[b] # reservations[b]
       => Secured(b, note)']_vars

=============================================================================
