---------------------------- MODULE BookingsProofs ----------------------------
(***************************************************************************)
(* Proofs about Bookings for any number of assets, slots, citizens,         *)
(* reservations and handlers: no slot of an asset is given twice, and a     *)
(* reservation that is confirmed is secured by money.                       *)
(*                                                                         *)
(* A handler checks the deposit and the rent, and confirms the row by its   *)
(* id later.  What carries the check over the gap is that nothing it reads  *)
(* can be undone: a reservation keeps its asset, window and citizen, a      *)
(* deposit its citizen and amount, a captured deposit stays captured and a  *)
(* settled payment settled.  The note may be built anew; the handler goes   *)
(* by the one it read.                                                      *)
(***************************************************************************)
EXTENDS Bookings, FiniteSetTheorems, TLAPS

Existing == {b \in ReservationIds : reservations[b].status # "absent"}

\* Steps of a handler that has a row, those that know the citizen of the row, and those after
\* the check of its deposit and of its rent.
ApprovedSteps == {"approved_hold", "approved_deposit"}
RentSteps     == {"count_numbers", "save_confirmed"}
PaidSteps     == RentSteps \cup {"check_rent"}
CitizenSteps  == PaidSteps \cup {"find_active", "create_deposit", "link_deposit", "create_payment",
                                 "approved_deposit", "check_deposit"}
RowSteps      == CitizenSteps \cup {"save_cancelled", "save_link"}

Settled(p) == p \in PaymentIds /\ payments[p].status = "settled"

\* What the check of a deposit has seen that lasts: it may be released since.
DepositPaid(d, citizen, due) ==
  /\ d \in DepositIds
  /\ deposits[d].status # "absent"
  /\ deposits[d].capture # None
  /\ deposits[d].amount = due
  /\ citizen # None => deposits[d].citizen = citizen

ReservationSound(b) ==
  /\ reservations[b].status = "absent" => reservations[b].number = 0
  /\ b \in Existing => reservations[b].asset \in Assets /\ reservations[b].window \in Windows

DepositSound(d) == deposits[d].capture # None => Settled(deposits[d].capture)

\* What the locals q of a handler still say of the tables.
HandlerSound(q) ==
  /\ q.pc = "insert_hold" => q.asset \in Assets
  /\ q.pc \in {"insert_hold", "assign_unit"} => q.window \in Windows
  /\ q.payment # None => Settled(q.payment)
  /\ q.pc \in ApprovedSteps => q.payment # None
  /\ q.pc \in RowSteps => q.id \in Existing
  /\ q.pc \in CitizenSteps => q.citizen = reservations[q.id].citizen
  /\ q.pc \in PaidSteps =>
       \/ DepositDue[reservations[q.id].asset] = 0
       \/ DepositPaid(q.deposit, q.citizen, DepositDue[reservations[q.id].asset])
  /\ q.pc \in RentSteps /\ NeedsRent(q.note, q.id) => RentSettled(q.id, RentDue(q.note, q.id))

\* The table is always finite, which makes the number counted a natural.
IInv ==
  /\ TypeOK
  /\ NoOverlap
  /\ IsFiniteSet(Existing)
  /\ \A b \in ReservationIds : ReservationSound(b)
  /\ \A d \in DepositIds : DepositSound(d)
  /\ \A r \in Requests : HandlerSound(req[r])

\* What no step undoes.
RowsKept ==
  /\ \A b \in Existing :
       /\ b \in Existing'
       /\ reservations'[b].asset = reservations[b].asset
       /\ reservations'[b].window = reservations[b].window
       /\ reservations'[b].citizen = reservations[b].citizen
  /\ \A d \in DepositIds : deposits[d].status # "absent" =>
       /\ deposits'[d].status # "absent"
       /\ deposits'[d].citizen = deposits[d].citizen
       /\ deposits'[d].amount = deposits[d].amount
       /\ deposits[d].capture # None => deposits'[d].capture # None
  /\ \A p \in PaymentIds : payments[p].status = "settled" =>
       /\ payments'[p].status = "settled"
       /\ payments'[p].reservation = payments[p].reservation
       /\ payments'[p].amount = payments[p].amount

-----------------------------------------------------------------------------
LEMMA IdleFacts ==
  Idle \in Request /\ Idle.pc = "idle" /\ Idle.payment = None /\ HandlerSound(Idle)
<1>1. Idle \in Request
  BY DEF Idle, Request, Steps, Notes
<1>2. Idle.pc = "idle" /\ Idle.payment = None
  BY DEF Idle
<1>. QED BY <1>1, <1>2 DEF HandlerSound, ApprovedSteps, RentSteps, PaidSteps, CitizenSteps, RowSteps

LEMMA InitIInv == Init => IInv
<1>. SUFFICES ASSUME Init PROVE IInv
  OBVIOUS
<1>1. NoReservation \in Reservation /\ NoReservation.status = "absent" /\ NoReservation.number = 0
  BY DEF NoReservation, Reservation, Notes
<1>2. TypeOK
  BY <1>1, IdleFacts DEF Init, TypeOK, DepositRow, PaymentRow
<1>3. NoOverlap
  BY <1>1 DEF Init, NoOverlap, Active
<1>4. IsFiniteSet(Existing)
  <2>1. Existing = {}
    BY <1>1 DEF Init, Existing
  <2>. QED BY <2>1, FS_EmptySet
<1>5. \A b \in ReservationIds : ReservationSound(b)
  BY <1>1 DEF Init, ReservationSound, Existing
<1>6. \A d \in DepositIds : DepositSound(d)
  BY DEF Init, DepositSound
<1>7. \A r \in Requests : HandlerSound(req[r])
  BY IdleFacts DEF Init
<1>. QED BY <1>2, <1>3, <1>4, <1>5, <1>6, <1>7 DEF IInv

LEMMA NumberIsNatural == IInv => NextBookingNo \in Nat
<1>. SUFFICES ASSUME IInv PROVE NextBookingNo \in Nat
  OBVIOUS
<1>1. {b \in ReservationIds : reservations[b].number # 0} \subseteq Existing
  BY DEF IInv, ReservationSound, Existing
<1>2. Cardinality({b \in ReservationIds : reservations[b].number # 0}) \in Nat
  BY <1>1, FS_Subset, FS_CardinalityType DEF IInv
<1>. QED BY <1>2 DEF NextBookingNo

LEMMA RentIsNatural ==
  ASSUME IInv, NEW b \in Existing
  PROVE  /\ RentOf(b) \in Nat /\ DepositDue[reservations[b].asset] \in Nat
         /\ \A note : RentDue(note, b) \in Nat
<1>1. reservations[b].asset \in Assets /\ reservations[b].window \in Windows
  BY DEF IInv, ReservationSound, Existing
<1>2. Rent[reservations[b].asset] \in Nat /\ DepositDue[reservations[b].asset] \in Nat
  BY <1>1, AssetAssumption
<1>3. PICK i, j \in Slots : reservations[b].window = i..j
  BY <1>1 DEF Windows
<1>4. i \in Int /\ j \in Int
  BY AssetAssumption
<1>5. IsFiniteSet(i..j)
  BY <1>4, FS_Interval
<1>6. Cardinality(reservations[b].window) \in Nat
  BY <1>3, <1>5, FS_CardinalityType
<1>7. \A x, y \in Nat : x * y \in Nat
  OBVIOUS
<1>8. RentOf(b) \in Nat
  BY <1>2, <1>6, <1>7 DEF RentOf
<1>9. Subsidy[reservations[b].asset] \in Nat
  BY <1>1, AssetAssumption
<1>10. ASSUME NEW note PROVE RentDue(note, b) \in Nat
  <2>1. CASE note = "emergency"
    BY <2>1 DEF RentDue
  <2>2. CASE note = "subsidised"
    BY <1>8, <1>9, <2>2 DEF RentDue
  <2>3. CASE note \notin {"emergency", "subsidised"}
    BY <1>8, <2>3 DEF RentDue
  <2>. QED BY <2>1, <2>2, <2>3
<1>. QED BY <1>2, <1>8, <1>10

-----------------------------------------------------------------------------
(* What a step owes the invariant *)

LEMMA HandlerKept ==
  ASSUME IInv, RowsKept, NEW q, HandlerSound(q)
  PROVE  HandlerSound(q)'
<1>1. \A p : Settled(p) => Settled(p)'
  BY DEF RowsKept, Settled
<1>2. q.pc \in RowSteps =>
        /\ q.id \in Existing'
        /\ reservations'[q.id].asset = reservations[q.id].asset
        /\ reservations'[q.id].window = reservations[q.id].window
        /\ reservations'[q.id].citizen = reservations[q.id].citizen
  BY DEF HandlerSound, RowsKept
<1>3. \A citizen, due : DepositPaid(q.deposit, citizen, due) => DepositPaid(q.deposit, citizen, due)'
  BY DEF RowsKept, DepositPaid
<1>4. \A b, due : RentSettled(b, due) => RentSettled(b, due)'
  BY DEF RowsKept, RentSettled, SettledFor
<1>5. PaidSteps \subseteq RowSteps /\ RentSteps \subseteq RowSteps /\ CitizenSteps \subseteq RowSteps
  BY DEF PaidSteps, RentSteps, CitizenSteps, RowSteps
<1>6. PICK due : due = DepositDue[reservations[q.id].asset]
  OBVIOUS
<1>7. q.pc \in PaidSteps => due = DepositDue[reservations'[q.id].asset]
  BY <1>2, <1>5, <1>6
<1>8. q.pc \in PaidSteps => due = 0 \/ DepositPaid(q.deposit, q.citizen, due)'
  BY <1>3, <1>6 DEF HandlerSound
<1>9. (q.pc \in PaidSteps =>
          \/ DepositDue[reservations[q.id].asset] = 0
          \/ DepositPaid(q.deposit, q.citizen, DepositDue[reservations[q.id].asset]))'
  BY <1>7, <1>8 DEF DepositPaid
<1>10. (q.pc \in RentSteps /\ NeedsRent(q.note, q.id) => RentSettled(q.id, RentDue(q.note, q.id)))'
  <2>. SUFFICES ASSUME q.pc \in RentSteps, NeedsRent(q.note, q.id)'
                PROVE  RentSettled(q.id, RentDue(q.note, q.id))'
    OBVIOUS
  <2>1. PICK rent : rent = RentDue(q.note, q.id)
    OBVIOUS
  <2>2. RentDue(q.note, q.id)' = rent
    BY <1>2, <1>5, <2>1 DEF RentDue, RentOf
  <2>3. NeedsRent(q.note, q.id)
    BY <2>1, <2>2 DEF NeedsRent
  <2>4. RentSettled(q.id, rent)
    BY <2>1, <2>3 DEF HandlerSound
  <2>5. RentSettled(q.id, rent)'
    BY <1>4, <2>4
  <2>. QED BY <2>2, <2>5 DEF RentSettled, SettledFor
<1>11. q.payment # None => Settled(q.payment)'
  BY <1>1 DEF HandlerSound
<1>. QED BY <1>2, <1>5, <1>9, <1>10, <1>11 DEF HandlerSound

\* What the tables must satisfy after a step.
TablesSound ==
  /\ reservations \in [ReservationIds -> Reservation]
  /\ deposits \in [DepositIds -> DepositRow]
  /\ payments \in [PaymentIds -> PaymentRow]
  /\ NoOverlap
  /\ IsFiniteSet(Existing)
  /\ \A b \in ReservationIds : ReservationSound(b)
  /\ \A d \in DepositIds : DepositSound(d)

\* Handler r goes on with the locals q.
LEMMA Step ==
  ASSUME IInv, NEW r \in Requests, NEW q \in Request, req' = [req EXCEPT ![r] = q], RowsKept,
         TablesSound', drafts' \subseteq Applications, HandlerSound(q)'
  PROVE  IInv'
<1>1. TypeOK'
  BY DEF IInv, TypeOK, TablesSound
<1>2. ASSUME NEW s \in Requests PROVE HandlerSound(req[s])'
  <2>1. CASE s = r
    <3>1. req'[s] = q
      BY <2>1 DEF IInv, TypeOK
    <3>. QED BY <3>1 DEF HandlerSound
  <2>2. CASE s # r
    <3>1. PICK p : p = req[s]
      OBVIOUS
    <3>2. req'[s] = p
      BY <2>2, <3>1 DEF IInv, TypeOK
    <3>3. HandlerSound(p)'
      BY <3>1, HandlerKept DEF IInv
    <3>. QED BY <3>2, <3>3 DEF HandlerSound
  <2>. QED BY <2>1, <2>2
<1>. QED BY <1>1, <1>2 DEF IInv, TablesSound

\* No handler moves.
LEMMA QuietStep ==
  ASSUME IInv, req' = req, RowsKept, TablesSound', drafts' \subseteq Applications
  PROVE  IInv'
<1>1. TypeOK'
  BY DEF IInv, TypeOK, TablesSound
<1>2. ASSUME NEW s \in Requests PROVE HandlerSound(req[s])'
  <2>1. PICK p : p = req[s]
    OBVIOUS
  <2>2. HandlerSound(p)'
    BY <2>1, HandlerKept DEF IInv
  <2>. QED BY <2>1, <2>2 DEF HandlerSound
<1>. QED BY <1>1, <1>2 DEF IInv, TablesSound

\* Most steps leave the tables alone.
LEMMA TablesKept ==
  ASSUME IInv, UNCHANGED <<reservations, deposits, payments>>
  PROVE  RowsKept /\ TablesSound'
<1>1. RowsKept
  BY DEF RowsKept, Existing
<1>2. Existing' = Existing
  BY DEF Existing
<1>3. NoOverlap' /\ (\A b \in ReservationIds : ReservationSound(b)') /\ (\A d \in DepositIds : DepositSound(d)')
  BY <1>2 DEF IInv, NoOverlap, Active, ReservationSound, DepositSound, Settled
<1>. QED BY <1>1, <1>2, <1>3 DEF TablesSound, IInv, TypeOK

LEMMA ReadStep ==
  ASSUME IInv, NEW r \in Requests, NEW q \in Request, req' = [req EXCEPT ![r] = q],
         UNCHANGED <<reservations, deposits, payments, drafts>>, HandlerSound(q)
  PROVE  IInv'
<1>1. RowsKept /\ TablesSound'
  BY TablesKept
<1>2. HandlerSound(q)'
  BY <1>1, HandlerKept
<1>. QED BY <1>1, <1>2, Step DEF IInv, TypeOK

LEMMA FinishStep ==
  ASSUME IInv, NEW r \in Requests, Finish(r), UNCHANGED <<reservations, deposits, payments, drafts>>
  PROVE  IInv'
  BY ReadStep, IdleFacts DEF Finish

\* A handler that only moves on keeps its locals.
LEMMA GotoFacts ==
  ASSUME IInv, NEW r \in Requests, NEW step \in Steps, Goto(r, step)
  PROVE  \E q \in Request : /\ req' = [req EXCEPT ![r] = q]
                            /\ q.pc = step /\ q.id = req[r].id /\ q.citizen = req[r].citizen
                            /\ q.deposit = req[r].deposit /\ q.payment = req[r].payment
                            /\ q.note = req[r].note
<1>1. req[r] \in Request
  BY DEF IInv, TypeOK
<1>2. PICK q : q = [req[r] EXCEPT !.pc = step]
  OBVIOUS
<1>3. /\ q.pc = step /\ q.id = req[r].id /\ q.citizen = req[r].citizen
      /\ q.deposit = req[r].deposit /\ q.payment = req[r].payment /\ q.note = req[r].note
  BY <1>1, <1>2 DEF Request
<1>4. q \in Request
  BY <1>1, <1>2 DEF Request
<1>5. req' = [req EXCEPT ![r] = q]
  BY <1>2 DEF Goto, IInv, TypeOK
<1>. QED BY <1>3, <1>4, <1>5

-----------------------------------------------------------------------------
(* Writes to the tables *)

LEMMA ActiveIsFree ==
  ASSUME IInv, NEW b \in ReservationIds, Active(b)
  PROVE  Free(b, reservations[b].asset, reservations[b].window)
  BY DEF IInv, NoOverlap, Free

\* One row of the reservations is written; an active row is written where it is free.
LEMMA RowTables ==
  ASSUME IInv, NEW b \in ReservationIds, NEW row \in Reservation,
         reservations' = [reservations EXCEPT ![b] = row], UNCHANGED <<deposits, payments>>,
         row.status # "absent", row.asset \in Assets, row.window \in Windows,
         b \in Existing => /\ row.asset = reservations[b].asset /\ row.window = reservations[b].window
                           /\ row.citizen = reservations[b].citizen,
         row.status \in {"hold", "confirmed"} => Free(b, row.asset, row.window)
  PROVE  RowsKept /\ TablesSound'
<1>1. /\ reservations \in [ReservationIds -> Reservation]
      /\ reservations'[b] = row
      /\ \A c \in ReservationIds \ {b} : reservations'[c] = reservations[c]
  BY DEF IInv, TypeOK
<1>2. Existing' = Existing \cup {b}
  BY <1>1 DEF Existing
<1>3. RowsKept
  BY <1>1, <1>2 DEF RowsKept, Existing
<1>4. reservations' \in [ReservationIds -> Reservation]
  BY <1>1
<1>5. NoOverlap'
  <2>. SUFFICES ASSUME NEW c \in ReservationIds, NEW d \in ReservationIds, c # d, Active(c)', Active(d)',
                       reservations'[c].asset = reservations'[d].asset
                PROVE  reservations'[c].window \cap reservations'[d].window = {}
    BY DEF NoOverlap
  <2>1. CASE c = b
    BY <1>1, <2>1 DEF Active, Free
  <2>2. CASE d = b
    BY <1>1, <2>2 DEF Active, Free
  <2>3. CASE c # b /\ d # b
    BY <1>1, <2>3 DEF Active, IInv, NoOverlap
  <2>. QED BY <2>1, <2>2, <2>3
<1>6. IsFiniteSet(Existing')
  BY <1>2, FS_AddElement DEF IInv
<1>7. ASSUME NEW c \in ReservationIds PROVE ReservationSound(c)'
  BY <1>1, <1>2 DEF ReservationSound, IInv, Existing
<1>8. \A d \in DepositIds : DepositSound(d)'
  BY DEF DepositSound, Settled, IInv
<1>. QED BY <1>3, <1>4, <1>5, <1>6, <1>7, <1>8 DEF TablesSound, IInv, TypeOK

\* Deposits and payments are written, and nothing of them is undone.
LEMMA MoneyTables ==
  ASSUME IInv, reservations' = reservations,
         deposits' \in [DepositIds -> DepositRow], payments' \in [PaymentIds -> PaymentRow],
         \A d \in DepositIds : deposits[d].status # "absent" =>
           /\ deposits'[d].status # "absent"
           /\ deposits'[d].citizen = deposits[d].citizen
           /\ deposits'[d].amount = deposits[d].amount
           /\ deposits[d].capture # None => deposits'[d].capture # None,
         \A p \in PaymentIds : payments[p].status = "settled" =>
           /\ payments'[p].status = "settled"
           /\ payments'[p].reservation = payments[p].reservation
           /\ payments'[p].amount = payments[p].amount,
         \A d \in DepositIds : DepositSound(d)'
  PROVE  RowsKept /\ TablesSound'
<1>1. Existing' = Existing
  BY DEF Existing
<1>2. RowsKept
  BY <1>1 DEF RowsKept, Existing
<1>3. NoOverlap' /\ \A b \in ReservationIds : ReservationSound(b)'
  BY <1>1 DEF IInv, NoOverlap, Active, ReservationSound
<1>. QED BY <1>1, <1>2, <1>3 DEF TablesSound, IInv, TypeOK

-----------------------------------------------------------------------------
(* The calls: each reads and begins *)

\* A call that begins with locals that name a row, and its citizen if it will check the deposit.
LEMMA BeginStep ==
  ASSUME IInv, NEW r \in Requests, NEW q \in Request, Begin(r, q), q.payment = None,
         q.pc \in {"insert_hold", "assign_unit", "find_active", "check_deposit", "save_link", "save_cancelled"},
         q.pc = "insert_hold" => q.asset \in Assets,
         q.pc \in {"insert_hold", "assign_unit"} => q.window \in Windows,
         q.pc \notin {"insert_hold", "assign_unit"} => q.id \in Existing,
         q.pc \in {"find_active", "check_deposit"} => q.citizen = reservations[q.id].citizen,
         UNCHANGED <<reservations, deposits, payments, drafts>>
  PROVE  IInv'
<1>1. HandlerSound(q)
  BY DEF HandlerSound, ApprovedSteps, RentSteps, PaidSteps, CitizenSteps, RowSteps
<1>. QED BY <1>1, ReadStep DEF Begin

LEMMA HoldCalls ==
  ASSUME IInv, NEW r \in Requests, NEW c \in Citizens, NEW w \in Windows,
         \/ \E x \in Assets : CreateAssetHold(r, c, x, w)
         \/ \E note \in Notes \ {"plain"} : CreateHealthFleetHold(r, c, w, note)
  PROVE  IInv'
<1>1. ASSUME NEW x \in Assets, CreateAssetHold(r, c, x, w) PROVE IInv'
  <2>1. PICK q : q = [Idle EXCEPT !.pc = "insert_hold", !.citizen = c, !.asset = x, !.window = w]
    OBVIOUS
  <2>2. q \in Request /\ q.pc = "insert_hold" /\ q.asset = x /\ q.window = w /\ q.payment = None
    BY <2>1 DEF Idle, Request, Steps, Notes
  <2>. QED BY <1>1, <2>1, <2>2, BeginStep DEF CreateAssetHold
<1>2. ASSUME NEW note \in Notes \ {"plain"}, CreateHealthFleetHold(r, c, w, note) PROVE IInv'
  <2>1. PICK q : q = [Idle EXCEPT !.pc = "assign_unit", !.citizen = c, !.window = w, !.note = note]
    OBVIOUS
  <2>2. q \in Request /\ q.pc = "assign_unit" /\ q.window = w /\ q.payment = None
    BY <2>1 DEF Idle, Request, Steps, Notes
  <2>. QED BY <1>2, <2>1, <2>2, BeginStep DEF CreateHealthFleetHold
<1>. QED BY <1>1, <1>2

LEMMA RowFacts ==
  ASSUME IInv, NEW b \in ReservationIds
  PROVE  /\ reservations[b] \in Reservation
         /\ Active(b) => b \in Existing
         /\ IsHold(b) => b \in Existing
  BY DEF IInv, TypeOK, Active, IsHold, Existing

LEMMA InitiateForHoldStep ==
  ASSUME IInv, NEW r \in Requests, NEW b \in ReservationIds, InitiateForHold(r, b)
  PROVE  IInv'
<1>1. PICK q : q = [Idle EXCEPT !.pc = "find_active", !.id = b, !.citizen = reservations[b].citizen,
                                !.note = reservations[b].note, !.deposit = reservations[b].deposit]
  OBVIOUS
<1>2. /\ q \in Request /\ q.pc = "find_active" /\ q.id = b /\ q.citizen = reservations[b].citizen
      /\ q.payment = None
  BY <1>1, RowFacts DEF Idle, Request, Reservation, Steps, Notes
<1>. QED BY <1>1, <1>2, RowFacts, BeginStep DEF InitiateForHold

LEMMA ConfirmHoldStep ==
  ASSUME IInv, NEW r \in Requests, NEW b \in ReservationIds, NEW d \in DepositIds \cup {None},
         ConfirmHold(r, b, d)
  PROVE  IInv'
<1>1. PICK e \in DepositIds \cup {None} : e = IF d # None THEN d ELSE reservations[b].deposit
  BY RowFacts DEF Reservation
<1>2. PICK q : q = [Idle EXCEPT !.pc = "check_deposit", !.id = b, !.citizen = reservations[b].citizen,
                                !.note = reservations[b].note, !.deposit = e]
  OBVIOUS
<1>3. /\ q \in Request /\ q.pc = "check_deposit" /\ q.id = b /\ q.citizen = reservations[b].citizen
      /\ q.payment = None
  BY <1>2, RowFacts DEF Idle, Request, Reservation, Steps, Notes
<1>4. Begin(r, q)
  BY <1>1, <1>2 DEF ConfirmHold
<1>. QED BY <1>3, <1>4, RowFacts, BeginStep DEF ConfirmHold

LEMMA ConfirmForDeskStep ==
  ASSUME IInv, NEW r \in Requests, NEW b \in ReservationIds, NEW a \in Applications,
         ConfirmHoldForDeskApplication(r, a, b)
  PROVE  IInv'
<1>1. PICK q : q = [Idle EXCEPT !.pc = "check_deposit", !.id = b, !.citizen = reservations[b].citizen,
                                !.note = reservations[b].note, !.deposit = reservations[b].deposit,
                                !.application = a]
  OBVIOUS
<1>2. /\ q \in Request /\ q.pc = "check_deposit" /\ q.id = b /\ q.citizen = reservations[b].citizen
      /\ q.payment = None
  BY <1>1, RowFacts DEF Idle, Request, Reservation, Steps, Notes
<1>. QED BY <1>1, <1>2, RowFacts, BeginStep DEF ConfirmHoldForDeskApplication

LEMMA LinkCancelSteps ==
  ASSUME IInv, NEW r \in Requests, NEW b \in ReservationIds,
         \/ CancelReservation(r, b)
         \/ \E a \in Applications : LinkApplicationToHold(r, b, a)
         \/ \E a \in Applications : CancelHoldForDeskApplication(r, a, b)
  PROVE  IInv'
<1>1. ASSUME CancelReservation(r, b) PROVE IInv'
  <2>1. PICK q : q = [Idle EXCEPT !.pc = "save_cancelled", !.id = b]
    OBVIOUS
  <2>2. q \in Request /\ q.pc = "save_cancelled" /\ q.id = b /\ q.payment = None
    BY <2>1 DEF Idle, Request, Steps, Notes
  <2>. QED BY <1>1, <2>1, <2>2, RowFacts, BeginStep DEF CancelReservation
<1>2. ASSUME NEW a \in Applications, LinkApplicationToHold(r, b, a) PROVE IInv'
  <2>1. PICK q : q = [Idle EXCEPT !.pc = "save_link", !.id = b, !.application = a,
                                  !.note = reservations[b].note]
    OBVIOUS
  <2>2. q \in Request /\ q.pc = "save_link" /\ q.id = b /\ q.payment = None
    BY <2>1, RowFacts DEF Idle, Request, Reservation, Steps, Notes
  <2>. QED BY <1>2, <2>1, <2>2, RowFacts, BeginStep DEF LinkApplicationToHold
<1>. QED BY <1>1, <1>2 DEF CancelHoldForDeskApplication

LEMMA ApprovalFeeStep ==
  ASSUME IInv, NEW r \in Requests, NEW p \in PaymentIds, NEW a \in Applications, ApprovalFeePaid(r, p, a)
  PROVE  IInv'
<1>1. PICK q : q = [Idle EXCEPT !.pc = "approved_hold", !.payment = p, !.application = a]
  OBVIOUS
<1>2. q \in Request /\ q.pc = "approved_hold" /\ q.payment = p
  BY <1>1 DEF Idle, Request, Steps, Notes
<1>3. /\ payments \in [PaymentIds -> PaymentRow]
      /\ payments' = [payments EXCEPT ![p] = [status |-> "settled", reservation |-> None, amount |-> 0]]
  BY DEF IInv, TypeOK, ApprovalFeePaid
<1>4. payments' \in [PaymentIds -> PaymentRow] /\ payments'[p].status = "settled"
  BY <1>3 DEF PaymentRow
<1>5. ASSUME NEW x \in PaymentIds, payments[x].status = "settled" PROVE payments'[x] = payments[x]
  BY <1>3, <1>5 DEF ApprovalFeePaid
<1>6. \A d \in DepositIds : DepositSound(d)'
  BY <1>5 DEF ApprovalFeePaid, IInv, DepositSound, Settled
<1>7. RowsKept /\ TablesSound'
  BY <1>4, <1>5, <1>6, MoneyTables DEF ApprovalFeePaid, IInv, TypeOK
<1>8. /\ q.pc \notin {"insert_hold", "assign_unit"} /\ q.pc \notin RowSteps \cup CitizenSteps
      /\ q.pc \notin PaidSteps \cup RentSteps
  BY <1>2 DEF RentSteps, PaidSteps, CitizenSteps, RowSteps
<1>9. q.payment # None /\ Settled(q.payment)'
  BY <1>2, <1>4, NoneAssumption DEF Settled
<1>10. HandlerSound(q)'
  BY <1>8, <1>9 DEF HandlerSound
<1>. QED BY <1>1, <1>2, <1>7, <1>10, Step DEF ApprovalFeePaid, Begin, IInv, TypeOK

LEMMA CallSteps ==
  ASSUME IInv, NEW r \in Requests, Call(r)
  PROVE  IInv'
  BY HoldCalls, InitiateForHoldStep, ConfirmHoldStep, ConfirmForDeskStep, LinkCancelSteps,
     ApprovalFeeStep DEF Call

-----------------------------------------------------------------------------
(* The insertion of a hold *)

\* A new hold, where it is free.
LEMMA NewHold ==
  ASSUME IInv, NEW r \in Requests, NEW b \in ReservationIds, NEW row \in Reservation,
         reservations[b].status = "absent", reservations' = [reservations EXCEPT ![b] = row],
         row.status = "hold", row.asset \in Assets, row.window \in Windows, Free(b, row.asset, row.window),
         Finish(r), UNCHANGED <<deposits, payments, drafts>>
  PROVE  IInv'
<1>1. RowsKept /\ TablesSound'
  BY RowTables DEF Existing
<1>2. HandlerSound(Idle)'
  BY <1>1, IdleFacts, HandlerKept
<1>. QED BY <1>1, <1>2, IdleFacts, Step DEF Finish, IInv, TypeOK

LEMMA InsertHoldStep ==
  ASSUME IInv, NEW r \in Requests, NEW b \in ReservationIds, InsertHold(r, b)
  PROVE  IInv'
<1>1. req[r] \in Request /\ req[r].window \in Windows /\ req[r].asset \in Assets
  BY DEF InsertHold, IInv, TypeOK, HandlerSound
<1>2. PICK row : row = [NoReservation EXCEPT !.status = "hold", !.asset = req[r].asset,
                          !.window = req[r].window, !.citizen = req[r].citizen]
  OBVIOUS
<1>3. row \in Reservation /\ row.status = "hold" /\ row.asset = req[r].asset /\ row.window = req[r].window
  BY <1>1, <1>2 DEF NoReservation, Reservation, Request, Notes
<1>. QED BY <1>1, <1>2, <1>3, NewHold DEF InsertHold, ExclusionAllows

LEMMA AssignUnitStep ==
  ASSUME IInv, NEW r \in Requests, NEW b \in ReservationIds, NEW asset \in Fleet, AssignUnit(r, b, asset)
  PROVE  IInv'
<1>1. req[r] \in Request /\ req[r].window \in Windows /\ asset \in Assets
  BY AssetAssumption DEF AssignUnit, IInv, TypeOK, HandlerSound
<1>2. PICK row : row = [NoReservation EXCEPT !.status = "hold", !.note = req[r].note, !.asset = asset,
                          !.window = req[r].window, !.citizen = req[r].citizen]
  OBVIOUS
<1>3. row \in Reservation /\ row.status = "hold" /\ row.asset = asset /\ row.window = req[r].window
  BY <1>1, <1>2 DEF NoReservation, Reservation, Request
<1>. QED BY <1>1, <1>2, <1>3, NewHold DEF AssignUnit

-----------------------------------------------------------------------------
(* The steps that only move a handler on *)

\* A handler keeps its locals and learns no more than it has checked.
LEMMA GotoStep ==
  ASSUME IInv, NEW r \in Requests, NEW step \in Steps, Goto(r, step),
         UNCHANGED <<reservations, deposits, payments, drafts>>,
         req[r].pc \in CitizenSteps,
         step \in {"create_deposit", "create_payment", "check_deposit", "check_rent", "count_numbers"},
         step \in PaidSteps =>
           \/ DepositDue[reservations[req[r].id].asset] = 0
           \/ DepositPaid(req[r].deposit, req[r].citizen, DepositDue[reservations[req[r].id].asset]),
         step \in RentSteps /\ NeedsRent(req[r].note, req[r].id) =>
           RentSettled(req[r].id, RentDue(req[r].note, req[r].id))
  PROVE  IInv'
<1>1. PICK q \in Request : /\ req' = [req EXCEPT ![r] = q]
                           /\ q.pc = step /\ q.id = req[r].id /\ q.citizen = req[r].citizen
                           /\ q.deposit = req[r].deposit /\ q.payment = req[r].payment
                           /\ q.note = req[r].note
  BY GotoFacts
<1>2. req[r].id \in Existing /\ req[r].citizen = reservations[req[r].id].citizen
  BY DEF IInv, HandlerSound, RowSteps
<1>3. req[r].payment # None => Settled(req[r].payment)
  BY DEF IInv, HandlerSound
<1>4. HandlerSound(q)
  BY <1>1, <1>2, <1>3 DEF HandlerSound, ApprovedSteps
<1>. QED BY <1>1, <1>4, ReadStep

LEMMA FindActivePaymentStep ==
  ASSUME IInv, NEW r \in Requests, FindActivePayment(r)
  PROVE  IInv'
<1>1. req[r].pc \in CitizenSteps
  BY DEF FindActivePayment, CitizenSteps, PaidSteps, RentSteps
<1>2. CASE Finish(r)
  BY <1>2, FinishStep DEF FindActivePayment
<1>3. ASSUME NEW step \in {"create_deposit", "create_payment"}, Goto(r, step) PROVE IInv'
  BY <1>1, <1>3, GotoStep DEF FindActivePayment, Steps, PaidSteps, RentSteps
<1>. QED BY <1>2, <1>3 DEF FindActivePayment

LEMMA CheckDepositStep ==
  ASSUME IInv, NEW r \in Requests, CheckDeposit(r)
  PROVE  IInv'
<1>1. req[r].pc \in CitizenSteps /\ req[r] \in Request
  BY DEF CheckDeposit, CitizenSteps, PaidSteps, RentSteps, IInv, TypeOK
<1>2. CASE Finish(r)
  BY <1>2, FinishStep DEF CheckDeposit
<1>3. CASE ~Finish(r)
  <2>1. PICK step : /\ step = IF NeedsRent(req[r].note, req[r].id) THEN "check_rent" ELSE "count_numbers"
                    /\ Goto(r, step)
    BY <1>3 DEF CheckDeposit
  <2>2. \/ DepositDue[reservations[req[r].id].asset] = 0
        \/ DepositCaptured(req[r].deposit, req[r].citizen, DepositDue[reservations[req[r].id].asset])
    BY <1>3 DEF CheckDeposit
  <2>3. \/ DepositDue[reservations[req[r].id].asset] = 0
        \/ DepositPaid(req[r].deposit, req[r].citizen, DepositDue[reservations[req[r].id].asset])
    BY <1>1, <2>2 DEF DepositCaptured, DepositPaid, Request
  <2>4. step \in Steps /\ step \in {"check_rent", "count_numbers"}
        /\ (step \in RentSteps => ~NeedsRent(req[r].note, req[r].id))
    BY <2>1 DEF Steps, RentSteps
  <2>5. UNCHANGED <<reservations, deposits, payments, drafts>>
    BY DEF CheckDeposit
  <2>. QED BY <1>1, <2>1, <2>3, <2>4, <2>5, GotoStep
<1>. QED BY <1>2, <1>3

LEMMA CheckRentStep ==
  ASSUME IInv, NEW r \in Requests, CheckRent(r)
  PROVE  IInv'
<1>1. req[r].pc \in CitizenSteps /\ req[r].pc \in PaidSteps
  BY DEF CheckRent, CitizenSteps, PaidSteps
<1>2. CASE Finish(r)
  BY <1>2, FinishStep DEF CheckRent
<1>3. CASE ~Finish(r)
  <2>1. Goto(r, "count_numbers") /\ RentSettled(req[r].id, RentDue(req[r].note, req[r].id))
    BY <1>3 DEF CheckRent
  <2>2. \/ DepositDue[reservations[req[r].id].asset] = 0
        \/ DepositPaid(req[r].deposit, req[r].citizen, DepositDue[reservations[req[r].id].asset])
    BY <1>1 DEF IInv, HandlerSound
  <2>. QED BY <1>1, <2>1, <2>2, GotoStep DEF CheckRent, Steps
<1>. QED BY <1>2, <1>3

LEMMA CountNumbersStep ==
  ASSUME IInv, NEW r \in Requests, CountNumbers(r)
  PROVE  IInv'
<1>1. req[r] \in Request /\ NextBookingNo \in Nat
  BY NumberIsNatural DEF IInv, TypeOK
<1>2. PICK q : q = [req[r] EXCEPT !.number = NextBookingNo, !.pc = "save_confirmed"]
  OBVIOUS
<1>3. /\ q \in Request /\ q.pc = "save_confirmed" /\ q.id = req[r].id /\ q.citizen = req[r].citizen
      /\ q.deposit = req[r].deposit /\ q.payment = req[r].payment /\ q.note = req[r].note
  BY <1>1, <1>2 DEF Request, Steps
<1>4. req' = [req EXCEPT ![r] = q]
  BY <1>2 DEF CountNumbers, IInv, TypeOK
<1>5. HandlerSound(req[r]) /\ req[r].pc = "count_numbers"
  BY DEF IInv, CountNumbers
<1>6. HandlerSound(q)
  BY <1>3, <1>5 DEF HandlerSound, ApprovedSteps, RentSteps, PaidSteps, CitizenSteps, RowSteps
<1>. QED BY <1>3, <1>4, <1>6, ReadStep DEF CountNumbers

LEMMA FindApprovedHoldStep ==
  ASSUME IInv, NEW r \in Requests, NEW b \in ReservationIds, FindApprovedHold(r, b)
  PROVE  IInv'
<1>1. req[r] \in Request /\ reservations[b] \in Reservation /\ b \in Existing
  BY RowFacts DEF FindApprovedHold, IInv, TypeOK
<1>2. PICK step \in {"check_deposit", "create_deposit", "approved_deposit"} :
        step = IF DepositDue[reservations[b].asset] = 0 THEN "check_deposit"
               ELSE IF reservations[b].deposit = None THEN "create_deposit" ELSE "approved_deposit"
  OBVIOUS
<1>3. PICK q : q = [req[r] EXCEPT !.id = b, !.citizen = reservations[b].citizen,
                                  !.note = reservations[b].note, !.deposit = reservations[b].deposit,
                                  !.pc = step]
  OBVIOUS
<1>4. q.pc = step /\ q.id = b /\ q.citizen = reservations[b].citizen /\ q.payment = req[r].payment
  BY <1>1, <1>3 DEF Request
<1>5. q \in Request
  <2>1. reservations[b].citizen \in Citizens \cup {None} /\ reservations[b].deposit \in DepositIds \cup {None}
       /\ reservations[b].note \in Notes
    BY <1>1 DEF Reservation
  <2>2. step \in Steps
    BY <1>2 DEF Steps
  <2>. QED BY <1>1, <1>3, <2>1, <2>2 DEF Request
<1>6. req' = [req EXCEPT ![r] = q]
  BY <1>2, <1>3 DEF FindApprovedHold, IInv, TypeOK
<1>7. req[r].payment # None /\ Settled(req[r].payment)
  BY DEF FindApprovedHold, IInv, HandlerSound, ApprovedSteps
<1>8. HandlerSound(q)
  BY <1>1, <1>2, <1>4, <1>7 DEF HandlerSound, RentSteps, PaidSteps
<1>. QED BY <1>5, <1>6, <1>8, ReadStep DEF FindApprovedHold

\* The rest gives up.
LEMMA RefusalSteps ==
  ASSUME IInv, NEW r \in Requests,
         \/ RefuseHold(r) \/ RefuseUnit(r) \/ RejectUsedKey(r) \/ NoApprovedHold(r) \/ RefuseConfirmation(r)
  PROVE  IInv'
  BY FinishStep DEF RefuseHold, RefuseUnit, RejectUsedKey, NoApprovedHold, RefuseConfirmation

-----------------------------------------------------------------------------
(* Writes to a reservation that exists *)

\* The row stays what its handlers know it to be.
LEMMA RewriteTables ==
  ASSUME IInv, NEW b \in Existing, NEW row \in Reservation,
         reservations' = [reservations EXCEPT ![b] = row], UNCHANGED <<deposits, payments>>,
         row.status # "absent",
         row.asset = reservations[b].asset, row.window = reservations[b].window,
         row.citizen = reservations[b].citizen,
         row.status \in {"hold", "confirmed"} => Free(b, row.asset, row.window)
  PROVE  RowsKept /\ TablesSound'
<1>1. b \in ReservationIds /\ reservations[b].asset \in Assets /\ reservations[b].window \in Windows
  BY DEF IInv, ReservationSound, Existing
<1>. QED BY <1>1, RowTables

LEMMA LinkDepositStep ==
  ASSUME IInv, NEW r \in Requests, LinkDeposit(r)
  PROVE  IInv'
<1>1. /\ req[r] \in Request /\ req[r].id \in Existing /\ req[r].id \in ReservationIds
      /\ reservations[req[r].id] \in Reservation
  BY DEF LinkDeposit, IInv, TypeOK, HandlerSound, RowSteps, CitizenSteps, Existing
<1>2. PICK b : b = req[r].id
  OBVIOUS
<1>3. PICK row : row = [reservations[b] EXCEPT !.deposit = req[r].deposit]
  OBVIOUS
<1>4. /\ row \in Reservation /\ row.status = reservations[b].status
      /\ row.asset = reservations[b].asset /\ row.window = reservations[b].window
      /\ row.citizen = reservations[b].citizen
  BY <1>1, <1>2, <1>3 DEF Reservation, Request
<1>5. reservations' = [reservations EXCEPT ![b] = row]
  BY <1>2, <1>3 DEF LinkDeposit, IInv, TypeOK
<1>6. RowsKept /\ TablesSound'
  BY <1>1, <1>2, <1>4, <1>5, RewriteTables, ActiveIsFree DEF LinkDeposit, Existing, Active
<1>7. PICK step \in {"create_payment", "check_deposit"} : Goto(r, step)
  BY DEF LinkDeposit
<1>8. PICK q \in Request : /\ req' = [req EXCEPT ![r] = q]
                           /\ q.pc = step /\ q.id = req[r].id /\ q.citizen = req[r].citizen
                           /\ q.deposit = req[r].deposit /\ q.payment = req[r].payment
  BY <1>7, GotoFacts DEF Steps
<1>9. HandlerSound(req[r]) /\ req[r].pc = "link_deposit"
  BY DEF IInv, LinkDeposit
<1>10. HandlerSound(q)
  BY <1>7, <1>8, <1>9 DEF HandlerSound, ApprovedSteps, RentSteps, PaidSteps, CitizenSteps, RowSteps
<1>11. HandlerSound(q)'
  BY <1>6, <1>10, HandlerKept
<1>. QED BY <1>6, <1>8, <1>11, Step DEF LinkDeposit, IInv, TypeOK

\* The handler ends with its write.
LEMMA LastWrite ==
  ASSUME IInv, NEW r \in Requests, NEW b \in Existing, NEW row \in Reservation,
         reservations' = [reservations EXCEPT ![b] = row], Finish(r), UNCHANGED <<deposits, payments, drafts>>,
         row.status # "absent",
         row.asset = reservations[b].asset, row.window = reservations[b].window,
         row.citizen = reservations[b].citizen,
         row.status \in {"hold", "confirmed"} => Free(b, row.asset, row.window)
  PROVE  IInv'
<1>1. RowsKept /\ TablesSound'
  BY RewriteTables
<1>2. HandlerSound(Idle)'
  BY <1>1, IdleFacts, HandlerKept
<1>. QED BY <1>1, <1>2, IdleFacts, Step DEF Finish, IInv, TypeOK

LEMMA SaveLinkStep ==
  ASSUME IInv, NEW r \in Requests, SaveLink(r)
  PROVE  IInv'
<1>1. /\ req[r] \in Request /\ req[r].id \in Existing /\ req[r].id \in ReservationIds
      /\ reservations[req[r].id] \in Reservation
  BY DEF SaveLink, IInv, TypeOK, HandlerSound, RowSteps, Existing
<1>2. PICK b : b = req[r].id
  OBVIOUS
<1>3. PICK a, note : a = req[r].application /\ note = LinkedNote(req[r].note)
  OBVIOUS
<1>4. PICK row : row = [reservations[b] EXCEPT !.application = a, !.note = note]
  OBVIOUS
<1>5. /\ row \in Reservation /\ row.status = reservations[b].status
      /\ row.asset = reservations[b].asset /\ row.window = reservations[b].window
      /\ row.citizen = reservations[b].citizen
  <2>1. a \in Applications \cup {None} /\ note \in Notes
    BY <1>1, <1>3 DEF Request, LinkedNote, Notes
  <2>. QED BY <1>1, <1>2, <1>4, <2>1 DEF Reservation
<1>6. reservations' = [reservations EXCEPT ![b] = row]
  <2>1. reservations' = [reservations EXCEPT ![b].application = a, ![b].note = note]
    BY <1>2, <1>3 DEF SaveLink
  <2>2. reservations \in [ReservationIds -> Reservation]
    BY DEF IInv, TypeOK
  <2>. QED BY <1>1, <1>2, <1>4, <2>1, <2>2
<1>7. row.status \in {"hold", "confirmed"} => Free(b, row.asset, row.window)
  BY <1>1, <1>2, <1>5, ActiveIsFree DEF Active
<1>. QED BY <1>1, <1>2, <1>5, <1>6, <1>7, LastWrite DEF SaveLink, Existing

LEMMA SaveCancelledStep ==
  ASSUME IInv, NEW r \in Requests, SaveCancelled(r)
  PROVE  IInv'
<1>1. /\ req[r].id \in Existing /\ req[r].id \in ReservationIds
      /\ reservations[req[r].id] \in Reservation
  BY DEF SaveCancelled, IInv, TypeOK, HandlerSound, RowSteps, Existing
<1>2. PICK b : b = req[r].id
  OBVIOUS
<1>3. PICK row : row = [reservations[b] EXCEPT !.status = "cancelled"]
  OBVIOUS
<1>4. /\ row \in Reservation /\ row.status = "cancelled"
      /\ row.asset = reservations[b].asset /\ row.window = reservations[b].window
      /\ row.citizen = reservations[b].citizen
  BY <1>1, <1>2, <1>3 DEF Reservation
<1>5. reservations' = [reservations EXCEPT ![b] = row]
  BY <1>2, <1>3 DEF SaveCancelled, IInv, TypeOK
<1>. QED BY <1>1, <1>2, <1>4, <1>5, LastWrite DEF SaveCancelled

\* What a confirmation writes.
LEMMA ConfirmationFacts ==
  ASSUME IInv, NEW r \in Requests, SaveConfirmed(r)
  PROVE  /\ req[r].id \in Existing
         /\ \E row \in Reservation :
              /\ reservations' = [reservations EXCEPT ![req[r].id] = row]
              /\ row.status = "confirmed" /\ row.deposit = req[r].deposit
              /\ row.asset = reservations[req[r].id].asset /\ row.window = reservations[req[r].id].window
              /\ row.citizen = reservations[req[r].id].citizen
<1>1. /\ req[r] \in Request /\ req[r].id \in Existing /\ req[r].id \in ReservationIds
      /\ reservations \in [ReservationIds -> Reservation] /\ reservations[req[r].id] \in Reservation
  BY DEF SaveConfirmed, IInv, TypeOK, HandlerSound, RowSteps, CitizenSteps, PaidSteps, RentSteps, Existing
<1>2. PICK b, d, a, n : b = req[r].id /\ d = req[r].deposit /\ a = req[r].application /\ n = req[r].number
  OBVIOUS
<1>3. PICK row : row = [reservations[b] EXCEPT !.status = "confirmed", !.number = n, !.deposit = d,
                                               !.application = a]
  OBVIOUS
<1>4. d \in DepositIds \cup {None} /\ a \in Applications \cup {None} /\ n \in Nat
  BY <1>1, <1>2 DEF Request
<1>5. /\ row.status = "confirmed" /\ row.deposit = d
      /\ row.asset = reservations[b].asset /\ row.window = reservations[b].window
      /\ row.citizen = reservations[b].citizen
  BY <1>1, <1>2, <1>3 DEF Reservation
<1>6. row \in Reservation
  BY <1>1, <1>2, <1>3, <1>4 DEF Reservation
<1>7. reservations' = [reservations EXCEPT ![b].status = "confirmed", ![b].number = n,
                                           ![b].deposit = d, ![b].application = a]
  BY <1>2 DEF SaveConfirmed
<1>8. reservations' = [reservations EXCEPT ![b] = row]
  BY <1>1, <1>2, <1>3, <1>7
<1>. QED BY <1>1, <1>2, <1>5, <1>6, <1>8

LEMMA SaveConfirmedStep ==
  ASSUME IInv, NEW r \in Requests, SaveConfirmed(r)
  PROVE  IInv'
<1>1. PICK row \in Reservation :
        /\ reservations' = [reservations EXCEPT ![req[r].id] = row]
        /\ row.status = "confirmed"
        /\ row.asset = reservations[req[r].id].asset /\ row.window = reservations[req[r].id].window
        /\ row.citizen = reservations[req[r].id].citizen
  BY ConfirmationFacts
<1>2. Free(req[r].id, row.asset, row.window)
  BY <1>1 DEF SaveConfirmed, CanConfirm, ExclusionAllows
<1>3. req[r].id \in Existing /\ row.status # "absent"
  BY <1>1, ConfirmationFacts
<1>. QED BY <1>1, <1>2, <1>3, LastWrite DEF SaveConfirmed

\* Staff add a reservation.
LEMMA AddBookingStep ==
  ASSUME IInv, NEW b \in ReservationIds, NEW entry \in ManualEntries, AddBookingReservation(b, entry)
  PROVE  IInv'
<1>1. /\ entry \in Reservation /\ entry.status # "absent"
      /\ entry.asset \in Assets /\ entry.window \in Windows
  BY AssetAssumption DEF ManualEntries, Reservation, Notes
<1>2. entry.status \in {"hold", "confirmed"} => Free(b, entry.asset, entry.window)
  BY DEF AddBookingReservation, ExclusionAllows
<1>3. RowsKept /\ TablesSound'
  BY <1>1, <1>2, RowTables DEF AddBookingReservation, Existing
<1>. QED BY <1>3, QuietStep DEF AddBookingReservation, IInv, TypeOK

-----------------------------------------------------------------------------
(* Writes to deposits and payments *)

\* One row of the deposits is written.
LEMMA DepositTables ==
  ASSUME IInv, NEW d \in DepositIds, NEW row \in DepositRow, deposits' = [deposits EXCEPT ![d] = row],
         UNCHANGED <<reservations, payments>>,
         deposits[d].status # "absent" =>
           /\ row.status # "absent" /\ row.citizen = deposits[d].citizen /\ row.amount = deposits[d].amount
           /\ deposits[d].capture # None => row.capture # None,
         row.capture # None => Settled(row.capture)
  PROVE  RowsKept /\ TablesSound'
<1>1. /\ deposits \in [DepositIds -> DepositRow]
      /\ deposits'[d] = row /\ \A e \in DepositIds \ {d} : deposits'[e] = deposits[e]
  BY DEF IInv, TypeOK
<1>2. deposits' \in [DepositIds -> DepositRow]
  BY <1>1
<1>3. ASSUME NEW e \in DepositIds PROVE DepositSound(e)'
  BY <1>1, <1>3 DEF IInv, DepositSound, Settled
<1>4. \A e \in DepositIds : deposits[e].status # "absent" =>
        /\ deposits'[e].status # "absent"
        /\ deposits'[e].citizen = deposits[e].citizen
        /\ deposits'[e].amount = deposits[e].amount
        /\ deposits[e].capture # None => deposits'[e].capture # None
  BY <1>1
<1>. QED BY <1>2, <1>3, <1>4, MoneyTables DEF IInv, TypeOK

LEMMA CreateDepositStep ==
  ASSUME IInv, NEW r \in Requests, NEW d \in DepositIds, CreateDeposit(r, d)
  PROVE  IInv'
<1>1. /\ req[r] \in Request /\ req[r].pc = "create_deposit" /\ HandlerSound(req[r])
      /\ req[r].id \in Existing
  BY DEF CreateDeposit, IInv, TypeOK, HandlerSound, RowSteps, CitizenSteps
<1>2. PICK n \in Nat : n = IF DepositDue[reservations[req[r].id].asset] > 0
                           THEN DepositDue[reservations[req[r].id].asset]
                           ELSE RentDue(req[r].note, req[r].id)
  BY <1>1, RentIsNatural
<1>3. PICK row : row = [status |-> "held", citizen |-> req[r].citizen, amount |-> n, capture |-> req[r].payment]
  OBVIOUS
<1>4. row \in DepositRow /\ row.capture = req[r].payment
  BY <1>1, <1>3 DEF DepositRow, Request
<1>5. deposits' = [deposits EXCEPT ![d] = row]
  BY <1>2, <1>3 DEF CreateDeposit
<1>6. RowsKept /\ TablesSound'
  BY <1>1, <1>4, <1>5, DepositTables DEF CreateDeposit, HandlerSound
<1>7. PICK q : q = [req[r] EXCEPT !.deposit = d, !.pc = "link_deposit"]
  OBVIOUS
<1>8. q.pc = "link_deposit" /\ q.id = req[r].id /\ q.citizen = req[r].citizen /\ q.payment = req[r].payment
  BY <1>1, <1>7 DEF Request
<1>9. q \in Request
  BY <1>1, <1>7 DEF Request, Steps
<1>10. req' = [req EXCEPT ![r] = q]
  BY <1>7 DEF CreateDeposit, IInv, TypeOK
<1>11. HandlerSound(q)
  BY <1>1, <1>8 DEF HandlerSound, ApprovedSteps, RentSteps, PaidSteps, CitizenSteps, RowSteps
<1>12. HandlerSound(q)'
  BY <1>6, <1>11, HandlerKept
<1>. QED BY <1>6, <1>9, <1>10, <1>12, Step DEF CreateDeposit, IInv, TypeOK

LEMMA CaptureApprovedStep ==
  ASSUME IInv, NEW r \in Requests, CaptureApproved(r)
  PROVE  IInv'
<1>1. req[r] \in Request /\ HandlerSound(req[r]) /\ req[r].pc = "approved_deposit"
      /\ deposits \in [DepositIds -> DepositRow]
  BY DEF CaptureApproved, IInv, TypeOK
<1>2. req[r].payment # None /\ Settled(req[r].payment)
  BY <1>1 DEF HandlerSound, ApprovedSteps
<1>3. PICK d, p : d = req[r].deposit /\ p = req[r].payment
  OBVIOUS
<1>4. deposits' = [deposits EXCEPT ![d].capture = p, ![d].status = "held"]
  BY <1>3 DEF CaptureApproved
<1>5. RowsKept /\ TablesSound'
  <2>1. CASE d \notin DepositIds
    <3>1. deposits' = deposits
      BY <1>1, <1>4, <2>1
    <3>. QED BY <3>1, TablesKept DEF CaptureApproved
  <2>2. CASE d \in DepositIds
    <3>1. PICK row : row = [deposits[d] EXCEPT !.capture = p, !.status = "held"]
      OBVIOUS
    <3>2. /\ row \in DepositRow /\ row.status = "held" /\ row.capture = p
          /\ row.citizen = deposits[d].citizen /\ row.amount = deposits[d].amount
      BY <1>1, <1>2, <1>3, <2>2, <3>1 DEF DepositRow, Settled
    <3>3. deposits' = [deposits EXCEPT ![d] = row]
      BY <1>1, <1>4, <2>2, <3>1
    <3>4. row.capture # None /\ Settled(row.capture)
      BY <1>2, <1>3, <3>2 DEF Settled
    <3>5. UNCHANGED <<reservations, payments>>
      BY DEF CaptureApproved
    <3>. QED BY <2>2, <3>2, <3>3, <3>4, <3>5, DepositTables
  <2>. QED BY <2>1, <2>2
<1>6. PICK q \in Request : /\ req' = [req EXCEPT ![r] = q]
                           /\ q.pc = "check_deposit" /\ q.id = req[r].id /\ q.citizen = req[r].citizen
                           /\ q.payment = req[r].payment
  BY GotoFacts DEF CaptureApproved, Steps
<1>7. HandlerSound(q)
  BY <1>1, <1>6 DEF HandlerSound, ApprovedSteps, RentSteps, PaidSteps, CitizenSteps, RowSteps
<1>8. HandlerSound(q)'
  BY <1>5, <1>7, HandlerKept
<1>. QED BY <1>5, <1>6, <1>8, Step DEF CaptureApproved, IInv, TypeOK

LEMMA ReleaseDepositStep ==
  ASSUME IInv, NEW d \in DepositIds, ReleaseDeposit(d)
  PROVE  IInv'
<1>1. deposits \in [DepositIds -> DepositRow] /\ DepositSound(d)
  BY DEF IInv, TypeOK
<1>2. PICK row : row = [deposits[d] EXCEPT !.status = "released"]
  OBVIOUS
<1>3. /\ row \in DepositRow /\ row.status = "released" /\ row.capture = deposits[d].capture
      /\ row.citizen = deposits[d].citizen /\ row.amount = deposits[d].amount
  BY <1>1, <1>2 DEF DepositRow
<1>4. deposits' = [deposits EXCEPT ![d] = row]
  BY <1>1, <1>2 DEF ReleaseDeposit
<1>5. RowsKept /\ TablesSound'
  BY <1>1, <1>3, <1>4, DepositTables DEF ReleaseDeposit, DepositSound
<1>. QED BY <1>5, QuietStep DEF ReleaseDeposit, IInv, TypeOK

LEMMA CreatePendingPaymentStep ==
  ASSUME IInv, NEW r \in Requests, NEW p \in PaymentIds, CreatePendingPayment(r, p)
  PROVE  IInv'
<1>1. /\ req[r] \in Request /\ payments \in [PaymentIds -> PaymentRow] /\ req[r].id \in Existing
      /\ \E amount \in Nat :
           payments' = [payments EXCEPT ![p] =
                          [status |-> "requires_action", reservation |-> req[r].id, amount |-> amount]]
  <2>1. req[r] \in Request /\ payments \in [PaymentIds -> PaymentRow] /\ req[r].id \in Existing
    BY DEF CreatePendingPayment, IInv, TypeOK, HandlerSound, RowSteps, CitizenSteps
  <2>2. Amounts(req[r].note, req[r].id) \subseteq Nat
    BY <2>1, RentIsNatural DEF Amounts
  <2>. QED BY <2>1, <2>2 DEF CreatePendingPayment
<1>2. payments' \in [PaymentIds -> PaymentRow]
  BY <1>1 DEF PaymentRow, Request
<1>3. ASSUME NEW x \in PaymentIds, payments[x].status = "settled" PROVE payments'[x] = payments[x]
  BY <1>1, <1>3 DEF CreatePendingPayment
<1>4. \A d \in DepositIds : DepositSound(d)'
  BY <1>3 DEF CreatePendingPayment, IInv, DepositSound, Settled
<1>5. RowsKept /\ TablesSound'
  BY <1>2, <1>3, <1>4, MoneyTables DEF CreatePendingPayment, IInv, TypeOK
<1>6. HandlerSound(Idle)'
  BY <1>5, IdleFacts, HandlerKept
<1>. QED BY <1>5, <1>6, IdleFacts, Step DEF CreatePendingPayment, Finish, IInv, TypeOK

\* The payment is settled and the deposit captured in one step, so no deposit is captured by less.
LEMMA CompletePaymentStep ==
  ASSUME IInv, NEW p \in PaymentIds, CompletePayment(p)
  PROVE  IInv'
<1>1. PICK e : Capture(e, p)
  BY DEF CompletePayment, SettleAndCapture
<1>2. /\ payments \in [PaymentIds -> PaymentRow] /\ deposits \in [DepositIds -> DepositRow]
      /\ payments' = [payments EXCEPT ![p].status = "settled"]
  BY DEF CompletePayment, SettleAndCapture, IInv, TypeOK
<1>3. payments' \in [PaymentIds -> PaymentRow] /\ payments'[p].status = "settled"
  BY <1>2 DEF PaymentRow
<1>4. ASSUME NEW x \in PaymentIds, payments[x].status = "settled" PROVE payments'[x] = payments[x]
  BY <1>2, <1>4 DEF CompletePayment
<1>5. ASSUME NEW d \in DepositIds
      PROVE  /\ deposits'[d] \in DepositRow
             /\ deposits'[d].status = deposits[d].status
             /\ deposits'[d].citizen = deposits[d].citizen
             /\ deposits'[d].amount = deposits[d].amount
             /\ deposits'[d].capture \in {p, deposits[d].capture}
  BY <1>1, <1>2 DEF Capture, DepositRow
<1>6. deposits' \in [DepositIds -> DepositRow]
  BY <1>1, <1>5 DEF Capture
<1>7. ASSUME NEW d \in DepositIds PROVE DepositSound(d)'
  BY <1>3, <1>4, <1>5 DEF DepositSound, Settled, IInv
<1>8. p # None
  BY NoneAssumption
<1>9. RowsKept /\ TablesSound'
  BY <1>3, <1>4, <1>5, <1>6, <1>7, <1>8, MoneyTables DEF CompletePayment
<1>. QED BY <1>9, QuietStep DEF CompletePayment, IInv, TypeOK

-----------------------------------------------------------------------------
(* The theorems *)

LEMMA ProceedSteps ==
  ASSUME IInv, NEW r \in Requests, Proceed(r)
  PROVE  IInv'
  BY InsertHoldStep, AssignUnitStep, FindApprovedHoldStep, CreateDepositStep, CreatePendingPaymentStep,
     FindActivePaymentStep, LinkDepositStep, SaveLinkStep, CaptureApprovedStep, CheckDepositStep,
     CheckRentStep, CountNumbersStep, SaveConfirmedStep, SaveCancelledStep, RefusalSteps DEF Proceed

LEMMA NextIInv == IInv /\ [Next]_vars => IInv'
<1>. SUFFICES ASSUME IInv, [Next]_vars PROVE IInv'
  OBVIOUS
<1>1. CASE UNCHANGED vars
  BY <1>1, TablesKept, QuietStep DEF vars, IInv, TypeOK
<1>2. ASSUME NEW a \in Applications, SubmitDraft(a) PROVE IInv'
  BY <1>2, TablesKept, QuietStep DEF SubmitDraft, IInv, TypeOK
<1>. QED BY <1>1, <1>2, CallSteps, ProceedSteps, AddBookingStep, CompletePaymentStep,
     ReleaseDepositStep DEF Next

\* The tables and the handlers' locals keep their shape; in particular the number counted for a
\* booking is a natural, since the table is finite.
THEOREM TypeCorrect == Spec => []TypeOK
<1>1. IInv => TypeOK
  BY DEF IInv
<1>. QED BY <1>1, InitIInv, NextIInv, PTL DEF Spec

\* No slot of an asset is held or confirmed twice, for any number of handlers, though a handler may
\* revive a cancelled reservation by its id (finalizeHoldConfirmation) or staff add one in any status:
\* the exclusion constraint stands behind every write that makes a row active.
THEOREM NoOverlapHolds == Spec => []NoOverlap
<1>1. IInv => NoOverlap
  BY DEF IInv
<1>. QED BY <1>1, InitIInv, NextIInv, PTL DEF Spec

\* Only the handler's last step takes it from the save of a confirmation to rest and writes a row.
LEMMA ConfirmationIsSaved ==
  ASSUME IInv, [Next]_vars, NEW r \in Requests, NEW b \in ReservationIds,
         req[r].pc = "save_confirmed", req'[r].pc = "idle", reservations'[b] # reservations[b]
  PROVE  SaveConfirmed(r)
<1>1. req \in [Requests -> Request]
  BY DEF IInv, TypeOK
<1>2. req' # req /\ reservations' # reservations
  OBVIOUS
<1>3. ASSUME NEW s \in Requests, Call(s) PROVE FALSE
  BY <1>2, <1>3 DEF Call, CreateAssetHold, CreateHealthFleetHold, InitiateForHold, ConfirmHold,
     CancelReservation, LinkApplicationToHold, ConfirmHoldForDeskApplication,
     CancelHoldForDeskApplication, ApprovalFeePaid
<1>4. ASSUME NEW s \in Requests, Proceed(s), ~SaveConfirmed(r) PROVE FALSE
  <2>1. CASE s # r
    <3>1. Finish(s) \/ (\E step : Goto(s, step))
      BY <1>2, <1>4 DEF Proceed, InsertHold, FindApprovedHold, AssignUnit, CreateDeposit,
         CreatePendingPayment, RefuseHold, FindActivePayment, LinkDeposit, RejectUsedKey, SaveLink,
         NoApprovedHold, CaptureApproved, CheckDeposit, CheckRent, CountNumbers, RefuseUnit,
         SaveConfirmed, RefuseConfirmation, SaveCancelled
    <3>2. req'[r] = req[r]
      BY <1>1, <2>1, <3>1 DEF Finish, Goto
    <3>. QED BY <3>2
  <2>2. CASE s = r
    BY <1>2, <1>4, <2>2 DEF Proceed, InsertHold, FindApprovedHold, AssignUnit, CreateDeposit,
       CreatePendingPayment, RefuseHold, FindActivePayment, LinkDeposit, RejectUsedKey, SaveLink,
       NoApprovedHold, CaptureApproved, CheckDeposit, CheckRent, CountNumbers, RefuseUnit,
       RefuseConfirmation, SaveCancelled
  <2>. QED BY <2>1, <2>2
<1>. QED BY <1>2, <1>3, <1>4 DEF Next, vars, AddBookingReservation, CompletePayment, ReleaseDeposit,
     SubmitDraft

\* What the handler knows of the row it confirms is what the row must be secured by.
LEMMA ConfirmationSecures ==
  ASSUME IInv, NEW r \in Requests, NEW b, NEW note, b = req[r].id, note = req[r].note, SaveConfirmed(r)
  PROVE  Secured(b, note)'
<1>1. PICK d : d = req[r].deposit
  OBVIOUS
<1>2. PICK row \in Reservation :
        /\ reservations' = [reservations EXCEPT ![b] = row]
        /\ row.deposit = d
        /\ row.asset = reservations[b].asset /\ row.window = reservations[b].window
        /\ row.citizen = reservations[b].citizen
  BY <1>1, ConfirmationFacts
<1>3. b \in Existing /\ b \in ReservationIds /\ reservations'[b] = row
  BY <1>1, <1>2, ConfirmationFacts DEF Existing, IInv, TypeOK
<1>4. HandlerSound(req[r]) /\ req[r].pc = "save_confirmed"
  BY DEF IInv, SaveConfirmed
<1>5. /\ req[r].citizen = row.citizen
      /\ DepositDue[row.asset] = 0 \/ DepositPaid(d, row.citizen, DepositDue[row.asset])
      /\ NeedsRent(note, b) => RentSettled(b, RentDue(note, b))
  BY <1>1, <1>2, <1>4 DEF HandlerSound, CitizenSteps, PaidSteps, RentSteps
<1>6. deposits' = deposits /\ payments' = payments
  BY DEF SaveConfirmed
<1>7. ASSUME DepositDue[row.asset] > 0
      PROVE  /\ d # None /\ deposits[d].capture # None
             /\ row.citizen # None => deposits[d].citizen = row.citizen
             /\ deposits[d].amount = DepositDue[row.asset]
             /\ payments[deposits[d].capture].status = "settled"
  <2>1. DepositPaid(d, row.citizen, DepositDue[row.asset])
    BY <1>5, <1>7
  <2>2. d \in DepositIds /\ Settled(deposits[d].capture)
    BY <2>1 DEF DepositPaid, IInv, DepositSound
  <2>. QED BY <2>1, <2>2, NoneAssumption DEF DepositPaid, Settled
<1>8. RentDue(note, b)' = RentDue(note, b)
  BY <1>2, <1>3 DEF RentDue, RentOf
<1>9. NeedsRent(note, b)' =>
        \E p \in PaymentIds : SettledFor(p, b)' /\ payments'[p].amount >= RentDue(note, b)'
  BY <1>5, <1>6, <1>8 DEF NeedsRent, RentSettled, SettledFor
<1>. QED BY <1>2, <1>3, <1>6, <1>7, <1>9 DEF Secured, Captured

\* A reservation is confirmed only with the money it needs, as the tables stand after the write: its
\* deposit captured by a settled payment, of its amount and its citizen's, and for a fleet service a
\* settled payment of the rent due under the note the handler read, less the subsidy if it says so,
\* however long before they were checked and whatever linking did to the note since
\* (finalizeHoldConfirmation, linkApplicationToHold).
THEOREM ConfirmedWhenSecuredHolds == Spec => ConfirmedWhenSecured
<1>. DEFINE Secures == \A r \in Requests, b \in ReservationIds, note \in Notes :
       /\ req[r].pc = "save_confirmed" /\ req[r].id = b /\ req[r].note = note
       /\ req'[r].pc = "idle" /\ reservations'[b] # reservations[b]
       => Secured(b, note)'
<1>1. IInv /\ [Next]_vars => [Secures]_vars
  <2>. SUFFICES ASSUME IInv, [Next]_vars, NEW r \in Requests, NEW b \in ReservationIds,
                       NEW note \in Notes, req[r].pc = "save_confirmed", req[r].id = b,
                       req[r].note = note, req'[r].pc = "idle", reservations'[b] # reservations[b]
                PROVE  Secured(b, note)'
    OBVIOUS
  <2>1. SaveConfirmed(r)
    BY ConfirmationIsSaved
  <2>. QED BY <2>1, ConfirmationSecures
<1>. HIDE DEF Secures
<1>2. Spec => [][Secures]_vars
  BY <1>1, InitIInv, NextIInv, PTL DEF Spec
<1>. QED BY <1>2 DEF Secures, ConfirmedWhenSecured

=============================================================================
