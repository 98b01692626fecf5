----------------------------- MODULE EvCharging -----------------------------
(***************************************************************************)
(* EV charging sessions (EvChargingService): a hold on a charger, start,    *)
(* stop, payment and confirmation, and the release of expired holds that    *)
(* every listing and every new hold performs first.                         *)
(*                                                                         *)
(* Each handler reads the session, decides, and later writes it by its id   *)
(* alone, so another handler's write may fall in between.  Only the two     *)
(* partial unique indexes on active sessions stand behind the decisions.    *)
(* Completing a payment is one atomic step here: Payments models it in full *)
(* and proves that it happens once.  Tariffs do not change: an amount is a  *)
(* number of meter increments.                                              *)
(***************************************************************************)
EXTENDS Naturals, FiniteSets

CONSTANTS
  Chargers,      \* active chargers of one municipality
  Citizens,
  SessionIds,    \* identifiers the ev_sessions table may yield
  PaymentIds,    \* identifiers randomUUID() may yield
  Keys,          \* Idempotency-Key headers a citizen sends
  Requests,      \* handlers that can be in flight at one time
  None

ASSUME NoneAssumption == None \notin Chargers \cup Citizens \cup SessionIds \cup PaymentIds \cup Keys

Statuses == {"absent", "HELD", "CHARGING", "COMPLETED", "CANCELLED"}

Session == [status  : Statuses,
            charger : Chargers \cup {None},
            citizen : Citizens \cup {None},
            elapsed : BOOLEAN,           \* hold_expires_at has passed
            ended   : BOOLEAN,           \* ended_at is set
            amount  : Nat,
            payment : PaymentIds \cup {None}]

PaymentRow == [status  : {"absent", "requires_action", "settled"},
               session : SessionIds \cup {None},
               amount  : Nat]

Steps == {"idle", "find_expired", "cancel_expired", "check_charger", "check_citizen", "insert",
          "save_start", "start_meter", "stop_meter", "save_stop",
          "find_key", "find_active", "create_payment", "check_payment", "save_completion"}

\* A handler's locals; overdue is an observation: the holds expired when it was called.
Request == [pc : Steps, session : SessionIds \cup {None}, citizen : Citizens \cup {None},
            charger : Chargers \cup {None}, key : Keys \cup {None},
            payment : PaymentIds \cup {None}, amount : Nat,
            found : SUBSET SessionIds, overdue : SUBSET SessionIds]

VARIABLES
  sessions,     \* the ev_sessions table
  meter,        \* StubEvMeterProvider: increments counted per session
  payments,     \* payments with an ev_session_id
  idempotency,  \* payment_idempotency_keys: (citizen, key) -> payment
  req           \* the handlers in flight

vars == <<sessions, meter, payments, idempotency, req>>

NoSession == [status |-> "absent", charger |-> None, citizen |-> None, elapsed |-> FALSE,
              ended |-> FALSE, amount |-> 0, payment |-> None]

Idle == [pc |-> "idle", session |-> None, citizen |-> None, charger |-> None, key |-> None,
         payment |-> None, amount |-> 0, found |-> {}, overdue |-> {}]

TypeOK ==
  /\ sessions \in [SessionIds -> Session]
  /\ meter \in [SessionIds -> Nat]
  /\ payments \in [PaymentIds -> PaymentRow]
  /\ idempotency \in [Citizens \X Keys -> PaymentIds \cup {None}]
  /\ req \in [Requests -> Request]

Init ==
  /\ sessions = [s \in SessionIds |-> NoSession]
  /\ meter = [s \in SessionIds |-> 0]
  /\ payments = [p \in PaymentIds |-> [status |-> "absent", session |-> None, amount |-> 0]]
  /\ idempotency = [k \in Citizens \X Keys |-> None]
  /\ req = [r \in Requests |-> Idle]

-----------------------------------------------------------------------------
(* What the handlers ask the tables *)

Active(s) == sessions[s].status \in {"HELD", "CHARGING"}

\* isEvChargingHoldExpired: only a HELD session still has a hold_expires_at to pass.
Expired(s) == sessions[s].status = "HELD" /\ sessions[s].elapsed

\* ev_sessions_active_charger_idx and ev_sessions_active_citizen_idx let row s be active;
\* the mutant is the table without the second.  A new row is None.
ChargerIndexOnly(s, charger, citizen) ==
  \A t \in SessionIds \ {s} : Active(t) => sessions[t].charger # charger

ActiveIndexesAllow(s, charger, citizen) ==
  \A t \in SessionIds \ {s} :
    Active(t) => sessions[t].charger # charger /\ sessions[t].citizen # citizen

\* The session's bill is due: stopped, and not yet completed.
AwaitingPayment(s) == sessions[s].status = "CHARGING" /\ sessions[s].ended

Goto(r, step) == req' = [req EXCEPT ![r].pc = step]
Finish(r)     == req' = [req EXCEPT ![r] = Idle]

Begin(r, step, s) ==
  /\ req[r].pc = "idle"
  /\ req' = [req EXCEPT ![r] = [Idle EXCEPT !.pc = step, !.session = s,
                                            !.citizen = sessions[s].citizen]]

-----------------------------------------------------------------------------
(* createHoldForCitizen and listChargersForCitizen *)

CreateHold(r, citizen, charger) ==
  /\ req[r].pc = "idle"
  /\ req' = [req EXCEPT ![r] = [Idle EXCEPT !.pc = "find_expired", !.citizen = citizen,
                                  !.charger = charger, !.overdue = {s \in SessionIds : Expired(s)}]]
  /\ UNCHANGED <<sessions, meter, payments, idempotency>>

ListChargers(r) ==
  /\ req[r].pc = "idle"
  /\ Goto(r, "find_expired")
  /\ UNCHANGED <<sessions, meter, payments, idempotency>>

\* releaseExpiredEvSessionHolds selects the expired holds of the municipality.  Mutant:
\* only those of the charger that is asked for.
FindExpiredOnCharger(r) ==
  /\ req[r].pc = "find_expired"
  /\ req' = [req EXCEPT ![r].pc = "cancel_expired",
               ![r].found = {s \in SessionIds : Expired(s) /\ sessions[s].charger = req[r].charger}]
  /\ UNCHANGED <<sessions, meter, payments, idempotency>>

FindExpired(r) ==
  /\ req[r].pc = "find_expired"
  /\ req' = [req EXCEPT ![r].pc = "cancel_expired", ![r].found = {s \in SessionIds : Expired(s)}]
  /\ UNCHANGED <<sessions, meter, payments, idempotency>>

\* ... and cancels them by id, whatever they have become meanwhile.
CancelExpired(r) ==
  /\ req[r].pc = "cancel_expired"
  /\ sessions' = [s \in SessionIds |-> IF s \in req[r].found
                                       THEN [sessions[s] EXCEPT !.status = "CANCELLED"]
                                       ELSE sessions[s]]
  /\ IF req[r].charger = None THEN Finish(r) ELSE Goto(r, "check_charger")
  /\ UNCHANGED <<meter, payments, idempotency>>

AssertChargerAvailable(r) ==
  /\ req[r].pc = "check_charger"
  /\ IF \E s \in SessionIds : Active(s) /\ sessions[s].charger = req[r].charger
     THEN Finish(r)
     ELSE Goto(r, "check_citizen")
  /\ UNCHANGED <<sessions, meter, payments, idempotency>>

AssertCitizenHasNoActiveSession(r) ==
  /\ req[r].pc = "check_citizen"
  /\ IF \E s \in SessionIds : Active(s) /\ sessions[s].citizen = req[r].citizen
     THEN Finish(r)
     ELSE Goto(r, "insert")
  /\ UNCHANGED <<sessions, meter, payments, idempotency>>

InsertHold(r, s) ==
  /\ req[r].pc = "insert"
  /\ sessions[s].status = "absent"
  /\ ActiveIndexesAllow(s, req[r].charger, req[r].citizen)
  /\ sessions' = [sessions EXCEPT ![s] = [NoSession EXCEPT !.status = "HELD",
                    !.charger = req[r].charger, !.citizen = req[r].citizen]]
  /\ Finish(r)
  /\ UNCHANGED <<meter, payments, idempotency>>

RejectHold(r) ==
  /\ req[r].pc = "insert"
  /\ ~ActiveIndexesAllow(None, req[r].charger, req[r].citizen)
  /\ Finish(r)
  /\ UNCHANGED <<sessions, meter, payments, idempotency>>

\* Fifteen minutes pass over a hold.
HoldElapses(s) ==
  /\ sessions[s].status = "HELD" /\ ~sessions[s].elapsed
  /\ sessions' = [sessions EXCEPT ![s].elapsed = TRUE]
  /\ UNCHANGED <<meter, payments, idempotency, req>>

-----------------------------------------------------------------------------
(* startSessionForCitizen and stopSessionForCitizen *)

StartSession(r, s) ==
  /\ sessions[s].status = "HELD" /\ ~Expired(s)
  /\ Begin(r, "save_start", s)
  /\ UNCHANGED <<sessions, meter, payments, idempotency>>

\* The update makes the row active again if it was cancelled: the indexes may refuse it.
SaveStart(r) ==
  LET s == req[r].session
      allowed == ActiveIndexesAllow(s, sessions[s].charger, sessions[s].citizen)
  IN /\ req[r].pc = "save_start"
     /\ \/ /\ allowed
           /\ sessions' = [sessions EXCEPT ![s].status = "CHARGING", ![s].elapsed = FALSE]
           /\ Goto(r, "start_meter")
        \/ /\ ~allowed
           /\ Finish(r)
           /\ UNCHANGED sessions
     /\ UNCHANGED <<meter, payments, idempotency>>

StartMeter(r) ==
  /\ req[r].pc = "start_meter"
  /\ meter' = [meter EXCEPT ![req[r].session] = 0]
  /\ Finish(r)
  /\ UNCHANGED <<sessions, payments, idempotency>>

StopSession(r, s) ==
  /\ sessions[s].status = "CHARGING" /\ ~sessions[s].ended
  /\ Begin(r, "stop_meter", s)
  /\ UNCHANGED <<sessions, meter, payments, idempotency>>

\* The meter counts one more increment and the amount is computed from it.
StopMeter(r) ==
  LET counted == meter[req[r].session] + 1
  IN /\ req[r].pc = "stop_meter"
     /\ meter' = [meter EXCEPT ![req[r].session] = counted]
     /\ req' = [req EXCEPT ![r].pc = "save_stop", ![r].amount = counted]
     /\ UNCHANGED <<sessions, payments, idempotency>>

SaveStop(r) ==
  /\ req[r].pc = "save_stop"
  /\ sessions' = [sessions EXCEPT ![req[r].session].ended = TRUE,
                                  ![req[r].session].amount = req[r].amount]
  /\ Finish(r)
  /\ UNCHANGED <<meter, payments, idempotency>>

-----------------------------------------------------------------------------
(* initiatePaymentForCitizen, the settlement, and confirmPaymentForCitizen *)

InitiatePayment(r, s, k) ==
  /\ AwaitingPayment(s)
  /\ req[r].pc = "idle"
  /\ req' = [req EXCEPT ![r] = [Idle EXCEPT !.pc = "find_key", !.session = s, !.key = k,
                                  !.citizen = sessions[s].citizen, !.amount = sessions[s].amount]]
  /\ UNCHANGED <<sessions, meter, payments, idempotency>>

\* A known key replays its payment or conflicts; either way the call ends.
FindIdempotencyRecord(r) ==
  /\ req[r].pc = "find_key"
  /\ IF idempotency[<<req[r].citizen, req[r].key>>] = None THEN Goto(r, "find_active") ELSE Finish(r)
  /\ UNCHANGED <<sessions, meter, payments, idempotency>>

FindActivePayment(r) ==
  /\ req[r].pc = "find_active"
  /\ IF \E p \in PaymentIds : payments[p].status = "requires_action"
                           /\ payments[p].session = req[r].session
     THEN Finish(r)
     ELSE Goto(r, "create_payment")
  /\ UNCHANGED <<sessions, meter, payments, idempotency>>

\* The row createPendingPayment inserts; the mutant gives it the fee line's status.
PendingLineRow(r) ==
  [status |-> "pending", session |-> req[r].session, amount |-> req[r].amount]
PendingPayment(r) ==
  [status |-> "requires_action", session |-> req[r].session, amount |-> req[r].amount]

\* No index keeps a second active payment of the session out, only the key's own.
CreatePendingPayment(r, p) ==
  LET slot == <<req[r].citizen, req[r].key>>
  IN /\ req[r].pc = "create_payment"
     /\ payments[p].status = "absent"
     /\ idempotency[slot] = None
     /\ payments' = [payments EXCEPT ![p] = PendingPayment(r)]
     /\ idempotency' = [idempotency EXCEPT ![slot] = p]
     /\ Finish(r)
     /\ UNCHANGED <<sessions, meter>>

RejectUsedKey(r) ==
  /\ req[r].pc = "create_payment"
  /\ idempotency[<<req[r].citizen, req[r].key>>] # None
  /\ Finish(r)
  /\ UNCHANGED <<sessions, meter, payments, idempotency>>

\* completeEvChargingStubPayment asks nothing of the session.
CompletePayment(p) ==
  /\ payments[p].status = "requires_action"
  /\ payments' = [payments EXCEPT ![p].status = "settled"]
  /\ UNCHANGED <<sessions, meter, idempotency, req>>

\* The caller names a payment, or none: then the active one is looked up.
ConfirmPayment(r, s, p) ==
  /\ AwaitingPayment(s)
  /\ req[r].pc = "idle"
  /\ req' = [req EXCEPT ![r] = [Idle EXCEPT !.pc = "check_payment", !.session = s, !.payment = p,
                                  !.citizen = sessions[s].citizen, !.amount = sessions[s].amount]]
  /\ UNCHANGED <<sessions, meter, payments, idempotency>>

\* Mutant: an attempt awaiting completion is good enough.
ExistingPaymentCovers(p, citizen, amount) ==
  /\ payments[p].status # "absent"
  /\ sessions[payments[p].session].citizen = citizen
  /\ payments[p].amount = amount

\* What confirmation asks of a payment: settled, one of this citizen's, for the amount due.
PaymentCovers(p, citizen, amount) ==
  /\ payments[p].status = "settled"
  /\ sessions[payments[p].session].citizen = citizen
  /\ payments[p].amount = amount

\* The active payment of a call that names none awaits completion, so it is never settled.
CheckPayment(r) ==
  /\ req[r].pc = "check_payment"
  /\ IF /\ req[r].payment # None
        /\ PaymentCovers(req[r].payment, req[r].citizen, req[r].amount)
     THEN Goto(r, "save_completion")
     ELSE Finish(r)
  /\ UNCHANGED <<sessions, meter, payments, idempotency>>

SaveCompletion(r) ==
  /\ req[r].pc = "save_completion"
  /\ sessions' = [sessions EXCEPT ![req[r].session].status = "COMPLETED",
                                  ![req[r].session].payment = req[r].payment]
  /\ Finish(r)
  /\ UNCHANGED <<meter, payments, idempotency>>

-----------------------------------------------------------------------------
Continue(r) ==
  \/ FindExpired(r)
  \/ CancelExpired(r)
  \/ AssertChargerAvailable(r)
  \/ AssertCitizenHasNoActiveSession(r)
  \/ \E s \in SessionIds : InsertHold(r, s)
  \/ RejectHold(r)
  \/ SaveStart(r)
  \/ StartMeter(r)
  \/ StopMeter(r)
  \/ SaveStop(r)
  \/ FindIdempotencyRecord(r)
  \/ FindActivePayment(r)
  \/ \E p \in PaymentIds : CreatePendingPayment(r, p)
  \/ RejectUsedKey(r)
  \/ CheckPayment(r)
  \/ SaveCompletion(r)

Call(r) ==
  \/ ListChargers(r)
  \/ \E citizen \in Citizens, charger \in Chargers : CreateHold(r, citizen, charger)
  \/ \E s \in SessionIds :
       \/ StartSession(r, s)
       \/ StopSession(r, s)
       \/ \E k \in Keys : InitiatePayment(r, s, k)
       \/ \E p \in PaymentIds \cup {None} : ConfirmPayment(r, s, p)

Next ==
  \/ \E r \in Requests : Call(r) \/ Continue(r)
  \/ \E s \in SessionIds : HoldElapses(s)
  \/ \E p \in PaymentIds : CompletePayment(p)

Spec == Init /\ [][Next]_vars

-----------------------------------------------------------------------------
(* Properties *)

\* However holds, late starts and sweeps interleave, a charger never has two active
\* sessions and neither has a citizen (82d plan: "At most one non-terminal session per
\* charger", "At most one active HELD or CHARGING session per citizen").
ExclusiveUse ==
  \A s, t \in SessionIds :
    (Active(s) /\ Active(t) /\ s # t) =>
       sessions[s].charger # sessions[t].charger /\ sessions[s].citizen # sessions[t].citizen

\* A session is completed only by money: it names a settled payment of the citizen who
\* held the charger (confirmPaymentForCitizen).
CompletedIsPaid ==
  \A s \in SessionIds :
    sessions[s].status = "COMPLETED" =>
      \E p \in PaymentIds : /\ sessions[s].payment = p
                            /\ payments[p].status = "settled"
                            /\ sessions[payments[p].session].citizen = sessions[s].citizen

\* A hold that had already expired when a citizen asked for a charger is gone by the time
\* the request looks for what blocks it (82d exit E4: "Hold TTL releases charger").
ExpiredHoldsDoNotBlock ==
  \A r \in Requests :
    req[r].pc \in {"check_charger", "check_citizen", "insert"} =>
      \A s \in req[r].overdue : sessions[s].status # "HELD"

\* 82d plan: after start, "status stays CHARGING until payment confirmed".
ChargingUntilPaid ==
  [][\A s \in SessionIds :
       sessions[s].status = "CHARGING" => sessions'[s].status \in {"CHARGING", "COMPLETED"}]_vars

=============================================================================
