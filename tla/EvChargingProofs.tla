--------------------------- MODULE EvChargingProofs ---------------------------
(***************************************************************************)
(* Proofs about EvCharging for any number of chargers, citizens, sessions,  *)
(* payments and handlers: a charger and a citizen have one active session,  *)
(* a completed session is paid, and expired holds block nobody.             *)
(*                                                                         *)
(* Handlers write by id what they decided on a row they read earlier, so    *)
(* the invariant says what such a row can no longer become: a session that  *)
(* exists keeps its citizen and its charger, never returns to HELD, and a   *)
(* settled payment stays settled for the same session.                      *)
(***************************************************************************)
EXTENDS EvCharging, TLAPS

Booked == {s \in SessionIds : sessions[s].status # "absent"}

HoldSteps    == {"check_charger", "check_citizen", "insert"}
SweepSteps   == {"find_expired", "cancel_expired"}
PaymentSteps == {"find_key", "find_active", "create_payment"}
SessionSteps == PaymentSteps \cup
                {"save_start", "start_meter", "stop_meter", "save_stop", "check_payment", "save_completion"}

\* A payment that can complete a session of the citizen.
PaidBy(p, citizen) ==
  /\ p \in PaymentIds
  /\ payments[p].status = "settled"
  /\ sessions[payments[p].session].citizen = citizen

\* A row of ev_sessions: whose it is and where, and paid for once completed.
SessionSound(s) ==
  /\ s \in Booked => sessions[s].citizen \in Citizens /\ sessions[s].charger \in Chargers
  /\ sessions[s].status = "COMPLETED" => PaidBy(sessions[s].payment, sessions[s].citizen)

PaymentSound(p) == payments[p].status # "absent" => payments[p].session \in Booked

\* The sweep leaves none of the holds in overdue behind: they are expired before its query, found
\* by it, and gone after its update.
OverdueSound(q) ==
  /\ q.overdue \subseteq Booked
  /\ \A s \in q.overdue :
       sessions[s].status = "HELD" =>
         /\ q.pc = "find_expired" => sessions[s].elapsed
         /\ q.pc = "cancel_expired" => s \in q.found
         /\ q.pc \notin HoldSteps

\* What the locals q of a handler still say of the tables.
HandlerSound(q) ==
  /\ q.pc = "idle" => q = Idle
  /\ q.found \subseteq Booked
  /\ OverdueSound(q)
  /\ q.pc \in SweepSteps /\ q.charger # None => q.citizen \in Citizens
  /\ q.pc \in HoldSteps => q.charger \in Chargers /\ q.citizen \in Citizens
  /\ q.pc \in SessionSteps => q.session \in Booked /\ sessions[q.session].citizen = q.citizen
  /\ q.pc \in PaymentSteps => q.key \in Keys
  /\ q.pc = "save_completion" => PaidBy(q.payment, q.citizen)

IInv ==
  /\ TypeOK
  /\ ExclusiveUse
  /\ \A s \in SessionIds : SessionSound(s)
  /\ \A p \in PaymentIds : PaymentSound(p)
  /\ \A r \in Requests : HandlerSound(req[r])

\* What no step undoes: a session that exists stays the citizen's, on its charger, and does not
\* become a hold again, nor does its hold regain time; a settled payment stays.
RowsKept ==
  /\ \A s \in Booked :
       /\ s \in Booked'
       /\ sessions'[s].citizen = sessions[s].citizen /\ sessions'[s].charger = sessions[s].charger
       /\ sessions'[s].status = "HELD" =>
            sessions[s].status = "HELD" /\ (sessions[s].elapsed => sessions'[s].elapsed)
  /\ \A p \in PaymentIds :
       /\ payments[p].status # "absent" =>
            payments'[p].status # "absent" /\ payments'[p].session = payments[p].session
       /\ payments[p].status = "settled" => payments'[p].status = "settled"

-----------------------------------------------------------------------------

LEMMA IdleFacts ==
  /\ Idle \in Request /\ HandlerSound(Idle)
  /\ Idle.pc = "idle" /\ Idle.found = {} /\ Idle.overdue = {} /\ Idle.charger = None
<1>1. Idle \in Request
  BY DEF Idle, Request, Steps
<1>2. HandlerSound(Idle)
  BY DEF Idle, HandlerSound, OverdueSound, SweepSteps, HoldSteps, SessionSteps, PaymentSteps
<1>. QED BY <1>1, <1>2 DEF Idle

LEMMA InitIInv == Init => IInv
<1>. SUFFICES ASSUME Init PROVE IInv
  OBVIOUS
<1>1. NoSession \in Session /\ NoSession.status = "absent"
  BY DEF NoSession, Session, Statuses
<1>2. TypeOK
  BY <1>1, IdleFacts DEF Init, TypeOK, PaymentRow
<1>3. ExclusiveUse
  BY <1>1 DEF Init, ExclusiveUse, Active
<1>4. \A s \in SessionIds : SessionSound(s)
  BY <1>1 DEF Init, SessionSound, Booked
<1>5. \A p \in PaymentIds : PaymentSound(p)
  BY DEF Init, PaymentSound
<1>6. \A r \in Requests : HandlerSound(req[r])
  BY IdleFacts DEF Init
<1>. QED BY <1>2, <1>3, <1>4, <1>5, <1>6 DEF IInv

-----------------------------------------------------------------------------
(* What a step owes the invariant *)

\* What a handler knows survives the steps of others.
LEMMA HandlerKept ==
  ASSUME IInv, RowsKept, NEW q, HandlerSound(q)
  PROVE  HandlerSound(q)'
<1>1. \A p, citizen : PaidBy(p, citizen) => PaidBy(p, citizen)'
  BY DEF IInv, RowsKept, PaidBy, PaymentSound
<1>2. OverdueSound(q)'
  BY DEF HandlerSound, OverdueSound, RowsKept
<1>3. q.found \subseteq Booked'
  BY DEF HandlerSound, RowsKept
<1>4. q.pc \in SessionSteps => q.session \in Booked' /\ sessions'[q.session].citizen = q.citizen
  BY DEF HandlerSound, RowsKept
<1>. QED BY <1>1, <1>2, <1>3, <1>4 DEF HandlerSound

\* Handler r goes on with the locals q.
LEMMA Step ==
  ASSUME IInv, NEW r \in Requests, NEW q \in Request, req' = [req EXCEPT ![r] = q], RowsKept,
         sessions' \in [SessionIds -> Session], meter' \in [SessionIds -> Nat],
         payments' \in [PaymentIds -> PaymentRow],
         idempotency' \in [Citizens \X Keys -> PaymentIds \cup {None}],
         ExclusiveUse', \A s \in SessionIds : SessionSound(s)', \A p \in PaymentIds : PaymentSound(p)',
         HandlerSound(q)'
  PROVE  IInv'
<1>1. TypeOK'
  BY DEF IInv, TypeOK
<1>2. ASSUME NEW s \in Requests PROVE HandlerSound(req[s])'
  <2>1. CASE s = r
    <3>1. req'[s] = q
      BY <2>1 DEF IInv, TypeOK
    <3>. QED BY <3>1 DEF HandlerSound, OverdueSound, PaidBy, Booked
  <2>2. CASE s # r
    <3>1. PICK p : p = req[s]
      OBVIOUS
    <3>2. req'[s] = p
      BY <2>2, <3>1 DEF IInv, TypeOK
    <3>3. HandlerSound(p)'
      BY <3>1, HandlerKept DEF IInv
    <3>. QED BY <3>2, <3>3 DEF HandlerSound, OverdueSound, PaidBy, Booked
  <2>. QED BY <2>1, <2>2
<1>. QED BY <1>1, <1>2 DEF IInv

\* Most steps read only.
LEMMA ReadStep ==
  ASSUME IInv, NEW r \in Requests, NEW q \in Request, req' = [req EXCEPT ![r] = q],
         UNCHANGED <<sessions, payments, idempotency>>, meter' \in [SessionIds -> Nat],
         HandlerSound(q)
  PROVE  IInv'
<1>1. RowsKept
  BY DEF RowsKept, Booked
<1>2. ExclusiveUse' /\ (\A s \in SessionIds : SessionSound(s)') /\ \A p \in PaymentIds : PaymentSound(p)'
  BY DEF IInv, ExclusiveUse, Active, SessionSound, PaymentSound, PaidBy, Booked
<1>3. HandlerSound(q)'
  BY <1>1, HandlerKept
<1>. QED BY <1>1, <1>2, <1>3, Step DEF IInv, TypeOK

LEMMA FinishStep ==
  ASSUME IInv, NEW r \in Requests, Finish(r), UNCHANGED <<sessions, payments, idempotency>>,
         meter' \in [SessionIds -> Nat]
  PROVE  IInv'
  BY ReadStep, IdleFacts DEF Finish

\* A handler that only moves on keeps its locals.
LEMMA GotoFacts ==
  ASSUME IInv, NEW r \in Requests, NEW step \in Steps, Goto(r, step)
  PROVE  \E q \in Request : /\ req' = [req EXCEPT ![r] = q]
                            /\ q.pc = step /\ q.session = req[r].session /\ q.citizen = req[r].citizen
                            /\ q.charger = req[r].charger /\ q.key = req[r].key
                            /\ q.payment = req[r].payment /\ q.amount = req[r].amount
                            /\ q.found = req[r].found /\ q.overdue = req[r].overdue
<1>1. req[r] \in Request
  BY DEF IInv, TypeOK
<1>2. PICK q : q = [req[r] EXCEPT !.pc = step]
  OBVIOUS
<1>3. /\ q.pc = step /\ q.session = req[r].session /\ q.citizen = req[r].citizen
      /\ q.charger = req[r].charger /\ q.key = req[r].key
      /\ q.payment = req[r].payment /\ q.amount = req[r].amount
      /\ q.found = req[r].found /\ q.overdue = req[r].overdue
  BY <1>1, <1>2 DEF Request
<1>4. q \in Request
  BY <1>1, <1>2 DEF Request
<1>5. req' = [req EXCEPT ![r] = q]
  BY <1>2 DEF Goto, IInv, TypeOK
<1>. QED BY <1>3, <1>4, <1>5

\* It may go on to a step that needs no more than it knows.
LEMMA GotoStep ==
  ASSUME IInv, NEW r \in Requests, NEW step \in Steps \ {"idle", "save_completion"}, Goto(r, step),
         UNCHANGED <<sessions, payments, idempotency>>, meter' \in [SessionIds -> Nat],
         \/ req[r].pc \in SessionSteps \ PaymentSteps /\ step \in SessionSteps \ PaymentSteps
         \/ req[r].pc \in PaymentSteps /\ step \in PaymentSteps
         \/ req[r].pc \in HoldSteps /\ step \in HoldSteps
  PROVE  IInv'
<1>1. PICK q \in Request : /\ req' = [req EXCEPT ![r] = q]
                           /\ q.pc = step /\ q.session = req[r].session /\ q.citizen = req[r].citizen
                           /\ q.charger = req[r].charger /\ q.key = req[r].key
                           /\ q.found = req[r].found /\ q.overdue = req[r].overdue
  BY GotoFacts
<1>2. HandlerSound(req[r])
  BY DEF IInv
<1>3. OverdueSound(q)
  BY <1>1, <1>2 DEF HandlerSound, OverdueSound, HoldSteps, SessionSteps, PaymentSteps
<1>4. HandlerSound(q)
  BY <1>1, <1>2, <1>3 DEF HandlerSound, HoldSteps, SweepSteps, SessionSteps, PaymentSteps
<1>. QED BY <1>1, <1>4, ReadStep

-----------------------------------------------------------------------------
(* The calls *)

LEMMA CallSteps ==
  ASSUME IInv, NEW r \in Requests, Call(r)
  PROVE  IInv'
<1>1. /\ UNCHANGED <<sessions, payments, idempotency>>
      /\ meter' \in [SessionIds -> Nat]
  BY DEF Call, ListChargers, CreateHold, StartSession, StopSession, InitiatePayment, ConfirmPayment,
     IInv, TypeOK
<1>2. ASSUME NEW citizen \in Citizens, NEW charger \in Chargers, CreateHold(r, citizen, charger)
      PROVE  IInv'
  <2>1. PICK q : q = [Idle EXCEPT !.pc = "find_expired", !.citizen = citizen,
                        !.charger = charger, !.overdue = {s \in SessionIds : Expired(s)}]
    OBVIOUS
  <2>2. /\ q.pc = "find_expired" /\ q.citizen = citizen /\ q.charger = charger /\ q.found = {}
        /\ q.overdue = {s \in SessionIds : Expired(s)} /\ q \in Request
    BY <2>1 DEF Idle, Request, Steps
  <2>3. OverdueSound(q)
    BY <2>2 DEF OverdueSound, Expired, Booked, HoldSteps
  <2>4. HandlerSound(q)
    BY <2>2, <2>3 DEF HandlerSound, HoldSteps, SessionSteps, PaymentSteps
  <2>. QED BY <1>1, <1>2, <2>1, <2>2, <2>4, ReadStep DEF CreateHold
<1>3. CASE ListChargers(r)
  <2>1. PICK q \in Request : /\ req' = [req EXCEPT ![r] = q]
                             /\ q.pc = "find_expired" /\ q.charger = req[r].charger
                             /\ q.found = req[r].found /\ q.overdue = req[r].overdue
    BY <1>3, GotoFacts DEF ListChargers, Steps
  <2>2. req[r] = Idle
    BY <1>3 DEF ListChargers, IInv, HandlerSound
  <2>3. HandlerSound(q)
    BY <2>1, <2>2, IdleFacts DEF HandlerSound, OverdueSound, HoldSteps, SessionSteps, PaymentSteps
  <2>. QED BY <1>1, <2>1, <2>3, ReadStep
<1>4. ASSUME NEW s \in Booked, NEW q \in Request, req' = [req EXCEPT ![r] = q],
             q.pc \in {"save_start", "stop_meter", "find_key", "check_payment"}, q.session = s,
             q.citizen = sessions[s].citizen, q.found = {}, q.overdue = {},
             q.pc = "find_key" => q.key \in Keys
      PROVE  IInv'
  <2>1. HandlerSound(q)
    BY <1>4 DEF HandlerSound, OverdueSound, HoldSteps, SweepSteps, SessionSteps, PaymentSteps
  <2>. QED BY <1>1, <1>4, <2>1, ReadStep
<1>5. ASSUME NEW s \in SessionIds, StartSession(r, s) \/ StopSession(r, s) PROVE IInv'
  <2>1. s \in Booked /\ sessions[s].citizen \in Citizens
    BY <1>5 DEF StartSession, StopSession, Booked, IInv, SessionSound
  <2>2. PICK step \in {"save_start", "stop_meter"} : Begin(r, step, s)
    BY <1>5 DEF StartSession, StopSession
  <2>3. PICK q : q = [Idle EXCEPT !.pc = step, !.session = s, !.citizen = sessions[s].citizen]
    OBVIOUS
  <2>4. /\ q \in Request /\ q.pc = step /\ q.session = s /\ q.citizen = sessions[s].citizen
        /\ q.found = {} /\ q.overdue = {}
    BY <2>1, <2>3 DEF Idle, Request, Steps
  <2>. QED BY <1>4, <2>1, <2>2, <2>3, <2>4 DEF Begin
<1>6. ASSUME NEW s \in SessionIds, NEW k \in Keys, InitiatePayment(r, s, k) PROVE IInv'
  <2>1. s \in Booked /\ sessions[s].citizen \in Citizens /\ sessions[s].amount \in Nat
    BY <1>6 DEF InitiatePayment, AwaitingPayment, Booked, IInv, SessionSound, TypeOK, Session
  <2>2. PICK q : q = [Idle EXCEPT !.pc = "find_key", !.session = s, !.key = k,
                        !.citizen = sessions[s].citizen, !.amount = sessions[s].amount]
    OBVIOUS
  <2>3. /\ q \in Request /\ q.pc = "find_key" /\ q.session = s /\ q.citizen = sessions[s].citizen
        /\ q.found = {} /\ q.overdue = {} /\ q.key = k
    BY <2>1, <2>2 DEF Idle, Request, Steps
  <2>. QED BY <1>4, <1>6, <2>1, <2>2, <2>3 DEF InitiatePayment
<1>7. ASSUME NEW s \in SessionIds, NEW p \in PaymentIds \cup {None}, ConfirmPayment(r, s, p) PROVE IInv'
  <2>1. s \in Booked /\ sessions[s].citizen \in Citizens /\ sessions[s].amount \in Nat
    BY <1>7 DEF ConfirmPayment, AwaitingPayment, Booked, IInv, SessionSound, TypeOK, Session
  <2>2. PICK q : q = [Idle EXCEPT !.pc = "check_payment", !.session = s, !.payment = p,
                        !.citizen = sessions[s].citizen, !.amount = sessions[s].amount]
    OBVIOUS
  <2>3. /\ q \in Request /\ q.pc = "check_payment" /\ q.session = s /\ q.citizen = sessions[s].citizen
        /\ q.found = {} /\ q.overdue = {}
    BY <2>1, <2>2 DEF Idle, Request, Steps
  <2>. QED BY <1>4, <1>7, <2>1, <2>2, <2>3 DEF ConfirmPayment
<1>. QED BY <1>2, <1>3, <1>5, <1>6, <1>7 DEF Call

-----------------------------------------------------------------------------
(* Writing a session *)

\* Row s of the table becomes row: of the same citizen and charger if it was there, active only as
\* it was or as the indexes allow, completed only by a payment.
LEMMA RowStep ==
  ASSUME IInv, NEW s \in SessionIds, NEW row \in Session, sessions' = [sessions EXCEPT ![s] = row],
         UNCHANGED payments,
         row.status # "absent", row.citizen \in Citizens, row.charger \in Chargers,
         s \in Booked => /\ row.citizen = sessions[s].citizen /\ row.charger = sessions[s].charger
                         /\ row.status = "HELD" => sessions[s].status = "HELD"
                                                   /\ (sessions[s].elapsed => row.elapsed),
         row.status \in {"HELD", "CHARGING"} =>
           Active(s) \/ ActiveIndexesAllow(s, row.charger, row.citizen),
         row.status = "COMPLETED" => PaidBy(row.payment, row.citizen)
  PROVE  /\ RowsKept /\ sessions' \in [SessionIds -> Session]
         /\ ExclusiveUse' /\ (\A t \in SessionIds : SessionSound(t)')
         /\ \A p \in PaymentIds : PaymentSound(p)'
<1>1. sessions'[s] = row /\ \A t \in SessionIds \ {s} : sessions'[t] = sessions[t]
  BY DEF IInv, TypeOK
<1>2. RowsKept
  BY <1>1 DEF RowsKept, Booked
<1>3. sessions' \in [SessionIds -> Session]
  BY DEF IInv, TypeOK
<1>4. ExclusiveUse'
  <2>1. SUFFICES ASSUME NEW t \in SessionIds \ {s}, Active(t), row.status \in {"HELD", "CHARGING"}
                 PROVE  row.charger # sessions[t].charger /\ row.citizen # sessions[t].citizen
    BY <1>1 DEF IInv, ExclusiveUse, Active
  <2>2. CASE Active(s)
    <3>1. s \in Booked
      BY <2>2 DEF Active, Booked
    <3>2. sessions[s].charger # sessions[t].charger /\ sessions[s].citizen # sessions[t].citizen
      BY <2>1, <2>2 DEF IInv, ExclusiveUse
    <3>. QED BY <3>1, <3>2
  <2>3. CASE ActiveIndexesAllow(s, row.charger, row.citizen)
    BY <2>1, <2>3 DEF ActiveIndexesAllow
  <2>. QED BY <2>1, <2>2, <2>3
<1>5. \A p, citizen : PaidBy(p, citizen) => PaidBy(p, citizen)'
  BY <1>2 DEF IInv, RowsKept, PaidBy, PaymentSound
<1>6. ASSUME NEW t \in SessionIds PROVE SessionSound(t)'
  <2>1. SessionSound(t)
    BY DEF IInv
  <2>2. CASE t = s
    BY <1>1, <1>5, <2>2 DEF SessionSound, Booked
  <2>3. CASE t # s
    <3>1. PICK old : old = sessions[t]
      OBVIOUS
    <3>2. sessions'[t] = old
      BY <1>1, <2>3, <3>1
    <3>3. old.status = "COMPLETED" => PaidBy(old.payment, old.citizen)'
      BY <1>5, <2>1, <3>1 DEF SessionSound
    <3>. QED BY <2>1, <3>1, <3>2, <3>3 DEF SessionSound, Booked, PaidBy
  <2>. QED BY <2>2, <2>3
<1>7. \A p \in PaymentIds : PaymentSound(p)'
  BY <1>2 DEF IInv, PaymentSound, RowsKept
<1>. QED BY <1>2, <1>3, <1>4, <1>6, <1>7

LEMMA FindExpiredStep ==
  ASSUME IInv, NEW r \in Requests, FindExpired(r)
  PROVE  IInv'
<1>1. req[r] \in Request /\ HandlerSound(req[r]) /\ req[r].pc = "find_expired"
  BY DEF IInv, TypeOK, FindExpired
<1>2. PICK q : q = [req[r] EXCEPT !.pc = "cancel_expired", !.found = {s \in SessionIds : Expired(s)}]
  OBVIOUS
<1>3. /\ q \in Request /\ q.pc = "cancel_expired" /\ q.found = {s \in SessionIds : Expired(s)}
      /\ q.overdue = req[r].overdue /\ q.charger = req[r].charger /\ q.citizen = req[r].citizen
  BY <1>1, <1>2 DEF Request, Steps
<1>4. req' = [req EXCEPT ![r] = q]
  BY <1>2 DEF FindExpired, IInv, TypeOK
<1>5. OverdueSound(q)
  BY <1>1, <1>3 DEF HandlerSound, OverdueSound, Expired, Booked, HoldSteps
<1>6. HandlerSound(q)
  BY <1>1, <1>3, <1>5 DEF HandlerSound, Expired, Booked, HoldSteps, SweepSteps, SessionSteps, PaymentSteps
<1>. QED BY <1>3, <1>4, <1>6, ReadStep DEF FindExpired, IInv, TypeOK

\* Whatever the rows found have become: no cancelled row is active.
LEMMA CancelExpiredStep ==
  ASSUME IInv, NEW r \in Requests, CancelExpired(r)
  PROVE  IInv'
<1>1. /\ req[r].pc = "cancel_expired" /\ HandlerSound(req[r]) /\ req[r].found \subseteq Booked
      /\ UNCHANGED <<meter, payments, idempotency>>
      /\ sessions \in [SessionIds -> Session]
  BY DEF CancelExpired, IInv, TypeOK, HandlerSound
<1>2. PICK found : found = req[r].found
  OBVIOUS
<1>3. sessions' = [s \in SessionIds |-> IF s \in found THEN [sessions[s] EXCEPT !.status = "CANCELLED"]
                                                      ELSE sessions[s]]
  BY <1>2 DEF CancelExpired
<1>4. \A s \in SessionIds :
        /\ s \notin found => sessions'[s] = sessions[s]
        /\ s \in found => /\ sessions'[s].status = "CANCELLED" /\ sessions'[s].citizen = sessions[s].citizen
                           /\ sessions'[s].charger = sessions[s].charger
                           /\ sessions'[s].elapsed = sessions[s].elapsed
  BY <1>1, <1>3 DEF Session
<1>5. RowsKept
  BY <1>1, <1>2, <1>4 DEF RowsKept, Booked
<1>6. sessions' \in [SessionIds -> Session]
  BY <1>1, <1>3 DEF Session, Statuses
<1>7. ExclusiveUse'
  BY <1>4 DEF IInv, ExclusiveUse, Active
<1>8. \A p, citizen : PaidBy(p, citizen) => PaidBy(p, citizen)'
  BY <1>5 DEF IInv, RowsKept, PaidBy, PaymentSound
<1>9. ASSUME NEW t \in SessionIds PROVE SessionSound(t)'
  <2>1. SessionSound(t)
    BY DEF IInv
  <2>2. CASE t \in found
    BY <1>1, <1>2, <1>4, <2>1, <2>2 DEF SessionSound, Booked
  <2>3. CASE t \notin found
    <3>1. PICK old : old = sessions[t]
      OBVIOUS
    <3>2. sessions'[t] = old
      BY <1>4, <2>3, <3>1
    <3>3. old.status = "COMPLETED" => PaidBy(old.payment, old.citizen)'
      BY <1>8, <2>1, <3>1 DEF SessionSound
    <3>. QED BY <2>1, <3>1, <3>2, <3>3 DEF SessionSound, Booked, PaidBy
  <2>. QED BY <2>2, <2>3
<1>10. \A p \in PaymentIds : PaymentSound(p)'
  BY <1>1, <1>5 DEF IInv, PaymentSound, RowsKept
<1>11. ASSUME NEW q \in Request, req' = [req EXCEPT ![r] = q], HandlerSound(q)' PROVE IInv'
  BY <1>1, <1>5, <1>6, <1>7, <1>9, <1>10, <1>11, Step DEF IInv, TypeOK
<1>12. CASE req[r].charger = None
  <2>1. HandlerSound(Idle)'
    BY <1>5, IdleFacts, HandlerKept
  <2>. QED BY <1>11, <1>12, <2>1, IdleFacts DEF CancelExpired, Finish
<1>13. CASE req[r].charger # None
  <2>1. PICK q \in Request : /\ req' = [req EXCEPT ![r] = q]
                             /\ q.pc = "check_charger" /\ q.charger = req[r].charger
                             /\ q.citizen = req[r].citizen
                             /\ q.found = req[r].found /\ q.overdue = req[r].overdue
    BY <1>13, GotoFacts DEF CancelExpired, Steps
  <2>2. req[r].charger \in Chargers /\ req[r].citizen \in Citizens
    BY <1>1, <1>13 DEF IInv, TypeOK, Request, HandlerSound, SweepSteps
  <2>3. \A s \in q.overdue : sessions'[s].status # "HELD"
    <3>1. ASSUME NEW s \in q.overdue, sessions'[s].status = "HELD" PROVE FALSE
      <4>1. s \in Booked
        BY <1>1, <2>1 DEF HandlerSound, OverdueSound
      <4>2. sessions[s].status = "HELD"
        BY <1>5, <3>1, <4>1 DEF RowsKept
      <4>3. s \in found
        BY <1>1, <1>2, <2>1, <4>2 DEF HandlerSound, OverdueSound
      <4>. QED BY <1>4, <3>1, <4>1, <4>3 DEF Booked
    <3>. QED BY <3>1
  <2>4. q.overdue \subseteq Booked' /\ q.found \subseteq Booked'
    BY <1>1, <1>5, <2>1 DEF HandlerSound, OverdueSound, RowsKept
  <2>5. HandlerSound(q)'
    BY <2>1, <2>2, <2>3, <2>4 DEF HandlerSound, OverdueSound, HoldSteps, SweepSteps, SessionSteps, PaymentSteps
  <2>. QED BY <1>11, <2>1, <2>5
<1>. QED BY <1>12, <1>13

LEMMA HoldingSteps ==
  ASSUME IInv, NEW r \in Requests,
         \/ AssertChargerAvailable(r) \/ AssertCitizenHasNoActiveSession(r) \/ RejectHold(r)
         \/ \E s \in SessionIds : InsertHold(r, s)
  PROVE  IInv'
<1>1. meter' \in [SessionIds -> Nat] /\ UNCHANGED <<meter, payments, idempotency>>
  BY DEF AssertChargerAvailable, AssertCitizenHasNoActiveSession, RejectHold, InsertHold, IInv, TypeOK
<1>2. CASE AssertChargerAvailable(r)
  BY <1>1, <1>2, GotoStep, FinishStep DEF AssertChargerAvailable, HoldSteps, Steps
<1>3. CASE AssertCitizenHasNoActiveSession(r)
  BY <1>1, <1>3, GotoStep, FinishStep DEF AssertCitizenHasNoActiveSession, HoldSteps, Steps
<1>4. CASE RejectHold(r)
  BY <1>1, <1>4, FinishStep DEF RejectHold
<1>5. ASSUME NEW s \in SessionIds, InsertHold(r, s) PROVE IInv'
  <2>1. req[r].charger \in Chargers /\ req[r].citizen \in Citizens
    BY <1>5 DEF InsertHold, IInv, HandlerSound, HoldSteps
  <2>2. PICK row : row = [NoSession EXCEPT !.status = "HELD", !.charger = req[r].charger,
                                           !.citizen = req[r].citizen]
    OBVIOUS
  <2>3. /\ row \in Session /\ row.status = "HELD" /\ row.charger = req[r].charger
        /\ row.citizen = req[r].citizen
    BY <2>1, <2>2 DEF NoSession, Session, Statuses
  <2>4. sessions' = [sessions EXCEPT ![s] = row] /\ s \notin Booked
        /\ ActiveIndexesAllow(s, row.charger, row.citizen)
    BY <1>5, <2>2, <2>3 DEF InsertHold, Booked
  <2>5. /\ RowsKept /\ sessions' \in [SessionIds -> Session]
        /\ ExclusiveUse' /\ (\A t \in SessionIds : SessionSound(t)')
        /\ \A p \in PaymentIds : PaymentSound(p)'
    BY <1>1, <2>1, <2>3, <2>4, RowStep
  <2>6. HandlerSound(Idle)'
    BY <2>5, IdleFacts, HandlerKept
  <2>. QED BY <1>1, <1>5, <2>5, <2>6, IdleFacts, Step DEF InsertHold, Finish, IInv, TypeOK
<1>. QED BY <1>2, <1>3, <1>4, <1>5

LEMMA StartSteps ==
  ASSUME IInv, NEW r \in Requests, SaveStart(r) \/ StartMeter(r)
  PROVE  IInv'
<1>. DEFINE s == req[r].session
<1>1. CASE StartMeter(r)
  <2>1. meter' \in [SessionIds -> Nat]
    BY <1>1 DEF StartMeter, IInv, TypeOK
  <2>. QED BY <1>1, <2>1, FinishStep DEF StartMeter
<1>2. CASE SaveStart(r) /\ Finish(r) /\ UNCHANGED sessions
  BY <1>2, FinishStep DEF SaveStart, IInv, TypeOK
<1>3. CASE SaveStart(r) /\ ~(Finish(r) /\ UNCHANGED sessions)
  <2>1. /\ s \in Booked /\ sessions[s] \in Session /\ SessionSound(s) /\ s \in SessionIds
        /\ req[r].pc = "save_start" /\ HandlerSound(req[r])
    BY <1>3 DEF SaveStart, IInv, TypeOK, HandlerSound, SessionSteps, Booked
  <2>2. /\ ActiveIndexesAllow(s, sessions[s].charger, sessions[s].citizen)
        /\ sessions' = [sessions EXCEPT ![s].status = "CHARGING", ![s].elapsed = FALSE]
        /\ Goto(r, "start_meter") /\ UNCHANGED <<meter, payments, idempotency>>
    BY <1>3 DEF SaveStart
  <2>3. PICK row : row = [sessions[s] EXCEPT !.status = "CHARGING", !.elapsed = FALSE]
    OBVIOUS
  <2>4. /\ row \in Session /\ row.status = "CHARGING"
        /\ row.charger = sessions[s].charger /\ row.citizen = sessions[s].citizen
    BY <2>1, <2>3 DEF Session, Statuses
  <2>5. sessions' = [sessions EXCEPT ![s] = row]
    BY <2>1, <2>2, <2>3 DEF IInv, TypeOK
  <2>6. /\ RowsKept /\ sessions' \in [SessionIds -> Session]
        /\ ExclusiveUse' /\ (\A t \in SessionIds : SessionSound(t)')
        /\ \A p \in PaymentIds : PaymentSound(p)'
    BY <2>1, <2>2, <2>4, <2>5, RowStep DEF SessionSound
  <2>7. PICK q \in Request : /\ req' = [req EXCEPT ![r] = q]
                             /\ q.pc = "start_meter" /\ q.session = s /\ q.citizen = req[r].citizen
                             /\ q.found = req[r].found /\ q.overdue = req[r].overdue
    BY <2>2, GotoFacts DEF Steps
  <2>8. HandlerSound(q)
    BY <2>1, <2>7 DEF HandlerSound, OverdueSound, HoldSteps, SweepSteps, SessionSteps, PaymentSteps
  <2>9. HandlerSound(q)'
    BY <2>6, <2>8, HandlerKept
  <2>. QED BY <2>2, <2>6, <2>7, <2>9, Step DEF IInv, TypeOK
<1>. QED BY <1>1, <1>2, <1>3

LEMMA StopSteps ==
  ASSUME IInv, NEW r \in Requests, StopMeter(r) \/ SaveStop(r)
  PROVE  IInv'
<1>. DEFINE s == req[r].session
<1>1. /\ s \in Booked /\ sessions[s] \in Session /\ SessionSound(s) /\ s \in SessionIds
      /\ HandlerSound(req[r]) /\ req[r] \in Request
  BY DEF StopMeter, SaveStop, IInv, TypeOK, HandlerSound, SessionSteps, Booked
<1>2. CASE StopMeter(r)
  <2>1. PICK counted : counted = meter[s] + 1
    OBVIOUS
  <2>2. counted \in Nat /\ meter \in [SessionIds -> Nat]
    BY <1>1, <2>1 DEF IInv, TypeOK
  <2>3. /\ req[r].pc = "stop_meter" /\ meter' = [meter EXCEPT ![s] = counted]
        /\ req' = [req EXCEPT ![r].pc = "save_stop", ![r].amount = counted]
        /\ UNCHANGED <<sessions, payments, idempotency>>
    BY <1>2, <2>1 DEF StopMeter
  <2>4. PICK q : q = [req[r] EXCEPT !.pc = "save_stop", !.amount = counted]
    OBVIOUS
  <2>5. /\ q \in Request /\ q.pc = "save_stop" /\ q.session = s /\ q.citizen = req[r].citizen
        /\ q.found = req[r].found /\ q.overdue = req[r].overdue
    BY <1>1, <2>2, <2>4 DEF Request, Steps
  <2>6. req' = [req EXCEPT ![r] = q]
    BY <2>3, <2>4 DEF IInv, TypeOK
  <2>7. HandlerSound(q)
    BY <1>1, <2>3, <2>5 DEF HandlerSound, OverdueSound, HoldSteps, SweepSteps, SessionSteps, PaymentSteps
  <2>8. meter' \in [SessionIds -> Nat]
    BY <2>2, <2>3
  <2>. QED BY <2>3, <2>5, <2>6, <2>7, <2>8, ReadStep
<1>3. CASE SaveStop(r)
  <2>1. /\ sessions' = [sessions EXCEPT ![s].ended = TRUE, ![s].amount = req[r].amount]
        /\ Finish(r) /\ UNCHANGED <<meter, payments, idempotency>>
    BY <1>3 DEF SaveStop
  <2>2. PICK row : row = [sessions[s] EXCEPT !.ended = TRUE, !.amount = req[r].amount]
    OBVIOUS
  <2>3. /\ row.status = sessions[s].status /\ row.charger = sessions[s].charger
        /\ row.citizen = sessions[s].citizen /\ (sessions[s].elapsed => row.elapsed)
        /\ row.payment = sessions[s].payment
    BY <1>1, <2>2 DEF Session
  <2>4. row \in Session
    BY <1>1, <2>2 DEF Session, Request
  <2>5. sessions' = [sessions EXCEPT ![s] = row]
    BY <1>1, <2>1, <2>2 DEF IInv, TypeOK
  <2>6. row.status \in {"HELD", "CHARGING"} => Active(s)
    BY <2>3 DEF Active
  <2>7. /\ row.status # "absent" /\ row.citizen \in Citizens /\ row.charger \in Chargers
        /\ row.status = "COMPLETED" => PaidBy(row.payment, row.citizen)
    BY <1>1, <2>3 DEF SessionSound, Booked
  <2>8. /\ RowsKept /\ sessions' \in [SessionIds -> Session]
        /\ ExclusiveUse' /\ (\A t \in SessionIds : SessionSound(t)')
        /\ \A p \in PaymentIds : PaymentSound(p)'
    BY <1>1, <2>1, <2>3, <2>4, <2>5, <2>6, <2>7, RowStep
  <2>9. HandlerSound(Idle)'
    BY <2>8, IdleFacts, HandlerKept
  <2>. QED BY <2>1, <2>8, <2>9, IdleFacts, Step DEF Finish, IInv, TypeOK
<1>. QED BY <1>2, <1>3

-----------------------------------------------------------------------------
(* Payment and confirmation *)

\* Rows of payments are added, and settled, but never change their session.
LEMMA PaymentRowStep ==
  ASSUME IInv, NEW p \in PaymentIds, NEW row \in PaymentRow, payments' = [payments EXCEPT ![p] = row],
         UNCHANGED sessions, row.status # "absent", row.session \in Booked,
         payments[p].status # "absent" => row.session = payments[p].session,
         payments[p].status = "settled" => row.status = "settled"
  PROVE  /\ RowsKept /\ payments' \in [PaymentIds -> PaymentRow]
         /\ ExclusiveUse' /\ (\A t \in SessionIds : SessionSound(t)')
         /\ \A x \in PaymentIds : PaymentSound(x)'
<1>1. payments'[p] = row /\ \A x \in PaymentIds \ {p} : payments'[x] = payments[x]
  BY DEF IInv, TypeOK
<1>2. RowsKept
  BY <1>1 DEF RowsKept, Booked
<1>3. payments' \in [PaymentIds -> PaymentRow] /\ ExclusiveUse'
  BY DEF IInv, TypeOK, ExclusiveUse, Active
<1>4. \A x, citizen : PaidBy(x, citizen) => PaidBy(x, citizen)'
  BY <1>2 DEF IInv, RowsKept, PaidBy, PaymentSound
<1>5. ASSUME NEW t \in SessionIds PROVE SessionSound(t)'
  <2>1. PICK old : old = sessions[t]
    OBVIOUS
  <2>2. SessionSound(t) /\ sessions'[t] = old
    BY <2>1 DEF IInv
  <2>3. old.status = "COMPLETED" => PaidBy(old.payment, old.citizen)'
    BY <1>4, <2>1, <2>2 DEF SessionSound
  <2>. QED BY <2>1, <2>2, <2>3 DEF SessionSound, Booked, PaidBy
<1>6. \A x \in PaymentIds : PaymentSound(x)'
  BY <1>1 DEF IInv, PaymentSound, Booked
<1>. QED BY <1>2, <1>3, <1>5, <1>6

LEMMA PayingSteps ==
  ASSUME IInv, NEW r \in Requests,
         \/ FindIdempotencyRecord(r) \/ FindActivePayment(r) \/ RejectUsedKey(r)
         \/ \E p \in PaymentIds : CreatePendingPayment(r, p)
  PROVE  IInv'
<1>1. meter' \in [SessionIds -> Nat] /\ UNCHANGED <<sessions, meter>>
  BY DEF FindIdempotencyRecord, FindActivePayment, RejectUsedKey, CreatePendingPayment, IInv, TypeOK
<1>2. CASE FindIdempotencyRecord(r)
  BY <1>1, <1>2, GotoStep, FinishStep DEF FindIdempotencyRecord, PaymentSteps, Steps
<1>3. CASE FindActivePayment(r)
  BY <1>1, <1>3, GotoStep, FinishStep DEF FindActivePayment, PaymentSteps, Steps
<1>4. CASE RejectUsedKey(r)
  BY <1>1, <1>4, FinishStep DEF RejectUsedKey
<1>5. ASSUME NEW p \in PaymentIds, CreatePendingPayment(r, p) PROVE IInv'
  <2>1. /\ req[r] \in Request /\ req[r].session \in Booked /\ req[r].key \in Keys
        /\ sessions[req[r].session].citizen = req[r].citizen
    BY <1>5 DEF CreatePendingPayment, IInv, TypeOK, HandlerSound, PaymentSteps, SessionSteps
  <2>2. req[r].citizen \in Citizens
    BY <2>1 DEF IInv, SessionSound, Booked
  <2>3. PICK row : row = PendingPayment(r)
    OBVIOUS
  <2>4. row \in PaymentRow /\ row.status = "requires_action" /\ row.session = req[r].session
    BY <2>1, <2>3 DEF PendingPayment, PaymentRow, Request
  <2>5. payments' = [payments EXCEPT ![p] = row] /\ payments[p].status = "absent"
    BY <1>5, <2>3 DEF CreatePendingPayment
  <2>6. /\ RowsKept /\ payments' \in [PaymentIds -> PaymentRow]
        /\ ExclusiveUse' /\ (\A t \in SessionIds : SessionSound(t)')
        /\ \A x \in PaymentIds : PaymentSound(x)'
    BY <1>1, <2>1, <2>4, <2>5, PaymentRowStep
  <2>7. idempotency' \in [Citizens \X Keys -> PaymentIds \cup {None}]
    BY <1>5, <2>1, <2>2 DEF CreatePendingPayment, IInv, TypeOK
  <2>8. HandlerSound(Idle)'
    BY <2>6, IdleFacts, HandlerKept
  <2>. QED BY <1>1, <1>5, <2>6, <2>7, <2>8, IdleFacts, Step DEF CreatePendingPayment, Finish, IInv, TypeOK
<1>. QED BY <1>2, <1>3, <1>4, <1>5

LEMMA ConfirmSteps ==
  ASSUME IInv, NEW r \in Requests, CheckPayment(r) \/ SaveCompletion(r)
  PROVE  IInv'
<1>. DEFINE s == req[r].session
<1>1. /\ s \in Booked /\ sessions[s] \in Session /\ SessionSound(s) /\ s \in SessionIds
      /\ HandlerSound(req[r]) /\ req[r] \in Request /\ sessions[s].citizen = req[r].citizen
  BY DEF CheckPayment, SaveCompletion, IInv, TypeOK, HandlerSound, SessionSteps, Booked
<1>2. meter' \in [SessionIds -> Nat]
  BY DEF CheckPayment, SaveCompletion, IInv, TypeOK
<1>3. CASE CheckPayment(r) /\ Finish(r)
  BY <1>2, <1>3, FinishStep DEF CheckPayment
<1>4. CASE CheckPayment(r) /\ ~Finish(r)
  <2>1. /\ req[r].pc = "check_payment" /\ req[r].payment # None /\ Goto(r, "save_completion")
        /\ PaymentCovers(req[r].payment, req[r].citizen, req[r].amount)
        /\ UNCHANGED <<sessions, payments, idempotency>>
    BY <1>4 DEF CheckPayment
  <2>2. PaidBy(req[r].payment, req[r].citizen)
    BY <1>1, <2>1 DEF PaidBy, PaymentCovers, Request
  <2>3. PICK q \in Request : /\ req' = [req EXCEPT ![r] = q]
                             /\ q.pc = "save_completion" /\ q.session = s /\ q.citizen = req[r].citizen
                             /\ q.payment = req[r].payment
                             /\ q.found = req[r].found /\ q.overdue = req[r].overdue
    BY <2>1, GotoFacts DEF Steps
  <2>4. HandlerSound(q)
    BY <1>1, <2>1, <2>2, <2>3 DEF HandlerSound, OverdueSound, HoldSteps, SweepSteps, SessionSteps, PaymentSteps
  <2>. QED BY <1>2, <2>1, <2>3, <2>4, ReadStep
<1>5. CASE SaveCompletion(r)
  <2>1. /\ sessions' = [sessions EXCEPT ![s].status = "COMPLETED", ![s].payment = req[r].payment]
        /\ req[r].pc = "save_completion" /\ Finish(r) /\ UNCHANGED <<meter, payments, idempotency>>
    BY <1>5 DEF SaveCompletion
  <2>2. PICK row : row = [sessions[s] EXCEPT !.status = "COMPLETED", !.payment = req[r].payment]
    OBVIOUS
  <2>3. /\ row.status = "COMPLETED" /\ row.charger = sessions[s].charger
        /\ row.citizen = sessions[s].citizen /\ row.payment = req[r].payment
    BY <1>1, <2>2 DEF Session
  <2>4. row \in Session
    BY <1>1, <2>2 DEF Session, Statuses, Request
  <2>5. sessions' = [sessions EXCEPT ![s] = row]
    BY <1>1, <2>1, <2>2 DEF IInv, TypeOK
  <2>6. row.citizen \in Citizens /\ row.charger \in Chargers /\ PaidBy(row.payment, row.citizen)
    BY <1>1, <2>1, <2>3 DEF SessionSound, HandlerSound
  <2>7. /\ RowsKept /\ sessions' \in [SessionIds -> Session]
        /\ ExclusiveUse' /\ (\A t \in SessionIds : SessionSound(t)')
        /\ \A p \in PaymentIds : PaymentSound(p)'
    BY <1>1, <2>1, <2>3, <2>4, <2>5, <2>6, RowStep
  <2>8. HandlerSound(Idle)'
    BY <2>7, IdleFacts, HandlerKept
  <2>. QED BY <2>1, <2>7, <2>8, IdleFacts, Step DEF Finish, IInv, TypeOK
<1>. QED BY <1>3, <1>4, <1>5

-----------------------------------------------------------------------------
(* The steps of nobody's handler *)

LEMMA QuietStep ==
  ASSUME IInv, RowsKept, UNCHANGED <<req, meter, idempotency>>,
         sessions' \in [SessionIds -> Session], payments' \in [PaymentIds -> PaymentRow],
         ExclusiveUse', \A s \in SessionIds : SessionSound(s)', \A p \in PaymentIds : PaymentSound(p)'
  PROVE  IInv'
<1>1. TypeOK'
  BY DEF IInv, TypeOK
<1>2. ASSUME NEW r \in Requests PROVE HandlerSound(req[r])'
  <2>1. PICK q : q = req[r]
    OBVIOUS
  <2>2. HandlerSound(q)' /\ req'[r] = q
    BY <2>1, HandlerKept DEF IInv
  <2>. QED BY <2>2 DEF HandlerSound, OverdueSound, PaidBy, Booked
<1>. QED BY <1>1, <1>2 DEF IInv

LEMMA HoldElapsesStep ==
  ASSUME IInv, NEW s \in SessionIds, HoldElapses(s)
  PROVE  IInv'
<1>1. /\ s \in Booked /\ sessions[s] \in Session /\ SessionSound(s) /\ sessions[s].status = "HELD"
      /\ UNCHANGED <<req, meter, payments, idempotency>>
      /\ sessions' = [sessions EXCEPT ![s].elapsed = TRUE]
  BY DEF HoldElapses, Booked, IInv, TypeOK
<1>2. PICK row : row = [sessions[s] EXCEPT !.elapsed = TRUE]
  OBVIOUS
<1>3. /\ row \in Session /\ row.status = "HELD" /\ row.charger = sessions[s].charger
      /\ row.citizen = sessions[s].citizen /\ row.elapsed = TRUE
  BY <1>1, <1>2 DEF Session
<1>4. sessions' = [sessions EXCEPT ![s] = row]
  BY <1>1, <1>2 DEF IInv, TypeOK
<1>5. /\ RowsKept /\ sessions' \in [SessionIds -> Session]
      /\ ExclusiveUse' /\ (\A t \in SessionIds : SessionSound(t)')
      /\ \A p \in PaymentIds : PaymentSound(p)'
  BY <1>1, <1>3, <1>4, RowStep DEF SessionSound, Active
<1>. QED BY <1>1, <1>5, QuietStep DEF IInv, TypeOK

LEMMA CompletePaymentStep ==
  ASSUME IInv, NEW p \in PaymentIds, CompletePayment(p)
  PROVE  IInv'
<1>1. /\ payments[p].status = "requires_action" /\ payments[p] \in PaymentRow /\ PaymentSound(p)
      /\ UNCHANGED <<sessions, req, meter, idempotency>>
      /\ payments' = [payments EXCEPT ![p].status = "settled"]
  BY DEF CompletePayment, IInv, TypeOK
<1>2. PICK row : row = [payments[p] EXCEPT !.status = "settled"]
  OBVIOUS
<1>3. row \in PaymentRow /\ row.status = "settled" /\ row.session = payments[p].session
  BY <1>1, <1>2 DEF PaymentRow
<1>4. payments' = [payments EXCEPT ![p] = row]
  BY <1>1, <1>2 DEF IInv, TypeOK
<1>5. /\ RowsKept /\ payments' \in [PaymentIds -> PaymentRow]
      /\ ExclusiveUse' /\ (\A t \in SessionIds : SessionSound(t)')
      /\ \A x \in PaymentIds : PaymentSound(x)'
  BY <1>1, <1>3, <1>4, PaymentRowStep DEF PaymentSound
<1>. QED BY <1>1, <1>5, QuietStep DEF IInv, TypeOK

LEMMA NextIInv == IInv /\ [Next]_vars => IInv'
<1>. SUFFICES ASSUME IInv, [Next]_vars PROVE IInv'
  OBVIOUS
<1>1. ASSUME NEW r \in Requests, Call(r) \/ Continue(r) PROVE IInv'
  BY <1>1, CallSteps, FindExpiredStep, CancelExpiredStep, HoldingSteps, StartSteps, StopSteps,
     PayingSteps, ConfirmSteps DEF Continue
<1>2. CASE UNCHANGED vars
  <2>1. RowsKept
    BY <1>2 DEF RowsKept, Booked, vars
  <2>2. ExclusiveUse' /\ (\A s \in SessionIds : SessionSound(s)') /\ \A p \in PaymentIds : PaymentSound(p)'
    BY <1>2 DEF IInv, ExclusiveUse, Active, SessionSound, PaymentSound, PaidBy, Booked, vars
  <2>. QED BY <1>2, <2>1, <2>2, QuietStep DEF IInv, TypeOK, vars
<1>. QED BY <1>1, <1>2, HoldElapsesStep, CompletePaymentStep DEF Next

-----------------------------------------------------------------------------
(* The theorems *)

\* The tables and the locals of every handler stay within their types.
THEOREM TypeCorrect == Spec => []TypeOK
<1>1. IInv => TypeOK
  BY DEF IInv
<1>. QED BY <1>1, InitIInv, NextIInv, PTL DEF Spec

\* insertHold and the late update of startSessionForCitizen are the only writes that make a
\* session active, and both stand under the two partial unique indexes: a charger and a citizen
\* have at most one active session.
THEOREM ExclusiveUseHolds == Spec => []ExclusiveUse
<1>1. IInv => ExclusiveUse
  BY DEF IInv
<1>. QED BY <1>1, InitIInv, NextIInv, PTL DEF Spec

\* What confirmPaymentForCitizen checked of the payment is still so when it completes the
\* session, and ever after.
THEOREM CompletedIsPaidHolds == Spec => []CompletedIsPaid
<1>1. IInv => CompletedIsPaid
  BY DEF IInv, CompletedIsPaid, SessionSound, PaidBy
<1>. QED BY <1>1, InitIInv, NextIInv, PTL DEF Spec

\* The holds that had expired when createHoldForCitizen was called do not block it: they are
\* found and cancelled before it looks, and no late write makes one a hold again.
THEOREM ExpiredHoldsDoNotBlockHolds == Spec => []ExpiredHoldsDoNotBlock
<1>1. IInv => ExpiredHoldsDoNotBlock
  BY DEF IInv, ExpiredHoldsDoNotBlock, HandlerSound, OverdueSound, HoldSteps
<1>. QED BY <1>1, InitIInv, NextIInv, PTL DEF Spec

-----------------------------------------------------------------------------
(* Why a session is cancelled while it charges *)

\* No start of a session is saved while a sweep that has found its hold expired is about to
\* cancel it.
SweepsApart ==
  \A r, t \in Requests :
    req[r].pc = "cancel_expired" /\ req[t].pc = "save_start" => req[t].session \notin req[r].found

\* Then no sweep has a session that is charging.
FoundAtRest ==
  \A r \in Requests : req[r].pc = "cancel_expired" =>
    \A s \in req[r].found : sessions[s].status # "CHARGING"

\* Only the late update of a start makes a session charge.
LEMMA OnlyStartCharges ==
  ASSUME IInv, [Next]_vars, NEW s \in SessionIds,
         sessions'[s].status = "CHARGING", sessions[s].status # "CHARGING"
  PROVE  \E r \in Requests : SaveStart(r)
<1>1. sessions \in [SessionIds -> Session] /\ sessions[s] \in Session
  BY DEF IInv, TypeOK
<1>2. ASSUME sessions' = sessions PROVE FALSE
  BY <1>2
<1>3. ASSUME NEW r \in Requests, Call(r) PROVE FALSE
  BY <1>2, <1>3 DEF Call, ListChargers, CreateHold, StartSession, StopSession, InitiatePayment, ConfirmPayment
<1>4. ASSUME NEW r \in Requests, Continue(r), ~SaveStart(r) PROVE FALSE
  <2>1. CASE CancelExpired(r)
    <3>1. sessions'[s].status \in {"CANCELLED", sessions[s].status}
      BY <1>1, <2>1 DEF CancelExpired, Session
    <3>. QED BY <3>1
  <2>2. ASSUME NEW t \in SessionIds, InsertHold(r, t) PROVE FALSE
    <3>1. sessions'[s] = sessions[s] \/ sessions'[s].status = "HELD"
      BY <1>1, <2>2 DEF InsertHold, NoSession
    <3>. QED BY <3>1
  <2>3. CASE SaveStop(r) \/ SaveCompletion(r)
    <3>1. sessions'[s].status \in {"COMPLETED", sessions[s].status}
      BY <1>1, <2>3 DEF SaveStop, SaveCompletion, Session
    <3>. QED BY <3>1
  <2>. QED BY <1>2, <1>4, <2>1, <2>2, <2>3 DEF Continue, FindExpired, AssertChargerAvailable,
       AssertCitizenHasNoActiveSession, RejectHold, StartMeter, StopMeter, FindIdempotencyRecord,
       FindActivePayment, CreatePendingPayment, RejectUsedKey, CheckPayment
<1>5. ASSUME NEW t \in SessionIds, HoldElapses(t) PROVE FALSE
  <2>1. sessions'[s].status = sessions[s].status
    BY <1>1, <1>5 DEF HoldElapses, Session
  <2>. QED BY <2>1
<1>6. ASSUME NEW p \in PaymentIds, CompletePayment(p) PROVE FALSE
  BY <1>2, <1>6 DEF CompletePayment
<1>. QED BY <1>2, <1>3, <1>4, <1>5, <1>6 DEF Next, vars

\* A handler gets to the update of a sweep from its query.
LEMMA OnlyQueryFinds ==
  ASSUME IInv, [Next]_vars, NEW r \in Requests, req'[r].pc = "cancel_expired"
  PROVE  \/ FindExpired(r)
         \/ req[r].pc = "cancel_expired" /\ req'[r].found = req[r].found
<1>1. req \in [Requests -> Request] /\ req[r] \in Request /\ Idle.pc = "idle"
  BY IdleFacts DEF IInv, TypeOK
<1>2. CASE req'[r] = req[r]
  BY <1>2
<1>3. CASE req'[r] # req[r]
  <2>1. ASSUME NEW t \in Requests, Call(t) PROVE FALSE
    <3>1. t = r
      BY <1>1, <1>3, <2>1 DEF Call, ListChargers, CreateHold, StartSession, StopSession, InitiatePayment,
         ConfirmPayment, Begin, Goto
    <3>2. ListChargers(r) => req'[r].pc = "find_expired"
      BY <1>1 DEF ListChargers, Goto, Request
    <3>3. ASSUME NEW step, NEW x, Begin(r, step, x) PROVE req'[r].pc = step
      BY <1>1, <3>3 DEF Begin, Idle
    <3>4. (\E x \in SessionIds : StartSession(r, x) \/ StopSession(r, x))
            => req'[r].pc \in {"save_start", "stop_meter"}
      BY <3>3 DEF StartSession, StopSession
    <3>5. (\E citizen \in Citizens, charger \in Chargers : CreateHold(r, citizen, charger))
            => req'[r].pc = "find_expired"
      BY <1>1 DEF CreateHold, Idle
    <3>6. (\E x \in SessionIds, k \in Keys : InitiatePayment(r, x, k)) => req'[r].pc = "find_key"
      BY <1>1 DEF InitiatePayment, Idle
    <3>7. (\E x \in SessionIds, p \in PaymentIds \cup {None} : ConfirmPayment(r, x, p))
            => req'[r].pc = "check_payment"
      BY <1>1 DEF ConfirmPayment, Idle
    <3>. QED BY <2>1, <3>1, <3>2, <3>4, <3>5, <3>6, <3>7 DEF Call
  <2>2. ASSUME NEW t \in Requests, Continue(t), ~FindExpired(t) PROVE FALSE
    <3>1. ASSUME Finish(t) PROVE FALSE
      BY <1>1, <1>3, <3>1 DEF Finish
    <3>2. ASSUME NEW step \in Steps, step # "cancel_expired", Goto(t, step) PROVE FALSE
      BY <1>1, <1>3, <3>2 DEF Goto, Request
    <3>3. ASSUME StopMeter(t) PROVE FALSE
      <4>1. t = r
        BY <1>1, <1>3, <3>3 DEF StopMeter
      <4>2. PICK n : req' = [req EXCEPT ![r].pc = "save_stop", ![r].amount = n]
        BY <3>3, <4>1 DEF StopMeter
      <4>3. req'[r] = [req[r] EXCEPT !.pc = "save_stop", !.amount = n]
        BY <1>1, <4>2
      <4>. QED BY <1>1, <4>3 DEF Request
    <3>4. CASE \/ CancelExpired(t) \/ AssertChargerAvailable(t) \/ AssertCitizenHasNoActiveSession(t)
               \/ RejectHold(t) \/ SaveStart(t) \/ StartMeter(t) \/ SaveStop(t)
      BY <3>1, <3>2, <3>4 DEF CancelExpired, AssertChargerAvailable, AssertCitizenHasNoActiveSession,
         RejectHold, SaveStart, StartMeter, SaveStop, Steps
    <3>5. CASE \/ FindIdempotencyRecord(t) \/ FindActivePayment(t) \/ RejectUsedKey(t) \/ CheckPayment(t)
               \/ SaveCompletion(t)
      BY <3>1, <3>2, <3>5 DEF FindIdempotencyRecord, FindActivePayment, RejectUsedKey, CheckPayment,
         SaveCompletion, Steps
    <3>6. CASE \/ \E s \in SessionIds : InsertHold(t, s)
               \/ \E p \in PaymentIds : CreatePendingPayment(t, p)
      BY <3>1, <3>6 DEF InsertHold, CreatePendingPayment
    <3>. QED BY <2>2, <3>3, <3>4, <3>5, <3>6 DEF Continue
  <2>3. ASSUME NEW t \in Requests, FindExpired(t) PROVE t = r
    BY <1>1, <1>3, <2>3 DEF FindExpired
  <2>4. ASSUME NEW s \in SessionIds, HoldElapses(s) PROVE FALSE
    BY <1>3, <2>4 DEF HoldElapses
  <2>5. ASSUME NEW p \in PaymentIds, CompletePayment(p) PROVE FALSE
    BY <1>3, <2>5 DEF CompletePayment
  <2>. QED BY <1>3, <2>1, <2>2, <2>3, <2>4, <2>5 DEF Next, vars
<1>. QED BY <1>2, <1>3

LEMMA InitFoundAtRest == Init => FoundAtRest
  BY IdleFacts DEF Init, FoundAtRest

LEMMA StepFoundAtRest == IInv /\ FoundAtRest /\ SweepsApart /\ [Next]_vars => FoundAtRest'
<1>. SUFFICES ASSUME IInv, FoundAtRest, SweepsApart, [Next]_vars,
                     NEW r \in Requests, req'[r].pc = "cancel_expired",
                     NEW s \in req'[r].found, sessions'[s].status = "CHARGING"
              PROVE  FALSE
  BY DEF FoundAtRest
<1>1. req \in [Requests -> Request] /\ req[r] \in Request /\ sessions \in [SessionIds -> Session]
  BY DEF IInv, TypeOK
<1>2. FindExpired(r) \/ (req[r].pc = "cancel_expired" /\ req'[r].found = req[r].found)
  BY OnlyQueryFinds
<1>3. ASSUME FindExpired(r) PROVE FALSE
  <2>1. req'[r].found = {x \in SessionIds : Expired(x)} /\ sessions' = sessions
    BY <1>1, <1>3 DEF FindExpired, Request
  <2>. QED BY <2>1 DEF Expired
<1>4. ASSUME req[r].pc = "cancel_expired", req'[r].found = req[r].found PROVE FALSE
  <2>1. s \in SessionIds /\ s \in req[r].found /\ sessions[s].status # "CHARGING"
    BY <1>1, <1>4 DEF FoundAtRest, Request
  <2>2. PICK t \in Requests : SaveStart(t)
    BY <2>1, OnlyStartCharges
  <2>3. s # req[t].session
    BY <1>4, <2>1, <2>2 DEF SweepsApart, SaveStart
  <2>4. sessions'[s] = sessions[s]
    BY <1>1, <2>1, <2>2, <2>3 DEF SaveStart
  <2>. QED BY <2>1, <2>4
<1>. QED BY <1>2, <1>3, <1>4

LEMMA StepChargingUntilPaid ==
  ASSUME IInv, FoundAtRest, [Next]_vars, NEW s \in SessionIds, sessions[s].status = "CHARGING"
  PROVE  sessions'[s].status \in {"CHARGING", "COMPLETED"}
<1>1. sessions \in [SessionIds -> Session] /\ sessions[s] \in Session
  BY DEF IInv, TypeOK
<1>2. CASE sessions' = sessions
  BY <1>2
<1>3. ASSUME NEW r \in Requests, Call(r) PROVE sessions' = sessions
  BY <1>3 DEF Call, ListChargers, CreateHold, StartSession, StopSession, InitiatePayment, ConfirmPayment
<1>4. ASSUME NEW r \in Requests, Continue(r) PROVE sessions'[s].status \in {"CHARGING", "COMPLETED"}
  <2>1. CASE CancelExpired(r)
    <3>1. s \notin req[r].found
      BY <2>1 DEF CancelExpired, FoundAtRest
    <3>. QED BY <2>1, <3>1 DEF CancelExpired
  <2>2. ASSUME NEW t \in SessionIds, InsertHold(r, t) PROVE sessions'[s] = sessions[s]
    BY <1>1, <2>2 DEF InsertHold
  <2>3. CASE SaveStart(r)
    BY <1>1, <1>2, <2>3 DEF SaveStart, Session
  <2>4. CASE SaveStop(r)
    BY <1>1, <2>4 DEF SaveStop, Session
  <2>5. CASE SaveCompletion(r)
    BY <1>1, <2>5 DEF SaveCompletion, Session
  <2>. QED BY <1>2, <1>4, <2>1, <2>2, <2>3, <2>4, <2>5 DEF Continue, FindExpired, AssertChargerAvailable,
       AssertCitizenHasNoActiveSession, RejectHold, StartMeter, StopMeter, FindIdempotencyRecord,
       FindActivePayment, CreatePendingPayment, RejectUsedKey, CheckPayment
<1>5. ASSUME NEW t \in SessionIds, HoldElapses(t) PROVE sessions'[s].status = sessions[s].status
  BY <1>1, <1>5 DEF HoldElapses, Session
<1>6. ASSUME NEW p \in PaymentIds, CompletePayment(p) PROVE sessions' = sessions
  BY <1>6 DEF CompletePayment
<1>. QED BY <1>2, <1>3, <1>4, <1>5, <1>6 DEF Next, vars

\* A session leaves CHARGING otherwise than by its payment only when a start was saved between the
\* query of a sweep that found its hold expired and that sweep's update by id
\* (releaseExpiredEvSessionHolds, startSessionForCitizen).
THEOREM ChargingUntilPaidWhenApart == Spec /\ []SweepsApart => ChargingUntilPaid
<1>. DEFINE Stays == \A s \in SessionIds :
       sessions[s].status = "CHARGING" => sessions'[s].status \in {"CHARGING", "COMPLETED"}
<1>1. Init => FoundAtRest
  BY InitFoundAtRest
<1>2. IInv /\ FoundAtRest /\ SweepsApart /\ [Next]_vars => FoundAtRest'
  BY StepFoundAtRest
<1>3. IInv /\ FoundAtRest /\ [Next]_vars => [Stays]_vars
  BY StepChargingUntilPaid
<1>. HIDE DEF Stays
<1>4. Spec /\ []SweepsApart => [][Stays]_vars
  BY <1>1, <1>2, <1>3, InitIInv, NextIInv, PTL DEF Spec
<1>. QED BY <1>4 DEF Stays, ChargingUntilPaid

=============================================================================
