--------------------------- MODULE GrievancesProofs ---------------------------
(***************************************************************************)
(* Proofs about Grievances for any number of cases, handlers, calls and     *)
(* routings: numbers stay dense, a case nobody wrote to late is consistent, *)
(* and no case climbs by more than one step for each deadline it missed.    *)
(*                                                                         *)
(* The invariant says what a handler still knows of the rows it read: all   *)
(* of what it checked, as long as no other handler has written the row.     *)
(***************************************************************************)
EXTENDS Grievances, FiniteSetTheorems, TLAPS

StatusSaves == {"save_status", "save_desk_status", "save_assignment"}
Sweeps      == {"sweep", "desk_sweep"}

\* What the locals q say of a case that nobody has written since it was read.
Known(q, g) ==
  LET row == grievances[g]
  IN /\ q.pc \in {"save_status", "save_desk_status"} => MayMove(row.status, q.to)
     /\ q.pc = "save_desk_status" => q.resolvedAt = (q.to = "resolved" \/ row.resolvedAt)
     /\ q.pc = "save_assignment" =>
          q.to = IF row.status = "submitted" THEN "under_review" ELSE row.status
     /\ q.pc \in {"save_feedback", "save_reopen"} => row.status = "resolved"
     /\ q.pc \in Sweeps => Breached(g)

\* The locals q of a handler whose cases in late have been written by others.
Sound(q, late) ==
  /\ late \subseteq q.todo
  /\ q.pc = "idle" => q.todo = {}
  /\ q.pc = "insert" => /\ late = {} /\ \E g \in Cases \ Filed : q.todo = {g}
                        /\ q.no \in 1 .. (Cardinality(Filed) + 1)
  /\ q.pc \notin {"idle", "insert"} => q.todo \subseteq Filed
  /\ q.pc \in StatusSaves => q.to \in Statuses \ {"submitted"}
  /\ \A g \in q.todo \ late : Known(q, g)

\* Two filings are of two cases.
InsertsApart ==
  \A r, s \in Requests :
    r # s /\ req[r].pc = "insert" /\ req[s].pc = "insert" => req[r].todo \cap req[s].todo = {}

\* QuietIsConsistent of one row.
Consistent(row, late) ==
  /\ row.status \in {"resolved", "closed"} => row.resolvedAt
  /\ row.rated => row.status = "closed"
  /\ row.slaBreachedAt => late
  /\ row.status = "submitted" => ~row.assigned

IInv ==
  /\ TypeOK
  /\ NumbersAreDense
  /\ InsertsApart
  /\ QuietIsConsistent
  /\ \A r \in Requests : Sound(req[r], overtaken[r])

-----------------------------------------------------------------------------
(* Constants *)

LEMMA StatusFacts ==
  /\ Statuses = {"submitted", "under_review", "in_progress", "resolved", "closed"}
  /\ \A s \in Statuses : Allowed[s] \subseteq Statuses \ {"submitted"}
  /\ Allowed["resolved"] = {"closed", "under_review"} /\ Allowed["closed"] = {}
  /\ \A s \in Statuses : "closed" \in Allowed[s] => s = "resolved"
  /\ "under_review" \in Allowed["submitted"]
  /\ "absent" \notin Statuses
  BY DEF Statuses, Allowed

LEMMA IdleFacts ==
  /\ Idle \in Request /\ Idle.pc = "idle" /\ Idle.todo = {}
  /\ NoCase \in Grievance /\ NoCase.status = "absent"
<1>1. Cardinality(Cases) + 1 \in Nat /\ 0 \in Numbers
  BY FiniteAssumption, FS_CardinalityType DEF Numbers
<1>2. Idle \in Request
  BY <1>1 DEF Idle, Request, Roles
<1>3. NoCase \in Grievance
  BY <1>1 DEF NoCase, Grievance, Roles
<1>. QED BY <1>2, <1>3 DEF Idle, NoCase

\* An escalation climbs one step, or starts again from the municipality's.
LEMMA RankFacts ==
  \A role \in Roles : /\ Rank[role] \in Nat /\ Escalated(role) \in Roles
                      /\ Rank[Escalated(role)] <= Rank[role] + 1
  BY DEF Rank, Roles, Escalated

LEMMA FiledFacts ==
  ASSUME TypeOK
  PROVE  /\ IsFiniteSet(Filed) /\ Cardinality(Filed) \in Nat
         /\ Cardinality(Filed) + 1 \in Numbers
<1>1. Filed \in SUBSET Cases
  BY DEF Filed
<1>2. IsFiniteSet(Filed) /\ Cardinality(Filed) <= Cardinality(Cases)
  BY <1>1, FiniteAssumption, FS_Subset
<1>3. Cardinality(Filed) \in Nat /\ Cardinality(Cases) \in Nat
  BY <1>2, FiniteAssumption, FS_CardinalityType
<1>. QED BY <1>2, <1>3 DEF Numbers

LEMMA InitIInv == Init => IInv
<1>. SUFFICES ASSUME Init PROVE IInv
  OBVIOUS
<1>1. TypeOK
  BY IdleFacts, BoundAssumption DEF Init, TypeOK
<1>2. Filed = {}
  BY IdleFacts DEF Init, Filed
<1>3. NumbersAreDense
  BY <1>2, FS_EmptySet DEF NumbersAreDense
<1>4. InsertsApart /\ QuietIsConsistent
  BY <1>2, IdleFacts DEF Init, InsertsApart, QuietIsConsistent
<1>5. \A r \in Requests : Sound(req[r], overtaken[r])
  BY IdleFacts DEF Init, Sound, StatusSaves
<1>. QED BY <1>1, <1>3, <1>4, <1>5 DEF IInv

-----------------------------------------------------------------------------
(* Reading *)

\* A handler starts with the locals q, which are true of the rows it has just read.
LEMMA ReadStep ==
  ASSUME IInv, NEW r \in Requests, NEW q \in Request, Read(r, q), Sound(q, {}),
         q.pc = "insert" => \A s \in Requests : req[s].todo \cap q.todo = {}
  PROVE  IInv'
<1>. USE DEF Read
<1>1. req' = [req EXCEPT ![r] = q] /\ req[r].pc = "idle"
  OBVIOUS
<1>2. calls' \in 0 .. MaxCalls
  BY BoundAssumption DEF IInv, TypeOK
<1>3. TypeOK'
  BY <1>1, <1>2 DEF IInv, TypeOK
<1>4. NumbersAreDense' /\ QuietIsConsistent'
  BY DEF IInv, NumbersAreDense, QuietIsConsistent, Filed
<1>5. InsertsApart'
  BY <1>1 DEF IInv, TypeOK, InsertsApart
<1>6. ASSUME NEW s \in Requests PROVE Sound(req[s], overtaken[s])'
  <2>1. Sound(req[s], overtaken[s]) /\ overtaken'[s] = overtaken[s]
    BY DEF IInv
  <2>2. CASE s = r
    <3>1. overtaken[r] = {}
      BY <1>1, <2>1, <2>2 DEF Sound
    <3>2. req'[s] = q
      BY <1>1, <2>2 DEF IInv, TypeOK
    <3>. QED BY <2>1, <2>2, <3>1, <3>2 DEF Sound, Known, Filed, Breached
  <2>3. CASE s # r
    <3>1. req'[s] = req[s]
      BY <1>1, <2>3 DEF IInv, TypeOK
    <3>. QED BY <2>1, <3>1 DEF Sound, Known, Filed, Breached
  <2>. QED BY <2>2, <2>3
<1>. QED BY <1>3, <1>4, <1>5, <1>6 DEF IInv

LEMMA ReadCase ==
  ASSUME IInv, NEW r \in Requests, NEW g \in Filed, NEW q \in Request,
         q.pc \in Saves, q.todo = {g}, Read(r, q), Known(q, g),
         q.pc \in StatusSaves => q.to \in Statuses \ {"submitted"}
  PROVE  IInv'
<1>1. Sound(q, {})
  BY DEF Sound, Saves
<1>2. q.pc # "insert"
  BY DEF Saves
<1>. QED BY <1>1, <1>2, ReadStep

LEMMA StaffCalls ==
  ASSUME IInv, NEW r \in Requests, NEW g \in Cases,
         \/ \E to \in Statuses : UpdateStatus(r, g, to) \/ UpdateDeskGrievanceStatus(r, g, to)
         \/ Assign(r, g)
  PROVE  IInv'
<1>1. grievances[g] \in Grievance
  BY DEF IInv, TypeOK
<1>2. ASSUME NEW to \in Statuses, UpdateStatus(r, g, to) PROVE IInv'
  <2>1. PICK q : q = [Idle EXCEPT !.pc = "save_status", !.todo = {g}, !.to = to]
    OBVIOUS
  <2>2. q \in Request /\ q.pc = "save_status" /\ q.todo = {g} /\ q.to = to
    BY <2>1, IdleFacts DEF Idle, Request, Saves
  <2>3. g \in Filed /\ MayMove(grievances[g].status, to) /\ Read(r, q)
    BY <1>2, <2>1 DEF UpdateStatus
  <2>4. to # "submitted"
    BY <2>3, StatusFacts, <1>1 DEF MayMove, Filed, Grievance
  <2>5. Known(q, g)
    BY <2>2, <2>3 DEF Known, Sweeps
  <2>. QED BY <2>2, <2>3, <2>4, <2>5, ReadCase DEF Saves
<1>3. ASSUME NEW to \in Statuses, UpdateDeskGrievanceStatus(r, g, to) PROVE IInv'
  <2>. DEFINE at == (to = "resolved") \/ grievances[g].resolvedAt
  <2>1. PICK q : q = [Idle EXCEPT !.pc = "save_desk_status", !.todo = {g}, !.to = to,
                                  !.resolvedAt = at]
    OBVIOUS
  <2>2. at \in BOOLEAN
    OBVIOUS
  <2>3. g \in Filed /\ MayMove(grievances[g].status, to) /\ Read(r, q)
    BY <1>3, <2>1 DEF UpdateDeskGrievanceStatus
  <2>. HIDE DEF at
  <2>4. /\ q \in Request /\ q.pc = "save_desk_status" /\ q.todo = {g} /\ q.to = to
        /\ q.resolvedAt = at
    BY <2>1, <2>2, IdleFacts DEF Idle, Request, Saves
  <2>5. to # "submitted"
    BY <2>3, StatusFacts, <1>1 DEF MayMove, Filed, Grievance
  <2>6. Known(q, g)
    BY <2>3, <2>4 DEF Known, Sweeps, at
  <2>. QED BY <2>3, <2>4, <2>5, <2>6, ReadCase DEF Saves
<1>4. ASSUME Assign(r, g) PROVE IInv'
  <2>. DEFINE to == IF grievances[g].status = "submitted" THEN "under_review" ELSE grievances[g].status
  <2>1. PICK q : q = [Idle EXCEPT !.pc = "save_assignment", !.todo = {g}, !.to = to]
    OBVIOUS
  <2>2. g \in Filed /\ Read(r, q)
    BY <1>4, <2>1 DEF Assign
  <2>3. to \in Statuses \ {"submitted"}
    BY <1>1, <2>2, StatusFacts DEF Filed, Grievance
  <2>. HIDE DEF to
  <2>4. q \in Request /\ q.pc = "save_assignment" /\ q.todo = {g} /\ q.to = to
    BY <2>1, <2>3, IdleFacts DEF Idle, Request, Saves
  <2>5. Known(q, g)
    BY <2>4 DEF Known, Sweeps, to
  <2>. QED BY <2>2, <2>3, <2>4, <2>5, ReadCase DEF Saves
<1>. QED BY <1>2, <1>3, <1>4

LEMMA CitizenCalls ==
  ASSUME IInv, NEW r \in Requests, NEW g \in Cases,
         SubmitFeedback(r, g) \/ ReopenCitizenCase(r, g)
  PROVE  IInv'
<1>1. grievances[g].status = "resolved" /\ g \in Filed
  BY StatusFacts DEF SubmitFeedback, ReopenCitizenCase, Filed
<1>2. PICK pc \in {"save_feedback", "save_reopen"} : Read(r, [Idle EXCEPT !.pc = pc, !.todo = {g}])
  BY DEF SubmitFeedback, ReopenCitizenCase
<1>3. PICK q : q = [Idle EXCEPT !.pc = pc, !.todo = {g}]
  OBVIOUS
<1>4. q \in Request /\ q.pc = pc /\ q.todo = {g}
  BY <1>3, IdleFacts DEF Idle, Request, Saves
<1>5. Known(q, g)
  BY <1>1, <1>4 DEF Known, Sweeps
<1>. QED BY <1>1, <1>2, <1>3, <1>4, <1>5, ReadCase DEF Saves, StatusSaves

LEMMA FilingCall ==
  ASSUME IInv, NEW r \in Requests, NEW g \in Cases, AllocateGrievanceNumber(r, g)
  PROVE  IInv'
<1>. DEFINE n == Cardinality(Filed) + 1
<1>1. PICK q : q = [Idle EXCEPT !.pc = "insert", !.todo = {g}, !.no = n]
  OBVIOUS
<1>2. n \in Numbers /\ n \in 1 .. (Cardinality(Filed) + 1)
  BY FiledFacts DEF IInv
<1>3. g \notin Filed /\ (\A s \in Requests : g \notin req[s].todo) /\ Read(r, q)
  BY <1>1 DEF AllocateGrievanceNumber
<1>. HIDE DEF n
<1>4. q \in Request /\ q.pc = "insert" /\ q.todo = {g} /\ q.no = n
  BY <1>1, <1>2, IdleFacts DEF Idle, Request
<1>5. Known(q, g)
  BY <1>4 DEF Known, Sweeps
<1>6. Sound(q, {})
  BY <1>2, <1>3, <1>4, <1>5 DEF Sound, StatusSaves
<1>. QED BY <1>3, <1>4, <1>6, ReadStep

LEMMA SweepCalls ==
  ASSUME IInv, NEW r \in Requests, SweepSlaBreaches(r) \/ SweepDeskGrievanceSla(r)
  PROVE  IInv'
<1>1. Selected \subseteq Filed /\ Selected \in SUBSET Cases
  BY DEF Selected, Breached, Filed
<1>2. ASSUME NEW q \in Request, q.pc \in Sweeps, q.todo = Selected, Read(r, q)
      PROVE  IInv'
  <2>1. \A g \in q.todo : Known(q, g)
    BY <1>2 DEF Known, Sweeps, Selected
  <2>2. Sound(q, {})
    BY <1>1, <1>2, <2>1 DEF Sound, Sweeps, StatusSaves
  <2>. QED BY <1>2, <2>2, ReadStep DEF Sweeps
<1>3. CASE SweepSlaBreaches(r)
  <2>. DEFINE role == [g \in Cases |-> IF g \in Selected THEN grievances[g].role ELSE Idle.role[g]]
              q == [Idle EXCEPT !.pc = "sweep", !.todo = Selected, !.role = role]
  <2>1. role \in [Cases -> Roles]
    BY IdleFacts DEF IInv, TypeOK, Grievance, Request
  <2>2. Read(r, q)
    BY <1>3 DEF SweepSlaBreaches
  <2>. HIDE DEF role
  <2>3. q \in Request /\ q.pc = "sweep" /\ q.todo = Selected
    BY <1>1, <2>1, IdleFacts DEF Idle, Request
  <2>4. PICK locals \in Request : locals = q
    BY <2>3
  <2>. QED BY <1>2, <2>2, <2>3, <2>4 DEF Sweeps
<1>4. CASE SweepDeskGrievanceSla(r)
  <2>. DEFINE q == [Idle EXCEPT !.pc = "desk_sweep", !.todo = Selected]
  <2>1. q \in Request /\ q.pc = "desk_sweep" /\ q.todo = Selected
    BY <1>1, IdleFacts DEF Idle, Request
  <2>2. PICK locals \in Request : locals = q
    BY <2>1
  <2>. QED BY <1>2, <1>4, <2>1, <2>2 DEF Sweeps, SweepDeskGrievanceSla
<1>. QED BY <1>3, <1>4

LEMMA CallSteps ==
  ASSUME IInv, NEW r \in Requests, Call(r)
  PROVE  IInv'
  BY StaffCalls, CitizenCalls, FilingCall, SweepCalls DEF Call

-----------------------------------------------------------------------------
(* Writing *)

\* Write, with the rows as a function.
WriteOf(r, done, new) ==
  LET left == req[r].todo \ done
  IN /\ grievances' = [g \in Cases |-> IF g \in done THEN new[g] ELSE grievances[g]]
     /\ req' = [req EXCEPT ![r] = IF left = {} THEN Idle ELSE [req[r] EXCEPT !.todo = left]]
     /\ overtaken' = [q \in Requests |-> IF q = r THEN overtaken[q] \ done
                                         ELSE overtaken[q] \cup (done \cap req[q].todo)]
     /\ disturbed' = disturbed \cup (done \cap overtaken[r])
     /\ UNCHANGED <<reach, calls>>

\* The deadlines are those of the rows not written, and of the written ones at most fewer.
TimeOf(done) ==
  /\ overdue' \in SUBSET overdue /\ expired' \in SUBSET Cases
  /\ \A g \in Cases \ done : g \in overdue' <=> g \in overdue

\* What every write keeps, and what one keeps whose row is still the one that was read.
Kept(g, new) ==
  /\ new.no = grievances[g].no
  /\ new.status \in Statuses \ {"submitted"}

KeptIfKnown(g, new) ==
  Consistent(grievances[g], g \in overdue) => Consistent(new, g \in overdue')

\* A write leaves the queue as it is, with the breach or with a new deadline, or records a breach.
Climb(r, g, new) ==
  \/ new.role = grievances[g].role /\ new.slaBreachedAt = grievances[g].slaBreachedAt
  \/ new.role = grievances[g].role /\ g \notin overdue'
  \/ new.slaBreachedAt /\ req[r].pc = "sweep" /\ new.role = Escalated(req[r].role[g])
  \/ new.slaBreachedAt /\ req[r].pc = "desk_sweep" /\ new.role = "municipality_admin"

SweepKept(g, new) ==
  /\ new.no = grievances[g].no
  /\ new.status = grievances[g].status

GoodWrite(r, done, new) ==
  /\ req[r].pc \in Saves \cup Sweeps
  /\ done \subseteq req[r].todo
  /\ WriteOf(r, done, new) /\ TimeOf(done)
  /\ \A g \in done : Kept(g, new[g]) \/ SweepKept(g, new[g])
  /\ \A g \in done \ overtaken[r] : KeptIfKnown(g, new[g])
  /\ \A g \in done : Climb(r, g, new[g])

LEMMA WriterFacts ==
  ASSUME IInv, NEW r \in Requests, req[r].pc \in Saves \cup Sweeps
  PROVE  /\ req[r] \in Request /\ req[r].todo \subseteq Filed /\ req[r].todo \subseteq Cases
         /\ req[r].pc \in StatusSaves => req[r].to \in Statuses \ {"submitted"}
         /\ \A g \in req[r].todo \ overtaken[r] : Known(req[r], g)
         /\ \A g \in Cases : grievances[g] \in Grievance
         /\ \A g \in Filed : grievances[g].status \in Statuses
<1>1. req[r] \in Request /\ Sound(req[r], overtaken[r])
  BY DEF IInv, TypeOK
<1>2. req[r].pc \notin {"idle", "insert"}
  BY DEF Saves, Sweeps
<1>3. Filed \subseteq Cases
  BY DEF Filed
<1>4. \A g \in Cases : grievances[g] \in Grievance
  BY DEF IInv, TypeOK
<1>5. \A g \in Filed : grievances[g].status \in Statuses
  BY <1>4 DEF Filed, Grievance
<1>. QED BY <1>1, <1>2, <1>3, <1>4, <1>5 DEF Sound

LEMMA StatusWrite ==
  ASSUME IInv, NEW r \in Requests, SaveStatus(r)
  PROVE  \E done \in SUBSET Cases, new \in [Cases -> Grievance] : GoodWrite(r, done, new)
<1>. DEFINE to == req[r].to
            done == req[r].todo
            at(g) == IF req[r].pc = "save_status" THEN grievances[g].resolvedAt \/ to = "resolved"
                     ELSE req[r].resolvedAt
            row(g) == [grievances[g] EXCEPT !.status = to, !.resolvedAt = at(g)]
            new == [g \in Cases |-> row(g)]
<1>1. req[r].pc \in {"save_status", "save_desk_status"}
  BY DEF SaveStatus
<1>2. /\ req[r] \in Request /\ done \subseteq Filed /\ done \subseteq Cases
      /\ to \in Statuses \ {"submitted"}
      /\ \A g \in done \ overtaken[r] : Known(req[r], g)
      /\ \A g \in Cases : grievances[g] \in Grievance
  BY <1>1, WriterFacts DEF Saves, StatusSaves
<1>3. \A g \in Cases : at(g) \in BOOLEAN
  BY <1>2 DEF Request, Grievance
<1>. HIDE DEF at, to
<1>4. ASSUME NEW g \in Cases
      PROVE  /\ row(g) \in Grievance /\ row(g).status = to /\ row(g).resolvedAt = at(g)
             /\ row(g).no = grievances[g].no /\ row(g).role = grievances[g].role
             /\ row(g).assigned = grievances[g].assigned /\ row(g).rated = grievances[g].rated
             /\ row(g).slaBreachedAt = grievances[g].slaBreachedAt
  BY <1>2, <1>3 DEF Grievance
<1>5. WriteOf(r, done, new)
  BY DEF SaveStatus, Write, WriteOf, at, to
<1>6. TimeOf(done)
  BY DEF SaveStatus, TimeOf, IInv, TypeOK
<1>. HIDE DEF row
<1>7. \A g \in done : Kept(g, new[g])
  BY <1>2, <1>4 DEF Kept
<1>8. ASSUME NEW g \in done \ overtaken[r] PROVE KeptIfKnown(g, new[g])
  <2>1. Known(req[r], g) /\ g \in Filed /\ g \in Cases
    BY <1>2
  <2>2. MayMove(grievances[g].status, to)
    BY <1>1, <2>1 DEF Known, to
  <2>3. at(g) = (to = "resolved" \/ grievances[g].resolvedAt)
    BY <1>1, <2>1 DEF Known, to, at
  <2>5. to = "closed" => grievances[g].status = "resolved"
    <3>1. grievances[g].status \in Statuses
      BY <1>1, <2>1, WriterFacts DEF Saves
    <3>. QED BY <2>2, <3>1, StatusFacts DEF MayMove
  <2>6. grievances[g].status # "closed"
    BY <2>2, StatusFacts DEF MayMove
  <2>7. ASSUME Consistent(grievances[g], g \in overdue)
        PROVE  Consistent(row(g), g \in overdue')
    <3>1. overdue' = overdue
      BY DEF SaveStatus
    <3>2. row(g).rated => row(g).status = "closed"
      BY <1>4, <2>1, <2>6, <2>7 DEF Consistent
    <3>3. row(g).status \in {"resolved", "closed"} => row(g).resolvedAt
      BY <1>4, <2>1, <2>3, <2>5, <2>7 DEF Consistent
    <3>4. row(g).slaBreachedAt => g \in overdue'
      BY <1>4, <2>1, <2>7, <3>1 DEF Consistent
    <3>5. row(g).status # "submitted"
      BY <1>2, <1>4, <2>1
    <3>. QED BY <3>2, <3>3, <3>4, <3>5 DEF Consistent
  <2>. QED BY <2>1, <2>7 DEF KeptIfKnown
<1>9. new \in [Cases -> Grievance]
  BY <1>4
<1>10. req[r].pc \in Saves \cup Sweeps
  BY <1>1 DEF Saves
<1>11. \A g \in done : Climb(r, g, new[g])
  BY <1>2, <1>4 DEF Climb
<1>. HIDE DEF new
<1>. QED BY <1>2, <1>5, <1>6, <1>7, <1>8, <1>9, <1>10, <1>11 DEF GoodWrite

LEMMA AssignmentWrite ==
  ASSUME IInv, NEW r \in Requests, SaveAssignment(r)
  PROVE  \E done \in SUBSET Cases, new \in [Cases -> Grievance] : GoodWrite(r, done, new)
<1>. DEFINE to == req[r].to
            done == req[r].todo
            row(g) == [grievances[g] EXCEPT !.assigned = TRUE, !.status = to]
            new == [g \in Cases |-> row(g)]
<1>1. req[r].pc = "save_assignment"
  BY DEF SaveAssignment
<1>2. /\ req[r] \in Request /\ done \subseteq Filed /\ done \subseteq Cases
      /\ to \in Statuses \ {"submitted"}
      /\ \A g \in done \ overtaken[r] : Known(req[r], g)
      /\ \A g \in Cases : grievances[g] \in Grievance
      /\ \A g \in Filed : grievances[g].status \in Statuses
  BY <1>1, WriterFacts DEF Saves, StatusSaves
<1>. HIDE DEF to
<1>3. ASSUME NEW g \in Cases
      PROVE  /\ row(g) \in Grievance /\ row(g).status = to /\ row(g).assigned = TRUE
             /\ row(g).no = grievances[g].no /\ row(g).role = grievances[g].role
             /\ row(g).resolvedAt = grievances[g].resolvedAt /\ row(g).rated = grievances[g].rated
             /\ row(g).slaBreachedAt = grievances[g].slaBreachedAt
  BY <1>2 DEF Grievance
<1>4. WriteOf(r, done, new)
  BY DEF SaveAssignment, Write, WriteOf, to
<1>5. TimeOf(done) /\ overdue' = overdue
  BY DEF SaveAssignment, TimeOf, IInv, TypeOK
<1>. HIDE DEF row
<1>6. \A g \in done : Kept(g, new[g])
  BY <1>2, <1>3 DEF Kept
<1>7. ASSUME NEW g \in done \ overtaken[r] PROVE KeptIfKnown(g, new[g])
  <2>1. g \in Filed /\ g \in Cases
    BY <1>2
  <2>2. to = IF grievances[g].status = "submitted" THEN "under_review" ELSE grievances[g].status
    BY <1>1, <1>2 DEF Known, to
  <2>5. Consistent(grievances[g], g \in overdue) => Consistent(row(g), g \in overdue')
    BY <1>2, <1>3, <1>5, <2>1, <2>2 DEF Consistent
  <2>. QED BY <2>1, <2>5 DEF KeptIfKnown
<1>8. new \in [Cases -> Grievance]
  BY <1>3
<1>9. req[r].pc \in Saves \cup Sweeps
  BY <1>1 DEF Saves
<1>10. \A g \in done : Climb(r, g, new[g])
  BY <1>2, <1>3 DEF Climb
<1>. HIDE DEF new
<1>. QED BY <1>2, <1>4, <1>5, <1>6, <1>7, <1>8, <1>9, <1>10 DEF GoodWrite

LEMMA FeedbackWrite ==
  ASSUME IInv, NEW r \in Requests, SaveFeedback(r)
  PROVE  \E done \in SUBSET Cases, new \in [Cases -> Grievance] : GoodWrite(r, done, new)
<1>. DEFINE done == req[r].todo
            row(g) == [grievances[g] EXCEPT !.status = "closed", !.rated = TRUE]
            new == [g \in Cases |-> row(g)]
<1>1. req[r].pc = "save_feedback"
  BY DEF SaveFeedback
<1>2. /\ done \subseteq Filed /\ done \subseteq Cases
      /\ \A g \in done \ overtaken[r] : Known(req[r], g)
      /\ \A g \in Cases : grievances[g] \in Grievance
  BY <1>1, WriterFacts DEF Saves
<1>3. ASSUME NEW g \in Cases
      PROVE  /\ row(g) \in Grievance /\ row(g).status = "closed" /\ row(g).rated = TRUE
             /\ row(g).no = grievances[g].no /\ row(g).role = grievances[g].role
             /\ row(g).resolvedAt = grievances[g].resolvedAt
             /\ row(g).assigned = grievances[g].assigned
             /\ row(g).slaBreachedAt = grievances[g].slaBreachedAt
  BY ZenonT(60), <1>2, StatusFacts DEF Grievance
<1>4. WriteOf(r, done, new)
  BY DEF SaveFeedback, Write, WriteOf
<1>5. TimeOf(done) /\ overdue' = overdue
  BY DEF SaveFeedback, TimeOf, IInv, TypeOK
<1>. HIDE DEF row
<1>6. \A g \in done : Kept(g, new[g])
  BY <1>2, <1>3, StatusFacts DEF Kept
<1>7. ASSUME NEW g \in done \ overtaken[r] PROVE KeptIfKnown(g, new[g])
  <2>1. grievances[g].status = "resolved" /\ g \in Cases
    BY <1>1, <1>2 DEF Known
  <2>4. Consistent(grievances[g], g \in overdue) => Consistent(row(g), g \in overdue')
    BY <1>3, <1>5, <2>1 DEF Consistent
  <2>. QED BY <2>1, <2>4 DEF KeptIfKnown
<1>8. new \in [Cases -> Grievance]
  BY <1>3
<1>9. req[r].pc \in Saves \cup Sweeps
  BY <1>1 DEF Saves
<1>10. \A g \in done : Climb(r, g, new[g])
  BY <1>2, <1>3 DEF Climb
<1>. HIDE DEF new
<1>. QED BY <1>2, <1>4, <1>5, <1>6, <1>7, <1>8, <1>9, <1>10 DEF GoodWrite

LEMMA ReopenWrite ==
  ASSUME IInv, NEW r \in Requests, SaveReopen(r)
  PROVE  \E done \in SUBSET Cases, new \in [Cases -> Grievance] : GoodWrite(r, done, new)
<1>. DEFINE done == req[r].todo
            row(g) == Reopened(grievances[g])
            new == [g \in Cases |-> row(g)]
<1>1. req[r].pc = "save_reopen"
  BY DEF SaveReopen
<1>2. /\ done \subseteq Filed /\ done \subseteq Cases
      /\ \A g \in done \ overtaken[r] : Known(req[r], g)
      /\ \A g \in Cases : grievances[g] \in Grievance
  BY <1>1, WriterFacts DEF Saves
<1>3. ASSUME NEW g \in Cases
      PROVE  /\ row(g) \in Grievance /\ row(g).status = "under_review"
             /\ row(g).no = grievances[g].no /\ row(g).role = grievances[g].role
             /\ row(g).resolvedAt = FALSE /\ row(g).rated = grievances[g].rated
             /\ row(g).assigned = grievances[g].assigned /\ row(g).slaBreachedAt = FALSE
  BY ZenonT(60), <1>2, StatusFacts DEF Reopened, Grievance
<1>4. WriteOf(r, done, new)
  BY DEF SaveReopen, Write, WriteOf
<1>5. TimeOf(done)
  BY DEF SaveReopen, TimeOf, IInv, TypeOK
<1>. HIDE DEF row
<1>6. \A g \in done : Kept(g, new[g])
  BY <1>2, <1>3, StatusFacts DEF Kept
<1>7. ASSUME NEW g \in done \ overtaken[r] PROVE KeptIfKnown(g, new[g])
  <2>1. grievances[g].status = "resolved" /\ g \in Cases
    BY <1>1, <1>2 DEF Known
  <2>4. Consistent(grievances[g], g \in overdue) => Consistent(row(g), g \in overdue')
    BY <1>3, <2>1 DEF Consistent
  <2>. QED BY <2>1, <2>4 DEF KeptIfKnown
<1>8. new \in [Cases -> Grievance]
  BY <1>3
<1>9. req[r].pc \in Saves \cup Sweeps
  BY <1>1 DEF Saves
<1>10. \A g \in done : Climb(r, g, new[g])
  BY <1>2, <1>3 DEF Climb, SaveReopen
<1>. HIDE DEF new
<1>. QED BY <1>2, <1>4, <1>5, <1>6, <1>7, <1>8, <1>9, <1>10 DEF GoodWrite

LEMMA BreachWrite ==
  ASSUME IInv, NEW r \in Requests, SaveBreach(r) \/ SaveDeskBreaches(r)
  PROVE  \E done \in SUBSET Cases, new \in [Cases -> Grievance] : GoodWrite(r, done, new)
<1>. DEFINE role(g) == IF req[r].pc = "sweep" THEN Escalated(req[r].role[g]) ELSE "municipality_admin"
            row(g) == EscalatedRow(g, role(g))
            new == [g \in Cases |-> row(g)]
<1>1. req[r].pc \in Sweeps
  BY DEF SaveBreach, SaveDeskBreaches, Sweeps
<1>2. /\ req[r] \in Request /\ req[r].todo \subseteq Filed /\ req[r].todo \subseteq Cases
      /\ \A g \in req[r].todo \ overtaken[r] : Known(req[r], g)
      /\ \A g \in Cases : grievances[g] \in Grievance
  BY <1>1, WriterFacts
<1>3. PICK done \in SUBSET req[r].todo : WriteOf(r, done, new)
  <2>1. CASE SaveBreach(r)
    <3>1. PICK g \in req[r].todo :
             WriteOf(r, {g}, [h \in Cases |-> EscalatedRow(h, Escalated(req[r].role[h]))])
      BY ZenonT(60), <2>1 DEF SaveBreach, NextRole, Write, WriteOf
    <3>2. req[r].pc = "sweep"
      BY <2>1 DEF SaveBreach
    <3>. QED BY <3>1, <3>2
  <2>2. CASE SaveDeskBreaches(r)
    <3>1. WriteOf(r, req[r].todo, [h \in Cases |-> EscalatedRow(h, "municipality_admin")])
      BY <2>2 DEF SaveDeskBreaches, Write, WriteOf
    <3>2. req[r].pc # "sweep"
      BY <2>2 DEF SaveDeskBreaches
    <3>. QED BY <3>1, <3>2
  <2>. QED BY <2>1, <2>2
<1>4. \A g \in Cases : role(g) \in Roles
  BY <1>2 DEF Escalated, Roles, Request
<1>. HIDE DEF role
<1>5. ASSUME NEW g \in Cases
      PROVE  /\ row(g) \in Grievance /\ row(g).status = grievances[g].status
             /\ row(g).no = grievances[g].no /\ row(g).role = role(g)
             /\ row(g).resolvedAt = grievances[g].resolvedAt /\ row(g).rated = grievances[g].rated
             /\ row(g).assigned = FALSE /\ row(g).slaBreachedAt = TRUE
  BY <1>2, <1>4 DEF EscalatedRow, Grievance
<1>6. TimeOf(done) /\ overdue' = overdue
  BY DEF SaveBreach, SaveDeskBreaches, TimeOf, IInv, TypeOK
<1>. HIDE DEF row
<1>7. \A g \in done : SweepKept(g, new[g])
  BY <1>2, <1>5 DEF SweepKept
<1>8. ASSUME NEW g \in done \ overtaken[r] PROVE KeptIfKnown(g, new[g])
  <2>1. Breached(g) /\ g \in Cases
    BY <1>1, <1>2 DEF Known
  <2>2. grievances[g].status \notin {"resolved", "closed"} /\ g \in overdue /\ ~grievances[g].slaBreachedAt
    BY <2>1 DEF Breached
  <2>4. Consistent(grievances[g], g \in overdue) => Consistent(row(g), g \in overdue')
    BY <1>5, <1>6, <2>1, <2>2 DEF Consistent
  <2>. QED BY <2>1, <2>4 DEF KeptIfKnown
<1>9. new \in [Cases -> Grievance]
  BY <1>5
<1>10. \A g \in done : Climb(r, g, new[g])
  BY <1>1, <1>2, <1>5 DEF Climb, Sweeps, role
<1>. HIDE DEF new
<1>. QED BY <1>1, <1>2, <1>3, <1>6, <1>7, <1>8, <1>9, <1>10 DEF GoodWrite

\* The written rows keep their numbers and are still filed.
LEMMA WrittenRows ==
  ASSUME IInv, NEW r \in Requests, NEW done \in SUBSET Cases, NEW new \in [Cases -> Grievance],
         GoodWrite(r, done, new)
  PROVE  /\ \A g \in Cases : grievances'[g] = IF g \in done THEN new[g] ELSE grievances[g]
         /\ \A g \in Cases : grievances'[g].no = grievances[g].no
         /\ done \subseteq Filed /\ Filed' = Filed
<1>1. \A g \in Cases : grievances'[g] = IF g \in done THEN new[g] ELSE grievances[g]
  BY DEF GoodWrite, WriteOf
<1>2. done \subseteq Filed
  BY WriterFacts DEF GoodWrite
<1>3. \A g \in done : /\ new[g].no = grievances[g].no
                      /\ new[g].status # "absent"
  BY <1>2, StatusFacts DEF GoodWrite, Kept, SweepKept, Filed
<1>4. \A g \in Cases : grievances'[g].no = grievances[g].no
  BY <1>1, <1>3
<1>5. Filed' = Filed
  BY <1>1, <1>2, <1>3 DEF Filed
<1>. QED BY <1>1, <1>2, <1>4, <1>5

LEMMA WriteStep ==
  ASSUME IInv, NEW r \in Requests, NEW done \in SUBSET Cases, NEW new \in [Cases -> Grievance],
         GoodWrite(r, done, new)
  PROVE  IInv'
<1>. DEFINE left == req[r].todo \ done
            q == IF left = {} THEN Idle ELSE [req[r] EXCEPT !.todo = left]
<1>1. /\ \A g \in Cases : grievances'[g] = IF g \in done THEN new[g] ELSE grievances[g]
      /\ done \subseteq Filed /\ Filed' = Filed
      /\ \A g \in Cases : grievances'[g].no = grievances[g].no
  BY WrittenRows
<1>2. /\ req' = [req EXCEPT ![r] = q]
      /\ disturbed' = disturbed \cup (done \cap overtaken[r])
      /\ UNCHANGED <<reach, calls>>
      /\ grievances' \in [Cases -> Grievance]
      /\ \A s \in Requests : overtaken'[s] = IF s = r THEN overtaken[s] \ done
                                            ELSE overtaken[s] \cup (done \cap req[s].todo)
      /\ overtaken' = [s \in Requests |-> overtaken'[s]]
  BY DEF GoodWrite, WriteOf, IInv, TypeOK
<1>3. TimeOf(done) /\ \A g \in done \ overtaken[r] : KeptIfKnown(g, new[g])
  BY DEF GoodWrite
<1>4. /\ req[r] \in Request /\ req[r].todo \subseteq Filed /\ req[r].todo \subseteq Cases
      /\ req[r].pc \notin {"idle", "insert"} /\ req \in [Requests -> Request]
  BY WriterFacts DEF GoodWrite, Saves, Sweeps, IInv, TypeOK
<1>5. /\ q \in Request /\ q.todo = left
      /\ left # {} => q.pc = req[r].pc /\ q.to = req[r].to /\ q.resolvedAt = req[r].resolvedAt
      /\ left = {} => q.pc = "idle"
  BY <1>4, IdleFacts DEF Request
<1>. HIDE DEF q
<1>6. req'[r] = q /\ \A s \in Requests \ {r} : req'[s] = req[s]
  BY <1>2, <1>4
<1>7. TypeOK'
  <2>1. req' \in [Requests -> Request]
    BY <1>2, <1>4, <1>5
  <2>2. overtaken' \in [Requests -> SUBSET Cases]
    BY <1>2 DEF IInv, TypeOK
  <2>. QED BY <1>2, <1>3, <2>1, <2>2 DEF IInv, TypeOK, TimeOf
<1>8. NumbersAreDense'
  <2>1. \A g \in Filed : grievances'[g].no = grievances[g].no
    BY <1>1 DEF Filed
  <2>2. {grievances'[g].no : g \in Filed} = {grievances[g].no : g \in Filed}
    BY <2>1
  <2>. QED BY <1>1, <2>1, <2>2 DEF IInv, NumbersAreDense
<1>9. InsertsApart'
  BY <1>4, <1>5, <1>6 DEF IInv, InsertsApart
<1>10. QuietIsConsistent'
  <2>1. SUFFICES ASSUME NEW g \in Filed \ disturbed' PROVE Consistent(grievances'[g], g \in overdue')
    BY <1>1 DEF QuietIsConsistent, Consistent
  <2>2. g \in Cases /\ Consistent(grievances[g], g \in overdue)
    BY <1>2 DEF IInv, QuietIsConsistent, Consistent, Filed
  <2>3. CASE g \in done
    BY <1>1, <1>2, <1>3, <2>2, <2>3 DEF KeptIfKnown
  <2>4. CASE g \notin done
    BY <1>1, <1>3, <2>2, <2>4 DEF TimeOf, Consistent
  <2>. QED BY <2>3, <2>4
<1>11. ASSUME NEW p, NEW g \in Cases \ done, Known(p, g) PROVE Known(p, g)'
  BY <1>1, <1>3, <1>11 DEF Known, Breached, TimeOf
<1>12. ASSUME NEW s \in Requests PROVE Sound(req[s], overtaken[s])'
  <2>1. Sound(req[s], overtaken[s])
    BY DEF IInv
  <2>2. CASE s = r
    <3>1. \A g \in left \ overtaken[r] : Known(req[r], g) /\ g \in Cases \ done
      BY <1>4, <2>1, <2>2 DEF Sound
    <3>2. \A g \in left \ overtaken[r] : Known(q, g)
      BY <1>5, <3>1 DEF Known
    <3>3. PICK p : p = q
      OBVIOUS
    <3>4. \A g \in left \ overtaken[r] : Known(p, g)'
      BY <1>11, <3>1, <3>2, <3>3
    <3>5. Sound(p, overtaken[s])'
      BY <1>1, <1>2, <1>4, <1>5, <2>1, <2>2, <3>3, <3>4 DEF Sound, StatusSaves
    <3>6. req'[s] = p
      BY <1>6, <2>2, <3>3
    <3>. QED BY <3>5, <3>6
  <2>3. CASE s # r
    <3>1. PICK p : p = req[s]
      OBVIOUS
    <3>2. req'[s] = p /\ overtaken'[s] = overtaken[s] \cup (done \cap p.todo)
      BY <1>2, <1>6, <2>3, <3>1
    <3>3. p.todo \subseteq Cases
      BY <1>4, <3>1 DEF Request
    <3>4. \A g \in p.todo \ overtaken'[s] : Known(p, g)'
      BY <1>11, <2>1, <3>1, <3>2, <3>3 DEF Sound
    <3>5. p.pc = "insert" => overtaken'[s] = {}
      BY <1>1, <2>1, <3>1, <3>2 DEF Sound
    <3>6. Sound(p, overtaken[s])'
      BY <1>1, <2>1, <3>1, <3>2, <3>4, <3>5 DEF Sound
    <3>. QED BY <3>2, <3>6
  <2>. QED BY <2>2, <2>3
<1>. QED BY <1>7, <1>8, <1>9, <1>10, <1>12 DEF IInv

-----------------------------------------------------------------------------
(* Filing, dying and time *)

\* A handler ends without writing.
LEMMA EndStep ==
  ASSUME IInv, NEW r \in Requests, req' = [req EXCEPT ![r] = Idle],
         overtaken' \in [Requests -> SUBSET Cases], overtaken'[r] = {},
         \A s \in Requests \ {r} : overtaken'[s] = overtaken[s],
         UNCHANGED <<grievances, overdue, expired, reach, disturbed, calls>>
  PROVE  IInv'
<1>1. req'[r] = Idle /\ \A s \in Requests \ {r} : req'[s] = req[s]
  BY DEF IInv, TypeOK
<1>2. TypeOK'
  BY IdleFacts DEF IInv, TypeOK
<1>3. NumbersAreDense' /\ QuietIsConsistent'
  BY DEF IInv, NumbersAreDense, QuietIsConsistent, Filed
<1>4. InsertsApart'
  BY <1>1, IdleFacts DEF IInv, InsertsApart
<1>5. ASSUME NEW s \in Requests PROVE Sound(req[s], overtaken[s])'
  <2>1. CASE s = r
    BY <1>1, <2>1, IdleFacts DEF Sound, StatusSaves
  <2>2. CASE s # r
    <3>1. Sound(req[s], overtaken[s])
      BY DEF IInv
    <3>. QED BY <1>1, <2>2, <3>1 DEF Sound, Known, Filed, Breached
  <2>. QED BY <2>1, <2>2
<1>. QED BY <1>2, <1>3, <1>4, <1>5 DEF IInv

\* What an inserting handler knows: a case of its own, and a number that is the next one
\* unless it is taken.
LEMMA InsertFacts ==
  ASSUME IInv, NEW r \in Requests, req[r].pc = "insert"
  PROVE  /\ req[r].todo = {Case(r)} /\ Case(r) \in Cases \ Filed /\ overtaken[r] = {}
         /\ req[r].no \in Numbers
         /\ NumberIndexAllows(req[r].no) => req[r].no = Cardinality(Filed) + 1
<1>1. Sound(req[r], overtaken[r]) /\ req[r] \in Request
  BY DEF IInv, TypeOK
<1>2. PICK g \in Cases \ Filed : req[r].todo = {g}
  BY <1>1 DEF Sound
<1>3. Case(r) = g
  BY <1>2 DEF Case
<1>4. req[r].no \in 1 .. (Cardinality(Filed) + 1) /\ overtaken[r] = {}
  BY <1>1 DEF Sound
<1>5. ASSUME NumberIndexAllows(req[r].no) PROVE req[r].no = Cardinality(Filed) + 1
  <2>1. {grievances[h].no : h \in Filed} = 1 .. Cardinality(Filed)
    BY DEF IInv, NumbersAreDense
  <2>2. req[r].no \notin 1 .. Cardinality(Filed)
    BY <1>5, <2>1 DEF NumberIndexAllows
  <2>3. Cardinality(Filed) \in Nat
    BY FiledFacts DEF IInv
  <2>. QED BY <1>4, <2>2, <2>3
<1>. QED BY <1>1, <1>2, <1>3, <1>4, <1>5 DEF Request

LEMMA CreateStep ==
  ASSUME IInv, NEW r \in Requests, Create(r)
  PROVE  IInv'
<1>. DEFINE g == Case(r)
            no == req[r].no
            n == Cardinality(Filed)
<1>1. /\ req[r].todo = {g} /\ g \in Cases \ Filed /\ overtaken[r] = {} /\ req[r].pc = "insert"
      /\ no \in Numbers
      /\ NumberIndexAllows(no) => no = n + 1
  BY InsertFacts DEF Create
<1>2. CASE ~NumberIndexAllows(no)
  <2>1. UNCHANGED <<grievances, overdue, expired, reach, overtaken, disturbed, calls>>
    BY <1>2 DEF Create
  <2>2. req' = [req EXCEPT ![r] = Idle]
    BY DEF Create
  <2>. QED BY <1>1, <2>1, <2>2, EndStep DEF IInv, TypeOK
<1>3. CASE NumberIndexAllows(no)
  <2>1. PICK routing \in Routings :
           /\ reach' = [reach EXCEPT ![g] = Rank[routing.role]]
           /\ grievances' = [grievances EXCEPT ![g] =
                [NoCase EXCEPT !.no = req[r].no,
                               !.status = IF routing.assigned THEN "under_review" ELSE "submitted",
                               !.role = routing.role, !.assigned = routing.assigned]]
    BY <1>3 DEF Create
  <2>2. PICK row : row = [NoCase EXCEPT !.no = req[r].no,
                            !.status = IF routing.assigned THEN "under_review" ELSE "submitted",
                            !.role = routing.role, !.assigned = routing.assigned]
    OBVIOUS
  <2>3. routing.role \in Roles /\ routing.assigned \in BOOLEAN
    BY RoutingAssumption
  <2>4. /\ row \in Grievance /\ row.no = no /\ row.status \in {"under_review", "submitted"}
        /\ row.status = "submitted" => ~row.assigned
        /\ row.rated = FALSE /\ row.slaBreachedAt = FALSE
    BY <1>1, <2>2, <2>3, StatusFacts DEF NoCase, Grievance
  <2>5. /\ grievances' = [grievances EXCEPT ![g] = row]
        /\ req' = [req EXCEPT ![r] = Idle]
        /\ UNCHANGED <<overdue, expired, overtaken, disturbed, calls>>
    BY <2>1, <2>2 DEF Create
  <2>6. /\ grievances' \in [Cases -> Grievance] /\ grievances'[g] = row
        /\ \A h \in Cases \ {g} : grievances'[h] = grievances[h]
    BY <1>1, <2>4, <2>5 DEF IInv, TypeOK
  <2>7. Filed' = Filed \cup {g}
    BY <1>1, <2>4, <2>6 DEF Filed
  <2>8. IsFiniteSet(Filed) /\ n \in Nat /\ Cardinality(Filed \cup {g}) = n + 1
    BY <1>1, FiledFacts, FS_AddElement DEF IInv
  <2>9. Cardinality(Filed)' = n + 1
    BY <2>7, <2>8
  <2>. HIDE DEF g, n
  <2>10. TypeOK'
    <3>1. reach' \in [Cases -> Nat]
      BY <1>1, <2>1, <2>3, RankFacts DEF IInv, TypeOK
    <3>. QED BY <2>5, <2>6, <3>1, IdleFacts DEF IInv, TypeOK
  <2>11. NumbersAreDense'
    <3>1. /\ {grievances[h].no : h \in Filed} = 1 .. n
          /\ \A h, k \in Filed : grievances[h].no = grievances[k].no => h = k
      BY DEF IInv, NumbersAreDense, n
    <3>2. \A h \in Filed : h \in Cases \ {g} /\ grievances'[h].no = grievances[h].no
      BY <1>1, <2>6 DEF Filed
    <3>3. no = n + 1 /\ grievances'[g].no = n + 1
      BY <1>1, <1>3, <2>4, <2>6
    <3>4. {grievances'[h].no : h \in Filed \cup {g}} = (1 .. n) \cup {n + 1}
      BY <3>1, <3>2, <3>3
    <3>5. (1 .. n) \cup {n + 1} = 1 .. (n + 1)
      BY <2>8
    <3>6. \A h \in Filed : grievances[h].no \in 1 .. n
      BY <3>1
    <3>7. \A h, k \in Filed \cup {g} : grievances'[h].no = grievances'[k].no => h = k
      BY <2>8, <3>1, <3>2, <3>3, <3>6
    <3>8. {grievances'[h].no : h \in Filed'} = 1 .. Cardinality(Filed')
      BY <2>7, <2>9, <3>4, <3>5
    <3>. QED BY <2>7, <3>7, <3>8 DEF NumbersAreDense
  <2>12. req'[r] = Idle /\ \A s \in Requests \ {r} : req'[s] = req[s]
    BY <2>5 DEF IInv, TypeOK
  <2>13. InsertsApart'
    BY <2>12, IdleFacts DEF IInv, InsertsApart
  <2>14. QuietIsConsistent'
    <3>1. \A h \in Filed \ disturbed : Consistent(grievances[h], h \in overdue)
      BY DEF IInv, QuietIsConsistent, Consistent
    <3>2. Consistent(row, g \in overdue)
      BY <2>4 DEF Consistent
    <3>3. \A h \in Filed : grievances'[h] = grievances[h]
      BY <1>1, <2>6 DEF Filed
    <3>4. \A h \in (Filed \cup {g}) \ disturbed : Consistent(grievances'[h], h \in overdue)
      BY <2>6, <3>1, <3>2, <3>3
    <3>. QED BY <2>5, <2>7, <3>4 DEF QuietIsConsistent, Consistent
  <2>15. ASSUME NEW s \in Requests PROVE Sound(req[s], overtaken[s])'
    <3>1. CASE s = r
      BY <1>1, <2>5, <2>12, <3>1, IdleFacts DEF Sound, StatusSaves
    <3>2. CASE s # r
      <4>1. PICK q : q = req[s]
        OBVIOUS
      <4>2. Sound(q, overtaken[s]) /\ q \in Request
        BY <4>1 DEF IInv, TypeOK
      <4>3. q.pc = "insert" => g \notin q.todo
        BY <1>1, <3>2, <4>1 DEF IInv, InsertsApart
      <4>4. g \notin q.todo
        BY <1>1, <4>2, <4>3, IdleFacts DEF Sound
      <4>5. \A h \in q.todo \ overtaken[s] : Known(q, h)'
        <5>1. ASSUME NEW h \in q.todo \ overtaken[s] PROVE Known(q, h)'
          <6>1. Known(q, h) /\ h \in Cases \ {g}
            BY <4>2, <4>4 DEF Sound, Request
          <6>2. grievances'[h] = grievances[h] /\ overdue' = overdue
            BY <2>5, <2>6, <6>1
          <6>. QED BY <6>1, <6>2 DEF Known, Breached
        <5>. QED BY <5>1
      <4>6. q.pc = "insert" => \E h \in Cases \ Filed' : q.todo = {h}
        BY <2>7, <4>2, <4>3 DEF Sound
      <4>7. q.pc = "insert" => q.no \in 1 .. (Cardinality(Filed) + 1)'
        BY <2>8, <2>9, <4>2 DEF Sound, n
      <4>8. Sound(q, overtaken[s])'
        BY <2>5, <2>7, <4>2, <4>5, <4>6, <4>7 DEF Sound
      <4>. QED BY <2>12, <3>2, <4>1, <4>8
    <3>. QED BY <3>1, <3>2
  <2>. QED BY <2>10, <2>11, <2>13, <2>14, <2>15 DEF IInv
<1>. QED BY <1>2, <1>3

\* Time passes, or nothing does: no deadline is taken back.
LEMMA TimeStep ==
  ASSUME IInv, UNCHANGED <<grievances, req, overtaken, disturbed, calls>>,
         overdue \subseteq overdue', overdue' \in SUBSET Cases, expired' \in SUBSET Cases,
         reach' \in [Cases -> Nat]
  PROVE  IInv'
<1>1. TypeOK'
  BY DEF IInv, TypeOK
<1>2. NumbersAreDense' /\ InsertsApart' /\ QuietIsConsistent'
  BY DEF IInv, NumbersAreDense, InsertsApart, QuietIsConsistent, Filed
<1>3. ASSUME NEW r \in Requests PROVE Sound(req[r], overtaken[r])'
  <2>1. PICK q, late : q = req[r] /\ late = overtaken[r]
    OBVIOUS
  <2>2. Sound(q, late) /\ req'[r] = q /\ overtaken'[r] = late
    BY <2>1 DEF IInv
  <2>3. Filed' = Filed
    BY DEF Filed
  <2>4. \A g \in q.todo \ late : Known(q, g)'
    BY <2>2 DEF Sound, Known, Breached
  <2>5. Sound(q, late)'
    BY <2>2, <2>3, <2>4 DEF Sound
  <2>. QED BY <2>2, <2>5
<1>. QED BY <1>1, <1>2, <1>3 DEF IInv

-----------------------------------------------------------------------------
(* The invariant *)

LEMMA ContinueCases ==
  ASSUME IInv, NEW r \in Requests, Continue(r)
  PROVE  \/ Create(r)
         \/ \E done \in SUBSET Cases, new \in [Cases -> Grievance] : GoodWrite(r, done, new)
  BY StatusWrite, AssignmentWrite, FeedbackWrite, ReopenWrite, BreachWrite DEF Continue

LEMMA NextIInv == IInv /\ [Next]_vars => IInv'
<1>. SUFFICES ASSUME IInv, [Next]_vars PROVE IInv'
  OBVIOUS
<1>1. CASE UNCHANGED vars
  BY <1>1, TimeStep DEF vars, IInv, TypeOK
<1>2. ASSUME NEW r \in Requests, Call(r) PROVE IInv'
  BY <1>2, CallSteps
<1>3. ASSUME NEW r \in Requests, Continue(r) PROVE IInv'
  BY <1>3, ContinueCases, CreateStep, WriteStep
<1>4. ASSUME NEW r \in Requests, Die(r) PROVE IInv'
  BY <1>4, EndStep DEF Die, IInv, TypeOK
<1>5. ASSUME NEW g \in Cases, DeadlinePasses(g) \/ WindowPasses(g) PROVE IInv'
  BY <1>5, TimeStep DEF DeadlinePasses, WindowPasses, IInv, TypeOK
<1>. QED BY <1>1, <1>2, <1>3, <1>4, <1>5 DEF Next

\* The cases and what handlers hold of them are always well typed.
THEOREM TypeCorrect == Spec => []TypeOK
<1>1. IInv => TypeOK
  BY DEF IInv
<1>. QED BY <1>1, InitIInv, NextIInv, PTL DEF Spec

\* Numbers are 1, 2, ... without gap or repetition, however many filings count the same rows.
THEOREM NumbersAreDenseHolds == Spec => []NumbersAreDense
<1>1. IInv => NumbersAreDense
  BY DEF IInv
<1>. QED BY <1>1, InitIInv, NextIInv, PTL DEF Spec

\* A case that nobody wrote to late is consistent, whatever handlers and sweeps die half-way.
THEOREM QuietIsConsistentHolds == Spec => []QuietIsConsistent
<1>1. IInv => QuietIsConsistent
  BY DEF IInv
<1>. QED BY <1>1, InitIInv, NextIInv, PTL DEF Spec

-----------------------------------------------------------------------------
(* One step up for a deadline *)

\* Case g stands within its reach, and below it while the sweeps may still select it.
Within(g) ==
  /\ Rank[grievances[g].role] <= reach[g]
  /\ g \in overdue => 1 <= reach[g]
  /\ g \in overdue /\ ~grievances[g].slaBreachedAt => Rank[grievances[g].role] + 1 <= reach[g]

\* The role a sweep with the locals q will write is within the reach of the cases it selected.
Headed(q) ==
  \A g \in q.todo : /\ q.pc = "sweep" => Rank[Escalated(q.role[g])] <= reach[g]
                    /\ q.pc = "desk_sweep" => 1 <= reach[g]

CInv ==
  /\ IInv
  /\ overdue \subseteq Filed
  /\ \A g \in Filed : Within(g)
  /\ \A r \in Requests : Headed(req[r])

\* Handler r moves to the locals q; no filed case loses reach.
LEMMA ClimbStep ==
  ASSUME CInv, IInv', NEW r \in Requests, NEW q, req' = [req EXCEPT ![r] = q], Headed(q)',
         overdue' \subseteq Filed', \A g \in Filed' : Within(g)',
         \A g \in Filed : reach[g] <= reach'[g]
  PROVE  CInv'
<1>1. req'[r] = q /\ \A s \in Requests \ {r} : req'[s] = req[s]
  BY DEF CInv, IInv, TypeOK
<1>2. ASSUME NEW s \in Requests PROVE Headed(req[s])'
  <2>1. CASE s = r
    BY <1>1, <2>1 DEF Headed
  <2>2. CASE s # r
    <3>1. PICK p : p = req[s]
      OBVIOUS
    <3>2. Headed(p) /\ Sound(p, overtaken[s]) /\ p \in Request
      BY <3>1 DEF CInv, IInv, TypeOK
    <3>3. ASSUME NEW g \in p.todo, p.pc \in Sweeps
          PROVE  g \in Filed /\ reach[g] <= reach'[g] /\ reach[g] \in Nat /\ reach'[g] \in Nat
      <4>1. g \in Filed
        BY <3>2, <3>3 DEF Sound, Sweeps
      <4>2. g \in Cases
        BY <4>1 DEF Filed
      <4>. QED BY <4>1, <4>2 DEF CInv, IInv, TypeOK
    <3>4. ASSUME NEW g \in p.todo, p.pc = "sweep" PROVE Rank[Escalated(p.role[g])] <= reach'[g]
      <4>1. Rank[Escalated(p.role[g])] <= reach[g]
        BY <3>2, <3>4 DEF Headed
      <4>2. p.role[g] \in Roles
        BY <3>2, <3>4 DEF Request
      <4>3. Rank[Escalated(p.role[g])] \in Nat
        BY <4>2, RankFacts
      <4>. QED BY <3>3, <3>4, <4>1, <4>3 DEF Sweeps
    <3>5. ASSUME NEW g \in p.todo, p.pc = "desk_sweep" PROVE 1 <= reach'[g]
      BY <3>2, <3>3, <3>5 DEF Headed, Sweeps
    <3>6. Headed(p)'
      BY <3>4, <3>5 DEF Headed
    <3>. QED BY <1>1, <2>2, <3>1, <3>6
  <2>. QED BY <2>1, <2>2
<1>. QED BY <1>2 DEF CInv

\* A step that changes no row, no deadline and no reach.
LEMMA ClimbHandler ==
  ASSUME CInv, IInv', NEW r \in Requests, NEW q, req' = [req EXCEPT ![r] = q], Headed(q),
         UNCHANGED <<grievances, overdue, reach>>
  PROVE  CInv'
<1>1. Filed' = Filed
  BY DEF Filed
<1>2. Headed(q)' /\ \A g \in Filed : Within(g)'
  BY DEF CInv, Headed, Within
<1>3. \A g \in Filed : reach[g] <= reach'[g]
  BY DEF CInv, IInv, TypeOK, Filed
<1>. QED BY <1>1, <1>2, <1>3, ClimbStep DEF CInv

LEMMA ClimbCalls ==
  ASSUME CInv, IInv', NEW r \in Requests, Call(r)
  PROVE  CInv'
<1>1. ASSUME NEW q, Read(r, q), q.pc \notin Sweeps PROVE CInv'
  BY <1>1, ClimbHandler DEF Read, Headed, Sweeps
<1>2. ASSUME NEW g \in Cases, AllocateGrievanceNumber(r, g) PROVE CInv'
  <2>1. PICK q : q = [Idle EXCEPT !.pc = "insert", !.todo = {g}, !.no = Cardinality(Filed) + 1]
    OBVIOUS
  <2>. QED BY <1>1, <1>2, <2>1 DEF AllocateGrievanceNumber, Idle, Sweeps
<1>3. ASSUME NEW g \in Cases, NEW to \in Statuses, UpdateStatus(r, g, to) PROVE CInv'
  <2>1. PICK q : q = [Idle EXCEPT !.pc = "save_status", !.todo = {g}, !.to = to]
    OBVIOUS
  <2>. QED BY <1>1, <1>3, <2>1 DEF UpdateStatus, Idle, Sweeps
<1>4. ASSUME NEW g \in Cases, NEW to \in Statuses, UpdateDeskGrievanceStatus(r, g, to) PROVE CInv'
  <2>1. PICK q : q = [Idle EXCEPT !.pc = "save_desk_status", !.todo = {g}, !.to = to,
                           !.resolvedAt = (to = "resolved") \/ grievances[g].resolvedAt]
    OBVIOUS
  <2>. QED BY <1>1, <1>4, <2>1 DEF UpdateDeskGrievanceStatus, Idle, Sweeps
<1>5. ASSUME NEW g \in Cases, Assign(r, g) PROVE CInv'
  <2>1. PICK q : q = [Idle EXCEPT !.pc = "save_assignment", !.todo = {g},
                        !.to = IF grievances[g].status = "submitted" THEN "under_review"
                               ELSE grievances[g].status]
    OBVIOUS
  <2>. QED BY <1>1, <1>5, <2>1 DEF Assign, Idle, Sweeps
<1>6. ASSUME NEW g \in Cases, SubmitFeedback(r, g) PROVE CInv'
  <2>1. PICK q : q = [Idle EXCEPT !.pc = "save_feedback", !.todo = {g}]
    OBVIOUS
  <2>. QED BY <1>1, <1>6, <2>1 DEF SubmitFeedback, Idle, Sweeps
<1>7. ASSUME NEW g \in Cases, ReopenCitizenCase(r, g) PROVE CInv'
  <2>1. PICK q : q = [Idle EXCEPT !.pc = "save_reopen", !.todo = {g}]
    OBVIOUS
  <2>. QED BY <1>1, <1>7, <2>1 DEF ReopenCitizenCase, Idle, Sweeps
<1>8. ASSUME NEW g \in Selected
      PROVE  /\ grievances[g].role \in Roles /\ g \in Cases
             /\ 1 <= reach[g] /\ Rank[grievances[g].role] + 1 <= reach[g]
             /\ reach[g] \in Nat
  BY DEF Selected, Breached, CInv, Within, Filed, IInv, TypeOK, Grievance
<1>9. CASE SweepSlaBreaches(r)
  <2>. DEFINE role == [g \in Cases |-> IF g \in Selected THEN grievances[g].role ELSE Idle.role[g]]
  <2>1. PICK q : q = [Idle EXCEPT !.pc = "sweep", !.todo = Selected, !.role = role]
    OBVIOUS
  <2>2. Read(r, q)
    BY <1>9, <2>1 DEF SweepSlaBreaches
  <2>3. q.pc = "sweep" /\ q.todo = Selected /\ q.role = role
    BY <2>1 DEF Idle
  <2>4. ASSUME NEW g \in Selected PROVE Rank[Escalated(q.role[g])] <= reach[g]
    <3>1. q.role[g] = grievances[g].role
      BY <1>8, <2>3
    <3>2. /\ Rank[Escalated(grievances[g].role)] <= Rank[grievances[g].role] + 1
          /\ Rank[grievances[g].role] \in Nat /\ Rank[Escalated(grievances[g].role)] \in Nat
      BY <1>8, RankFacts
    <3>. QED BY <1>8, <3>1, <3>2
  <2>5. Headed(q)
    BY <2>3, <2>4 DEF Headed
  <2>. QED BY <2>2, <2>5, ClimbHandler DEF Read
<1>10. CASE SweepDeskGrievanceSla(r)
  <2>1. PICK q : q = [Idle EXCEPT !.pc = "desk_sweep", !.todo = Selected]
    OBVIOUS
  <2>2. Read(r, q)
    BY <1>10, <2>1 DEF SweepDeskGrievanceSla
  <2>3. Headed(q)
    BY <1>8, <2>1 DEF Headed, Idle
  <2>. QED BY <2>2, <2>3, ClimbHandler DEF Read
<1>. QED BY <1>2, <1>3, <1>4, <1>5, <1>6, <1>7, <1>9, <1>10 DEF Call

LEMMA ClimbWrites ==
  ASSUME CInv, IInv', NEW r \in Requests, NEW done \in SUBSET Cases, NEW new \in [Cases -> Grievance],
         GoodWrite(r, done, new)
  PROVE  CInv'
<1>1. PICK q : q = IF req[r].todo \ done = {} THEN Idle ELSE [req[r] EXCEPT !.todo = req[r].todo \ done]
  OBVIOUS
<1>2. /\ req' = [req EXCEPT ![r] = q] /\ reach' = reach
      /\ done \subseteq req[r].todo /\ TimeOf(done)
  BY <1>1 DEF GoodWrite, WriteOf
<1>3. /\ \A g \in Cases : grievances'[g] = IF g \in done THEN new[g] ELSE grievances[g]
      /\ done \subseteq Filed /\ Filed' = Filed
  BY WrittenRows DEF CInv
<1>4. Headed(req[r]) /\ req[r] \in Request
  BY DEF CInv, IInv, TypeOK
<1>5. q.pc \in {"idle", req[r].pc} /\ q.todo \subseteq req[r].todo /\ (q.pc # "idle" => q.role = req[r].role)
  BY <1>1, <1>4 DEF Idle, Request
<1>6. Headed(q)'
  BY <1>2, <1>4, <1>5 DEF Headed
<1>7. overdue' \subseteq Filed'
  BY <1>2, <1>3 DEF TimeOf, CInv
<1>8. ASSUME NEW g \in Filed PROVE Within(g)'
  <2>1. /\ Within(g) /\ g \in Cases /\ reach[g] \in Nat
        /\ grievances[g].role \in Roles /\ Rank[grievances[g].role] \in Nat
    BY RankFacts DEF CInv, IInv, TypeOK, Grievance, Filed
  <2>2. g \in overdue' => g \in overdue
    BY <1>2 DEF TimeOf
  <2>3. CASE g \notin done
    BY <1>2, <1>3, <2>1, <2>2, <2>3 DEF Within
  <2>4. CASE g \in done
    <3>1. Climb(r, g, new[g]) /\ grievances'[g] = new[g]
      BY <1>3, <2>1, <2>4 DEF GoodWrite
    <3>2. CASE new[g].role = grievances[g].role /\ new[g].slaBreachedAt = grievances[g].slaBreachedAt
      BY <1>2, <2>1, <2>2, <3>1, <3>2 DEF Within
    <3>3. CASE new[g].role = grievances[g].role /\ g \notin overdue'
      BY <1>2, <2>1, <3>1, <3>3 DEF Within
    <3>4. CASE new[g].slaBreachedAt /\ req[r].pc = "sweep" /\ new[g].role = Escalated(req[r].role[g])
      <4>1. Rank[new[g].role] <= reach[g]
        BY <1>2, <1>4, <2>4, <3>4 DEF Headed
      <4>. QED BY <1>2, <2>1, <2>2, <3>1, <3>4, <4>1 DEF Within
    <3>5. CASE new[g].slaBreachedAt /\ req[r].pc = "desk_sweep" /\ new[g].role = "municipality_admin"
      <4>1. 1 <= reach[g]
        BY <1>2, <1>4, <2>4, <3>5 DEF Headed
      <4>2. Rank["municipality_admin"] = 1
        BY DEF Rank
      <4>. QED BY <1>2, <2>1, <2>2, <3>1, <3>5, <4>1, <4>2 DEF Within
    <3>. QED BY <3>1, <3>2, <3>3, <3>4, <3>5 DEF Climb
  <2>. QED BY <2>3, <2>4
<1>9. \A g \in Filed : reach[g] <= reach'[g]
  BY <1>2 DEF CInv, IInv, TypeOK, Filed
<1>. QED BY <1>2, <1>3, <1>6, <1>7, <1>8, <1>9, ClimbStep

LEMMA ClimbCreate ==
  ASSUME CInv, IInv', NEW r \in Requests, Create(r)
  PROVE  CInv'
<1>1. PICK g : g = Case(r)
  OBVIOUS
<1>2. g \in Cases \ Filed
  BY <1>1, InsertFacts DEF Create, CInv
<1>3. req' = [req EXCEPT ![r] = Idle] /\ Headed(Idle) /\ Headed(Idle)' /\ overdue' = overdue
  BY IdleFacts DEF Create, Headed
<1>4. CASE ~NumberIndexAllows(req[r].no)
  BY <1>3, <1>4, ClimbHandler DEF Create
<1>5. CASE NumberIndexAllows(req[r].no)
  <2>1. PICK routing \in Routings :
           /\ reach' = [reach EXCEPT ![g] = Rank[routing.role]]
           /\ grievances' = [grievances EXCEPT ![g] =
                [NoCase EXCEPT !.no = req[r].no,
                               !.status = IF routing.assigned THEN "under_review" ELSE "submitted",
                               !.role = routing.role, !.assigned = routing.assigned]]
    BY <1>1, <1>5 DEF Create
  <2>2. /\ \A h \in Cases \ {g} : grievances'[h] = grievances[h] /\ reach'[h] = reach[h]
        /\ grievances'[g].role = routing.role /\ reach'[g] = Rank[routing.role]
        /\ grievances'[g].status # "absent"
    BY <1>2, <2>1 DEF CInv, IInv, TypeOK, NoCase
  <2>3. Filed' = Filed \cup {g} /\ g \notin overdue
    BY <1>2, <2>2 DEF Filed, CInv
  <2>4. ASSUME NEW h \in Filed PROVE Within(h)' /\ reach[h] <= reach'[h]
    <3>1. h \in Cases \ {g} /\ Within(h) /\ reach[h] \in Nat
      BY <1>2 DEF CInv, IInv, TypeOK, Filed
    <3>. QED BY <1>3, <2>2, <3>1 DEF Within
  <2>5. Within(g)'
    <3>1. Rank[routing.role] \in Nat
      BY RoutingAssumption, RankFacts
    <3>. QED BY <1>3, <2>2, <2>3, <3>1 DEF Within
  <2>6. overdue' \subseteq Filed'
    BY <1>3, <2>3 DEF CInv
  <2>. QED BY <1>3, <2>3, <2>4, <2>5, <2>6, ClimbStep
<1>. QED BY <1>4, <1>5

LEMMA ClimbTime ==
  ASSUME CInv, IInv', NEW g \in Cases, DeadlinePasses(g) \/ WindowPasses(g)
  PROVE  CInv'
<1>1. grievances' = grievances /\ req' = req /\ Filed' = Filed
  BY DEF DeadlinePasses, WindowPasses, Filed
<1>2. ASSUME NEW h \in Cases
      PROVE  /\ reach[h] \in Nat /\ reach'[h] \in Nat /\ reach[h] <= reach'[h]
             /\ h \in overdue' \ overdue => reach'[h] = reach[h] + 1
  BY DEF DeadlinePasses, WindowPasses, CInv, IInv, TypeOK
<1>3. overdue' \subseteq Filed
  BY DEF DeadlinePasses, WindowPasses, CInv
<1>4. ASSUME NEW h \in Filed PROVE Within(h)'
  <2>1. h \in Cases /\ Within(h) /\ grievances[h].role \in Roles
    BY DEF CInv, IInv, TypeOK, Grievance, Filed
  <2>2. Rank[grievances[h].role] \in Nat
    BY <2>1, RankFacts
  <2>. QED BY <1>1, <1>2, <2>1, <2>2 DEF Within
<1>5. ASSUME NEW r \in Requests PROVE Headed(req[r])'
  <2>1. PICK q : q = req[r]
    OBVIOUS
  <2>2. Headed(q) /\ q \in Request
    BY <2>1 DEF CInv, IInv, TypeOK
  <2>3. ASSUME NEW h \in q.todo
        PROVE  /\ q.pc = "sweep" => Rank[Escalated(q.role[h])] <= reach'[h]
               /\ q.pc = "desk_sweep" => 1 <= reach'[h]
    <3>1. h \in Cases /\ q.role[h] \in Roles
      BY <2>2, <2>3 DEF Request
    <3>2. Rank[Escalated(q.role[h])] \in Nat
      BY <3>1, RankFacts
    <3>. QED BY <1>2, <2>2, <2>3, <3>1, <3>2 DEF Headed
  <2>. QED BY <1>1, <2>1, <2>3 DEF Headed
<1>. QED BY <1>1, <1>3, <1>4, <1>5 DEF CInv

LEMMA InitCInv == Init => CInv
<1>. SUFFICES ASSUME Init PROVE CInv
  OBVIOUS
<1>1. IInv
  BY InitIInv
<1>2. Filed = {} /\ overdue = {}
  BY IdleFacts DEF Init, Filed
<1>3. \A r \in Requests : Headed(req[r])
  BY IdleFacts DEF Init, Headed
<1>. QED BY <1>1, <1>2, <1>3 DEF CInv

LEMMA NextCInv == CInv /\ [Next]_vars => CInv'
<1>. SUFFICES ASSUME CInv, [Next]_vars PROVE CInv'
  OBVIOUS
<1>1. IInv'
  BY NextIInv DEF CInv
<1>2. CASE UNCHANGED vars
  BY <1>1, <1>2 DEF vars, CInv, Within, Headed, Filed
<1>3. ASSUME NEW r \in Requests, Call(r) PROVE CInv'
  BY <1>1, <1>3, ClimbCalls
<1>4. ASSUME NEW r \in Requests, Continue(r) PROVE CInv'
  BY <1>1, <1>4, ContinueCases, ClimbCreate, ClimbWrites DEF CInv
<1>5. ASSUME NEW r \in Requests, Die(r) PROVE CInv'
  <2>1. Headed(Idle)
    BY IdleFacts DEF Headed
  <2>. QED BY <1>1, <1>5, <2>1, ClimbHandler DEF Die
<1>6. ASSUME NEW g \in Cases, DeadlinePasses(g) \/ WindowPasses(g) PROVE CInv'
  BY <1>1, <1>6, ClimbTime
<1>. QED BY <1>2, <1>3, <1>4, <1>5, <1>6 DEF Next

\* However many sweeps select a case before one of them has written, and however late they
\* write, it climbs one step at most for each deadline it missed: for any number of handlers,
\* sweeps and routings.
THEOREM OneStepPerDeadlineHolds == Spec => []OneStepPerDeadline
<1>1. CInv => OneStepPerDeadline
  BY DEF CInv, Within, OneStepPerDeadline
<1>. QED BY <1>1, InitCInv, NextCInv, PTL DEF Spec

=============================================================================
