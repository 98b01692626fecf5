----------------------------- MODULE Grievances -----------------------------
(***************************************************************************)
(* The grievances of one municipality and one year: filed and numbered,     *)
(* assigned, moved and resolved by staff, rated or re-opened by the         *)
(* citizen, and escalated by a sweep when their deadline has passed.        *)
(*                                                                         *)
(* Every handler reads a case, decides, and writes by id in one             *)
(* transaction later.  GrievancesService and the tenant's desk              *)
(* (AdminTenantService) have a handler each for the staff's operations; the *)
(* two sweeps differ in their transactions and in whom they escalate to.    *)
(***************************************************************************)
EXTENDS Naturals, FiniteSets

CONSTANTS
  Cases,
  Requests,     \* handlers that can be in flight at one time
  Routings,     \* what the routing rules may answer: role and whether a user is named
  MaxCalls,     \* calls that write, in one behaviour
  None

ASSUME FiniteAssumption  == IsFiniteSet(Cases)
ASSUME BoundAssumption   == MaxCalls \in Nat
Roles == {"municipality_clerk", "municipality_admin", "tenant_admin", "state_admin"}
ASSUME RoutingAssumption == Routings \subseteq [role : Roles, assigned : BOOLEAN]

\* The order in which a breached case climbs.
Rank == [municipality_clerk |-> 0, municipality_admin |-> 1, tenant_admin |-> 2, state_admin |-> 3]

\* ALLOWED of grievance-lifecycle.ts.
Allowed ==
  [submitted    |-> {"under_review", "in_progress"},
   under_review |-> {"in_progress", "resolved"},
   in_progress  |-> {"under_review", "resolved"},
   resolved     |-> {"closed", "under_review"},
   closed       |-> {}]

Statuses == DOMAIN Allowed
Numbers  == 0 .. (Cardinality(Cases) + 1)

Grievance == [no : Numbers, status : Statuses \cup {"absent"}, role : Roles, assigned : BOOLEAN,
              resolvedAt : BOOLEAN, slaBreachedAt : BOOLEAN, rated : BOOLEAN]

Saves == {"save_status", "save_desk_status", "save_assignment", "save_feedback", "save_reopen"}

VARIABLES
  grievances,  \* the grievances table
  overdue,     \* the cases whose sla_due_at has passed
  expired,     \* the cases whose resolved_at is more than seven days old
  req,         \* handlers in flight
  reach,       \* (observation) the rank each case was filed at, plus its deadlines that passed
  overtaken,   \* (observation) the cases another handler wrote since r read them
  disturbed,   \* (observation) cases written by a handler that had been overtaken
  calls        \* (bound) calls made so far

vars == <<grievances, overdue, expired, req, reach, overtaken, disturbed, calls>>

Request == [pc   : Saves \cup {"idle", "insert", "sweep", "desk_sweep"},
            todo : SUBSET Cases,              \* the case or cases it has still to write
            no   : Numbers,                   \* the number counted for a new case
            to   : Statuses \cup {None},      \* the status it will write
            resolvedAt : BOOLEAN,             \* whether the row it read had a resolved_at
            role : [Cases -> Roles]]          \* the routed roles of the rows it read

NoCase == [no |-> 0, status |-> "absent", role |-> "municipality_clerk", assigned |-> FALSE,
           resolvedAt |-> FALSE, slaBreachedAt |-> FALSE, rated |-> FALSE]
Idle   == [pc |-> "idle", todo |-> {}, no |-> 0, to |-> None, resolvedAt |-> FALSE,
           role |-> [g \in Cases |-> "municipality_clerk"]]

TypeOK ==
  /\ grievances \in [Cases -> Grievance]
  /\ overdue \in SUBSET Cases
  /\ expired \in SUBSET Cases
  /\ req \in [Requests -> Request]
  /\ reach \in [Cases -> Nat]
  /\ overtaken \in [Requests -> SUBSET Cases]
  /\ disturbed \in SUBSET Cases
  /\ calls \in 0 .. MaxCalls

Init ==
  /\ grievances = [g \in Cases |-> NoCase]
  /\ overdue = {}
  /\ expired = {}
  /\ req = [r \in Requests |-> Idle]
  /\ reach = [g \in Cases |-> 0]
  /\ overtaken = [r \in Requests |-> {}]
  /\ disturbed = {}
  /\ calls = 0

Filed == {g \in Cases : grievances[g].status # "absent"}

-----------------------------------------------------------------------------
(* Steps all handlers share *)

\* A handler has read the rows it will write: locals is what it keeps of them.
Read(r, locals) ==
  /\ req[r].pc = "idle" /\ calls < MaxCalls
  /\ req' = [req EXCEPT ![r] = locals]
  /\ calls' = calls + 1
  /\ UNCHANGED <<grievances, overdue, expired, reach, overtaken, disturbed>>

\* Handler r writes the rows of done, and ends when none is left.
Write(r, done, row(_)) ==
  LET left == req[r].todo \ done
  IN /\ grievances' = [g \in Cases |-> IF g \in done THEN row(g) ELSE grievances[g]]
     /\ req' = [req EXCEPT ![r] = IF left = {} THEN Idle ELSE [@ EXCEPT !.todo = left]]
     /\ overtaken' = [q \in Requests |-> IF q = r THEN overtaken[q] \ done
                                         ELSE overtaken[q] \cup (done \cap req[q].todo)]
     /\ disturbed' = disturbed \cup (done \cap overtaken[r])
     /\ UNCHANGED <<reach, calls>>

Case(r) == CHOOSE g \in req[r].todo : TRUE

-----------------------------------------------------------------------------
(* Filing *)

\* allocateGrievanceNumber: the rows of the year are counted before the insert.
AllocateGrievanceNumber(r, g) ==
  /\ g \notin Filed /\ \A q \in Requests : g \notin req[q].todo
  /\ Read(r, [Idle EXCEPT !.pc = "insert", !.todo = {g}, !.no = Cardinality(Filed) + 1])

\* grievances_tenant_no_uidx; the mutant is its absence.
NoNumberIndex(no)     == no # 0
NumberIndexAllows(no) == \A g \in Filed : grievances[g].no # no

\* The row is inserted; a taken number fails the call, which nobody repeats.
Create(r) ==
  LET g == Case(r)
      row(routing) == [NoCase EXCEPT !.no = req[r].no,
                         !.status = IF routing.assigned THEN "under_review" ELSE "submitted",
                         !.role = routing.role, !.assigned = routing.assigned]
  IN /\ req[r].pc = "insert"
     /\ IF NumberIndexAllows(req[r].no)
        THEN \E routing \in Routings :
               /\ grievances' = [grievances EXCEPT ![g] = row(routing)]
               /\ reach' = [reach EXCEPT ![g] = Rank[routing.role]]
        ELSE UNCHANGED <<grievances, reach>>
     /\ req' = [req EXCEPT ![r] = Idle]
     /\ UNCHANGED <<overdue, expired, overtaken, disturbed, calls>>

-----------------------------------------------------------------------------
(* Staff *)

\* assertGrievanceTransition does not throw.
MayMove(from, to) == to \in Allowed[from]

UpdateStatus(r, g, to) ==
  /\ g \in Filed
  /\ MayMove(grievances[g].status, to)
  /\ Read(r, [Idle EXCEPT !.pc = "save_status", !.todo = {g}, !.to = to])

UpdateDeskGrievanceStatus(r, g, to) ==
  /\ g \in Filed
  /\ MayMove(grievances[g].status, to)
  /\ Read(r, [Idle EXCEPT !.pc = "save_desk_status", !.todo = {g}, !.to = to,
                           !.resolvedAt = (to = "resolved") \/ grievances[g].resolvedAt])

\* Both set resolved_at on resolving; otherwise the desk writes back the one it read.
SaveStatus(r) ==
  LET to == req[r].to
      row(g) == [grievances[g] EXCEPT !.status = to,
                   !.resolvedAt = IF req[r].pc = "save_status" THEN @ \/ to = "resolved"
                                  ELSE req[r].resolvedAt]
  IN /\ req[r].pc \in {"save_status", "save_desk_status"}
     /\ Write(r, req[r].todo, row)
     /\ expired' = IF to = "resolved" THEN expired \ req[r].todo ELSE expired
     /\ UNCHANGED overdue

\* assign and assignDeskGrievance take a case in any status and write that status back.
Assign(r, g) ==
  LET seen == grievances[g].status
  IN /\ g \in Filed
     /\ Read(r, [Idle EXCEPT !.pc = "save_assignment", !.todo = {g},
                              !.to = IF seen = "submitted" THEN "under_review" ELSE seen])

SaveAssignment(r) ==
  LET row(g) == [grievances[g] EXCEPT !.assigned = TRUE, !.status = req[r].to]
  IN /\ req[r].pc = "save_assignment"
     /\ Write(r, req[r].todo, row)
     /\ UNCHANGED <<overdue, expired>>

-----------------------------------------------------------------------------
(* The citizen *)

SubmitFeedback(r, g) ==
  /\ grievances[g].status = "resolved"
  /\ Read(r, [Idle EXCEPT !.pc = "save_feedback", !.todo = {g}])

SaveFeedback(r) ==
  LET row(g) == [grievances[g] EXCEPT !.status = "closed", !.rated = TRUE]
  IN /\ req[r].pc = "save_feedback"
     /\ Write(r, req[r].todo, row)
     /\ UNCHANGED <<overdue, expired>>

ReopenCitizenCase(r, g) ==
  /\ grievances[g].status = "resolved"
  /\ grievances[g].resolvedAt /\ g \notin expired
  /\ Read(r, [Idle EXCEPT !.pc = "save_reopen", !.todo = {g}])

\* Mutant: the breach of the old deadline is kept.
ReopenedBreached(row) == [row EXCEPT !.status = "under_review", !.resolvedAt = FALSE]
Reopened(row) == [row EXCEPT !.status = "under_review", !.resolvedAt = FALSE, !.slaBreachedAt = FALSE]

\* The case gets a new deadline.
SaveReopen(r) ==
  LET row(g) == Reopened(grievances[g])
  IN /\ req[r].pc = "save_reopen"
     /\ Write(r, req[r].todo, row)
     /\ overdue' = overdue \ req[r].todo
     /\ UNCHANGED expired

-----------------------------------------------------------------------------
(* The sweep of breached deadlines, called by staff *)

Breached(g) == /\ g \in overdue /\ ~grievances[g].slaBreachedAt
               /\ grievances[g].status \notin {"resolved", "closed", "absent"}

Selected == {g \in Cases : Breached(g)}

SweepSlaBreaches(r) ==
  /\ Selected # {}
  /\ Read(r, [Idle EXCEPT !.pc = "sweep", !.todo = Selected,
                 !.role = [g \in Cases |-> IF g \in Selected THEN grievances[g].role ELSE @[g]]])

SweepDeskGrievanceSla(r) ==
  /\ Selected # {}
  /\ Read(r, [Idle EXCEPT !.pc = "desk_sweep", !.todo = Selected])

\* Mutant: a role outside the chain, and the clerk's, ends without one.
EscalatedToNobody(role) == IF role = "municipality_admin" THEN "tenant_admin" ELSE "nobody"

\* escalationRoleAfterBreach
Escalated(role) ==
  CASE role = "municipality_admin" -> "tenant_admin"
    [] role = "tenant_admin"       -> "state_admin"
    [] role \in {"municipality_clerk", "state_admin"} -> "municipality_admin"

EscalatedRow(g, role) == [grievances[g] EXCEPT !.slaBreachedAt = TRUE, !.role = role, !.assigned = FALSE]

\* Mutant: the role is read again when the case is written.
RereadRole(r, g) == Escalated(grievances[g].role)

NextRole(r, g) == Escalated(req[r].role[g])

\* sweepSlaBreaches: one transaction for each case, in any order.
SaveBreach(r) ==
  LET row(g) == EscalatedRow(g, NextRole(r, g))
  IN /\ req[r].pc = "sweep"
     /\ \E g \in req[r].todo : Write(r, {g}, row)
     /\ UNCHANGED <<overdue, expired>>

\* sweepDeskGrievanceSla: one transaction for all, and always the same role.
SaveDeskBreaches(r) ==
  LET row(g) == EscalatedRow(g, "municipality_admin")
  IN /\ req[r].pc = "desk_sweep"
     /\ Write(r, req[r].todo, row)
     /\ UNCHANGED <<overdue, expired>>

-----------------------------------------------------------------------------

DeadlinePasses(g) ==
  /\ g \in Filed \ overdue
  /\ overdue' = overdue \cup {g}
  /\ reach' = [reach EXCEPT ![g] = @ + 1]
  /\ UNCHANGED <<grievances, expired, req, overtaken, disturbed, calls>>

WindowPasses(g) ==
  /\ grievances[g].resolvedAt /\ g \notin expired
  /\ expired' = expired \cup {g}
  /\ UNCHANGED <<grievances, overdue, req, reach, overtaken, disturbed, calls>>

\* The process dies, or a statement fails, with handler r unfinished.
Die(r) ==
  /\ req[r].pc # "idle"
  /\ req' = [req EXCEPT ![r] = Idle]
  /\ overtaken' = [overtaken EXCEPT ![r] = {}]
  /\ UNCHANGED <<grievances, overdue, expired, reach, disturbed, calls>>

Call(r) ==
  \/ SweepSlaBreaches(r) \/ SweepDeskGrievanceSla(r)
  \/ \E g \in Cases :
       \/ AllocateGrievanceNumber(r, g) \/ Assign(r, g) \/ SubmitFeedback(r, g) \/ ReopenCitizenCase(r, g)
       \/ \E to \in Statuses : UpdateStatus(r, g, to) \/ UpdateDeskGrievanceStatus(r, g, to)

Continue(r) ==
  \/ Create(r) \/ SaveStatus(r) \/ SaveAssignment(r) \/ SaveFeedback(r) \/ SaveReopen(r)
  \/ SaveBreach(r) \/ SaveDeskBreaches(r)

Next ==
  \/ \E r \in Requests : Call(r) \/ Continue(r) \/ Die(r)
  \/ \E g \in Cases : DeadlinePasses(g) \/ WindowPasses(g)

Spec == Init /\ [][Next]_vars

-----------------------------------------------------------------------------
(* What must hold *)

\* The numbers given this year are 1, 2, ... without a gap or a repetition, although two
\* filings may count the same rows: the next filing of a quiet moment always succeeds.
NumbersAreDense ==
  /\ {grievances[g].no : g \in Filed} = 1 .. Cardinality(Filed)
  /\ \A g, h \in Filed : grievances[g].no = grievances[h].no => g = h

\* A deadline that passes takes a case up one step at most, however many sweeps of either kind
\* select it before one of them has written, and however late they write after a re-opening: no
\* case stands above the rank it was filed at by more than the deadlines it missed.
OneStepPerDeadline == \A g \in Filed : Rank[grievances[g].role] <= reach[g]

\* A case nobody wrote to late is consistent whatever handler or sweep died half-way: finished
\* cases have the moment of their resolution, which the re-open window counts from; a rated one
\* is closed; a breach belongs to a deadline that has passed.
QuietIsConsistent ==
  \A g \in Filed \ disturbed :
    /\ grievances[g].status \in {"resolved", "closed"} => grievances[g].resolvedAt
    /\ grievances[g].rated => grievances[g].status = "closed"
    /\ grievances[g].slaBreachedAt => g \in overdue
    /\ grievances[g].status = "submitted" => ~grievances[g].assigned

=============================================================================
