---------------------------- MODULE ProjectLead ----------------------------
(***************************************************************************)
(* Projects: the planning of a project under a named Project Manager       *)
(* (project_lead.py: run; project_assignments.py; interfaces.py:           *)
(* _automatic_pm) and the older loop that also executes the milestones     *)
(* (execute_phase_2b, reached when no manager is given).                   *)
(*                                                                         *)
(* Every statement is its own transaction, so every action ends in one     *)
(* commit and a crash may come between any two.  Coroutines of two         *)
(* projects interleave at awaits only, and so does the operator who makes, *)
(* changes or deletes a project over the API (api.py).  Abstracted: texts, *)
(* models, the contents of plans; delegate_agent (module Jobs) is how its  *)
(* child ends.                                                             *)
(***************************************************************************)
EXTENDS Naturals, Sequences, FiniteSets, FiniteSetsExt, SequencesExt

CONSTANTS
  Projects,        \* identifiers; one is used per request
  Managers,        \* enabled project_managers: 1 .. n, in the order of id
  MaxMilestones,   \* limits.max_milestones (6)
  MaxRevisions,    \* limits.max_revisions (1)
  MaxInferences,   \* limits.max_lead_inferences (12)
  Written          \* bound: statuses an operator writes

Statuses == {"none", "active", "planning", "planned", "running", "succeeded", "blocked"}

ASSUME ProjectAssumption ==
  /\ Managers \subseteq Nat \ {0} /\ IsFiniteSet(Managers)
  /\ {MaxMilestones, MaxRevisions, MaxInferences} \subseteq Nat \ {0}
  /\ Written \subseteq Statuses \ {"none"}

VARIABLES
  row,    \* per project: the row of projects and its assignment, plan, audit
  ms,     \* per project: project_milestones, in order of ordinal
  run     \* per project: the coroutine

vars == <<row, ms, run>>

Working == {"resolve", "start", "child", "second", "review", "ask", "advance"}
Sync == {"assign", "manager", "audit", "status", "settle", "propose", "infer",
         "persist", "resolve", "start", "close", "ask", "advance"}
Awaits == {"worker", "plan", "child", "second", "review"}

PCs == Sync \cup Awaits \cup {"idle", "done"}

(* manager: assigned_project_manager_id; to: the manager of the assignment *)
(* (0: none).  at: current_milestone_ordinal (0: NULL).  byHand: history,  *)
(* the status is one an operator wrote.                                    *)
Row == [status : Statuses, byHand : BOOLEAN,
        manager : Managers \cup {0}, to : Managers \cup {0},
        asg : {"none", "assigned", "planned"}, audit : SUBSET {"assigned", "plan_proposed"},
        plan : BOOLEAN, at : 0 .. MaxMilestones + 1, inferred : 0 .. MaxInferences + 1]
NoRow == [status |-> "none", byHand |-> FALSE, manager |-> 0, to |-> 0, asg |-> "none",
          audit |-> {}, plan |-> FALSE, at |-> 0, inferred |-> 0]
Milestone == [status : {"pending", "running", "reviewing", "failed", "succeeded"},
              revised : 0 .. MaxRevisions]
(* i: the milestone at work; left: validity of the milestones to insert.   *)
Run == [pc : PCs, to : Managers \cup {0}, i : 0 .. MaxMilestones, left : Seq(BOOLEAN)]
NoRun == [pc |-> "idle", to |-> 0, i |-> 0, left |-> <<>>]

TypeOK ==
  /\ row \in [Projects -> Row]
  /\ ms \in [Projects -> Seq(Milestone)]
  /\ run \in [Projects -> Run]
  /\ \A x \in Projects :
       /\ Len(ms[x]) <= MaxMilestones
       /\ run[x].pc \in Working => run[x].i \in DOMAIN ms[x]

Init ==
  /\ row = [x \in Projects |-> NoRow]
  /\ ms = [x \in Projects |-> <<>>]
  /\ run = [x \in Projects |-> NoRun]

Go(x, pc) == run' = [run EXCEPT ![x].pc = pc]
At(x, pc) ==
  /\ run[x].pc = pc
  /\ \A y \in Projects \ {x} : run[y].pc \notin Sync
Free == \A y \in Projects : run[y].pc \notin Sync
(* The code writes the status, over what an operator may have written.     *)
Status(p, st) == [p EXCEPT !.status = st, !.byHand = FALSE]
SetMs(x, s) == ms' = [ms EXCEPT ![x][run[x].i].status = s]

(* The except clause of execute_phase_2b, and the failed planning of run.  *)
Block(x) ==
  /\ row' = [row EXCEPT ![x] = Status(@, "blocked")]
  /\ Go(x, "done")
  /\ UNCHANGED ms

-----------------------------------------------------------------------------
(* Planning under a manager.                                               *)
Load(m) == Cardinality({x \in Projects : row[x].to = m /\ row[x].asg \in {"assigned", "planned"}})
Least == Min({m \in Managers : \A n \in Managers : Load(m) <= Load(n)})

(* project_for_session has found the manager: named in the request, or the *)
(* least loaded one (without one, LookupError comes before the INSERT).    *)
Request(x) ==
  /\ run[x].pc = "idle" /\ Free /\ Managers # {}
  /\ \E m \in Managers \cup {Least} :
       run' = [run EXCEPT ![x].pc = "assign", ![x].to = m]
  /\ row' = [row EXCEPT ![x].status = "planning"]
  /\ UNCHANGED ms

Assign(x) ==
  /\ At(x, "assign")
  /\ row' = [row EXCEPT ![x].to = run[x].to, ![x].asg = "assigned"]
  /\ Go(x, "manager")
  /\ UNCHANGED ms

(* The manager was disabled since it was looked up, before an await (by    *)
(* hand: nothing in the program writes enabled).  The row is there.        *)
AssignRaises(x) ==
  /\ At(x, "assign")
  /\ Go(x, "done")
  /\ UNCHANGED <<row, ms>>

SetManager(x) ==
  /\ At(x, "manager")
  /\ row' = [row EXCEPT ![x].manager = run[x].to]
  /\ Go(x, "audit")
  /\ UNCHANGED ms

AuditAssigned(x) ==
  /\ At(x, "audit")
  /\ row' = [row EXCEPT ![x].audit = @ \cup {"assigned"}]
  /\ Go(x, "worker")
  /\ UNCHANGED ms

(* An exception of the worker boundary leaves run: nothing blocks the      *)
(* project or ends its assignment.                                         *)
WorkerRaises(x) ==
  /\ run[x].pc = "worker" /\ Free
  /\ Go(x, "done")
  /\ UNCHANGED <<row, ms>>

WorkerFails(x) == run[x].pc = "worker" /\ Free /\ Block(x)

(* Mutant: the status is written before the plan.                          *)
WorkerPlansStatusFirst(x) ==
  /\ run[x].pc = "worker" /\ Free
  /\ row' = [row EXCEPT ![x] = Status(@, "planned")]
  /\ Go(x, "status")
  /\ UNCHANGED ms

WorkerPlans(x) ==
  /\ run[x].pc = "worker" /\ Free
  /\ row' = [row EXCEPT ![x].plan = TRUE]
  /\ Go(x, "status")
  /\ UNCHANGED ms

SetPlanned(x) ==
  /\ At(x, "status")
  /\ row' = [row EXCEPT ![x] = Status(@, "planned")]
  /\ Go(x, "settle")
  /\ UNCHANGED ms

SettleAssignment(x) ==
  /\ At(x, "settle")
  /\ row' = [row EXCEPT ![x].asg = "planned"]
  /\ Go(x, "propose")
  /\ UNCHANGED ms

AuditProposed(x) ==
  /\ At(x, "propose")
  /\ row' = [row EXCEPT ![x].audit = @ \cup {"plan_proposed"}]
  /\ Go(x, "done")
  /\ UNCHANGED ms

-----------------------------------------------------------------------------
(* The loop that executes the milestones.                                  *)
Legacy(x) ==
  /\ run[x].pc = "idle" /\ Free
  /\ row' = [row EXCEPT ![x].status = "planning"]
  /\ run' = [run EXCEPT ![x].pc = "infer"]
  /\ UNCHANGED ms

(* Mutant: one inference more than the limit is made.                     *)
InferOneMore(x) ==
  /\ \/ At(x, "infer") /\ Go(x, "plan")
     \/ At(x, "ask") /\ Go(x, "review")
  /\ row[x].inferred <= MaxInferences
  /\ row' = [row EXCEPT ![x].inferred = @ + 1]
  /\ UNCHANGED ms

(* _increment: counted before the limit is looked at.  The await that      *)
(* follows is for the plan, or for the review of the milestone at work.    *)
Infer(x) ==
  /\ \/ At(x, "infer") /\ Go(x, "plan")
     \/ At(x, "ask") /\ Go(x, "review")
  /\ row[x].inferred < MaxInferences
  /\ row' = [row EXCEPT ![x].inferred = @ + 1]
  /\ UNCHANGED ms

OverLimit(x) ==
  /\ At(x, "infer") \/ At(x, "ask")
  /\ row[x].inferred >= MaxInferences
  /\ row' = [row EXCEPT ![x].inferred = @ + 1]
  /\ Go(x, "close")
  /\ UNCHANGED ms

(* No answer, or not one call of the wanted tool, or a wrong number of     *)
(* milestones, or a review that is malformed or blocks the project.        *)
Refused(x) == run[x].pc \in {"plan", "review"} /\ Free /\ Block(x)

(* A plan: which of its milestones are valid is found while they are       *)
(* inserted one by one.                                                    *)
PlanReturns(x) ==
  /\ run[x].pc = "plan" /\ Free
  /\ \E n \in 1 .. MaxMilestones : \E valid \in [1 .. n -> BOOLEAN] :
       run' = [run EXCEPT ![x].pc = "persist", ![x].left = valid]
  /\ UNCHANGED <<row, ms>>

InsertMilestone(x) ==
  /\ At(x, "persist") /\ run[x].left # <<>> /\ Head(run[x].left)
  /\ ms' = [ms EXCEPT ![x] = Append(@, [status |-> "pending", revised |-> 0])]
  /\ run' = [run EXCEPT ![x].left = Tail(@)]
  /\ UNCHANGED row

InvalidMilestone(x) ==
  /\ At(x, "persist") /\ run[x].left # <<>> /\ ~Head(run[x].left)
  /\ Block(x)

Persisted(x) ==
  /\ At(x, "persist") /\ run[x].left = <<>>
  /\ row' = [row EXCEPT ![x] = [Status(@, "running") EXCEPT !.at = 1]]
  /\ run' = [run EXCEPT ![x].pc = "resolve", ![x].i = 1]
  /\ UNCHANGED ms

(* resolve_execution: the route of the specialist, or an exception.        *)
Resolve(x) ==
  /\ At(x, "resolve")
  /\ \/ Go(x, "start") /\ UNCHANGED <<row, ms>>
     \/ Block(x)

(* The milestone runs, unless one is running already; then the child.      *)
Start(x) ==
  /\ At(x, "start")
  /\ \A i \in DOMAIN ms[x] : ms[x][i].status # "running"
  /\ SetMs(x, "running")
  /\ Go(x, "child")
  /\ UNCHANGED row

(* delegate_agent raises: the project is blocked, its milestone stays      *)
(* "running".  The retry of a coding child whose failure was one of        *)
(* protocol, without effects, goes to the fallback model, once.            *)
ChildRaises(x) == run[x].pc \in {"child", "second"} /\ Free /\ Block(x)

ChildRetried(x) ==
  /\ run[x].pc = "child" /\ Free
  /\ Go(x, "second")
  /\ UNCHANGED <<row, ms>>

ChildEnds(x) ==
  /\ run[x].pc \in {"child", "second"} /\ Free
  /\ \/ SetMs(x, "reviewing") /\ Go(x, "ask")
     \/ SetMs(x, "failed") /\ Go(x, "close")
  /\ UNCHANGED row

Close(x) == At(x, "close") /\ Block(x)

Accept(x) ==
  /\ run[x].pc = "review" /\ Free
  /\ SetMs(x, "succeeded")
  /\ Go(x, "advance")
  /\ UNCHANGED row

Revise(x) ==
  /\ run[x].pc = "review" /\ Free
  /\ ms[x][run[x].i].revised < MaxRevisions
  /\ ms' = [ms EXCEPT ![x][run[x].i] = [status |-> "pending", revised |-> @.revised + 1]]
  /\ Go(x, "start")
  /\ UNCHANGED row

(* Mutant: a revision the limit refuses is passed over, not blocked.       *)
ReviseTooOftenPasses(x) ==
  /\ run[x].pc = "review" /\ Free
  /\ ms[x][run[x].i].revised >= MaxRevisions
  /\ Go(x, "advance")
  /\ UNCHANGED <<row, ms>>

ReviseTooOften(x) ==
  /\ run[x].pc = "review" /\ Free
  /\ ms[x][run[x].i].revised >= MaxRevisions
  /\ Block(x)

(* current_milestone_ordinal follows the accepted milestone in a statement *)
(* of its own; after the last one the project has succeeded.               *)
Advance(x) ==
  /\ At(x, "advance") /\ row[x].at = run[x].i
  /\ row' = [row EXCEPT ![x].at = run[x].i + 1]
  /\ IF run[x].i < Len(ms[x])
       THEN run' = [run EXCEPT ![x].pc = "resolve", ![x].i = @ + 1]
       ELSE UNCHANGED run
  /\ UNCHANGED ms

Complete(x) ==
  /\ At(x, "advance") /\ row[x].at = Len(ms[x]) + 1
  /\ row' = [row EXCEPT ![x] = [Status(@, "succeeded") EXCEPT !.at = 0]]
  /\ Go(x, "done")
  /\ UNCHANGED ms

-----------------------------------------------------------------------------
(* The operator.  POST creates a project no coroutine works on; PATCH      *)
(* writes any status at any await.                                         *)
CreateProject(x) ==
  /\ run[x].pc = "idle" /\ Free
  /\ \E st \in Written :
       row' = [row EXCEPT ![x] = [NoRow EXCEPT !.status = st, !.byHand = TRUE]]
  /\ Go(x, "done")
  /\ UNCHANGED ms

UpdateProject(x) ==
  /\ row[x].status # "none" /\ Free
  /\ \E st \in Written :
       row' = [row EXCEPT ![x].status = st, ![x].byHand = TRUE]
  /\ UNCHANGED <<ms, run>>

(* DELETE takes all rows of the project along, and is refused when a job   *)
(* belongs to it, which a child's does.  A coroutine that plans it has     *)
(* ended then: its updates find no row, and its first INSERT is refused.   *)
DeleteProject(x) ==
  /\ row[x].status # "none" /\ Free
  /\ run[x].pc \notin {"child", "second"}
  /\ \A i \in DOMAIN ms[x] : ms[x][i].status \in {"pending", "running"} /\ ms[x][i].revised = 0
  /\ row' = [row EXCEPT ![x] = NoRow]
  /\ ms' = [ms EXCEPT ![x] = <<>>]
  /\ run' = [run EXCEPT ![x] = [NoRun EXCEPT !.pc = "done"]]

(* The process dies: the coroutines are gone, nothing resumes a project.   *)
Crash ==
  /\ \E x \in Projects : run[x].pc \in Sync \cup Awaits
  /\ run' = [x \in Projects |-> IF run[x].pc = "idle" THEN NoRun ELSE [NoRun EXCEPT !.pc = "done"]]
  /\ UNCHANGED <<row, ms>>

Planning(x) ==
  \/ Request(x) \/ Assign(x) \/ AssignRaises(x) \/ SetManager(x) \/ AuditAssigned(x)
  \/ WorkerRaises(x) \/ WorkerFails(x) \/ WorkerPlans(x)
  \/ SetPlanned(x) \/ SettleAssignment(x) \/ AuditProposed(x)

Executing(x) ==
  \/ Legacy(x) \/ Infer(x) \/ OverLimit(x) \/ Refused(x) \/ PlanReturns(x)
  \/ InsertMilestone(x) \/ InvalidMilestone(x) \/ Persisted(x) \/ Resolve(x)
  \/ Start(x) \/ ChildRaises(x) \/ ChildRetried(x) \/ ChildEnds(x) \/ Close(x)
  \/ Accept(x) \/ Revise(x) \/ ReviseTooOften(x) \/ Advance(x) \/ Complete(x)

Operating(x) == CreateProject(x) \/ UpdateProject(x) \/ DeleteProject(x)

Next == (\E x \in Projects : Planning(x) \/ Executing(x) \/ Operating(x)) \/ Crash

Spec == Init /\ [][Next]_vars

-----------------------------------------------------------------------------
(* What a reader of the rows may conclude, also after a crash between any  *)
(* two statements, whatever an operator wrote meanwhile: a project whose   *)
(* status planned is not by hand has its plan and an assignment, one whose *)
(* assignment is planned has its plan and, unless by hand, that status,    *)
(* the manager shown is the one assigned, and a proposal is in the audit   *)
(* only after both.                                                        *)
RowOrdered(p) ==
  /\ p.status = "planned" /\ ~p.byHand => p.plan /\ p.asg # "none"
  /\ p.asg = "planned" => p.plan /\ (p.status = "planned" \/ p.byHand)
  /\ p.manager # 0 => p.manager = p.to
  /\ "plan_proposed" \in p.audit => p.asg = "planned" /\ "assigned" \in p.audit
CommitsOrdered == \A x \in Projects : RowOrdered(row[x])

(* Milestones are worked on strictly in order, whatever children, reviews, *)
(* revisions, operators and crashes do: one leaves "pending" only when     *)
(* those before it were accepted, the project's pointer has passed         *)
(* accepted ones only, and a project that succeeded, other than by hand,   *)
(* had every one of them accepted.                                         *)
Succeeded(p) == p.status = "succeeded" /\ ~p.byHand
InOrder(p, m) ==
  /\ \A i, j \in DOMAIN m :
       i < j /\ m[j].status # "pending" => m[i].status = "succeeded"
  /\ \A i \in DOMAIN m :
       i < p.at \/ Succeeded(p) => m[i].status = "succeeded"
  /\ Succeeded(p) => m # <<>>
MilestonesInOrder == \A x \in Projects : InOrder(row[x], ms[x])
=============================================================================
