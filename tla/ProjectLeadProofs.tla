-------------------------- MODULE ProjectLeadProofs --------------------------
(***************************************************************************)
(* Proofs about ProjectLead for every set of projects and of managers and  *)
(* every limit: what the rows say after each statement, hence after a      *)
(* crash between any two, and whatever an operator wrote between.  A step  *)
(* of one project leaves the others alone, so the invariant is stated over *)
(* the row p, the milestones m and the coroutine r of one project, and     *)
(* every action is one lemma about them.                                   *)
(***************************************************************************)
EXTENDS ProjectLead, FiniteSetTheorems, SequenceTheorems, WellFoundedInduction, TLAPS

Managing == {"assign", "manager", "audit", "worker", "status", "settle", "propose"}

(* How far planning under a manager has come is what the row says; the     *)
(* loop over milestones has no assignment.                                 *)
RowAt(p, r) ==
  /\ r.pc = "idle" => p = NoRow
  /\ r.pc \in Managing =>
       /\ r.to # 0
       /\ IF r.pc \in {"settle", "propose"} THEN p.status = "planned"
          ELSE p.status = "planning" \/ p.byHand
       /\ r.pc = "assign" => p.asg = "none"
       /\ r.pc = "propose" => p.asg = "planned"
       /\ r.pc \notin {"assign", "propose"} => p.asg = "assigned"
       /\ r.pc # "assign" => p.to = r.to
       /\ p.manager = IF r.pc \in {"assign", "manager"} THEN 0 ELSE p.to
       /\ p.audit = IF r.pc \in {"assign", "manager", "audit"} THEN {} ELSE {"assigned"}
       /\ r.pc \in {"status", "settle", "propose"} => p.plan
  /\ r.pc \notin Managing \cup {"done"} =>
       /\ p.asg = "none" /\ p.manager = 0 /\ p.audit = {}
       /\ p.status # "planned" \/ p.byHand

(* What became of the milestone at work when the loop is at c.             *)
Current(c) ==
  IF c \in {"resolve", "start"} THEN "pending"
  ELSE IF c \in {"child", "second"} THEN "running"
  ELSE IF c \in {"review", "ask"} THEN "reviewing"
  ELSE "succeeded"

(* The milestones before the one at work were accepted, those after it     *)
(* were not begun, and the pointer is at it until it is accepted.          *)
MilestonesAt(p, m, r) ==
  /\ r.pc \in Managing \cup {"idle", "infer", "plan"} =>
       m = <<>> /\ p.at = 0 /\ ~Succeeded(p)
  /\ r.pc = "persist" =>
       /\ Len(m) + Len(r.left) \in 1 .. MaxMilestones
       /\ \A j \in DOMAIN m : m[j].status = "pending"
       /\ p.at = 0 /\ ~Succeeded(p)
  /\ r.pc \in Working =>
       /\ r.i \in DOMAIN m
       /\ \A j \in DOMAIN m :
            /\ j < r.i => m[j].status = "succeeded"
            /\ j = r.i => m[j].status = Current(r.pc)
            /\ j > r.i => m[j].status = "pending"
       /\ \/ p.at = r.i
          \/ r.pc = "advance" /\ r.i = Len(m) /\ p.at = Len(m) + 1
       /\ p.status = "running" \/ p.byHand

(* The inference that exceeds the limit is the last one counted.           *)
InferencesAt(p, r) == p.inferred > MaxInferences => r.pc \in {"close", "done"}

Typed(p, m, r) == p \in Row /\ m \in Seq(Milestone) /\ Len(m) <= MaxMilestones /\ r \in Run

Sound(p, m, r) ==
  /\ Typed(p, m, r)
  /\ RowAt(p, r)
  /\ MilestonesAt(p, m, r)
  /\ InferencesAt(p, r)
  /\ RowOrdered(p)
  /\ InOrder(p, m)

(* Only requests made so far have assignments, so loads are numbers.       *)
Assigned == {x \in Projects : row[x].asg \in {"assigned", "planned"}}

(* The inductive invariant.                                                *)
Inv ==
  /\ row \in [Projects -> Row] /\ ms \in [Projects -> Seq(Milestone)]
  /\ run \in [Projects -> Run]
  /\ \A x \in Projects : Sound(row[x], ms[x], run[x])
  /\ IsFiniteSet(Assigned)

-----------------------------------------------------------------------------
USE DEF PCs, Managing, Sync, Awaits, Working, Statuses, Milestone, Status, Succeeded

(* Every nonempty set of naturals has a least element: the intervals       *)
(* 0 .. k are finite, and strict inclusion of finite sets is well-founded. *)
LEMMA LeastNat ==
  ASSUME NEW S \in SUBSET Nat, S # {}
  PROVE  Min(S) \in S /\ \A y \in S : Min(S) <= y
<1> DEFINE T == {0 .. k : k \in S}
<1>1. T \subseteq FiniteSubsetsOf(Nat) /\ T # {}
  <2>1. ASSUME NEW k \in S PROVE 0 .. k \in FiniteSubsetsOf(Nat)
    <3>1. 0 .. k \subseteq Nat
      OBVIOUS
    <3>2. 0 \in Int /\ k \in Int
      OBVIOUS
    <3>3. IsFiniteSet(0 .. k)
      BY <3>2, FS_Interval
    <3> QED
      BY <3>1, <3>3 DEF FiniteSubsetsOf
  <2> QED
    BY <2>1
<1>2. PICK I \in T : \A J \in T : <<J, I>> \notin StrictSubsetOrdering(Nat)
  <2> HIDE DEF T
  <2> QED BY <1>1, WFMin, FS_StrictSubsetOrderingWellFounded
<1>3. PICK k \in S : I = 0 .. k
  BY <1>2
<1>4. ASSUME NEW y \in S, y < k PROVE FALSE
  <2>1. 0 .. y \in T /\ 0 .. y \subseteq 0 .. k /\ k \notin 0 .. y /\ k \in 0 .. k
    BY <1>4
  <2> QED
    <3>1. 0 .. y \subseteq Nat /\ 0 .. k \subseteq Nat
      OBVIOUS
    <3>2. <<0 .. y, 0 .. k>> \in StrictSubsetOrdering(Nat)
      BY <2>1, <3>1, Zenon DEF StrictSubsetOrdering
    <3> QED
      BY <1>2, <1>3, <2>1, <3>2
<1>5. \A y \in S : k <= y
  BY <1>4
<1> QED
  BY <1>5 DEF Min

(* The least loaded manager is one, if there are any.                      *)
LEMMA LeastManager ==
  ASSUME Managers \subseteq Nat \ {0}, Managers # {}, IsFiniteSet(Assigned)
  PROVE  Least \in Managers
<1> DEFINE L == {Load(m) : m \in Managers}
           M == {m \in Managers : \A n \in Managers : Load(m) <= Load(n)}
<1>1. ASSUME NEW m \in Managers PROVE Load(m) \in Nat
  <2>1. {x \in Projects : row[x].to = m /\ row[x].asg \in {"assigned", "planned"}}
          \in SUBSET Assigned
    BY DEF Assigned
  <2> QED
    BY <2>1, FS_Subset, FS_CardinalityType DEF Load
<1>2. L \in SUBSET Nat /\ L # {}
  BY <1>1
<1>3. M # {}
  <2>1. Min(L) \in L /\ \A y \in L : Min(L) <= y
    <3> HIDE DEF L
    <3> QED BY <1>2, LeastNat
  <2>2. PICK m \in Managers : Load(m) = Min(L)
    BY <2>1
  <2> QED
    BY <2>1, <2>2
<1>4. Min(M) \in M
  <2>1. M \in SUBSET Nat
    OBVIOUS
  <2> HIDE DEF M
  <2> QED BY <1>3, <2>1, LeastNat
<1> QED
  BY <1>4 DEF Least

(* Writing one milestone leaves the others.                                *)
LEMMA OneMilestone ==
  ASSUME NEW m \in Seq(Milestone), NEW i \in DOMAIN m, NEW e \in Milestone,
         NEW n, n = [m EXCEPT ![i] = e]
  PROVE  /\ n \in Seq(Milestone) /\ Len(n) = Len(m) /\ DOMAIN n = DOMAIN m
         /\ \A j \in DOMAIN m : n[j] = IF j = i THEN e ELSE m[j]
BY LenProperties, ExceptSeq

(* Ending a project early, as blocked or unheard of, is sound everywhere.  *)
LEMMA BlockSound ==
  ASSUME NEW p, NEW m, NEW r, Sound(p, m, r), r.pc # "idle",
         r.pc \notin {"settle", "propose", "done"},
         NEW q, NEW s, q = Status(p, "blocked"), s = [r EXCEPT !.pc = "done"]
  PROVE  Sound(q, m, s)
<1>1. Typed(q, m, s) /\ RowAt(q, s) /\ InferencesAt(q, s)
  BY DEF Sound, Typed, Row, Run, RowAt, InferencesAt
<1>2. MilestonesAt(q, m, s)
  BY DEF Sound, Typed, Row, Run, MilestonesAt
<1>3. RowOrdered(q)
  BY DEF Sound, Typed, Row, Run, RowAt, RowOrdered
<1>4. InOrder(q, m)
  BY DEF Sound, Typed, Row, Run, InOrder
<1> QED
  BY <1>1, <1>2, <1>3, <1>4 DEF Sound

(* Writing the milestone at work as its stage says is sound.               *)
LEMMA MilestoneSound ==
  ASSUME NEW p, NEW m, NEW r, Sound(p, m, r), r.pc \in Working \ {"advance"},
         NEW c \in (Working \ {"advance"}) \cup {"close", "advance"},
         NEW e \in Milestone, c # "close" => e.status = Current(c),
         NEW n, NEW s, n = [m EXCEPT ![r.i] = e], s = [r EXCEPT !.pc = c]
  PROVE  Sound(p, n, s)
<1>1. /\ m \in Seq(Milestone) /\ Len(m) \in Nat /\ DOMAIN m = 1 .. Len(m)
      /\ r \in Run /\ p \in Row /\ p.at \in Nat /\ r.i \in DOMAIN m
  BY LenProperties DEF Sound, Typed, Row, MilestonesAt
<1>2. /\ n \in Seq(Milestone) /\ Len(n) = Len(m) /\ DOMAIN n = DOMAIN m
      /\ \A j \in DOMAIN m : n[j] = IF j = r.i THEN e ELSE m[j]
  BY <1>1, OneMilestone
<1>3. s \in Run /\ s.pc = c /\ s.i = r.i
  BY <1>1 DEF Run
<1>4. /\ p.at = r.i /\ (p.status = "running" \/ p.byHand)
      /\ \A j \in DOMAIN m : /\ j < r.i => m[j].status = "succeeded"
                             /\ j > r.i => m[j].status = "pending"
  BY DEF Sound, MilestonesAt
<1>5. Typed(p, n, s) /\ RowAt(p, s) /\ InferencesAt(p, s) /\ RowOrdered(p)
  BY <1>2, <1>3 DEF Sound, Typed, RowAt, InferencesAt
<1>6. MilestonesAt(p, n, s)
  BY <1>1, <1>2, <1>3, <1>4 DEF MilestonesAt
<1>7. InOrder(p, n)
  BY <1>1, <1>2, <1>4 DEF InOrder
<1> QED
  BY <1>5, <1>6, <1>7 DEF Sound

(* Every statement of planning under a manager keeps its project sound.    *)
LEMMA PlanningSound ==
  ASSUME NEW x \in Projects, Inv, Planning(x), ~Request(x)
  PROVE  Sound(row'[x], ms'[x], run'[x])
<1> DEFINE p == row[x]  m == ms[x]  r == run[x]
           q == row'[x] n == ms'[x] s == run'[x]
<1> USE ProjectAssumption DEF At, Go, Free, SetMs, Block
<1>a. /\ row \in [Projects -> Row] /\ run \in [Projects -> Run]
      /\ ms \in [Projects -> Seq(Milestone)]
      /\ Sound(p, m, r)
  BY DEF Inv
<1>1. ASSUME Assign(x) PROVE Sound(q, n, s)
  <2>1. /\ q = [p EXCEPT !.to = r.to, !.asg = "assigned"]
        /\ n = m
        /\ s = [r EXCEPT !.pc = "manager"]
        /\ r.pc = "assign"
    BY <1>a, <1>1 DEF Assign, Row, Run
  <2> HIDE DEF p, m, r, q, n, s
  <2> QED
    BY <1>a, <2>1 DEF Sound, Typed, Row, Run, RowAt, MilestonesAt, InferencesAt,
                       RowOrdered, InOrder
<1>2. ASSUME SetManager(x) PROVE Sound(q, n, s)
  <2>1. /\ q = [p EXCEPT !.manager = r.to]
        /\ n = m
        /\ s = [r EXCEPT !.pc = "audit"]
        /\ r.pc = "manager"
    BY <1>a, <1>2 DEF SetManager, Row, Run
  <2> HIDE DEF p, m, r, q, n, s
  <2> QED
    BY <1>a, <2>1 DEF Sound, Typed, Row, Run, RowAt, MilestonesAt, InferencesAt,
                       RowOrdered, InOrder
<1>3. ASSUME AuditAssigned(x) PROVE Sound(q, n, s)
  <2>1. /\ q = [p EXCEPT !.audit = @ \cup {"assigned"}]
        /\ n = m
        /\ s = [r EXCEPT !.pc = "worker"]
        /\ r.pc = "audit"
    BY <1>a, <1>3 DEF AuditAssigned, Row, Run
  <2> HIDE DEF p, m, r, q, n, s
  <2>2. Typed(q, n, s) /\ RowAt(q, s) /\ RowOrdered(q)
    BY <1>a, <2>1 DEF Sound, Typed, Row, Run, RowAt, RowOrdered
  <2>3. MilestonesAt(q, n, s) /\ InferencesAt(q, s) /\ InOrder(q, n)
    BY <1>a, <2>1 DEF Sound, Typed, Row, Run, MilestonesAt, InferencesAt, InOrder
  <2> QED
    BY <2>2, <2>3 DEF Sound
<1>4. ASSUME WorkerRaises(x) PROVE Sound(q, n, s)
  <2>1. /\ q = p
        /\ n = m
        /\ s = [r EXCEPT !.pc = "done"]
        /\ r.pc = "worker"
    BY <1>a, <1>4 DEF WorkerRaises, Row, Run
  <2> HIDE DEF p, m, r, q, n, s
  <2> QED
    BY <1>a, <2>1 DEF Sound, Typed, Row, Run, RowAt, MilestonesAt, InferencesAt,
                       RowOrdered, InOrder
<1>5. ASSUME WorkerPlans(x) PROVE Sound(q, n, s)
  <2>1. /\ q = [p EXCEPT !.plan = TRUE]
        /\ n = m
        /\ s = [r EXCEPT !.pc = "status"]
        /\ r.pc = "worker"
    BY <1>a, <1>5 DEF WorkerPlans, Row, Run
  <2> HIDE DEF p, m, r, q, n, s
  <2> QED
    BY <1>a, <2>1 DEF Sound, Typed, Row, Run, RowAt, MilestonesAt, InferencesAt,
                       RowOrdered, InOrder
<1>6. ASSUME SetPlanned(x) PROVE Sound(q, n, s)
  <2>1. /\ q = Status(p, "planned")
        /\ n = m
        /\ s = [r EXCEPT !.pc = "settle"]
        /\ r.pc = "status"
    BY <1>a, <1>6 DEF SetPlanned, Row, Run
  <2> HIDE DEF p, m, r, q, n, s
  <2> QED
    BY <1>a, <2>1 DEF Sound, Typed, Row, Run, RowAt, MilestonesAt, InferencesAt,
                       RowOrdered, InOrder
<1>7. ASSUME SettleAssignment(x) PROVE Sound(q, n, s)
  <2>1. /\ q = [p EXCEPT !.asg = "planned"]
        /\ n = m
        /\ s = [r EXCEPT !.pc = "propose"]
        /\ r.pc = "settle"
    BY <1>a, <1>7 DEF SettleAssignment, Row, Run
  <2> HIDE DEF p, m, r, q, n, s
  <2> QED
    BY <1>a, <2>1 DEF Sound, Typed, Row, Run, RowAt, MilestonesAt, InferencesAt,
                       RowOrdered, InOrder
<1>8. ASSUME AuditProposed(x) PROVE Sound(q, n, s)
  <2>1. /\ q = [p EXCEPT !.audit = @ \cup {"plan_proposed"}]
        /\ n = m
        /\ s = [r EXCEPT !.pc = "done"]
        /\ r.pc = "propose"
    BY <1>a, <1>8 DEF AuditProposed, Row, Run
  <2> HIDE DEF p, m, r, q, n, s
  <2> QED
    BY <1>a, <2>1 DEF Sound, Typed, Row, Run, RowAt, MilestonesAt, InferencesAt,
                       RowOrdered, InOrder
<1>9. ASSUME WorkerFails(x) PROVE Sound(q, n, s)
  <2>1. /\ q = Status(p, "blocked") /\ n = m
        /\ s = [r EXCEPT !.pc = "done"] /\ r.pc = "worker"
    BY <1>a, <1>9 DEF WorkerFails, Row, Run
  <2> HIDE DEF p, m, r, q, n, s
  <2> QED
    BY <1>a, <2>1, BlockSound
<1>10. ASSUME AssignRaises(x) PROVE Sound(q, n, s)
  <2>1. /\ q = p
        /\ n = m
        /\ s = [r EXCEPT !.pc = "done"]
        /\ r.pc = "assign"
    BY <1>a, <1>10 DEF AssignRaises, Row, Run
  <2> HIDE DEF p, m, r, q, n, s
  <2> QED
    BY <1>a, <2>1 DEF Sound, Typed, Row, Run, RowAt, MilestonesAt, InferencesAt,
                       RowOrdered, InOrder
<1> QED
  BY <1>1, <1>2, <1>3, <1>4, <1>5, <1>6, <1>7, <1>8, <1>9, <1>10 DEF Planning

(* The row of a project that is not there is a row, also once created.     *)
LEMMA NoRowTyped ==
  ASSUME NEW st \in Statuses, NEW b \in BOOLEAN
  PROVE  NoRow \in Row /\ [NoRow EXCEPT !.status = st, !.byHand = b] \in Row
<1>1. 0 \in 0 .. MaxMilestones + 1 /\ 0 \in 0 .. MaxInferences + 1
  BY ProjectAssumption
<1> QED
  BY <1>1 DEF Row, NoRow

(* What an operator does keeps the project sound: the status is by hand.   *)
LEMMA OperatingSound ==
  ASSUME NEW x \in Projects, Inv, Operating(x)
  PROVE  Sound(row'[x], ms'[x], run'[x])
<1> DEFINE p == row[x]  m == ms[x]  r == run[x]
           q == row'[x] n == ms'[x] s == run'[x]
<1> USE ProjectAssumption DEF Go, Free
<1>a. /\ row \in [Projects -> Row] /\ run \in [Projects -> Run]
      /\ ms \in [Projects -> Seq(Milestone)]
      /\ Sound(p, m, r)
  BY DEF Inv
<1>1. ASSUME CreateProject(x) PROVE Sound(q, n, s)
  <2>1. PICK st \in Written : q = [NoRow EXCEPT !.status = st, !.byHand = TRUE]
    BY <1>a, <1>1 DEF CreateProject
  <2>2. n = m /\ s = [r EXCEPT !.pc = "done"] /\ r.pc = "idle"
    BY <1>a, <1>1 DEF CreateProject, Run
  <2> HIDE DEF p, m, r, q, n, s
  <2>3. m = <<>> /\ Typed(p, m, r)
    BY <1>a, <2>2 DEF Sound, MilestonesAt
  <2>4. q.byHand /\ q.at = 0 /\ q.asg = "none" /\ q.manager = 0 /\ q.audit = {}
        /\ q.inferred = 0 /\ s.pc = "done"
    BY <2>1, <2>2, <2>3 DEF Typed, Run, NoRow
  <2>5. q \in Row /\ s \in Run
    BY <2>1, <2>2, <2>3, NoRowTyped DEF Typed, Run
  <2> QED
    BY <2>2, <2>3, <2>4, <2>5 DEF Sound, Typed, RowAt, MilestonesAt, InferencesAt,
                                  RowOrdered, InOrder
<1>2. ASSUME UpdateProject(x) PROVE Sound(q, n, s)
  <2>1. PICK st \in Written : q = [p EXCEPT !.status = st, !.byHand = TRUE]
    BY <1>a, <1>2 DEF UpdateProject
  <2>2. n = m /\ s = r /\ r.pc \notin Sync /\ p.status # "none"
    BY <1>a, <1>2 DEF UpdateProject
  <2> HIDE DEF p, m, r, q, n, s
  <2>3. Typed(p, m, r) /\ RowAt(p, r) /\ MilestonesAt(p, m, r) /\ InferencesAt(p, r)
        /\ RowOrdered(p) /\ InOrder(p, m)
    BY <1>a DEF Sound
  <2>4. q \in Row /\ q.byHand /\ q.at = p.at /\ q.asg = p.asg /\ q.plan = p.plan
        /\ q.manager = p.manager /\ q.to = p.to /\ q.audit = p.audit
        /\ q.inferred = p.inferred
    BY <2>1, <2>3 DEF Typed, Row
  <2>5. r.pc # "idle"
    BY <2>2, <2>3 DEF RowAt, NoRow
  <2>6. Typed(q, n, s) /\ RowAt(q, s) /\ InferencesAt(q, s) /\ RowOrdered(q)
    BY <2>2, <2>3, <2>4, <2>5 DEF Typed, RowAt, InferencesAt, RowOrdered
  <2>7. MilestonesAt(q, n, s) /\ InOrder(q, n)
    BY <2>2, <2>3, <2>4, <2>5 DEF MilestonesAt, InOrder
  <2> QED
    BY <2>6, <2>7 DEF Sound
<1>3. ASSUME DeleteProject(x) PROVE Sound(q, n, s)
  <2>1. q = NoRow /\ n = <<>> /\ s = [NoRun EXCEPT !.pc = "done"]
    BY <1>a, <1>3 DEF DeleteProject
  <2> HIDE DEF p, m, r, q, n, s
  <2>2. q \in Row /\ n \in Seq(Milestone) /\ s \in Run /\ s.pc = "done"
    <3>1. "none" \in Statuses /\ TRUE \in BOOLEAN
      OBVIOUS
    <3>2. NoRow \in Row
      BY <3>1, NoRowTyped
    <3>3. 0 \in 0 .. MaxMilestones /\ <<>> \in Seq(BOOLEAN) /\ <<>> \in Seq(Milestone)
      OBVIOUS
    <3> QED
      BY <2>1, <3>2, <3>3 DEF Run, NoRun
  <2> QED
    BY <2>1, <2>2 DEF Sound, Typed, NoRow, RowAt, MilestonesAt, InferencesAt, RowOrdered, InOrder
<1> QED
  BY <1>1, <1>2, <1>3 DEF Operating

(* A request names a manager, so the least loaded one is a manager.        *)
LEMMA RequestSound ==
  ASSUME NEW x \in Projects, Inv, Request(x)
  PROVE  Sound(row'[x], ms'[x], run'[x])
<1> DEFINE p == row[x]  m == ms[x]  r == run[x]
           q == row'[x] n == ms'[x] s == run'[x]
<1> USE ProjectAssumption DEF At, Go, Free, SetMs, Block
<1>a. /\ row \in [Projects -> Row] /\ run \in [Projects -> Run]
      /\ ms \in [Projects -> Seq(Milestone)]
      /\ Sound(p, m, r)
  BY DEF Inv
<1>1. Least \in Managers
  BY LeastManager, ProjectAssumption DEF Request, Inv
<1>2. PICK t \in Managers \cup {Least} : run' = [run EXCEPT ![x].pc = "assign", ![x].to = t]
  BY DEF Request
<1>3. /\ q = [p EXCEPT !.status = "planning"]
      /\ n = m
      /\ s = [r EXCEPT !.pc = "assign", !.to = t]
      /\ r.pc = "idle" /\ t \in Managers /\ t # 0
  BY <1>a, <1>1, <1>2 DEF Request, Row, Run
<1> HIDE DEF p, m, r, q, n, s
<1>4. p = NoRow /\ m = <<>>
  BY <1>a, <1>3 DEF Sound, RowAt, MilestonesAt
<1>5. Typed(q, n, s)
  BY <1>a, <1>3 DEF Sound, Typed, Row, Run
<1>6. /\ s.pc = "assign" /\ s.to # 0 /\ q.asg = "none" /\ q.manager = 0 /\ q.audit = {}
      /\ q.status = "planning" /\ q.at = 0 /\ q.inferred = 0
  BY <1>a, <1>3, <1>4 DEF Sound, Typed, Run, NoRow
<1>7. ~(0 > MaxInferences)
  BY ProjectAssumption
<1>8. RowAt(q, s) /\ InferencesAt(q, s) /\ RowOrdered(q)
  BY <1>6, <1>7 DEF RowAt, InferencesAt, RowOrdered
<1>9. MilestonesAt(q, n, s) /\ InOrder(q, n)
  BY <1>3, <1>4, <1>6 DEF MilestonesAt, InOrder
<1>10. Sound(q, n, s)
  BY <1>5, <1>8, <1>9 DEF Sound
<1> QED
  BY <1>10 DEF q, n, s

(* Every statement of the loop over milestones keeps its project sound.    *)
LEMMA ExecutingSound ==
  ASSUME NEW x \in Projects, Inv, Executing(x)
  PROVE  Sound(row'[x], ms'[x], run'[x])
<1> DEFINE p == row[x]  m == ms[x]  r == run[x]
           q == row'[x] n == ms'[x] s == run'[x]
<1> USE ProjectAssumption DEF At, Go, Free, SetMs, Block
<1>a. /\ row \in [Projects -> Row] /\ run \in [Projects -> Run]
      /\ ms \in [Projects -> Seq(Milestone)]
      /\ Sound(p, m, r)
  BY DEF Inv
<1>b. /\ MaxMilestones \in Nat /\ MaxMilestones > 0
      /\ MaxInferences \in Nat /\ MaxInferences > 0
      /\ MaxRevisions \in Nat /\ MaxRevisions > 0
  OBVIOUS
<1>c. m \in Seq(Milestone) /\ Len(m) \in Nat /\ DOMAIN m = 1 .. Len(m)
  BY <1>a, LenProperties
<1>d. /\ p \in Row /\ r \in Run /\ p.at \in Nat /\ p.inferred \in Nat /\ r.i \in Nat
      /\ Len(m) <= MaxMilestones
  BY <1>a DEF Sound, Typed, Row, Run
<1>e. r.pc \in Working => r.i \in DOMAIN m /\ m[r.i] \in Milestone
  <2>1. r.pc \in Working => r.i \in DOMAIN m
    BY <1>a DEF Sound, MilestonesAt
  <2>2. \A i \in DOMAIN m : m[i] \in Milestone
    BY <1>c, ElementOfSeq
  <2> QED
    BY <2>1, <2>2
<1>1. ASSUME Legacy(x) PROVE Sound(q, n, s)
  <2>1. /\ q = [p EXCEPT !.status = "planning"]
        /\ n = m
        /\ s = [r EXCEPT !.pc = "infer"]
        /\ r.pc = "idle"
    BY <1>a, <1>1 DEF Legacy, Row, Run
  <2> HIDE DEF p, m, r, q, n, s
  <2> QED
    BY <1>a, <2>1 DEF Sound, Typed, Row, Run, RowAt, NoRow, MilestonesAt, InferencesAt,
                       RowOrdered, InOrder
<1>2. ASSUME Infer(x) PROVE Sound(q, n, s)
  <2>1. /\ q = [p EXCEPT !.inferred = @ + 1]
        /\ n = m /\ p.inferred < MaxInferences
        /\ \/ s = [r EXCEPT !.pc = "plan"] /\ r.pc = "infer"
           \/ s = [r EXCEPT !.pc = "review"] /\ r.pc = "ask"
    <3>1. CASE run[x].pc = "infer"
      BY <1>a, <1>2, <3>1 DEF Infer, Row, Run
    <3>2. CASE run[x].pc = "ask"
      BY <1>a, <1>2, <3>2 DEF Infer, Row, Run
    <3> QED
      BY <1>2, <3>1, <3>2 DEF Infer
  <2> HIDE DEF p, m, r, q, n, s
  <2>2. q.inferred = p.inferred + 1 /\ q.inferred \in 0 .. MaxInferences + 1
    BY <1>b, <1>d, <2>1 DEF Row
  <2>5. Typed(q, n, s)
    BY <1>a, <1>b, <1>c, <1>d, <2>1, <2>2 DEF Sound, Typed, Row, Run, MilestonesAt, InferencesAt
  <2>3. /\ q.at = p.at /\ q.status = p.status /\ q.asg = p.asg /\ q.manager = p.manager
        /\ q.audit = p.audit /\ s.i = r.i
        /\ s.pc = IF r.pc = "infer" THEN "plan" ELSE "review"
    BY <1>d, <2>1 DEF Row, Run
  <2>6. RowAt(q, s) /\ InferencesAt(q, s)
    BY <1>a, <1>b, <1>d, <2>1, <2>2, <2>3 DEF Sound, RowAt, InferencesAt
  <2>7. MilestonesAt(q, n, s)
    BY <1>a, <2>1, <2>3 DEF Sound, MilestonesAt, Current
  <2>8. RowOrdered(q)
    BY <1>a, <1>b, <1>c, <1>d, <2>1 DEF Sound, Row, Run, RowAt, RowOrdered
  <2>9. InOrder(q, n)
    BY <1>a, <1>b, <1>c, <1>d, <2>1 DEF Sound, Row, Run, MilestonesAt, Current, InOrder
  <2> QED
    BY <2>5, <2>6, <2>7, <2>8, <2>9 DEF Sound
<1>3. ASSUME OverLimit(x) PROVE Sound(q, n, s)
  <2>1. /\ q = [p EXCEPT !.inferred = @ + 1]
        /\ n = m
        /\ s = [r EXCEPT !.pc = "close"]
        /\ r.pc \in {"infer", "ask"}
    BY <1>a, <1>3 DEF OverLimit, Row, Run
  <2> HIDE DEF p, m, r, q, n, s
  <2>2. q.inferred = p.inferred + 1 /\ q.inferred \in 0 .. MaxInferences + 1
    BY <1>a, <1>b, <1>d, <2>1 DEF Row, Sound, InferencesAt
  <2>5. Typed(q, n, s)
    BY <1>a, <1>b, <1>c, <1>d, <2>1, <2>2 DEF Sound, Typed, Row, Run, MilestonesAt, InferencesAt
  <2>6. RowAt(q, s) /\ InferencesAt(q, s)
    BY <1>a, <1>b, <1>c, <1>d, <2>1, <2>2 DEF Sound, Row, Run, RowAt, InferencesAt
  <2>7. MilestonesAt(q, n, s)
    BY <1>a, <1>b, <1>c, <1>d, <2>1 DEF Sound, Row, Run, MilestonesAt, Current
  <2>8. RowOrdered(q)
    BY <1>a, <1>b, <1>c, <1>d, <2>1 DEF Sound, Row, Run, RowAt, RowOrdered
  <2>9. InOrder(q, n)
    BY <1>a, <1>b, <1>c, <1>d, <2>1 DEF Sound, Row, Run, MilestonesAt, Current, InOrder
  <2> QED
    BY <2>5, <2>6, <2>7, <2>8, <2>9 DEF Sound
<1>4. ASSUME Refused(x) PROVE Sound(q, n, s)
  <2>1. /\ q = Status(p, "blocked") /\ n = m /\ s = [r EXCEPT !.pc = "done"]
        /\ r.pc \in {"plan", "review", "persist", "child", "second", "close"}
    BY <1>a, <1>4 DEF Refused, Row, Run
  <2> HIDE DEF p, m, r, q, n, s
  <2> QED
    BY <1>a, <2>1, BlockSound
<1>5. ASSUME InvalidMilestone(x) PROVE Sound(q, n, s)
  <2>1. /\ q = Status(p, "blocked") /\ n = m /\ s = [r EXCEPT !.pc = "done"]
        /\ r.pc \in {"plan", "review", "persist", "child", "second", "close"}
    BY <1>a, <1>5 DEF InvalidMilestone, Row, Run
  <2> HIDE DEF p, m, r, q, n, s
  <2> QED
    BY <1>a, <2>1, BlockSound
<1>6. ASSUME ChildRaises(x) PROVE Sound(q, n, s)
  <2>1. /\ q = Status(p, "blocked") /\ n = m /\ s = [r EXCEPT !.pc = "done"]
        /\ r.pc \in {"plan", "review", "persist", "child", "second", "close"}
    BY <1>a, <1>6 DEF ChildRaises, Row, Run
  <2> HIDE DEF p, m, r, q, n, s
  <2> QED
    BY <1>a, <2>1, BlockSound
<1>7. ASSUME Close(x) PROVE Sound(q, n, s)
  <2>1. /\ q = Status(p, "blocked") /\ n = m /\ s = [r EXCEPT !.pc = "done"]
        /\ r.pc \in {"plan", "review", "persist", "child", "second", "close"}
    BY <1>a, <1>7 DEF Close, Row, Run
  <2> HIDE DEF p, m, r, q, n, s
  <2> QED
    BY <1>a, <2>1, BlockSound
<1>8. ASSUME ReviseTooOften(x) PROVE Sound(q, n, s)
  <2>1. /\ q = Status(p, "blocked") /\ n = m /\ s = [r EXCEPT !.pc = "done"]
        /\ r.pc \in {"plan", "review", "persist", "child", "second", "close"}
    BY <1>a, <1>8 DEF ReviseTooOften, Row, Run
  <2> HIDE DEF p, m, r, q, n, s
  <2> QED
    BY <1>a, <2>1, BlockSound
<1>9. ASSUME Resolve(x) PROVE Sound(q, n, s)
  <2>1. /\ n = m /\ r.pc = "resolve"
        /\ \/ q = p /\ s = [r EXCEPT !.pc = "start"]
           \/ q = Status(p, "blocked") /\ s = [r EXCEPT !.pc = "done"]
    BY <1>a, <1>9 DEF Resolve, Row, Run
  <2> HIDE DEF p, m, r, q, n, s
  <2>2. CASE q = Status(p, "blocked") /\ s = [r EXCEPT !.pc = "done"]
    BY <1>a, <2>1, <2>2, BlockSound
  <2>3. CASE q = p /\ s = [r EXCEPT !.pc = "start"]
    BY <1>a, <2>1, <2>3 DEF Sound, Typed, Row, Run, RowAt, MilestonesAt, Current, InferencesAt
  <2> QED
    BY <2>1, <2>2, <2>3
<1>10. ASSUME PlanReturns(x) PROVE Sound(q, n, s)
  <2>a. PICK k \in 1 .. MaxMilestones : \E valid \in [1 .. k -> BOOLEAN] :
          run' = [run EXCEPT ![x].pc = "persist", ![x].left = valid]
    BY <1>10 DEF PlanReturns
  <2>1. PICK valid \in [1 .. k -> BOOLEAN] :
          run' = [run EXCEPT ![x].pc = "persist", ![x].left = valid]
    BY <2>a
  <2>2. q = p /\ n = m /\ s = [r EXCEPT !.pc = "persist", !.left = valid] /\ r.pc = "plan"
    BY <1>a, <2>1, <1>10 DEF PlanReturns, Run
  <2> HIDE DEF p, m, r, q, n, s
  <2>3. valid \in Seq(BOOLEAN) /\ Len(valid) = k
    OBVIOUS
  <2>4. m = <<>> /\ p.at = 0 /\ ~Succeeded(p)
    BY <1>a, <2>2 DEF Sound, MilestonesAt
  <2>6. s \in Run /\ s.pc = "persist" /\ s.left = valid
    BY <1>d, <2>2, <2>3 DEF Run
  <2>5. MilestonesAt(q, n, s)
    BY <1>b, <2>2, <2>3, <2>4, <2>6 DEF MilestonesAt
  <2> QED
    BY <1>a, <2>2, <2>5, <2>6 DEF Sound, Typed, RowAt, InferencesAt
<1>11. ASSUME InsertMilestone(x) PROVE Sound(q, n, s)
  <2>1. /\ q = p /\ n = Append(m, [status |-> "pending", revised |-> 0])
        /\ s = [r EXCEPT !.left = Tail(@)] /\ r.pc = "persist" /\ r.left # <<>>
    BY <1>a, <1>11 DEF InsertMilestone, Run
  <2> HIDE DEF p, m, r, q, n, s
  <2>2. /\ s.left \in Seq(BOOLEAN) /\ Len(s.left) = Len(r.left) - 1
        /\ Len(r.left) \in Nat /\ Len(s.left) \in Nat
    BY <1>d, <2>1, HeadTailProperties, LenProperties DEF Run
  <2>3. /\ n \in Seq(Milestone) /\ Len(n) = Len(m) + 1 /\ DOMAIN n = 1 .. Len(n)
        /\ \A j \in DOMAIN m : n[j] = m[j]
        /\ n[Len(n)].status = "pending"
    BY <1>c, <2>1
  <2>4. \A j \in DOMAIN n : n[j].status = "pending"
    BY <1>a, <1>c, <2>1, <2>3 DEF Sound, MilestonesAt
  <2>a. s \in Run /\ s.pc = "persist"
    BY <1>d, <2>1, <2>2 DEF Run
  <2>b. /\ p.at = 0 /\ ~Succeeded(p)
        /\ Len(m) + Len(r.left) \in 1 .. MaxMilestones
    BY <1>a, <2>1 DEF Sound, MilestonesAt
  <2>c. Len(n) \in Nat /\ Len(n) + Len(s.left) = Len(m) + Len(r.left)
    <3> DEFINE u == Len(r.left)  v == Len(s.left)
    <3>1. Len(m) \in Nat /\ Len(n) = Len(m) + 1 /\ u \in Nat /\ v \in Nat /\ v = u - 1
      BY <1>c, <2>2, <2>3
    <3>2. Len(n) \in Nat /\ Len(n) + v = Len(m) + u
      <4> HIDE DEF u, v
      <4> QED BY <3>1
    <3> QED
      BY <3>2
  <2>5. /\ s \in Run /\ s.pc = "persist" /\ Len(n) \in Nat
        /\ p.at = 0 /\ ~Succeeded(p)
        /\ Len(n) + Len(s.left) \in 1 .. MaxMilestones
    BY <2>a, <2>b, <2>c
  <2>d. Len(n) <= MaxMilestones
    BY <1>b, <2>2, <2>5
  <2>6. Typed(q, n, s)
    BY <1>d, <2>1, <2>3, <2>5, <2>d DEF Typed
  <2>7. MilestonesAt(q, n, s)
    BY <2>1, <2>4, <2>5 DEF MilestonesAt
  <2>8. InOrder(q, n)
    BY <1>c, <2>1, <2>3, <2>4, <2>5 DEF InOrder
  <2> QED
    BY <1>a, <2>1, <2>5, <2>6, <2>7, <2>8 DEF Sound, RowAt, InferencesAt
<1>12. ASSUME Persisted(x) PROVE Sound(q, n, s)
  <2>1. /\ q = [Status(p, "running") EXCEPT !.at = 1] /\ n = m
        /\ s = [r EXCEPT !.pc = "resolve", !.i = 1] /\ r.pc = "persist" /\ r.left = <<>>
    BY <1>a, <1>12 DEF Persisted, Row, Run
  <2> HIDE DEF p, m, r, q, n, s
  <2>2. Len(m) > 0 /\ 1 \in 0 .. MaxMilestones + 1 /\ 1 \in 0 .. MaxMilestones
    BY <1>a, <1>b, <1>c, <2>1 DEF Sound, MilestonesAt
  <2>5. Typed(q, n, s)
    BY <1>a, <1>b, <1>c, <1>d, <2>1, <2>2 DEF Sound, Typed, Row, Run, MilestonesAt, InferencesAt
  <2>6. RowAt(q, s) /\ InferencesAt(q, s)
    BY <1>a, <1>b, <1>c, <1>d, <2>1, <2>2 DEF Sound, Row, Run, RowAt, InferencesAt
  <2>7. MilestonesAt(q, n, s)
    BY <1>a, <1>b, <1>c, <1>d, <2>1, <2>2 DEF Sound, Row, Run, MilestonesAt, Current
  <2>8. RowOrdered(q)
    BY <1>a, <1>b, <1>c, <1>d, <2>1, <2>2 DEF Sound, Row, Run, RowAt, RowOrdered
  <2>9. InOrder(q, n)
    BY <1>a, <1>b, <1>c, <1>d, <2>1, <2>2 DEF Sound, Row, Run, MilestonesAt, Current, InOrder
  <2> QED
    BY <2>5, <2>6, <2>7, <2>8, <2>9 DEF Sound
<1>13. ASSUME Start(x) PROVE Sound(q, n, s)
  <2>1. /\ q = p /\ n = [m EXCEPT ![r.i] = [@ EXCEPT !.status = "running"]]
        /\ s = [r EXCEPT !.pc = "child"] /\ r.pc = "start"
    BY <1>a, <1>13 DEF Start, Run
  <2> HIDE DEF p, m, r, q, n, s
  <2>2. r.i \in DOMAIN m /\ m[r.i] \in Milestone
    BY <1>e, <2>1
  <2>3. [m[r.i] EXCEPT !.status = "running"] \in Milestone
    BY <1>b, <2>1, <2>2
  <2> QED
    BY <1>a, <2>1, <2>3, MilestoneSound DEF Current
<1>14. ASSUME ChildRetried(x) PROVE Sound(q, n, s)
  <2>1. q = p /\ n = m /\ s = [r EXCEPT !.pc = "second"] /\ r.pc = "child"
    BY <1>a, <1>14 DEF ChildRetried, Run
  <2> HIDE DEF p, m, r, q, n, s
  <2>2. MilestonesAt(q, n, s)
    BY <1>a, <1>d, <2>1 DEF Sound, Run, MilestonesAt, Current
  <2> QED
    BY <1>a, <1>d, <2>1, <2>2 DEF Sound, Typed, Run, RowAt, InferencesAt
<1>15. ASSUME ChildEnds(x) PROVE Sound(q, n, s)
  <2>1. PICK e \in {"reviewing", "failed"} :
          /\ q = p /\ n = [m EXCEPT ![r.i] = [@ EXCEPT !.status = e]]
          /\ s = [r EXCEPT !.pc = IF e = "reviewing" THEN "ask" ELSE "close"]
          /\ r.pc \in {"child", "second"}
    <3>1. \/ SetMs(x, "reviewing") /\ Go(x, "ask")
          \/ SetMs(x, "failed") /\ Go(x, "close")
      BY <1>15 DEF ChildEnds
    <3> QED
      BY <1>a, <1>15, <3>1 DEF ChildEnds, Run
  <2> HIDE DEF p, m, r, q, n, s
  <2>2. r.i \in DOMAIN m /\ m[r.i] \in Milestone
    BY <1>e, <2>1
  <2>3. [m[r.i] EXCEPT !.status = e] \in Milestone
    BY <1>b, <2>1, <2>2
  <2> QED
    BY <1>a, <2>1, <2>3, MilestoneSound DEF Current
<1>16. ASSUME Accept(x) PROVE Sound(q, n, s)
  <2>1. /\ q = p /\ n = [m EXCEPT ![r.i] = [@ EXCEPT !.status = "succeeded"]]
        /\ s = [r EXCEPT !.pc = "advance"] /\ r.pc = "review"
    BY <1>a, <1>16 DEF Accept, Run
  <2> HIDE DEF p, m, r, q, n, s
  <2>2. r.i \in DOMAIN m /\ m[r.i] \in Milestone
    BY <1>e, <2>1
  <2>3. [m[r.i] EXCEPT !.status = "succeeded"] \in Milestone
    BY <1>b, <2>1, <2>2
  <2> QED
    BY <1>a, <2>1, <2>3, MilestoneSound DEF Current
<1>17. ASSUME Revise(x) PROVE Sound(q, n, s)
  <2>1. /\ q = p /\ n = [m EXCEPT ![r.i] = [status |-> "pending", revised |-> m[r.i].revised + 1]]
        /\ s = [r EXCEPT !.pc = "start"] /\ r.pc = "review"
        /\ m[r.i].revised < MaxRevisions
    BY <1>a, <1>17 DEF Revise, Run
  <2> HIDE DEF p, m, r, q, n, s
  <2>2. r.i \in DOMAIN m /\ m[r.i] \in Milestone
    BY <1>e, <2>1
  <2>3. [status |-> "pending", revised |-> m[r.i].revised + 1] \in Milestone
    BY <1>b, <2>1, <2>2
  <2> QED
    BY <1>a, <2>1, <2>3, MilestoneSound DEF Current
<1>18. ASSUME Advance(x) PROVE Sound(q, n, s)
  <2>1. /\ q = [p EXCEPT !.at = r.i + 1] /\ n = m
        /\ s = IF r.i < Len(m) THEN [r EXCEPT !.pc = "resolve", !.i = @ + 1] ELSE r
        /\ r.pc = "advance" /\ p.at = r.i
    BY <1>a, <1>18 DEF Advance, Row, Run
  <2> HIDE DEF p, m, r, q, n, s
  <2>2. /\ r.i \in DOMAIN m /\ r.i + 1 \in 0 .. MaxMilestones + 1
        /\ r.i < Len(m) => r.i + 1 \in 0 .. MaxMilestones
    BY <1>a, <1>b, <1>c, <1>d, <2>1 DEF Sound, MilestonesAt
  <2>5. Typed(q, n, s)
    BY <1>a, <1>b, <1>c, <1>d, <2>1, <2>2 DEF Sound, Typed, Row, Run, MilestonesAt, InferencesAt
  <2>6. RowAt(q, s) /\ InferencesAt(q, s)
    BY <1>a, <1>b, <1>c, <1>d, <2>1, <2>2 DEF Sound, Row, Run, RowAt, InferencesAt
  <2>3. /\ s.pc = IF r.i < Len(m) THEN "resolve" ELSE "advance"
        /\ s.i = IF r.i < Len(m) THEN r.i + 1 ELSE r.i
        /\ q.at = r.i + 1 /\ q.status = p.status /\ q.byHand = p.byHand
    BY <1>d, <2>1 DEF Row, Run
  <2>4. /\ p.status = "running" \/ p.byHand
        /\ \A j \in DOMAIN m : /\ j <= r.i => m[j].status = "succeeded"
                               /\ j > r.i => m[j].status = "pending"
    BY <1>a, <1>c, <1>d, <2>1 DEF Sound, MilestonesAt, Current
  <2>7. MilestonesAt(q, n, s)
    <3>1. CASE r.i < Len(m)
      BY <1>c, <1>d, <2>1, <2>2, <2>3, <2>4, <3>1 DEF MilestonesAt, Current
    <3>2. CASE r.i = Len(m)
      BY <1>c, <1>d, <2>1, <2>2, <2>3, <2>4, <3>2 DEF MilestonesAt, Current
    <3> QED
      BY <1>c, <1>d, <2>2, <3>1, <3>2
  <2>8. RowOrdered(q)
    BY <1>a, <1>b, <1>c, <1>d, <2>1, <2>2 DEF Sound, Row, Run, RowAt, RowOrdered
  <2>9. InOrder(q, n)
    BY <1>a, <1>b, <1>c, <1>d, <2>1, <2>2 DEF Sound, Row, Run, MilestonesAt, Current, InOrder
  <2> QED
    BY <2>5, <2>6, <2>7, <2>8, <2>9 DEF Sound
<1>19. ASSUME Complete(x) PROVE Sound(q, n, s)
  <2>1. /\ q = [Status(p, "succeeded") EXCEPT !.at = 0] /\ n = m
        /\ s = [r EXCEPT !.pc = "done"] /\ r.pc = "advance" /\ p.at = Len(m) + 1
    BY <1>a, <1>19 DEF Complete, Row, Run
  <2> HIDE DEF p, m, r, q, n, s
  <2>2. Len(m) > 0 /\ r.i = Len(m) /\ 0 \in 0 .. MaxMilestones + 1
    BY <1>a, <1>b, <1>c, <1>d, <2>1 DEF Sound, MilestonesAt
  <2>5. Typed(q, n, s)
    BY <1>a, <1>b, <1>c, <1>d, <2>1, <2>2 DEF Sound, Typed, Row, Run, MilestonesAt, InferencesAt
  <2>6. RowAt(q, s) /\ InferencesAt(q, s)
    BY <1>a, <1>b, <1>c, <1>d, <2>1, <2>2 DEF Sound, Row, Run, RowAt, InferencesAt
  <2>7. MilestonesAt(q, n, s)
    BY <1>a, <1>b, <1>c, <1>d, <2>1, <2>2 DEF Sound, Row, Run, MilestonesAt, Current
  <2>8. RowOrdered(q)
    BY <1>a, <1>b, <1>c, <1>d, <2>1, <2>2 DEF Sound, Row, Run, RowAt, RowOrdered
  <2>9. InOrder(q, n)
    BY <1>a, <1>b, <1>c, <1>d, <2>1, <2>2 DEF Sound, Row, Run, MilestonesAt, Current, InOrder
  <2> QED
    BY <2>5, <2>6, <2>7, <2>8, <2>9 DEF Sound
<1> QED
  BY <1>1, <1>2, <1>3, <1>4, <1>5, <1>6, <1>7, <1>8, <1>9, <1>10, <1>11, <1>12,
     <1>13, <1>14, <1>15, <1>16, <1>17, <1>18, <1>19 DEF Executing

-----------------------------------------------------------------------------
(* A step of one project changes that project's row and state only.        *)
LEMMA Frame ==
  ASSUME NEW x \in Projects, Inv, Planning(x) \/ Executing(x) \/ Operating(x)
  PROVE  /\ row' = [row EXCEPT ![x] = row'[x]]
         /\ ms' = [ms EXCEPT ![x] = ms'[x]]
         /\ run' = [run EXCEPT ![x] = run'[x]]
<1>a. /\ row \in [Projects -> Row] /\ run \in [Projects -> Run]
      /\ ms \in [Projects -> Seq(Milestone)]
  BY DEF Inv
<1>1. row' = row \/ \E p : row' = [row EXCEPT ![x] = p]
  BY DEF Planning, Executing, Block,
         Request, Assign, AssignRaises, SetManager, AuditAssigned, WorkerRaises,
         WorkerFails, WorkerPlans, SetPlanned, SettleAssignment, AuditProposed,
         Legacy, Infer, OverLimit, Refused, PlanReturns, InsertMilestone, InvalidMilestone,
         Persisted, Resolve, Start, ChildRaises, ChildRetried, ChildEnds, Close,
         Accept, Revise, ReviseTooOften, Advance, Complete,
         Operating, CreateProject, UpdateProject, DeleteProject, Go
<1>2. ms' = ms \/ \E m : ms' = [ms EXCEPT ![x] = m]
  BY DEF Planning, Executing, Block, SetMs,
         Request, Assign, AssignRaises, SetManager, AuditAssigned, WorkerRaises,
         WorkerFails, WorkerPlans, SetPlanned, SettleAssignment, AuditProposed,
         Legacy, Infer, OverLimit, Refused, PlanReturns, InsertMilestone, InvalidMilestone,
         Persisted, Resolve, Start, ChildRaises, ChildRetried, ChildEnds, Close,
         Accept, Revise, ReviseTooOften, Advance, Complete,
         Operating, CreateProject, UpdateProject, DeleteProject, Go
<1>3. run' = run \/ \E r : run' = [run EXCEPT ![x] = r]
  BY DEF Planning, Executing, Block,
         Request, Assign, AssignRaises, SetManager, AuditAssigned, WorkerRaises,
         WorkerFails, WorkerPlans, SetPlanned, SettleAssignment, AuditProposed,
         Legacy, Infer, OverLimit, Refused, PlanReturns, InsertMilestone, InvalidMilestone,
         Persisted, Resolve, Start, ChildRaises, ChildRetried, ChildEnds, Close,
         Accept, Revise, ReviseTooOften, Advance, Complete,
         Operating, CreateProject, UpdateProject, DeleteProject, Go
<1> QED
  BY <1>a, <1>1, <1>2, <1>3

(* The invariant holds initially.                                          *)
LEMMA InitInv == Init => Inv
<1> SUFFICES ASSUME Init PROVE Inv
  OBVIOUS
<1> USE ProjectAssumption DEF Init
<1>1. Assigned = {}
  BY DEF Assigned, NoRow
<1>2. NoRow \in Row /\ NoRun \in Run /\ <<>> \in Seq(Milestone)
  BY DEF Row, Run, NoRow, NoRun
<1>3. Sound(NoRow, <<>>, NoRun)
  BY <1>2 DEF Sound, Typed, NoRow, NoRun, RowAt, MilestonesAt, InferencesAt, RowOrdered, InOrder
<1> QED
  BY <1>1, <1>2, <1>3, FS_EmptySet DEF Inv

(* Every step keeps it.                                                    *)
LEMMA StepInv == Inv /\ [Next]_vars => Inv'
<1> SUFFICES ASSUME Inv, [Next]_vars PROVE Inv'
  OBVIOUS
<1>a. /\ row \in [Projects -> Row] /\ run \in [Projects -> Run]
      /\ ms \in [Projects -> Seq(Milestone)] /\ IsFiniteSet(Assigned)
      /\ \A x \in Projects : Sound(row[x], ms[x], run[x])
  BY DEF Inv
<1>1. ASSUME NEW x \in Projects, Planning(x) \/ Executing(x) \/ Operating(x) PROVE Inv'
  <2>1. Sound(row'[x], ms'[x], run'[x])
    BY <1>1, PlanningSound, RequestSound, ExecutingSound, OperatingSound
  <2>2. /\ row' = [row EXCEPT ![x] = row'[x]]
        /\ ms' = [ms EXCEPT ![x] = ms'[x]]
        /\ run' = [run EXCEPT ![x] = run'[x]]
    BY <1>1, Frame
  <2>3. row'[x] \in Row /\ ms'[x] \in Seq(Milestone) /\ run'[x] \in Run
    BY <2>1 DEF Sound, Typed
  <2>4. /\ row' \in [Projects -> Row] /\ run' \in [Projects -> Run]
        /\ ms' \in [Projects -> Seq(Milestone)]
    BY <1>a, <2>2, <2>3
  <2>5. \A y \in Projects : Sound(row'[y], ms'[y], run'[y])
    BY <1>a, <2>1, <2>2
  <2>6. IsFiniteSet(Assigned')
    <3>1. Assigned' \in SUBSET (Assigned \cup {x})
      BY <1>a, <2>2 DEF Assigned
    <3> QED
      BY <1>a, <3>1, FS_AddElement, FS_Subset
  <2> QED
    BY <2>4, <2>5, <2>6 DEF Inv
<1>2. ASSUME Crash PROVE Inv'
  <2>1. row' = row /\ ms' = ms /\ Assigned' = Assigned
    BY <1>2 DEF Crash, Assigned
  <2>2. run' \in [Projects -> Run]
    <3>1. 0 \in 0 .. MaxMilestones /\ <<>> \in Seq(BOOLEAN)
      BY ProjectAssumption
    <3>2. NoRun \in Run /\ [NoRun EXCEPT !.pc = "done"] \in Run
      BY <3>1 DEF Run, NoRun
    <3> QED
      BY <1>2, <3>2 DEF Crash
  <2>3. ASSUME NEW y \in Projects PROVE Sound(row[y], ms[y], run'[y])
    <3>1. \/ run'[y].pc = "idle" /\ run[y].pc = "idle"
          \/ run'[y].pc = "done"
      BY <1>2 DEF Crash, NoRun
    <3>2. Sound(row[y], ms[y], run[y]) /\ run'[y] \in Run
      BY <1>a, <2>2
    <3> QED
      BY <3>1, <3>2 DEF Sound, Typed, RowAt, MilestonesAt, InferencesAt
  <2> QED
    BY <1>a, <2>1, <2>2, <2>3 DEF Inv
<1>3. ASSUME UNCHANGED vars PROVE Inv'
  BY <1>3 DEF vars, Inv, Assigned
<1> QED
  BY <1>1, <1>2, <1>3 DEF Next

(* Every reachable state satisfies the invariant.                          *)
THEOREM InvHolds == Spec => []Inv
BY InitInv, StepInv, PTL DEF Spec

(* Type correctness: limits on milestones, revisions and inferences are    *)
(* never passed, and the loop works on a milestone that exists.            *)
THEOREM TypeCorrect == Spec => []TypeOK
<1>1. Inv => TypeOK
  BY DEF Inv, Sound, Typed, MilestonesAt, TypeOK
<1> QED
  BY <1>1, InvHolds, PTL

(* The rows of a project tell its planning in order, whatever statement a  *)
(* crash or an exception of the worker boundary came after, as far as an   *)
(* operator did not write the status.                                      *)
THEOREM CommitsAreOrdered == Spec => []CommitsOrdered
<1>1. Inv => CommitsOrdered
  BY DEF Inv, Sound, CommitsOrdered
<1> QED
  BY <1>1, InvHolds, PTL

(* Milestones are accepted strictly in order, the pointer of the project   *)
(* passes accepted ones only, and a project that succeeded other than by   *)
(* hand has had all of a plan that is not empty accepted.                  *)
THEOREM MilestonesAreInOrder == Spec => []MilestonesInOrder
<1>1. Inv => MilestonesInOrder
  BY DEF Inv, Sound, MilestonesInOrder
<1> QED
  BY <1>1, InvHolds, PTL
=============================================================================
