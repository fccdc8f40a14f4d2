----------------------------- MODULE JobsProofs -----------------------------
(***************************************************************************)
(* Proofs about Jobs for every set of jobs and every number of slots.      *)
(***************************************************************************)
EXTENDS Jobs, FiniteSetTheorems, TLAPS

USE DEF DelegatedKinds, DelegationKinds, Open, Outcomes, ToolOutcomes, Settled, closing

(* Which stages the coroutine of a job of each kind goes through, and who  *)
(* starts processes.                                                       *)
StageByKind ==
  \A j \in Jobs :
    /\ kind[j] \in {"none", "created"} => pc[j] = "none"
    /\ kind[j] = "none" <=> row[j] = "absent"
    /\ pc[j] = "wait" => kind[j] = "tool"
    /\ pc[j] \in {"noteTry", "noteExc"} => kind[j] = "codex"
    /\ pc[j] \in {"save", "reply", "stuck"} => kind[j] \in DelegationKinds
    /\ j \in procs => kind[j] \in {"codex", "tool"}

(* What the row says at each stage.  A row settled under a coroutine that  *)
(* has not finished was patched by a client.                               *)
RowByStage ==
  \A j \in Jobs :
    /\ pc[j] = "new" => row[j] = "queued"
    /\ row[j] = "queued" => pc[j] \in {"none", "new", "lost"}
    /\ pc[j] \in {"save", "reply"} => row[j] \in Outcomes
    /\ pc[j] \in {"wait", "exec"} /\ row[j] \in Settled => j \in patched

(* The saved result of a delegation is its row, and its message is last.   *)
ReplyByStage ==
  \A j \in Jobs :
    /\ pc[j] = "reply" => result[j] = row[j]
    /\ reply[j] # "none" => pc[j] = "end"

CancelsAccepted == cancelling \subseteq accepted

(* Once wait_for_idle has read the tasks, every task is one of those or of *)
(* a job created since.                                                    *)
TasksCovered == mode = "idling" => tasks \subseteq awaited \cup late

Slots == IsFiniteSet(holding) /\ SlotDiscipline

(* The inductive invariant.                                                *)
Inv ==
  /\ TypeOK
  /\ StageByKind
  /\ RowByStage
  /\ ReplyByStage
  /\ NoticeMatchesRow
  /\ OpenRowOwned
  /\ CancelTablesExact
  /\ CancelsAccepted
  /\ OrphanOnlyAfterCancel
  /\ TasksCovered

-----------------------------------------------------------------------------
(* The table of JobManager.transition by cases.                            *)
LEMMA AllowedTable ==
  /\ Allowed("queued") = {"running", "cancelled"}
  /\ Allowed("running") = Outcomes
  /\ \A r : r \notin Open => Allowed(r) = {}
BY DEF Allowed

(* The invariant holds initially.                                          *)
LEMMA InitInv == Init => Inv
BY KindsAssumption
   DEF Init, Inv, TypeOK, PCs, StageByKind, RowByStage, ReplyByStage,
       NoticeMatchesRow, OpenRowOwned, CancelTablesExact, CancelsAccepted,
       OrphanOnlyAfterCancel, TasksCovered

(* Every step keeps it.                                                    *)
LEMMA StepInv == Inv /\ [Next]_vars => Inv'
<1> SUFFICES ASSUME Inv, [Next]_vars PROVE Inv'
  OBVIOUS
<1> USE KindsAssumption
    DEF Inv, TypeOK, PCs, StageByKind, RowByStage, ReplyByStage,
        NoticeMatchesRow, OpenRowOwned, CancelTablesExact, CancelsAccepted,
        OrphanOnlyAfterCancel, TasksCovered
<1>1. ASSUME NEW j \in Jobs, RunBegin(j)
      PROVE Inv'
  BY <1>1 DEF RunBegin, Running
<1>2. ASSUME NEW j \in Jobs, NEW s \in {"succeeded", "failed"},
             NEW at \in {"noteTry", "noteExc"}, RunFinish(j, s, at)
      PROVE Inv'
  BY <1>2 DEF RunFinish, Running
<1>3. ASSUME NEW j \in Jobs, RunCancelled(j)
      PROVE Inv'
  BY <1>3 DEF RunCancelled, Running
<1>4. ASSUME NEW j \in Jobs, RunEnd(j)
      PROVE Inv'
  BY <1>4 DEF RunEnd, Running
<1>5. ASSUME NEW j \in Jobs, ToolBegin(j)
      PROVE Inv'
  BY <1>5 DEF ToolBegin, Running
<1>6. ASSUME NEW j \in Jobs, NEW s \in ToolOutcomes, ToolFinish(j, s)
      PROVE Inv'
  BY <1>6 DEF ToolFinish, Running
<1>7. ASSUME NEW j \in Jobs, ToolCancelled(j)
      PROVE Inv'
  BY <1>7 DEF ToolCancelled, Running
<1>8. ASSUME NEW j \in Jobs, DelegateBegin(j)
      PROVE Inv'
  BY <1>8 DEF DelegateBegin, Running
<1>9. ASSUME NEW j \in Jobs, NEW s \in {"succeeded", "failed"},
             DelegateFinish(j, s)
      PROVE Inv'
  BY <1>9, AllowedTable DEF DelegateFinish, Running
<1>10. ASSUME NEW j \in Jobs, ManagedRaises(j)
      PROVE Inv'
  BY <1>10 DEF ManagedRaises, Running
<1>11. ASSUME NEW j \in Jobs, DelegateSave(j)
      PROVE Inv'
  BY <1>11 DEF DelegateSave, Running
<1>12. ASSUME NEW j \in Jobs, DelegateReply(j)
      PROVE Inv'
  BY <1>12 DEF DelegateReply, Running
<1>13. ASSUME NEW j \in Jobs, ToolAcquire(j)
      PROVE Inv'
  BY <1>13 DEF ToolAcquire, Running
<1>14. ASSUME NEW j \in Jobs, ProcExit(j)
      PROVE Inv'
  BY <1>14 DEF ProcExit
<1>15. ASSUME NEW j \in Jobs, NEW k \in Kinds, Accept(j, k)
      PROVE Inv'
  BY <1>15 DEF Accept, Serving, MessageKinds
<1>16. ASSUME NEW j \in Jobs, Cancel(j)
      PROVE Inv'
  BY <1>16 DEF Cancel, Exposed, Serving
<1>17. ASSUME NEW j \in Jobs, NEW s \in Open \cup Outcomes, Patch(j, s)
      PROVE Inv'
  BY <1>17, AllowedTable DEF Patch, Exposed, Serving
<1>18. CASE Vanish
  BY <1>18 DEF Vanish
<1>19. CASE Drain \/ WaitForIdle
  BY <1>19 DEF Drain, WaitForIdle
<1>20. CASE Restart
  BY <1>20 DEF Restart
<1>21. CASE UNCHANGED vars
  BY <1>21 DEF vars
<1> HIDE DEF Inv
<1>22. QED
  BY <1>1, <1>2, <1>3, <1>4, <1>5, <1>6, <1>7, <1>8, <1>9,
     <1>10, <1>11, <1>12, <1>13, <1>14, <1>15, <1>16, <1>17,
     <1>18, <1>19, <1>20, <1>21
     DEF Next, Step, Client, Stop, Crash, StopRaises, Shutdown

(* Every reachable state is typed as declared and satisfies the rest of    *)
(* the inductive invariant, for any number of jobs and slots.              *)
THEOREM InvHolds == Spec => []Inv
BY InitInv, StepInv, PTL DEF Spec

(* The type invariant of the job tables, coroutines and events.            *)
THEOREM TypesHold == Spec => []TypeOK
<1>1. Inv => TypeOK
  BY DEF Inv
<1>2. QED
  BY <1>1, InvHolds, PTL

(* The final UPDATE of a codex job and the event given to the listeners    *)
(* never disagree, in whatever order cancels and PATCHes arrive.           *)
THEOREM NoticesHold == Spec => []NoticeMatchesRow
<1>1. Inv => NoticeMatchesRow
  BY DEF Inv
<1>2. QED
  BY <1>1, InvHolds, PTL

(* No coroutine returns and leaves the row of its job open.                *)
THEOREM OwnersHold == Spec => []OpenRowOwned
<1>1. Inv => OpenRowOwned
  BY DEF Inv
<1>2. QED
  BY <1>1, InvHolds, PTL

(* The two tables of cancellable tasks are exact at every moment.          *)
THEOREM TablesHold == Spec => []CancelTablesExact
<1>1. Inv => CancelTablesExact
  BY DEF Inv
<1>2. QED
  BY <1>1, InvHolds, PTL

(* Only a job whose cancel was accepted leaves a process behind.           *)
THEOREM OrphansHold == Spec => []OrphanOnlyAfterCancel
<1>1. Inv => OrphanOnlyAfterCancel
  BY DEF Inv
<1>2. QED
  BY <1>1, InvHolds, PTL

-----------------------------------------------------------------------------
(* The semaphore.  That at most MaxConcurrent jobs hold a slot needs the   *)
(* set of holders to be finite, which the steps preserve.                  *)
LEMMA SlotsStep == Inv /\ Slots /\ [Next]_vars => Slots'
<1> SUFFICES ASSUME Inv, Slots, [Next]_vars PROVE Slots'
  OBVIOUS
<1> USE SlotsAssumption DEF Slots, SlotDiscipline, Inv, TypeOK, PCs, StageByKind
<1>1. ASSUME NEW j \in Jobs, ToolAcquire(j)
      PROVE Slots'
  <2>1. holding' = {i \in Jobs : kind'[i] = "tool" /\ pc'[i] = "exec"}
    BY <1>1 DEF ToolAcquire
  <2>2. /\ holding' = holding \cup {j}
        /\ Cardinality(holding) + 1 <= MaxConcurrent
    BY <1>1, FS_CardinalityType DEF ToolAcquire
  <2>3. /\ IsFiniteSet(holding')
        /\ Cardinality(holding') <= MaxConcurrent
    <3>1. IsFiniteSet(holding) /\ Cardinality(holding) \in Nat
      BY FS_CardinalityType
    <3>2. /\ IsFiniteSet(holding')
          /\ Cardinality(holding')
               = IF j \in holding THEN Cardinality(holding)
                                  ELSE Cardinality(holding) + 1
      BY <2>2, <3>1, FS_AddElement, Zenon
    <3>3. QED
      BY <2>2, <3>1, <3>2
  <2>4. QED
    BY <2>1, <2>2, <2>3
<1>2. ASSUME NEW j \in Jobs, holding' = holding \ {j},
             holding' = {i \in Jobs : kind'[i] = "tool" /\ pc'[i] = "exec"}
      PROVE Slots'
  <2>1. IsFiniteSet(holding') /\ Cardinality(holding') <= Cardinality(holding)
    BY <1>2, FS_Subset
  <2>2. QED
    BY <1>2, <2>1, FS_CardinalityType
<1>3. ASSUME NEW j \in Jobs, NEW s \in ToolOutcomes, ToolFinish(j, s)
      PROVE Slots'
  BY <1>2, <1>3 DEF ToolFinish
<1>4. ASSUME NEW j \in Jobs, ToolCancelled(j)
      PROVE Slots'
  BY <1>2, <1>4 DEF ToolCancelled
<1>5. CASE Vanish
  <2>1. holding' = {i \in Jobs : kind'[i] = "tool" /\ pc'[i] = "exec"}
    BY <1>5 DEF Vanish
  <2>2. QED
    BY <1>5, <2>1, FS_EmptySet DEF Vanish
<1>6. ASSUME UNCHANGED holding,
             {i \in Jobs : kind'[i] = "tool" /\ pc'[i] = "exec"}
               = {i \in Jobs : kind[i] = "tool" /\ pc[i] = "exec"}
      PROVE Slots'
  BY <1>6
<1>7. ASSUME NEW j \in Jobs,
             \/ RunBegin(j) \/ RunCancelled(j) \/ RunEnd(j) \/ ToolBegin(j)
             \/ \E s \in {"succeeded", "failed"},
                   at \in {"noteTry", "noteExc"} :
                  RunFinish(j, s, at)
      PROVE Slots'
  BY <1>6, <1>7
     DEF RunBegin, RunCancelled, RunEnd, ToolBegin, RunFinish
<1>8. ASSUME NEW j \in Jobs,
             \/ DelegateBegin(j) \/ ManagedRaises(j) \/ DelegateSave(j)
             \/ DelegateReply(j)
             \/ \E s \in {"succeeded", "failed"} : DelegateFinish(j, s)
      PROVE Slots'
  BY <1>6, <1>8
     DEF DelegateBegin, ManagedRaises, DelegateSave, DelegateReply,
         DelegateFinish
<1>9. ASSUME NEW j \in Jobs, ProcExit(j) \/ Client(j)
      PROVE Slots'
  BY <1>6, <1>9 DEF ProcExit, Client, Accept, Cancel, Patch
<1>10. CASE Drain \/ WaitForIdle \/ Restart \/ UNCHANGED vars
  BY <1>6, <1>10 DEF Drain, WaitForIdle, Restart, vars
<1> HIDE DEF Slots, Inv
<1>11. QED
  BY <1>1, <1>3, <1>4, <1>5, <1>7, <1>8, <1>9, <1>10
     DEF Next, Step, Stop, Crash, StopRaises, Shutdown

(* The holders of the semaphore are exactly the tool jobs in the driver,   *)
(* never more than there are slots.                                        *)
THEOREM SlotsHold == Spec => []SlotDiscipline
<1>1. Init => Slots
  BY SlotsAssumption, FS_EmptySet DEF Init, Slots, SlotDiscipline
<1>2. Slots => SlotDiscipline
  BY DEF Slots
<1>3. QED
  BY <1>1, <1>2, SlotsStep, InvHolds, PTL DEF Spec

-----------------------------------------------------------------------------
(* A settled row changes only under a task whose row a client patched, or  *)
(* into "cancelled" after an accepted cancel.                              *)
THEOREM RewritesHold == Spec => SettledRewrites
<1>1. ASSUME Inv, [Next]_vars, NEW i \in Jobs
      PROVE SettledRewrite(i)
  <2> USE <1>1 DEF SettledRewrite, Inv, TypeOK, StageByKind, RowByStage,
                   ReplyByStage, NoticeMatchesRow, CancelsAccepted
  <2>1. ASSUME NEW j \in Jobs, Step(j)
        PROVE SettledRewrite(i)
    BY <2>1, AllowedTable
       DEF Step, RunBegin, RunFinish, RunCancelled, RunEnd, ToolBegin,
           ToolFinish, ToolCancelled, DelegateBegin, DelegateFinish,
           ManagedRaises, DelegateSave, DelegateReply
  <2>2. ASSUME NEW j \in Jobs, ToolAcquire(j) \/ ProcExit(j) \/ Client(j)
        PROVE SettledRewrite(i)
    BY <2>2, AllowedTable
       DEF ToolAcquire, ProcExit, Client, Accept, Cancel, Patch
  <2>3. CASE Stop \/ UNCHANGED vars
    BY <2>3 DEF Stop, Crash, Drain, StopRaises, WaitForIdle, Shutdown, Vanish, Restart, vars
  <2> HIDE DEF SettledRewrite, Inv
  <2>4. QED
    BY <2>1, <2>2, <2>3 DEF Next
<1>2. Inv /\ [Next]_vars => [\A j \in Jobs : SettledRewrite(j)]_vars
  BY <1>1
<1>3. QED
  BY <1>2, InvHolds, PTL DEF Spec, SettledRewrites

(* A shutdown that gets to the end leaves a codex job open only if an      *)
(* earlier death cut it short or it was created after wait_for_idle read   *)
(* the tasks.                                                              *)
THEOREM ShutdownsHold == Spec => CleanShutdown
<1>1. ASSUME Inv, Shutdown, NEW j \in Jobs, kind[j] = "codex", row[j] \in Open
      PROVE pc[j] = "lost" \/ j \in late
  BY <1>1 DEF Shutdown, Inv, TypeOK, PCs, StageByKind, OpenRowOwned,
              CancelTablesExact, TasksCovered
<1>2. Inv /\ [Next]_vars
        => [Shutdown => \A j \in Jobs :
              kind[j] = "codex" /\ row[j] \in Open
                => pc[j] = "lost" \/ j \in late]_vars
  BY <1>1
<1>3. QED
  BY <1>2, InvHolds, PTL DEF Spec, CleanShutdown

-----------------------------------------------------------------------------
(* Refinement.  Steps of the other kinds of job, and those that move no    *)
(* row and send no message, are stutters of the contract.                  *)
LEMMA ContractStep == Inv /\ [Next]_vars => [Contract!Next]_(Contract!vars)
<1> SUFFICES ASSUME Inv, [Next]_vars
             PROVE  Contract!Next \/ UNCHANGED <<DelegatedRow, reply>>
  BY DEF Contract!vars
<1> USE DEF Inv, TypeOK, StageByKind, RowByStage, ReplyByStage, DelegatedRow
<1>1. ASSUME NEW j \in Jobs, Step(j), kind[j] \notin DelegatedKinds
      PROVE UNCHANGED <<DelegatedRow, reply>>
  BY <1>1
     DEF Step, RunBegin, RunFinish, RunCancelled, RunEnd, ToolBegin,
         ToolFinish, ToolCancelled, DelegateBegin, DelegateFinish,
         ManagedRaises, DelegateSave, DelegateReply
<1>a. ASSUME NEW j \in Jobs, NEW v, row' = [row EXCEPT ![j] = v],
             UNCHANGED kind, kind[j] \in DelegatedKinds
      PROVE /\ DelegatedRow' = [DelegatedRow EXCEPT ![j] = v]
            /\ DelegatedRow[j] = row[j]
  <2>1. /\ row' = [i \in Jobs |-> IF i = j THEN v ELSE row[i]]
        /\ DelegatedRow' = [i \in Jobs |-> IF i = j THEN v ELSE DelegatedRow[i]]
    BY <1>a
  <2>2. [DelegatedRow EXCEPT ![j] = v]
          = [i \in Jobs |-> IF i = j THEN v ELSE DelegatedRow[i]]
    BY <1>a
  <2>3. QED
    BY <1>a, <2>1, <2>2
<1> HIDE DEF DelegatedRow
<1>2. ASSUME NEW j \in Jobs, DelegateBegin(j)
      PROVE Contract!Start(j)
  <2>1. /\ row' = [row EXCEPT ![j] = "running"] /\ UNCHANGED <<kind, reply>>
        /\ kind[j] \in DelegatedKinds
        /\ row[j] = "queued"
    BY <1>2 DEF DelegateBegin
  <2>2. /\ DelegatedRow' = [DelegatedRow EXCEPT ![j] = "running"]
        /\ DelegatedRow[j] = row[j]
    BY <1>a, <2>1, Zenon
  <2>3. QED
    BY <2>1, <2>2 DEF Contract!Start
<1>3. ASSUME NEW j \in Jobs, NEW s \in {"succeeded", "failed"},
             DelegateFinish(j, s)
      PROVE Contract!Settle(j, s) \/ UNCHANGED <<DelegatedRow, reply>>
  <2>1. CASE row[j] = "running"
    BY <1>3, <1>a, <2>1, AllowedTable
       DEF DelegateFinish, Contract!Settle, Contract!Outcomes
  <2>2. CASE row[j] # "running"
    BY <1>3, <2>2, AllowedTable DEF DelegateFinish, DelegatedRow
  <2>3. QED
    BY <2>1, <2>2
<1>4. ASSUME NEW j \in Jobs, DelegateReply(j)
      PROVE Contract!Answer(j)
  BY <1>4 DEF DelegateReply, DelegatedRow, Contract!Answer, Contract!Outcomes
<1>5. ASSUME NEW j \in Jobs, ManagedRaises(j) \/ DelegateSave(j)
      PROVE UNCHANGED <<DelegatedRow, reply>>
  BY <1>5 DEF ManagedRaises, DelegateSave, DelegatedRow
<1>6. ASSUME NEW j \in Jobs, Step(j), kind[j] \in DelegatedKinds
      PROVE Contract!Next \/ UNCHANGED <<DelegatedRow, reply>>
  BY <1>2, <1>3, <1>4, <1>5, <1>6
     DEF Step, Contract!Next, Contract!Outcomes, RunBegin, RunFinish,
         RunCancelled, RunEnd, ToolBegin, ToolFinish, ToolCancelled
<1>7. ASSUME NEW j \in Jobs, NEW k \in Kinds, Accept(j, k)
      PROVE Contract!Create(j) \/ UNCHANGED <<DelegatedRow, reply>>
  BY <1>7 DEF Accept, DelegatedRow, Contract!Create
<1>8. ASSUME NEW j \in Jobs, NEW s \in Open \cup Outcomes, Patch(j, s)
      PROVE \/ Contract!Start(j) \/ Contract!Settle(j, s)
            \/ UNCHANGED <<DelegatedRow, reply>>
  <2>1. CASE kind[j] \in DelegatedKinds
    <3>1. /\ DelegatedRow' = [DelegatedRow EXCEPT ![j] = s]
          /\ DelegatedRow[j] = row[j]
          /\ UNCHANGED reply
      <4>1. /\ row' = [row EXCEPT ![j] = s]
            /\ UNCHANGED kind /\ UNCHANGED reply
        BY <1>8 DEF Patch
      <4>2. /\ DelegatedRow' = [DelegatedRow EXCEPT ![j] = s]
            /\ DelegatedRow[j] = row[j]
        <5> HIDE DEF DelegatedKinds, Inv
        <5>1. QED
          BY <1>a, <2>1, <4>1, Zenon
      <4>3. QED
        BY <4>1, <4>2
    <3>2. \/ row[j] = "queued" /\ s \in {"running", "cancelled"}
          \/ row[j] = "running" /\ s \in Outcomes
      BY <1>8, AllowedTable DEF Patch
    <3>3. QED
      BY <3>1, <3>2 DEF Contract!Start, Contract!Settle, Contract!Outcomes
  <2>2. CASE kind[j] \notin DelegatedKinds
    BY <1>8, <2>2 DEF Patch, DelegatedRow
  <2>3. QED
    BY <2>1, <2>2
<1>9. ASSUME NEW j \in Jobs, ToolAcquire(j) \/ ProcExit(j) \/ Cancel(j)
      PROVE UNCHANGED <<DelegatedRow, reply>>
  BY <1>9 DEF ToolAcquire, ProcExit, Cancel, DelegatedRow
<1>10. ASSUME NEW j \in Jobs, Client(j)
       PROVE Contract!Next \/ UNCHANGED <<DelegatedRow, reply>>
  <2> HIDE DEF Inv
  <2>1. ASSUME NEW s \in Open \cup Outcomes, Patch(j, s)
        PROVE Contract!Next \/ UNCHANGED <<DelegatedRow, reply>>
    <3>1. CASE Contract!Settle(j, s)
      <4>1. s \in Contract!Outcomes
        BY <3>1 DEF Contract!Settle, Contract!Outcomes
      <4>2. QED
        BY <3>1, <4>1 DEF Contract!Next
    <3>2. QED
      BY <1>8, <2>1, <3>1 DEF Contract!Next
  <2>2. QED
    BY <1>7, <1>9, <1>10, <2>1 DEF Client, Contract!Next
<1>11. CASE Stop \/ UNCHANGED vars
  BY <1>11
     DEF Stop, Crash, Drain, StopRaises, WaitForIdle, Shutdown, Vanish, Restart, vars, DelegatedRow
<1> HIDE DEF Inv
<1>12. QED
  BY <1>1, <1>6, <1>9, <1>10, <1>11 DEF Next

(* Rows and messages of delegated jobs implement the contract their        *)
(* clients rely on: one run through the state machine, at most one answer, *)
(* sent after the row settled and with its status.                         *)
THEOREM ContractHolds == Spec => DelegatedContract
<1>1. Init => Contract!Init
  BY DEF Init, Contract!Init, DelegatedRow
<1>2. QED
  BY <1>1, ContractStep, InvHolds, PTL
  DEF Spec, Contract!Spec, DelegatedContract
=============================================================================
