------------------------- MODULE CodingAgentProofs -------------------------
(***************************************************************************)
(* Proofs about CodingAgent for every set of jobs and files, every limit   *)
(* and every number of editor operations.                                  *)
(***************************************************************************)
EXTENDS CodingAgent, TLAPS

(* The phases between whose steps no other job runs.                       *)
Atomic == {"swap", "undo", "restore", "close"}

Exclusive ==
  \A a, b \in Agents : phase[a] \in Atomic /\ phase[b] \in Atomic => a = b

(* While the loop runs a job has a snapshot of exactly the files it has    *)
(* changed or is changing.                                                 *)
SnapshotsKept ==
  \A a \in Agents :
    /\ mutated[a] \subseteq snapped[a]
    /\ phase[a] \in {"idle", "ask", "testing"} => snapped[a] = mutated[a]
    /\ phase[a] = "swap" => snapped[a] = mutated[a] \cup {target[a]}
    /\ phase[a] \in {"undo", "restore"} => todo[a] \subseteq mutated[a]
    /\ phase[a] = "restore" => target[a] \in todo[a]

(* An edit of a job is only in files the job has changed, in inspections   *)
(* and snapshots of such files, and in none of its own snapshots.          *)
EditsConfined ==
  \A a \in Agents, f \in Files :
    /\ ~HasEditOf(a, original[a][f])
    /\ f \notin mutated[a] =>
         /\ ~HasEditOf(a, content[f])
         /\ \A b \in Agents : /\ ~HasEditOf(a, seen[b][f])
                              /\ ~HasEditOf(a, original[b][f])

(* A loop that is over has a verdict, and a rollback without a failure so  *)
(* far has undone what it looked at.                                       *)
RollbackProgress ==
  \A a \in Agents :
    /\ phase[a] \in {"undo", "restore", "close"} => verdict[a] # "none"
    /\ phase[a] \in {"idle", "ask", "testing", "swap"} => rollback[a] = "none"
    /\ phase[a] = "close" /\ rollback[a] = "succeeded" => todo[a] = {}
    /\ phase[a] \in {"undo", "restore", "close"} /\ rollback[a] = "succeeded"
         => \A f \in mutated[a] \ todo[a] : ~HasEditOf(a, content[f])

TraceTells ==
  \A a \in Agents : mutated[a] # {} => <<"replace_text", TRUE>> \in trace[a]

(* What a step that is about to write a file knows of it.                  *)
WindowsRaced ==
  \A a \in Agents :
    /\ phase[a] = "swap"
       => Decoded(content[target[a]]) \subseteq seen[a][target[a]] \cup raced
    /\ phase[a] = "swap" /\ target[a] \notin mutated[a]
         => Decoded(original[a][target[a]]) = seen[a][target[a]]
    /\ phase[a] = "restore"
         => content[target[a]] \subseteq last[a][target[a]] \cup raced

(* What a job that changed a file once wrote is its snapshot and its edit. *)
LastFromOriginal ==
  \A a \in Agents : \A f \in mutated[a] \ twice[a] :
    \A e \in last[a][f] : e \in original[a][f] \/ e[1] = a

(* The inductive invariant.                                                *)
Inv ==
  /\ TypeOK
  /\ Exclusive
  /\ SnapshotsKept
  /\ EditsConfined
  /\ RollbackProgress
  /\ TraceTells
  /\ WindowsRaced
  /\ LastFromOriginal

-----------------------------------------------------------------------------
USE EditorAssumption, LimitsAssumption, FilesAssumption
    DEF disk, memory, counters, undoing, ghosts, LoopFree

(* What Conclude and Advance keep of the types.                            *)
FlowTypes ==
  /\ phase' \in [Agents -> Phases]
  /\ step' \in [Agents -> Nat]
  /\ verdict' \in [Agents -> {"none", "succeeded", "failed"}]
  /\ todo' \in [Agents -> SUBSET Files]
  /\ rollback' \in [Agents -> {"none", "succeeded", "failed"}]

(* The helpers of the loop keep the types.                                 *)
LEMMA ConcludeTypes ==
  ASSUME TypeOK, NEW a \in Agents, NEW v \in {"succeeded", "failed"},
         NEW paths \in SUBSET Files, Conclude(a, v, paths)
  PROVE  FlowTypes
BY DEF TypeOK, Phases, Conclude, FlowTypes

(* Failing.                                                                *)
LEMMA FailTypes ==
  ASSUME TypeOK, NEW a \in Agents, Fail(a)
  PROVE  FlowTypes
<1>1. mutated[a] \in SUBSET Files
  BY DEF TypeOK
<1>2. QED
  BY <1>1, ConcludeTypes DEF Fail

(* Going on.                                                               *)
LEMMA AdvanceTypes ==
  ASSUME TypeOK, NEW a \in Agents, NEW paths \in SUBSET Files,
         Advance(a, paths) \/ NextTurn(a)
  PROVE  FlowTypes
<1>1. CASE NextTurn(a)
  BY <1>1 DEF TypeOK, Phases, NextTurn, FlowTypes
<1>2. QED
  BY <1>1, ConcludeTypes DEF Advance

(* A traced call.                                                          *)
LEMMA TracedTypes ==
  ASSUME TypeOK, NEW a \in Agents, NEW op \in Tools, NEW ok \in BOOLEAN,
         Traced(a, op, ok)
  PROVE  trace' \in [Agents -> SUBSET (Tools \X BOOLEAN)]
<1>1. <<op, ok>> \in Tools \X BOOLEAN
  OBVIOUS
<1>2. trace[a] \cup {<<op, ok>>} \in SUBSET (Tools \X BOOLEAN)
  BY <1>1 DEF TypeOK
<1>3. QED
  BY <1>2 DEF TypeOK, Traced

(* Where a job goes next: another turn, the rollback of the given paths,   *)
(* or the end.                                                             *)
Flow(a, paths) ==
  \/ /\ phase' = [phase EXCEPT ![a] = "ask"]
     /\ UNCHANGED <<verdict, todo, rollback>>
  \/ /\ phase' = [phase EXCEPT ![a] = "close"]
     /\ \E v \in {"succeeded", "failed"} : verdict' = [verdict EXCEPT ![a] = v]
     /\ todo' = [todo EXCEPT ![a] = paths]
     /\ UNCHANGED rollback
  \/ /\ phase' = [phase EXCEPT ![a] = "undo"]
     /\ verdict' = [verdict EXCEPT ![a] = "failed"]
     /\ todo' = [todo EXCEPT ![a] = paths]
     /\ rollback' = [rollback EXCEPT ![a] = "succeeded"]

(* The control of the loop: going on.                                      *)
LEMMA AdvanceFlow ==
  ASSUME TypeOK, NEW a \in Agents, NEW paths,
         \/ Advance(a, paths) \/ NextTurn(a)
         \/ \E v \in {"succeeded", "failed"} : Conclude(a, v, paths)
  PROVE  Flow(a, paths)
<1>1. ASSUME NEW v \in {"succeeded", "failed"}, Conclude(a, v, paths)
      PROVE Flow(a, paths)
  <2>1. CASE v = "failed" /\ paths # {}
    BY <1>1, <2>1 DEF Conclude, Flow
  <2>2. CASE ~(v = "failed" /\ paths # {})
    <3>1. rollback' = [rollback EXCEPT ![a] = rollback[a]]
      BY <1>1, <2>2 DEF Conclude
    <3>2. rollback' = rollback
      BY <3>1 DEF TypeOK
    <3>3. QED
      BY <1>1, <2>2, <3>2 DEF Conclude, Flow
  <2>3. QED
    BY <2>1, <2>2
<1>2. ASSUME NextTurn(a)
      PROVE Flow(a, paths)
  BY <1>2 DEF NextTurn, Flow
<1>3. QED
  BY <1>1, <1>2 DEF Advance

(* The turns that change no file and no evidence about one.                *)
Turn(a) ==
  \/ Answer(a) \/ Break(a) \/ ListFiles(a) \/ InspectMiss(a) \/ TestsDone(a)
  \/ \E f \in Files : ReplaceRejected(a, f)

(* A turn.                                                                 *)
LEMMA TurnFlow ==
  ASSUME TypeOK, NEW a \in Agents, Turn(a)
  PROVE  /\ LoopFree
         /\ phase[a] \in {"ask", "testing"}
         /\ Flow(a, mutated[a])
         /\ UNCHANGED <<disk, target, memory, ghosts>>
         /\ \A b \in Agents : trace[b] \subseteq trace'[b]
<1>1. CASE Answer(a)
  BY <1>1, AdvanceFlow DEF Answer, Fail
<1>2. CASE Break(a)
  BY <1>2, AdvanceFlow DEF Break, Fail
<1>3. CASE ListFiles(a)
  BY <1>3, AdvanceFlow DEF ListFiles, Asks, Fail, Traced, TypeOK
<1>4. CASE InspectMiss(a)
  BY <1>4, AdvanceFlow DEF InspectMiss, Asks, Fail, Traced, TypeOK
<1>5. CASE TestsDone(a)
  BY <1>5, AdvanceFlow DEF TestsDone, Fail, Traced, TypeOK
<1>6. ASSUME NEW f \in Files, ReplaceRejected(a, f)
      PROVE  /\ LoopFree
             /\ phase[a] \in {"ask", "testing"}
             /\ Flow(a, mutated[a])
             /\ UNCHANGED <<disk, target, memory, ghosts>>
             /\ \A b \in Agents : trace[b] \subseteq trace'[b]
  BY <1>6, AdvanceFlow DEF ReplaceRejected, Asks, Fail
<1>7. QED
  BY <1>1, <1>2, <1>3, <1>4, <1>5, <1>6 DEF Turn

(* A turn keeps the types.                                                 *)
LEMMA TurnTypes ==
  ASSUME TypeOK, NEW a \in Agents, Turn(a)
  PROVE  TypeOK'
<1> USE DEF TypeOK
<1>1. CASE Answer(a)
  <2>1. FlowTypes
    BY <1>1, FailTypes, ConcludeTypes DEF Answer
  <2>2. QED
    BY <1>1, <2>1 DEF Answer, FlowTypes
<1>2. CASE Break(a)
  <2>1. FlowTypes
    BY <1>2, FailTypes DEF Break
  <2>2. QED
    BY <1>2, <2>1 DEF Break, FlowTypes
<1>3. CASE ListFiles(a)
  <2>1. FlowTypes
    BY <1>3, FailTypes, AdvanceTypes DEF ListFiles
  <2>2. trace' \in [Agents -> SUBSET (Tools \X BOOLEAN)]
    BY <1>3, TracedTypes DEF ListFiles, Tools
  <2>3. QED
    BY <1>3, <2>1, <2>2 DEF ListFiles, FlowTypes
<1>4. CASE InspectMiss(a)
  <2>1. FlowTypes
    BY <1>4, FailTypes, AdvanceTypes DEF InspectMiss
  <2>2. trace' \in [Agents -> SUBSET (Tools \X BOOLEAN)]
    BY <1>4, TracedTypes DEF InspectMiss, Tools
  <2>3. QED
    BY <1>4, <2>1, <2>2 DEF InspectMiss, FlowTypes
<1>5. CASE TestsDone(a)
  <2>1. FlowTypes
    BY <1>5, FailTypes, AdvanceTypes DEF TestsDone
  <2>2. trace' \in [Agents -> SUBSET (Tools \X BOOLEAN)]
    BY <1>5, TracedTypes DEF TestsDone, Tools
  <2>3. tested' \in [Agents -> Nat]
    <3>1. CASE tested' = [tested EXCEPT ![a] = @ + 1]
      <4>1. tested[a] + 1 \in Nat
        OBVIOUS
      <4>2. QED
        BY <3>1, <4>1
    <3>2. CASE tested' = tested
      BY <3>2
    <3>3. QED
      BY <1>5, <3>1, <3>2 DEF TestsDone
  <2>4. QED
    BY <1>5, <2>1, <2>2, <2>3 DEF TestsDone, FlowTypes
<1>6. ASSUME NEW f \in Files, ReplaceRejected(a, f)
      PROVE  TypeOK'
  <2>1. FlowTypes
    BY <1>6, FailTypes DEF ReplaceRejected
  <2>2. QED
    BY <1>6, <2>1 DEF ReplaceRejected, FlowTypes
<1>7. QED
  BY <1>1, <1>2, <1>3, <1>4, <1>5, <1>6 DEF Turn

(* The invariant holds initially.                                          *)
LEMMA InitInv == Init => Inv
<1> SUFFICES ASSUME Init PROVE Inv
  OBVIOUS
<1>1. /\ content = [f \in Files |-> IF f \in RawFiles THEN {<<"bytes", 0>>} ELSE {}]
      /\ <<"bytes", 0>> \in Edits
  BY DEF Init, Edits
<1>2. content \in [Files -> SUBSET Edits]
  BY <1>1
<1>3. TypeOK
  BY <1>2 DEF Init, TypeOK, Phases
<1>4. \A a \in Agents, f \in Files : ~HasEditOf(a, content[f])
  BY <1>1 DEF HasEditOf
<1>5. EditsConfined
  BY <1>4 DEF Init, EditsConfined, HasEditOf
<1>6. QED
  BY <1>3, <1>4, <1>5
     DEF Init, Inv, Exclusive, Atomic, SnapshotsKept, RollbackProgress,
         TraceTells, WindowsRaced, LastFromOriginal

-----------------------------------------------------------------------------
(* Types: the union, sum and IF of each assignment stay in their ranges.   *)
LEMMA TypesStep == Inv /\ [Next]_vars => TypeOK'
<1> SUFFICES ASSUME Inv, [Next]_vars PROVE TypeOK'
  OBVIOUS
<1> USE DEF Inv, TypeOK, Phases, Edits, Tools, RollbackProgress, Decoded
<1>1. ASSUME NEW a \in Agents, Begin(a) \/ RunTests(a) \/ Patch(a)
      PROVE TypeOK'
  BY <1>1 DEF Begin, RunTests, Asks, Patch
<1>2. ASSUME NEW a \in Agents, Turn(a)
      PROVE TypeOK'
  BY <1>2, TurnTypes DEF Inv
<1>3. ASSUME NEW a \in Agents, NEW f \in Files, InspectFile(a, f)
      PROVE TypeOK'
  <2>1. FlowTypes
    <3>1. mutated[a] \in SUBSET Files
      OBVIOUS
    <3>2. QED
      BY <1>3, <3>1, AdvanceTypes DEF InspectFile
  <2>2. trace' \in [Agents -> SUBSET (Tools \X BOOLEAN)]
    BY <1>3, TracedTypes DEF InspectFile
  <2>3. looks[a] + 1 \in Nat /\ content[f] \in SUBSET Edits
    OBVIOUS
  <2>4. QED
    BY <1>3, <2>1, <2>2, <2>3 DEF InspectFile, FlowTypes
<1>4. ASSUME NEW a \in Agents, NEW f \in Files, ReplaceMiss(a, f)
      PROVE TypeOK'
  <2>1. FlowTypes
    BY <1>4, AdvanceTypes DEF ReplaceMiss
  <2>2. trace' \in [Agents -> SUBSET (Tools \X BOOLEAN)]
    BY <1>4, TracedTypes DEF ReplaceMiss
  <2>3. original' \in [Agents -> [Files -> SUBSET Edits]]
    BY <1>4 DEF ReplaceMiss, Snapshot
  <2>4. /\ inspected' \in [Agents -> SUBSET Files]
        /\ snapped' \in [Agents -> SUBSET Files]
    BY <1>4 DEF ReplaceMiss
  <2>5. recovery' \in [Agents -> BOOLEAN]
    BY <1>4 DEF ReplaceMiss
  <2>6. QED
    BY <1>4, <2>1, <2>2, <2>3, <2>4, <2>5 DEF ReplaceMiss, FlowTypes
<1>5. ASSUME NEW a \in Agents, NEW f \in Files, ReplaceFailed(a, f)
      PROVE TypeOK'
  <2>1. FlowTypes
    BY <1>5, FailTypes DEF ReplaceFailed
  <2>2. trace' \in [Agents -> SUBSET (Tools \X BOOLEAN)]
    BY <1>5, TracedTypes DEF ReplaceFailed
  <2>3. original' \in [Agents -> [Files -> SUBSET Edits]]
    BY <1>5 DEF ReplaceFailed, Snapshot
  <2>4. /\ inspected' \in [Agents -> SUBSET Files]
        /\ snapped' \in [Agents -> SUBSET Files]
    BY <1>5 DEF ReplaceFailed
  <2>5. recovery' \in [Agents -> BOOLEAN]
    BY <1>5 DEF ReplaceFailed
  <2>6. QED
    BY <1>5, <2>1, <2>2, <2>3, <2>4, <2>5 DEF ReplaceFailed, FlowTypes
<1>6. ASSUME NEW a \in Agents, NEW f \in Files, ReplaceRead(a, f)
      PROVE TypeOK'
  BY <1>6 DEF ReplaceRead, Asks, Snapshot
<1>7. ASSUME NEW a \in Agents, ReplaceSwap(a)
      PROVE TypeOK'
  <2> DEFINE f == target[a]
  <2> DEFINE updated == seen[a][f] \cup {<<a, applied[a] + 1>>}
  <2>1. f \in Files /\ updated \in SUBSET Edits /\ applied[a] + 1 \in Nat
    OBVIOUS
  <2>2. FlowTypes
    <3>1. mutated[a] \cup {f} \in SUBSET Files
      BY <2>1
    <3>2. QED
      BY <1>7, <3>1, AdvanceTypes DEF ReplaceSwap
  <2>3. trace' \in [Agents -> SUBSET (Tools \X BOOLEAN)]
    BY <1>7, TracedTypes DEF ReplaceSwap
  <2>4. /\ content' \in [Files -> SUBSET Edits]
        /\ last' \in [Agents -> [Files -> SUBSET Edits]]
    BY <1>7, <2>1 DEF ReplaceSwap
  <2>5. QED
    BY <1>7, <2>1, <2>2, <2>3, <2>4 DEF ReplaceSwap, FlowTypes
<1>8. ASSUME NEW a \in Agents, NEW f \in Files, UndoSkip(a, f)
      PROVE TypeOK'
  BY <1>8 DEF UndoSkip
<1>9. ASSUME NEW a \in Agents, NEW f \in Files, UndoRead(a, f)
      PROVE TypeOK'
  BY <1>9 DEF UndoRead
<1>10. ASSUME NEW a \in Agents, UndoWrite(a)
      PROVE TypeOK'
  BY <1>10 DEF UndoWrite
<1>11. ASSUME NEW a \in Agents, UndoDone(a)
      PROVE TypeOK'
  BY <1>11 DEF UndoDone
<1>12. ASSUME NEW a \in Agents, Close(a)
      PROVE TypeOK'
  BY <1>12 DEF Close
<1>13. ASSUME NEW f \in Files, NEW who \in {"editor", "bytes"}, EditorSave(f, who)
      PROVE TypeOK'
  BY <1>13 DEF EditorSave, InWindow
<1>14. ASSUME NEW f \in Files, EditorDelete(f)
      PROVE TypeOK'
  BY <1>14 DEF EditorDelete
<1>15. CASE Crash \/ UNCHANGED vars
  BY <1>15 DEF Crash, vars
<1> HIDE DEF Inv, TypeOK
<1>16. QED
  BY <1>1, <1>2, <1>3, <1>4, <1>5, <1>6, <1>7, <1>8, <1>9, <1>10, <1>11, <1>12,
     <1>13, <1>14, <1>15
     DEF Next, Work, Turn, Editor

(* A job enters an atomic phase only when no other job is in one.          *)
LEMMA ExclusiveStep == Inv /\ [Next]_vars => Exclusive'
<1> SUFFICES ASSUME Inv, [Next]_vars PROVE Exclusive'
  OBVIOUS
<1> USE DEF Inv, Exclusive, Atomic, TypeOK
<1>1. ASSUME NEW a \in Agents, Begin(a) \/ RunTests(a) \/ Patch(a)
      PROVE Exclusive'
  BY <1>1 DEF Begin, RunTests, Asks, Patch
<1>2. ASSUME NEW a \in Agents, Turn(a)
      PROVE Exclusive'
  <2>1. /\ LoopFree
        /\ phase[a] \in {"ask", "testing"}
        /\ Flow(a, mutated[a])
        /\ UNCHANGED <<content, target, seen, snapped, original, mutated,
                        last, raced>>
    BY <1>2, TurnFlow
  <2>2. CASE phase' = [phase EXCEPT ![a] = "ask"]
    BY <2>1, <2>2 DEF Flow
  <2>3. CASE phase' = [phase EXCEPT ![a] = "close"]
    BY <2>1, <2>3 DEF Flow
  <2>4. CASE phase' = [phase EXCEPT ![a] = "undo"]
    BY <2>1, <2>4 DEF Flow
  <2>5. QED
    BY <2>1, <2>2, <2>3, <2>4 DEF Flow
<1>3. ASSUME NEW a \in Agents, NEW f \in Files, InspectFile(a, f)
      PROVE Exclusive'
  BY <1>3 DEF InspectFile, Asks, Traced, Advance, Conclude, NextTurn
<1>4. ASSUME NEW a \in Agents, NEW f \in Files, ReplaceMiss(a, f)
      PROVE Exclusive'
  BY <1>4 DEF ReplaceMiss, Asks, Snapshot, Traced, NextTurn
<1>5. ASSUME NEW a \in Agents, NEW f \in Files, ReplaceFailed(a, f)
      PROVE Exclusive'
  BY <1>5 DEF ReplaceFailed, Asks, Snapshot, Traced, Fail, Conclude
<1>6. ASSUME NEW a \in Agents, NEW f \in Files, ReplaceRead(a, f)
      PROVE Exclusive'
  BY <1>6 DEF ReplaceRead, Asks, Snapshot
<1>7. ASSUME NEW a \in Agents, ReplaceSwap(a)
      PROVE Exclusive'
  <2>1. Flow(a, mutated[a] \cup {target[a]})
    BY <1>7, AdvanceFlow DEF ReplaceSwap
  <2>2. QED
    BY <1>7, <2>1 DEF ReplaceSwap, Flow
<1>8. ASSUME NEW a \in Agents, NEW f \in Files, UndoSkip(a, f)
      PROVE Exclusive'
  BY <1>8 DEF UndoSkip
<1>9. ASSUME NEW a \in Agents, NEW f \in Files, UndoRead(a, f)
      PROVE Exclusive'
  BY <1>9 DEF UndoRead
<1>10. ASSUME NEW a \in Agents, UndoWrite(a)
      PROVE Exclusive'
  BY <1>10 DEF UndoWrite
<1>11. ASSUME NEW a \in Agents, UndoDone(a)
      PROVE Exclusive'
  BY <1>11 DEF UndoDone
<1>12. ASSUME NEW a \in Agents, Close(a)
      PROVE Exclusive'
  BY <1>12 DEF Close
<1>13. ASSUME NEW f \in Files, NEW who \in {"editor", "bytes"}, EditorSave(f, who)
      PROVE Exclusive'
  BY <1>13 DEF EditorSave, InWindow
<1>14. ASSUME NEW f \in Files, EditorDelete(f)
      PROVE Exclusive'
  BY <1>14 DEF EditorDelete
<1>15. CASE Crash \/ UNCHANGED vars
  BY <1>15 DEF Crash, vars
<1> HIDE DEF Inv, Exclusive
<1>16. QED
  BY <1>1, <1>2, <1>3, <1>4, <1>5, <1>6, <1>7, <1>8, <1>9, <1>10, <1>11, <1>12,
     <1>13, <1>14, <1>15
     DEF Next, Work, Turn, Editor

(* Snapshots are taken with the first attempt and dropped only for files   *)
(* that were never changed.                                                *)
LEMMA SnapshotsStep == Inv /\ [Next]_vars => SnapshotsKept'
<1> SUFFICES ASSUME Inv, [Next]_vars PROVE SnapshotsKept'
  OBVIOUS
<1> USE DEF Inv, SnapshotsKept, TypeOK, Exclusive
<1>1. ASSUME NEW a \in Agents, Begin(a) \/ RunTests(a) \/ Patch(a)
      PROVE SnapshotsKept'
  BY <1>1 DEF Begin, RunTests, Asks, Patch
<1>2. ASSUME NEW a \in Agents, Turn(a)
      PROVE SnapshotsKept'
  <2>1. /\ LoopFree
        /\ phase[a] \in {"ask", "testing"}
        /\ Flow(a, mutated[a])
        /\ UNCHANGED <<content, target, seen, snapped, original, mutated,
                        last, raced>>
    BY <1>2, TurnFlow
  <2>2. CASE phase' = [phase EXCEPT ![a] = "ask"]
    BY <2>1, <2>2 DEF Flow
  <2>3. CASE phase' = [phase EXCEPT ![a] = "close"]
    BY <2>1, <2>3 DEF Flow
  <2>4. CASE phase' = [phase EXCEPT ![a] = "undo"]
    BY <2>1, <2>4 DEF Flow
  <2>5. QED
    BY <2>1, <2>2, <2>3, <2>4 DEF Flow
<1>3. ASSUME NEW a \in Agents, NEW f \in Files, InspectFile(a, f)
      PROVE SnapshotsKept'
  BY <1>3 DEF InspectFile, Asks, Traced, Advance, Conclude, NextTurn
<1>4. ASSUME NEW a \in Agents, NEW f \in Files, ReplaceMiss(a, f)
      PROVE SnapshotsKept'
  BY <1>4 DEF ReplaceMiss, Asks, Snapshot, Traced, NextTurn
<1>5. ASSUME NEW a \in Agents, NEW f \in Files, ReplaceFailed(a, f)
      PROVE SnapshotsKept'
  BY <1>5 DEF ReplaceFailed, Asks, Snapshot, Traced, Fail, Conclude
<1>6. ASSUME NEW a \in Agents, NEW f \in Files, ReplaceRead(a, f)
      PROVE SnapshotsKept'
  BY <1>6 DEF ReplaceRead, Asks, Snapshot
<1>7. ASSUME NEW a \in Agents, ReplaceSwap(a)
      PROVE SnapshotsKept'
  BY <1>7 DEF ReplaceSwap, Traced, Advance, Conclude, NextTurn
<1>8. ASSUME NEW a \in Agents, NEW f \in Files, UndoSkip(a, f)
      PROVE SnapshotsKept'
  BY <1>8 DEF UndoSkip
<1>9. ASSUME NEW a \in Agents, NEW f \in Files, UndoRead(a, f)
      PROVE SnapshotsKept'
  BY <1>9 DEF UndoRead
<1>10. ASSUME NEW a \in Agents, UndoWrite(a)
      PROVE SnapshotsKept'
  BY <1>10 DEF UndoWrite
<1>11. ASSUME NEW a \in Agents, UndoDone(a)
      PROVE SnapshotsKept'
  BY <1>11 DEF UndoDone
<1>12. ASSUME NEW a \in Agents, Close(a)
      PROVE SnapshotsKept'
  BY <1>12 DEF Close
<1>13. ASSUME NEW f \in Files, NEW who \in {"editor", "bytes"}, EditorSave(f, who)
      PROVE SnapshotsKept'
  BY <1>13 DEF EditorSave, InWindow
<1>14. ASSUME NEW f \in Files, EditorDelete(f)
      PROVE SnapshotsKept'
  BY <1>14 DEF EditorDelete
<1>15. CASE Crash \/ UNCHANGED vars
  BY <1>15 DEF Crash, vars
<1> HIDE DEF Inv, SnapshotsKept
<1>16. QED
  BY <1>1, <1>2, <1>3, <1>4, <1>5, <1>6, <1>7, <1>8, <1>9, <1>10, <1>11, <1>12,
     <1>13, <1>14, <1>15
     DEF Next, Work, Turn, Editor

(* Content, inspections and snapshots pass edits on only between files a job*)
(* has changed.                                                            *)
LEMMA ConfinedStep == Inv /\ [Next]_vars => EditsConfined'
<1> SUFFICES ASSUME Inv, [Next]_vars PROVE EditsConfined'
  OBVIOUS
<1> USE DEF Inv, EditsConfined, TypeOK, SnapshotsKept, HasEditOf, Edits, Decoded
<1>1. ASSUME NEW a \in Agents, Begin(a) \/ RunTests(a) \/ Patch(a)
      PROVE EditsConfined'
  BY <1>1 DEF Begin, RunTests, Asks, Patch
<1>2. ASSUME NEW a \in Agents, Turn(a)
      PROVE EditsConfined'
  BY <1>2, TurnFlow DEF Flow
<1>3. ASSUME NEW a \in Agents, NEW f \in Files, InspectFile(a, f)
      PROVE EditsConfined'
  BY <1>3 DEF InspectFile, Asks, Traced, Advance, Conclude, NextTurn
<1>4. ASSUME NEW a \in Agents, NEW f \in Files, ReplaceMiss(a, f)
      PROVE EditsConfined'
  BY <1>4 DEF ReplaceMiss, Asks, Snapshot, Traced, NextTurn
<1>5. ASSUME NEW a \in Agents, NEW f \in Files, ReplaceFailed(a, f)
      PROVE EditsConfined'
  BY <1>5 DEF ReplaceFailed, Asks, Snapshot, Traced, Fail, Conclude
<1>6. ASSUME NEW a \in Agents, NEW f \in Files, ReplaceRead(a, f)
      PROVE EditsConfined'
  BY <1>6 DEF ReplaceRead, Asks, Snapshot
<1>7. ASSUME NEW a \in Agents, ReplaceSwap(a)
      PROVE EditsConfined'
  BY <1>7 DEF ReplaceSwap, Traced, Advance, Conclude, NextTurn
<1>8. ASSUME NEW a \in Agents, NEW f \in Files, UndoSkip(a, f)
      PROVE EditsConfined'
  BY <1>8 DEF UndoSkip
<1>9. ASSUME NEW a \in Agents, NEW f \in Files, UndoRead(a, f)
      PROVE EditsConfined'
  BY <1>9 DEF UndoRead
<1>10. ASSUME NEW a \in Agents, UndoWrite(a)
      PROVE EditsConfined'
  BY <1>10 DEF UndoWrite
<1>11. ASSUME NEW a \in Agents, UndoDone(a)
      PROVE EditsConfined'
  BY <1>11 DEF UndoDone
<1>12. ASSUME NEW a \in Agents, Close(a)
      PROVE EditsConfined'
  BY <1>12 DEF Close
<1>13. ASSUME NEW f \in Files, NEW who \in {"editor", "bytes"}, EditorSave(f, who)
      PROVE EditsConfined'
  BY <1>13 DEF EditorSave, InWindow
<1>14. ASSUME NEW f \in Files, EditorDelete(f)
      PROVE EditsConfined'
  BY <1>14 DEF EditorDelete
<1>15. CASE Crash \/ UNCHANGED vars
  BY <1>15 DEF Crash, vars
<1> HIDE DEF Inv, EditsConfined
<1>16. QED
  BY <1>1, <1>2, <1>3, <1>4, <1>5, <1>6, <1>7, <1>8, <1>9, <1>10, <1>11, <1>12,
     <1>13, <1>14, <1>15
     DEF Next, Work, Turn, Editor

(* While a job rolls back only editors can write beside it.                *)
LEMMA ProgressStep == Inv /\ [Next]_vars => RollbackProgress'
<1> SUFFICES ASSUME Inv, [Next]_vars PROVE RollbackProgress'
  OBVIOUS
<1> USE DEF Inv, RollbackProgress, TypeOK, SnapshotsKept, EditsConfined,
            Exclusive, Atomic, HasEditOf, Edits
<1>1. ASSUME NEW a \in Agents, Begin(a) \/ RunTests(a) \/ Patch(a)
      PROVE RollbackProgress'
  BY <1>1 DEF Begin, RunTests, Asks, Patch
<1>2. ASSUME NEW a \in Agents, Turn(a)
      PROVE RollbackProgress'
  <2>1. /\ LoopFree
        /\ phase[a] \in {"ask", "testing"}
        /\ Flow(a, mutated[a])
        /\ UNCHANGED <<content, target, seen, snapped, original, mutated,
                        last, raced>>
    BY <1>2, TurnFlow
  <2>2. CASE phase' = [phase EXCEPT ![a] = "ask"]
    BY <2>1, <2>2 DEF Flow
  <2>3. CASE phase' = [phase EXCEPT ![a] = "close"]
    BY <2>1, <2>3 DEF Flow
  <2>4. CASE phase' = [phase EXCEPT ![a] = "undo"]
    BY <2>1, <2>4 DEF Flow
  <2>5. QED
    BY <2>1, <2>2, <2>3, <2>4 DEF Flow
<1>3. ASSUME NEW a \in Agents, NEW f \in Files, InspectFile(a, f)
      PROVE RollbackProgress'
  BY <1>3 DEF InspectFile, Asks, Traced, Advance, Conclude, NextTurn
<1>4. ASSUME NEW a \in Agents, NEW f \in Files, ReplaceMiss(a, f)
      PROVE RollbackProgress'
  BY <1>4 DEF ReplaceMiss, Asks, Snapshot, Traced, NextTurn
<1>5. ASSUME NEW a \in Agents, NEW f \in Files, ReplaceFailed(a, f)
      PROVE RollbackProgress'
  BY <1>5 DEF ReplaceFailed, Asks, Snapshot, Traced, Fail, Conclude
<1>6. ASSUME NEW a \in Agents, NEW f \in Files, ReplaceRead(a, f)
      PROVE RollbackProgress'
  BY <1>6 DEF ReplaceRead, Asks, Snapshot
<1>7. ASSUME NEW a \in Agents, ReplaceSwap(a)
      PROVE RollbackProgress'
  BY <1>7 DEF ReplaceSwap, Traced, Advance, Conclude, NextTurn
<1>8. ASSUME NEW a \in Agents, NEW f \in Files, UndoSkip(a, f)
      PROVE RollbackProgress'
  BY <1>8 DEF UndoSkip
<1>9. ASSUME NEW a \in Agents, NEW f \in Files, UndoRead(a, f)
      PROVE RollbackProgress'
  BY <1>9 DEF UndoRead
<1>10. ASSUME NEW a \in Agents, UndoWrite(a)
      PROVE RollbackProgress'
  BY <1>10 DEF UndoWrite
<1>11. ASSUME NEW a \in Agents, UndoDone(a)
      PROVE RollbackProgress'
  BY <1>11 DEF UndoDone
<1>12. ASSUME NEW a \in Agents, Close(a)
      PROVE RollbackProgress'
  BY <1>12 DEF Close
<1>13. ASSUME NEW f \in Files, NEW who \in {"editor", "bytes"}, EditorSave(f, who)
      PROVE RollbackProgress'
  BY <1>13 DEF EditorSave, InWindow
<1>14. ASSUME NEW f \in Files, EditorDelete(f)
      PROVE RollbackProgress'
  BY <1>14 DEF EditorDelete
<1>15. CASE Crash \/ UNCHANGED vars
  BY <1>15 DEF Crash, vars
<1> HIDE DEF Inv, RollbackProgress
<1>16. QED
  BY <1>1, <1>2, <1>3, <1>4, <1>5, <1>6, <1>7, <1>8, <1>9, <1>10, <1>11, <1>12,
     <1>13, <1>14, <1>15
     DEF Next, Work, Turn, Editor

(* Every successful replacement is traced.                                 *)
LEMMA TraceStep == Inv /\ [Next]_vars => TraceTells'
<1> SUFFICES ASSUME Inv, [Next]_vars PROVE TraceTells'
  OBVIOUS
<1> USE DEF Inv, TraceTells, TypeOK
<1>1. ASSUME NEW a \in Agents, Begin(a) \/ RunTests(a) \/ Patch(a)
      PROVE TraceTells'
  BY <1>1 DEF Begin, RunTests, Asks, Patch
<1>2. ASSUME NEW a \in Agents, Turn(a)
      PROVE TraceTells'
  BY <1>2, TurnFlow DEF Flow
<1>3. ASSUME NEW a \in Agents, NEW f \in Files, InspectFile(a, f)
      PROVE TraceTells'
  BY <1>3 DEF InspectFile, Asks, Traced, Advance, Conclude, NextTurn
<1>4. ASSUME NEW a \in Agents, NEW f \in Files, ReplaceMiss(a, f)
      PROVE TraceTells'
  BY <1>4 DEF ReplaceMiss, Asks, Snapshot, Traced, NextTurn
<1>5. ASSUME NEW a \in Agents, NEW f \in Files, ReplaceFailed(a, f)
      PROVE TraceTells'
  BY <1>5 DEF ReplaceFailed, Asks, Snapshot, Traced, Fail, Conclude
<1>6. ASSUME NEW a \in Agents, NEW f \in Files, ReplaceRead(a, f)
      PROVE TraceTells'
  BY <1>6 DEF ReplaceRead, Asks, Snapshot
<1>7. ASSUME NEW a \in Agents, ReplaceSwap(a)
      PROVE TraceTells'
  BY <1>7 DEF ReplaceSwap, Traced, Advance, Conclude, NextTurn
<1>8. ASSUME NEW a \in Agents, NEW f \in Files, UndoSkip(a, f)
      PROVE TraceTells'
  BY <1>8 DEF UndoSkip
<1>9. ASSUME NEW a \in Agents, NEW f \in Files, UndoRead(a, f)
      PROVE TraceTells'
  BY <1>9 DEF UndoRead
<1>10. ASSUME NEW a \in Agents, UndoWrite(a)
      PROVE TraceTells'
  BY <1>10 DEF UndoWrite
<1>11. ASSUME NEW a \in Agents, UndoDone(a)
      PROVE TraceTells'
  BY <1>11 DEF UndoDone
<1>12. ASSUME NEW a \in Agents, Close(a)
      PROVE TraceTells'
  BY <1>12 DEF Close
<1>13. ASSUME NEW f \in Files, NEW who \in {"editor", "bytes"}, EditorSave(f, who)
      PROVE TraceTells'
  BY <1>13 DEF EditorSave, InWindow
<1>14. ASSUME NEW f \in Files, EditorDelete(f)
      PROVE TraceTells'
  BY <1>14 DEF EditorDelete
<1>15. CASE Crash \/ UNCHANGED vars
  BY <1>15 DEF Crash, vars
<1> HIDE DEF Inv, TraceTells
<1>16. QED
  BY <1>1, <1>2, <1>3, <1>4, <1>5, <1>6, <1>7, <1>8, <1>9, <1>10, <1>11, <1>12,
     <1>13, <1>14, <1>15
     DEF Next, Work, Turn, Editor

(* What is read before os.replace is current up to racing saves.           *)
LEMMA WindowsStep == Inv /\ [Next]_vars => WindowsRaced'
<1> SUFFICES ASSUME Inv, [Next]_vars PROVE WindowsRaced'
  OBVIOUS
<1> USE DEF Inv, WindowsRaced, TypeOK, Exclusive, Atomic, SnapshotsKept, Decoded
<1>1. ASSUME NEW a \in Agents, Begin(a) \/ RunTests(a) \/ Patch(a)
      PROVE WindowsRaced'
  BY <1>1 DEF Begin, RunTests, Asks, Patch
<1>2. ASSUME NEW a \in Agents, Turn(a)
      PROVE WindowsRaced'
  <2>1. /\ LoopFree
        /\ phase[a] \in {"ask", "testing"}
        /\ Flow(a, mutated[a])
        /\ UNCHANGED <<content, target, seen, snapped, original, mutated,
                        last, raced>>
    BY <1>2, TurnFlow
  <2>2. CASE phase' = [phase EXCEPT ![a] = "ask"]
    BY <2>1, <2>2 DEF Flow
  <2>3. CASE phase' = [phase EXCEPT ![a] = "close"]
    BY <2>1, <2>3 DEF Flow
  <2>4. CASE phase' = [phase EXCEPT ![a] = "undo"]
    BY <2>1, <2>4 DEF Flow
  <2>5. QED
    BY <2>1, <2>2, <2>3, <2>4 DEF Flow
<1>3. ASSUME NEW a \in Agents, NEW f \in Files, InspectFile(a, f)
      PROVE WindowsRaced'
  BY <1>3 DEF InspectFile, Asks, Traced, Advance, Conclude, NextTurn
<1>4. ASSUME NEW a \in Agents, NEW f \in Files, ReplaceMiss(a, f)
      PROVE WindowsRaced'
  BY <1>4 DEF ReplaceMiss, Asks, Snapshot, Traced, NextTurn
<1>5. ASSUME NEW a \in Agents, NEW f \in Files, ReplaceFailed(a, f)
      PROVE WindowsRaced'
  BY <1>5 DEF ReplaceFailed, Asks, Snapshot, Traced, Fail, Conclude
<1>6. ASSUME NEW a \in Agents, NEW f \in Files, ReplaceRead(a, f)
      PROVE WindowsRaced'
  BY <1>6 DEF ReplaceRead, Asks, Snapshot
<1>7. ASSUME NEW a \in Agents, ReplaceSwap(a)
      PROVE WindowsRaced'
  BY <1>7 DEF ReplaceSwap, Traced, Advance, Conclude, NextTurn
<1>8. ASSUME NEW a \in Agents, NEW f \in Files, UndoSkip(a, f)
      PROVE WindowsRaced'
  BY <1>8 DEF UndoSkip
<1>9. ASSUME NEW a \in Agents, NEW f \in Files, UndoRead(a, f)
      PROVE WindowsRaced'
  BY <1>9 DEF UndoRead
<1>10. ASSUME NEW a \in Agents, UndoWrite(a)
      PROVE WindowsRaced'
  BY <1>10 DEF UndoWrite
<1>11. ASSUME NEW a \in Agents, UndoDone(a)
      PROVE WindowsRaced'
  BY <1>11 DEF UndoDone
<1>12. ASSUME NEW a \in Agents, Close(a)
      PROVE WindowsRaced'
  BY <1>12 DEF Close
<1>13. ASSUME NEW f \in Files, NEW who \in {"editor", "bytes"}, EditorSave(f, who)
      PROVE WindowsRaced'
  BY <1>13 DEF EditorSave, InWindow
<1>14. ASSUME NEW f \in Files, EditorDelete(f)
      PROVE WindowsRaced'
  BY <1>14 DEF EditorDelete
<1>15. CASE Crash \/ UNCHANGED vars
  BY <1>15 DEF Crash, vars
<1> HIDE DEF Inv, WindowsRaced
<1>16. QED
  BY <1>1, <1>2, <1>3, <1>4, <1>5, <1>6, <1>7, <1>8, <1>9, <1>10, <1>11, <1>12,
     <1>13, <1>14, <1>15
     DEF Next, Work, Turn, Editor

(* The first successful replacement starts from the snapshot.              *)
LEMMA LastStep == Inv /\ [Next]_vars => LastFromOriginal'
<1> SUFFICES ASSUME Inv, [Next]_vars PROVE LastFromOriginal'
  OBVIOUS
<1> USE DEF Inv, LastFromOriginal, TypeOK, WindowsRaced, SnapshotsKept, Decoded
<1>1. ASSUME NEW a \in Agents, Begin(a) \/ RunTests(a) \/ Patch(a)
      PROVE LastFromOriginal'
  BY <1>1 DEF Begin, RunTests, Asks, Patch
<1>2. ASSUME NEW a \in Agents, Turn(a)
      PROVE LastFromOriginal'
  BY <1>2, TurnFlow DEF Flow
<1>3. ASSUME NEW a \in Agents, NEW f \in Files, InspectFile(a, f)
      PROVE LastFromOriginal'
  BY <1>3 DEF InspectFile, Asks, Traced, Advance, Conclude, NextTurn
<1>4. ASSUME NEW a \in Agents, NEW f \in Files, ReplaceMiss(a, f)
      PROVE LastFromOriginal'
  BY <1>4 DEF ReplaceMiss, Asks, Snapshot, Traced, NextTurn
<1>5. ASSUME NEW a \in Agents, NEW f \in Files, ReplaceFailed(a, f)
      PROVE LastFromOriginal'
  BY <1>5 DEF ReplaceFailed, Asks, Snapshot, Traced, Fail, Conclude
<1>6. ASSUME NEW a \in Agents, NEW f \in Files, ReplaceRead(a, f)
      PROVE LastFromOriginal'
  BY <1>6 DEF ReplaceRead, Asks, Snapshot
<1>7. ASSUME NEW a \in Agents, ReplaceSwap(a)
      PROVE LastFromOriginal'
  BY <1>7 DEF ReplaceSwap, Traced, Advance, Conclude, NextTurn
<1>8. ASSUME NEW a \in Agents, NEW f \in Files, UndoSkip(a, f)
      PROVE LastFromOriginal'
  BY <1>8 DEF UndoSkip
<1>9. ASSUME NEW a \in Agents, NEW f \in Files, UndoRead(a, f)
      PROVE LastFromOriginal'
  BY <1>9 DEF UndoRead
<1>10. ASSUME NEW a \in Agents, UndoWrite(a)
      PROVE LastFromOriginal'
  BY <1>10 DEF UndoWrite
<1>11. ASSUME NEW a \in Agents, UndoDone(a)
      PROVE LastFromOriginal'
  BY <1>11 DEF UndoDone
<1>12. ASSUME NEW a \in Agents, Close(a)
      PROVE LastFromOriginal'
  BY <1>12 DEF Close
<1>13. ASSUME NEW f \in Files, NEW who \in {"editor", "bytes"}, EditorSave(f, who)
      PROVE LastFromOriginal'
  BY <1>13 DEF EditorSave, InWindow
<1>14. ASSUME NEW f \in Files, EditorDelete(f)
      PROVE LastFromOriginal'
  BY <1>14 DEF EditorDelete
<1>15. CASE Crash \/ UNCHANGED vars
  BY <1>15 DEF Crash, vars
<1> HIDE DEF Inv, LastFromOriginal
<1>16. QED
  BY <1>1, <1>2, <1>3, <1>4, <1>5, <1>6, <1>7, <1>8, <1>9, <1>10, <1>11, <1>12,
     <1>13, <1>14, <1>15
     DEF Next, Work, Turn, Editor

-----------------------------------------------------------------------------
(* Every step keeps it.                                                    *)
LEMMA StepInv == Inv /\ [Next]_vars => Inv'
BY TypesStep, ExclusiveStep, SnapshotsStep, ConfinedStep, ProgressStep,
   TraceStep, WindowsStep, LastStep DEF Inv

(* Every reachable state satisfies the inductive invariant, whatever the   *)
(* number of jobs, files and editors and whatever the limits.              *)
THEOREM InvHolds == Spec => []Inv
BY InitInv, StepInv, PTL DEF Spec

(* The type invariant of the workspace and of the loop's local variables.  *)
THEOREM TypesHold == Spec => []TypeOK
<1>1. Inv => TypeOK
  BY DEF Inv
<1>2. QED
  BY <1>1, InvHolds, PTL

(* _rollback_coding_mutations always finds the original of a changed file. *)
THEOREM NeverBlind == Spec => []RollbackNeverBlind
<1>1. Inv => RollbackNeverBlind
  BY DEF Inv, SnapshotsKept, RollbackNeverBlind
<1>2. QED
  BY <1>1, InvHolds, PTL

(* A rollback that reports success has removed every edit of the job, in   *)
(* files it changed repeatedly too, with other jobs and editors at work.   *)
THEOREM Undone == Spec => []FailedJobUndone
<1>1. Inv => FailedJobUndone
  BY DEF Inv, EditsConfined, RollbackProgress, FailedJobUndone
<1>2. QED
  BY <1>1, InvHolds, PTL

(* A trace without a successful mutation belongs to a job that left no     *)
(* edit anywhere, so that its request can be given to another model.       *)
THEOREM ReadOnly == Spec => []ReadOnlyUntouched
<1>1. Inv => ReadOnlyUntouched
  BY DEF Inv, EditsConfined, TraceTells, SideEffectState, ReadOnlyUntouched
<1>2. QED
  BY <1>1, InvHolds, PTL

(* An edit is lost in the four named ways only: saved inside a read -      *)
(* os.replace window, rolled back by its own job, rolled back by a job     *)
(* that changed the file repeatedly, or a change of bytes that read_text   *)
(* does not keep.                                                          *)
THEOREM LossesAreNamed == Spec => LossesNamed
<1>1. ASSUME Inv, [Next]_vars, NEW i \in Files,
             NEW e \in content[i] \ content'[i]
      PROVE LostEdit(i, e)
  <2> USE <1>1 DEF Inv, TypeOK, LostEdit, SnapshotsKept, WindowsRaced,
                   LastFromOriginal
  <2>1. ASSUME NEW a \in Agents, ReplaceSwap(a)
        PROVE LostEdit(i, e)
    <3>1. /\ phase[a] = "swap"
          /\ content' = [content EXCEPT ![target[a]] =
                           seen[a][target[a]] \cup {<<a, applied[a] + 1>>}]
      BY <2>1 DEF ReplaceSwap
    <3>2. i = target[a] /\ e \notin seen[a][i]
      BY <3>1
    <3>3. e \in raced \/ e[1] = "bytes"
      BY <3>1, <3>2 DEF Decoded
    <3>4. QED
      BY <3>1, <3>2, <3>3
  <2>2. ASSUME NEW a \in Agents, UndoWrite(a)
        PROVE LostEdit(i, e)
    <3>1. /\ phase[a] = "restore"
          /\ content' = [content EXCEPT ![target[a]] = original[a][target[a]]]
      BY <2>2 DEF UndoWrite
    <3>2. i = target[a] /\ e \notin original[a][i]
      BY <3>1
    <3>3. i \in mutated[a] /\ (e \in last[a][i] \/ e \in raced)
      BY <3>1, <3>2
    <3>4. QED
      BY <3>1, <3>2, <3>3
  <2>3. ASSUME NEW f \in Files, NEW who \in {"editor", "bytes"}, EditorSave(f, who)
        PROVE content[i] \subseteq content'[i]
    BY <2>3 DEF EditorSave
  <2>4. ASSUME NEW f \in Files, EditorDelete(f)
        PROVE UNCHANGED content
    BY <2>4 DEF EditorDelete
  <2>5. ASSUME NEW a \in Agents,
               \/ Begin(a) \/ Patch(a) \/ Turn(a) \/ RunTests(a)
               \/ UndoDone(a) \/ Close(a)
        PROVE UNCHANGED content
    BY <2>5, TurnFlow DEF Begin, Patch, RunTests, UndoDone, Close
  <2>6. ASSUME NEW a \in Agents, NEW f \in Files,
               \/ InspectFile(a, f) \/ ReplaceMiss(a, f) \/ ReplaceFailed(a, f)
               \/ ReplaceRead(a, f) \/ UndoSkip(a, f) \/ UndoRead(a, f)
        PROVE UNCHANGED content
    BY <2>6 DEF InspectFile, ReplaceMiss, ReplaceFailed, ReplaceRead, UndoSkip,
                UndoRead
  <2>7. CASE Crash \/ UNCHANGED vars
    BY <2>7 DEF Crash, vars
  <2> HIDE DEF Inv, TypeOK, LostEdit
  <2>8. QED
    BY <1>1, <2>1, <2>2, <2>3, <2>4, <2>5, <2>6, <2>7
       DEF Next, Work, Turn, Editor
<1>2. Inv /\ [Next]_vars
        => [\A f \in Files : \A e \in content[f] \ content'[f] :
              LostEdit(f, e)]_vars
  BY <1>1
<1>3. QED
  BY <1>2, InvHolds, PTL DEF Spec, LossesNamed

-----------------------------------------------------------------------------
(* A window still holds what the job read when it opened it.               *)
WindowsCover ==
  \A a \in Agents :
    /\ phase[a] = "swap" => seen[a][target[a]] \subseteq content[target[a]]
    /\ phase[a] = "restore" => last[a][target[a]] \subseteq content[target[a]]

(* What a job that changed a file once wrote still holds the text of its   *)
(* snapshot.                                                               *)
LastCovers ==
  \A a \in Agents : \A f \in mutated[a] \ twice[a] :
    Decoded(original[a][f]) \subseteq last[a][f]

(* A step that leaves the contents alone, opens no window on a file it has *)
(* not just read, and reports no rollback that is not done.                *)
Quiet ==
  /\ content' = content /\ mutated' = mutated /\ twice' = twice /\ last' = last
  /\ \A a \in Agents :
       /\ phase'[a] = "done" => /\ phase[a] \in {"close", "done"}
                                /\ rollback'[a] = rollback[a]
       /\ \/ phase[a] = phase'[a] /\ target'[a] = target[a] /\ seen'[a] = seen[a]
          \/ phase'[a] \notin {"swap", "restore"}
          \/ /\ phase'[a] = "swap" /\ seen'[a] = seen[a]
             /\ Decoded(content[target'[a]]) = seen[a][target'[a]]
          \/ phase'[a] = "restore" /\ content[target'[a]] = last[a][target'[a]]
       /\ \A f \in mutated[a] : original'[a][f] = original[a][f]

(* All steps but those that write a file are.                              *)
LEMMA QuietSteps ==
  ASSUME Inv, [Next]_vars
  PROVE  \/ Quiet
         \/ \E b \in Agents : ReplaceSwap(b) \/ UndoWrite(b)
         \/ \E f \in Files, who \in {"editor", "bytes"} : EditorSave(f, who)
<1> USE DEF Inv, TypeOK, SnapshotsKept, Quiet
<1>1. ASSUME NEW a \in Agents, Begin(a) \/ RunTests(a) \/ Patch(a)
      PROVE Quiet
  BY <1>1 DEF Begin, RunTests, Asks, Patch
<1>2. ASSUME NEW a \in Agents, Turn(a)
      PROVE Quiet
  <2>1. Flow(a, mutated[a]) /\ UNCHANGED <<disk, target, memory, ghosts>>
        /\ phase[a] \in {"ask", "testing"}
    BY <1>2, TurnFlow
  <2>2. CASE phase' = [phase EXCEPT ![a] = "ask"] /\ UNCHANGED <<verdict, todo, rollback>>
    BY <2>1, <2>2
  <2>3. CASE phase' = [phase EXCEPT ![a] = "close"] /\ UNCHANGED rollback
    BY <2>1, <2>3
  <2>4. CASE /\ phase' = [phase EXCEPT ![a] = "undo"]
             /\ rollback' = [rollback EXCEPT ![a] = "succeeded"]
    BY <2>1, <2>4
  <2>5. QED
    BY <2>1, <2>2, <2>3, <2>4 DEF Flow
<1>3. ASSUME NEW a \in Agents, NEW f \in Files, InspectFile(a, f)
      PROVE Quiet
  <2>1. Flow(a, mutated[a])
    BY <1>3, AdvanceFlow DEF InspectFile
  <2>2. /\ UNCHANGED <<content, mutated, twice, last, target, original>> /\ phase[a] = "ask"
        /\ \A b \in Agents \ {a} : seen'[b] = seen[b]
    BY <1>3 DEF InspectFile, Asks
  <2>3. /\ phase'[a] \in {"ask", "undo", "close"}
        /\ \A b \in Agents \ {a} : phase'[b] = phase[b] /\ rollback'[b] = rollback[b]
    BY <2>1 DEF Flow
  <2>4. QED
    BY <2>2, <2>3
<1>4. ASSUME NEW a \in Agents, NEW f \in Files, ReplaceMiss(a, f)
      PROVE Quiet
  BY <1>4 DEF ReplaceMiss, Asks, Snapshot, Traced, NextTurn
<1>5. ASSUME NEW a \in Agents, NEW f \in Files, ReplaceFailed(a, f)
      PROVE Quiet
  <2>1. Flow(a, mutated[a])
    BY <1>5, AdvanceFlow DEF ReplaceFailed, Fail
  <2>2. /\ UNCHANGED <<content, mutated, twice, last, target, seen>> /\ phase[a] = "ask"
        /\ \A b \in Agents : \A g \in mutated[b] : original'[b][g] = original[b][g]
    BY <1>5 DEF ReplaceFailed, Asks, Snapshot
  <2>3. /\ phase'[a] \in {"ask", "undo", "close"}
        /\ \A b \in Agents \ {a} : phase'[b] = phase[b] /\ rollback'[b] = rollback[b]
    BY <2>1 DEF Flow
  <2>4. QED
    BY <2>2, <2>3
<1>6. ASSUME NEW a \in Agents, NEW f \in Files, ReplaceRead(a, f)
      PROVE Quiet
  BY <1>6 DEF ReplaceRead, Asks, Snapshot
<1>7. ASSUME NEW a \in Agents, NEW f \in Files, UndoSkip(a, f)
      PROVE Quiet
  BY <1>7 DEF UndoSkip
<1>8. ASSUME NEW a \in Agents, NEW f \in Files, UndoRead(a, f)
      PROVE Quiet
  BY <1>8 DEF UndoRead
<1>9. ASSUME NEW a \in Agents, UndoDone(a) \/ Close(a)
      PROVE Quiet
  BY <1>9 DEF UndoDone, Close
<1>10. ASSUME NEW f \in Files, EditorDelete(f)
       PROVE Quiet
  BY <1>10 DEF EditorDelete
<1>11. CASE Crash \/ UNCHANGED vars
  BY <1>11 DEF Crash, vars
<1> HIDE DEF Inv, TypeOK, SnapshotsKept, Quiet
<1>12. ASSUME NEW a \in Agents, Work(a)
       PROVE  Quiet \/ ReplaceSwap(a) \/ UndoWrite(a)
  BY <1>1, <1>2, <1>3, <1>4, <1>5, <1>6, <1>7, <1>8, <1>9, <1>12, Zenon DEF Work, Turn
<1>13. ASSUME NEW a \in Agents, Begin(a) \/ Work(a) \/ Patch(a)
       PROVE  Quiet \/ ReplaceSwap(a) \/ UndoWrite(a)
  BY <1>1, <1>12, <1>13
<1>14. CASE Editor
  BY <1>10, <1>14, Zenon DEF Editor
<1>15. QED
  BY <1>11, <1>13, <1>14, Zenon DEF Next

(* One job writes at a time, and an editor only adds to a file.            *)
LEMMA CoverStep ==
  ASSUME Inv, WindowsCover, LastCovers, [Next]_vars
  PROVE  WindowsCover' /\ LastCovers'
<1> USE DEF Inv, TypeOK, WindowsCover, LastCovers
<1>1. ASSUME NEW b \in Agents, ReplaceSwap(b)
      PROVE  WindowsCover' /\ LastCovers'
  <2>1. /\ phase[b] = "swap" /\ phase'[b] \in {"ask", "undo", "close"}
        /\ \A a \in Agents \ {b} : phase'[a] = phase[a]
    <3>1. Flow(b, mutated[b] \cup {target[b]})
      BY <1>1, AdvanceFlow DEF ReplaceSwap
    <3>2. QED
      BY <1>1, <3>1 DEF ReplaceSwap, Flow
  <2>2. WindowsCover'
    BY <2>1 DEF Exclusive, Atomic
  <2>3. target[b] \notin mutated[b] => Decoded(original[b][target[b]]) = seen[b][target[b]]
    BY <2>1 DEF WindowsRaced
  <2>4. LastCovers'
    BY <1>1, <2>3 DEF ReplaceSwap
  <2>5. QED
    BY <2>2, <2>4
<1>2. ASSUME NEW b \in Agents, UndoWrite(b)
      PROVE  WindowsCover' /\ LastCovers'
  <2>1. /\ phase[b] = "restore" /\ phase'[b] = "undo"
        /\ \A a \in Agents \ {b} : phase'[a] = phase[a]
        /\ UNCHANGED <<mutated, original, last, twice>>
    BY <1>2 DEF UndoWrite
  <2>2. WindowsCover'
    BY <2>1 DEF Exclusive, Atomic
  <2>3. QED
    BY <2>1, <2>2
<1>3. ASSUME NEW f \in Files, NEW who \in {"editor", "bytes"}, EditorSave(f, who)
      PROVE  WindowsCover' /\ LastCovers'
  BY <1>3 DEF EditorSave
<1>4. CASE Quiet
  <2>1. LastCovers'
    BY <1>4 DEF Quiet
  <2>2. ASSUME NEW a \in Agents
        PROVE  /\ phase'[a] = "swap" => seen'[a][target'[a]] \subseteq content'[target'[a]]
               /\ phase'[a] = "restore" => last'[a][target'[a]] \subseteq content'[target'[a]]
    <3>1. \/ phase[a] = phase'[a] /\ target'[a] = target[a] /\ seen'[a] = seen[a]
          \/ phase'[a] \notin {"swap", "restore"}
          \/ /\ phase'[a] = "swap" /\ seen'[a] = seen[a]
             /\ Decoded(content[target'[a]]) = seen[a][target'[a]]
          \/ phase'[a] = "restore" /\ content[target'[a]] = last[a][target'[a]]
      BY <1>4 DEF Quiet
    <3>2. content' = content /\ last' = last
      BY <1>4 DEF Quiet
    <3>3. \A g : Decoded(content[g]) \subseteq content[g]
      BY DEF Decoded
    <3>4. QED
      BY <3>1, <3>2, <3>3
  <2>3. WindowsCover'
    BY <2>2
  <2>4. QED
    BY <2>1, <2>3
<1> HIDE DEF Inv, TypeOK, WindowsCover, LastCovers
<1>5. QED
  BY <1>1, <1>2, <1>3, <1>4, QuietSteps, Zenon

(* No job writes an edit of a job that was undone, but for the rollback of *)
(* a file replaced repeatedly.                                             *)
LEMMA UndoneStep ==
  ASSUME Inv, WindowsCover, LastCovers, UndoneStaysUndone, [Next]_vars
  PROVE  UndoneStaysUndone'
<1> USE DEF Inv, TypeOK, WindowsCover, LastCovers
<1>1. SUFFICES ASSUME NEW a \in Agents, NEW f \in Files,
                      phase'[a] = "done", rollback'[a] = "succeeded",
                      HasEditOf(a, content'[f])
               PROVE  \E b \in Agents : f \in twice'[b]
  BY DEF UndoneStaysUndone
<1>2. ASSUME NEW b \in Agents, ReplaceSwap(b)
      PROVE  \E c \in Agents : f \in twice'[c]
  <2>1. /\ phase[b] = "swap" /\ phase'[b] # "done"
        /\ \A c \in Agents \ {b} : phase'[c] = phase[c] /\ rollback'[c] = rollback[c]
    <3>1. Flow(b, mutated[b] \cup {target[b]})
      BY <1>2, AdvanceFlow DEF ReplaceSwap
    <3>2. QED
      BY <1>2, <3>1 DEF ReplaceSwap, Flow
  <2>2. a # b /\ phase[a] = "done" /\ rollback[a] = "succeeded"
    BY <1>1, <2>1
  <2>3. /\ content' = [content EXCEPT ![target[b]] =
                         seen[b][target[b]] \cup {<<b, applied[b] + 1>>}]
        /\ \A c \in Agents : twice[c] \subseteq twice'[c]
    BY <1>2 DEF ReplaceSwap
  <2>4. HasEditOf(a, content[f])
    BY <1>1, <2>1, <2>2, <2>3 DEF HasEditOf
  <2>5. QED
    BY <2>2, <2>3, <2>4 DEF UndoneStaysUndone
<1>3. ASSUME NEW b \in Agents, UndoWrite(b)
      PROVE  \E c \in Agents : f \in twice'[c]
  <2>1. /\ phase[b] = "restore" /\ phase'[b] = "undo"
        /\ \A c \in Agents \ {b} : phase'[c] = phase[c]
        /\ rollback' = rollback /\ twice' = twice
        /\ content' = [content EXCEPT ![target[b]] = original[b][target[b]]]
    BY <1>3 DEF UndoWrite
  <2>2. phase[a] = "done" /\ rollback[a] = "succeeded"
    BY <1>1, <2>1
  <2>3. target[b] \in mutated[b]
    BY <2>1 DEF SnapshotsKept
  <2>4. CASE f = target[b] /\ f \notin twice[b]
    <3>1. Decoded(original[b][f]) \subseteq content[f]
      BY <2>1, <2>3, <2>4
    <3>2. HasEditOf(a, content[f])
      BY <1>1, <2>1, <2>4, <3>1 DEF HasEditOf, Decoded
    <3>3. QED
      BY <2>1, <2>2, <3>2 DEF UndoneStaysUndone
  <2>5. CASE f # target[b]
    BY <1>1, <2>1, <2>2, <2>5 DEF UndoneStaysUndone
  <2>6. QED
    BY <2>1, <2>4, <2>5
<1>4. ASSUME NEW g \in Files, NEW who \in {"editor", "bytes"}, EditorSave(g, who)
      PROVE  \E c \in Agents : f \in twice'[c]
  <2>1. /\ UNCHANGED <<phase, rollback, twice>>
        /\ content' = [content EXCEPT ![g] = @ \cup {<<who, editorOps + 1>>}]
    BY <1>4 DEF EditorSave
  <2>2. HasEditOf(a, content[f])
    BY <1>1, <2>1 DEF HasEditOf
  <2>3. QED
    BY <1>1, <2>1, <2>2 DEF UndoneStaysUndone
<1>5. ASSUME content' = content, twice' = twice, phase[a] \in {"close", "done"},
             rollback'[a] = rollback[a]
      PROVE  \E c \in Agents : f \in twice'[c]
  <2>1. CASE phase[a] = "close"
    BY <1>1, <1>5, <2>1 DEF EditsConfined, RollbackProgress
  <2>2. CASE phase[a] = "done"
    BY <1>1, <1>5, <2>2 DEF UndoneStaysUndone
  <2>3. QED
    BY <1>5, <2>1, <2>2
<1>6. CASE Quiet
  BY <1>1, <1>5, <1>6 DEF Quiet
<1>7. QED
  BY <1>2, <1>3, <1>4, <1>6, QuietSteps

(* What a rollback that reports success has undone stays undone after the  *)
(* job is over, whatever other jobs, their rollbacks and editors do, but   *)
(* for a rollback over a file replaced repeatedly.                         *)
THEOREM UndoneForGood == Spec => []UndoneStaysUndone
<1>1. Init => WindowsCover /\ LastCovers /\ UndoneStaysUndone
  BY DEF Init, WindowsCover, LastCovers, UndoneStaysUndone
<1>2. Inv /\ WindowsCover /\ LastCovers /\ UndoneStaysUndone /\ [Next]_vars
        => (WindowsCover /\ LastCovers /\ UndoneStaysUndone)'
  BY CoverStep, UndoneStep
<1>3. QED
  BY <1>1, <1>2, InvHolds, PTL DEF Spec
=============================================================================
