---------------------------- MODULE CodingAgent ----------------------------
(***************************************************************************)
(* DelegationService.delegate_agent for the coding role                    *)
(* (virtizai_core/orchestration.py) with the file operations of            *)
(* DevelopmentToolsExecutor (virtizai_core/dev_tools.py): several          *)
(* delegated jobs and people with editors work on one workspace.           *)
(*                                                                         *)
(* A file's content is the set of edits that are in it.  read_text keeps   *)
(* of them what survives decoding and newline translation; the revision, a *)
(* hash of a text or of bytes, is the text or the content itself.  Edits   *)
(* by "bytes" are what it drops: line endings other than \n and bytes that *)
(* are not UTF-8, there from the start or saved by an editor.              *)
(*                                                                         *)
(* The jobs share one event loop and give it up only at an inference and   *)
(* while tests run; an editor may write at any moment, also inside the     *)
(* read - os.replace windows of a replacement and of a rollback ("swap"    *)
(* and "restore" below).                                                   *)
(*                                                                         *)
(* Abstracted: what the model says beyond the tool it calls, texts and     *)
(* line ranges (old_text matches once, or it does not) and file modes.  A  *)
(* PATCH settles the job as cancelled; its other outcomes are alike here.  *)
(***************************************************************************)
EXTENDS Naturals, FiniteSets

CONSTANTS
  Agents,          \* delegated coding jobs
  Files,           \* paths under the allowed roots
  RawFiles,        \* those whose bytes read_text does not keep
  InferenceLimit,  \* CODING_AGENT_INFERENCE_LIMIT, 10 in the code
  MaxMutations,    \* successful replacements per job, 2 in the code
  InspectBefore,   \* inspections offered before the first replacement, 4
  InspectAfter,    \* inspections offered after a replacement, 2
  Indexed,         \* _coding_file_index found files to put in the prompt
  MaxEditor        \* bound: operations of the editors

ASSUME LimitsAssumption ==
  /\ InferenceLimit \in Nat \ {0}
  /\ MaxMutations \in Nat \ {0}
  /\ InspectBefore \in Nat
  /\ InspectAfter \in Nat
  /\ MaxEditor \in Nat
  /\ Indexed \in BOOLEAN
ASSUME EditorAssumption == "editor" \notin Agents /\ "bytes" \notin Agents
ASSUME FilesAssumption == Files # {} /\ RawFiles \subseteq Files

Edits == (Agents \cup {"editor", "bytes"}) \X Nat

(* read_text(encoding="utf-8", errors="replace") with universal newlines.  *)
Decoded(edits) == {e \in edits : e[1] # "bytes"}
Tools == {"list_files", "inspect_file", "replace_text", "run_tests"}

VARIABLES
  content,      \* content[f]: the edits in file f
  present,      \* the files that exist
  editorOps,    \* operations of the editors so far
  job,          \* job[a]: status column of the job's row
  phase,        \* phase[a]: where delegate_agent is
  target,       \* target[a]: the file a replacement or rollback works on
  step,         \* step[a]: the inference turn, from 1
  verdict,      \* verdict[a]: status of the ExecutionResult
  inspected,    \* inspected[a]: paths with an inspection that still counts
  seen,         \* seen[a][f]: revision of the last inspection, of the text
  snapped,      \* snapped[a]: keys of mutation_originals
  original,     \* original[a][f]: the bytes snapshot there
  mutated,      \* mutated[a]: mutated_paths
  last,         \* last[a][f]: mutation_last_revisions, of what was written
  recovery,     \* recovery[a]: mutation_recovery_required is set
  applied,      \* applied[a]: apply_count
  tested,       \* tested[a]: test_count
  looks,        \* looks[a]: inspections_since_mutation
  trace,        \* trace[a]: the <<operation, succeeded>> pairs traced
  todo,         \* todo[a]: mutated paths the rollback has not looked at
  rollback,     \* rollback[a]: status in the rollback diagnostic
  raced,        \* history: editor's edits made inside a window on the file
  twice         \* history: twice[a]: files a replaced text in repeatedly

disk == <<content, present>>
memory == <<inspected, seen, snapped, original, mutated, last>>
counters == <<recovery, applied, tested, looks, trace>>
undoing == <<todo, rollback>>
ghosts == <<raced, twice>>
vars == <<disk, editorOps, job, phase, target, step, verdict, memory,
          counters, undoing, ghosts>>

Phases == {"idle", "ask", "testing", "swap", "undo", "restore", "close",
           "done", "lost"}

TypeOK ==
  /\ content \in [Files -> SUBSET Edits]
  /\ present \subseteq Files
  /\ editorOps \in Nat
  /\ job \in [Agents ->
              {"absent", "running", "succeeded", "failed", "cancelled"}]
  /\ phase \in [Agents -> Phases]
  /\ target \in [Agents -> Files]
  /\ step \in [Agents -> Nat]
  /\ verdict \in [Agents -> {"none", "succeeded", "failed"}]
  /\ inspected \in [Agents -> SUBSET Files]
  /\ seen \in [Agents -> [Files -> SUBSET Edits]]
  /\ snapped \in [Agents -> SUBSET Files]
  /\ original \in [Agents -> [Files -> SUBSET Edits]]
  /\ mutated \in [Agents -> SUBSET Files]
  /\ last \in [Agents -> [Files -> SUBSET Edits]]
  /\ recovery \in [Agents -> BOOLEAN]
  /\ applied \in [Agents -> Nat]
  /\ tested \in [Agents -> Nat]
  /\ looks \in [Agents -> Nat]
  /\ trace \in [Agents -> SUBSET (Tools \X BOOLEAN)]
  /\ todo \in [Agents -> SUBSET Files]
  /\ rollback \in [Agents -> {"none", "succeeded", "failed"}]
  /\ raced \subseteq Edits
  /\ twice \in [Agents -> SUBSET Files]

Init ==
  /\ content = [f \in Files |-> IF f \in RawFiles THEN {<<"bytes", 0>>} ELSE {}]
  /\ present = Files
  /\ editorOps = 0
  /\ job = [a \in Agents |-> "absent"]
  /\ phase = [a \in Agents |-> "idle"]
  /\ target = [a \in Agents |-> CHOOSE f \in Files : TRUE]
  /\ step = [a \in Agents |-> 1]
  /\ verdict = [a \in Agents |-> "none"]
  /\ inspected = [a \in Agents |-> {}]
  /\ seen = [a \in Agents |-> [f \in Files |-> {}]]
  /\ snapped = [a \in Agents |-> {}]
  /\ original = [a \in Agents |-> [f \in Files |-> {}]]
  /\ mutated = [a \in Agents |-> {}]
  /\ last = [a \in Agents |-> [f \in Files |-> {}]]
  /\ recovery = [a \in Agents |-> FALSE]
  /\ applied = [a \in Agents |-> 0]
  /\ tested = [a \in Agents |-> 0]
  /\ looks = [a \in Agents |-> 0]
  /\ trace = [a \in Agents |-> {}]
  /\ todo = [a \in Agents |-> {}]
  /\ rollback = [a \in Agents |-> "none"]
  /\ raced = {}
  /\ twice = [a \in Agents |-> {}]

-----------------------------------------------------------------------------
(* Between two awaits a job has the event loop for itself.                 *)
LoopFree ==
  \A a \in Agents : phase[a] \notin {"swap", "undo", "restore", "close"}

(* The loop is over: a failed job that changed files rolls them back.      *)
Conclude(a, v, paths) ==
  /\ verdict' = [verdict EXCEPT ![a] = v]
  /\ phase' = [phase EXCEPT ![a] =
                 IF v = "failed" /\ paths # {} THEN "undo" ELSE "close"]
  /\ todo' = [todo EXCEPT ![a] = paths]
  /\ rollback' = [rollback EXCEPT ![a] =
                    IF v = "failed" /\ paths # {} THEN "succeeded" ELSE @]
  /\ UNCHANGED step

Fail(a) == Conclude(a, "failed", mutated[a])

NextTurn(a) ==
  /\ step' = [step EXCEPT ![a] = @ + 1]
  /\ phase' = [phase EXCEPT ![a] = "ask"]
  /\ UNCHANGED <<verdict, todo, rollback>>

(* After a successful operation the next inference, unless it was the last *)
(* one: then the budget is exhausted.                                      *)
Advance(a, paths) ==
  IF step[a] = InferenceLimit THEN Conclude(a, "failed", paths)
                              ELSE NextTurn(a)

Traced(a, op, ok) == trace' = [trace EXCEPT ![a] = @ \cup {<<op, ok>>}]

(* The tools offered to the next inference.                                *)
Offered(a) ==
  IF tested[a] > 0 THEN {} ELSE
    {t \in Tools :
       /\ t = "list_files" => ~Indexed
       /\ t = "run_tests" => applied[a] > 0
       /\ t = "replace_text" => applied[a] < MaxMutations
       /\ t = "inspect_file" =>
            /\ applied[a] < MaxMutations
            /\ looks[a] < IF applied[a] = 0 THEN InspectBefore
                                            ELSE InspectAfter}

(* The answer of providers.chat arrives and asks for tool t.               *)
Asks(a, t) == phase[a] = "ask" /\ LoopFree /\ t \in Offered(a)

-----------------------------------------------------------------------------
(* Mutant: the job is never moved to running.                              *)
BeginQueued(a) ==
  /\ phase[a] = "idle" /\ LoopFree
  /\ phase' = [phase EXCEPT ![a] = "ask"]
  /\ job' = [job EXCEPT ![a] = "queued"]
  /\ UNCHANGED <<disk, editorOps, target, step, verdict, memory, counters,
                 undoing, ghosts>>

(* create_delegated and transition to running.                             *)
Begin(a) ==
  /\ phase[a] = "idle" /\ LoopFree
  /\ phase' = [phase EXCEPT ![a] = "ask"]
  /\ job' = [job EXCEPT ![a] = "running"]
  /\ UNCHANGED <<disk, editorOps, target, step, verdict, memory, counters,
                 undoing, ghosts>>

(* A final answer without a tool call.                                     *)
Answer(a) ==
  /\ phase[a] = "ask" /\ LoopFree
  /\ IF trace[a] = {} \/ recovery[a]
       THEN Fail(a)
       ELSE Conclude(a, "succeeded", mutated[a])
  /\ UNCHANGED <<disk, editorOps, job, target, memory, counters, ghosts>>

(* The provider failed, or its answer is malformed, batches calls, asks    *)
(* for a tool that is not offered or passes arguments that are refused; or *)
(* the execution boundary raised.                                          *)
Break(a) ==
  /\ phase[a] = "ask" /\ LoopFree
  /\ Fail(a)
  /\ UNCHANGED <<disk, editorOps, job, target, memory, counters, ghosts>>

ListFiles(a) ==
  /\ Asks(a, "list_files")
  /\ \E ok \in BOOLEAN :
       /\ Traced(a, "list_files", ok)
       /\ IF ok THEN Advance(a, mutated[a]) ELSE Fail(a)
  /\ UNCHANGED <<disk, editorOps, job, target, memory, recovery, applied,
                 tested, looks, ghosts>>

InspectFile(a, f) ==
  /\ Asks(a, "inspect_file")
  /\ f \in present
  /\ inspected' = [inspected EXCEPT ![a] = @ \cup {f}]
  /\ seen' = [seen EXCEPT ![a][f] = Decoded(content[f])]
  /\ looks' = [looks EXCEPT ![a] = @ + 1]
  /\ Traced(a, "inspect_file", TRUE)
  /\ Advance(a, mutated[a])
  /\ UNCHANGED <<disk, editorOps, job, target, snapped, original, mutated,
                 last, recovery, applied, tested, ghosts>>

(* The path names no file: feedback for the model, unless it was the last  *)
(* turn.  Any other failure of the inspection ends the job.                *)
InspectMiss(a) ==
  /\ Asks(a, "inspect_file")
  /\ Traced(a, "inspect_file", FALSE)
  /\ \/ step[a] < InferenceLimit /\ NextTurn(a)
     \/ Fail(a)
  /\ UNCHANGED <<disk, editorOps, job, target, memory, recovery, applied,
                 tested, looks, ghosts>>

-----------------------------------------------------------------------------
(* replace_text is refused before it reaches the worker.                   *)
ReplaceRejected(a, f) ==
  /\ Asks(a, "replace_text")
  /\ f \notin inspected[a] \/ (f \notin snapped[a] /\ f \notin present)
  /\ Fail(a)
  /\ UNCHANGED <<disk, editorOps, job, target, memory, counters, ghosts>>

(* Mutant: every attempt snapshots the path again.                         *)
SnapshotAgain(a, f) ==
  /\ f \in inspected[a]
  /\ f \in snapped[a] \/ f \in present
  /\ original' = [original EXCEPT ![a][f] = content[f]]

(* The first attempt on a path snapshots it.                               *)
Snapshot(a, f) ==
  /\ f \in inspected[a]
  /\ f \in snapped[a] \/ f \in present
  /\ original' = IF f \in snapped[a] THEN original
                 ELSE [original EXCEPT ![a][f] = content[f]]

(* Mutant: a failed attempt drops the snapshot of a mutated path too.      *)
ReplaceMissForgets(a, f) ==
  /\ Asks(a, "replace_text")
  /\ f \in present
  /\ step[a] < InferenceLimit
  /\ Snapshot(a, f)
  /\ inspected' = IF Decoded(content[f]) # seen[a][f]
                  THEN [inspected EXCEPT ![a] = @ \ {f}] ELSE inspected
  /\ snapped' = [snapped EXCEPT ![a] = @ \ {f}]
  /\ recovery' = [recovery EXCEPT ![a] = TRUE]
  /\ Traced(a, "replace_text", FALSE)
  /\ NextTurn(a)
  /\ UNCHANGED <<disk, editorOps, job, target, seen, mutated, last, applied,
                 tested, looks, raced, twice>>

(* The worker refused the replacement: the revision is stale or old_text   *)
(* does not occur exactly once.  The model may try again.                  *)
ReplaceMiss(a, f) ==
  /\ Asks(a, "replace_text")
  /\ f \in present
  /\ step[a] < InferenceLimit
  /\ Snapshot(a, f)
  /\ inspected' = IF Decoded(content[f]) # seen[a][f]
                  THEN [inspected EXCEPT ![a] = @ \ {f}] ELSE inspected
  /\ snapped' = [snapped EXCEPT ![a] =
                   IF f \in mutated[a] THEN @ \cup {f} ELSE @ \ {f}]
  /\ recovery' = [recovery EXCEPT ![a] = TRUE]
  /\ Traced(a, "replace_text", FALSE)
  /\ NextTurn(a)
  /\ UNCHANGED <<disk, editorOps, job, target, seen, mutated, last, applied,
                 tested, looks, raced, twice>>

(* The worker failed in a way that ends the job: the file is gone or could *)
(* not be read or written, or the refusal came on the last turn.           *)
ReplaceFailed(a, f) ==
  /\ Asks(a, "replace_text")
  /\ Snapshot(a, f)
  /\ snapped' = [snapped EXCEPT ![a] = @ \cup {f}]
  /\ Traced(a, "replace_text", FALSE)
  /\ Fail(a)
  /\ UNCHANGED <<disk, editorOps, job, target, inspected, seen, mutated, last,
                 recovery, applied, tested, looks, raced, twice>>

(* Mutant: the expected revision is not compared.                          *)
ReplaceReadStale(a, f) ==
  /\ Asks(a, "replace_text")
  /\ Snapshot(a, f)
  /\ f \in present
  /\ snapped' = [snapped EXCEPT ![a] = @ \cup {f}]
  /\ target' = [target EXCEPT ![a] = f]
  /\ phase' = [phase EXCEPT ![a] = "swap"]
  /\ UNCHANGED <<disk, editorOps, job, step, verdict, inspected, seen,
                 mutated, last, counters, undoing, ghosts>>

(* The revision of the text matches and old_text occurs once: the new      *)
(* content is computed from the text read here.                            *)
ReplaceRead(a, f) ==
  /\ Asks(a, "replace_text")
  /\ Snapshot(a, f)
  /\ f \in present
  /\ Decoded(content[f]) = seen[a][f]
  /\ snapped' = [snapped EXCEPT ![a] = @ \cup {f}]
  /\ target' = [target EXCEPT ![a] = f]
  /\ phase' = [phase EXCEPT ![a] = "swap"]
  /\ UNCHANGED <<disk, editorOps, job, step, verdict, inspected, seen,
                 mutated, last, counters, undoing, ghosts>>

(* os.replace by the whole text with the replacement, and the bookkeeping  *)
(* of a success.                                                           *)
ReplaceSwap(a) ==
  LET f == target[a]
      updated == seen[a][f] \cup {<<a, applied[a] + 1>>}
  IN
  /\ phase[a] = "swap"
  /\ content' = [content EXCEPT ![f] = updated]
  /\ present' = present \cup {f}
  /\ applied' = [applied EXCEPT ![a] = @ + 1]
  /\ looks' = [looks EXCEPT ![a] = 0]
  /\ mutated' = [mutated EXCEPT ![a] = @ \cup {f}]
  /\ last' = [last EXCEPT ![a][f] = updated]
  /\ recovery' = [recovery EXCEPT ![a] = FALSE]
  /\ inspected' = [inspected EXCEPT ![a] = @ \ {f}]
  /\ Traced(a, "replace_text", TRUE)
  /\ twice' = [twice EXCEPT ![a] = IF f \in mutated[a] THEN @ \cup {f} ELSE @]
  /\ Advance(a, mutated[a] \cup {f})
  /\ UNCHANGED <<editorOps, job, target, seen, snapped, original, tested,
                 raced>>

-----------------------------------------------------------------------------
(* run_tests starts a subprocess and awaits it.                            *)
RunTests(a) ==
  /\ Asks(a, "run_tests")
  /\ phase' = [phase EXCEPT ![a] = "testing"]
  /\ UNCHANGED <<disk, editorOps, job, target, step, verdict, memory,
                 counters, undoing, ghosts>>

(* It passed, failed or timed out.                                         *)
TestsDone(a) ==
  /\ phase[a] = "testing" /\ LoopFree
  /\ \E ok \in BOOLEAN :
       /\ Traced(a, "run_tests", ok)
       /\ IF ok THEN /\ tested' = [tested EXCEPT ![a] = @ + 1]
                     /\ Advance(a, mutated[a])
                ELSE Fail(a) /\ UNCHANGED tested
  /\ UNCHANGED <<disk, editorOps, job, target, memory, recovery, applied,
                 looks, ghosts>>

-----------------------------------------------------------------------------
(* _rollback_coding_mutations leaves a path alone when the original is     *)
(* missing, the file is gone, its content is not what the job wrote last,  *)
(* or reading or writing fails, which can happen on any path.              *)
UndoSkip(a, f) ==
  /\ phase[a] = "undo" /\ f \in todo[a]
  /\ todo' = [todo EXCEPT ![a] = @ \ {f}]
  /\ rollback' = [rollback EXCEPT ![a] = "failed"]
  /\ UNCHANGED <<disk, editorOps, job, phase, target, step, verdict, memory,
                 counters, ghosts>>

(* Mutant: the rollback does not compare the file with its own last write. *)
UndoReadForeign(a, f) ==
  /\ phase[a] = "undo" /\ f \in todo[a]
  /\ f \in snapped[a] /\ f \in present
  /\ target' = [target EXCEPT ![a] = f]
  /\ phase' = [phase EXCEPT ![a] = "restore"]
  /\ UNCHANGED <<disk, editorOps, job, step, verdict, memory, counters,
                 undoing, ghosts>>

(* It restores the others: the comparison here, os.replace in UndoWrite.   *)
UndoRead(a, f) ==
  /\ phase[a] = "undo" /\ f \in todo[a]
  /\ f \in snapped[a] /\ f \in present /\ content[f] = last[a][f]
  /\ target' = [target EXCEPT ![a] = f]
  /\ phase' = [phase EXCEPT ![a] = "restore"]
  /\ UNCHANGED <<disk, editorOps, job, step, verdict, memory, counters,
                 undoing, ghosts>>

UndoWrite(a) ==
  LET f == target[a] IN
  /\ phase[a] = "restore"
  /\ content' = [content EXCEPT ![f] = original[a][f]]
  /\ present' = present \cup {f}
  /\ todo' = [todo EXCEPT ![a] = @ \ {f}]
  /\ phase' = [phase EXCEPT ![a] = "undo"]
  /\ UNCHANGED <<editorOps, job, target, step, verdict, memory, counters,
                 rollback, ghosts>>

UndoDone(a) ==
  /\ phase[a] = "undo" /\ todo[a] = {}
  /\ phase' = [phase EXCEPT ![a] = "close"]
  /\ UNCHANGED <<disk, editorOps, job, target, step, verdict, memory,
                 counters, undoing, ghosts>>

(* Mutant: a conflict in the rollback leaves before transition.            *)
CloseUnsettled(a) ==
  /\ phase[a] = "close"
  /\ phase' = [phase EXCEPT ![a] = "done"]
  /\ job' = [job EXCEPT ![a] = IF @ = "running" /\ rollback[a] # "failed"
                               THEN verdict[a] ELSE @]
  /\ UNCHANGED <<disk, editorOps, target, step, verdict, memory, counters,
                 undoing, ghosts>>

(* transition to the verdict; a row that a PATCH settled meanwhile keeps   *)
(* its status (the ValueError leaves delegate_agent).                      *)
Close(a) ==
  /\ phase[a] = "close"
  /\ phase' = [phase EXCEPT ![a] = "done"]
  /\ job' = [job EXCEPT ![a] = IF @ = "running" THEN verdict[a] ELSE @]
  /\ UNCHANGED <<disk, editorOps, target, step, verdict, memory, counters,
                 undoing, ghosts>>

-----------------------------------------------------------------------------
(* Mutant: a trace with a failed operation counts as free of mutations.    *)
SideEffectStateOfFailure(a) ==
  IF trace[a] = {} THEN "NO_TOOLS"
  ELSE IF \E op \in Tools : <<op, FALSE>> \in trace[a] THEN "READ_ONLY"
  ELSE IF <<"replace_text", TRUE>> \in trace[a] THEN "MUTATED"
  ELSE "READ_ONLY"

(* The classification of a finished job's trace that decides whether its   *)
(* request may be retried on another model.                                *)
SideEffectState(a) ==
  IF trace[a] = {} THEN "NO_TOOLS"
  ELSE IF <<"replace_text", TRUE>> \in trace[a] THEN "MUTATED"
  ELSE "READ_ONLY"

(* PATCH /v1/jobs/{id}/status.                                             *)
Patch(a) ==
  /\ LoopFree
  /\ job[a] = "running"
  /\ job' = [job EXCEPT ![a] = "cancelled"]
  /\ UNCHANGED <<disk, editorOps, phase, target, step, verdict, memory,
                 counters, undoing, ghosts>>

(* Somebody saves a change of a file's text or of its bytes only, or       *)
(* deletes it.                                                             *)
InWindow(f) ==
  \E a \in Agents : phase[a] \in {"swap", "restore"} /\ target[a] = f

EditorSave(f, who) ==
  LET e == <<who, editorOps + 1>> IN
  /\ editorOps < MaxEditor
  /\ f \in present
  /\ editorOps' = editorOps + 1
  /\ content' = [content EXCEPT ![f] = @ \cup {e}]
  /\ raced' = IF InWindow(f) THEN raced \cup {e} ELSE raced
  /\ UNCHANGED <<present, job, phase, target, step, verdict, memory, counters,
                 undoing, twice>>

EditorDelete(f) ==
  /\ editorOps < MaxEditor
  /\ f \in present
  /\ editorOps' = editorOps + 1
  /\ present' = present \ {f}
  /\ UNCHANGED <<content, job, phase, target, step, verdict, memory, counters,
                 undoing, ghosts>>

(* The program dies.  Nothing resumes a job or undoes its edits.           *)
Crash ==
  /\ \E a \in Agents : phase[a] \notin {"idle", "done", "lost"}
  /\ phase' = [a \in Agents |->
                 IF phase[a] \in {"idle", "done"} THEN phase[a] ELSE "lost"]
  /\ UNCHANGED <<disk, editorOps, job, target, step, verdict, memory,
                 counters, undoing, ghosts>>

-----------------------------------------------------------------------------
(* What the event loop, and the provider or test run it waits for, do for  *)
(* job a.                                                                  *)
Work(a) ==
  \/ Answer(a) \/ Break(a) \/ ListFiles(a) \/ InspectMiss(a)
  \/ \E f \in Files : \/ InspectFile(a, f) \/ ReplaceRejected(a, f)
                      \/ ReplaceMiss(a, f) \/ ReplaceFailed(a, f)
                      \/ ReplaceRead(a, f)
                      \/ UndoSkip(a, f) \/ UndoRead(a, f)
  \/ ReplaceSwap(a) \/ RunTests(a) \/ TestsDone(a)
  \/ UndoWrite(a) \/ UndoDone(a) \/ Close(a)

Editor ==
  \E f \in Files : \/ \E who \in {"editor", "bytes"} : EditorSave(f, who)
                  \/ EditorDelete(f)

Next ==
  \/ \E a \in Agents : Begin(a) \/ Work(a) \/ Patch(a)
  \/ Editor
  \/ Crash

Spec == Init /\ [][Next]_vars

(* An inference and a test run return or time out, and the event loop     *)
(* resumes every job in turn, as long as the program lives.                *)
FairSpec == Spec /\ \A a \in Agents : SF_vars(Work(a))

-----------------------------------------------------------------------------
HasEditOf(a, edits) == \E e \in edits : e[1] = a

(* The rollback never meets a path whose original is gone: snapshots taken *)
(* and dropped by failed replacements leave one for every mutated path.    *)
RollbackNeverBlind ==
  \A a \in Agents :
    phase[a] \in {"undo", "restore"} => todo[a] \subseteq snapped[a]

(* A job that is about to report a successful rollback has no edit left in *)
(* any file, its own second replacement of a file included.                *)
FailedJobUndone ==
  \A a \in Agents :
    phase[a] = "close" /\ rollback[a] = "succeeded"
      => \A f \in Files : ~HasEditOf(a, content[f])

(* It stays so after the job closed: another job's rollback brings the     *)
(* edits back only where that job replaced text in a file repeatedly.      *)
UndoneStaysUndone ==
  \A a \in Agents, f \in Files :
    phase[a] = "done" /\ rollback[a] = "succeeded" /\ HasEditOf(a, content[f])
      => \E b \in Agents : f \in twice[b]

(* A trace classified as free of mutations, on which a request is retried  *)
(* with another model, belongs to a job that left no edit anywhere.        *)
ReadOnlyUntouched ==
  \A a \in Agents :
    phase[a] \in {"close", "done"} /\ SideEffectState(a) # "MUTATED"
      => \A f \in Files : ~HasEditOf(a, content[f])

(* The ways an edit can disappear from a file, and there are no others: no *)
(* stale inspection or snapshot overwrites what others wrote.              *)
(*  - an editor saved it inside a read - os.replace window on the file;    *)
(*  - the job that made it rolls it back;                                  *)
(*  - a job that replaced text in the file repeatedly rolls back;          *)
(*  - it changed only bytes that read_text does not keep, and a job        *)
(*    replaces text elsewhere in the file.                                 *)
LostEdit(f, e) ==
  \/ e \in raced
  \/ \E a \in Agents :
       /\ target[a] = f
       /\ \/ phase[a] = "restore" /\ (e[1] = a \/ f \in twice[a])
          \/ phase[a] = "swap" /\ e[1] = "bytes"
LossesNamed ==
  [][\A f \in Files : \A e \in content[f] \ content'[f] : LostEdit(f, e)]_vars

(* Every job settles and returns within its inference budget while the     *)
(* program runs.                                                           *)
JobCloses ==
  \A a \in Agents :
    job[a] = "running"
      ~> phase[a] = "lost" \/ (phase[a] = "done" /\ job[a] # "running")
=============================================================================
