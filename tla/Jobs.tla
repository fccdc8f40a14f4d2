-------------------------------- MODULE Jobs --------------------------------
(***************************************************************************)
(* The life of a job: JobManager (virtizai_core/jobs.py), the tool jobs of *)
(* POST /v1/tools/run with the ExecutionManager's semaphore                *)
(* (virtizai_core/api.py, execution.py), and the two delegations that run  *)
(* one worker operation inside the request (orchestration.py).             *)
(*                                                                         *)
(* Everything runs on one asyncio event loop: an action is what the code   *)
(* does between two awaits.  SQLite is in autocommit mode, so a row        *)
(* survives a crash as soon as its statement ran; the places where a crash *)
(* can fall between two statements of one await-free stretch are separate  *)
(* actions whose intermediate states no request can observe.               *)
(*                                                                         *)
(* Abstracted: payloads, identifiers, timestamps, result documents (their  *)
(* status is kept) and the worker operation itself.                        *)
(***************************************************************************)
EXTENDS Naturals, FiniteSets

CONSTANTS
  Jobs,            \* job identifiers; each is used once
  Kinds,           \* the kinds of job that clients create
  MaxConcurrent    \* slots of ExecutionManager.semaphore (2 in the code)

ASSUME KindsAssumption ==
  Kinds \subseteq {"codex", "tool", "delegate", "managed", "created"}
ASSUME SlotsAssumption == MaxConcurrent \in Nat \ {0}

(* Kinds whose row is written by create_delegated and moved by transition; *)
(* nothing in the program runs a "created" job, only PATCH moves it.       *)
DelegatedKinds == {"delegate", "managed", "created"}
DelegationKinds == {"delegate", "managed"}

Open == {"queued", "running"}
Outcomes == {"succeeded", "failed", "cancelled"}
ToolOutcomes == {"success", "failed", "timeout", "permission_denied"}
Settled == Outcomes \cup ToolOutcomes

VARIABLES
  kind,        \* kind[j]: what created job j, "none" before that
  row,         \* row[j]: status column of the jobs table (durable)
  result,      \* result[j]: status inside result_json of a delegation (durable)
  reply,       \* reply[j]: status of the assistant message about j (durable)
  pc,          \* pc[j]: where the coroutine of j is suspended
  tasks,       \* keys of JobManager.tasks
  active,      \* ExecutionManager.active[j]: "outer" or "inner" task, or "none"
  holding,     \* tool jobs that hold a slot of the semaphore
  cancelling,  \* jobs whose task got cancel() and was not resumed since
  procs,       \* jobs whose operating system process is alive
  notice,      \* notice[j]: status in the last event given to the listeners
  mode,        \* "up", "draining" (the server stops), "idling" or "down"
  awaited,     \* the tasks wait_for_idle gathers, read once
  accepted,    \* history: cancel requests answered cancel_requested = true
  patched,     \* history: jobs moved by PATCH /v1/jobs/{id}/status
  late         \* history: jobs created after wait_for_idle read the tasks

closing == <<awaited, late>>
vars == <<kind, row, result, reply, pc, tasks, active, holding, cancelling,
          procs, notice, mode, accepted, patched, closing>>

(* "new": the row is inserted and the first step is next on the loop;      *)
(* "wait": at the semaphore; "exec": in the handler or worker operation;   *)
(* "noteTry" / "noteExc": inside _notify called from the try body or from  *)
(* an except clause of _run; "save", "reply": between two statements of a  *)
(* finished delegation; "stuck": the exception left the delegation;        *)
(* "end": returned; "lost": the process died under it.                     *)
PCs == {"none", "new", "wait", "exec", "noteTry", "noteExc", "save", "reply",
        "stuck", "end", "lost"}

TypeOK ==
  /\ kind \in [Jobs -> Kinds \cup {"none"}]
  /\ row \in [Jobs -> {"absent"} \cup Open \cup Settled]
  /\ result \in [Jobs -> {"none"} \cup Outcomes]
  /\ reply \in [Jobs -> {"none"} \cup Outcomes]
  /\ pc \in [Jobs -> PCs]
  /\ tasks \subseteq Jobs
  /\ active \in [Jobs -> {"none", "outer", "inner"}]
  /\ holding \subseteq Jobs
  /\ cancelling \subseteq Jobs
  /\ procs \subseteq Jobs
  /\ notice \in [Jobs -> {"none"} \cup Outcomes]
  /\ mode \in {"up", "draining", "idling", "down"}
  /\ awaited \subseteq Jobs
  /\ accepted \subseteq Jobs
  /\ patched \subseteq Jobs
  /\ late \subseteq Jobs

Init ==
  /\ kind = [j \in Jobs |-> "none"]
  /\ row = [j \in Jobs |-> "absent"]
  /\ result = [j \in Jobs |-> "none"]
  /\ reply = [j \in Jobs |-> "none"]
  /\ pc = [j \in Jobs |-> "none"]
  /\ tasks = {}
  /\ active = [j \in Jobs |-> "none"]
  /\ holding = {}
  /\ cancelling = {}
  /\ procs = {}
  /\ notice = [j \in Jobs |-> "none"]
  /\ mode = "up"
  /\ awaited = {}
  /\ accepted = {}
  /\ patched = {}
  /\ late = {}

Running == mode # "down"

(* Requests are answered, the open ones also while the server stops.       *)
Serving == mode \in {"up", "draining"}

(* Kinds of job that the handling of a Discord message creates.  Stopping  *)
(* the gateway does not end the handlers of messages that have arrived.    *)
MessageKinds == {"codex", "delegate", "managed"}

-----------------------------------------------------------------------------
(* The bounded state machine of JobManager.transition.                     *)
Allowed(from) ==
  CASE from = "queued"  -> {"running", "cancelled"}
    [] from = "running" -> Outcomes
    [] OTHER            -> {}

(* A client creates a job: JobManager.submit, POST /v1/tools/run,          *)
(* create_delegated.  The insert is the first durable statement.           *)
Accept(j, k) ==
  /\ Serving \/ (mode = "idling" /\ k \in MessageKinds)
  /\ kind[j] = "none"
  /\ kind' = [kind EXCEPT ![j] = k]
  /\ row' = [row EXCEPT ![j] = "queued"]
  /\ pc' = [pc EXCEPT ![j] = IF k = "created" THEN "none" ELSE "new"]
  /\ tasks' = IF k = "codex" THEN tasks \cup {j} ELSE tasks
  /\ active' = IF k = "tool" THEN [active EXCEPT ![j] = "outer"] ELSE active
  /\ late' = IF mode = "idling" THEN late \cup {j} ELSE late
  /\ UNCHANGED <<result, reply, holding, cancelling, procs, notice, mode,
                 accepted, patched, awaited>>

-----------------------------------------------------------------------------
(* JobManager._run up to the first await of the Codex handler.             *)
RunBegin(j) ==
  /\ Running /\ kind[j] = "codex" /\ pc[j] = "new"
  /\ row' = [row EXCEPT ![j] = "running"]
  /\ pc' = [pc EXCEPT ![j] = "exec"]
  /\ procs' = procs \cup {j}
  /\ UNCHANGED <<kind, result, reply, tasks, active, holding, cancelling,
                 notice, mode, accepted, patched, closing>>

(* The handler answered (its process ended, or its timeout killed the      *)
(* process) and the final status is written and announced.  A handler      *)
(* status other than "succeeded" is a failed job; an exception is          *)
(* announced from the except clause.                                       *)
RunFinish(j, s, at) ==
  /\ Running /\ kind[j] = "codex" /\ pc[j] = "exec" /\ j \notin cancelling
  /\ \/ s = "succeeded" /\ at = "noteTry" /\ j \notin procs
     \/ s = "failed"
  /\ row' = [row EXCEPT ![j] = s]
  /\ notice' = [notice EXCEPT ![j] = s]
  /\ pc' = [pc EXCEPT ![j] = at]
  /\ procs' = procs \ {j}
  /\ UNCHANGED <<kind, result, reply, tasks, active, holding, cancelling,
                 mode, accepted, patched, closing>>

(* Mutants: the listeners are told the status before it is written, are    *)
(* not told at all, or the generic except clause catches the cancel.       *)
RunCancelledNotifiesFirst(j) ==
  /\ Running /\ kind[j] = "codex" /\ j \in cancelling
  /\ pc[j] \in {"exec", "noteTry"}
  /\ row' = [row EXCEPT ![j] = "cancelled"]
  /\ notice' = [notice EXCEPT ![j] = row[j]]
  /\ pc' = [pc EXCEPT ![j] = "noteExc"]
  /\ cancelling' = cancelling \ {j}
  /\ UNCHANGED <<kind, result, reply, tasks, active, holding, procs, mode,
                 accepted, patched, closing>>

RunCancelledSilent(j) ==
  /\ Running /\ kind[j] = "codex" /\ j \in cancelling
  /\ pc[j] \in {"exec", "noteTry"}
  /\ row' = [row EXCEPT ![j] = "cancelled"]
  /\ pc' = [pc EXCEPT ![j] = "noteExc"]
  /\ cancelling' = cancelling \ {j}
  /\ UNCHANGED <<kind, result, reply, tasks, active, holding, procs, notice,
                 mode, accepted, patched, closing>>

RunCancelledAsFailure(j) ==
  /\ Running /\ kind[j] = "codex" /\ j \in cancelling
  /\ pc[j] \in {"exec", "noteTry"}
  /\ row' = [row EXCEPT ![j] = "failed"]
  /\ notice' = [notice EXCEPT ![j] = "failed"]
  /\ pc' = [pc EXCEPT ![j] = "noteExc"]
  /\ cancelling' = cancelling \ {j}
  /\ UNCHANGED <<kind, result, reply, tasks, active, holding, procs, mode,
                 accepted, patched, closing>>

(* CancelledError in the try body of _run: in the handler, whose process   *)
(* is left alone, or in the listeners told about the final status.         *)
RunCancelled(j) ==
  /\ Running /\ kind[j] = "codex" /\ j \in cancelling
  /\ pc[j] \in {"exec", "noteTry"}
  /\ row' = [row EXCEPT ![j] = "cancelled"]
  /\ notice' = [notice EXCEPT ![j] = "cancelled"]
  /\ pc' = [pc EXCEPT ![j] = "noteExc"]
  /\ cancelling' = cancelling \ {j}
  /\ UNCHANGED <<kind, result, reply, tasks, active, holding, procs, mode,
                 accepted, patched, closing>>

(* Mutant: no finally clause around the handler.                           *)
RunEndKeepsTask(j) ==
  /\ Running /\ kind[j] = "codex"
  /\ \/ pc[j] = "noteTry" /\ j \notin cancelling
     \/ pc[j] = "noteExc"
  /\ pc' = [pc EXCEPT ![j] = "end"]
  /\ cancelling' = cancelling \ {j}
  /\ UNCHANGED <<kind, row, result, reply, tasks, active, holding, procs,
                 notice, mode, accepted, patched, closing>>

(* The listeners returned, or a cancel interrupts them in an except        *)
(* clause; the finally clause forgets the task.                            *)
RunEnd(j) ==
  /\ Running /\ kind[j] = "codex"
  /\ \/ pc[j] = "noteTry" /\ j \notin cancelling
     \/ pc[j] = "noteExc"
  /\ pc' = [pc EXCEPT ![j] = "end"]
  /\ tasks' = tasks \ {j}
  /\ cancelling' = cancelling \ {j}
  /\ UNCHANGED <<kind, row, result, reply, active, holding, procs, notice,
                 mode, accepted, patched, closing>>

-----------------------------------------------------------------------------
(* POST /v1/tools/run after the insert: the row is running and the task is *)
(* at the semaphore, or its arguments were refused before it got there.    *)
ToolBegin(j) ==
  /\ Running /\ kind[j] = "tool" /\ pc[j] = "new"
  /\ \/ /\ row' = [row EXCEPT ![j] = "running"]
        /\ pc' = [pc EXCEPT ![j] = "wait"]
        /\ UNCHANGED active
     \/ /\ row' = [row EXCEPT ![j] = "failed"]
        /\ pc' = [pc EXCEPT ![j] = "end"]
        /\ active' = [active EXCEPT ![j] = "none"]
  /\ UNCHANGED <<kind, result, reply, tasks, holding, cancelling, procs,
                 notice, mode, accepted, patched, closing>>

(* ExecutionManager.run gets a slot and hides the outer task from cancel.  *)
ToolAcquire(j) ==
  /\ Running /\ pc[j] = "wait" /\ j \notin cancelling
  /\ Cardinality(holding) < MaxConcurrent
  /\ holding' = holding \cup {j}
  /\ active' = [active EXCEPT ![j] = "inner"]
  /\ procs' = procs \cup {j}
  /\ pc' = [pc EXCEPT ![j] = "exec"]
  /\ UNCHANGED <<kind, row, result, reply, tasks, cancelling, notice, mode,
                 accepted, patched, closing>>

(* Mutant: a timeout does not kill the process.                            *)
ToolFinishNoKill(j, s) ==
  /\ Running /\ kind[j] = "tool" /\ pc[j] = "exec" /\ j \notin cancelling
  /\ s = "timeout" \/ j \notin procs
  /\ row' = [row EXCEPT ![j] = s]
  /\ pc' = [pc EXCEPT ![j] = "end"]
  /\ holding' = holding \ {j}
  /\ active' = [active EXCEPT ![j] = "none"]
  /\ UNCHANGED <<kind, result, reply, tasks, cancelling, procs, notice, mode,
                 accepted, patched, closing>>

(* The driver returned a result; a timeout killed the process first.       *)
ToolFinish(j, s) ==
  /\ Running /\ kind[j] = "tool" /\ pc[j] = "exec" /\ j \notin cancelling
  /\ s = "timeout" \/ j \notin procs
  /\ row' = [row EXCEPT ![j] = s]
  /\ pc' = [pc EXCEPT ![j] = "end"]
  /\ holding' = holding \ {j}
  /\ active' = [active EXCEPT ![j] = "none"]
  /\ procs' = procs \ {j}
  /\ UNCHANGED <<kind, result, reply, tasks, cancelling, notice, mode,
                 accepted, patched, closing>>

(* Mutants: the cancel leaves the semaphore acquired, or the row unwritten. *)
ToolCancelledKeepsSlot(j) ==
  /\ Running /\ kind[j] = "tool" /\ pc[j] \in {"wait", "exec"}
  /\ j \in cancelling
  /\ row' = [row EXCEPT ![j] = "cancelled"]
  /\ pc' = [pc EXCEPT ![j] = "end"]
  /\ active' = [active EXCEPT ![j] = "none"]
  /\ cancelling' = cancelling \ {j}
  /\ UNCHANGED <<kind, result, reply, tasks, holding, procs, notice, mode,
                 accepted, patched, closing>>

ToolCancelledUnwritten(j) ==
  /\ Running /\ kind[j] = "tool" /\ pc[j] \in {"wait", "exec"}
  /\ j \in cancelling
  /\ pc' = [pc EXCEPT ![j] = "end"]
  /\ holding' = holding \ {j}
  /\ active' = [active EXCEPT ![j] = "none"]
  /\ cancelling' = cancelling \ {j}
  /\ UNCHANGED <<kind, row, result, reply, tasks, procs, notice, mode,
                 accepted, patched, closing>>

(* CancelledError at the semaphore or in the driver, which does not kill   *)
(* the process it was waiting for.                                         *)
ToolCancelled(j) ==
  /\ Running /\ kind[j] = "tool" /\ pc[j] \in {"wait", "exec"}
  /\ j \in cancelling
  /\ row' = [row EXCEPT ![j] = "cancelled"]
  /\ pc' = [pc EXCEPT ![j] = "end"]
  /\ holding' = holding \ {j}
  /\ active' = [active EXCEPT ![j] = "none"]
  /\ cancelling' = cancelling \ {j}
  /\ UNCHANGED <<kind, result, reply, tasks, procs, notice, mode, accepted,
                 patched, closing>>

-----------------------------------------------------------------------------
(* DelegationService.delegate and _delegate_managed_coding: transition to  *)
(* running, then the await on the worker operation.                        *)
DelegateBegin(j) ==
  /\ Running /\ kind[j] \in DelegationKinds /\ pc[j] = "new"
  /\ row' = [row EXCEPT ![j] = "running"]
  /\ pc' = [pc EXCEPT ![j] = "exec"]
  /\ UNCHANGED <<kind, result, reply, tasks, active, holding, cancelling,
                 procs, notice, mode, accepted, patched, closing>>

(* Mutant: the final status is an UPDATE without the transition table.     *)
DelegateFinishUnchecked(j, s) ==
  /\ Running /\ kind[j] \in DelegationKinds /\ pc[j] = "exec"
  /\ row' = [row EXCEPT ![j] = s]
  /\ pc' = [pc EXCEPT ![j] = "save"]
  /\ UNCHANGED <<kind, result, reply, tasks, active, holding, cancelling,
                 procs, notice, mode, accepted, patched, closing>>

(* The worker operation returned.  transition raises ValueError when a     *)
(* PATCH settled the row meanwhile, and then nothing more is written.      *)
DelegateFinish(j, s) ==
  /\ Running /\ kind[j] \in DelegationKinds /\ pc[j] = "exec"
  /\ IF s \in Allowed(row[j])
       THEN /\ row' = [row EXCEPT ![j] = s]
            /\ pc' = [pc EXCEPT ![j] = "save"]
       ELSE /\ pc' = [pc EXCEPT ![j] = "end"]
            /\ UNCHANGED row
  /\ UNCHANGED <<kind, result, reply, tasks, active, holding, cancelling,
                 procs, notice, mode, accepted, patched, closing>>

(* WorkerExecutionBoundary.execute raised: only `delegate` catches it.     *)
ManagedRaises(j) ==
  /\ Running /\ kind[j] = "managed" /\ pc[j] = "exec"
  /\ pc' = [pc EXCEPT ![j] = "stuck"]
  /\ UNCHANGED <<kind, row, result, reply, tasks, active, holding,
                 cancelling, procs, notice, mode, accepted, patched, closing>>

DelegateSave(j) ==
  /\ Running /\ pc[j] = "save"
  /\ result' = [result EXCEPT ![j] = row[j]]
  /\ pc' = [pc EXCEPT ![j] = "reply"]
  /\ UNCHANGED <<kind, row, reply, tasks, active, holding, cancelling, procs,
                 notice, mode, accepted, patched, closing>>

DelegateReply(j) ==
  /\ Running /\ pc[j] = "reply"
  /\ reply' = [reply EXCEPT ![j] = result[j]]
  /\ pc' = [pc EXCEPT ![j] = "end"]
  /\ UNCHANGED <<kind, row, result, tasks, active, holding, cancelling,
                 procs, notice, mode, accepted, patched, closing>>

-----------------------------------------------------------------------------
(* A client can name a job once its first step has run: the step was on    *)
(* the loop before the response that carries the identifier, and the       *)
(* statements after the worker operation run without an await.             *)
Exposed(j) == kind[j] # "none" /\ pc[j] \notin {"new", "save", "reply"}

(* POST /v1/jobs/{id}/cancel finds a task in one of the two tables.        *)
Cancel(j) ==
  /\ Serving /\ Exposed(j)
  /\ active[j] # "none" \/ j \in tasks
  /\ cancelling' = cancelling \cup {j}
  /\ accepted' = accepted \cup {j}
  /\ UNCHANGED <<kind, row, result, reply, pc, tasks, active, holding, procs,
                 notice, mode, patched, closing>>

(* PATCH /v1/jobs/{id}/status applies transition to a job of any kind.     *)
Patch(j, s) ==
  /\ Serving /\ Exposed(j)
  /\ s \in Allowed(row[j])
  /\ row' = [row EXCEPT ![j] = s]
  /\ patched' = patched \cup {j}
  /\ UNCHANGED <<kind, result, reply, pc, tasks, active, holding, cancelling,
                 procs, notice, mode, accepted, closing>>

(* An operating system process ends by itself.                             *)
ProcExit(j) ==
  /\ j \in procs
  /\ procs' = procs \ {j}
  /\ UNCHANGED <<kind, row, result, reply, pc, tasks, active, holding,
                 cancelling, notice, mode, accepted, patched, closing>>

-----------------------------------------------------------------------------
(* The program stops: memory is gone, the service manager ends the         *)
(* processes of its control group, only rows and messages stay.            *)
Vanish ==
  /\ mode' = "down"
  /\ pc' = [j \in Jobs |-> IF pc[j] \in {"none", "end"} THEN pc[j] ELSE "lost"]
  /\ tasks' = {}
  /\ active' = [j \in Jobs |-> "none"]
  /\ holding' = {}
  /\ cancelling' = {}
  /\ procs' = {}
  /\ awaited' = {}
  /\ UNCHANGED <<kind, row, result, reply, notice, accepted, patched, late>>

Crash == Running /\ Vanish

(* SIGTERM: the server stops accepting connections and lets open requests  *)
(* finish, then the lifespan stops the Discord gateway.                    *)
Drain ==
  /\ mode = "up"
  /\ mode' = "draining"
  /\ UNCHANGED <<kind, row, result, reply, pc, tasks, active, holding,
                 cancelling, procs, notice, accepted, patched, closing>>

(* DiscordGateway.stop raised: the lifespan ends there, nothing is waited  *)
(* for and the database is not closed.                                     *)
StopRaises == mode = "draining" /\ Vanish

(* The gateway stopped; wait_for_idle gathers the tasks there are now.     *)
WaitForIdle ==
  /\ mode = "draining"
  /\ mode' = "idling"
  /\ awaited' = tasks
  /\ UNCHANGED <<kind, row, result, reply, pc, tasks, active, holding,
                 cancelling, procs, notice, accepted, patched, late>>

(* Mutant: gather without return_exceptions, over with the first task.     *)
ShutdownAtFirst ==
  /\ mode = "idling"
  /\ awaited = {} \/ ~(awaited \subseteq tasks)
  /\ Vanish

(* Those tasks have ended and the database is closed: a coroutine that is  *)
(* still there can write nothing any more.                                 *)
Shutdown ==
  /\ mode = "idling"
  /\ awaited \cap tasks = {}
  /\ Vanish

(* No startup code looks at the jobs table.                                *)
Restart ==
  /\ mode = "down"
  /\ mode' = "up"
  /\ UNCHANGED <<kind, row, result, reply, pc, tasks, active, holding,
                 cancelling, procs, notice, accepted, patched, closing>>

-----------------------------------------------------------------------------
(* What the event loop does for job j.                                     *)
Step(j) ==
  \/ RunBegin(j)
  \/ \E s \in {"succeeded", "failed"}, at \in {"noteTry", "noteExc"} :
        RunFinish(j, s, at)
  \/ RunCancelled(j)
  \/ RunEnd(j)
  \/ ToolBegin(j)
  \/ \E s \in ToolOutcomes : ToolFinish(j, s)
  \/ ToolCancelled(j)
  \/ DelegateBegin(j)
  \/ \E s \in {"succeeded", "failed"} : DelegateFinish(j, s)
  \/ ManagedRaises(j)
  \/ DelegateSave(j)
  \/ DelegateReply(j)

Client(j) ==
  \/ \E k \in Kinds : Accept(j, k)
  \/ Cancel(j)
  \/ \E s \in Open \cup Outcomes : Patch(j, s)

Stop == Crash \/ Drain \/ StopRaises \/ WaitForIdle \/ Shutdown \/ Restart

Next ==
  \/ \E j \in Jobs : Step(j) \/ ToolAcquire(j) \/ ProcExit(j) \/ Client(j)
  \/ Stop

Spec == Init /\ [][Next]_vars

(* While the program is up the loop runs every ready task, handlers and    *)
(* listeners return (their waits carry a timeout or end with a process)    *)
(* and asyncio.Semaphore serves its waiters in order.                      *)
FairSpec ==
  /\ Spec
  /\ \A j \in Jobs : WF_vars(Step(j)) /\ SF_vars(ToolAcquire(j))

-----------------------------------------------------------------------------
(* A codex job whose listeners have been called carries exactly the status *)
(* they were last told, whatever cancels and PATCHes raced with it: the    *)
(* final UPDATE and the event of JobManager._notify never disagree.        *)
NoticeMatchesRow ==
  \A j \in Jobs : pc[j] \in {"noteTry", "noteExc"}
                   \/ (kind[j] = "codex" /\ pc[j] = "end")
                 => notice[j] = row[j]

(* A row that nobody will settle any more (its coroutine returned) is not  *)
(* open: only the death of the program and an exception out of a managed   *)
(* delegation leave a job queued or running for good.                      *)
OpenRowOwned ==
  \A j \in Jobs : row[j] \in Open
    => kind[j] = "created" \/ pc[j] \notin {"none", "end"}

(* A job can be cancelled exactly while its task exists: the two tables    *)
(* POST /v1/jobs/{id}/cancel looks into lose no live task and keep no      *)
(* finished one.                                                           *)
CancelTablesExact ==
  \A j \in Jobs :
    /\ j \in tasks <=> /\ kind[j] = "codex"
                       /\ pc[j] \in {"new", "exec", "noteTry", "noteExc"}
    /\ active[j] # "none" <=> /\ kind[j] = "tool"
                              /\ pc[j] \in {"new", "wait", "exec"}

(* The semaphore bounds the tool jobs in the driver, and a slot is held by *)
(* exactly those, cancelled ones never keeping theirs.                     *)
SlotDiscipline ==
  /\ holding = {j \in Jobs : kind[j] = "tool" /\ pc[j] = "exec"}
  /\ Cardinality(holding) <= MaxConcurrent

(* A process outlives the coroutine that started it only when a cancel was *)
(* accepted for its job: results and timeouts always end it.               *)
OrphanOnlyAfterCancel ==
  \A j \in procs : pc[j] = "exec" \/ j \in accepted

(* A settled row changes only for a job a client patched by hand while its *)
(* task was alive, or into "cancelled" after an accepted cancel; rows of   *)
(* delegated jobs never change once settled.                               *)
SettledRewrite(j) ==
  row[j] \in Settled /\ row'[j] # row[j]
    => /\ kind[j] \in {"codex", "tool"}
       /\ j \in patched \/ (j \in accepted /\ row'[j] = "cancelled")

SettledRewrites == [][\A j \in Jobs : SettledRewrite(j)]_vars

(* When the lifespan closes the database, a codex job is open only because *)
(* an earlier death of the program cut it short or because it was created  *)
(* after wait_for_idle had read the tasks.  (If stopping the gateway       *)
(* raises, the program ends without getting there.)                        *)
CleanShutdown ==
  [][Shutdown => \A j \in Jobs :
       kind[j] = "codex" /\ row[j] \in Open
         => pc[j] = "lost" \/ j \in late]_vars

(* The rows and messages of delegated jobs implement JobContract, for      *)
(* which the other kinds do not exist.                                     *)
DelegatedRow == [j \in Jobs |-> IF kind[j] \in DelegatedKinds THEN row[j]
                                                            ELSE "absent"]
Contract == INSTANCE JobContract WITH row <- DelegatedRow
DelegatedContract == Contract!Spec

(* An accepted cancel of a job whose operation or announcement was still   *)
(* in progress settles it as cancelled, unless the process dies first.     *)
CancelWins ==
  \A j \in Jobs :
    (j \in accepted /\ pc[j] \in {"wait", "exec", "noteTry"})
      ~> row[j] = "cancelled" \/ pc[j] = "lost"

(* Every tool job at the semaphore gets a slot or is cancelled: no slot    *)
(* leaks on any way out of ExecutionManager.run.                           *)
WaitersServed ==
  \A j \in Jobs : pc[j] = "wait" ~> pc[j] # "wait"

(* Every job a coroutine was created for settles, except managed           *)
(* delegations, unless the process dies under it.                          *)
JobsSettle ==
  \A j \in Jobs :
    kind[j] \in {"codex", "tool", "delegate"}
      ~> row[j] \in Settled \/ pc[j] = "lost"
=============================================================================
