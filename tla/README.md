# VirtizAI: formal models

TLA+ models of the VirtizAI core service (`src/virtizai_core`) and of its
native update tooling (`src/packaging`), the TLC configurations that check them
on small instances, and TLAPS proofs for every value of their parameters.
Definitions are translated from the source; `PROJECT.json` maps each to its
lines.

## The system

The service is one Python process: FastAPI handlers and background coroutines
on **one asyncio event loop**, one SQLite connection in autocommit mode (a row
is durable as soon as its statement returns), child processes for tools and
Codex, and files in a workspace. Coroutines interleave at awaits; between two
awaits a coroutine is alone, except for other *processes* (editors, the update
helper, systemd) and for a crash, which fall anywhere.

| Component | State | Operations | Interacts with | Hard behaviours | What makes it correct |
|---|---|---|---|---|---|
| Job manager (`jobs.py`) | `jobs` rows, `tasks`, listeners | submit, `_run`, `_notify`, create_delegated, transition, cancel, wait_for_idle | API, delegation, Discord listener | cancel while notifying, PATCH on a live job, crash, shutdown | row, notices and cancel tables agree; settled rows are left alone; no open row without an owner |
| Tool execution (`execution.py`, `tools.py`, `api.run_tool`) | semaphore, `active`, child processes | authorize, run, cancel, record_audit | job rows | slot leak, task hidden from cancel, process surviving its coroutine | slots bound the driver, every waiter is served, timeouts kill |
| Delegation (`orchestration.py`) | job rows, messages | delegate, managed coding, delegate_agent | worker boundary, sessions | exceptions between statements, PATCH under a running delegation | one answer per settled job, equal to the row |
| Coding agent (`delegate_agent`) | inspected revisions, snapshots, mutated paths, budgets, trace | tool turns, snapshot, replace, rollback | provider, development tools, workspace files | other jobs and editors between inspection, replacement and rollback | a failed job leaves none of its edits, and others' are lost in named ways only |
| Development tools (`dev_tools.py`) | workspace files | list, inspect, replace_text, apply_patch, run_tests | coding agent | read - `os.replace` windows | revision checks catch foreign changes |
| Worker boundary, workers (`workers.py`) | worker and environment rows | execute, register, Codex run | jobs, delegation | timeouts, errors as exceptions | every outcome reaches the job row |
| Native updates (`updates.py`, `transactions.py`, `api.py` startup) | update_history, update_backups, archives, journal, lock | apply, rollback, startup reconcilers, external detection | helper, database | death between durable steps, database replaced under the service | nothing is called known good that did not run; a completed rollback is recorded once |
| Helper and runner (`packaging/`) | installed package, database file, transient units | install, rollback, schedule | service manager | failure of each step, restart timer | every managed install can be undone |
| Database, migrations (`db.py`, `migrations.py`) | SQLite file, schema version | execute, transaction, apply_migrations | all | opening a schema newer than the code | old code refuses a newer schema |
| HTTP API (`api.py`) | rows of all tables | CRUD, run_tool, cancel, PATCH, updates, lifespan | all | requests racing with coroutines | see the rows above |
| Conversation interfaces (`interfaces.py`, `work_intake.py`, `delegation_policy.py`) | sessions, messages, interface events | handle, delegate_for_session, project_for_session | delegation, secretary | retry of a read-only failure | a mutating attempt is never retried, one visible answer |
| Secretary, sessions, memory (`services.py`) | messages, affinity, memory rows | handle, inference with fallback | providers, events, jobs | overlapping messages of a session, deadline | affinity names a provider that answered |
| Project lead, assignments (`project_lead.py`, `project_assignments.py`) | projects, milestones, plans, assignments, audit | run, execute_phase_2b, assign | worker boundary, delegation | crash or error between rows | a project never stays half planned |
| Discord gateway (`discord_gateway.py`, `discord.py`) | status, pending clean-ups, bindings | connect loop, messages, alerts, clean-up | interfaces, events, jobs | reconnect, duplicate alerts, interleaved confirmations | it keeps reconnecting; nothing is deleted without the user's confirmation |
| Operational events (`alerts.py`) | operational_events | transition | gateway, health | deduplication across awaits | each change of state announced |
| Provider health (`health.py`, `providers.py`, `adapters.py`) | counters and status per provider | check, chat | routing, secretary | overlapping checks | thresholds count every check |
| Routing (`routing.py`, `capability_routing.py`) | routes, models (read) | resolve_role, capability_selection | interfaces, secretary | - | only eligible candidates, in order |
| Infrastructure tools (`infra_tools.py`, `infra_policy.py`) | - (remote machines) | authorize, start, restart, inspect | delegation | check, then act, then poll | no operation out of scope |
| Secrets (`secrets.py`) | a JSON file | get, set, delete | workers | read-modify-write | no update lost |
| Context (`context.py`) | context_builds | build | secretary | budget boundary | the package fits the budget |
| Homelab (`homelab.py`) | entities, facts, aliases | import | context | repeated import | importing twice changes nothing |
| Costs, telemetry, retention | report rows | record, prune | - | - | - |
| Auth, output policy, configuration | - | checks | API | - | - |
| Benchmarks, web UI, command line, validation scripts | - | clients and release tooling | API | - | - |

The hazards the code is exposed to are listed, at their lines, in
`PROJECT.json` under `hazards`, with the properties that watch each.

## The modules

| Module | Models |
|---|---|
| `JobContract` | what the code promises of a delegated job: create, start, settle once, one answer equal to the row |
| `Jobs` | job rows, coroutines, cancel tables, semaphore, processes, crash, shutdown, restart; implements `JobContract` |
| `CodingAgent` | `delegate_agent` for the coding role, several jobs and an editor over one workspace |
| `NativeUpdate` | managed updates and rollbacks of a native installation |
| `Gateway` | the Discord connection, its reload and stop, the operational events and their delivery |
| `Discord` | Discord messages handled at once: threads, the clean-up dialogue, the send lock, job notices |
| `Secretary` | how a message is answered: candidates, voice of a session, probes, provider health |
| `Conversation` | `InterfaceService.handle`; EXTENDS `Secretary`, whose actions are part of its own |
| `ProjectLead` | planning under a manager, assignments, the loop over milestones |
| `Homelab` | import of a document statement by statement, lookup of an alias |
| `MC...` | the instances TLC checks |
| `JobsProofs`, `CodingAgentProofs`, `NativeUpdateProofs`, `GatewayProofs`, `DiscordProofs`, `ConversationProofs`, `ProjectLeadProofs`, `HomelabProofs` | the theorems about the module of that name; those about `Secretary` are in `ConversationProofs` |

Definitions whose comment starts with "Mutant" are plausible bugs. Nothing
uses them; each is the replacement of the definition after it with which a
property must fail (`PROJECT.json`, `mutants`).

How the modules fit together: `Discord` calls the core and learns that it
returned or raised, and whether a job was created; what happens inside that call
is `Conversation`, with `Secretary` composed into it (one `log`, one `status`,
one `voice`). An agent's loop is `CodingAgent`; `Conversation`
knows of it what its trace, its result and its effects may be, classified by the same
`SideEffectState`; `ProjectLead` only how its child ends. The row of every job is `Jobs`.

### Jobs

An action is what the code does between two awaits. `pc[j]` is where the
coroutine of job `j` is suspended, `row[j]` its status column.

* `codex` jobs: `Accept` is `submit`; `RunBegin` and `RunFinish` are `_run`
  around the handler; `noteTry` and `noteExc` are the awaits in `_notify` from
  the try body and from an except clause. `RunCancelled` is the
  `except CancelledError` clause: it is reached from the handler *and* from
  `noteTry`, that is, after the final status was written.
* `tool` jobs: `ToolBegin`, `ToolAcquire`, `ToolFinish`, `ToolCancelled` are
  `run_tool` with `ExecutionManager.run`. `active[j]` is the outer task until
  the semaphore is acquired and the driver's task after.
* `delegate` and `managed` are `delegate` and `_delegate_managed_coding`;
  `created` is a delegated row that only PATCH moves. The three final statements
  of a delegation are three actions (`DelegateFinish`, `DelegateSave`,
  `DelegateReply`), so that a crash can fall between them; `Exposed` keeps
  requests out of that stretch, which has no await.
* `Cancel`, `Patch` are the endpoints. `Crash`, `Drain`, `StopRaises`,
  `WaitForIdle`, `Shutdown`, `Restart` are the life of the process; children die
  with its control group. A shutdown drains requests, stops the gateway, which may
  raise and end the program there (`StopRaises`; Findings, 1), takes a snapshot of
  the tasks (`awaited`) and ends when these are done. Handlers of Discord
  messages that have arrived outlive the stop of the gateway: they may still
  create jobs (`MessageKinds`), and delegations in progress are not waited for; `late`
  (history) are the codex jobs created after the snapshot.

`accepted` and `patched` are history variables that the properties read.

### CodingAgent

A file's content is the set of edits in it. What `read_text` (errors replaced,
universal newlines) makes of it is `Decoded`: of a file in `RawFiles` it drops
the `"bytes"` edits, line endings and bytes that are not UTF-8, of which a rewrite writes back
the converted form. The revision, a hash in the code, is the decoded content. `seen`, `snapped`/`original`, `mutated`, `last`,
`recovery`, `applied`, `tested`, `looks`, `trace` are the local variables of
`delegate_agent`. Jobs give the loop up at an inference and during tests only
(`LoopFree`); an editor is another process and may save or delete at any
moment, so the two read - `os.replace` windows (a replacement: `ReplaceRead`,
`ReplaceSwap`; a rollback: `UndoRead`, `UndoWrite`) are two actions each.
`raced` and `twice` are history variables. A crash loses the
snapshots, as in the code. Not told apart: which text is replaced (`old_text`
occurs exactly once or it does not), what the provider says besides the tool it
asks for, file modes.

### NativeUpdate

`db` is the database file: schema, rows, registered backups. The handler
`apply_native_update` has no await, so requests never interleave with it, but a
crash, a power loss, the helper (another process), the restart timer and an
administrator do: each durable step is an action. `gone` and `attached` model
the service that keeps the *removed* database file open when the helper
replaces the file while a service is running, which happens when the timer or an
administrator starts one during a rollback. `ran` is history.
`Start` runs the startup of `create_app` in its order: open and migrate
(`OpenDatabase`, `OpenFails`, `BlamePending`), `ReconcileUpdates`,
`DetectExternal`, `PersistTransaction` and `RemoveTransaction`, `Serve`.
`Overtaken(i)` says that a later request archived the database while request `i`
was unfinished in it; `RestoredDbForgets` and `RollbackRecorded` except the row that comes
back with that archive (Findings, 3).

### Gateway

`gw` is the `DiscordGateway` object: its status, `_intentional_stop`, where the
task `_run` is, and what the client knows. `ConnectFails` and `BackoffEnds` are
the except clause of `_run`; `wait_for` raises `TimeoutError` when the backoff
ends, so the task is `dead` after it. `call` is the one `start`, reload or
`stop` in progress: `StopBegin` (announce the disconnect), `StopClose` (mark it
intentional, close the client), `StopTask` (await the task), `StartEnd`. `rows` is
`operational_events`, written by `SetStatus` through `Transition` as in
`alerts.py`; `sends` are the sends of `_on_operational_event` under way and
`retry[r]` is the handler `on_ready` that `Ready(r)` begins, of which several may run at
once: it announces the connection, reads the first `RetryLimit` pending rows (20 in the code)
in `RetryBegin`, and `left` are those it has not yet sent, oldest first. `MessageFails` is what
`handle_message` does to the status when a message raises. `unsure` is history.

### Discord

A message goes through `pc` as `handle_message` does: `Receive` up to the first
await; `plan` awaits the planner and ends in `Clean` (the dialogue takes it) or
`Unplanned`; `NewThread`; `CreateJob`, `CoreReturns`, `CoreRaises` around
`adapter.handle_message`; `Acquire`, `Sent` around the send lock; `AnswerFailure`
the except clause. `CleanFlow` is one pass of `_thread_cleanup_flow` over the
record in `pending`, `List` and `Sweep` its two awaits. `JobEnds`, `Notify`,
`Notified` are `_on_job_complete`. The mapping of a place is read on arrival
(`mapped`, `session`). `SessionOf` is `resolve_session`: the mapped session, else
the one of the key: a new thread's own, one of the user in the channel when Discord
refused the thread, and the default key `discord:<user>` that all threads the program
did not open share (`"thread"` and `"other"` stand for two of them).

### Secretary

`HandleMessage` runs to its first await. `Probe` is one `discover_models` of
`_secretary_candidates`; `Resolved` is what `handle_message` does with the
candidates a call returned, including the second call when the session's own
voice is missing. `Infer` and `Announced` are one pass of the loop over
candidates: the inference with the write of the affinity, then the await of the
event with the write of the model's status. `CoolDown` is the passing of the
thirty seconds after which a failed model is probed again. `CheckBegin` and
`CheckReturns` are the two sides of the await in `check_provider`: `checks` holds the rows
that the checks under way have read. `SeedDemo` is `POST /v1/demo/seed`, which declares its
providers (`Demo`) healthy without a check; they start unknown. The other writers of
`health_status` are out of reach: no code calls `set_provider_status`, and none clears
`providers.enabled`, without which the branch `disabled` of `check_provider` is not taken.

### Conversation

`Handle` is `InterfaceService.handle` up to its first await, `ClassifierProbes`
and `Classified` the classification of the rest. `Dispatch` is
`delegate_for_session` or `project_for_session` up to the agent, with
`capability_selection` as `Ranked`. `ToolCall` and `AttemptEnds` are the agent seen from
outside: a trace, a result, and the effects its tools really had (`hit`),
which a report may deny. `LinkIdentity` is the administrator's
`link_identity` at any moment.

### ProjectLead

Each statement of `run`, `assign` and `execute_phase_2b` is one action, because
each is a commit after which the process may die. Stages in `Sync` are not
separated by awaits: while one project is in such a stage no other one moves, except
through `Crash`. Planning under a manager and the older loop start with
`Request` and `Legacy`. An operator's `POST`, `PATCH` and `DELETE` of a project
(`CreateProject`, `UpdateProject`, `DeleteProject`) fall between any two steps that an
await separates, and write any status; `byHand` (history) says that the status in the row is
theirs. `AssignRaises` is a manager that is gone between the request and the
assignment: the project stays without one. A deletion takes the project's assignment,
plan and milestones along and ends its coroutine (later updates find no row, the first
INSERT is refused); it is itself refused once a job belongs to the project. No caller reaches
the older loop any more except tests and a call of `run` without a manager; it is the only
code that executes milestones.

### Homelab

Each statement `import_text` executes is one step, in the order of the code:
`DropFacts`, `DropAliases`; then, per entity in the order of their names,
`PutEntity` and one `PutAlias` for each alias generated for it; then, record by
record (`line`), `PutExplicit`, or `PutProvenance` and `PutFact`; then
`DropOrphans` and `DropEntities`. `Database.transaction` takes the lock and opens
no transaction (the connection is in autocommit mode), so `Crash` may follow any
statement and `Lookup` may read after any. `Canonical` is `_coalesced_entities`
(`Section(d, h)` is what every set of sections holds that contains `h` and is closed
under sharing an identity), `Generated` the aliases from headings and identities,
`Lookup` is `HomelabFacts.lookup` with `resolve_property`; it may show `Limit` facts (50 in the
code), of which set is left open, so an answer is a set of answers. A fact's value may hold several
identities; a line that lists several aliases is as many records, in the order of the line.

## The runs

| Run | Instance | Shows |
|---|---|---|
| `jobs` | 2 jobs of any mixture of kinds, 1 slot | types; listeners were told exactly the row's status (`NoticeMatchesRow`); open rows are owned (`OpenRowOwned`); cancel tables hold exactly the live tasks (`CancelTablesExact`); `SlotDiscipline`; processes outlive their coroutine only after a cancel (`OrphanOnlyAfterCancel`); a shutdown that reaches the end leaves a codex job open only if it came too late (`CleanShutdown`); delegated jobs implement `JobContract` (`DelegatedContract`); an accepted cancel wins (`CancelWins`), waiters are served (`WaitersServed`), jobs settle (`JobsSettle`) |
| `coding_editor` | 1 job, the code's limits, 2 files, one of them raw, 1 editor operation | rollback never without a snapshot, a failed job is undone, what a file loses is lost in one of four ways (`LossesNamed`) |
| `coding_jobs` | 2 jobs, 1 file, 3 inferences | an undone edit stays undone, read-only traces tell the truth, every job settles and returns (`JobCloses`) |
| `native_update` | 2 versions, the second migrates, 2 requests after a completed one | known good versions ran; every managed install has a registered archive or a data restore; a restored database knows nothing of its own rollback; a journal entry goes only when its row is there, both but for an overtaken request |
| `native_rollback_unrecorded` | 1 version, 3 requests after a completed one | **violation**, see Findings |
| `gateway` | 4 rows, 2 of them read by a retry at most, 2 overlapping retries | no alert twice unless a send failed, was cut off or was under way when a retry read the table (`AlertsOnce`), one disconnect alert per stop (`OneDisconnectAlert`), a retry that ends with a row it delivered leaves none before it pending (`ReadyFlushes`) |
| `gateway_reload` | the same, 3 rows | **violation**, see Findings |
| `discord` | 2 messages, 2 users | a confirmed scope is swept once, notices stay with the session and user of their job (`NoticeInOwnSession`), every message is answered and every notice ends unless a failure answer blocks the send lock (`EveryoneAnswered`) |
| `discord_cleanup_scope` | the same | **violation**, see Findings |
| `conversation` | 2 requests, 2 sessions, 2 models, 1 tool call per attempt, 1 health check at a time | one visible answer (`OneAnswer`), no two attempts with an effect (`NoSecondEffect`), the voice changes only by a request that read another one or looked for it in vain (`VoiceKept`) |
| `projects` | 2 projects, 2 managers, 2 milestones, 1 revision, 3 inferences, 3 statuses an operator writes | limits and types; rows commit in the promised order; milestones in order |
| `homelab` | 4 documents over 2 headings, 6 aliases, 3 labels, 1 fact shown | facts of two documents never stand side by side; after a completed import a lookup answers from it |

**Bounds.** The proofs remove the bounds named here for every property except the
liveness ones. *Jobs*: each identifier is used once, so two jobs are two
overlapping jobs of any kinds; one slot with two tool jobs is a full semaphore with
a waiter. The state of a job reads no other job's except through the semaphore and
the stop of the program, so more jobs add no new interaction. *CodingAgent*: `coding_jobs` gives each
job three inferences: an inspection, a replacement and a turn in which it ends, fails or
is refused, with the other job's turns in between; `coding_editor` has the code's ten, enough to
replace twice with a re-inspection in between; two files show what one
rollback does to two paths; one editor operation is enough, because each property
speaks of a single lost edit; one of the files is raw, so both are met. *NativeUpdate*: an update followed by a
rollback is the longest chain the rows connect but for an overtaken request; the run begins after a completed
update, so that its two requests are any pair over a registered backup. An overtaken request
takes four, which is what `native_rollback_unrecorded` has, with one version to stay small. *Gateway*: four
rows are the first (suppressed) event of a component and three that are
announced, so that a retry has a row behind the one it fails on, can stop at its limit of two with one
left, and meets a second retry's announcement; two retries are the smallest overlap; a count of
arrivals ends at two. *Discord*: an interleaving of the clean-up dialogue, of the
lock or of the newest-job lookup needs two coroutines; a dialogue may be at any
stage when they arrive. *Conversation*, with the *Secretary* in it: two models make a fallback,
and the second also answers the harder questions; an attempt and its retry with the
other model; a provider is checked once at a time, because two overlapping checks
are beyond what TLC finishes in minutes: no run explores them, nothing that is checked
depends on them, and the proofs cover any number; the window of evidence is two messages instead of twelve, so
that evidence can drop out of it; the health of the second model's provider changes,
the status of every model does; the sessions are new, their voices come from the
requests. *ProjectLead*: three inferences let a plan of
two milestones succeed and stop one that is revised; `Written` are the statuses an operator
writes: the default of `POST` and the two that the properties read. *Homelab*: the documents contain
a shared heading segment, two sections coalesced by an address, an alias that
moves, a value with two identities, a label that differs in spelling and one in meaning, and no
facts at all; an answer that shows one fact of an entity's two is cut off.
The number of crashes, restarts, timers and power losses is not bounded where
the state stays finite. *Deadlock* is checked in `jobs`, where a stop or a
restart is always possible; elsewhere a finished instance has nothing left to do.

**Type invariants.** Each module defines one; `Jobs`, `CodingAgent`,
`NativeUpdate` and `ProjectLead` check theirs
in a run; those of `Gateway` and `Homelab` (where it is the integrity of the references, which
SQLite would enforce) are theorems (`TypeCorrect`). Those of
`Discord`, `Secretary` and `Conversation` hold on the same instances and
are kept for the reader and for proofs.

**Symmetry** permutes requests and sessions (`conversation`) and the handlers of
`on_ready` (`gateway`), which no definition tells apart; the runs with liveness use none. `MCDiscord` names the first message and its
writer instead.

**Fairness.** Only `jobs`, `coding_jobs` and `discord` use it, on the steps the
event loop owes; nobody is obliged to request anything, and the death of the
process is one of the outcomes the liveness properties of `Jobs` allow.
`WF_vars(Step(j))`: the loop runs every ready callback, and every wait in the step
ends: Codex and tools have a timeout that kills the process, and worker
operations have theirs. `SF_vars(ToolAcquire(j))`: `asyncio.Semaphore` wakes its
waiters first in, first out, so one cannot be overtaken for ever although the slot
is taken again and again. `SF_vars(Work(a))` of a coding job: its steps are
disabled while another job has the loop, again and again, and the loop's ready queue
is first in, first out; an inference and a test run return or time out.
`SF_vars(Handle(m))`, `SF_vars(Announce(m))` in `Discord`: the core has deadlines and limits, a call of
Discord returns or raises, and `asyncio.Lock` is first in, first out as well; whether a job
ever ends is not assumed there.

## Findings

Each is a run that TLC must find violated (`PROJECT.json`, `findings`).

1. `gateway_reload`: a failed connection attempt ends the reconnect task with a
   `TimeoutError` (`discord_gateway.py:418`) instead of trying again. The next stop or
   reload awaits the dead task and raises: switching the gateway off saves
   the row and leaves the status at `error` until the program restarts, and a
   shutdown leaves before it waits for jobs and closes the database.
2. `discord_cleanup_scope`: what a confirmation says about the scope still widens
   it (`discord_gateway.py:220`): "confirm delete every thread" deletes archived
   threads although the scope shown was active threads only.
3. `native_rollback_unrecorded`: `persist_completed` takes any row of the request for
   the record of its success (`transactions.py:69`). A data-restoring rollback *A* waits, its
   own row `started`; request *B* takes a backup, which holds that row; while the helper
   carries out *A* the service is started (by hand, or by the timer), and request *C* asks to
   restore *B*'s backup. After both rollbacks ran, the row of *A* is back, `started`, so the
   startup inserts nothing and removes the journal file: the rollback is never recorded.
   The proof of `RestoredDbForgets` found this: the invariant without `Overtaken` was not
   inductive, and three requests are too few for TLC to reach it.

## Known deviations (no run)

What the models show of the code and no run is spent on; each is a reachable state
of the module named.

* *Jobs*: `_delegate_managed_coding` awaits the worker boundary outside a try
  (`orchestration.py:108`, docstring at 104): a `WorkerExecutionError` leaves the
  job `running` for ever (`ManagedRaises`).
* *CodingAgent*: a change saved and re-inspected between two replacements of one file
  is discarded by the rollback (`orchestration.py:805`, against
  `tests/test_coding_agent_loop.py:482`); `mutation_recovery_required` is one value for the
  job, and a success in another file clears it (`orchestration.py:900`, against
  `tests/test_coding_agent_loop.py:533`). A replacement rewrites the whole file from its decoded
  text (`dev_tools.py:181`, 236): line endings and bytes that are not UTF-8 change far from the
  text replaced, and the rollback does not bring them back.
* *NativeUpdate*: without `target_schema` in the request an application-only
  rollback below the schema is accepted (`api.py:529`, against `RELEASES.md:28`), and a
  healthy update is marked failed (`updates.py:158`, against
  `tests/test_interfaces.py:70`); a managed install whose handler dies or times out is
  recorded as external (`api.py:314-321`, 552).
* *Gateway*: a message that fails sets the status to `connected` whatever it was
  (`discord_gateway.py:592`). Two reconnects close together retry the same rows: an alert
  that the first retry has still to send arrives twice.
* *Discord*: the failure answer takes the send lock and waits for it again
  (`discord_gateway.py:601`): no message is sent after it. The notice of a job that ends
  before its reply returned is lost (571). When two messages of one session, also in two
  places that share it, create jobs at once, both replies may be attached to the newer job: its notice goes
  to the later place, and the older job has none. When Discord refuses a thread, the whole
  channel is mapped to the user of that message.
* *Secretary*: when the voice is missing at the first call of
  `_secretary_candidates` and back at the second, the second is not filtered and may
  still switch it. A medium model that answered becomes the voice but is never among the
  Secretary's candidates, so the next simple message switches it
  (`services.py:538`). When the own voice is found and its inference fails, no other model is
  tried. A model that only the medium route names is never probed again. Overlapping
  checks of a provider leave its last event different from its row (`health.py:36`); so does
  `seed_demo`, which writes the row without an event (`api.py:1067`).
* *Conversation*: a crash between the second attempt's answer and the DELETE
  (`interfaces.py:297`) would leave two answers; the model has no crash there.
* *ProjectLead*: a project whose worker raises stays `planning` and its assignment
  counts as load for ever (`project_lead.py:146`); the milestones before an invalid one stay
  in a blocked project (124); when `delegate_agent` raises, the milestone stays
  `running`. An operator's status is overwritten by the coroutine's next one, and a coroutine
  goes on when its project is set to another status.
* *Homelab*: an import drops the aliases of entities that have facts when it begins.
  Those of an import that died before it wrote a fact survive the next import of their entity, which
  only then gives it facts, and go with a *second* one; `LookupCurrent` speaks only of names that the last document
  gives. An entity that had facts and of which the new document keeps only aliases is
  deleted.

## The proofs

Every property of the passing runs that is not a liveness property is a theorem: it
is proved by TLAPS for every value of the constants, from the named assumptions on
them only (`KindsAssumption`, `SlotsAssumption`; `LimitsAssumption`, `EditorAssumption`,
`FilesAssumption`; `VersionsAssumption`; `GatewayAssumption`; `DiscordAssumption`;
`RouteAssumption`, `AgentAssumption`; `ProjectAssumption`; `HomelabAssumption`), which
TLC evaluates on the runs. Each proof module states its inductive invariant `Inv` as a
conjunction of named parts; `InvHolds` is proved by one step per action, and the properties
follow from it. Where it could be evaluated TLC checked the invariant on a small instance first.

* **Jobs.** The safety properties are not inductive: that no settled row is
  overwritten needs to know at which stage the coroutine is and what the row
  can say there. `Inv` adds `StageByKind` (which stages a kind goes through),
  `RowByStage` (what the row says at each; a row settled under a live coroutine
  was patched), `ReplyByStage` (the saved result of a delegation is its row) and
  `CancelsAccepted`. `InvHolds` proves it by one case per action; `TypesHold`,
  `NoticesHold`, `OwnersHold`, `TablesHold`, `OrphansHold` follow. `SlotsHold`
  adds finiteness of `holding` and the cardinality facts. `RewritesHold` and
  `ShutdownsHold` are the two action properties. `ContractHolds` is the
  refinement: `Init` implies `Contract!Init`, and under `Inv` every step is a
  step of `JobContract` or a stutter.
* **CodingAgent.** That a successful rollback removed every edit of the job
  needs three things the property does not say: no snapshot of a job contains
  its own edits (`EditsConfined`), there is a snapshot of exactly the files it
  changed or is changing (`SnapshotsKept`), and the part of the rollback already
  done is clean (`RollbackProgress`). `Exclusive` says that one job at a time is
  between awaits; `WindowsRaced` bounds what may differ in a window;
  `LastFromOriginal` gives what a single replacement wrote. From `Inv` follow
  `TypesHold`, `NeverBlind`, `Undone`, `ReadOnly` and the action property
  `LossesAreNamed`. `UndoneForGood` adds what is not needed before the rollback ends: nobody
  takes text out of a file in which a window is open (`WindowsCover`), and a file replaced once
  still holds its snapshot (`LastCovers`), so the rollback of another job can only bring an edit
  back where that job replaced text repeatedly. Three steps write files; all others are `Quiet`,
  and one lemma disposes of them.
* **NativeUpdate.** What the rows say must survive a database that is put back, so the
  invariant cannot be about the database in place. `Databases` says of *every* database there
  is (the one in place, the replaced one a service may still have open, each archive) that it is `Sound`:
  each row is of a request up to the one whose archive it is (`used` for the other two), known good versions
  ran, an install that claims a backup has it with the schema it names. Restoring an archive then keeps it. `Forgotten` is the part of a rollback: from the helper's
  restore until its journal entry, and as long as the entry waits for a restart, no unfinished row of
  it is there, which needs that a rollback restores an *earlier* archive and makes none of its own
  (`Journals`). What a step does to rows is `Follows`: an old row stays and is not taken back from
  known good, a new one is `Fresh`. Proved: `TypeCorrect`, `KnownGoodVersionsRan`,
  `InstallsAreUndoable`, `DatabasesForget`, and the action property
  `RollbacksAreRecorded`.
* **Gateway.** `AlertsOnce` counts arrivals; that one row is never sent twice depends on
  who may still send it. `Known` says that of a row that is not `unsure` it is known
  how often it arrived: a pending one never, and it is under way with one sender or waits
  in one retry's `left`, not both. `Ordered` (an older row that is not to be sent is not pending) gives
  `ReadyLeavesNoGap`; `Stopping` (a stop told the callbacks before it closed the client) gives
  `StopAlertsOnce`; `AlertsArriveOnce`, `TypeCorrect` follow at once.
* **Discord.** `ScopesAreSweptOnce` needs that a scope that waits for its confirmation has
  not been swept (`Unswept`): the record is removed before the sweep's await, so a second
  confirmation finds none. `NoticesStayInSession` needs that the place kept for a job is that of an
  answered message of its session and user (`Placed`), while replies overtake each other and the newest job of
  a session changes (`Queue`).
* **Conversation and Secretary.** `Effects` relates the effects an attempt really had to its trace: a
  change leaves a mark (`Marked`) that `SideEffectState` never classifies as read-only, whatever
  the tools reported; hence `NoRequestHasTwoEffects`. `Speech` says how often a request's answer is
  in which log at each stage, over the call of the Secretary made for it, and that other requests'
  messages never count; the logs grow (`Says`) or lose exactly the superseded answer (`Supersedes`); hence
  `EveryRequestHasOneAnswer`. `SecretaryVoiceKept`: a call that
  tries models either tries the voice it read alone, or looked for it in vain (`Loyal`), through
  both calls of `_secretary_candidates`. It is proved a second time with the conversations around the
  Secretary (`ConversationVoiceKept`).
* **ProjectLead.** After a crash only the rows are left, so the invariant ties the rows
  to the statement the coroutine was at: `RowAt` for planning under a manager, `MilestonesAt` for the loop (the milestones before the one at
  work accepted, those after it untouched, the pointer at it until it is accepted), each of them but for a
  status written by hand. A step touches one
  project; each action is a lemma about that project's row, milestones and coroutine. Proved:
  `TypeCorrect`, `CommitsAreOrdered`, `MilestonesAreInOrder`.
* **Homelab.** The tables in the middle of an import, and after any number of dead ones, are described
  by how far it is: `FactsSoFar` (of one document up to the first statement, of the new one
  after it, with all facts of the lines before the current one), `Loops` (entities before records,
  provenance before facts), `Aliases` (the last statement that wrote a name decides what it stands for,
  and what earlier imports left is overwritten for every name the document gives). Proved:
  `TypeCorrect`, `AnswersNeverMixed`, `LookupsAreCurrent`.

A property that a bounded run had confirmed and that is false turned up in one proof:
`RestoredDbForgets` without `Overtaken` fails from four requests on (Findings, 3).

**Only model-checked**: the liveness properties `CancelWins`, `WaitersServed`,
`JobsSettle`, `JobCloses` and `EveryoneAnswered`, because liveness under fairness and
`ENABLED` are out of the prover's reach. `SettledRewrites` (a settled row is
rewritten only after a PATCH on a live task or an accepted cancel) is the
reverse: proved (`RewritesHold`), and in no run. What a recursive definition computes
for every input cannot be proved (induction theorems take an operator): no
module declares a RECURSIVE operator, and where an induction is needed (a nonempty set of numbers has a
least element, a finite one a greatest) it is taken from the well-foundedness of
strict inclusion of finite sets. `SelectSeq` is opaque to the provers for the same reason: nothing that is
proved rests on what it returns.

## Not modelled, and why

* Payloads, result documents, wording, timestamps, audit and telemetry rows: no
  property depends on them. Request validation and authorization of tools change
  no state.
* `delegate_agent`'s own loop for the infrastructure role, `apply_patch` and the file
  sampling of `inspect_file`: file contents are abstracted to the edits in them.
* Updates: manifest and policy, plans and planned rows, the external-update
  endpoint, configuration files, the helper's `backup` and `restore` verbs. The lock
  that is not released when the INSERT before the `try` raises (`api.py:517`).
  `RollbackRecorded` excepts a service that spans the helper's restore and
  journal steps with the removed database open.
* Discord: permission and mention checks (no state), chunking, channel discovery.
* The rules by which a text is recognised as a lookup, a project or an
  infrastructure request: string patterns; their results are the inputs of `Handle`.
* The scores by which `capability_selection` orders targets: the order is the constant
  `AgentRoute`.
* Homelab: the Markdown parser, the exclusion of secret fields, and the recognition of
  the entity in a question. `import_text` has no caller in the service itself; a
  lookup runs in the service while an operator imports. Two imports at once are left out: only
  somebody who runs the importer by hand twice could start them.
* Homelab: which facts a cut-off answer shows (by property, then by age in whole seconds), and a
  label asked for with other capitals than one of several spelled alike.
* Projects: the table of managers; nothing in the program writes it after the migrations, and
  `AssignRaises` covers whatever an operator does to it by hand.
* Most of `api.py` is CRUD over registries and most of `migrations.py` DDL: statements
  without a protocol.
* The components with status `not_modelled` in `PROJECT.json`, each with its reason.

## Plan

What is left to prove are refinements: an abstract specification of what a conversation
promises (a request is asked, then answered once or refused) and one of what an import of
homelab facts promises (the facts of one document, complete at the end), each implemented by the
detailed module as `Jobs` implements `JobContract`, from the invariants proved already.
