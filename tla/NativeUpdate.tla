---------------------------- MODULE NativeUpdate ----------------------------
(***************************************************************************)
(* Managed updates and rollbacks of a native installation: the handler     *)
(* apply_native_update and the startup of create_app (virtizai_core/       *)
(* api.py), UpdateCoordinator and StartupUpdateReconciler (updates.py),    *)
(* the journal and its reconciler (transactions.py), the root-owned helper *)
(* and its runner (packaging/virtizai-update-helper, -runner).             *)
(*                                                                         *)
(* The handler has no await, so it runs alone on the event loop, but the   *)
(* helper is another process, the service manager restarts the service on  *)
(* a timer, and a crash or a power loss falls between any two durable      *)
(* steps; those steps are the actions.                                     *)
(*                                                                         *)
(* Abstracted: the database is its schema version, the update history and  *)
(* the registered backups; checksums and paths are right or the request is *)
(* refused; configuration files and everything the rest of the program     *)
(* stores are left out.                                                    *)
(***************************************************************************)
EXTENDS Naturals, Sequences, FiniteSets, FiniteSetsExt

CONSTANTS
  Versions,      \* application versions, ordered as numbers
  SchemaOf,      \* SchemaOf[v]: last migration of version v
  First,         \* the version installed at the beginning
  Baseline,      \* MIN_MANAGED_ROLLBACK_VERSION
  MaxRequests,   \* bound: requests of POST /v1/updates/native/{operation}
  Updated        \* request 1 installed First before the behaviours begin

ASSUME VersionsAssumption ==
  /\ Versions \subseteq Nat /\ IsFiniteSet(Versions)
  /\ First \in Versions /\ Baseline \in Nat
  /\ SchemaOf \in [Versions -> Nat \ {0}]
  /\ MaxRequests \in Nat /\ Updated \in BOOLEAN
  /\ Updated => MaxRequests > 0

Ids == 1..MaxRequests
External == 0            \* stands for the fresh id of an external_update row
NoSchema == 0            \* target_schema left out of a request
NoBackup == 0            \* restore_data = false
Schemas == 0..Max({SchemaOf[v] : v \in Versions})
Statuses == {"started", "installed_pending_health", "known_good", "failed",
             "healthy"}

VARIABLES
  db,          \* database file: schema, rows of update_history, update_backups
  gone,        \* a database whose file was replaced under the service
  attached,    \* the service has the database file open, not gone
  archive,     \* archive[i]: the database in the backup archive of request i
  journal,     \* journal[i]: update-transactions/i.json
  installed,   \* the version of the installed package
  svc,         \* "down", a startup stage, "up", "closed" (database closed)
  running,     \* the version the service runs, or last ran
  task,        \* the handler of the one request in progress
  launch,      \* accepted rollbacks whose background task did not run
  helper,      \* the helper process, holder of update.lock
  timer,       \* a transient unit will restart the service
  used,        \* requests so far
  ran          \* history: versions that opened the database

vars == <<db, gone, attached, archive, journal, installed, svc, running, task,
          launch, helper, timer, used, ran>>

NoTask == [at |-> "none", id |-> 0, op |-> "update", version |-> First,
           art |-> First, target |-> NoSchema, from |-> NoBackup]
NoHelper == [step |-> "none", id |-> 0]
Absent == [stage |-> "none"]
Empty == [schema |-> SchemaOf[First], rows |-> <<>>, backups |-> {}]

Rows(d) == {d.rows[i] : i \in DOMAIN d.rows}
RowType == [id : 0..MaxRequests, version : Versions, status : Statuses,
            action : {"update", "rollback", "external"},
            target : Schemas, base : Schemas]
Database == [schema : Schemas \ {0}, rows : Seq(RowType), backups : SUBSET Ids]
Journal == [stage : {"REQUESTED", "RESTART_PENDING"}, version : Versions,
            art : Versions, from : Ids, schema : Schemas]

TypeOK ==
  /\ {db, gone} \subseteq Database
  /\ attached \in BOOLEAN
  /\ archive \in [Ids -> Database \cup {Absent}]
  /\ journal \in [Ids -> Journal \cup {Absent}]
  /\ {installed, running} \subseteq Versions
  /\ svc \in {"down", "starting", "opened", "reconciled", "detected", "up",
              "closed"}
  /\ task \in [at : {"none", "check", "register", "install", "wait", "installed",
                     "refused"},
               id : 0..MaxRequests, op : {"update", "rollback"}, version : Versions,
               art : Versions, target : Schemas, from : 0..MaxRequests]
  /\ launch \subseteq Ids
  /\ helper.step \in {"none", "install", "timer", "stop", "restore", "package",
                      "journal", "start"}
  /\ timer \in BOOLEAN
  /\ used \in 0..MaxRequests
  /\ ran \subseteq Versions

Row(i, v, act, st) == [id |-> i, version |-> v, status |-> st, action |-> act,
                       target |-> NoSchema, base |-> NoSchema]

(* What the completed request 1 left: its row, which its own archive still *)
(* holds as started, and a registered backup.                              *)
AfterUpdate ==
  [schema |-> SchemaOf[First], backups |-> {1},
   rows |-> <<[Row(1, First, "update", "known_good")
               EXCEPT !.target = SchemaOf[First], !.base = SchemaOf[First]]>>]
BeforeUpdate ==
  [Empty EXCEPT !.rows = <<Row(1, First, "update", "started")>>]

Init ==
  /\ db = IF Updated THEN AfterUpdate ELSE Empty
  /\ gone = Empty /\ attached = TRUE
  /\ archive = [i \in Ids |-> IF Updated /\ i = 1 THEN BeforeUpdate
                                                 ELSE Absent]
  /\ journal = [i \in Ids |-> Absent]
  /\ installed = First
  /\ running = installed
  /\ svc = "up"
  /\ task = NoTask
  /\ launch = {}
  /\ helper = NoHelper
  /\ timer = FALSE
  /\ used = IF Updated THEN 1 ELSE 0
  /\ ran = {First}

-----------------------------------------------------------------------------
(* The service's statements go to the database it has open.                *)
Open == IF attached THEN db ELSE gone
Write(d) == IF attached THEN db' = d /\ UNCHANGED gone
                        ELSE gone' = d /\ UNCHANGED db

Insert(d, r) == [d EXCEPT !.rows = Append(@, r)]
(* UPDATE update_history ... WHERE id = i, with r in the place of the row.  *)
Update(d, i, f(_)) ==
  [d EXCEPT !.rows = [k \in DOMAIN @ |-> IF @[k].id = i THEN f(@[k]) ELSE @[k]]]
Failed(r) == [r EXCEPT !.status = "failed"]

At(place) == svc \in {"up", "closed"} /\ task.at = place
Reach(place) == task' = [task EXCEPT !.at = place]

(* POST /v1/updates/native/{operation}: the row is the first thing written. *)
Request(op, v, a, t, b) ==
  /\ svc = "up" /\ task = NoTask /\ used < MaxRequests
  /\ used' = used + 1
  /\ Write(Insert(Open, Row(used + 1, v, op, "started")))
  /\ task' = [at |-> "check", id |-> used + 1, op |-> op, version |-> v,
              art |-> a, target |-> t, from |-> b]
  /\ UNCHANGED <<attached, archive, journal, installed, svc, running, launch,
                 helper, timer, ran>>

(* What must be refused; anything can be, for a wrong path or checksum.    *)
Unsupported ==
  /\ task.op = "rollback"
  /\ \/ task.version < Baseline
     \/ /\ task.target # NoSchema /\ task.target < Open.schema
        /\ task.from = NoBackup
     \/ /\ task.from # NoBackup
        /\ task.from \notin Open.backups

Refuse ==
  /\ At("check")
  /\ Reach("refused")
  /\ UNCHANGED <<db, gone, attached, archive, journal, installed, svc, running,
                 launch, helper, timer, used, ran>>

(* A data-restoring rollback is journaled and answered 202.                *)
AcceptRestore ==
  /\ At("check") /\ svc = "up" /\ ~Unsupported
  /\ task.from # NoBackup
  /\ journal' = [journal EXCEPT ![task.id] =
       [stage |-> "REQUESTED", version |-> task.version, art |-> task.art,
        from |-> task.from, schema |-> archive[task.from].schema]]
  /\ launch' = launch \cup {task.id}
  /\ task' = NoTask
  /\ UNCHANGED <<db, gone, attached, archive, installed, svc, running, helper,
                 timer, used, ran>>

(* Mutant: the backup is never registered.                                 *)
BackupUnregistered ==
  /\ At("check") /\ svc = "up" /\ ~Unsupported
  /\ task.from = NoBackup
  /\ archive' = [archive EXCEPT ![task.id] = Open]
  /\ Reach("install")
  /\ UNCHANGED <<db, gone, attached, journal, installed, svc, running, launch,
                 helper, timer, used, ran>>

(* UpdateCoordinator.backup: the archive, then its row.                    *)
Backup ==
  /\ At("check") /\ svc = "up" /\ ~Unsupported
  /\ task.from = NoBackup
  /\ archive' = [archive EXCEPT ![task.id] = Open]
  /\ Reach("register")
  /\ UNCHANGED <<db, gone, attached, journal, installed, svc, running, launch,
                 helper, timer, used, ran>>

Register ==
  /\ At("register") /\ svc = "up"
  /\ Write([Open EXCEPT !.backups = @ \cup {task.id}])
  /\ Reach("install")
  /\ UNCHANGED <<attached, archive, journal, installed, svc, running, launch,
                 helper, timer, used, ran>>

(* The handler blocks in helper.run, or the lock file is held, or the      *)
(* helper could not be run at all.                                         *)
CallInstall ==
  /\ At("install")
  /\ \/ /\ helper = NoHelper
        /\ helper' = [step |-> "install", id |-> task.id, art |-> task.art]
        /\ Reach("wait")
     \/ Reach("refused") /\ UNCHANGED helper
  /\ UNCHANGED <<db, gone, attached, archive, journal, installed, svc, running,
                 launch, timer, used, ran>>

(* A background task closed the database under the handler.                *)
DatabaseClosed ==
  /\ svc = "closed" /\ task.at \in {"check", "register"}
  /\ task' = NoTask
  /\ UNCHANGED <<db, gone, attached, archive, journal, installed, svc, running,
                 launch, helper, timer, used, ran>>

(* subprocess.TimeoutExpired is neither UpdateFailure nor OSError: the row *)
(* stays "started" and the transient unit goes on.                         *)
CallTimesOut ==
  /\ At("wait")
  /\ task' = NoTask
  /\ UNCHANGED <<db, gone, attached, archive, journal, installed, svc, running,
                 launch, helper, timer, used, ran>>

(* Mutant: a status that the startup does not look for.                    *)
PendingMisnamed(r) == [r EXCEPT !.status = "installed",
                                !.target = task.target,
                                !.base = archive[task.id].schema]

(* The final UPDATE; on a closed database the first raises RuntimeError    *)
(* and the second is skipped.                                              *)
Pending(r) == [r EXCEPT !.status = "installed_pending_health",
                        !.target = task.target,
                        !.base = archive[task.id].schema]

Conclude ==
  /\ At("installed") \/ At("refused")
  /\ IF svc = "closed" THEN UNCHANGED <<db, gone>>
     ELSE IF task.at = "installed" THEN Write(Update(Open, task.id, Pending))
     ELSE Write(Update(Open, task.id, Failed))
  /\ task' = NoTask
  /\ UNCHANGED <<attached, archive, journal, installed, svc, running, launch,
                 helper, timer, used, ran>>

(* The background task, in a thread: the database is closed, then the      *)
(* runner is asked for a transient unit, which needs update.lock.          *)
Launch(i) ==
  /\ i \in launch /\ svc \in {"up", "closed"}
  /\ launch' = launch \ {i}
  /\ svc' = "closed"
  /\ \/ /\ helper = NoHelper
        /\ helper' = [step |-> "stop", id |-> i]
     \/ UNCHANGED helper
  /\ UNCHANGED <<db, gone, attached, archive, journal, installed, running,
                 task, timer, used, ran>>

-----------------------------------------------------------------------------
(* The helper.  Under set -e a step that fails ends it.                    *)
HelperAt(s) == helper.step = s
Goto(s) == helper' = [helper EXCEPT !.step = s]
Tell(place) ==
  IF task.at = "wait" /\ task.id = helper.id THEN Reach(place)
                                             ELSE UNCHANGED task

HelperFails ==
  /\ ~HelperAt("none")
  /\ helper' = NoHelper
  /\ Tell("refused")
  /\ UNCHANGED <<db, gone, attached, archive, journal, installed, svc, running,
                 launch, timer, used, ran>>

(* install)                                                                *)
HelperInstall ==
  /\ HelperAt("install")
  /\ installed' = helper.art
  /\ Goto("timer")
  /\ UNCHANGED <<db, gone, attached, archive, journal, svc, running, task,
                 launch, timer, used, ran>>

HelperTimer ==
  /\ HelperAt("timer")
  /\ timer' = TRUE
  /\ helper' = NoHelper
  /\ Tell("installed")
  /\ UNCHANGED <<db, gone, attached, archive, journal, installed, svc, running,
                 launch, used, ran>>

(* rollback)                                                               *)
Stopped == task' = NoTask /\ launch' = {} /\ attached' = TRUE /\ gone' = Empty

HelperStop ==
  /\ HelperAt("stop")
  /\ svc' = "down" /\ Stopped
  /\ Goto("restore")
  /\ UNCHANGED <<db, archive, journal, installed, running, timer, used, ran>>

(* Mutant: the database is left as it is.                                  *)
HelperRestoreSkipped ==
  /\ HelperAt("restore")
  /\ Goto("package")
  /\ UNCHANGED <<db, gone, attached, archive, journal, installed, svc, running,
                 task, launch, timer, used, ran>>

(* A service that was started meanwhile keeps the replaced file open.      *)
HelperRestore ==
  /\ HelperAt("restore")
  /\ db' = archive[journal[helper.id].from]
  /\ IF svc \in {"down", "starting"} \/ ~attached
       THEN UNCHANGED <<gone, attached>>
       ELSE gone' = db /\ attached' = FALSE
  /\ Goto("package")
  /\ UNCHANGED <<archive, journal, installed, svc, running, task, launch,
                 timer, used, ran>>

HelperPackage ==
  /\ HelperAt("package")
  /\ installed' = journal[helper.id].art
  /\ Goto("journal")
  /\ UNCHANGED <<db, gone, attached, archive, journal, svc, running, task,
                 launch, timer, used, ran>>

HelperJournal ==
  /\ HelperAt("journal")
  /\ journal' = [journal EXCEPT ![helper.id].stage = "RESTART_PENDING"]
  /\ Goto("start")
  /\ UNCHANGED <<db, gone, attached, archive, installed, svc, running, task,
                 launch, timer, used, ran>>

(* systemctl start does nothing to a service that is up.                   *)
HelperStart ==
  /\ HelperAt("start")
  /\ IF svc = "down" THEN svc' = "starting" /\ running' = installed
                     ELSE UNCHANGED <<svc, running>>
  /\ helper' = NoHelper
  /\ UNCHANGED <<db, gone, attached, archive, journal, installed, task, launch,
                 timer, used, ran>>

-----------------------------------------------------------------------------
(* The service manager.                                                    *)
TimerFires ==
  /\ timer
  /\ timer' = FALSE
  /\ svc' = "starting" /\ running' = installed /\ Stopped
  /\ UNCHANGED <<db, archive, journal, installed, helper, used, ran>>

Start ==
  /\ svc = "down"
  /\ svc' = "starting" /\ running' = installed
  /\ UNCHANGED <<db, gone, attached, archive, journal, installed, task, launch,
                 helper, timer, used, ran>>

Crash ==
  /\ svc # "down"
  /\ svc' = "down" /\ Stopped
  /\ UNCHANGED <<db, archive, journal, installed, running, helper, timer, used,
                 ran>>

(* Somebody installs a package without the manager; its scripts restart    *)
(* the service.                                                            *)
InstallPackage(v) ==
  /\ installed' = v
  /\ svc' = "starting" /\ running' = installed' /\ Stopped
  /\ UNCHANGED <<db, archive, journal, helper, timer, used, ran>>

PowerLoss ==
  /\ svc' = "down" /\ Stopped
  /\ helper' = NoHelper /\ timer' = FALSE
  /\ UNCHANGED <<db, archive, journal, installed, running, used, ran>>

-----------------------------------------------------------------------------
(* create_app.  Database.open migrates; an older program leaves a newer    *)
(* schema alone.                                                           *)
OpenDatabase ==
  /\ svc = "starting"
  /\ db' = [db EXCEPT !.schema = Max({@, SchemaOf[running]})]
  /\ ran' = ran \cup {running}
  /\ svc' = "opened"
  /\ UNCHANGED <<gone, attached, archive, journal, installed, running, task,
                 launch, helper, timer, used>>

(* It, or a migration, raised: the last pending row takes the blame.       *)
LastOf(d, P(_)) == Max({k \in DOMAIN d.rows : P(d.rows[k])})
IsPending(r) == r.status = "installed_pending_health"
IsKnownGood(r) == r.status = "known_good"

BlamePending(d) ==
  IF \E r \in Rows(d) : IsPending(r)
    THEN [d EXCEPT !.rows[LastOf(d, IsPending)] = Failed(@)]
    ELSE d

OpenFails ==
  /\ svc = "starting"
  /\ \E s \in db.schema..Max({db.schema, SchemaOf[running] - 1}) :
       db' = [BlamePending(db) EXCEPT !.schema = s]
  /\ svc' = "down"
  /\ UNCHANGED <<gone, attached, archive, journal, installed, running, task,
                 launch, helper, timer, used, ran>>

(* Mutant: pending rows of any version are promoted.                       *)
ReconciledAnyVersion(r, healthy) ==
  IF IsPending(r)
    THEN [r EXCEPT !.status = IF healthy /\ r.target = Open.schema
                              THEN "known_good" ELSE "failed"]
    ELSE r

(* StartupUpdateReconciler.reconcile; every pending row of the request's   *)
(* making has a verified backup.  The metadata always holds target_schema, *)
(* so its default, the backup's schema, is never used.                     *)
Reconciled(r, healthy) ==
  IF IsPending(r) /\ r.version = running
    THEN [r EXCEPT !.status = IF healthy /\ r.target = Open.schema
                              THEN "known_good" ELSE "failed"]
    ELSE r

ReconcileUpdates(healthy) ==
  /\ svc = "opened"
  /\ Write([Open EXCEPT !.rows =
              [k \in DOMAIN @ |-> Reconciled(@[k], healthy)]])
  /\ svc' = "reconciled"
  /\ UNCHANGED <<attached, archive, journal, installed, running, task, launch,
                 helper, timer, used, ran>>

(* A version that the last known good row does not explain.                *)
Unexplained(d) ==
  /\ \E r \in Rows(d) : IsKnownGood(r)
  /\ d.rows[LastOf(d, IsKnownGood)].version # running
  /\ \A r \in Rows(d) : r.version = running =>
       /\ r.status \notin {"installed_pending_health", "failed"}
       /\ r.action # "external"

DetectExternal ==
  /\ svc = "reconciled"
  /\ Write(IF Unexplained(Open)
           THEN Insert(Open,
                       Row(External, running, "external", "healthy"))
           ELSE Open)
  /\ svc' = "detected"
  /\ UNCHANGED <<attached, archive, journal, installed, running, task, launch,
                 helper, timer, used, ran>>

(* StartupTransactionReconciler.reconcile: the row, then the journal.      *)
Completed(i) ==
  /\ svc = "detected"
  /\ journal[i].stage = "RESTART_PENDING"
  /\ journal[i].version = running
  /\ journal[i].schema = Open.schema

Recorded(d, i) == \E r \in Rows(d) : r.id = i

(* Mutant: the journal first.                                              *)
RemoveTransactionFirst(i) ==
  /\ Completed(i)
  /\ journal' = [journal EXCEPT ![i] = Absent]
  /\ UNCHANGED <<db, gone, attached, archive, installed, svc, running, task,
                 launch, helper, timer, used, ran>>

PersistTransaction(i) ==
  /\ Completed(i) /\ ~Recorded(Open, i)
  /\ Write(Insert(Open, Row(i, running, "rollback", "known_good")))
  /\ UNCHANGED <<attached, archive, journal, installed, svc, running, task,
                 launch, helper, timer, used, ran>>

RemoveTransaction(i) ==
  /\ Completed(i) /\ Recorded(Open, i)
  /\ journal' = [journal EXCEPT ![i] = Absent]
  /\ UNCHANGED <<db, gone, attached, archive, installed, svc, running, task,
                 launch, helper, timer, used, ran>>

Serve ==
  /\ svc = "detected" /\ \A i \in Ids : ~Completed(i)
  /\ svc' = "up"
  /\ UNCHANGED <<db, gone, attached, archive, journal, installed, running,
                 task, launch, helper, timer, used, ran>>

-----------------------------------------------------------------------------
Client ==
  \E op \in {"update", "rollback"}, v, a \in Versions,
     t \in {NoSchema} \cup {SchemaOf[w] : w \in Versions},
     b \in {NoBackup} \cup {i \in Ids : archive[i] # Absent} :
       /\ op = "update" => b = NoBackup
       /\ Request(op, v, a, t, b)

Handler ==
  \/ Refuse \/ AcceptRestore \/ Backup \/ Register \/ CallInstall
  \/ DatabaseClosed \/ CallTimesOut \/ Conclude \/ \E i \in Ids : Launch(i)

Helper ==
  \/ HelperFails \/ HelperInstall \/ HelperTimer \/ HelperStop
  \/ HelperRestore \/ HelperPackage \/ HelperJournal \/ HelperStart

Startup ==
  \/ OpenDatabase \/ OpenFails
  \/ \E healthy \in BOOLEAN : ReconcileUpdates(healthy)
  \/ DetectExternal
  \/ \E i \in Ids : PersistTransaction(i) \/ RemoveTransaction(i)
  \/ Serve

Manager ==
  \/ TimerFires \/ Start \/ Crash \/ PowerLoss
  \/ \E v \in Versions : InstallPackage(v)

Next == Client \/ Handler \/ Helper \/ Startup \/ Manager

Spec == Init /\ [][Next]_vars

-----------------------------------------------------------------------------
(* Only versions that came up on the database are ever called known good,  *)
(* through every restart, restore and crash in between.                    *)
KnownGoodRan ==
  \A d \in {db, Open} : \A r \in Rows(d) :
    r.status = "known_good" => r.version \in ran

(* Whatever an install put in place can be undone: its row, pending or     *)
(* known good, comes with a registered backup whose archive exists and has *)
(* the schema the row says, in restored databases too.                     *)
InstallUndoable ==
  \A r \in Rows(db) :
    r.status \in {"installed_pending_health", "known_good"} /\ r.base # NoSchema
      => /\ r.id \in db.backups
         /\ archive[r.id] # Absent /\ archive[r.id].schema = r.base

(* A request that was archived by a later one while it was unfinished.     *)
Overtaken(i) ==
  \E k \in Ids : /\ k > i /\ archive[k] # Absent
                 /\ \E r \in Rows(archive[k]) : r.id = i /\ r.status # "known_good"

(* The database never holds an unfinished row of a completed rollback, so  *)
(* that the startup's "already recorded" test cannot mistake one for the   *)
(* record of its success; but for a row that came back with a backup which *)
(* a later request made while the rollback was waiting.                    *)
RestoredDbForgets ==
  \A i \in Ids : journal[i].stage = "RESTART_PENDING"
    => \A r \in Rows(db) : r.id = i => r.status = "known_good" \/ Overtaken(i)

(* The journal of a completed rollback disappears only when the database   *)
(* on disk records the rollback as known good.  Excepted are a service     *)
(* that was started during the rollback and still has the replaced file    *)
(* open, and a row that came back as in RestoredDbForgets.                 *)
RollbackRecorded ==
  [][\A i \in Ids :
       journal[i].stage = "RESTART_PENDING" /\ journal'[i] = Absent /\ attached
         => \/ \E r \in Rows(db') : r.id = i /\ r.status = "known_good"
            \/ Overtaken(i)]_vars

(* "Persist completed helper transactions into the database after restart" *)
(* (transactions.py:54): without that second exception.                    *)
RollbackPersisted ==
  [][\A i \in Ids :
       journal[i].stage = "RESTART_PENDING" /\ journal'[i] = Absent /\ attached
         => \E r \in Rows(db') : r.id = i /\ r.status = "known_good"]_vars
=============================================================================
