------------------------- MODULE NativeUpdateProofs -------------------------
(***************************************************************************)
(* Proofs about NativeUpdate for every set of versions, their schemas, and *)
(* any number of requests: what the update history says of installs,       *)
(* rollbacks and backups survives crashes, power losses and restored       *)
(* databases.                                                              *)
(***************************************************************************)
EXTENDS NativeUpdate, FiniteSetTheorems, SequenceTheorems, WellFoundedInduction, TLAPS

(* What a row of a database says of its backups B, the archives A, the     *)
(* requests up to u and the versions R that ran.                           *)
GoodRow(r, B, A, u, R) ==
  /\ r.id <= u
  /\ r.status = "known_good" => r.version \in R
  /\ r.status \in {"installed_pending_health", "known_good"} /\ r.base # NoSchema
       => r.id \in B /\ A[r.id].schema = r.base

(* What the primary key of update_history gives.                          *)
Unique(q) == \A j, k \in DOMAIN q : j # k /\ q[j].id = q[k].id => q[j].id = External

(* A database that only requests up to u could have written.               *)
Sound(d, A, u, R) ==
  /\ d \in Database
  /\ Unique(d.rows)
  /\ \A k \in DOMAIN d.rows : GoodRow(d.rows[k], d.backups, A, u, R)
  /\ \A i \in d.backups : i <= u /\ A[i] # Absent

(* So is every database there is, in an archive up to its own request.     *)
Databases ==
  /\ Sound(db, archive, used, ran) /\ Sound(gone, archive, used, ran)
  /\ \A i \in Ids : archive[i] # Absent => i <= used /\ Sound(archive[i], archive, i, ran)

TaskType ==
  [at : {"none", "check", "register", "install", "wait", "installed", "refused"},
   id : 0 .. MaxRequests, op : {"update", "rollback"}, version : Versions,
   art : Versions, target : Schemas, from : 0 .. MaxRequests]

(* The types of the rest, and the shape of a helper.                       *)
Types ==
  /\ attached \in BOOLEAN
  /\ archive \in [Ids -> Database \cup {Absent}]
  /\ journal \in [Ids -> Journal \cup {Absent}]
  /\ installed \in Versions /\ running \in Versions
  /\ svc \in {"down", "starting", "opened", "reconciled", "detected", "up", "closed"}
  /\ task \in TaskType
  /\ launch \subseteq Ids
  /\ timer \in BOOLEAN
  /\ used \in 0 .. MaxRequests
  /\ ran \subseteq Versions

Steps == {"none", "install", "timer", "stop", "restore", "package", "journal", "start"}
HelperShape ==
  helper \in [step : Steps, id : 0 .. MaxRequests]
               \cup [step : Steps, id : 0 .. MaxRequests, art : Versions]

(* Only a service that is up has a handler or a background task, and one   *)
(* that has not opened the database holds no replaced file.                *)
Serving ==
  /\ svc \in {"down", "starting"} => attached
  /\ svc \notin {"up", "closed"} => task = NoTask /\ launch = {}
  /\ svc \notin {"down", "starting"} => running \in ran

(* The handler is that of the last request.                                *)
Tasks ==
  /\ task.at # "none" => used \in Ids /\ task.id = used /\ journal[used] = Absent
  /\ task.at = "none" => task = NoTask
  /\ task.op = "update" => task.from = NoBackup
  /\ task.at = "check" => archive[used] = Absent
  /\ task.at \in {"register", "install", "wait", "installed"} => archive[used] # Absent
  /\ task.at \in {"install", "wait", "installed"} => used \in Open.backups

(* A rollback restores the archive of an earlier request and has none.     *)
Journals ==
  /\ \A i \in Ids : journal[i] # Absent =>
       /\ i <= used /\ journal[i].from < i
       /\ archive[journal[i].from] # Absent /\ archive[i] = Absent
  /\ \A i \in launch : journal[i].stage = "REQUESTED"

(* The helper is at a rollback that is journaled and not done.             *)
Helpers ==
  /\ helper.step = "none" => helper = NoHelper
  /\ helper.step = "install" => helper.art \in Versions
  /\ helper.step \in {"stop", "restore", "package", "journal"} =>
       helper.id \in Ids \ launch /\ journal[helper.id].stage = "REQUESTED"

(* Once the database is restored its rollback has no row in it.            *)
Forgotten ==
  /\ helper.step \in {"package", "journal"} =>
       \A k \in DOMAIN db.rows : db.rows[k].id # helper.id
  /\ RestoredDbForgets

(* The inductive invariant.                                                *)
Inv ==
  /\ Types /\ HelperShape
  /\ Databases
  /\ Serving
  /\ Tasks
  /\ Journals
  /\ Helpers
  /\ Forgotten

(* A row that the rollbacks' journals do not forbid, and a database in     *)
(* which all other rows were in d.                                         *)
Fresh(r) ==
  \/ r.id = External
  \/ journal[r.id] = Absent
  \/ r.status = "known_good" /\ journal[r.id].stage = "RESTART_PENDING"
Follows(d, e) ==
  \A k \in DOMAIN e.rows :
    \/ /\ k \in DOMAIN d.rows /\ e.rows[k].id = d.rows[k].id
       /\ d.rows[k].status = "known_good" => e.rows[k].status = "known_good"
    \/ Fresh(e.rows[k])
-----------------------------------------------------------------------------
(* A finite set of numbers that is not empty has a greatest one.           *)
LEMMA GreatestNat ==
  ASSUME NEW S \in SUBSET Nat, S # {}, IsFiniteSet(S)
  PROVE  Max(S) \in S /\ \A y \in S : Max(S) >= y
<1> DEFINE Top(T) == \E x \in T : \A y \in T : x >= y
           Bad == {T \in FiniteSubsetsOf(Nat) : T # {} /\ ~Top(T)}
<1>1. Bad = {}
  <2> SUFFICES ASSUME Bad # {} PROVE FALSE
    OBVIOUS
  <2>1. PICK T \in Bad : \A U \in Bad : <<U, T>> \notin StrictSubsetOrdering(Nat)
    <3>1. Bad \subseteq FiniteSubsetsOf(Nat)
      OBVIOUS
    <3> HIDE DEF Bad
    <3> QED
      BY <3>1, WFMin, FS_StrictSubsetOrderingWellFounded
  <2>2. T \subseteq Nat /\ IsFiniteSet(T) /\ T # {} /\ ~Top(T)
    BY DEF FiniteSubsetsOf
  <2>3. PICK x \in T : TRUE
    BY <2>2
  <2> DEFINE U == T \ {x}
  <2>4. U \subseteq Nat /\ IsFiniteSet(U) /\ U \subseteq T /\ U # T
    BY <2>2, <2>3, FS_RemoveElement
  <2>5. U # {}
    BY <2>2, <2>3
  <2>6. U \notin Bad
    <3>1. <<U, T>> \in StrictSubsetOrdering(Nat)
      BY <2>2, <2>4, Zenon DEF StrictSubsetOrdering
    <3> QED
      BY <2>1, <3>1
  <2>7. PICK m \in U : \A y \in U : m >= y
    BY <2>4, <2>5, <2>6 DEF FiniteSubsetsOf
  <2>8. Top(T)
    <3>1. m \in T /\ x \in T /\ m \in Nat /\ x \in Nat
      BY <2>2, <2>3, <2>4, <2>7
    <3>2. CASE m >= x
      BY <2>7, <3>1, <3>2
    <3>3. CASE x > m
      <4>1. \A y \in T : x >= y
        BY <2>2, <2>7, <3>1, <3>3
      <4> QED
        BY <3>1, <4>1
    <3> QED
      BY <3>1, <3>2, <3>3
  <2> QED
    BY <2>2, <2>8
<1>2. \E x \in S : \A y \in S : x >= y
  BY <1>1 DEF FiniteSubsetsOf
<1> QED
  BY <1>2 DEF Max

(* The greater of two schemas.                                             *)
LEMMA MaxOfTwo ==
  ASSUME NEW m \in Nat, NEW n \in Nat
  PROVE  Max({m, n}) \in {m, n} /\ Max({m, n}) >= m /\ Max({m, n}) >= n
<1>1. {m, n} \in SUBSET Nat /\ {m, n} # {}
  OBVIOUS
<1>2. IsFiniteSet({m, n})
  <2>1. IsFiniteSet({m})
    BY FS_Singleton
  <2>2. IsFiniteSet({m} \cup {n})
    BY <2>1, FS_AddElement
  <2>3. {m, n} = {m} \cup {n}
    OBVIOUS
  <2> QED
    BY <2>2, <2>3, Zenon
<1> QED
  BY <1>1, <1>2, GreatestNat

(* Every version's schema is one of the numbers up to the greatest.        *)
LEMMA SchemasBounded ==
  ASSUME NEW v \in Versions
  PROVE  SchemaOf[v] \in Schemas \ {0} /\ Schemas \subseteq Nat /\ 0 \in Schemas
         /\ \A m, n \in Schemas : \A s \in m .. n : s \in Schemas
<1> DEFINE S == {SchemaOf[w] : w \in Versions}
<1>1. S \in SUBSET Nat /\ S # {} /\ SchemaOf[v] \in S /\ SchemaOf[v] # 0
  BY VersionsAssumption
<1>2. IsFiniteSet(S)
  <2>1. IsFiniteSet(Versions)
    BY VersionsAssumption
  <2> DEFINE f == [w \in Versions |-> SchemaOf[w]]
  <2>2. f \in Surjection(Versions, S)
    BY <1>1 DEF Surjection
  <2> HIDE DEF f, S
  <2> QED
    BY <2>1, <2>2, FS_Surjection
<1> HIDE DEF S
<1>3. Max(S) \in Nat /\ SchemaOf[v] <= Max(S) /\ SchemaOf[v] \in Nat
  BY <1>1, <1>2, GreatestNat
<1>4. Schemas = 0 .. Max(S)
  BY DEF Schemas, S
<1> HIDE DEF Schemas
<1> QED
  BY <1>1, <1>3, <1>4

(* A database is not the mark of a missing archive.                        *)
LEMMA DatabaseNotAbsent ==
  ASSUME NEW d \in Database
  PROVE  d # Absent
  BY DEF Database, Absent

(* Databases stay sound when archives are added, requests made or versions *)
(* run.                                                                    *)
LEMMA SoundStays ==
  ASSUME NEW d, NEW A, NEW u \in Nat, NEW R, Sound(d, A, u, R),
         NEW B, NEW v \in Nat, NEW S, u <= v, R \subseteq S,
         \A i \in Ids : A[i] # Absent => B[i] = A[i]
  PROVE  Sound(d, B, v, S)
<1> USE DEF Sound
<1>1. d.backups \subseteq Ids /\ \A i \in d.backups : i \in Nat
  BY DEF Database, Ids
<1>2. ASSUME NEW k \in DOMAIN d.rows PROVE GoodRow(d.rows[k], d.backups, B, v, S)
  <2>1. GoodRow(d.rows[k], d.backups, A, u, R)
    OBVIOUS
  <2>2. d.rows[k].id \in Nat
    <3>1. d.rows \in Seq(RowType)
      BY DEF Database
    <3>2. d.rows[k] \in RowType
      BY <3>1, ElementOfSeq, LenProperties
    <3> QED
      BY <3>2, VersionsAssumption DEF RowType
  <2> QED
    BY <1>1, <2>1, <2>2 DEF GoodRow
<1> QED
  BY <1>1, <1>2

(* A mapped sequence is a sequence.                                        *)
LEMMA MappedSeq ==
  ASSUME NEW S, NEW q \in Seq(S), NEW p, p = [k \in DOMAIN q |-> p[k]],
         \A k \in DOMAIN q : p[k] \in S
  PROVE  p \in Seq(S)
<1>1. DOMAIN q = 1 .. Len(q) /\ Len(q) \in Nat
  BY LenProperties
<1>2. p \in [1 .. Len(q) -> S]
  BY <1>1
<1> QED
  BY <1>1, <1>2, SeqDef

(* Rows that are rewritten in place.                                       *)
LEMMA RewrittenSound ==
  ASSUME NEW d, NEW A, NEW u \in Nat, NEW R, Sound(d, A, u, R),
         NEW q, q = [k \in DOMAIN d.rows |-> q[k]],
         \A k \in DOMAIN d.rows : /\ q[k] \in RowType /\ q[k].id = d.rows[k].id
                                  /\ GoodRow(q[k], d.backups, A, u, R)
  PROVE  Sound([d EXCEPT !.rows = q], A, u, R) /\ DOMAIN q = DOMAIN d.rows
<1> DEFINE e == [d EXCEPT !.rows = q]
<1>1. d \in Database /\ d.rows \in Seq(RowType)
  BY DEF Sound, Database
<1>2. q \in Seq(RowType) /\ DOMAIN q = DOMAIN d.rows
  BY <1>1, MappedSeq
<1>3. e \in Database /\ e.rows = q /\ e.backups = d.backups
  BY <1>1, <1>2 DEF Database
<1>4. Unique(q)
  BY <1>2 DEF Sound, Unique
<1> HIDE DEF e
<1>5. Sound(e, A, u, R)
  BY <1>2, <1>3, <1>4 DEF Sound
<1> QED
  BY <1>2, <1>5 DEF e

(* A row that is added.                                                    *)
LEMMA InsertedSound ==
  ASSUME NEW d, NEW A, NEW u \in Nat, NEW R, Sound(d, A, u, R),
         NEW r \in RowType, GoodRow(r, d.backups, A, u, R),
         r.id = External \/ \A k \in DOMAIN d.rows : d.rows[k].id # r.id
  PROVE  /\ Sound(Insert(d, r), A, u, R)
         /\ Insert(d, r).backups = d.backups
         /\ \A k \in DOMAIN Insert(d, r).rows :
              \/ k \in DOMAIN d.rows /\ Insert(d, r).rows[k] = d.rows[k]
              \/ Insert(d, r).rows[k] = r
<1> DEFINE q == Append(d.rows, r)
           e == Insert(d, r)
<1>1. d \in Database /\ d.rows \in Seq(RowType)
  BY DEF Sound, Database
<1>2. /\ q \in Seq(RowType)
      /\ \A k \in DOMAIN q : \/ k \in DOMAIN d.rows /\ q[k] = d.rows[k]
                             \/ k = Len(d.rows) + 1 /\ q[k] = r
  BY <1>1, AppendProperties, LenProperties
<1> HIDE DEF q
<1>3. e \in Database /\ e.rows = q /\ e.backups = d.backups
  BY <1>1, <1>2 DEF Database, Insert, q
<1> HIDE DEF e
<1>4. Unique(q)
  BY <1>2 DEF Sound, Unique
<1>5. Sound(e, A, u, R)
  BY <1>2, <1>3, <1>4 DEF Sound
<1> QED
  BY <1>2, <1>3, <1>5 DEF e

(* Another schema.                                                         *)
LEMMA MigratedSound ==
  ASSUME NEW d, NEW A, NEW u, NEW R, Sound(d, A, u, R), NEW s \in Schemas \ {0}
  PROVE  LET e == [d EXCEPT !.schema = s] IN Sound(e, A, u, R) /\ e.rows = d.rows
<1> DEFINE e == [d EXCEPT !.schema = s]
<1>1. e \in Database /\ e.rows = d.rows /\ e.backups = d.backups
  BY DEF Sound, Database
<1> HIDE DEF e
<1>2. Sound(e, A, u, R)
  BY <1>1 DEF Sound
<1> QED
  BY <1>1, <1>2 DEF e

(* The row that takes the blame is pending.                                *)
LEMMA Blamed ==
  ASSUME NEW d \in Database, \E r \in Rows(d) : IsPending(r)
  PROVE  \E n \in DOMAIN d.rows :
           /\ IsPending(d.rows[n])
           /\ BlamePending(d) = [d EXCEPT !.rows = [k \in DOMAIN d.rows |->
                                   IF k = n THEN Failed(d.rows[k]) ELSE d.rows[k]]]
<1> DEFINE S == {k \in DOMAIN d.rows : IsPending(d.rows[k])}
           n == Max(S)
<1>1. d.rows \in Seq(RowType)
  BY DEF Database
<1>2. DOMAIN d.rows = 1 .. Len(d.rows) /\ Len(d.rows) \in Nat /\ 1 \in Int /\ Len(d.rows) \in Int
  BY <1>1, LenProperties
<1>3. IsFiniteSet(S)
  <2>1. IsFiniteSet(1 .. Len(d.rows))
    BY <1>2, FS_Interval
  <2>2. S \subseteq 1 .. Len(d.rows)
    BY <1>2
  <2> QED
    BY <2>1, <2>2, FS_Subset
<1>4. S \in SUBSET Nat /\ S # {}
  BY <1>2 DEF Rows
<1>5. n \in S
  <2> HIDE DEF S
  <2> QED
    BY <1>3, <1>4, GreatestNat
<1>6. n \in DOMAIN d.rows /\ IsPending(d.rows[n])
  BY <1>5
<1>7. n = LastOf(d, IsPending)
  BY DEF LastOf
<1> HIDE DEF n
<1>8. BlamePending(d) = [d EXCEPT !.rows[n] = Failed(@)]
  BY <1>7 DEF BlamePending
<1>9. \A q : q = d.rows =>
        [q EXCEPT ![n] = Failed(@)] = [k \in DOMAIN q |-> IF k = n THEN Failed(q[k]) ELSE q[k]]
  OBVIOUS
<1>10. [d EXCEPT !.rows[n] = Failed(@)] = [d EXCEPT !.rows = [d.rows EXCEPT ![n] = Failed(@)]]
  BY DEF Database
<1> QED
  BY <1>6, <1>8, <1>9, <1>10
(* The rows of a database.                                                 *)
LEMMA RowsTyped ==
  ASSUME NEW d \in Database, NEW k \in DOMAIN d.rows
  PROVE  d.rows[k] \in RowType /\ d.rows[k].id \in Nat
<1>1. d.rows \in Seq(RowType)
  BY DEF Database
<1>2. d.rows[k] \in RowType
  BY <1>1, ElementOfSeq, LenProperties
<1> QED
  BY <1>2, VersionsAssumption DEF RowType

(* The database the service has open.                                      *)
LEMMA OpenSound ==
  ASSUME Databases
  PROVE  Sound(Open, archive, used, ran)
  BY DEF Databases, Open

(* A row that an archive holds as unfinished stays there.                  *)
LEMMA OvertakenStays ==
  ASSUME NEW i, Overtaken(i), \A k \in Ids : archive[k] # Absent => archive'[k] = archive[k]
  PROVE  Overtaken(i)'
  BY DEF Overtaken, Rows

(* What follows a database that forgot the rollbacks forgets them too.     *)
LEMMA ForgottenStays ==
  ASSUME Inv, Follows(db, db'), journal' = journal, helper' = helper,
         \A k \in Ids : archive[k] # Absent => archive'[k] = archive[k]
  PROVE  Forgotten'
<1> USE DEF Inv, Forgotten
<1>1. ASSUME helper.step \in {"package", "journal"}, NEW k \in DOMAIN db'.rows
      PROVE  db'.rows[k].id # helper.id
  <2>1. helper.id \in Ids /\ journal[helper.id].stage = "REQUESTED"
    BY <1>1 DEF Helpers
  <2>2. helper.id # External /\ journal[helper.id] # Absent
    BY <2>1, VersionsAssumption DEF Ids, External, Absent
  <2>3. CASE Fresh(db'.rows[k])
    BY <2>1, <2>2, <2>3 DEF Fresh
  <2>4. CASE k \in DOMAIN db.rows /\ db'.rows[k].id = db.rows[k].id
    BY <1>1, <2>4
  <2> QED
    BY <1>1, <2>3, <2>4 DEF Follows
<1>2. ASSUME NEW i \in Ids, journal[i].stage = "RESTART_PENDING",
             NEW k \in DOMAIN db'.rows, db'.rows[k].id = i
      PROVE  db'.rows[k].status = "known_good" \/ Overtaken(i)'
  <2>1. i # External /\ journal[i] # Absent
    BY <1>2, VersionsAssumption DEF Ids, External, Absent
  <2>2. CASE Fresh(db'.rows[k])
    BY <1>2, <2>1, <2>2 DEF Fresh
  <2>3. CASE /\ k \in DOMAIN db.rows /\ db'.rows[k].id = db.rows[k].id
             /\ db.rows[k].status = "known_good" => db'.rows[k].status = "known_good"
    BY <1>2, <2>3, OvertakenStays DEF RestoredDbForgets, Rows
  <2> QED
    BY <1>2, <2>2, <2>3 DEF Follows
<1>3. RestoredDbForgets'
  BY <1>2 DEF RestoredDbForgets, Rows
<1> QED
  BY <1>1, <1>3

(* The service's statements keep the databases sound and the rollbacks     *)
(* forgotten, and the database that is open is the one written.            *)
LEMMA Writing ==
  ASSUME Inv, NEW e, Write(e), Sound(e, archive, used', ran'), Follows(Open, e),
         used' \in Nat, used <= used', ran \subseteq ran',
         UNCHANGED <<attached, archive, journal, helper>>
  PROVE  Databases' /\ Forgotten' /\ Open' = e
<1>1. used \in Nat /\ Databases
  BY VersionsAssumption DEF Inv, Types
<1>2. \A d : Sound(d, archive, used, ran) => Sound(d, archive, used', ran')
  BY <1>1, SoundStays
<1>3. Sound(db', archive, used', ran') /\ Sound(gone', archive, used', ran') /\ Open' = e
  BY <1>1, <1>2 DEF Write, Databases, Open
<1>4. \A i \in Ids : archive[i] # Absent => i <= used' /\ Sound(archive[i], archive, i, ran')
  BY <1>1, SoundStays, VersionsAssumption DEF Databases, Ids
<1>5. Follows(db, db')
  BY DEF Follows, Write, Open
<1>6. Databases'
  BY <1>3, <1>4 DEF Databases
<1> QED
  BY <1>3, <1>5, <1>6, ForgottenStays

(* The rows of the open database are rewritten in place.                   *)
LEMMA Rewriting ==
  ASSUME Inv, NEW q, q = [k \in DOMAIN Open.rows |-> q[k]],
         \A k \in DOMAIN Open.rows :
           /\ q[k] \in RowType /\ q[k].id = Open.rows[k].id
           /\ GoodRow(q[k], Open.backups, archive, used, ran)
           /\ \/ Open.rows[k].status = "known_good" => q[k].status = "known_good"
              \/ Fresh(q[k]),
         Write([Open EXCEPT !.rows = q]),
         UNCHANGED <<attached, archive, journal, helper, used, ran>>
  PROVE  Databases' /\ Forgotten' /\ Open'.backups = Open.backups
<1> DEFINE e == [Open EXCEPT !.rows = q]
<1>1. used \in Nat /\ Sound(Open, archive, used, ran)
  BY OpenSound, VersionsAssumption DEF Inv, Types
<1>2. Sound(e, archive, used, ran) /\ DOMAIN q = DOMAIN Open.rows
  BY <1>1, RewrittenSound
<1>3. e.rows = q /\ e.backups = Open.backups
  BY <1>1 DEF Sound, Database
<1>4. Write(e)
  OBVIOUS
<1> HIDE DEF e
<1>5. Follows(Open, e)
  BY <1>2, <1>3 DEF Follows
<1> QED
  BY <1>1, <1>2, <1>3, <1>4, <1>5, Writing

(* A row is added to the open database.                                    *)
LEMMA Inserting ==
  ASSUME Inv, NEW r \in RowType, Write(Insert(Open, r)),
         used' \in Nat, used <= used',
         GoodRow(r, Open.backups, archive, used', ran), Fresh(r),
         r.id = External \/ \A k \in DOMAIN Open.rows : Open.rows[k].id # r.id,
         UNCHANGED <<attached, archive, journal, helper, ran>>
  PROVE  Databases' /\ Forgotten' /\ Open'.backups = Open.backups
<1> DEFINE e == Insert(Open, r)
<1>1. used \in Nat /\ Sound(Open, archive, used, ran)
  BY OpenSound, VersionsAssumption DEF Inv, Types
<1>2. Sound(Open, archive, used', ran)
  BY <1>1, SoundStays
<1>3. /\ Sound(e, archive, used', ran) /\ e.backups = Open.backups
      /\ \A k \in DOMAIN e.rows : \/ k \in DOMAIN Open.rows /\ e.rows[k] = Open.rows[k]
                                 \/ e.rows[k] = r
  BY <1>2, InsertedSound
<1>4. Write(e)
  OBVIOUS
<1> HIDE DEF e
<1>5. Follows(Open, e)
  BY <1>3 DEF Follows
<1> QED
  BY <1>3, <1>4, <1>5, Writing

(* What a step leaves alone stays as it was.                               *)
LEMMA Untouched ==
  ASSUME Inv
  PROVE  /\ UNCHANGED <<db, gone, archive, used, ran>> => Databases'
         /\ UNCHANGED <<db, gone, attached>> => Open' = Open
         /\ UNCHANGED helper => HelperShape'
         /\ UNCHANGED <<svc, attached, task, launch, running, ran>> => Serving'
         /\ UNCHANGED <<task, used, journal, archive>> /\ Open' = Open => Tasks'
         /\ UNCHANGED <<journal, used, archive, launch>> => Journals'
         /\ UNCHANGED <<helper, journal, launch>> => Helpers'
         /\ UNCHANGED <<helper, journal, archive, db>> => Forgotten'
<1>1. UNCHANGED <<db, gone, archive, used, ran>> => Databases'
  BY DEF Inv, Databases
<1>2. UNCHANGED <<db, gone, attached>> => Open' = Open
  BY DEF Open
<1>3. UNCHANGED helper => HelperShape'
  BY DEF Inv, HelperShape
<1>4. UNCHANGED <<svc, attached, task, launch, running, ran>> => Serving'
  BY DEF Inv, Serving
<1>5. UNCHANGED <<task, used, journal, archive>> /\ Open' = Open => Tasks'
  BY DEF Inv, Tasks
<1>6. UNCHANGED <<journal, used, archive, launch>> => Journals'
  BY DEF Inv, Journals
<1>7. UNCHANGED <<helper, journal, launch>> => Helpers'
  BY DEF Inv, Helpers
<1>8. UNCHANGED <<helper, journal, archive, db>> => Forgotten'
  BY DEF Inv, Forgotten, RestoredDbForgets, Overtaken, Rows
<1> QED
  BY <1>1, <1>2, <1>3, <1>4, <1>5, <1>6, <1>7, <1>8

(* A handler that moves on and one that is over, and a helper that does.   *)
LEMMA Moves ==
  ASSUME Types, HelperShape
  PROVE  /\ NoTask \in TaskType
         /\ \A p \in {"register", "install", "wait", "installed", "refused"} :
              [task EXCEPT !.at = p] \in TaskType
         /\ \A s \in Steps : /\ [helper EXCEPT !.step = s].step = s
                             /\ [helper EXCEPT !.step = s].id = helper.id
         /\ \A s \in Steps : helper' = [helper EXCEPT !.step = s] => HelperShape'
         /\ helper' = NoHelper => HelperShape'
<1>1. 0 \in 0 .. MaxRequests /\ First \in Versions /\ 0 \in Schemas
  BY SchemasBounded, VersionsAssumption
<1>2. NoTask \in TaskType
  BY <1>1 DEF NoTask, TaskType, NoSchema, NoBackup
<1>3. \A p \in {"register", "install", "wait", "installed", "refused"} :
        [task EXCEPT !.at = p] \in TaskType
  BY DEF Types, TaskType
<1>4. ASSUME NEW s \in Steps
      PROVE  /\ [helper EXCEPT !.step = s].step = s
             /\ [helper EXCEPT !.step = s].id = helper.id
             /\ helper' = [helper EXCEPT !.step = s] => HelperShape'
  BY DEF HelperShape
<1>5. helper' = NoHelper => HelperShape'
  BY <1>1 DEF HelperShape, NoHelper, Steps
<1> QED
  BY <1>2, <1>3, <1>4, <1>5

(* The initial states.                                                     *)
LEMMA InvInit ==
  ASSUME Init
  PROVE  Inv
<1> USE DEF Init
<1>1. /\ First \in Versions /\ SchemaOf[First] \in Schemas \ {0}
      /\ Schemas \subseteq Nat /\ 0 \in Schemas
  BY SchemasBounded, VersionsAssumption
<1>2. Updated => 1 \in Ids
  BY VersionsAssumption DEF Ids
<1>3. Empty \in Database /\ Empty.rows = <<>> /\ Empty.backups = {}
  BY <1>1, EmptySeq DEF Empty, Database
<1>4. Sound(Empty, archive, used, ran)
  BY <1>3 DEF Sound, Unique
<1>5. ASSUME Updated
      PROVE  /\ Sound(db, archive, used, ran) /\ used = 1
             /\ Sound(archive[1], archive, 1, ran) /\ archive[1] # Absent
  <2> USE <1>5
  <2>1. 1 \in 0 .. MaxRequests
    BY VersionsAssumption
  <2> DEFINE r == [Row(1, First, "update", "known_good")
                     EXCEPT !.target = SchemaOf[First], !.base = SchemaOf[First]]
             q == Row(1, First, "update", "started")
  <2>2. /\ r \in RowType /\ r.id = 1 /\ r.version = First /\ r.base = SchemaOf[First]
        /\ q \in RowType /\ q.id = 1 /\ q.status = "started"
    BY <1>1, <2>1 DEF Row, RowType, Statuses, NoSchema
  <2> HIDE DEF r, q
  <2>3. <<r>> \in Seq(RowType) /\ <<q>> \in Seq(RowType)
    BY <2>2
  <2>4. BeforeUpdate = [schema |-> SchemaOf[First], rows |-> <<q>>, backups |-> {}]
    <3>1. BeforeUpdate = [Empty EXCEPT !.rows = <<q>>]
      BY Zenon DEF BeforeUpdate, q
    <3> QED
      BY <3>1 DEF Empty
  <2>5. AfterUpdate = [schema |-> SchemaOf[First], rows |-> <<r>>, backups |-> {1}]
    BY DEF AfterUpdate, r
  <2>6. BeforeUpdate \in Database /\ AfterUpdate \in Database
    BY <1>1, <1>2, <2>3, <2>4, <2>5 DEF Database
  <2>7. archive[1] = BeforeUpdate /\ BeforeUpdate # Absent /\ used = 1 /\ ran = {First}
    BY <1>2, <2>6, DatabaseNotAbsent
  <2>8. Sound(BeforeUpdate, archive, 1, ran)
    BY <2>2, <2>4, <2>6 DEF Sound, Unique, GoodRow
  <2>9. Sound(AfterUpdate, archive, 1, ran)
    BY <2>2, <2>4, <2>5, <2>6, <2>7 DEF Sound, Unique, GoodRow
  <2> QED
    BY <2>7, <2>8, <2>9
<1>6. Databases
  <2>1. Sound(db, archive, used, ran) /\ Sound(gone, archive, used, ran)
    BY <1>4, <1>5
  <2>2. ASSUME NEW i \in Ids, archive[i] # Absent
        PROVE  i <= used /\ Sound(archive[i], archive, i, ran)
    <3>1. Updated /\ i = 1
      BY <2>2, Zenon
    <3> QED
      BY <1>5, <3>1
  <2> QED
    BY <2>1, <2>2 DEF Databases
<1>7. archive \in [Ids -> Database \cup {Absent}] /\ journal \in [Ids -> Journal \cup {Absent}]
  <2>1. ASSUME NEW i \in Ids PROVE archive[i] \in Database \cup {Absent}
    BY <1>6 DEF Databases, Sound
  <2> QED
    BY <2>1
<1>8. Types
  <2>1. used \in 0 .. MaxRequests /\ 0 \in 0 .. MaxRequests
    BY VersionsAssumption
  <2>2. NoTask \in TaskType
    BY <1>1, <2>1 DEF NoTask, NoSchema, NoBackup, TaskType
  <2> QED
    BY <1>1, <1>7, <2>1, <2>2 DEF Types
<1>9. HelperShape
  BY VersionsAssumption DEF HelperShape, Steps, NoHelper
<1>10. Serving /\ Tasks /\ Journals /\ Helpers
  BY DEF Serving, Tasks, NoTask, Journals, Helpers, NoHelper, Absent, NoBackup
<1>11. Forgotten
  BY DEF Forgotten, NoHelper, RestoredDbForgets, Absent
<1> QED
  BY <1>6, <1>8, <1>9, <1>10, <1>11 DEF Inv

(* The handler, but for its writes.                                        *)
LEMMA InvHandler ==
  ASSUME Inv, Refuse \/ AcceptRestore \/ CallInstall \/ DatabaseClosed \/ CallTimesOut
              \/ \E i \in Ids : Launch(i)
  PROVE  Inv'
<1> USE DEF Inv
<1>1. CASE Refuse \/ DatabaseClosed \/ CallTimesOut
  <2> USE <1>1 DEF Refuse, DatabaseClosed, CallTimesOut, At, Reach
  <2>1. /\ task' = [task EXCEPT !.at = "refused"] /\ task.at # "none" /\ svc \in {"up", "closed"}
        \/ task' = NoTask
    BY DEF At
  <2>2. UNCHANGED <<db, gone, attached, archive, journal, installed, svc, running,
                    launch, helper, timer, used, ran>>
    OBVIOUS
  <2>3. Databases' /\ HelperShape' /\ Journals' /\ Helpers' /\ Forgotten' /\ Open' = Open
    BY <2>2, Untouched
  <2> HIDE <1>1
  <2>4. Types'
    BY <2>1, <2>2, Moves DEF Types
  <2>5. Serving'
    BY <2>1, <2>2 DEF Serving
  <2>6. Tasks'
    BY <2>1, <2>2, <2>3 DEF Tasks, Types, TaskType, NoTask, NoBackup
  <2> QED
    BY <2>3, <2>4, <2>5, <2>6
<1>2. CASE AcceptRestore
  <2> USE <1>2 DEF AcceptRestore, At, Unsupported
  <2> DEFINE i == task.id
             j == [stage |-> "REQUESTED", version |-> task.version, art |-> task.art,
                   from |-> task.from, schema |-> archive[task.from].schema]
  <2>1. /\ i \in Ids /\ i = used /\ journal[i] = Absent /\ archive[i] = Absent
        /\ task.from \in 0 .. MaxRequests /\ task.version \in Versions /\ task.art \in Versions
        /\ task.op \in {"update", "rollback"}
    BY DEF Tasks, Types, TaskType
  <2>2. task.from \in Open.backups
    BY <2>1 DEF Tasks
  <2>3. task.from <= used /\ archive[task.from] # Absent /\ task.from \in Ids
    BY <2>2, OpenSound DEF Sound, Database
  <2>4. task.from < i
    BY <2>1, <2>3, VersionsAssumption DEF Ids
  <2>5. archive[task.from].schema \in Schemas
    BY <2>3 DEF Types, Database
  <2>6. j \in Journal /\ j.stage = "REQUESTED" /\ j # Absent
    BY <2>1, <2>3, <2>5 DEF Journal, Absent
  <2>7. journal' = [journal EXCEPT ![i] = j] /\ launch' = launch \cup {i} /\ task' = NoTask
    OBVIOUS
  <2>8. UNCHANGED <<db, gone, attached, archive, installed, svc, running, helper, timer, used, ran>>
        /\ svc = "up"
    OBVIOUS
  <2>9. Databases' /\ HelperShape'
    BY <2>8, Untouched
  <2> HIDE <1>2 DEF j
  <2>10. Types' /\ journal'[i] = j /\ \A k \in Ids \ {i} : journal'[k] = journal[k]
    BY <2>1, <2>6, <2>7, <2>8, Moves DEF Types
  <2>11. Serving'
    BY <2>7, <2>8 DEF Serving
  <2>12. Tasks'
    BY <2>7 DEF Tasks, NoTask, NoBackup
  <2>13. j.from = task.from
    BY DEF j
  <2>14. Journals'
    BY <2>1, <2>3, <2>4, <2>6, <2>7, <2>8, <2>10, <2>13 DEF Journals, Types
  <2>15. Helpers'
    BY <2>1, <2>7, <2>8, <2>10 DEF Helpers, Absent
  <2>16. Forgotten'
    <3>1. \A k \in Ids :
            journal'[k].stage = "RESTART_PENDING" => journal[k].stage = "RESTART_PENDING"
      BY <2>6, <2>10
    <3> QED
      BY <2>8, <3>1 DEF Forgotten, RestoredDbForgets, Overtaken, Rows
  <2> QED
    BY <2>9, <2>10, <2>11, <2>12, <2>14, <2>15, <2>16
<1>3. CASE CallInstall
  <2> USE <1>3 DEF CallInstall, At, Reach
  <2>1. UNCHANGED <<db, gone, attached, archive, journal, installed, svc, running,
                    launch, timer, used, ran>>
        /\ svc \in {"up", "closed"} /\ task.at = "install"
    OBVIOUS
  <2>2. Databases' /\ Journals' /\ Open' = Open
    BY <2>1, Untouched
  <2>3. \/ task' = [task EXCEPT !.at = "wait"]
           /\ helper' = [step |-> "install", id |-> task.id, art |-> task.art]
        \/ task' = [task EXCEPT !.at = "refused"] /\ helper' = helper
    OBVIOUS
  <2>4. task.id \in 0 .. MaxRequests /\ task.art \in Versions
    BY DEF Types, TaskType
  <2> HIDE <1>3
  <2>5. Types'
    BY <2>1, <2>3, Moves DEF Types
  <2>6. HelperShape'
    BY <2>3, <2>4 DEF HelperShape, Steps
  <2>7. Serving'
    BY <2>1 DEF Serving
  <2>8. Tasks'
    BY <2>1, <2>2, <2>3 DEF Tasks, Types, TaskType
  <2>9. Helpers'
    BY <2>1, <2>3, <2>4 DEF Helpers
  <2>10. Forgotten'
    BY <2>1, <2>3 DEF Forgotten, RestoredDbForgets, Overtaken, Rows
  <2> QED
    BY <2>2, <2>5, <2>6, <2>7, <2>8, <2>9, <2>10
<1>4. CASE \E i \in Ids : Launch(i)
  <2>1. PICK i \in Ids : Launch(i)
    BY <1>4
  <2> USE <2>1 DEF Launch
  <2>2. /\ UNCHANGED <<db, gone, attached, archive, journal, installed, running, task, timer>>
        /\ UNCHANGED <<used, ran>>
        /\ i \in launch /\ launch' = launch \ {i} /\ svc \in {"up", "closed"} /\ svc' = "closed"
        /\ helper' = [step |-> "stop", id |-> i] \/ helper' = helper
    OBVIOUS
  <2>3. Databases' /\ Open' = Open
    BY <2>2, Untouched
  <2>4. Tasks'
    BY <2>2, <2>3, Untouched
  <2> HIDE <2>1
  <2>5. Types'
    BY <2>2 DEF Types
  <2>6. HelperShape'
    BY <2>2 DEF HelperShape, Steps, Ids
  <2>7. Serving'
    BY <2>2 DEF Serving
  <2>8. Journals'
    BY <2>2 DEF Journals
  <2>9. Helpers'
    BY <2>2 DEF Helpers, Journals
  <2>10. Forgotten'
    BY <2>2 DEF Forgotten, RestoredDbForgets, Overtaken, Rows
  <2> QED
    BY <2>3, <2>4, <2>5, <2>6, <2>7, <2>8, <2>9, <2>10
<1> QED
  BY <1>1, <1>2, <1>3, <1>4

(* A service that was stopped: nothing of its memory is left.              *)
LEMMA InvStopped ==
  ASSUME Inv, Stopped, svc' \in {"down", "starting"}, running' \in Versions,
         UNCHANGED <<db, archive, journal, used, ran>>
  PROVE  Databases' /\ Serving' /\ Tasks' /\ Journals'
<1> USE DEF Inv, Stopped
<1>1. Sound(Empty, archive, used, ran)
  <2>1. First \in Versions /\ SchemaOf[First] \in Schemas \ {0}
    BY SchemasBounded, VersionsAssumption
  <2>2. Empty \in Database /\ Empty.rows = <<>> /\ Empty.backups = {}
    BY <2>1, EmptySeq DEF Empty, Database
  <2> QED
    BY <2>2 DEF Sound, Unique
<1>2. Databases'
  BY <1>1 DEF Databases
<1>3. Serving'
  BY DEF Serving
<1>4. Tasks'
  BY DEF Tasks, NoTask, NoBackup
<1>5. Journals'
  BY DEF Journals
<1> QED
  BY <1>2, <1>3, <1>4, <1>5

(* The service manager.                                                    *)
LEMMA InvManager ==
  ASSUME Inv, Manager
  PROVE  Inv'
<1> USE DEF Inv
<1>1. CASE TimerFires \/ Crash \/ PowerLoss \/ \E v \in Versions : InstallPackage(v)
  <2>1. /\ Stopped /\ svc' \in {"down", "starting"}
        /\ running' \in Versions /\ installed' \in Versions /\ timer' \in BOOLEAN
        /\ helper' \in {helper, NoHelper}
        /\ UNCHANGED <<db, archive, journal, used, ran>>
    BY <1>1 DEF TimerFires, Crash, PowerLoss, InstallPackage, Types
  <2>2. Databases' /\ Serving' /\ Tasks' /\ Journals'
    BY <2>1, InvStopped
  <2>3. Types'
    BY <2>1, Moves DEF Types, Stopped
  <2>4. HelperShape'
    BY <2>1, Moves DEF HelperShape
  <2>5. Helpers' /\ Forgotten'
    <3>1. CASE helper' = helper
      BY <2>1, <3>1 DEF Helpers, Stopped, Forgotten, RestoredDbForgets, Overtaken, Rows
    <3>2. CASE helper' = NoHelper
      BY <2>1, <3>2 DEF Helpers, NoHelper, Forgotten, RestoredDbForgets, Overtaken, Rows
    <3> QED
      BY <2>1, <3>1, <3>2
  <2> QED
    BY <2>2, <2>3, <2>4, <2>5
<1>2. CASE Start
  <2> USE <1>2 DEF Start
  <2>1. Databases' /\ HelperShape' /\ Journals' /\ Helpers' /\ Forgotten' /\ Open' = Open
    BY Untouched
  <2>2. Tasks'
    BY <2>1, Untouched
  <2>3. Types'
    BY DEF Types
  <2>4. Serving'
    BY DEF Serving
  <2> QED
    BY <2>1, <2>2, <2>3, <2>4
<1> QED
  BY <1>1, <1>2 DEF Manager

(* The helper at an install.                                               *)
LEMMA InvHelperInstall ==
  ASSUME Inv, HelperFails \/ HelperInstall \/ HelperTimer \/ HelperStart
  PROVE  Inv'
<1> USE DEF Inv
<1>1. UNCHANGED <<db, gone, attached, archive, journal, launch, used, ran>>
  BY DEF HelperFails, HelperInstall, HelperTimer, HelperStart
<1>2. Databases' /\ Journals' /\ Open' = Open
  BY <1>1, Untouched
<1>3. /\ helper' = NoHelper
         \/ helper' = [helper EXCEPT !.step = "timer"]
      /\ \/ task' = task
         \/ /\ \E p \in {"installed", "refused"} : task' = [task EXCEPT !.at = p]
            /\ task.at = "wait" /\ svc' = svc /\ running' = running
      /\ \/ installed' = installed
         \/ installed' = helper.art /\ helper.step = "install"
      /\ \/ svc' = svc /\ running' = running
         \/ svc = "down" /\ svc' = "starting" /\ running' = installed /\ task' = task
      /\ timer' \in BOOLEAN
  <2>1. CASE HelperFails
    <3>1. \/ task' = task
          \/ task.at = "wait" /\ task' = [task EXCEPT !.at = "refused"]
      BY <2>1 DEF Tell, Reach, HelperFails
    <3> QED
      BY <2>1, <3>1 DEF HelperFails, Types
  <2>2. CASE HelperInstall
    BY <2>2 DEF HelperInstall, HelperAt, Goto, Types
  <2>3. CASE HelperTimer
    <3>1. \/ task' = task
          \/ task.at = "wait" /\ task' = [task EXCEPT !.at = "installed"]
      BY <2>3 DEF Tell, Reach, HelperTimer
    <3> QED
      BY <2>3, <3>1 DEF HelperTimer
  <2>4. CASE HelperStart
    BY <2>4 DEF HelperStart, Types
  <2> QED
    BY <2>1, <2>2, <2>3, <2>4
<1>4. installed' \in Versions /\ running' \in Versions
  BY <1>3 DEF Helpers, Types
<1>5. Types'
  <2>1. task' \in TaskType
    BY <1>3, Moves DEF Types
  <2>2. svc' \in {svc, "starting"}
    BY <1>3
  <2> QED
    BY <1>1, <1>3, <1>4, <2>1, <2>2 DEF Types
<1>6. HelperShape'
  BY <1>3, Moves DEF Steps
<1>7. Serving'
  <2>1. CASE svc' = svc /\ running' = running
    BY <1>1, <1>3, <2>1 DEF Serving, NoTask
  <2>2. CASE svc = "down" /\ svc' = "starting" /\ running' = installed /\ task' = task
    BY <1>1, <2>2 DEF Serving
  <2> QED
    BY <1>3, <2>1, <2>2
<1>8. Tasks'
  BY <1>1, <1>2, <1>3 DEF Tasks, Types, TaskType
<1>9. Helpers' /\ Forgotten'
  <2>1. helper'.step \in {"none", "timer"} /\ (helper'.step = "none" => helper' = NoHelper)
    <3>1. [helper EXCEPT !.step = "timer"].step = "timer" /\ NoHelper.step = "none"
      BY Moves DEF NoHelper, Steps
    <3> QED
      BY <1>3, <3>1
  <2> QED
    BY <1>1, <2>1 DEF Helpers, Forgotten, RestoredDbForgets, Overtaken, Rows
<1> QED
  BY <1>2, <1>5, <1>6, <1>7, <1>8, <1>9

(* The helper at a rollback.                                               *)
LEMMA InvHelperRollback ==
  ASSUME Inv, HelperStop \/ HelperRestore \/ HelperPackage \/ HelperJournal
  PROVE  Inv'
<1> USE DEF Inv
<1> DEFINE i == helper.id
<1>1. /\ helper.step \in {"stop", "restore", "package", "journal"}
      /\ i \in Ids \ launch /\ journal[i].stage = "REQUESTED" /\ journal[i] # Absent
      /\ journal[i] \in Journal /\ i <= used
      /\ journal[i].from \in Ids /\ journal[i].from < i
      /\ archive[journal[i].from] # Absent /\ archive[i] = Absent
  <2>1. helper.step \in {"stop", "restore", "package", "journal"}
    BY DEF HelperStop, HelperRestore, HelperPackage, HelperJournal, HelperAt
  <2>2. i \in Ids \ launch /\ journal[i].stage = "REQUESTED" /\ journal[i] # Absent
    BY <2>1 DEF Helpers, Absent
  <2>3. journal[i] \in Journal
    BY <2>2 DEF Types
  <2> QED
    BY <2>1, <2>2, <2>3 DEF Journals, Journal
<1>2. CASE HelperStop
  <2> USE <1>2 DEF HelperStop, HelperAt, Goto
  <2>1. Databases' /\ Serving' /\ Tasks' /\ Journals'
    <3>1. Stopped /\ svc' = "down" /\ running' = running
          /\ UNCHANGED <<db, archive, journal, used, ran>>
      OBVIOUS
    <3> QED
      BY <3>1, InvStopped DEF Types
  <2>2. Types'
    BY Moves DEF Types, Stopped
  <2>3. helper'.step = "restore" /\ helper'.id = i /\ HelperShape'
    BY Moves DEF Steps
  <2>4. Helpers'
    BY <1>1, <2>3 DEF Helpers, Stopped
  <2>5. Forgotten'
    BY <2>3 DEF Forgotten, RestoredDbForgets, Overtaken, Rows
  <2> QED
    BY <2>1, <2>2, <2>3, <2>4, <2>5
<1>3. CASE HelperRestore
  <2> USE <1>3 DEF HelperRestore, HelperAt, Goto
  <2> DEFINE f == journal[i].from
  <2>1. /\ db' = archive[f]
        /\ \/ UNCHANGED <<gone, attached>> /\ (svc \in {"down", "starting"} \/ ~attached)
           \/ gone' = db /\ attached' = FALSE /\ attached /\ svc \notin {"down", "starting"}
        /\ UNCHANGED <<archive, journal, installed, svc, running, task, launch, timer, used, ran>>
        /\ helper' = [helper EXCEPT !.step = "package"]
    OBVIOUS
  <2>2. helper'.step = "package" /\ helper'.id = i /\ HelperShape'
    BY Moves DEF Steps
  <2> HIDE <1>3 DEF f
  <2>3. f \in Ids /\ f < i /\ f <= used /\ archive[f] # Absent /\ Sound(archive[f], archive, f, ran)
    BY <1>1 DEF f, Databases
  <2>4. f \in Nat /\ used \in Nat /\ i \in Nat
    BY <1>1, <2>3, VersionsAssumption DEF Ids, Types
  <2>5. Sound(archive[f], archive, used, ran)
    BY <2>3, <2>4, SoundStays
  <2>6. Databases'
    BY <2>1, <2>5 DEF Databases
  <2>7. Types'
    BY <2>1 DEF Types
  <2>8. Serving'
    BY <2>1 DEF Serving
  <2>9. Tasks'
    <3>1. CASE svc \in {"down", "starting"}
      BY <2>1, <3>1 DEF Serving, Tasks, NoTask, NoBackup
    <3>2. CASE svc \notin {"down", "starting"}
      <4>1. Open' = Open
        BY <2>1, <3>2 DEF Open
      <4> QED
        BY <2>1, <4>1, Untouched
    <3> QED
      BY <3>1, <3>2
  <2>10. Journals' /\ Helpers'
    BY <1>1, <2>1, <2>2 DEF Journals, Helpers
  <2>11. \A k \in DOMAIN archive[f].rows :
           archive[f].rows[k].id <= f /\ archive[f].rows[k].id \in Nat
    BY <2>3, RowsTyped DEF Sound, GoodRow
  <2>12. \A k \in DOMAIN db'.rows : db'.rows[k].id # helper'.id
    BY <2>1, <2>2, <2>3, <2>4, <2>11
  <2>13. ASSUME NEW j \in Ids, journal[j].stage = "RESTART_PENDING",
                NEW k \in DOMAIN archive[f].rows, archive[f].rows[k].id = j,
                archive[f].rows[k].status # "known_good"
         PROVE  Overtaken(j)
    <3>1. journal[j] # Absent /\ archive[j] = Absent
      BY <2>13 DEF Absent, Journals
    <3>2. j < f
      BY <2>3, <2>4, <2>11, <2>13, <3>1
    <3> QED
      BY <2>3, <2>13, <3>2 DEF Overtaken, Rows
  <2>14. RestoredDbForgets'
    BY <2>1, <2>13 DEF RestoredDbForgets, Overtaken, Rows
  <2>15. Forgotten'
    BY <2>12, <2>14 DEF Forgotten
  <2> QED
    BY <2>2, <2>6, <2>7, <2>8, <2>9, <2>10, <2>15
<1>4. CASE HelperPackage
  <2> USE <1>4 DEF HelperPackage, HelperAt, Goto
  <2>1. Databases' /\ Serving' /\ Journals' /\ Open' = Open
    BY Untouched
  <2>2. Tasks'
    BY <2>1, Untouched
  <2>3. Types'
    BY <1>1 DEF Types, Journal
  <2>4. helper'.step = "journal" /\ helper'.id = i /\ HelperShape'
    BY Moves DEF Steps
  <2>5. Helpers'
    BY <1>1, <2>4 DEF Helpers
  <2>6. Forgotten'
    BY <2>4 DEF Forgotten, RestoredDbForgets, Overtaken, Rows
  <2> QED
    BY <2>1, <2>2, <2>3, <2>4, <2>5, <2>6
<1>5. CASE HelperJournal
  <2> USE <1>5 DEF HelperJournal, HelperAt, Goto
  <2> DEFINE j == [journal[i] EXCEPT !.stage = "RESTART_PENDING"]
  <2>1. j \in Journal /\ j.stage = "RESTART_PENDING" /\ j.from = journal[i].from
    BY <1>1 DEF Journal
  <2>2. /\ journal' \in [Ids -> Journal \cup {Absent}] /\ journal'[i] = j
        /\ \A k \in Ids \ {i} : journal'[k] = journal[k]
    <3>1. journal' = [journal EXCEPT ![i] = j]
      BY DEF j
    <3> HIDE DEF j
    <3> QED
      BY <1>1, <2>1, <3>1 DEF Types
  <2> HIDE DEF j
  <2>3. Databases' /\ Serving' /\ Open' = Open
    BY Untouched
  <2>4. Types'
    BY <2>2 DEF Types
  <2>5. helper'.step = "start" /\ HelperShape'
    BY Moves DEF Steps
  <2>6. task.at # "none" => used # i
    BY <1>1 DEF Tasks
  <2>7. Tasks'
    BY <2>2, <2>3, <2>6 DEF Tasks
  <2>8. Journals'
    BY <1>1, <2>1, <2>2 DEF Journals, Types
  <2>9. Helpers'
    BY <2>5 DEF Helpers
  <2>10. RestoredDbForgets'
    BY <1>1, <2>2 DEF Forgotten, RestoredDbForgets, Overtaken, Rows
  <2>11. Forgotten'
    BY <2>5, <2>10 DEF Forgotten
  <2> QED
    BY <2>3, <2>4, <2>5, <2>7, <2>8, <2>9, <2>11
<1> QED
  BY <1>2, <1>3, <1>4, <1>5

(* A request: its row is the first with its number.                        *)
LEMMA InvClient ==
  ASSUME Inv, Client
  PROVE  Inv'
<1> USE DEF Inv
<1>1. PICK op \in {"update", "rollback"}, v \in Versions, a \in Versions,
           t \in {NoSchema} \cup {SchemaOf[w] : w \in Versions},
           b \in {NoBackup} \cup {i \in Ids : archive[i] # Absent} :
             (op = "update" => b = NoBackup) /\ Request(op, v, a, t, b)
  BY DEF Client
<1> DEFINE n == used + 1
           r == Row(n, v, op, "started")
<1>2. /\ svc = "up" /\ task = NoTask /\ used < MaxRequests /\ used' = n
      /\ Write(Insert(Open, r))
      /\ task' = [at |-> "check", id |-> n, op |-> op, version |-> v,
                  art |-> a, target |-> t, from |-> b]
      /\ UNCHANGED <<attached, archive, journal, installed, svc, running, launch,
                     helper, timer, ran>>
  BY <1>1 DEF Request
<1>3. /\ used \in Nat /\ n \in Nat /\ n \in Ids /\ n \in 0 .. MaxRequests /\ used <= n
      /\ \A i \in Ids : i <= used => i # n
  BY <1>2, VersionsAssumption DEF Types, Ids
<1>4. journal[n] = Absent /\ archive[n] = Absent
  BY <1>3 DEF Journals, Databases
<1>5. t \in Schemas /\ b \in 0 .. MaxRequests /\ 0 \in Schemas
  BY SchemasBounded, VersionsAssumption DEF NoSchema, NoBackup, Ids
<1>6. r \in RowType /\ r.id = n /\ r.status = "started"
  BY <1>3, <1>5 DEF Row, RowType, Statuses, NoSchema
<1> HIDE DEF r
<1>7. GoodRow(r, Open.backups, archive, used', ran) /\ Fresh(r)
  BY <1>2, <1>3, <1>4, <1>6 DEF GoodRow, Fresh
<1>8. \A k \in DOMAIN Open.rows : Open.rows[k].id # r.id
  <2>1. Sound(Open, archive, used, ran)
    BY OpenSound
  <2>2. ASSUME NEW k \in DOMAIN Open.rows PROVE Open.rows[k].id <= used /\ Open.rows[k].id \in Nat
    BY <2>1, RowsTyped DEF Sound, GoodRow
  <2> QED
    BY <1>3, <1>6, <2>2
<1> HIDE DEF n
<1>9. Databases' /\ Forgotten'
  BY <1>2, <1>3, <1>6, <1>7, <1>8, Inserting
<1>10. Types'
  BY <1>2, <1>3, <1>5 DEF Types, TaskType
<1>11. HelperShape' /\ Helpers'
  BY <1>2, Untouched
<1>12. Serving'
  BY <1>2 DEF Serving
<1>13. Tasks'
  BY <1>1, <1>2, <1>3, <1>4 DEF Tasks
<1>14. \A i \in Ids : i <= used => i <= used'
  BY <1>2, <1>3 DEF n, Ids
<1>15. Journals'
  BY <1>2, <1>14 DEF Journals
<1> QED
  BY <1>9, <1>10, <1>11, <1>12, <1>13, <1>15

(* The backup of a request is its archive, and it is registered once.      *)
LEMMA InvBackup ==
  ASSUME Inv, Backup \/ Register
  PROVE  Inv'
<1> USE DEF Inv
<1>1. used \in Nat /\ Sound(Open, archive, used, ran) /\ Open \in Database /\ Open # Absent
  BY OpenSound, DatabaseNotAbsent, VersionsAssumption DEF Types, Sound
<1>2. CASE Backup
  <2> USE <1>2 DEF Backup, At, Reach
  <2>1. /\ used \in Ids /\ journal[used] = Absent /\ archive[used] = Absent
        /\ archive' = [archive EXCEPT ![used] = Open] /\ task' = [task EXCEPT !.at = "register"]
        /\ task.id = used /\ svc = "up" /\ task.at # "none"
        /\ UNCHANGED <<db, gone, attached, journal, installed, svc, running, launch,
                       helper, timer, used, ran>>
    BY DEF Tasks
  <2> HIDE <1>2
  <2>2. /\ archive' \in [Ids -> Database \cup {Absent}] /\ archive'[used] = Open
        /\ \A i \in Ids \ {used} : archive'[i] = archive[i]
        /\ \A i \in Ids : archive[i] # Absent => archive'[i] = archive[i]
    BY <1>1, <2>1 DEF Types
  <2>3. Types'
    BY <2>1, <2>2, Moves DEF Types
  <2>4. \A d, u : u \in Nat /\ Sound(d, archive, u, ran) => Sound(d, archive', u, ran)
    BY <2>2, SoundStays
  <2>5. Databases'
    <3>1. \A i \in Ids : i \in Nat /\ i <= i
      BY VersionsAssumption DEF Ids
    <3>2. Sound(db, archive', used, ran) /\ Sound(gone, archive', used, ran)
      BY <1>1, <2>4 DEF Databases
    <3>3. ASSUME NEW i \in Ids, archive'[i] # Absent
          PROVE  i <= used /\ Sound(archive'[i], archive', i, ran)
      <4>1. CASE i = used
        BY <1>1, <2>2, <2>4, <3>1, <4>1
      <4>2. CASE i # used
        BY <2>2, <2>4, <3>1, <3>3, <4>2 DEF Databases
      <4> QED
        BY <4>1, <4>2
    <3> QED
      BY <2>1, <3>2, <3>3 DEF Databases
  <2>6. HelperShape' /\ Helpers' /\ Open' = Open
    BY <2>1, Untouched
  <2>7. Serving'
    BY <2>1 DEF Serving
  <2>8. Tasks'
    BY <1>1, <2>1, <2>2 DEF Tasks, Types, TaskType
  <2>9. Journals'
    BY <2>1, <2>2 DEF Journals, Types, Journal
  <2>10. Follows(db, db')
    BY <2>1 DEF Follows
  <2>11. Forgotten'
    BY <2>1, <2>2, <2>10, ForgottenStays
  <2> QED
    BY <2>3, <2>5, <2>6, <2>7, <2>8, <2>9, <2>11
<1>3. CASE Register
  <2> USE <1>3 DEF Register, At, Reach
  <2> DEFINE e == [Open EXCEPT !.backups = @ \cup {used}]
  <2>1. /\ used \in Ids /\ journal[used] = Absent /\ archive[used] # Absent
        /\ Write(e) /\ task' = [task EXCEPT !.at = "install"]
        /\ task.id = used /\ svc = "up"
        /\ UNCHANGED <<attached, archive, journal, installed, svc, running, launch,
                       helper, timer, used, ran>>
    BY DEF Tasks
  <2> HIDE <1>3
  <2>2. e \in Database /\ e.rows = Open.rows /\ e.backups = Open.backups \cup {used}
    BY <1>1, <2>1 DEF Database
  <2> HIDE DEF e
  <2>3. Sound(e, archive, used, ran)
    BY <1>1, <2>1, <2>2 DEF Sound, GoodRow
  <2>4. Follows(Open, e)
    BY <2>2 DEF Follows
  <2>5. Databases' /\ Forgotten' /\ Open' = e
    BY <1>1, <2>1, <2>3, <2>4, Writing
  <2>6. Types'
    BY <2>1, Moves DEF Types
  <2>7. HelperShape' /\ Journals' /\ Helpers'
    BY <2>1, Untouched
  <2>8. Serving'
    BY <2>1 DEF Serving
  <2>9. Tasks'
    BY <2>1, <2>2, <2>5 DEF Tasks, Types, TaskType
  <2> QED
    BY <2>5, <2>6, <2>7, <2>8, <2>9
<1> QED
  BY <1>2, <1>3

(* The row a request ends with has no journal.                             *)
LEMMA InvConclude ==
  ASSUME Inv, Conclude
  PROVE  Inv'
<1> USE DEF Inv
<1>1. /\ task' = NoTask /\ task.at \in {"installed", "refused"} /\ svc \in {"up", "closed"}
      /\ UNCHANGED <<attached, archive, journal, installed, svc, running, launch,
                     helper, timer, used, ran>>
  BY DEF Conclude, At
<1>2. used \in Ids /\ task.id = used /\ journal[used] = Absent
  BY <1>1 DEF Tasks
<1>3. used \in Nat /\ Sound(Open, archive, used, ran) /\ Open \in Database
  BY OpenSound, VersionsAssumption DEF Types, Sound
<1>4. \A k \in DOMAIN Open.rows : /\ Open.rows[k] \in RowType
                                  /\ GoodRow(Open.rows[k], Open.backups, archive, used, ran)
  BY <1>3, RowsTyped DEF Sound
<1>5. Databases' /\ Forgotten'
  <2>1. CASE UNCHANGED <<db, gone>>
    BY <1>1, <2>1, Untouched
  <2>2. CASE task.at = "installed" /\ Write(Update(Open, task.id, Pending))
    <3> DEFINE q == [k \in DOMAIN Open.rows |-> IF Open.rows[k].id = used THEN Pending(Open.rows[k])
                                                                          ELSE Open.rows[k]]
    <3>1. Write([Open EXCEPT !.rows = q])
      BY <1>2, <2>2 DEF Update
    <3>2. archive[used] \in Database /\ used \in Open.backups
      BY <1>2, <2>2 DEF Types, Tasks
    <3>3. archive[used].schema \in Schemas /\ task.target \in Schemas
      BY <3>2 DEF Database, Types, TaskType
    <3>4. ASSUME NEW k \in DOMAIN Open.rows
          PROVE  /\ q[k] \in RowType /\ q[k].id = Open.rows[k].id
                 /\ GoodRow(q[k], Open.backups, archive, used, ran)
                 /\ \/ Open.rows[k].status = "known_good" => q[k].status = "known_good"
                    \/ Fresh(q[k])
      <4>1. CASE Open.rows[k].id = used
        <5>1. q[k] = Pending(Open.rows[k])
          BY <4>1
        <5> HIDE DEF q
        <5>2. /\ q[k] \in RowType /\ q[k].id = used /\ q[k].base = archive[used].schema
              /\ q[k].status = "installed_pending_health"
          BY <1>2, <1>4, <3>3, <4>1, <5>1 DEF Pending, RowType, Statuses
        <5> QED
          BY <1>2, <1>3, <3>2, <4>1, <5>2 DEF GoodRow, Fresh
      <4>2. CASE Open.rows[k].id # used
        BY <1>4, <4>2
      <4> QED
        BY <4>1, <4>2
    <3>5. q = [k \in DOMAIN Open.rows |-> q[k]]
      OBVIOUS
    <3> HIDE DEF q
    <3> QED
      BY <1>1, <3>1, <3>4, <3>5, Rewriting
  <2>3. CASE Write(Update(Open, task.id, Failed))
    <3> DEFINE q == [k \in DOMAIN Open.rows |-> IF Open.rows[k].id = used THEN Failed(Open.rows[k])
                                                                          ELSE Open.rows[k]]
    <3>1. Write([Open EXCEPT !.rows = q])
      BY <1>2, <2>3 DEF Update
    <3>2. ASSUME NEW k \in DOMAIN Open.rows
          PROVE  /\ q[k] \in RowType /\ q[k].id = Open.rows[k].id
                 /\ GoodRow(q[k], Open.backups, archive, used, ran)
                 /\ \/ Open.rows[k].status = "known_good" => q[k].status = "known_good"
                    \/ Fresh(q[k])
      <4>1. CASE Open.rows[k].id = used
        <5>1. q[k] = Failed(Open.rows[k])
          BY <4>1
        <5> HIDE DEF q
        <5>2. q[k] \in RowType /\ q[k].id = used /\ q[k].status = "failed"
          BY <1>4, <4>1, <5>1 DEF Failed, RowType, Statuses
        <5> QED
          BY <1>2, <1>3, <4>1, <5>2 DEF GoodRow, Fresh
      <4>2. CASE Open.rows[k].id # used
        BY <1>4, <4>2
      <4> QED
        BY <4>1, <4>2
    <3>3. q = [k \in DOMAIN Open.rows |-> q[k]]
      OBVIOUS
    <3> HIDE DEF q
    <3> QED
      BY <1>1, <3>1, <3>2, <3>3, Rewriting
  <2> QED
    BY <2>1, <2>2, <2>3 DEF Conclude
<1>6. Types'
  BY <1>1, Moves DEF Types
<1>7. HelperShape' /\ Journals' /\ Helpers'
  BY <1>1, Untouched
<1>8. Serving'
  BY <1>1 DEF Serving
<1>9. Tasks'
  BY <1>1 DEF Tasks, NoTask, NoBackup
<1> QED
  BY <1>5, <1>6, <1>7, <1>8, <1>9

(* Opening changes the schema, and blames a pending row when it fails.     *)
LEMMA InvOpening ==
  ASSUME Inv, OpenDatabase \/ OpenFails
  PROVE  Inv'
<1> USE DEF Inv
<1>1. /\ svc = "starting" /\ attached /\ task = NoTask /\ launch = {} /\ Open = db
      /\ running \in Versions
      /\ UNCHANGED <<gone, attached, archive, journal, installed, running, task,
                     launch, helper, timer, used>>
  BY DEF OpenDatabase, OpenFails, Serving, Open, Types
<1>2. used \in Nat /\ Sound(db, archive, used, ran) /\ db \in Database
  BY VersionsAssumption DEF Types, Databases, Sound
<1>3. /\ Schemas \subseteq Nat /\ 0 \in Schemas /\ SchemaOf[running] \in Schemas \ {0}
      /\ \A m, n \in Schemas : \A s \in m .. n : s \in Schemas
      /\ db.schema \in Schemas \ {0}
  BY <1>1, <1>2, SchemasBounded DEF Database
<1>4. CASE OpenDatabase
  <2> USE <1>4 DEF OpenDatabase
  <2> DEFINE s == Max({db.schema, SchemaOf[running]})
             e == [db EXCEPT !.schema = s]
  <2>1. db' = e /\ ran' = ran \cup {running} /\ svc' = "opened"
    OBVIOUS
  <2>2. s \in Schemas \ {0}
    BY <1>3, MaxOfTwo
  <2> HIDE <1>4 DEF s
  <2>3. Sound(e, archive, used, ran) /\ e.rows = db.rows
    BY <1>2, <2>2, MigratedSound
  <2> HIDE DEF e
  <2>4. Sound(e, archive, used', ran')
    BY <1>1, <1>2, <2>1, <2>3, SoundStays
  <2>5. Follows(Open, e) /\ Write(e)
    BY <1>1, <2>1, <2>3 DEF Follows, Write
  <2>6. Databases' /\ Forgotten'
    BY <1>1, <1>2, <2>1, <2>4, <2>5, Writing
  <2>7. Types'
    BY <1>1, <2>1 DEF Types
  <2>8. Serving' /\ Tasks'
    BY <1>1, <2>1 DEF Serving, Tasks, NoTask, NoBackup
  <2>9. HelperShape' /\ Journals' /\ Helpers'
    BY <1>1, Untouched
  <2> QED
    BY <2>6, <2>7, <2>8, <2>9
<1>5. CASE OpenFails
  <2>1. PICK s \in db.schema .. Max({db.schema, SchemaOf[running] - 1}) :
          db' = [BlamePending(db) EXCEPT !.schema = s]
    BY <1>5 DEF OpenFails
  <2>2. svc' = "down" /\ ran' = ran
    BY <1>5 DEF OpenFails
  <2>3. s \in Schemas \ {0}
    <3> DEFINE m == SchemaOf[running] - 1
    <3>1. m \in Nat /\ m < SchemaOf[running] /\ db.schema \in Nat /\ db.schema # 0
          /\ SchemaOf[running] \in Nat
      <4>1. db.schema \in Nat \ {0} /\ SchemaOf[running] \in Nat \ {0}
        BY <1>3
      <4> QED
        BY <4>1
    <3> HIDE DEF m
    <3>2. Max({db.schema, m}) \in {db.schema, m}
      BY <3>1, MaxOfTwo
    <3>3. s \in db.schema .. db.schema \/ s \in db.schema .. m
      BY <2>1, <3>2 DEF m
    <3>4. s = db.schema \/ s \in db.schema .. SchemaOf[running]
      BY <3>1, <3>3
    <3>5. s \in Schemas
      BY <1>3, <3>4
    <3> QED
      BY <3>1, <3>4, <3>5
  <2> DEFINE d == BlamePending(db)
             e == [d EXCEPT !.schema = s]
  <2>4. Sound(d, archive, used, ran) /\ Follows(db, d)
    <3>1. CASE \E r \in Rows(db) : IsPending(r)
      <4>1. PICK n \in DOMAIN db.rows :
              /\ IsPending(db.rows[n])
              /\ d = [db EXCEPT !.rows = [k \in DOMAIN db.rows |->
                        IF k = n THEN Failed(db.rows[k]) ELSE db.rows[k]]]
        BY <1>2, <3>1, Blamed
      <4> DEFINE q == [k \in DOMAIN db.rows |-> IF k = n THEN Failed(db.rows[k]) ELSE db.rows[k]]
      <4>2. q = [k \in DOMAIN db.rows |-> q[k]] /\ d = [db EXCEPT !.rows = q]
        BY <4>1
      <4>3. ASSUME NEW k \in DOMAIN db.rows
            PROVE  /\ q[k] \in RowType /\ q[k].id = db.rows[k].id
                   /\ GoodRow(q[k], db.backups, archive, used, ran)
                   /\ db.rows[k].status = "known_good" => q[k].status = "known_good"
        <5>1. db.rows[k] \in RowType /\ GoodRow(db.rows[k], db.backups, archive, used, ran)
          BY <1>2, RowsTyped DEF Sound
        <5>2. \/ q[k] = db.rows[k]
              \/ q[k] = Failed(db.rows[k]) /\ db.rows[k].status # "known_good"
          BY <4>1 DEF IsPending
        <5> HIDE DEF q
        <5>3. CASE q[k] = db.rows[k]
          BY <5>1, <5>3
        <5>4. CASE q[k] = Failed(db.rows[k]) /\ db.rows[k].status # "known_good"
          <6>1. q[k] \in RowType /\ q[k].id = db.rows[k].id /\ q[k].status = "failed"
            BY <5>1, <5>4 DEF Failed, RowType, Statuses
          <6> QED
            BY <5>1, <5>4, <6>1 DEF GoodRow
        <5> QED
          BY <5>2, <5>3, <5>4
      <4> HIDE DEF q, d
      <4>4. Sound(d, archive, used, ran) /\ DOMAIN q = DOMAIN db.rows
        BY <1>2, <4>2, <4>3, RewrittenSound
      <4>5. d.rows = q
        BY <1>2, <4>2 DEF Database
      <4> QED
        BY <4>3, <4>4, <4>5 DEF Follows
    <3>2. CASE ~\E r \in Rows(db) : IsPending(r)
      BY <1>2, <3>2 DEF BlamePending, Follows
    <3> QED
      BY <3>1, <3>2
  <2> HIDE DEF d
  <2>5. Sound(e, archive, used, ran) /\ e.rows = d.rows /\ db' = e
    BY <2>1, <2>3, <2>4, MigratedSound DEF d
  <2> HIDE DEF e
  <2>6. Follows(Open, e) /\ Write(e)
    BY <1>1, <2>4, <2>5 DEF Follows, Write
  <2>7. Databases' /\ Forgotten'
    BY <1>1, <1>2, <2>2, <2>5, <2>6, Writing
  <2>8. Types'
    BY <1>1, <2>2 DEF Types
  <2>9. Serving' /\ Tasks'
    BY <1>1, <2>2 DEF Serving, Tasks, NoTask, NoBackup
  <2>10. HelperShape' /\ Journals' /\ Helpers'
    BY <1>1, Untouched
  <2> QED
    BY <2>7, <2>8, <2>9, <2>10
<1> QED
  BY <1>4, <1>5

(* What the startup makes of the history.                                  *)
LEMMA InvReconcile ==
  ASSUME Inv, (\E healthy \in BOOLEAN : ReconcileUpdates(healthy)) \/ DetectExternal
              \/ \E i \in Ids : PersistTransaction(i)
  PROVE  Inv'
<1> USE DEF Inv
<1>1. /\ svc \in {"opened", "reconciled", "detected"} /\ svc' \in {"reconciled", "detected"}
      /\ UNCHANGED <<attached, archive, journal, installed, running, task, launch,
                     helper, timer, used, ran>>
  BY DEF ReconcileUpdates, DetectExternal, PersistTransaction, Completed
<1>2. task = NoTask /\ launch = {} /\ running \in ran /\ running \in Versions
  BY <1>1 DEF Serving, Types
<1>3. /\ used \in Nat /\ Sound(Open, archive, used, ran)
      /\ \A k \in DOMAIN Open.rows : /\ Open.rows[k] \in RowType
                                     /\ GoodRow(Open.rows[k], Open.backups, archive, used, ran)
  BY OpenSound, RowsTyped, VersionsAssumption DEF Types, Sound
<1>4. Databases' /\ Forgotten'
  <2>1. CASE \E healthy \in BOOLEAN : ReconcileUpdates(healthy)
    <3>1. PICK healthy \in BOOLEAN : ReconcileUpdates(healthy)
      BY <2>1
    <3> DEFINE q == [k \in DOMAIN Open.rows |-> Reconciled(Open.rows[k], healthy)]
    <3>2. Write([Open EXCEPT !.rows = q])
      BY <3>1 DEF ReconcileUpdates
    <3>3. ASSUME NEW k \in DOMAIN Open.rows
          PROVE  /\ q[k] \in RowType /\ q[k].id = Open.rows[k].id
                 /\ GoodRow(q[k], Open.backups, archive, used, ran)
                 /\ Open.rows[k].status = "known_good" => q[k].status = "known_good"
      <4>1. \/ q[k] = Open.rows[k]
            \/ /\ IsPending(Open.rows[k]) /\ Open.rows[k].version = running
               /\ \E st \in {"known_good", "failed"} : q[k] = [Open.rows[k] EXCEPT !.status = st]
        BY DEF Reconciled
      <4> HIDE DEF q
      <4>2. CASE q[k] = Open.rows[k]
        BY <1>3, <4>2
      <4>3. CASE /\ IsPending(Open.rows[k]) /\ Open.rows[k].version = running
                 /\ \E st \in {"known_good", "failed"} : q[k] = [Open.rows[k] EXCEPT !.status = st]
        <5>1. /\ q[k] \in RowType /\ q[k].status \in {"known_good", "failed"}
              /\ q[k].id = Open.rows[k].id /\ q[k].base = Open.rows[k].base
              /\ q[k].version = running
          BY <1>3, <4>3 DEF RowType, Statuses
        <5> QED
          BY <1>2, <1>3, <4>3, <5>1 DEF GoodRow, IsPending
      <4> QED
        BY <4>1, <4>2, <4>3
    <3>4. q = [k \in DOMAIN Open.rows |-> q[k]]
      OBVIOUS
    <3> HIDE DEF q
    <3> QED
      BY <1>1, <3>2, <3>3, <3>4, Rewriting
  <2>2. CASE DetectExternal
    <3> DEFINE r == Row(External, running, "external", "healthy")
    <3>1. Write(Insert(Open, r)) \/ Write(Open)
      BY <2>2 DEF DetectExternal
    <3>2. r \in RowType /\ r.id = External /\ r.status = "healthy" /\ r.id <= used
      BY <1>2, <1>3, SchemasBounded, VersionsAssumption
      DEF Row, RowType, Statuses, External, NoSchema
    <3> HIDE DEF r
    <3>3. CASE Write(Insert(Open, r))
      <4>1. GoodRow(r, Open.backups, archive, used', ran) /\ Fresh(r)
        BY <1>1, <3>2 DEF GoodRow, Fresh
      <4>2. used' \in Nat /\ used <= used'
        BY <1>1, <1>3
      <4> QED
        BY <1>1, <3>2, <3>3, <4>1, <4>2, Inserting
    <3>4. CASE Write(Open)
      BY <1>1, <1>3, <3>4, Writing DEF Follows
    <3> QED
      BY <3>1, <3>3, <3>4
  <2>3. CASE \E i \in Ids : PersistTransaction(i)
    <3>1. PICK i \in Ids : PersistTransaction(i)
      BY <2>3
    <3> DEFINE r == Row(i, running, "rollback", "known_good")
    <3>2. /\ Write(Insert(Open, r)) /\ journal[i].stage = "RESTART_PENDING"
          /\ ~Recorded(Open, i)
      BY <3>1 DEF PersistTransaction, Completed
    <3>3. i <= used
      BY <3>2 DEF Journals, Absent
    <3>4. /\ r \in RowType /\ r.id = i /\ r.status = "known_good"
          /\ r.base = NoSchema /\ r.version = running
      BY <1>2, SchemasBounded, VersionsAssumption DEF Row, RowType, Statuses, NoSchema, Ids
    <3> HIDE DEF r
    <3>5. GoodRow(r, Open.backups, archive, used', ran) /\ Fresh(r)
      BY <1>1, <1>2, <3>2, <3>3, <3>4 DEF GoodRow, Fresh
    <3>6. \A k \in DOMAIN Open.rows : Open.rows[k].id # r.id
      BY <3>2, <3>4 DEF Recorded, Rows
    <3>7. used' \in Nat /\ used <= used'
      BY <1>1, <1>3
    <3> QED
      BY <1>1, <3>2, <3>4, <3>5, <3>6, <3>7, Inserting
  <2> QED
    BY <2>1, <2>2, <2>3
<1>5. Types'
  BY <1>1 DEF Types
<1>6. HelperShape' /\ Journals' /\ Helpers'
  BY <1>1, Untouched
<1>7. Serving' /\ Tasks'
  BY <1>1, <1>2 DEF Serving, Tasks, NoTask, NoBackup
<1> QED
  BY <1>4, <1>5, <1>6, <1>7

(* The end of the startup.                                                 *)
LEMMA InvServe ==
  ASSUME Inv, Serve \/ \E i \in Ids : RemoveTransaction(i)
  PROVE  Inv'
<1> USE DEF Inv
<1>1. CASE Serve
  <2> USE <1>1 DEF Serve
  <2>1. Databases' /\ HelperShape' /\ Journals' /\ Helpers' /\ Forgotten' /\ Open' = Open
    BY Untouched
  <2>2. Tasks'
    BY <2>1, Untouched
  <2>3. Types'
    BY DEF Types
  <2>4. Serving'
    BY DEF Serving
  <2> QED
    BY <2>1, <2>2, <2>3, <2>4
<1>2. CASE \E i \in Ids : RemoveTransaction(i)
  <2>1. PICK i \in Ids : RemoveTransaction(i)
    BY <1>2
  <2>2. /\ journal' = [journal EXCEPT ![i] = Absent] /\ svc = "detected"
        /\ journal[i].stage = "RESTART_PENDING"
        /\ UNCHANGED <<db, gone, attached, archive, installed, svc, running, task,
                       launch, helper, timer, used, ran>>
    BY <2>1 DEF RemoveTransaction, Completed
  <2>3. /\ journal' \in [Ids -> Journal \cup {Absent}] /\ journal'[i] = Absent
        /\ \A k \in Ids \ {i} : journal'[k] = journal[k]
    BY <2>2 DEF Types
  <2>4. Databases' /\ HelperShape' /\ Serving' /\ Open' = Open
    BY <2>2, Untouched
  <2>5. Types'
    BY <2>2, <2>3 DEF Types
  <2>6. Tasks'
    BY <2>2, <2>3, <2>4 DEF Tasks
  <2>7. Journals' /\ Helpers'
    BY <2>2, <2>3 DEF Journals, Helpers, Types
  <2>8. Forgotten'
    BY <2>2, <2>3 DEF Forgotten, RestoredDbForgets, Overtaken, Rows, Absent
  <2> QED
    BY <2>4, <2>5, <2>6, <2>7, <2>8
<1> QED
  BY <1>1, <1>2

(* Every step.                                                             *)
LEMMA InvNext ==
  ASSUME Inv, [Next]_vars
  PROVE  Inv'
<1>1. CASE UNCHANGED vars
  <2>1. UNCHANGED <<db, gone, attached, archive, journal, installed, svc, running, task,
                    launch, helper, timer, used, ran>>
    BY <1>1 DEF vars
  <2>2. /\ Databases' /\ HelperShape' /\ Serving' /\ Journals' /\ Helpers' /\ Forgotten'
        /\ Open' = Open
    BY <2>1, Untouched
  <2>3. Tasks'
    BY <2>1, <2>2, Untouched
  <2>4. Types'
    BY <2>1 DEF Inv, Types
  <2> QED
    BY <2>2, <2>3, <2>4 DEF Inv
<1>2. CASE Next
  <2>1. CASE Client
    BY <2>1, InvClient
  <2>2. CASE Handler
    BY <2>2, InvHandler, InvBackup, InvConclude DEF Handler
  <2>3. CASE Helper
    BY <2>3, InvHelperInstall, InvHelperRollback DEF Helper
  <2>4. CASE Startup
    BY <2>4, InvOpening, InvReconcile, InvServe DEF Startup
  <2>5. CASE Manager
    BY <2>5, InvManager
  <2> QED
    BY <1>2, <2>1, <2>2, <2>3, <2>4, <2>5 DEF Next
<1> QED
  BY <1>1, <1>2

(* The inductive invariant.                                                *)
THEOREM InvHolds == Spec => []Inv
<1>1. Init => Inv
  BY InvInit
<1>2. Inv /\ [Next]_vars => Inv'
  BY InvNext
<1> QED
  BY <1>1, <1>2, PTL DEF Spec

(* Every variable keeps its type, the archives and journals on disk too.   *)
THEOREM TypeCorrect == Spec => []TypeOK
<1>1. Inv => TypeOK
  <2> SUFFICES ASSUME Inv PROVE TypeOK
    OBVIOUS
  <2>1. {db, gone} \subseteq Database
    BY DEF Inv, Databases, Sound
  <2>2. helper.step \in Steps
    BY DEF Inv, HelperShape
  <2> QED
    BY <2>1, <2>2 DEF Inv, Types, TaskType, Steps, TypeOK
<1> QED
  BY <1>1, InvHolds, PTL

(* Only versions that came up on the database are called known good,       *)
(* through every restart, restore and crash in between.                    *)
THEOREM KnownGoodVersionsRan == Spec => []KnownGoodRan
<1>1. Inv => KnownGoodRan
  BY OpenSound DEF Inv, Databases, Sound, GoodRow, KnownGoodRan, Rows
<1> QED
  BY <1>1, InvHolds, PTL

(* The row of an install that is in place comes with a registered backup   *)
(* whose archive has the schema the row says, in restored databases too.   *)
THEOREM InstallsAreUndoable == Spec => []InstallUndoable
<1>1. Inv => InstallUndoable
  BY DEF Inv, Databases, Sound, GoodRow, InstallUndoable, Rows
<1> QED
  BY <1>1, InvHolds, PTL

(* The database holds no unfinished row of a completed rollback, unless a  *)
(* later request archived it while the rollback was waiting.               *)
THEOREM DatabasesForget == Spec => []RestoredDbForgets
<1>1. Inv => RestoredDbForgets
  BY DEF Inv, Forgotten
<1> QED
  BY <1>1, InvHolds, PTL

(* A completed rollback's journal is removed only once the database on     *)
(* disk records the rollback, with the same exception.                     *)
THEOREM RollbacksAreRecorded == Spec => RollbackRecorded
<1>1. Inv /\ [Next]_vars =>
        [\A i \in Ids :
           journal[i].stage = "RESTART_PENDING" /\ journal'[i] = Absent /\ attached
             => \/ \E r \in Rows(db') : r.id = i /\ r.status = "known_good"
                \/ Overtaken(i)]_vars
  <2> SUFFICES ASSUME Inv, Next, NEW i \in Ids, journal[i].stage = "RESTART_PENDING",
                      journal'[i] = Absent, attached
               PROVE  (\E r \in Rows(db') : r.id = i /\ r.status = "known_good") \/ Overtaken(i)
    OBVIOUS
  <2>1. journal[i] # Absent /\ journal \in [Ids -> Journal \cup {Absent}]
    BY DEF Absent, Inv, Types
  <2>2. ~UNCHANGED journal
    BY <2>1
  <2>3. CASE AcceptRestore
    <3>1. task.id = used /\ journal[used] = Absent
      BY <2>3 DEF AcceptRestore, At, Inv, Tasks
    <3> QED
      BY <2>1, <2>3, <3>1 DEF AcceptRestore
  <2>4. CASE HelperJournal
    <3>1. journal[helper.id].stage = "REQUESTED"
      BY <2>4 DEF HelperJournal, HelperAt, Inv, Helpers
    <3> QED
      BY <2>1, <2>4, <3>1 DEF HelperJournal
  <2>5. CASE \E j \in Ids : RemoveTransaction(j)
    <3>1. PICK j \in Ids : RemoveTransaction(j)
      BY <2>5
    <3>2. j = i
      BY <2>1, <3>1 DEF RemoveTransaction
    <3>3. (\E r \in Rows(db) : r.id = i) /\ db' = db
      BY <3>1, <3>2 DEF RemoveTransaction, Recorded, Open
    <3> QED
      BY <3>3 DEF Inv, Forgotten, RestoredDbForgets
  <2> QED
    BY <2>2, <2>3, <2>4, <2>5
       DEF Next, Client, Handler, Helper, Startup, Manager, Request, Refuse, Backup, Register,
           CallInstall, DatabaseClosed, CallTimesOut, Conclude, Launch, HelperFails,
           HelperInstall, HelperTimer, HelperStop, HelperRestore, HelperPackage, HelperStart,
           TimerFires, Start, Crash, InstallPackage, PowerLoss, OpenDatabase, OpenFails,
           ReconcileUpdates, DetectExternal, PersistTransaction, Serve
<1> QED
  BY <1>1, InvHolds, PTL DEF Spec, RollbackRecorded
=============================================================================
