---------------------------- MODULE RuntimeProofs ----------------------------
(***************************************************************************)
(* Ready means migrated, a check is judged on a recent policy set, and a   *)
(* graceful shutdown leaves no check event behind, for any deployment, any *)
(* number of processes, outages, commits, crashes and requests.            *)
(***************************************************************************)
EXTENDS Runtime, TLAPS

Phases == {"down", "refused", "failed", "locking", "migrating", "loading",
           "serving", "stopping", "flushed"}

-----------------------------------------------------------------------------
(* Migration.  The version row runs ahead of the migrations by at most the *)
(* one it is dirty for (RowIsHonest), and only the holder of the advisory  *)
(* lock is between two statements of a migration (Holder, Halfway).        *)

Schemas == [mode : {"up", "erring", "gone"}, version : Nat, dirty : BOOLEAN, applied : SUBSET Nat,
            lock : Processes \cup {None}, schema : Nat, policies : Nat]
Migrations == [step : {None, "read", "mark", "run", "clean"}, next : Nat, polls : Nat]

Halfway(p) ==
    /\ mig[p].step # None
    /\ mig[p].step = "mark" => ~db.dirty /\ mig[p].next = db.version + 1
    /\ mig[p].step \in {"run", "clean"} => db.dirty /\ db.version = mig[p].next
    /\ mig[p].step = "clean" => mig[p].next \in db.applied
RowIsHonest == 1 .. (IF db.dirty THEN db.version - 1 ELSE db.version) \subseteq db.applied
MigrationTypes ==
    /\ cfg \in Deployments /\ db \in Schemas /\ phase \in [Procs -> Phases]
    /\ mig \in [Procs -> Migrations] /\ gate \in [Procs -> BOOLEAN]
Holder ==
    \A p \in Procs : /\ phase[p] = "locking" => mig[p].step = "read"
                     /\ phase[p] = "migrating" => db.lock = p /\ Halfway(p)
MigrationInv == MigrationTypes /\ RowIsHonest /\ Holder /\ ReadyMeansMigrated

(* What the settings of a deployment are assumed to be.                    *)
LEMMA SettingsFacts ==
    ASSUME cfg \in Deployments
    PROVE  /\ Procs \subseteq Processes /\ None \notin Procs /\ Applied(cfg) \in Nat
           /\ \A p \in Procs : Of(p).want \in Nat
BY RuntimeAssumption DEF Procs, Of

(* A deployment starts with its migrations applied and nobody running.     *)
LEMMA MigrationStarts == Init => MigrationInv
<1> SUFFICES ASSUME Init PROVE MigrationInv
    OBVIOUS
<1>1. cfg \in Deployments /\ Applied(cfg) \in Nat
    BY SettingsFacts DEF Init
<1>2. db \in Schemas
    BY <1>1 DEF Init, Schemas
<1>3. MigrationTypes
    BY <1>1, <1>2 DEF Init, MigrationTypes, Phases, Migrations, NoMigration
<1>4. RowIsHonest
    BY <1>1 DEF Init, RowIsHonest
<1> QED
    BY <1>3, <1>4 DEF Init, MigrationInv, Holder, ReadyMeansMigrated

(* A step that leaves the schema's row alone and takes nobody into the     *)
(* migration preserves the invariant.                                      *)
LEMMA NoMigrationStep ==
    ASSUME MigrationInv, cfg' = cfg, db' \in Schemas,
           db'.version = db.version, db'.dirty = db.dirty, db'.applied = db.applied,
           phase' \in [Procs -> Phases], mig' \in [Procs -> Migrations], gate' \in [Procs -> BOOLEAN],
           \A p \in Procs : /\ phase'[p] \in {"locking", "migrating"} => phase'[p] = phase[p] /\ mig'[p] = mig[p]
                            /\ phase'[p] = "migrating" => db'.lock = db.lock
                            /\ gate'[p] => 1 .. Of(p).want \subseteq db.applied
    PROVE  MigrationInv'
<1>1. Procs' = Procs /\ \A p : Of(p)' = Of(p)
    BY DEF Procs, Of
<1>2. MigrationTypes'
    BY <1>1 DEF MigrationInv, MigrationTypes
<1>3. RowIsHonest'
    BY DEF MigrationInv, RowIsHonest
<1>4. Holder'
    BY <1>1 DEF MigrationInv, Holder, Halfway
<1>5. ReadyMeansMigrated'
    BY <1>1 DEF ReadyMeansMigrated
<1> QED
    BY <1>2, <1>3, <1>4, <1>5 DEF MigrationInv

(* A process going from one phase to another outside the migration.        *)
LEMMA OutsideStep ==
    ASSUME MigrationInv, cfg' = cfg, db' = db, mig' = mig,
           gate' \in [Procs -> BOOLEAN],
           \A p \in Procs : gate'[p] => 1 .. Of(p).want \subseteq db.applied,
           NEW p \in Procs, NEW to \in Phases \ {"locking", "migrating"}, phase' = phase \/ To(p, to)
    PROVE  MigrationInv'
<1>1. /\ db' \in Schemas /\ mig' \in [Procs -> Migrations] /\ phase \in [Procs -> Phases]
    BY DEF MigrationInv, MigrationTypes
<1>2. /\ phase' \in [Procs -> Phases]
      /\ \A q \in Procs : phase'[q] \in {"locking", "migrating"} => phase'[q] = phase[q]
    BY <1>1 DEF To
<1> QED
    BY <1>1, <1>2, NoMigrationStep

(* One poll of the advisory lock: it is taken from nobody or not at all.   *)
LEMMA LockPollKeeps ==
    ASSUME MigrationInv, NEW p \in Procs, LockPoll(p)
    PROVE  MigrationInv'
<1>1. /\ cfg' = cfg /\ gate' = gate /\ phase[p] = "locking"
      /\ \/ /\ db.lock = None /\ db' = [db EXCEPT !.lock = p]
            /\ To(p, "migrating") /\ mig' = mig
         \/ /\ db' = db /\ mig' = [mig EXCEPT ![p].polls = @ + 1]
            /\ To(p, "locking") \/ To(p, "failed")
         \/ To(p, "failed") /\ db' = db /\ mig' = mig
    BY DEF LockPoll, Lock
<1>2. Procs' = Procs /\ \A q : Of(q)' = Of(q)
    BY <1>1 DEF Procs, Of
<1>3. /\ cfg \in Deployments /\ db \in Schemas /\ phase \in [Procs -> Phases]
      /\ mig \in [Procs -> Migrations] /\ gate \in [Procs -> BOOLEAN] /\ p \in Processes
      /\ None \notin Procs
    BY SettingsFacts DEF MigrationInv, MigrationTypes
<1>4. CASE db.lock = None /\ db' = [db EXCEPT !.lock = p] /\ To(p, "migrating") /\ mig' = mig
  <2>1. /\ db' \in Schemas /\ db'.lock = p /\ db'.version = db.version
        /\ db'.dirty = db.dirty /\ db'.applied = db.applied
      BY <1>3, <1>4 DEF Schemas
  <2>2. MigrationTypes'
      BY <1>1, <1>2, <1>3, <1>4, <2>1 DEF MigrationTypes, To, Phases
  <2>3. RowIsHonest' /\ ReadyMeansMigrated'
      BY <1>1, <1>2, <2>1 DEF MigrationInv, RowIsHonest, ReadyMeansMigrated
  <2>4. \A q \in Procs : phase[q] # "migrating"
      BY <1>3, <1>4 DEF MigrationInv, Holder
  <2>5. Holder'
      BY <1>1, <1>2, <1>3, <1>4, <2>1, <2>4 DEF MigrationInv, Holder, Halfway, To, None
  <2> QED
      BY <2>2, <2>3, <2>5 DEF MigrationInv
<1>5. CASE /\ db' = db /\ mig' = [mig EXCEPT ![p].polls = @ + 1]
           /\ To(p, "locking") \/ To(p, "failed")
  <2>1. /\ mig' \in [Procs -> Migrations]
        /\ \A q \in Procs : mig'[q].step = mig[q].step /\ mig'[q].next = mig[q].next
      BY <1>3, <1>5 DEF Migrations
  <2>2. MigrationTypes'
      BY <1>1, <1>2, <1>3, <1>5, <2>1 DEF MigrationTypes, To, Phases
  <2>3. RowIsHonest' /\ ReadyMeansMigrated'
      BY <1>1, <1>2, <1>5 DEF MigrationInv, RowIsHonest, ReadyMeansMigrated
  <2>4. Holder'
      BY <1>1, <1>2, <1>3, <1>5, <2>1 DEF MigrationInv, Holder, Halfway, To
  <2> QED
      BY <2>2, <2>3, <2>4 DEF MigrationInv
<1>6. CASE To(p, "failed") /\ db' = db /\ mig' = mig
    BY <1>1, <1>3, <1>6, OutsideStep DEF MigrationInv, ReadyMeansMigrated, Phases
<1> QED
    BY <1>1, <1>4, <1>5, <1>6

(* The end of a migration: the row is honest and the lock goes.            *)
LEMMA UpEndsKeeps ==
    ASSUME MigrationInv, NEW p \in Procs, phase[p] = "migrating", cfg' = cfg, gate' = gate,
           NEW d \in Schemas, d.applied = db.applied, d.lock = db.lock,
           1 .. (IF d.dirty THEN d.version - 1 ELSE d.version) \subseteq db.applied,
           NEW to \in {"failed", "loading"}, UpEnds(p, d, to)
    PROVE  MigrationInv'
<1>1. Procs' = Procs /\ \A q : Of(q)' = Of(q)
    BY DEF Procs, Of
<1>2. /\ phase \in [Procs -> Phases] /\ mig \in [Procs -> Migrations] /\ gate \in [Procs -> BOOLEAN]
      /\ cfg \in Deployments /\ NoMigration \in Migrations
    BY DEF MigrationInv, MigrationTypes, NoMigration, Migrations
<1>3. /\ db' = [d EXCEPT !.lock = IF @ = p THEN None ELSE @]
      /\ To(p, to) /\ mig' = [mig EXCEPT ![p] = NoMigration]
    BY DEF UpEnds
<1>4. /\ db' \in Schemas /\ db'.applied = db.applied
      /\ db'.version = d.version /\ db'.dirty = d.dirty
    BY <1>3 DEF Schemas
<1>5. MigrationTypes'
    BY <1>1, <1>2, <1>3, <1>4 DEF MigrationTypes, To, Phases
<1>6. RowIsHonest' /\ ReadyMeansMigrated'
    BY <1>1, <1>4 DEF MigrationInv, RowIsHonest, ReadyMeansMigrated
<1>7. Holder'
  <2>1. \A q \in Procs : q # p => phase[q] # "migrating"
      BY DEF MigrationInv, Holder
  <2> QED
      BY <1>1, <1>2, <1>3, <2>1 DEF MigrationInv, Holder, To
<1> QED
    BY <1>5, <1>6, <1>7 DEF MigrationInv

(* A statement of a migration that goes on leaves its process halfway.     *)
LEMMA UpGoesKeeps ==
    ASSUME MigrationInv, NEW p \in Procs, phase[p] = "migrating", cfg' = cfg, gate' = gate,
           NEW d \in Schemas, db.applied \subseteq d.applied, d.lock = db.lock,
           1 .. (IF d.dirty THEN d.version - 1 ELSE d.version) \subseteq d.applied,
           NEW step \in {"mark", "run", "clean"}, NEW next \in Nat, UpGoes(p, d, step, next),
           step = "mark" => ~d.dirty /\ next = d.version + 1,
           step # "mark" => d.dirty /\ d.version = next,
           step = "clean" => next \in d.applied
    PROVE  MigrationInv'
<1>1. Procs' = Procs /\ \A q : Of(q)' = Of(q)
    BY DEF Procs, Of
<1>2. /\ phase \in [Procs -> Phases] /\ mig \in [Procs -> Migrations] /\ gate \in [Procs -> BOOLEAN]
      /\ cfg \in Deployments
    BY DEF MigrationInv, MigrationTypes
<1>3. db' = d /\ mig' = [mig EXCEPT ![p].step = step, ![p].next = next] /\ phase' = phase
    BY DEF UpGoes
<1>4. /\ mig' \in [Procs -> Migrations] /\ mig'[p].step = step /\ mig'[p].next = next
      /\ \A q \in Procs : q # p => mig'[q] = mig[q]
    BY <1>2, <1>3, Zenon DEF Migrations
<1>5. MigrationTypes'
    BY <1>1, <1>2, <1>3, <1>4 DEF MigrationTypes
<1>6. RowIsHonest'
    BY <1>3 DEF RowIsHonest
<1>7. ReadyMeansMigrated'
    BY <1>1, <1>3 DEF MigrationInv, ReadyMeansMigrated
<1>8. Holder'
  <2>1. /\ \A q \in Procs : q # p => phase[q] # "migrating"
        /\ db.lock = p
      BY DEF MigrationInv, Holder
  <2>2. Halfway(p)'
      BY <1>3, <1>4 DEF Halfway, None
  <2> QED
      BY <1>1, <1>3, <1>4, <2>1, <2>2 DEF MigrationInv, Holder
<1> QED
    BY <1>5, <1>6, <1>7, <1>8 DEF MigrationInv

(* Every statement of a migration, and its failure, keeps the row honest.  *)
LEMMA MigrateKeeps ==
    ASSUME MigrationInv, NEW p \in Procs, Migrate(p)
    PROVE  MigrationInv'
<1>1. /\ phase[p] = "migrating" /\ cfg' = cfg /\ gate' = gate
      /\ Version(p) \/ MarkDirty(p) \/ Run(p) \/ MarkClean(p) \/ UpEnds(p, db, "failed")
    BY DEF Migrate
<1>2. /\ db \in Schemas /\ mig[p] \in Migrations /\ Of(p).want \in Nat /\ db.version \in Nat
      /\ db.applied \in SUBSET Nat /\ mig[p].next \in Nat /\ db.dirty \in BOOLEAN
      /\ 1 .. (IF db.dirty THEN db.version - 1 ELSE db.version) \subseteq db.applied
      /\ Halfway(p)
    BY <1>1, SettingsFacts DEF MigrationInv, MigrationTypes, Schemas, Migrations, RowIsHonest, Holder
<1>3. ASSUME NEW to \in {"failed", "loading"}, UpEnds(p, db, to) PROVE MigrationInv'
    BY <1>1, <1>2, <1>3, UpEndsKeeps
<1>4. CASE Version(p)
  <2>1. CASE UpEnds(p, db, "failed") \/ UpEnds(p, db, "loading")
      BY <1>3, <2>1
  <2>2. CASE ~db.dirty /\ UpGoes(p, db, "mark", db.version + 1)
      BY <1>1, <1>2, <2>2, UpGoesKeeps
  <2> QED
      BY <1>4, <2>1, <2>2 DEF Version
<1>5. CASE MarkDirty(p)
  <2>1. ~db.dirty /\ mig[p].next = db.version + 1
      BY <1>2, <1>5 DEF MarkDirty, Halfway
  <2> DEFINE d == SetVersion(mig[p].next, TRUE)
  <2>2. /\ d \in Schemas /\ d.applied = db.applied /\ d.lock = db.lock
        /\ d.dirty = TRUE /\ d.version = mig[p].next
      BY <1>2, Zenon DEF SetVersion, Schemas
  <2>3. UpGoes(p, d, "run", mig[p].next)
      BY <1>5, Zenon DEF MarkDirty
  <2> HIDE DEF d
  <2>4. 1 .. (d.version - 1) \subseteq d.applied
      BY <1>2, <2>1, <2>2
  <2> QED
      BY <1>1, <1>2, <2>2, <2>3, <2>4, UpGoesKeeps
<1>6. CASE Run(p)
  <2>1. db.dirty /\ db.version = mig[p].next
      BY <1>2, <1>6 DEF Run, Halfway
  <2> DEFINE d == [db EXCEPT !.applied = @ \cup {mig[p].next}]
  <2>2. /\ d \in Schemas /\ d.applied = db.applied \cup {mig[p].next} /\ d.lock = db.lock
        /\ d.dirty = db.dirty /\ d.version = db.version
      BY <1>2 DEF Schemas
  <2>3. UpEnds(p, db, "failed") \/ UpGoes(p, d, "clean", mig[p].next)
      BY <1>6 DEF Run
  <2> HIDE DEF d
  <2>4. CASE UpGoes(p, d, "clean", mig[p].next)
      BY <1>1, <1>2, <2>1, <2>2, <2>4, UpGoesKeeps, Zenon
  <2> QED
      BY <1>3, <2>3, <2>4
<1>7. CASE MarkClean(p)
  <2>1. db.dirty /\ db.version = mig[p].next /\ mig[p].next \in db.applied
      BY <1>2, <1>7 DEF MarkClean, Halfway
  <2> DEFINE d == SetVersion(mig[p].next, FALSE)
  <2>2. /\ d \in Schemas /\ d.applied = db.applied /\ d.lock = db.lock
        /\ d.dirty = FALSE /\ d.version = mig[p].next
      BY <1>2, Zenon DEF SetVersion, Schemas
  <2>3. UpEnds(p, d, "loading") \/ UpGoes(p, d, "mark", mig[p].next + 1)
      BY <1>7, Zenon DEF MarkClean
  <2> HIDE DEF d
  <2>4. 1 .. d.version \subseteq d.applied
      BY <1>2, <2>1, <2>2
  <2>5. CASE UpEnds(p, d, "loading")
      BY <1>1, <2>2, <2>4, <2>5, UpEndsKeeps
  <2>6. CASE UpGoes(p, d, "mark", mig[p].next + 1)
      BY <1>1, <1>2, <2>2, <2>4, <2>6, UpGoesKeeps
  <2> QED
      BY <2>3, <2>5, <2>6
<1> QED
    BY <1>1, <1>3, <1>4, <1>5, <1>6, <1>7

(* A process that is gone takes its gate and its own lock with it.         *)
LEMMA GoneKeepsMigration ==
    ASSUME MigrationInv, NEW p \in Procs, Gone(p, "down")
    PROVE  MigrationInv'
<1>1. /\ db \in Schemas /\ phase \in [Procs -> Phases] /\ mig \in [Procs -> Migrations]
      /\ gate \in [Procs -> BOOLEAN] /\ NoMigration \in Migrations
    BY DEF MigrationInv, MigrationTypes, NoMigration, Migrations
<1>2. /\ cfg' = cfg /\ To(p, "down") /\ mig' = [mig EXCEPT ![p] = NoMigration]
      /\ gate' = [gate EXCEPT ![p] = FALSE]
      /\ db' = [db EXCEPT !.lock = IF @ = p THEN None ELSE @]
    BY DEF Gone
<1>3. /\ db' \in Schemas /\ db'.version = db.version /\ db'.dirty = db.dirty /\ db'.applied = db.applied
      /\ db.lock # p => db'.lock = db.lock
    BY <1>1, <1>2 DEF Schemas
<1>4. /\ phase' \in [Procs -> Phases] /\ mig' \in [Procs -> Migrations] /\ gate' \in [Procs -> BOOLEAN]
    BY <1>1, <1>2 DEF To, Phases
<1>5. ASSUME NEW q \in Procs
      PROVE  /\ phase'[q] \in {"locking", "migrating"} => phase'[q] = phase[q] /\ mig'[q] = mig[q]
             /\ phase'[q] = "migrating" => db'.lock = db.lock
             /\ gate'[q] => 1 .. Of(q).want \subseteq db.applied
  <2>1. CASE q = p
      BY <1>1, <1>2, <2>1 DEF To
  <2>2. CASE q # p
      BY <1>1, <1>2, <1>3, <2>2 DEF To, MigrationInv, Holder, ReadyMeansMigrated
  <2> QED
      BY <2>1, <2>2
<1> QED
    BY <1>2, <1>3, <1>4, <1>5, NoMigrationStep

(* The gate opens only on a clean row that has caught up with the binary.  *)
LEMMA ProbeKeeps ==
    ASSUME MigrationInv, NEW p \in Procs, Probe(p)
    PROVE  MigrationInv'
<1>1. cfg' = cfg /\ db' = db /\ mig' = mig /\ phase' = phase /\ gate \in [Procs -> BOOLEAN]
    BY DEF Probe, MigrationInv, MigrationTypes
<1>2. \A q \in Procs : gate[q] => 1 .. Of(q).want \subseteq db.applied
    BY DEF MigrationInv, ReadyMeansMigrated
<1>3. CASE gate' = gate
    BY <1>1, <1>2, <1>3, OutsideStep DEF Phases
<1>4. CASE gate' = [gate EXCEPT ![p] = /\ Answers
                                       /\ ~SchemaBehind(Of(p).want).dirty
                                       /\ SchemaBehind(Of(p).want).ready]
  <2>1. /\ db.version \in Nat /\ Of(p).want \in Nat /\ db.dirty \in BOOLEAN
        /\ 1 .. (IF db.dirty THEN db.version - 1 ELSE db.version) \subseteq db.applied
      BY SettingsFacts DEF MigrationInv, MigrationTypes, Schemas, RowIsHonest
  <2>5. SchemaBehind(Of(p).want).ready = (~db.dirty /\ db.version # 0 /\ db.version >= Of(p).want)
      BY Zenon DEF SchemaBehind
  <2>2. SchemaBehind(Of(p).want).ready => 1 .. Of(p).want \subseteq db.applied
    <3>1. ~db.dirty /\ db.version >= Of(p).want => 1 .. Of(p).want \subseteq db.applied
        BY <2>1
    <3> QED
        BY <2>5, <3>1, Zenon
  <2>3. gate' \in [Procs -> BOOLEAN]
      BY <1>1, <1>4, <2>1 DEF SchemaBehind, Answers
  <2>4. \A q \in Procs : gate'[q] => 1 .. Of(q).want \subseteq db.applied
      BY <1>1, <1>2, <1>4, <2>2
  <2> QED
      BY <1>1, <2>3, <2>4, OutsideStep DEF Phases
<1> QED
    BY <1>3, <1>4 DEF Probe, ready

(* The steps of the world: a commit of policies, an outage, the clock.     *)
LEMMA WorldKeepsMigration ==
    ASSUME MigrationInv,
           \/ \E kinds \in {{"schema"}, {"policies"}, {"schema", "policies"}} : Commit(kinds)
           \/ \E mode \in {"up", "erring", "gone"} : Outage(mode)
           \/ Tick
    PROVE  MigrationInv'
<1>1. /\ db \in Schemas /\ phase \in [Procs -> Phases] /\ mig \in [Procs -> Migrations]
      /\ gate \in [Procs -> BOOLEAN] /\ \A p \in Procs : gate[p] => 1 .. Of(p).want \subseteq db.applied
    BY DEF MigrationInv, MigrationTypes, ReadyMeansMigrated
<1>2. cfg' = cfg /\ phase' = phase /\ mig' = mig /\ gate' = gate
    BY DEF Commit, Outage, Tick
<1>3. /\ db' \in Schemas /\ db'.version = db.version /\ db'.dirty = db.dirty
      /\ db'.applied = db.applied /\ db'.lock = db.lock
  <2>1. CASE \E kinds \in {{"schema"}, {"policies"}, {"schema", "policies"}} : Commit(kinds)
    <3>1. PICK kinds \in {{"schema"}, {"policies"}, {"schema", "policies"}} : Commit(kinds)
        BY <2>1
    <3>2. db' = [k \in DOMAIN db |-> IF k \in kinds THEN db[k] + 1 ELSE db[k]]
        BY <3>1 DEF Commit
    <3>3. /\ DOMAIN db = {"mode", "version", "dirty", "applied", "lock", "schema", "policies"}
          /\ db.schema \in Nat /\ db.policies \in Nat
        BY <1>1 DEF Schemas
    <3>4. db' = [mode |-> db.mode, version |-> db.version, dirty |-> db.dirty, applied |-> db.applied,
                 lock |-> db.lock, schema |-> IF "schema" \in kinds THEN db.schema + 1 ELSE db.schema,
                 policies |-> IF "policies" \in kinds THEN db.policies + 1 ELSE db.policies]
        BY <3>2, <3>3
    <3> QED
        BY <1>1, <3>3, <3>4 DEF Schemas
  <2>2. CASE \E mode \in {"up", "erring", "gone"} : Outage(mode)
      BY <1>1, <2>2 DEF Outage, Schemas
  <2>3. CASE Tick
      BY <1>1, <2>3 DEF Tick
  <2> QED
      BY <2>1, <2>2, <2>3
<1> QED
    BY <1>1, <1>2, <1>3, NoMigrationStep

(* A boot goes to the lock with its migration not begun, or past it.       *)
LEMMA AssembleKeeps ==
    ASSUME MigrationInv, NEW p \in Procs, Assemble(p)
    PROVE  MigrationInv'
<1>1. /\ phase \in [Procs -> Phases] /\ mig \in [Procs -> Migrations] /\ phase[p] = "down"
      /\ gate \in [Procs -> BOOLEAN] /\ \A q \in Procs : gate[q] => 1 .. Of(q).want \subseteq db.applied
    BY DEF MigrationInv, MigrationTypes, ReadyMeansMigrated, Assemble
<1>2. /\ cfg' = cfg /\ db' = db /\ gate' = gate
      /\ \/ mig' = mig /\ (To(p, "refused") \/ To(p, "failed"))
         \/ /\ mig' = [mig EXCEPT ![p] = [NoMigration EXCEPT !.step = "read"]]
            /\ To(p, "locking") \/ To(p, "loading")
    BY DEF Assemble
<1>3. CASE mig' = mig /\ (To(p, "refused") \/ To(p, "failed"))
    BY <1>1, <1>2, <1>3, OutsideStep DEF Phases
<1>4. CASE /\ mig' = [mig EXCEPT ![p] = [NoMigration EXCEPT !.step = "read"]]
           /\ To(p, "locking") \/ To(p, "loading")
  <2>1. [NoMigration EXCEPT !.step = "read"] \in Migrations
      BY DEF NoMigration, Migrations
  <2>2. /\ mig' \in [Procs -> Migrations] /\ mig'[p].step = "read"
        /\ \A q \in Procs : q # p => mig'[q] = mig[q]
      BY <1>1, <1>4, <2>1 DEF NoMigration
  <2>3. Procs' = Procs /\ \A q : Of(q)' = Of(q)
      BY <1>2 DEF Procs, Of
  <2>4. MigrationTypes'
      BY <1>1, <1>2, <1>4, <2>2, <2>3 DEF MigrationInv, MigrationTypes, To, Phases
  <2>5. RowIsHonest' /\ ReadyMeansMigrated'
      BY <1>2, <2>3 DEF MigrationInv, RowIsHonest, ReadyMeansMigrated
  <2>6. Holder'
      BY <1>1, <1>2, <1>4, <2>2, <2>3 DEF MigrationInv, Holder, Halfway, To
  <2> QED
      BY <2>4, <2>5, <2>6 DEF MigrationInv
<1> QED
    BY <1>2, <1>3, <1>4

(* Every other step of a process moves it, if at all, to a phase outside   *)
(* the migration.                                                          *)
LEMMA ProcessKeepsMigration ==
    ASSUME MigrationInv, NEW p \in Procs,
           \/ \E plane \in Planes : LoadSchema(p, plane) \/ LoadPolicies(p, plane)
           \/ LoopTick(p) \/ ComponentTick(p)
           \/ CheckBegin(p) \/ CheckEvaluate(p) \/ CheckRespond(p) \/ BufferFlush(p)
           \/ Stop(p) \/ FinalFlush(p)
           \/ \E s \in Surfaces : ListenerFails(p, s) \/ Shutdown(p, s)
    PROVE  MigrationInv'
<1>1. cfg' = cfg /\ db' = db /\ mig' = mig /\ gate' = gate
    BY Zenon DEF LoadSchema, LoadPolicies, LoopTick, ComponentTick, CheckBegin, CheckEvaluate, CheckRespond,
           BufferFlush, Stop, FinalFlush, ListenerFails, Shutdown
<1>2. \/ phase' = phase
      \/ \E to \in {"failed", "serving", "stopping", "flushed"} : To(p, to)
  <2>1. ASSUME NEW plane \in Planes, LoadSchema(p, plane) \/ LoadPolicies(p, plane)
        PROVE  phase' = phase \/ To(p, "failed") \/ To(p, "serving")
      BY <2>1 DEF LoadSchema, LoadPolicies, LoadEnds
  <2>2. CASE LoopTick(p) \/ ComponentTick(p) \/ CheckBegin(p) \/ CheckEvaluate(p) \/ CheckRespond(p)
      BY <2>2 DEF LoopTick, ComponentTick, CheckBegin, CheckEvaluate, CheckRespond, Stops
  <2>3. CASE BufferFlush(p) \/ Stop(p) \/ FinalFlush(p)
      BY <2>3 DEF BufferFlush, Stop, Stops, FinalFlush
  <2>4. CASE \E s \in Surfaces : ListenerFails(p, s) \/ Shutdown(p, s)
      BY <2>4 DEF ListenerFails, Shutdown
  <2> QED
      BY <2>1, <2>2, <2>3, <2>4
<1>3. gate \in [Procs -> BOOLEAN] /\ \A q \in Procs : gate[q] => 1 .. Of(q).want \subseteq db.applied
    BY DEF MigrationInv, MigrationTypes, ReadyMeansMigrated
<1>4. ASSUME NEW to \in Phases \ {"locking", "migrating"}, phase' = phase \/ To(p, to) PROVE MigrationInv'
    BY <1>1, <1>3, <1>4, OutsideStep, Zenon
<1>5. {"failed", "serving", "stopping", "flushed"} \subseteq Phases \ {"locking", "migrating"}
    BY DEF Phases
<1> QED
    BY <1>2, <1>4, <1>5

(* Every step preserves the invariant.                                     *)
LEMMA MigrationStepKeeps == MigrationInv /\ [Next]_vars => MigrationInv'
<1> SUFFICES ASSUME MigrationInv, [Next]_vars PROVE MigrationInv'
    OBVIOUS
<1>1. ASSUME NEW p \in Procs, Restart(p) \/ Crash(p) PROVE MigrationInv'
    BY <1>1, GoneKeepsMigration DEF Restart, Crash
<1>2. CASE UNCHANGED vars
  <2>1. /\ db' = db /\ phase' = phase /\ mig' = mig /\ gate' = gate /\ cfg' = cfg
      BY <1>2 DEF vars
  <2>2. /\ db \in Schemas /\ phase \in [Procs -> Phases] /\ mig \in [Procs -> Migrations]
        /\ gate \in [Procs -> BOOLEAN] /\ \A p \in Procs : gate[p] => 1 .. Of(p).want \subseteq db.applied
      BY DEF MigrationInv, MigrationTypes, ReadyMeansMigrated
  <2> QED
      BY <2>1, <2>2, NoMigrationStep
<1> QED
    BY <1>1, <1>2, AssembleKeeps, LockPollKeeps, MigrateKeeps, ProbeKeeps, ProcessKeepsMigration,
       WorldKeepsMigration DEF Next

(* A process is ready only against a database with every migration its     *)
(* binary embeds, whoever migrates, dies part-way or restarts meanwhile.   *)
THEOREM RuntimeReadyMeansMigrated == Spec => []ReadyMeansMigrated
<1>1. MigrationInv => ReadyMeansMigrated
    BY DEF MigrationInv
<1> QED
    BY <1>1, MigrationStarts, MigrationStepKeeps, PTL DEF Spec

-----------------------------------------------------------------------------
(* Freshness.  A version is Current for time t when it is in force, or was *)
(* superseded no more than slack before t.  A load holds a schema that was in force  *)
(* since it began, and it began at most Latency ago (LoadsAreRecent); a    *)
(* snapshot is as recent as its confirmation less one load                 *)
(* (SnapshotsAreRecent).                                                   *)

Kinds == {"schema", "policies"}
Current(kind, v, t, slack) ==
    /\ v \in 1 .. db[kind]
    /\ v # db[kind] => was[kind][v] + slack >= t
Versions ==
    /\ cfg \in Deployments /\ now \in Nat
    /\ DOMAIN db = {"mode", "version", "dirty", "applied", "lock", "schema", "policies"}
    /\ DOMAIN was = Kinds
    /\ \A kind \in Kinds : was[kind] \in Seq(Nat) /\ db[kind] = Len(was[kind]) + 1
Snapshots == [schema : Nat, policies : Nat]
FreshTypes ==
    /\ check \in [Procs -> [snapshot : Snapshots, freshAt : Nat]]
    /\ load \in [Procs -> [Planes -> [schema : Nat, at : Nat]]]
    /\ request \in [Procs -> [step : {None, "evaluate", "respond"}, judged : Snapshots, at : Nat]]
LoadsAreRecent ==
    \A p \in Procs, plane \in Planes :
        load[p][plane] # NoLoad =>
            /\ load[p][plane].at <= now /\ now <= load[p][plane].at + Latency
            /\ Current("schema", load[p][plane].schema, load[p][plane].at, 0)
SnapshotsAreRecent ==
    \A p \in Procs :
        check[p].snapshot # NoSnapshot =>
            /\ check[p].freshAt <= now
            /\ \A kind \in Kinds : Current(kind, check[p].snapshot[kind], check[p].freshAt, Latency)
JudgmentsAreRecent ==
    \A p \in Procs :
        request[p].judged # NoSnapshot =>
            /\ request[p].at <= now
            /\ \A kind \in Kinds :
                  Current(kind, request[p].judged[kind], request[p].at, Deadline + Latency)
FreshInv == Versions /\ FreshTypes /\ LoadsAreRecent /\ SnapshotsAreRecent /\ JudgmentsAreRecent

(* Nothing is held at the start.                                           *)
LEMMA FreshStarts == Init => FreshInv
<1> SUFFICES ASSUME Init PROVE FreshInv
    OBVIOUS
<1>1. Versions
  <2>1. /\ cfg \in Deployments /\ now = 0
        /\ DOMAIN db = {"mode", "version", "dirty", "applied", "lock", "schema", "policies"}
        /\ db.schema = 1 /\ db.policies = 1
      BY DEF Init
  <2>2. DOMAIN was = Kinds /\ \A kind \in Kinds : was[kind] = <<>>
      BY DEF Init, Kinds
  <2>3. \A kind \in Kinds : db[kind] = 1
      BY <2>1 DEF Kinds
  <2>4. <<>> \in Seq(Nat) /\ Len(<<>>) = 0
      OBVIOUS
  <2>5. ASSUME NEW kind \in Kinds PROVE was[kind] \in Seq(Nat) /\ db[kind] = Len(was[kind]) + 1
    <3>1. was[kind] = <<>> /\ db[kind] = 1
        BY <2>2, <2>3
    <3> QED
        BY <2>4, <3>1
  <2>6. DOMAIN was = Kinds /\ now \in Nat
      BY <2>1, <2>2
  <2> QED
      BY <2>1, <2>5, <2>6 DEF Versions
<1>2. FreshTypes
    BY DEF Init, FreshTypes, Snapshots, NoSnapshot, NoLoad, NoRequest
<1> QED
    BY <1>1, <1>2 DEF Init, FreshInv, LoadsAreRecent, SnapshotsAreRecent, JudgmentsAreRecent, NoRequest

(* What was current stays so while versions and clock stand still, and     *)
(* for a time not later than the commit that supersedes it.                *)
LEMMA CurrentStays ==
    ASSUME Versions, NEW kind \in Kinds, NEW v, NEW t \in Nat, NEW slack \in Nat,
           Current(kind, v, t, slack), t <= now,
           (db'[kind] = db[kind] /\ was'[kind] = was[kind])
             \/ (db'[kind] = db[kind] + 1 /\ was'[kind] = Append(was[kind], now))
    PROVE  Current(kind, v, t, slack)'
<1>1. was[kind] \in Seq(Nat) /\ db[kind] = Len(was[kind]) + 1 /\ now \in Nat
    BY DEF Versions
<1>2. v \in 1 .. db[kind] /\ (v # db[kind] => was[kind][v] + slack >= t)
    BY DEF Current
<1>3. CASE db'[kind] = db[kind] /\ was'[kind] = was[kind]
    BY <1>2, <1>3 DEF Current
<1>4. CASE db'[kind] = db[kind] + 1 /\ was'[kind] = Append(was[kind], now)
  <2>1. v \in 1 .. db'[kind]
      BY <1>1, <1>2, <1>4
  <2>2. CASE v = db[kind]
    <3>1. was'[kind][v] = now
        BY <1>1, <1>4, <2>2
    <3> QED
        BY <1>1, <2>1, <3>1 DEF Current
  <2>3. CASE v # db[kind]
    <3>1. was'[kind][v] = was[kind][v]
        BY <1>1, <1>2, <1>4, <2>3
    <3> QED
        BY <1>2, <2>1, <2>3, <3>1 DEF Current
  <2> QED
      BY <2>2, <2>3
<1> QED
    BY <1>3, <1>4

(* The end of a load changes nothing that is held; a load that is dropped  *)
(* makes no claim.                                                         *)
LEMMA LoadsDropped ==
    ASSUME FreshInv, cfg' = cfg, now' = now, was' = was,
           DOMAIN db' = DOMAIN db, \A kind \in Kinds : db'[kind] = db[kind],
           check' \in [Procs -> [snapshot : Snapshots, freshAt : Nat]],
           load' \in [Procs -> [Planes -> [schema : Nat, at : Nat]]],
           request' \in [Procs -> [step : {None, "evaluate", "respond"}, judged : Snapshots, at : Nat]],
           \A p \in Procs :
               /\ check'[p].snapshot # NoSnapshot => check'[p] = check[p]
               /\ request'[p].judged # NoSnapshot =>
                     request'[p].judged = request[p].judged /\ request'[p].at = request[p].at
               /\ \A plane \in Planes : load'[p][plane] # NoLoad => load'[p][plane] = load[p][plane]
    PROVE  FreshInv'
<1>1. Procs' = Procs
    BY DEF Procs
<1>2. ASSUME NEW kind \in Kinds, NEW v, NEW t, NEW slack, Current(kind, v, t, slack)
      PROVE  Current(kind, v, t, slack)'
    BY <1>2 DEF Current
<1>3. Versions' /\ FreshTypes'
    BY <1>1 DEF FreshInv, Versions, FreshTypes
<1>4. LoadsAreRecent'
  <2> SUFFICES ASSUME NEW p \in Procs, NEW plane \in Planes, (load[p][plane] # NoLoad)'
               PROVE  (/\ load[p][plane].at <= now /\ now <= load[p][plane].at + Latency
                       /\ Current("schema", load[p][plane].schema, load[p][plane].at, 0))'
      BY <1>1 DEF LoadsAreRecent
  <2>1. PICK k : k = load[p][plane]
      OBVIOUS
  <2>2. load'[p][plane] = k /\ k # NoLoad
      BY <2>1
  <2>3. k.at <= now /\ now <= k.at + Latency /\ Current("schema", k.schema, k.at, 0)
      BY <2>1, <2>2 DEF FreshInv, LoadsAreRecent
  <2>4. Current("schema", k.schema, k.at, 0)'
      BY <1>2, <2>3 DEF Kinds
  <2> QED
      BY <2>2, <2>3, <2>4 DEF Current
<1>5. SnapshotsAreRecent'
  <2> SUFFICES ASSUME NEW p \in Procs, (check[p].snapshot # NoSnapshot)'
               PROVE  (/\ check[p].freshAt <= now
                       /\ \A kind \in Kinds :
                             Current(kind, check[p].snapshot[kind], check[p].freshAt, Latency))'
      BY <1>1 DEF SnapshotsAreRecent
  <2>1. PICK k : k = check[p]
      OBVIOUS
  <2>2. check'[p] = k /\ k.snapshot # NoSnapshot
      BY <2>1
  <2>3. k.freshAt <= now /\ \A kind \in Kinds : Current(kind, k.snapshot[kind], k.freshAt, Latency)
      BY <2>1, <2>2 DEF FreshInv, SnapshotsAreRecent
  <2>4. \A kind \in Kinds : Current(kind, k.snapshot[kind], k.freshAt, Latency)'
      BY <1>2, <2>3
  <2> QED
      BY <2>2, <2>3, <2>4 DEF Current
<1>6. JudgmentsAreRecent'
  <2> SUFFICES ASSUME NEW p \in Procs, (request[p].judged # NoSnapshot)'
               PROVE  (/\ request[p].at <= now
                       /\ \A kind \in Kinds :
                             Current(kind, request[p].judged[kind], request[p].at, Deadline + Latency))'
      BY <1>1 DEF JudgmentsAreRecent
  <2>1. PICK k : k = request[p]
      OBVIOUS
  <2>2. request'[p].judged = k.judged /\ request'[p].at = k.at /\ k.judged # NoSnapshot
      BY <2>1
  <2>3. k.at <= now /\ \A kind \in Kinds : Current(kind, k.judged[kind], k.at, Deadline + Latency)
      BY <2>1, <2>2 DEF FreshInv, JudgmentsAreRecent
  <2>4. \A kind \in Kinds : Current(kind, k.judged[kind], k.at, Deadline + Latency)'
      BY <1>2, <2>3
  <2> QED
      BY <2>2, <2>3, <2>4 DEF Current
<1> QED
    BY <1>3, <1>4, <1>5, <1>6 DEF FreshInv

(* A step that loads, judges and commits nothing.                          *)
LEMMA NothingLoaded ==
    ASSUME FreshInv, cfg' = cfg, now' = now, check' = check, load' = load,
           DOMAIN db' = DOMAIN db, was' = was, \A kind \in Kinds : db'[kind] = db[kind],
           request' \in [Procs -> [step : {None, "evaluate", "respond"}, judged : Snapshots, at : Nat]],
           \A p \in Procs : request'[p].judged # NoSnapshot =>
               request'[p].judged = request[p].judged /\ request'[p].at = request[p].at
    PROVE  FreshInv'
<1>1. /\ check' \in [Procs -> [snapshot : Snapshots, freshAt : Nat]]
      /\ load' \in [Procs -> [Planes -> [schema : Nat, at : Nat]]]
    BY DEF FreshInv, FreshTypes
<1> QED
    BY <1>1, LoadsDropped

(* LoadSnapshot's first statement reads the schema in force.               *)
LEMMA LoadSchemaKeeps ==
    ASSUME FreshInv, NEW p \in Procs, NEW plane \in Planes, LoadSchema(p, plane)
    PROVE  FreshInv'
<1>1. /\ cfg' = cfg /\ now' = now /\ db' = db /\ was' = was /\ request' = request
      /\ check' = check
      /\ \/ load' = [load EXCEPT ![p][plane] = [schema |-> db.schema, at |-> now]]
         \/ load' = [load EXCEPT ![p][plane] = NoLoad]
    BY DEF LoadSchema, LoadEnds, PollFails, serving
<1>2. /\ FreshTypes /\ Versions /\ now \in Nat /\ db.schema \in Nat \ {0} /\ Latency \in Nat
      /\ NoLoad \in [schema : Nat, at : Nat]
    BY RuntimeAssumption DEF FreshInv, Versions, Kinds, NoLoad
<1>3. load \in [Procs -> [Planes -> [schema : Nat, at : Nat]]]
    BY <1>2 DEF FreshTypes
<1>4. CASE load' = [load EXCEPT ![p][plane] = NoLoad]
  <2>1. /\ load' \in [Procs -> [Planes -> [schema : Nat, at : Nat]]]
        /\ \A q \in Procs, k \in Planes : load'[q][k] # NoLoad => load'[q][k] = load[q][k]
      BY <1>2, <1>3, <1>4
  <2> QED
      BY <1>1, <1>2, <2>1, LoadsDropped DEF FreshTypes
<1>5. CASE load' = [load EXCEPT ![p][plane] = [schema |-> db.schema, at |-> now]]
  <2> DEFINE l == [schema |-> db.schema, at |-> now]
  <2>1. l \in [schema : Nat, at : Nat] /\ l.schema = db.schema /\ l.at = now
      BY <1>2
  <2> HIDE DEF l
  <2>2. /\ load' \in [Procs -> [Planes -> [schema : Nat, at : Nat]]]
        /\ \A q \in Procs, k \in Planes : load'[q][k] = load[q][k] \/ load'[q][k] = l
      BY <1>3, <1>5, <2>1, Zenon DEF l
  <2>3. Procs' = Procs /\ \A kind, v, t, slack : Current(kind, v, t, slack)' = Current(kind, v, t, slack)
      BY <1>1 DEF Procs, Current
  <2>4. Current("schema", db.schema, now, 0)
      BY <1>2 DEF Current
  <2>5. LoadsAreRecent'
      BY <1>1, <1>2, <2>1, <2>2, <2>3, <2>4 DEF FreshInv, LoadsAreRecent
  <2>6. Versions' /\ FreshTypes'
      BY <1>1, <1>2, <2>2, <2>3 DEF Versions, FreshTypes
  <2>7. SnapshotsAreRecent' /\ JudgmentsAreRecent'
      BY <1>1, <2>3 DEF FreshInv, SnapshotsAreRecent, JudgmentsAreRecent
  <2> QED
      BY <2>5, <2>6, <2>7 DEF FreshInv
<1> QED
    BY <1>1, <1>4, <1>5

(* The second statement reads the policies in force, and the snapshot is   *)
(* confirmed now: its schema was in force when the load began.             *)
LEMMA LoadPoliciesKeeps ==
    ASSUME FreshInv, NEW p \in Procs, NEW plane \in Planes, LoadPolicies(p, plane)
    PROVE  FreshInv'
<1> DEFINE snap == [schema |-> load[p][plane].schema, policies |-> db.policies]
           held == [snapshot |-> snap, freshAt |-> now]
<1>1. /\ cfg' = cfg /\ now' = now /\ db' = db /\ was' = was /\ request' = request
      /\ load[p][plane] # NoLoad /\ load' = [load EXCEPT ![p][plane] = NoLoad]
      /\ check' = check \/ check' = [check EXCEPT ![p] = held]
    BY Zenon DEF LoadPolicies, LoadEnds, Loaded, PollFails, serving, Planes
<1>2. /\ FreshTypes /\ Versions /\ now \in Nat /\ db.policies \in Nat \ {0} /\ Latency \in Nat
      /\ NoLoad \in [schema : Nat, at : Nat]
    BY RuntimeAssumption DEF FreshInv, Versions, Kinds, NoLoad
<1>3. /\ load \in [Procs -> [Planes -> [schema : Nat, at : Nat]]]
      /\ check \in [Procs -> [snapshot : Snapshots, freshAt : Nat]]
    BY <1>2 DEF FreshTypes
<1>4. /\ load' \in [Procs -> [Planes -> [schema : Nat, at : Nat]]]
      /\ \A q \in Procs, k \in Planes : load'[q][k] # NoLoad => load'[q][k] = load[q][k]
    BY <1>1, <1>2, <1>3
<1>5. CASE check' = check
  <2>1. request' \in [Procs -> [step : {None, "evaluate", "respond"}, judged : Snapshots, at : Nat]]
      BY <1>1, <1>2, Zenon DEF FreshTypes
  <2> QED
      BY <1>1, <1>3, <1>4, <1>5, <2>1, LoadsDropped
<1>6. CASE check' = [check EXCEPT ![p] = held]
  <2>1. /\ held \in [snapshot : Snapshots, freshAt : Nat] /\ held.freshAt = now
        /\ held.snapshot["schema"] = load[p][plane].schema /\ held.snapshot["policies"] = db["policies"]
    <3>1. load[p][plane] \in [schema : Nat, at : Nat]
        BY <1>3
    <3>2. snap \in Snapshots
        BY <1>2, <3>1 DEF Snapshots
    <3> QED
        BY <1>2, <3>2
  <2>2. \A kind \in Kinds : Current(kind, held.snapshot[kind], now, Latency)
    <3>1. /\ load[p][plane].at <= now /\ now <= load[p][plane].at + Latency /\ load[p][plane].at \in Nat
          /\ Current("schema", load[p][plane].schema, load[p][plane].at, 0)
        BY <1>1, <1>3 DEF FreshInv, LoadsAreRecent
    <3>2. was["schema"] \in Seq(Nat) /\ db["schema"] = Len(was["schema"]) + 1
        BY <1>2 DEF Versions, Kinds
    <3>3. Current("schema", load[p][plane].schema, now, Latency)
      <4>0. load[p][plane].schema \in 1 .. db["schema"]
          BY <3>1 DEF Current
      <4>1. load[p][plane].schema # db["schema"] => was["schema"][load[p][plane].schema] \in Nat
        <5>1. load[p][plane].schema # db["schema"] => load[p][plane].schema \in DOMAIN was["schema"]
            BY <3>2, <4>0
        <5> QED
            BY <3>2, <5>1
      <4>2. load[p][plane].schema # db["schema"]
                => was["schema"][load[p][plane].schema] + 0 >= load[p][plane].at
          BY <3>1 DEF Current
      <4>3. load[p][plane].schema # db["schema"]
                => was["schema"][load[p][plane].schema] + Latency >= now
          BY <1>2, <3>1, <4>1, <4>2, SMTT(30)
      <4> QED
          BY <3>1, <4>3 DEF Current
    <3>4. Current("policies", db["policies"], now, Latency)
        BY <1>2 DEF Current
    <3> QED
        BY <2>1, <3>3, <3>4 DEF Kinds
  <2> HIDE DEF held
  <2>3. /\ check' \in [Procs -> [snapshot : Snapshots, freshAt : Nat]]
        /\ \A q \in Procs : check'[q] = check[q] \/ check'[q] = held
      BY <1>3, <1>6, <2>1
  <2>4. Procs' = Procs /\ \A kind, v, t, slack : Current(kind, v, t, slack)' = Current(kind, v, t, slack)
      BY <1>1 DEF Procs, Current
  <2>5. Versions' /\ FreshTypes'
      BY <1>1, <1>2, <1>4, <2>3, <2>4 DEF Versions, FreshTypes
  <2>6. SnapshotsAreRecent'
      BY <1>1, <1>2, <2>1, <2>2, <2>3, <2>4 DEF FreshInv, SnapshotsAreRecent
  <2>7. LoadsAreRecent'
    <3> SUFFICES ASSUME NEW q \in Procs, NEW k \in Planes, load'[q][k] # NoLoad
                 PROVE  /\ load'[q][k].at <= now' /\ now' <= load'[q][k].at + Latency
                        /\ Current("schema", load[q][k].schema, load[q][k].at, 0)'
        BY <2>4 DEF LoadsAreRecent
    <3>1. load'[q][k] = load[q][k] /\ load[q][k] # NoLoad
        BY <1>4
    <3>2. /\ load[q][k].at <= now /\ now <= load[q][k].at + Latency
          /\ Current("schema", load[q][k].schema, load[q][k].at, 0)
        BY <3>1 DEF FreshInv, LoadsAreRecent
    <3> QED
        BY <1>1, <3>1, <3>2 DEF Current
  <2>8. JudgmentsAreRecent'
      BY <1>1, <2>4 DEF FreshInv, JudgmentsAreRecent, Current
  <2> QED
      BY <2>5, <2>6, <2>7, <2>8 DEF FreshInv
<1> QED
    BY <1>1, <1>5, <1>6

(* Evaluate judges on a snapshot confirmed within the deadline.            *)
LEMMA CheckEvaluateKeeps ==
    ASSUME FreshInv, NEW p \in Procs, CheckEvaluate(p)
    PROVE  FreshInv'
<1> DEFINE r == [step |-> "respond", judged |-> Evaluate(p), at |-> now]
<1>1. /\ cfg' = cfg /\ now' = now /\ db' = db /\ was' = was /\ load' = load /\ check' = check
      /\ request' = [request EXCEPT ![p] = r]
    BY DEF CheckEvaluate, planes
<1>2. /\ FreshTypes /\ Versions /\ now \in Nat /\ Latency \in Nat /\ Deadline \in Nat
      /\ NoSnapshot \in Snapshots
    BY RuntimeAssumption DEF FreshInv, Versions, NoSnapshot, Snapshots
<1>3. /\ check[p] \in [snapshot : Snapshots, freshAt : Nat]
      /\ request \in [Procs -> [step : {None, "evaluate", "respond"}, judged : Snapshots, at : Nat]]
    BY <1>2 DEF FreshTypes
<1>4. Evaluate(p) \in Snapshots
    BY <1>2, <1>3 DEF Evaluate
<1>5. r \in [step : {None, "evaluate", "respond"}, judged : Snapshots, at : Nat]
      /\ r.at = now /\ r.judged = Evaluate(p)
    BY <1>2, <1>4
<1>6. ASSUME Evaluate(p) # NoSnapshot, NEW kind \in Kinds
      PROVE  Current(kind, Evaluate(p)[kind], now, Deadline + Latency)
  <2>1. /\ Evaluate(p) = check[p].snapshot /\ check[p].snapshot # NoSnapshot
        /\ ~(now - check[p].freshAt > Deadline)
      BY <1>6 DEF Evaluate
  <2>2. /\ check[p].freshAt <= now /\ check[p].freshAt \in Nat
        /\ Current(kind, Evaluate(p)[kind], check[p].freshAt, Latency)
      BY <1>3, <1>6, <2>1 DEF FreshInv, SnapshotsAreRecent
  <2>3. was[kind] \in Seq(Nat) /\ db[kind] = Len(was[kind]) + 1
      BY <1>2, <1>6 DEF Versions
  <2>4. now <= check[p].freshAt + Deadline
      BY <1>2, <2>1, <2>2
  <2>5. ASSUME Evaluate(p)[kind] # db[kind] PROVE was[kind][Evaluate(p)[kind]] + (Deadline + Latency) >= now
    <3>1. was[kind][Evaluate(p)[kind]] \in Nat
        BY <2>2, <2>3, <2>5 DEF Current
    <3>2. was[kind][Evaluate(p)[kind]] + Latency >= check[p].freshAt
        BY <2>2, <2>5 DEF Current
    <3> QED
        BY <1>2, <2>2, <2>4, <3>1, <3>2
  <2> QED
      BY <2>2, <2>5 DEF Current
<1> HIDE DEF r
<1>7. /\ request' \in [Procs -> [step : {None, "evaluate", "respond"}, judged : Snapshots, at : Nat]]
      /\ \A q \in Procs : request'[q] = request[q] \/ request'[q] = r
    BY <1>1, <1>3, <1>5
<1>8. Procs' = Procs /\ \A kind, v, t, slack : Current(kind, v, t, slack)' = Current(kind, v, t, slack)
    BY <1>1 DEF Procs, Current
<1>9. Versions' /\ FreshTypes'
    BY <1>1, <1>2, <1>7, <1>8 DEF Versions, FreshTypes
<1>10. LoadsAreRecent' /\ SnapshotsAreRecent'
    BY <1>1, <1>8, Zenon DEF FreshInv, LoadsAreRecent, SnapshotsAreRecent
<1>11. JudgmentsAreRecent'
    BY <1>1, <1>2, <1>5, <1>6, <1>7, <1>8 DEF FreshInv, JudgmentsAreRecent
<1> QED
    BY <1>9, <1>10, <1>11 DEF FreshInv

(* A commit supersedes what is held now, not before.                       *)
LEMMA CommitKeepsFresh ==
    ASSUME FreshInv, NEW kinds \in SUBSET Kinds, Commit(kinds)
    PROVE  FreshInv'
<1>1. /\ cfg' = cfg /\ now' = now /\ load' = load /\ check' = check /\ request' = request
      /\ db' = [k \in DOMAIN db |-> IF k \in kinds THEN db[k] + 1 ELSE db[k]]
      /\ was' = [k \in DOMAIN was |-> IF k \in kinds THEN Append(was[k], now) ELSE was[k]]
    BY DEF Commit, planes, serving
<1>2. Versions /\ FreshTypes /\ now \in Nat /\ Latency \in Nat /\ Deadline \in Nat /\ Procs' = Procs
    BY <1>1, RuntimeAssumption DEF FreshInv, Versions, Procs
<1>3. Kinds \subseteq DOMAIN db /\ DOMAIN was = Kinds
    BY <1>2 DEF Versions, Kinds
<1>4. \A kind \in Kinds :
          (db'[kind] = db[kind] /\ was'[kind] = was[kind])
             \/ (db'[kind] = db[kind] + 1 /\ was'[kind] = Append(was[kind], now))
  <2> SUFFICES ASSUME NEW kind \in Kinds
               PROVE  (db'[kind] = db[kind] /\ was'[kind] = was[kind])
                        \/ (db'[kind] = db[kind] + 1 /\ was'[kind] = Append(was[kind], now))
      OBVIOUS
  <2>1. kind \in DOMAIN db /\ kind \in DOMAIN was
      BY <1>3
  <2>2. db'[kind] = IF kind \in kinds THEN db[kind] + 1 ELSE db[kind]
      BY <1>1, <2>1
  <2>3. was'[kind] = IF kind \in kinds THEN Append(was[kind], now) ELSE was[kind]
      BY <1>1, <2>1
  <2>4. CASE kind \in kinds
    <3>1. db'[kind] = db[kind] + 1 /\ was'[kind] = Append(was[kind], now)
        BY <2>2, <2>3, <2>4
    <3> QED
        BY <3>1, Zenon
  <2>5. CASE kind \notin kinds
    <3>1. db'[kind] = db[kind] /\ was'[kind] = was[kind]
        BY <2>2, <2>3, <2>5
    <3> QED
        BY <3>1, Zenon
  <2> QED
      BY <2>4, <2>5
<1>5. Versions'
  <2>1. \A kind \in Kinds : was[kind] \in Seq(Nat) /\ db[kind] = Len(was[kind]) + 1
      BY <1>2 DEF Versions
  <2>2. ASSUME NEW kind \in Kinds PROVE was'[kind] \in Seq(Nat) /\ db'[kind] = Len(was'[kind]) + 1
    <3>1. Append(was[kind], now) \in Seq(Nat) /\ Len(Append(was[kind], now)) = Len(was[kind]) + 1
        BY <1>2, <2>1
    <3> QED
        BY <1>4, <2>1, <3>1, Zenon
  <2> QED
      BY <1>1, <1>2, <2>2, Zenon DEF Versions
<1>6. FreshTypes'
    BY <1>1, <1>2 DEF FreshTypes
<1>7. \A kind \in Kinds : \A v : \A t, slack \in Nat :
          Current(kind, v, t, slack) /\ t <= now => Current(kind, v, t, slack)'
    BY <1>2, <1>4, CurrentStays
<1>8. LoadsAreRecent'
    BY <1>1, <1>2, <1>7 DEF FreshInv, LoadsAreRecent, FreshTypes, Kinds
<1>9. SnapshotsAreRecent'
    BY <1>1, <1>2, <1>7 DEF FreshInv, SnapshotsAreRecent, FreshTypes
<1>10. JudgmentsAreRecent'
  <2> SUFFICES ASSUME NEW q \in Procs, request'[q].judged # NoSnapshot
               PROVE  /\ request'[q].at <= now'
                      /\ \A kind \in Kinds :
                            Current(kind, request[q].judged[kind], request[q].at, Deadline + Latency)'
      BY <1>2 DEF JudgmentsAreRecent
  <2>1. PICK r : r = request[q]
      OBVIOUS
  <2>2. /\ request'[q] = r /\ r.at \in Nat /\ r.at <= now
        /\ \A kind \in Kinds : Current(kind, r.judged[kind], r.at, Deadline + Latency)
      BY <1>1, <1>2, <2>1, Zenon DEF FreshInv, JudgmentsAreRecent, FreshTypes
  <2>3. \A kind \in Kinds : Current(kind, r.judged[kind], r.at, Deadline + Latency)'
    <3>1. Deadline + Latency \in Nat
        BY <1>2
    <3> QED
        BY <1>7, <2>2, <3>1, Zenon
  <2>4. request'[q].judged = r.judged /\ request'[q].at = r.at
      BY <2>2
  <2> QED
      BY <1>1, <2>2, <2>3, <2>4, Zenon DEF Current
<1> QED
    BY <1>5, <1>6, <1>8, <1>9, <1>10 DEF FreshInv

(* The clock does not overtake a load.                                     *)
LEMMA TickKeepsFresh == FreshInv /\ Tick => FreshInv'
<1> SUFFICES ASSUME FreshInv, Tick PROVE FreshInv'
    OBVIOUS
<1>1. /\ cfg' = cfg /\ load' = load /\ check' = check /\ request' = request /\ db' = db /\ was' = was
      /\ now' = now + 1
      /\ \A p \in Procs, k \in Planes : load[p][k] # NoLoad => now < load[p][k].at + Latency
    BY DEF Tick, planes, serving
<1>2. Versions /\ FreshTypes /\ now \in Nat /\ Latency \in Nat /\ Procs' = Procs
    BY <1>1, RuntimeAssumption DEF FreshInv, Versions, Procs
<1>3. \A kind, v, t, slack : Current(kind, v, t, slack)' = Current(kind, v, t, slack)
    BY <1>1 DEF Current
<1>4. Versions' /\ FreshTypes'
    BY <1>1, <1>2 DEF Versions, FreshTypes
<1>5. LoadsAreRecent'
    BY <1>1, <1>2, <1>3 DEF FreshInv, LoadsAreRecent, FreshTypes
<1>6. SnapshotsAreRecent'
    BY <1>1, <1>2, <1>3 DEF FreshInv, SnapshotsAreRecent, FreshTypes
<1>7. JudgmentsAreRecent'
    BY <1>1, <1>2, <1>3 DEF FreshInv, JudgmentsAreRecent, FreshTypes
<1> QED
    BY <1>4, <1>5, <1>6, <1>7 DEF FreshInv

(* A process that ends, crashes or starts again holds nothing.             *)
LEMMA GoneKeepsFresh ==
    ASSUME FreshInv, NEW p \in Procs, NEW to, Gone(p, to)
    PROVE  FreshInv'
<1> DEFINE none == [snapshot |-> NoSnapshot, freshAt |-> 0]
<1>1. /\ cfg' = cfg /\ now' = now /\ was' = was
      /\ db' = [db EXCEPT !.lock = IF @ = p THEN None ELSE @]
      /\ check' = [check EXCEPT ![p] = none]
      /\ load' = [load EXCEPT ![p] = [k \in Planes |-> NoLoad]]
      /\ request' = [request EXCEPT ![p] = NoRequest]
    BY DEF Gone
<1>2. /\ FreshTypes
      /\ NoSnapshot \in Snapshots /\ NoLoad \in [schema : Nat, at : Nat]
      /\ NoRequest \in [step : {None, "evaluate", "respond"}, judged : Snapshots, at : Nat]
      /\ NoRequest.judged = NoSnapshot
    BY DEF FreshInv, NoSnapshot, Snapshots, NoLoad, NoRequest
<1>3. none \in [snapshot : Snapshots, freshAt : Nat] /\ none.snapshot = NoSnapshot
    BY <1>2
<1> HIDE DEF none
<1>4. /\ check' \in [Procs -> [snapshot : Snapshots, freshAt : Nat]]
      /\ \A q \in Procs : check'[q].snapshot # NoSnapshot => check'[q] = check[q]
    BY <1>1, <1>2, <1>3 DEF FreshTypes
<1>5. /\ load' \in [Procs -> [Planes -> [schema : Nat, at : Nat]]]
      /\ \A q \in Procs, k \in Planes : load'[q][k] # NoLoad => load'[q][k] = load[q][k]
    BY <1>1, <1>2 DEF FreshTypes
<1>6. /\ request' \in [Procs -> [step : {None, "evaluate", "respond"}, judged : Snapshots, at : Nat]]
      /\ \A q \in Procs : request'[q].judged # NoSnapshot => request'[q] = request[q]
    BY <1>1, <1>2 DEF FreshTypes
<1>7. DOMAIN db' = DOMAIN db /\ \A kind \in Kinds : db'[kind] = db[kind]
    BY <1>1 DEF Kinds, FreshInv, Versions
<1> QED
    BY <1>1, <1>4, <1>5, <1>6, <1>7, LoadsDropped

(* A process whose context ends drops the loads under way.                 *)
LEMMA StopsKeepsFresh ==
    ASSUME FreshInv, NEW p \in Procs, Stop(p) \/ ComponentTick(p)
    PROVE  FreshInv'
<1>1. /\ cfg' = cfg /\ now' = now /\ was' = was /\ db' = db /\ check' = check /\ request' = request
      /\ load' = load \/ load' = [load EXCEPT ![p] = [k \in Planes |-> NoLoad]]
    BY DEF Stop, ComponentTick, Stops, serving
<1>2. /\ load \in [Procs -> [Planes -> [schema : Nat, at : Nat]]] /\ NoLoad \in [schema : Nat, at : Nat]
      /\ check' \in [Procs -> [snapshot : Snapshots, freshAt : Nat]]
      /\ request' \in [Procs -> [step : {None, "evaluate", "respond"}, judged : Snapshots, at : Nat]]
    BY <1>1 DEF FreshInv, FreshTypes, NoLoad
<1>3. /\ load' \in [Procs -> [Planes -> [schema : Nat, at : Nat]]]
      /\ \A q \in Procs, k \in Planes : load'[q][k] # NoLoad => load'[q][k] = load[q][k]
  <2>1. CASE load' = load
      BY <1>2, <2>1
  <2>2. CASE load' = [load EXCEPT ![p] = [k \in Planes |-> NoLoad]]
      BY <1>2, <2>2
  <2> QED
      BY <1>1, <2>1, <2>2
<1> QED
    BY <1>1, <1>2, <1>3, LoadsDropped

(* A request that begins or is answered makes no new claim.                *)
LEMMA RequestKeepsFresh ==
    ASSUME FreshInv, NEW p \in Procs, CheckBegin(p) \/ CheckRespond(p)
    PROVE  FreshInv'
<1>1. /\ cfg' = cfg /\ now' = now /\ was' = was /\ db' = db /\ check' = check /\ load' = load
      /\ \/ request' = [request EXCEPT ![p].step = "evaluate"]
         \/ request' = [request EXCEPT ![p] = NoRequest]
    BY DEF CheckBegin, CheckRespond, planes
<1>2. /\ request \in [Procs -> [step : {None, "evaluate", "respond"}, judged : Snapshots, at : Nat]]
      /\ NoRequest \in [step : {None, "evaluate", "respond"}, judged : Snapshots, at : Nat]
      /\ NoRequest.judged = NoSnapshot
    BY DEF FreshInv, FreshTypes, NoRequest, NoSnapshot, Snapshots
<1>3. CASE request' = [request EXCEPT ![p].step = "evaluate"]
  <2>1. request' \in [Procs -> [step : {None, "evaluate", "respond"}, judged : Snapshots, at : Nat]]
      BY <1>2, <1>3
  <2>2. \A q \in Procs : request'[q].judged = request[q].judged /\ request'[q].at = request[q].at
      BY <1>2, <1>3
  <2> QED
      BY <1>1, <2>1, <2>2, NothingLoaded
<1>4. CASE request' = [request EXCEPT ![p] = NoRequest]
  <2>1. /\ request' \in [Procs -> [step : {None, "evaluate", "respond"}, judged : Snapshots, at : Nat]]
        /\ \A q \in Procs : request'[q].judged # NoSnapshot => request'[q] = request[q]
      BY <1>2, <1>4
  <2> QED
      BY <1>1, <2>1, NothingLoaded
<1> QED
    BY <1>1, <1>3, <1>4

(* Booting, migrating, probing, flushing, shutting down and outages leave  *)
(* loads, snapshots, judgments and versions alone.                         *)
LEMMA QuietKeepsFresh ==
    ASSUME FreshInv, cfg' = cfg, now' = now, check' = check, load' = load, was' = was, request' = request,
           DOMAIN db' = DOMAIN db, \A kind \in Kinds : db'[kind] = db[kind]
    PROVE  FreshInv'
<1>1. request' \in [Procs -> [step : {None, "evaluate", "respond"}, judged : Snapshots, at : Nat]]
    BY DEF FreshInv, FreshTypes
<1> QED
    BY <1>1, NothingLoaded

(* The database as migrations and outages write it.                        *)
LEMMA MigrationsWriteNoVersion ==
    ASSUME FreshInv, NEW p, LockPoll(p) \/ Migrate(p) \/ (\E mode \in {"up", "erring", "gone"} : Outage(mode))
    PROVE  DOMAIN db' = DOMAIN db /\ \A kind \in Kinds : db'[kind] = db[kind]
<1>1. DOMAIN db = {"mode", "version", "dirty", "applied", "lock", "schema", "policies"}
    BY DEF FreshInv, Versions
<1>2. CASE LockPoll(p)
    BY <1>1, <1>2 DEF LockPoll, Lock, Kinds
<1>3. CASE Migrate(p)
    BY <1>1, <1>3, Zenon DEF Migrate, Version, MarkDirty, Run, MarkClean, UpEnds, UpGoes, SetVersion, Kinds
<1>4. CASE \E mode \in {"up", "erring", "gone"} : Outage(mode)
    BY <1>1, <1>4 DEF Outage, Kinds
<1> QED
    BY <1>2, <1>3, <1>4

(* Every step preserves the invariant.                                     *)
LEMMA FreshStepKeeps == FreshInv /\ [Next]_vars => FreshInv'
<1> SUFFICES ASSUME FreshInv, [Next]_vars PROVE FreshInv'
    OBVIOUS
<1>1. ASSUME NEW p \in Procs, Restart(p) \/ Crash(p) PROVE FreshInv'
    BY <1>1, GoneKeepsFresh DEF Restart, Crash
<1>2. ASSUME NEW p \in Procs, LockPoll(p) \/ Migrate(p) PROVE FreshInv'
  <2>1. cfg' = cfg /\ now' = now /\ check' = check /\ load' = load /\ was' = was /\ request' = request
      BY <1>2 DEF LockPoll, Migrate, planes, serving
  <2> QED
      BY <1>2, <2>1, MigrationsWriteNoVersion, QuietKeepsFresh
<1>3. ASSUME NEW mode \in {"up", "erring", "gone"}, Outage(mode) PROVE FreshInv'
  <2>1. cfg' = cfg /\ now' = now /\ check' = check /\ load' = load /\ was' = was /\ request' = request
      BY <1>3 DEF Outage, planes, serving
  <2> QED
      BY <1>3, <2>1, MigrationsWriteNoVersion, QuietKeepsFresh
<1>4. ASSUME NEW p \in Procs,
             Assemble(p) \/ Probe(p) \/ LoopTick(p) \/ BufferFlush(p) \/ FinalFlush(p)
               \/ (\E s \in Surfaces : ListenerFails(p, s) \/ Shutdown(p, s))
      PROVE  FreshInv'
  <2>1. cfg' = cfg /\ now' = now /\ check' = check /\ load' = load /\ was' = was /\ request' = request
        /\ db' = db
      BY <1>4, Zenon DEF Assemble, Probe, LoopTick, BufferFlush, FinalFlush, ListenerFails, Shutdown, planes, serving
  <2> QED
      BY <2>1, QuietKeepsFresh
<1>5. CASE UNCHANGED vars
    BY <1>5, QuietKeepsFresh DEF vars, planes, serving
<1>6. ASSUME NEW kinds \in {{"schema"}, {"policies"}, {"schema", "policies"}}, Commit(kinds)
      PROVE  FreshInv'
  <2>1. kinds \in SUBSET Kinds
      BY DEF Kinds
  <2> QED
      BY <1>6, <2>1, CommitKeepsFresh
<1> QED
    BY <1>1, <1>2, <1>3, <1>4, <1>5, <1>6, LoadSchemaKeeps, LoadPoliciesKeeps, StopsKeepsFresh,
       RequestKeepsFresh, CheckEvaluateKeeps, TickKeepsFresh DEF Next

(* A check is judged on a schema and policies that were in force no longer *)
(* ago than the staleness deadline and one load, for every deadline, every *)
(* latency and every number of processes and commits.                      *)
THEOREM RuntimeJudgedOnRecentSet == Spec => []JudgedOnRecentSet
<1>1. ASSUME FreshInv PROVE JudgedOnRecentSet
  <2> SUFFICES ASSUME NEW p \in Procs, request[p].judged # NoSnapshot, NEW kind \in Kinds,
                      request[p].judged[kind] # db[kind]
               PROVE  was[kind][request[p].judged[kind]] + Deadline + Latency >= request[p].at
      BY DEF JudgedOnRecentSet, Kinds
  <2>1. Current(kind, request[p].judged[kind], request[p].at, Deadline + Latency)
      BY <1>1 DEF FreshInv, JudgmentsAreRecent
  <2>2. was[kind] \in Seq(Nat) /\ db[kind] = Len(was[kind]) + 1
      BY <1>1 DEF FreshInv, Versions
  <2>3. was[kind][request[p].judged[kind]] \in Nat
      BY <2>1, <2>2 DEF Current
  <2>4. was[kind][request[p].judged[kind]] + (Deadline + Latency) >= request[p].at
      BY <2>1 DEF Current
  <2>5. request[p].at \in Nat /\ Deadline \in Nat /\ Latency \in Nat
      BY <1>1, RuntimeAssumption DEF FreshInv, FreshTypes
  <2> QED
      BY <2>3, <2>4, <2>5
<1> QED
    BY <1>1, FreshStarts, FreshStepKeeps, PTL DEF Spec

-----------------------------------------------------------------------------
(* Flushing.  The final flush waits for the listeners, and a listener that *)
(* is shut without cutting a request off has none left.  A check request   *)
(* only ever comes in on the pep surface, so shutting that one is enough   *)
(* (the first two conjuncts of CoverOf).                                   *)

CoverOf(q) ==
    /\ "check-api" \in app[q].reachable => "pep" \in Of(q).addresses
    /\ request[q] # NoRequest => "pep" \in Of(q).addresses
    /\ ("pep" \in ending[q].shut /\ ~ending[q].cut) => request[q] = NoRequest
    /\ phase[q] = "flushed" => ending[q].shut = Of(q).addresses
    /\ (phase[q] = "flushed" /\ ending[q].flushed /\ ~ending[q].cut) => buffer[q] = 0
Fields == DOMAIN NoEnding
Shaped ==
    /\ DOMAIN app = Procs /\ DOMAIN phase = Procs /\ DOMAIN request = Procs
    /\ DOMAIN buffer = Procs /\ DOMAIN ending = Procs
    /\ \A q \in Procs : DOMAIN ending[q] = Fields
CoverInv == Shaped /\ \A q \in Procs : CoverOf(q)

(* One component is called check-api.                                      *)
LEMMA OneCheckApi ==
    ASSUME NEW o, NEW k, k \in Registered(o), k.name = "check-api"
    PROVE  k = Component("check-api", {"check"}, {Route("pep", "workload")}, FALSE)
<1>1. \A n, roles, routes, b : Component(n, roles, routes, b).name = n
    BY DEF Component
<1> DEFINE Other(n) == \A roles, routes, b : k # Component(n, roles, routes, b)
<1>2. ASSUME NEW n, n # "check-api" PROVE Other(n)
    BY <1>1, <1>2
<1>3. /\ Other("audit-buffer") /\ Other("policy-refresh") /\ Other("decide-api")
      /\ Other("approval-api") /\ Other("audit-console-api") /\ Other("cancellation-api")
      /\ Other("callback-api") /\ Other("decide-refresh") /\ Other("expiry-sweeper")
      /\ Other("policy-api") /\ Other("governance-bootstrap") /\ Other("revision-reconciler")
      /\ Other("console") /\ Other("event-consumer") /\ Other("retention-sweeper")
      /\ Other("audit-checkpointer") /\ Other("ingest-api")
  <2> HIDE DEF Other
  <2> QED
      BY <1>2
<1> QED
    BY <1>3, ZenonT(60) DEF Registered

(* The check endpoint is mounted on the pep surface alone: a process that  *)
(* can be reached for it listens there.                                    *)
LEMMA CheckIsOnPep ==
    ASSUME NEW c, "check-api" \in Reachable(c)
    PROVE  "pep" \in c.addresses
<1>1. PICK k \in Active(c) : k.name = "check-api" /\ \E r \in k.routes : r.surface \in c.addresses
    BY DEF Reachable
<1>2. k \in Registered(OptionsOf(c))
    BY <1>1 DEF Active
<1>3. k = Component("check-api", {"check"}, {Route("pep", "workload")}, FALSE)
    BY <1>1, <1>2, OneCheckApi, Zenon
<1>4. k.routes = {Route("pep", "workload")}
    BY <1>3 DEF Component
<1> QED
    BY <1>1, <1>4 DEF Route

(* Nothing has happened at the start.                                      *)
LEMMA CoverStarts == Init => CoverInv
<1> SUFFICES ASSUME Init PROVE CoverInv
    OBVIOUS
<1>1. /\ phase = [p \in Procs |-> "down"] /\ app = [p \in Procs |-> NoApp]
      /\ request = [p \in Procs |-> NoRequest] /\ buffer = [p \in Procs |-> 0]
      /\ ending = [p \in Procs |-> NoEnding]
    BY DEF Init
<1>2. Shaped
    BY <1>1 DEF Shaped, Fields
<1>3. ASSUME NEW q \in Procs PROVE CoverOf(q)
    BY <1>1 DEF CoverOf, NoApp, NoEnding
<1> QED
    BY <1>2, <1>3 DEF CoverInv

(* A step of process p disturbs p alone.                                   *)
LEMMA OneProcessAtATime ==
    ASSUME CoverInv, NEW p \in Procs, cfg' = cfg,
           \A q \in Procs \ {p} :
               /\ app'[q] = app[q] /\ phase'[q] = phase[q] /\ request'[q] = request[q]
               /\ buffer'[q] = buffer[q] /\ ending'[q] = ending[q],
           Shaped', CoverOf(p)'
    PROVE  CoverInv'
<1>1. Procs' = Procs /\ \A q : Of(q)' = Of(q)
    BY DEF Procs, Of
<1>2. ASSUME NEW q \in Procs \ {p} PROVE CoverOf(q)'
  <2>1. CoverOf(q)
      BY DEF CoverInv
  <2> QED
      BY <1>1, <1>2, <2>1 DEF CoverOf
<1> QED
    BY <1>1, <1>2 DEF CoverInv

(* A step that leaves requests and endings alone and does not end the      *)
(* process.                                                                *)
LEMMA StayKeepsCover ==
    ASSUME CoverInv, NEW p \in Procs, cfg' = cfg, request' = request, ending' = ending, NEW to,
           app' = app \/ app' = [app EXCEPT ![p] = [runners |-> Runners(Of(p)), reachable |-> Reachable(Of(p))]],
           phase' = phase \/ (to # "flushed" /\ phase' = [phase EXCEPT ![p] = to]),
           buffer' = buffer \/ buffer' = [buffer EXCEPT ![p] = 0]
    PROVE  CoverInv'
<1>1. Procs' = Procs /\ \A q : Of(q)' = Of(q)
    BY DEF Procs, Of
<1>2. Shaped /\ CoverOf(p)
    BY DEF CoverInv
<1>3. Shaped'
    BY <1>1, <1>2, Zenon DEF Shaped
<1>4. \A q \in Procs \ {p} : app'[q] = app[q] /\ phase'[q] = phase[q] /\ buffer'[q] = buffer[q]
    BY <1>2 DEF Shaped
<1>5. app'[p] = app[p] \/ app'[p].reachable = Reachable(Of(p))
  <2>1. DOMAIN app = Procs
      BY <1>2, Zenon DEF Shaped
  <2> QED
      BY <2>1
<1>6. phase'[p] = "flushed" => phase[p] = "flushed"
    BY <1>2 DEF Shaped
<1>7. buffer'[p] = buffer[p] \/ buffer'[p] = 0
    BY <1>2 DEF Shaped
<1>8. CoverOf(p)'
    BY <1>1, <1>2, <1>5, <1>6, <1>7, CheckIsOnPep, Zenon DEF CoverOf
<1> QED
    BY <1>3, <1>4, <1>8, OneProcessAtATime

(* Booting, migrating, loading, probing, flushing and the end of the       *)
(* context.                                                                *)
LEMMA ServingKeepsCover ==
    ASSUME CoverInv, NEW p \in Procs,
           \/ Assemble(p) \/ LockPoll(p) \/ Migrate(p) \/ Probe(p) \/ LoopTick(p) \/ ComponentTick(p)
           \/ Stop(p) \/ BufferFlush(p)
           \/ \E plane \in Planes : LoadSchema(p, plane) \/ LoadPolicies(p, plane)
    PROVE  CoverInv'
<1> DEFINE Stay == /\ cfg' = cfg /\ request' = request /\ ending' = ending
                   /\ app' = app \/ app' = [app EXCEPT ![p] = [runners |-> Runners(Of(p)),
                                                               reachable |-> Reachable(Of(p))]]
                   /\ phase' = phase \/ \E to : to # "flushed" /\ phase' = [phase EXCEPT ![p] = to]
                   /\ buffer' = buffer \/ buffer' = [buffer EXCEPT ![p] = 0]
<1>1. Stay => CoverInv'
    BY StayKeepsCover
<1>2. CASE Assemble(p)
    BY <1>1, <1>2 DEF Assemble, To, planes, serving
<1>3. CASE LockPoll(p)
    BY <1>1, <1>3 DEF LockPoll, Lock, To, planes, serving
<1>4. CASE Migrate(p)
    BY <1>1, <1>4, Zenon DEF Migrate, Version, MarkDirty, Run, MarkClean, UpEnds, UpGoes, To, planes, serving
<1>5. CASE Probe(p) \/ LoopTick(p) \/ BufferFlush(p)
    BY <1>1, <1>5 DEF Probe, LoopTick, BufferFlush, planes, serving
<1>6. CASE ComponentTick(p) \/ Stop(p)
    BY <1>1, <1>6, Zenon DEF ComponentTick, Stop, Stops, To, serving
<1>7. CASE \E plane \in Planes : LoadSchema(p, plane) \/ LoadPolicies(p, plane)
    BY <1>1, <1>7, Zenon DEF LoadSchema, LoadPolicies, LoadEnds, To, serving
<1> QED
    BY <1>2, <1>3, <1>4, <1>5, <1>6, <1>7

(* A request comes in on an open pep listener, and is answered.            *)
LEMMA RequestKeepsCover ==
    ASSUME CoverInv, NEW p \in Procs, CheckBegin(p) \/ CheckEvaluate(p) \/ CheckRespond(p)
    PROVE  CoverInv'
<1>1. /\ cfg' = cfg /\ app' = app /\ phase' = phase /\ ending' = ending
      /\ \E r : request' = [request EXCEPT ![p] = r]
      /\ buffer' = buffer \/ buffer' = [buffer EXCEPT ![p] = @ + 1]
    BY DEF CheckBegin, CheckEvaluate, CheckRespond
<1>2. Procs' = Procs /\ Shaped /\ CoverOf(p) /\ \A q : Of(q)' = Of(q)
    BY <1>1 DEF CoverInv, Procs, Of
<1>3. Shaped'
    BY <1>1, <1>2, Zenon DEF Shaped
<1>4. \A q \in Procs \ {p} : request'[q] = request[q] /\ buffer'[q] = buffer[q]
    BY <1>1, <1>2, Zenon DEF Shaped
<1>5. CASE CheckBegin(p)
  <2>1. /\ phase[p] # "flushed" /\ "check-api" \in app[p].reachable /\ "pep" \notin ending[p].shut
      BY <1>5 DEF CheckBegin, Accepts
  <2> QED
      BY <1>1, <1>2, <1>3, <1>4, <2>1, OneProcessAtATime DEF CoverOf
<1>6. CASE CheckEvaluate(p) \/ CheckRespond(p)
  <2>0. NoRequest.step = "none" /\ (request[p].step = "evaluate" \/ request[p].step = "respond")
      BY <1>6, Zenon DEF CheckEvaluate, CheckRespond, NoRequest, None
  <2>1. request[p] # NoRequest
      BY <2>0
  <2>2. "pep" \in Of(p).addresses /\ ~("pep" \in ending[p].shut /\ ~ending[p].cut)
      BY <1>2, <2>1, Zenon DEF CoverOf
  <2> QED
      BY <1>1, <1>2, <1>3, <1>4, <2>2, OneProcessAtATime DEF CoverOf
<1> QED
    BY <1>5, <1>6

(* A listener that fails is not shut by it.                                *)
LEMMA ListenerFailsKeepsCover ==
    ASSUME CoverInv, NEW p \in Procs, NEW s, ListenerFails(p, s)
    PROVE  CoverInv'
<1>1. /\ cfg' = cfg /\ app' = app /\ phase' = phase /\ request' = request /\ buffer' = buffer
      /\ phase[p] = "serving"
      /\ ending' = [ending EXCEPT ![p].broken = @ \cup {s}, ![p].errs = @ + 1]
    BY DEF ListenerFails, serving
<1>2. Procs' = Procs /\ Shaped /\ CoverOf(p) /\ \A q : Of(q)' = Of(q)
    BY <1>1 DEF CoverInv, Procs, Of
<1>3. Fields = {"shut", "broken", "errs", "stuck", "cut", "flushed"}
    BY DEF Fields, NoEnding
<1>4. /\ DOMAIN ending' = Procs /\ DOMAIN ending'[p] = Fields
      /\ \A q \in Procs \ {p} : ending'[q] = ending[q]
    BY <1>1, <1>2 DEF Shaped
<1>5. ending'[p].shut = ending[p].shut /\ ending'[p].cut = ending[p].cut
    BY <1>1, <1>2, <1>3 DEF Shaped
<1>6. Shaped'
    BY <1>1, <1>2, <1>4 DEF Shaped
<1>7. CoverOf(p)'
    BY <1>1, <1>2, <1>5 DEF CoverOf
<1> QED
    BY <1>1, <1>4, <1>6, <1>7, OneProcessAtATime

(* A listener that is shut has no request left, or cut one off.            *)
LEMMA ShutdownKeepsCover ==
    ASSUME CoverInv, NEW p \in Procs, NEW s, Shutdown(p, s)
    PROVE  CoverInv'
<1>1. /\ cfg' = cfg /\ app' = app /\ phase' = phase /\ request' = request /\ buffer' = buffer
      /\ phase[p] = "stopping"
    BY DEF Shutdown, serving
<1>2. Procs' = Procs /\ Shaped /\ CoverOf(p) /\ \A q : Of(q)' = Of(q)
    BY <1>1 DEF CoverInv, Procs, Of
<1>3. Fields = {"shut", "broken", "errs", "stuck", "cut", "flushed"}
    BY DEF Fields, NoEnding
<1>4. CASE /\ s = "pep" => request[p] = NoRequest
           /\ ending' = [ending EXCEPT ![p].shut = @ \cup {s}]
  <2>1. /\ DOMAIN ending' = Procs /\ DOMAIN ending'[p] = Fields
        /\ \A q \in Procs \ {p} : ending'[q] = ending[q]
      BY <1>2, <1>4 DEF Shaped
  <2>2. ending'[p].shut = ending[p].shut \cup {s} /\ ending'[p].cut = ending[p].cut
      BY <1>2, <1>3, <1>4 DEF Shaped
  <2>3. Shaped'
      BY <1>1, <1>2, <2>1, Zenon DEF Shaped
  <2>4. CoverOf(p)'
      BY <1>1, <1>2, <1>4, <2>2 DEF CoverOf
  <2> QED
      BY <1>1, <2>1, <2>3, <2>4, OneProcessAtATime
<1>5. CASE ending' = [ending EXCEPT ![p].cut = TRUE,
                                    ![p].stuck = ending[p].errs >= errsCapacity(p),
                                    ![p].errs = IF ending[p].errs < errsCapacity(p) THEN @ + 1 ELSE @,
                                    ![p].shut = IF ending[p].errs < errsCapacity(p) THEN @ \cup {s} ELSE @]
  <2>1. /\ DOMAIN ending' = Procs /\ DOMAIN ending'[p] = Fields
        /\ \A q \in Procs \ {p} : ending'[q] = ending[q]
      BY <1>2, <1>5 DEF Shaped
  <2>2. ending'[p].cut = TRUE
      BY <1>2, <1>3, <1>5 DEF Shaped
  <2>3. Shaped'
      BY <1>1, <1>2, <2>1 DEF Shaped
  <2>4. CoverOf(p)'
      BY <1>1, <1>2, <2>2 DEF CoverOf
  <2> QED
      BY <1>1, <2>1, <2>3, <2>4, OneProcessAtATime
<1> QED
    BY <1>4, <1>5, Zenon DEF Shutdown

(* The final flush takes what the answers recorded.                        *)
LEMMA FinalFlushKeepsCover ==
    ASSUME CoverInv, NEW p \in Procs, FinalFlush(p)
    PROVE  CoverInv'
<1>1. /\ cfg' = cfg /\ app' = app /\ request' = request
      /\ phase' = [phase EXCEPT ![p] = "flushed"] /\ ending[p].shut = Of(p).addresses
      /\ ending' = [ending EXCEPT ![p].flushed = Answers]
      /\ IF Answers THEN buffer' = [buffer EXCEPT ![p] = 0] ELSE UNCHANGED buffer
    BY DEF FinalFlush, Flushable, To
<1>2. Procs' = Procs /\ Shaped /\ CoverOf(p) /\ \A q : Of(q)' = Of(q)
    BY <1>1 DEF CoverInv, Procs, Of
<1>3. Fields = {"shut", "broken", "errs", "stuck", "cut", "flushed"}
    BY DEF Fields, NoEnding
<1>4. /\ DOMAIN ending' = Procs /\ DOMAIN ending'[p] = Fields
      /\ \A q \in Procs \ {p} : ending'[q] = ending[q] /\ phase'[q] = phase[q]
    BY <1>1, <1>2 DEF Shaped
<1>5. /\ ending'[p].shut = ending[p].shut /\ ending'[p].cut = ending[p].cut
      /\ ending'[p].flushed = Answers
    BY <1>1, <1>2, <1>3 DEF Shaped
<1>6. /\ DOMAIN buffer' = Procs /\ \A q \in Procs \ {p} : buffer'[q] = buffer[q]
      /\ Answers => buffer'[p] = 0
    BY <1>1, <1>2 DEF Shaped
<1>7. Shaped'
    BY <1>1, <1>2, <1>4, <1>6 DEF Shaped
<1>8. CoverOf(p)'
    BY <1>1, <1>2, <1>5, <1>6 DEF CoverOf
<1> QED
    BY <1>1, <1>4, <1>6, <1>7, <1>8, OneProcessAtATime

(* A process that is gone has nothing to cover.                            *)
LEMMA GoneKeepsCover ==
    ASSUME CoverInv, NEW p \in Procs, Gone(p, "down")
    PROVE  CoverInv'
<1>1. /\ cfg' = cfg /\ phase' = [phase EXCEPT ![p] = "down"] /\ app' = [app EXCEPT ![p] = NoApp]
      /\ request' = [request EXCEPT ![p] = NoRequest] /\ buffer' = [buffer EXCEPT ![p] = 0]
      /\ ending' = [ending EXCEPT ![p] = NoEnding]
    BY DEF Gone, To
<1>2. Procs' = Procs /\ Shaped /\ \A q : Of(q)' = Of(q)
    BY <1>1 DEF CoverInv, Procs, Of
<1>3. Shaped'
    BY <1>1, <1>2 DEF Shaped, Fields
<1>4. \A q \in Procs \ {p} :
          /\ app'[q] = app[q] /\ phase'[q] = phase[q] /\ request'[q] = request[q]
          /\ buffer'[q] = buffer[q] /\ ending'[q] = ending[q]
    BY <1>1, <1>2 DEF Shaped
<1>5. app'[p] = NoApp /\ phase'[p] = "down" /\ request'[p] = NoRequest
    BY <1>1, <1>2 DEF Shaped
<1>6. CoverOf(p)'
  <2>1. "check-api" \notin app'[p].reachable /\ phase'[p] # "flushed"
      BY <1>5 DEF NoApp
  <2> QED
      BY <1>5, <2>1, Zenon DEF CoverOf
<1> QED
    BY <1>1, <1>3, <1>4, <1>6, OneProcessAtATime

(* Every step preserves the invariant.                                     *)
LEMMA CoverStepKeeps == CoverInv /\ [Next]_vars => CoverInv'
<1> SUFFICES ASSUME CoverInv, [Next]_vars PROVE CoverInv'
    OBVIOUS
<1>1. ASSUME NEW p \in Procs, Restart(p) \/ Crash(p) PROVE CoverInv'
    BY <1>1, GoneKeepsCover DEF Restart, Crash
<1>2. ASSUME cfg' = cfg, app' = app, phase' = phase, request' = request, buffer' = buffer, ending' = ending
      PROVE  CoverInv'
    BY <1>2 DEF CoverInv, Shaped, CoverOf, Procs, Of
<1>3. ASSUME NEW kinds, Commit(kinds) PROVE CoverInv'
    BY <1>2, <1>3, Zenon DEF Commit, serving
<1>4. ASSUME NEW mode, Outage(mode) PROVE CoverInv'
    BY <1>2, <1>4 DEF Outage, serving
<1>5. CASE Tick
    BY <1>2, <1>5 DEF Tick, serving
<1>6. CASE UNCHANGED vars
    BY <1>2, <1>6 DEF vars, serving
<1> QED
    BY <1>1, <1>3, <1>4, <1>5, <1>6, ServingKeepsCover, RequestKeepsCover, ListenerFailsKeepsCover,
       ShutdownKeepsCover, FinalFlushKeepsCover, GoneKeepsCover DEF Next

(* A graceful shutdown that cut no request off and whose flush went        *)
(* through leaves no check event behind, whatever a process listens on.    *)
THEOREM RuntimeFlushCoversAnswers == Spec => []FlushCoversAnswers
<1>1. CoverInv => FlushCoversAnswers
    BY DEF CoverInv, CoverOf, FlushCoversAnswers
<1> QED
    BY <1>1, CoverStarts, CoverStepKeeps, PTL DEF Spec
=============================================================================
