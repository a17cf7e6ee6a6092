--------------------------- MODULE Processes_proofs ---------------------------
(***************************************************************************)
(* Proofs about Processes, and the two modules it is composed of, for any  *)
(* number of schedulers, executors and runs of the migrate command, any    *)
(* number of schema versions, any batch size and any number of starts.     *)
(***************************************************************************)
EXTENDS Processes, FiniteSetTheorems, TLAPS

-----------------------------------------------------------------------------
(* The inductive invariant.  Of the migrations: the versions applied are a *)
(* prefix, and a process that is at a version has seen all earlier ones    *)
(* applied.                                                                *)

MigrationInv ==
  /\ \E n \in 0..LastVersion : applied = 1..n
  /\ \A v \in Versions : effects[v] = IF v \in applied THEN 1 ELSE 0
  /\ \A p \in Process :
       /\ migrating[p].pc \in {"check", "apply"} =>
            \A v \in Versions : v < migrating[p].version => v \in applied
       /\ migrating[p] = Migrated => applied = Versions

\* Only a process with a loop gets past its migration, a scheduler that found
\* the files only with the schema complete.
OpenInv ==
  \A p \in Process :
    main[p] \notin {"off", "migrate"} =>
      p \in Looping /\ (p \in Engine => migrating[p] = NoFiles \/ applied = Versions)

\* The stages of main, of the signal goroutine and of the loop that go
\* together.
Stages(p) ==
  /\ main[p] \in {"off", "migrate", "ready", "start"} => ~running[p]
  /\ main[p] \in {"add", "check", "serving", "sleep"} => cancelSet[p]
  /\ loop[p] = "none" <=> main[p] \notin {"check", "serving", "sleep"}
  /\ wg[p] = 0 <=> loop[p] \in {"none", "done"}
  /\ sig[p] \in {"none", "notified"} =>
       /\ ctx[p] # "cancelled"
       /\ main[p] \in {"setcancel", "add", "check", "serving"} => running[p]
  /\ mainCtx[p] = "cancelled" \/ http[p] = "down" \/ main[p] = "sleep" => sig[p] = "gone"

\* A process told to stop while it was serving: Stop finds the loop running
\* and its cancel function set, and gets past its wait when the loop is done.
OrderlyStop(p) ==
  orderly[p] =>
    /\ main[p] \in {"serving", "sleep"}
    /\ sig[p] \notin {"none", "notified"}
    /\ sig[p] = "load" => running[p]
    /\ sig[p] \in {"store", "shutdown", "gone"} => loop[p] = "done"

\* The one claim after the context was cancelled had been decided on before.
OneClaimLate(p) ==
  /\ overshoot[p] <= 1
  /\ overshoot[p] > 0 => ctx[p] = "cancelled" /\ loop[p] \notin {"none", "claim"}

LoopInv(p) == Stages(p) /\ OrderlyStop(p) /\ OneClaimLate(p)

ProcessInv ==
  /\ TypeOK /\ MigrationInv /\ OpenInv
  /\ \A p \in Looping : LoopInv(p)

LEMMA LoopingFacts ==
  /\ Looping \subseteq Process
  /\ \A p \in Looping : (p \in Engine /\ p \notin Worker) \/ (p \in Worker /\ p \notin Engine)
BY ProcessesAssumption, LoopAssumption DEF Looping

LEMMA InitProcess == Init => ProcessInv
<1> SUFFICES ASSUME Init PROVE ProcessInv
  OBVIOUS
<1> USE MigrationAssumption, ProcessesAssumption, LoopAssumption, LoopingFacts
<1>1. MigrationTypeOK /\ MigrationInv
  <2>1. MigrationTypeOK
    BY DEF Init, MigrationInit, MigrationTypeOK, NotMigrating
  <2>2. 0 \in 0..LastVersion /\ applied = 1..0
    BY DEF Init, MigrationInit
  <2>3. \A v \in Versions : effects[v] = 0 /\ v \notin applied
    BY DEF Init, MigrationInit
  <2>4. \A p \in Process : migrating[p] = NotMigrating /\ migrating[p].pc = "none"
    BY DEF Init, MigrationInit, NotMigrating
  <2>5. NotMigrating # Migrated
    BY DEF NotMigrating, Migrated
  <2> QED BY <2>1, <2>2, <2>3, <2>4, <2>5 DEF MigrationInv
<1>2. TypeOK
  BY <1>1 DEF Init, LoopInit, TypeOK, LoopTypeOK, MainPc, SigPc, LoopPc, StartPc
<1>3. \A p \in Looping : LoopInv(p)
  BY DEF Init, LoopInit, LoopInv, Stages, OrderlyStop, OneClaimLate
<1>4. OpenInv
  BY DEF Init, OpenInv
<1> QED BY <1>1, <1>2, <1>3, <1>4 DEF ProcessInv

-----------------------------------------------------------------------------
(* Migrations. *)

\* Where a process is after the file of version v.
LEMMA NextFileFacts ==
  ASSUME NEW v \in Versions
  PROVE  LET m == NextFile(v) IN
         \/ v < LastVersion /\ m = [pc |-> "check", version |-> v + 1] /\ v + 1 \in Versions
         \/ v = LastVersion /\ m = Migrated
BY MigrationAssumption DEF NextFile, HasNext, Versions

\* What a process that is migrating knows, as a predicate of its state m and
\* the versions a that are applied.
Knows(m, a) ==
  /\ m.pc \in {"check", "apply"} => \A v \in Versions : v < m.version => v \in a
  /\ m = Migrated => a = Versions

LEMMA KnowsEnded ==
  ASSUME NEW a
  PROVE  Knows(NotMigrating, a) /\ Knows(NoFiles, a) /\ Knows(MigrateError, a)
BY DEF Knows, NotMigrating, NoFiles, MigrateError, Migrated

LEMMA KnowsMore ==
  ASSUME NEW m, NEW a, NEW b, a \subseteq b, b \subseteq Versions, Knows(m, a)
  PROVE  Knows(m, b)
BY DEF Knows

LEMMA KnowsNext ==
  ASSUME NEW v \in Versions, NEW a, a \subseteq Versions, v \in a,
         \A w \in Versions : w < v => w \in a
  PROVE  /\ Knows(NextFile(v), a)
         /\ NextFile(v) \in MigratingState \cup {NotMigrating, Migrated, NoFiles, MigrateError}
<1>1. CASE v < LastVersion /\ NextFile(v) = [pc |-> "check", version |-> v + 1] /\ v + 1 \in Versions
  <2>1. NextFile(v).pc = "check" /\ NextFile(v).version = v + 1 /\ NextFile(v) # Migrated
    BY <1>1 DEF Migrated
  <2>2. \A w \in Versions : w < v + 1 => w \in a
    BY DEF Versions
  <2> QED BY <1>1, <2>1, <2>2 DEF Knows, MigratingState
<1>2. CASE v = LastVersion /\ NextFile(v) = Migrated
  <2>1. a = Versions
    <3>1. \A w \in Versions : w < v \/ w = v
      BY <1>2, MigrationAssumption DEF Versions
    <3> QED BY <3>1
  <2> QED BY <1>2, <2>1 DEF Knows, Migrated
<1> QED BY <1>1, <1>2, NextFileFacts

\* Applying the version that comes next keeps the applied versions a prefix.
LEMMA PrefixGrows ==
  ASSUME NEW n \in 0..LastVersion, NEW v \in Versions, v \notin 1..n,
         \A w \in Versions : w < v => w \in 1..n
  PROVE  v \in 0..LastVersion /\ (1..n) \cup {v} = 1..v
<1>1. n \in Int /\ v \in Int /\ 1 <= v /\ v <= LastVersion /\ LastVersion \in Int /\ 0 <= n /\ n <= LastVersion
  BY MigrationAssumption DEF Versions
<1>2. n < v
  BY <1>1
<1>3. v <= n + 1
  <2> SUFFICES ASSUME n + 1 < v PROVE FALSE
    BY <1>1
  <2>1. n + 1 \in Versions
    BY <1>1 DEF Versions
  <2> QED BY <1>1, <2>1
<1> QED BY <1>1, <1>2, <1>3

\* A step of a migration of p keeps what all migrations know.
LEMMA MigrationStepOf ==
  ASSUME ProcessInv, NEW p \in Process,
         NEW m \in MigratingState \cup {NotMigrating, Migrated, NoFiles, MigrateError},
         migrating' = [migrating EXCEPT ![p] = m],
         applied \subseteq applied', applied' \subseteq Versions, Knows(m, applied'),
         effects' \in [Versions -> Nat],
         \E n \in 0..LastVersion : applied' = 1..n,
         \A v \in Versions : effects'[v] = IF v \in applied' THEN 1 ELSE 0
  PROVE  MigrationInv' /\ MigrationTypeOK'
<1>1. migrating \in [Process -> MigratingState \cup {NotMigrating, Migrated, NoFiles, MigrateError}]
  BY DEF ProcessInv, TypeOK, MigrationTypeOK
<1>2. \A q \in Process : Knows(migrating[q], applied)
  BY DEF ProcessInv, MigrationInv, Knows
<1>3. ASSUME NEW q \in Process PROVE Knows(migrating'[q], applied')
  <2>1. CASE q = p
    BY <1>1, <2>1
  <2>2. CASE q # p
    BY <1>1, <1>2, <2>2, KnowsMore
  <2> QED BY <2>1, <2>2
<1>4. MigrationTypeOK'
  BY <1>1 DEF MigrationTypeOK
<1> QED BY <1>3, <1>4 DEF MigrationInv, Knows

LEMMA MigrationUnchanged ==
  ASSUME ProcessInv, UNCHANGED migrationVars
  PROVE  MigrationInv' /\ MigrationTypeOK' /\ applied' = applied
BY DEF ProcessInv, TypeOK, MigrationInv, MigrationTypeOK, migrationVars

\* The same when the tables are left alone.
LEMMA MigrationReads ==
  ASSUME ProcessInv, NEW p \in Process,
         NEW m \in MigratingState \cup {NotMigrating, Migrated, NoFiles, MigrateError},
         migrating' = [migrating EXCEPT ![p] = m], UNCHANGED <<applied, effects>>,
         Knows(m, applied)
  PROVE  MigrationInv' /\ MigrationTypeOK'
<1>1. /\ applied \subseteq Versions /\ effects \in [Versions -> Nat]
      /\ \E n \in 0..LastVersion : applied = 1..n
      /\ \A v \in Versions : effects[v] = IF v \in applied THEN 1 ELSE 0
  BY DEF ProcessInv, TypeOK, MigrationTypeOK, MigrationInv
<1> QED BY <1>1, MigrationStepOf

LEMMA MigratingFacts ==
  ASSUME ProcessInv, NEW p \in Process, migrating[p].pc \in {"check", "apply"}
  PROVE  /\ migrating[p].version \in Versions /\ applied \subseteq Versions
         /\ \A v \in Versions : v < migrating[p].version => v \in applied
<1>1. migrating[p] \in MigratingState
  BY DEF ProcessInv, TypeOK, MigrationTypeOK, NotMigrating, Migrated, NoFiles, MigrateError
<1> QED BY <1>1 DEF MigratingState, ProcessInv, TypeOK, MigrationTypeOK, MigrationInv

LEMMA MigrateStartInv ==
  ASSUME ProcessInv, NEW p \in Process, MigrateStart(p)
  PROVE  MigrationInv' /\ MigrationTypeOK' /\ applied' = applied
<1>1. PICK m \in {NextFile(0), NoFiles} : migrating' = [migrating EXCEPT ![p] = m]
  BY DEF MigrateStart
<1>2. /\ Knows(NextFile(0), applied)
      /\ NextFile(0) \in MigratingState \cup {NotMigrating, Migrated, NoFiles, MigrateError}
  <2>1. CASE 0 < LastVersion
    <3>1. NextFile(0) = [pc |-> "check", version |-> 1] /\ 1 \in Versions
      BY <2>1, MigrationAssumption DEF NextFile, HasNext, Versions
    <3>2. NextFile(0) \in MigratingState /\ NextFile(0).version = 1 /\ NextFile(0) # Migrated
      BY <3>1 DEF MigratingState, Migrated
    <3> QED BY <3>2 DEF Knows, Versions
  <2>2. CASE LastVersion = 0
    <3>1. NextFile(0) = Migrated /\ Versions = {}
      BY <2>2 DEF NextFile, HasNext, Versions
    <3>2. applied = Versions
      BY <3>1 DEF ProcessInv, TypeOK, MigrationTypeOK
    <3> QED BY <3>1, <3>2 DEF Knows, Migrated
  <2> QED BY <2>1, <2>2, MigrationAssumption
<1>3. UNCHANGED <<applied, effects>>
  BY DEF MigrateStart
<1>4. Knows(m, applied) /\ m \in MigratingState \cup {NotMigrating, Migrated, NoFiles, MigrateError}
  BY <1>2, KnowsEnded
<1> QED BY <1>1, <1>3, <1>4, MigrationReads

LEMMA CheckVersionInv ==
  ASSUME ProcessInv, NEW p \in Process, CheckVersion(p)
  PROVE  MigrationInv' /\ MigrationTypeOK' /\ applied \subseteq applied'
<1> DEFINE v == migrating[p].version
           m == [pc |-> "apply", version |-> v]
<1>1. /\ v \in Versions /\ applied \subseteq Versions
      /\ \A w \in Versions : w < v => w \in applied
  BY MigratingFacts DEF CheckVersion
<1>2. UNCHANGED <<applied, effects>>
  BY DEF CheckVersion
<1>3. CASE v \in applied
  <2>1. migrating' = [migrating EXCEPT ![p] = NextFile(v)]
    BY <1>3 DEF CheckVersion, AfterApplied
  <2> HIDE DEF v
  <2> QED BY <1>1, <1>2, <1>3, <2>1, KnowsNext, MigrationReads
<1>4. CASE v \notin applied
  <2>1. migrating' = [migrating EXCEPT ![p] = m]
    BY <1>4 DEF CheckVersion
  <2>2. m \in MigratingState /\ m.version = v /\ m # Migrated
    BY <1>1 DEF MigratingState, Migrated
  <2> HIDE DEF m, v
  <2>3. Knows(m, applied)
    BY <1>1, <2>2 DEF Knows
  <2> QED BY <1>2, <2>1, <2>2, <2>3, MigrationReads
<1> QED BY <1>3, <1>4

LEMMA ApplyVersionInv ==
  ASSUME ProcessInv, NEW p \in Process, ApplyVersion(p)
  PROVE  MigrationInv' /\ MigrationTypeOK' /\ applied \subseteq applied'
<1> DEFINE v == migrating[p].version
<1>1. /\ v \in Versions /\ applied \subseteq Versions
      /\ \A w \in Versions : w < v => w \in applied
  BY MigratingFacts DEF ApplyVersion
<1>2. CASE Recordable(v)
  <2>1. /\ applied' = applied \cup {v} /\ v \notin applied
        /\ effects' = [effects EXCEPT ![v] = effects[v] + 1]
        /\ migrating' = [migrating EXCEPT ![p] = NextFile(v)]
    BY <1>2 DEF ApplyVersion, Recordable
  <2> HIDE DEF v
  <2>2. effects \in [Versions -> Nat] /\ \A w \in Versions : effects[w] = IF w \in applied THEN 1 ELSE 0
    BY DEF ProcessInv, TypeOK, MigrationTypeOK, MigrationInv
  <2>3. effects' \in [Versions -> Nat] /\ \A w \in Versions : effects'[w] = IF w \in applied' THEN 1 ELSE 0
    BY <1>1, <2>1, <2>2
  <2>4. \E n \in 0..LastVersion : applied' = 1..n
    <3>1. PICK n \in 0..LastVersion : applied = 1..n
      BY DEF ProcessInv, MigrationInv
    <3> QED BY <1>1, <2>1, <3>1, PrefixGrows
  <2>5. applied \subseteq applied' /\ applied' \subseteq Versions /\ v \in applied'
    BY <1>1, <2>1
  <2>6. /\ Knows(NextFile(v), applied')
        /\ NextFile(v) \in MigratingState \cup {NotMigrating, Migrated, NoFiles, MigrateError}
    BY <1>1, <2>5, KnowsNext
  <2> QED BY <2>1, <2>3, <2>4, <2>5, <2>6, MigrationStepOf
<1>3. CASE ~Recordable(v)
  BY <1>3, KnowsEnded, MigrationReads DEF ApplyVersion
<1> QED BY <1>2, <1>3

LEMMA MigrateFailsInv ==
  ASSUME ProcessInv, NEW p \in Process, MigrateFails(p)
  PROVE  MigrationInv' /\ MigrationTypeOK' /\ applied \subseteq applied'
BY KnowsEnded, MigrationReads DEF MigrateFails

-----------------------------------------------------------------------------
(* Processes. *)

\* A step of p's goroutines leaves every other process where it is.
Elsewhere(p) ==
  /\ \A q \in Process \ {p} : main'[q] = main[q]
  /\ \A q \in Looping \ {p} :
       /\ sig'[q] = sig[q] /\ running'[q] = running[q] /\ cancelSet'[q] = cancelSet[q]
       /\ ctx'[q] = ctx[q] /\ mainCtx'[q] = mainCtx[q] /\ wg'[q] = wg[q]
       /\ loop'[q] = loop[q] /\ overshoot'[q] = overshoot[q]
       /\ http'[q] = http[q] /\ orderly'[q] = orderly[q]

\* So such a step has to establish what is known of p only.
LEMMA StepOf ==
  ASSUME ProcessInv, NEW p \in Process, Elsewhere(p), TypeOK', MigrationInv',
         applied \subseteq applied', \A q \in Process \ {p} : migrating'[q] = migrating[q],
         main'[p] \notin {"off", "migrate"} =>
           p \in Looping /\ (p \in Engine => migrating'[p] = NoFiles \/ applied' = Versions),
         p \in Looping => LoopInv(p)'
  PROVE  ProcessInv'
<1>1. \A q \in Looping : LoopInv(q)'
  <2> TAKE q \in Looping
  <2>1. CASE q # p
    BY <2>1, LoopingFacts
       DEF ProcessInv, Elsewhere, LoopInv, Stages, OrderlyStop, OneClaimLate
  <2> QED BY <2>1
<1>2. OpenInv'
  <2>1. applied' \subseteq Versions
    BY DEF TypeOK, MigrationTypeOK
  <2>2. ASSUME NEW q \in Process, q # p, main'[q] \notin {"off", "migrate"}
        PROVE  q \in Looping /\ (q \in Engine => migrating'[q] = NoFiles \/ applied' = Versions)
    BY <2>1, <2>2 DEF ProcessInv, OpenInv, Elsewhere
  <2> QED BY <2>2 DEF OpenInv
<1> QED BY <1>1, <1>2 DEF ProcessInv

\* The part of TypeOK that is about processes.
OwnTypeOK ==
  /\ LoopTypeOK
  /\ main \in [Process -> MainPc]
  /\ sig \in [Process -> SigPc]
  /\ http \in [Looping -> {"nil", "up", "down"}]
  /\ orderly \in [Looping -> BOOLEAN]
  /\ starts \in 0..MaxStarts

LEMMA TypeParts ==
  /\ TypeOK => MigrationTypeOK /\ OwnTypeOK
  /\ MigrationTypeOK' /\ OwnTypeOK' => TypeOK'
BY DEF TypeOK, OwnTypeOK

\* A step of the goroutines of a process that has a loop and has opened its
\* database, and keeps it open.
LEMMA LoopStepOf ==
  ASSUME ProcessInv, NEW p \in Looping, Elsewhere(p), OwnTypeOK', UNCHANGED migrationVars,
         main'[p] \notin {"off", "migrate"} => main[p] \notin {"off", "migrate"},
         LoopInv(p)'
  PROVE  ProcessInv'
<1>1. MigrationInv' /\ MigrationTypeOK' /\ applied' = applied /\ migrating' = migrating
  BY MigrationUnchanged DEF migrationVars
<1>2. TypeOK'
  BY <1>1, TypeParts
<1>3. main[p] \notin {"off", "migrate"} =>
        (p \in Engine => migrating[p] = NoFiles \/ applied = Versions)
  BY LoopingFacts DEF ProcessInv, OpenInv
<1> QED BY <1>1, <1>2, <1>3, LoopingFacts, StepOf

\* Of a process that has ended nothing is left.
LEMMA EndInv == ASSUME ProcessInv, NEW p \in Process, End(p) PROVE ProcessInv'
<1>1. /\ MigrationInv' /\ MigrationTypeOK' /\ applied' = applied
      /\ \A q \in Process \ {p} : migrating'[q] = migrating[q]
  <2>1. migrating' = [migrating EXCEPT ![p] = NotMigrating] /\ UNCHANGED <<applied, effects>>
    BY DEF End
  <2> QED BY <2>1, KnowsEnded, MigrationReads DEF ProcessInv, TypeOK, MigrationTypeOK
<1>2. OwnTypeOK
  BY TypeParts DEF ProcessInv
<1>3. OwnTypeOK' /\ Elsewhere(p) /\ main'[p] = "off"
  <2>1. CASE p \in Looping
    <3>1. /\ main' = [main EXCEPT ![p] = "off"] /\ sig' = [sig EXCEPT ![p] = "none"]
          /\ http' = [http EXCEPT ![p] = "nil"] /\ orderly' = [orderly EXCEPT ![p] = FALSE]
          /\ starts' = starts
      BY <2>1 DEF End, MainTo, SigTo
    <3>2. /\ running' = [running EXCEPT ![p] = FALSE] /\ cancelSet' = [cancelSet EXCEPT ![p] = FALSE]
          /\ ctx' = [ctx EXCEPT ![p] = "none"] /\ mainCtx' = [mainCtx EXCEPT ![p] = "live"]
          /\ wg' = [wg EXCEPT ![p] = 0] /\ loop' = [loop EXCEPT ![p] = "none"]
          /\ left' = [left EXCEPT ![p] = 0] /\ overshoot' = [overshoot EXCEPT ![p] = 0]
      BY <2>1 DEF End, LoopTo
    <3>3. 0 \in 0..1 /\ 0 \in 0..BatchSize /\ 0 \in Nat /\ "none" \in LoopPc
      BY LoopAssumption DEF LoopPc
    <3>4. LoopTypeOK'
      BY <1>2, <2>1, <3>2, <3>3 DEF OwnTypeOK, LoopTypeOK
    <3>5. OwnTypeOK'
      BY <1>2, <3>1, <3>4 DEF OwnTypeOK, MainPc, SigPc
    <3>6. Elsewhere(p) /\ main'[p] = "off"
      BY <1>2, <2>1, <3>1, <3>2, LoopingFacts DEF OwnTypeOK, LoopTypeOK, Elsewhere
    <3> QED BY <3>5, <3>6
  <2>2. CASE p \notin Looping
    BY <1>2, <2>2, LoopingFacts
       DEF End, OwnTypeOK, LoopTypeOK, MainTo, SigTo, MainPc, SigPc, Elsewhere, objectVars, bodyVars
  <2> QED BY <2>1, <2>2
<1>4. p \in Looping => LoopInv(p)'
  <2> SUFFICES ASSUME p \in Looping PROVE LoopInv(p)'
    OBVIOUS
  <2>1. /\ main'[p] = "off" /\ sig'[p] = "none" /\ running'[p] = FALSE /\ cancelSet'[p] = FALSE
        /\ ctx'[p] = "none" /\ mainCtx'[p] = "live" /\ wg'[p] = 0 /\ loop'[p] = "none"
        /\ overshoot'[p] = 0 /\ http'[p] = "nil" /\ orderly'[p] = FALSE
    BY <1>2, LoopingFacts DEF End, OwnTypeOK, LoopTypeOK, MainTo, SigTo, LoopTo
  <2> QED BY <2>1 DEF LoopInv, Stages, OrderlyStop, OneClaimLate
<1> QED BY <1>1, <1>3, <1>4, TypeParts, StepOf

LEMMA LaunchInv == ASSUME ProcessInv, NEW p \in Process, Launch(p) PROVE ProcessInv'
<1>1. /\ MigrationInv' /\ MigrationTypeOK' /\ applied' = applied
      /\ \A q \in Process \ {p} : migrating'[q] = migrating[q]
  <2>1. CASE p \in Worker
    BY <2>1, MigrationUnchanged DEF Launch, migrationVars
  <2>2. CASE p \notin Worker
    <3>1. MigrateStart(p)
      BY <2>2 DEF Launch
    <3> QED BY <3>1, MigrateStartInv DEF MigrateStart, ProcessInv, TypeOK, MigrationTypeOK
  <2> QED BY <2>1, <2>2
<1>2. OwnTypeOK
  BY TypeParts DEF ProcessInv
<1>3. /\ main[p] = "off" /\ starts' = starts + 1 /\ starts < MaxStarts
      /\ main' = [main EXCEPT ![p] = IF p \in Worker THEN "ready" ELSE "migrate"]
      /\ UNCHANGED <<sig, objectVars, bodyVars, http, orderly>>
  BY DEF Launch, MainTo
<1>4. OwnTypeOK' /\ Elsewhere(p) /\ main'[p] = IF p \in Worker THEN "ready" ELSE "migrate"
  BY <1>2, <1>3, ProcessesAssumption
     DEF OwnTypeOK, LoopTypeOK, MainPc, Elsewhere, objectVars, bodyVars
<1>5. p \in Looping => LoopInv(p)'
  BY <1>3, <1>4 DEF ProcessInv, LoopInv, Stages, OrderlyStop, OneClaimLate, objectVars, bodyVars
<1>6. p \in Worker => p \in Looping /\ p \notin Engine
  BY LoopAssumption DEF Looping
<1> QED BY <1>1, <1>4, <1>5, <1>6, TypeParts, StepOf

LEMMA MigrateInv == ASSUME ProcessInv, NEW p \in Process, Migrate(p) PROVE ProcessInv'
<1>1. /\ MigrationInv' /\ MigrationTypeOK' /\ applied \subseteq applied'
      /\ \A q \in Process \ {p} : migrating'[q] = migrating[q]
  <2>1. CheckVersion(p) \/ ApplyVersion(p) \/ MigrateFails(p)
    BY DEF Migrate
  <2>2. \A q \in Process \ {p} : migrating'[q] = migrating[q]
    BY <2>1 DEF CheckVersion, ApplyVersion, MigrateFails, ProcessInv, TypeOK, MigrationTypeOK
  <2> QED BY <2>1, <2>2, CheckVersionInv, ApplyVersionInv, MigrateFailsInv
<1>2. UNCHANGED <<loopVars, ownVars>> /\ main'[p] = "migrate"
  BY DEF Migrate, loopVars
<1>3. OwnTypeOK' /\ Elsewhere(p) /\ (p \in Looping => LoopInv(p)')
  BY <1>2, TypeParts
     DEF OwnTypeOK, LoopTypeOK, Elsewhere, loopVars, ownVars, objectVars, bodyVars,
         ProcessInv, LoopInv, Stages, OrderlyStop, OneClaimLate
<1> QED BY <1>1, <1>2, <1>3, TypeParts, StepOf

LEMMA OpenedInv == ASSUME ProcessInv, NEW p \in Process, Opened(p) PROVE ProcessInv'
<1>1. CASE p \notin Engine
  BY <1>1, EndInv DEF Opened
<1>2. CASE p \in Engine
  <2>1. /\ main[p] = "migrate" /\ migrating[p] \in {Migrated, NoFiles}
        /\ main' = [main EXCEPT ![p] = "ready"]
        /\ UNCHANGED <<migrationVars, sig, objectVars, bodyVars, ownVars>>
    BY <1>2 DEF Opened, MainTo
  <2>2. /\ MigrationInv' /\ MigrationTypeOK' /\ applied' = applied /\ migrating' = migrating
        /\ migrating[p] = NoFiles \/ applied = Versions
    BY <2>1, MigrationUnchanged DEF ProcessInv, MigrationInv, migrationVars
  <2>3. OwnTypeOK
    BY TypeParts DEF ProcessInv
  <2>4. OwnTypeOK' /\ Elsewhere(p) /\ main'[p] = "ready"
    BY <2>1, <2>3
       DEF OwnTypeOK, LoopTypeOK, MainPc, Elsewhere, objectVars, bodyVars, ownVars
  <2>5. p \in Looping /\ LoopInv(p)'
    BY <1>2, <2>1, <2>4
       DEF Looping, ProcessInv, LoopInv, Stages, OrderlyStop, OneClaimLate, objectVars, bodyVars,
           ownVars
  <2> QED BY <2>2, <2>4, <2>5, TypeParts, StepOf
<1> QED BY <1>1, <1>2

\* What is known of a process in some stage.
LEMMA StageFacts ==
  ASSUME ProcessInv, NEW p \in Process
  PROVE  /\ OwnTypeOK
         /\ main[p] \notin {"off", "migrate"} => p \in Looping
         /\ p \in Looping => /\ LoopInv(p) /\ running[p] \in BOOLEAN /\ cancelSet[p] \in BOOLEAN
                             /\ orderly[p] \in BOOLEAN
                             /\ wg[p] \in 0..1 /\ overshoot[p] \in Nat /\ left[p] \in 0..BatchSize
                             /\ ctx[p] \in {"none", "live", "cancelled"}
                             /\ mainCtx[p] \in {"live", "cancelled"}
                             /\ http[p] \in {"nil", "up", "down"}
BY TypeParts DEF ProcessInv, OpenInv, OwnTypeOK, LoopTypeOK

-----------------------------------------------------------------------------
(* The goroutine main. *)

LEMMA NotifyInv == ASSUME ProcessInv, NEW p \in Process, Notify(p) PROVE ProcessInv'
<1>1. /\ main[p] = "ready" /\ sig[p] = "none" /\ sig' = [sig EXCEPT ![p] = "notified"]
      /\ UNCHANGED <<migrationVars, main, objectVars, bodyVars, ownVars>>
  BY DEF Notify, SigTo
<1>2. p \in Looping /\ OwnTypeOK /\ LoopInv(p)
  BY <1>1, StageFacts
<1>3. OwnTypeOK' /\ Elsewhere(p)
  BY <1>1, <1>2 DEF OwnTypeOK, LoopTypeOK, SigPc, Elsewhere, objectVars, bodyVars, ownVars
<1>4. LoopInv(p)'
  BY <1>1, <1>2, LoopingFacts
     DEF LoopInv, Stages, OrderlyStop, OneClaimLate, OwnTypeOK, objectVars, bodyVars, ownVars
<1> QED BY <1>1, <1>2, <1>3, <1>4, LoopStepOf

LEMMA BeginInv == ASSUME ProcessInv, NEW p \in Process, Begin(p) PROVE ProcessInv'
<1>1. /\ main[p] = "ready" /\ sig[p] # "none" /\ main' = [main EXCEPT ![p] = "start"]
      /\ \/ http' = [http EXCEPT ![p] = "up"] \/ http' = http
         \/ http' = [http EXCEPT ![p] = http[p]]
      /\ UNCHANGED <<migrationVars, sig, objectVars, bodyVars, orderly, starts>>
  BY DEF Begin, MainTo
<1>2. p \in Looping /\ p \in Process /\ OwnTypeOK /\ LoopInv(p)
  BY <1>1, StageFacts
<1>3. /\ http' \in [Looping -> {"nil", "up", "down"}]
      /\ \A q \in Looping : q # p => http'[q] = http[q]
      /\ http'[p] \in {http[p], "up"}
  BY <1>1, <1>2 DEF OwnTypeOK
<1>4. OwnTypeOK' /\ Elsewhere(p) /\ main'[p] = "start"
  BY <1>1, <1>2, <1>3
     DEF OwnTypeOK, LoopTypeOK, MainPc, StartPc, Elsewhere, objectVars, bodyVars
<1>5. LoopInv(p)'
  BY <1>1, <1>2, <1>3, <1>4
     DEF LoopInv, Stages, OrderlyStop, OneClaimLate, objectVars, bodyVars
<1> QED BY <1>1, <1>2, <1>4, <1>5, LoopStepOf

LEMMA StartSwapInv ==
  ASSUME ProcessInv, NEW p \in Process, StartSwap(p, "serving"), UNCHANGED <<migrationVars, ownVars>>
  PROVE  ProcessInv'
<1>1. p \in Looping /\ p \in Process /\ OwnTypeOK /\ LoopInv(p) /\ main[p] = "start" /\ ~running[p]
  BY StageFacts DEF StartSwap, LoopInv, Stages
<1>2. /\ main' = [main EXCEPT ![p] = "setcancel"] /\ running' = [running EXCEPT ![p] = TRUE]
      /\ UNCHANGED <<sig, cancelSet, ctx, mainCtx, wg, bodyVars>>
  BY <1>1 DEF StartSwap, MainTo
<1>3. OwnTypeOK' /\ Elsewhere(p) /\ main'[p] = "setcancel" /\ running'[p] = TRUE
  BY <1>1, <1>2 DEF OwnTypeOK, LoopTypeOK, MainPc, StartPc, Elsewhere, bodyVars, ownVars
<1>4. LoopInv(p)'
  BY <1>1, <1>2, <1>3 DEF LoopInv, Stages, OrderlyStop, OneClaimLate, bodyVars, ownVars
<1> QED BY <1>1, <1>3, <1>4, LoopStepOf

LEMMA StartSetCancelInv ==
  ASSUME ProcessInv, NEW p \in Process, StartSetCancel(p), UNCHANGED <<migrationVars, ownVars>>
  PROVE  ProcessInv'
<1>1. p \in Looping /\ OwnTypeOK /\ LoopInv(p) /\ main[p] = "setcancel"
  BY StageFacts DEF StartSetCancel
<1> DEFINE x == IF p \in Engine THEN "live" ELSE mainCtx[p]
<1>2. /\ main' = [main EXCEPT ![p] = "add"] /\ cancelSet' = [cancelSet EXCEPT ![p] = TRUE]
      /\ ctx' = [ctx EXCEPT ![p] = x]
      /\ UNCHANGED <<sig, running, mainCtx, wg, bodyVars>>
  BY DEF StartSetCancel, MainTo
<1>3. x \in {"live", "cancelled"} /\ (x = "cancelled" => mainCtx[p] = "cancelled")
  BY <1>1 DEF OwnTypeOK, LoopTypeOK
<1> HIDE DEF x
<1>4. OwnTypeOK' /\ Elsewhere(p) /\ main'[p] = "add" /\ cancelSet'[p] = TRUE /\ ctx'[p] = x
  BY <1>1, <1>2, <1>3 DEF OwnTypeOK, LoopTypeOK, MainPc, StartPc, Elsewhere, bodyVars, ownVars
<1>5. LoopInv(p)'
  <2>1. overshoot[p] = 0 /\ loop[p] = "none"
    BY <1>1 DEF LoopInv, Stages, OneClaimLate, OwnTypeOK, LoopTypeOK
  <2> QED BY <1>1, <1>2, <1>3, <1>4, <2>1
          DEF LoopInv, Stages, OrderlyStop, OneClaimLate, bodyVars, ownVars
<1> QED BY <1>1, <1>4, <1>5, LoopStepOf

LEMMA StartAddInv ==
  ASSUME ProcessInv, NEW p \in Process, StartAdd(p, "serving"), UNCHANGED <<migrationVars, ownVars>>
  PROVE  ProcessInv'
<1>1. p \in Looping /\ OwnTypeOK /\ LoopInv(p) /\ main[p] = "add"
  BY StageFacts DEF StartAdd
<1>2. /\ main' = [main EXCEPT ![p] = IF p \in Engine THEN "check" ELSE "serving"]
      /\ wg' = [wg EXCEPT ![p] = 1] /\ loop' = [loop EXCEPT ![p] = "select"]
      /\ UNCHANGED <<sig, running, cancelSet, ctx, mainCtx, left, overshoot>>
  BY DEF StartAdd, MainTo, LoopTo
<1>3. /\ OwnTypeOK' /\ Elsewhere(p) /\ main'[p] \in {"check", "serving"}
      /\ wg'[p] = 1 /\ loop'[p] = "select"
  BY <1>1, <1>2 DEF OwnTypeOK, LoopTypeOK, MainPc, StartPc, LoopPc, Elsewhere, ownVars
<1>4. LoopInv(p)'
  BY <1>1, <1>2, <1>3 DEF LoopInv, Stages, OrderlyStop, OneClaimLate, ownVars
<1> QED BY <1>1, <1>3, <1>4, LoopStepOf

LEMMA StartCheckInv ==
  ASSUME ProcessInv, NEW p \in Process, StartCheck(p, "serving"), UNCHANGED <<migrationVars, ownVars>>
  PROVE  ProcessInv'
<1>1. p \in Looping /\ OwnTypeOK /\ LoopInv(p) /\ main[p] = "check"
  BY StageFacts DEF StartCheck
<1>2. /\ main' = [main EXCEPT ![p] = "serving"]
      /\ running' = [running EXCEPT ![p] = running[p] /\ ctx[p] # "cancelled"]
      /\ UNCHANGED <<sig, cancelSet, ctx, mainCtx, wg, bodyVars>>
  BY DEF StartCheck, MainTo
<1>3. /\ OwnTypeOK' /\ Elsewhere(p) /\ main'[p] = "serving"
      /\ running[p] /\ ctx[p] # "cancelled" => running'[p]
  BY <1>1, <1>2 DEF OwnTypeOK, LoopTypeOK, MainPc, Elsewhere, bodyVars, ownVars
<1>4. LoopInv(p)'
  BY <1>1, <1>2, <1>3 DEF LoopInv, Stages, OrderlyStop, OneClaimLate, bodyVars, ownVars
<1> QED BY <1>1, <1>3, <1>4, LoopStepOf

LEMMA ReturnInv == ASSUME ProcessInv, NEW p \in Process, Return(p) PROVE ProcessInv'
<1>1. /\ main[p] = "serving" /\ main' = [main EXCEPT ![p] = "sleep"]
      /\ p \in Engine => http[p] = "down"
      /\ p \in Worker => mainCtx[p] = "cancelled"
      /\ UNCHANGED <<migrationVars, sig, objectVars, bodyVars, ownVars>>
  BY DEF Return, MainTo
<1>2. p \in Looping /\ OwnTypeOK /\ LoopInv(p) /\ sig[p] = "gone"
  BY <1>1, StageFacts, LoopingFacts DEF LoopInv, Stages
<1>3. OwnTypeOK' /\ Elsewhere(p) /\ main'[p] = "sleep"
  BY <1>1, <1>2 DEF OwnTypeOK, LoopTypeOK, MainPc, Elsewhere, objectVars, bodyVars, ownVars
<1>4. LoopInv(p)'
  BY <1>1, <1>2, <1>3
     DEF LoopInv, Stages, OrderlyStop, OneClaimLate, objectVars, bodyVars, ownVars
<1> QED BY <1>1, <1>2, <1>3, <1>4, LoopStepOf

-----------------------------------------------------------------------------
(* The signal goroutine. *)

LEMMA SignalInv == ASSUME ProcessInv, NEW p \in Looping, Signal(p) PROVE ProcessInv'
<1>1. /\ sig[p] = "notified" /\ sig' = [sig EXCEPT ![p] = "load"]
      /\ orderly' = [orderly EXCEPT ![p] = main[p] = "serving"]
      /\ UNCHANGED <<migrationVars, main, objectVars, bodyVars, http, starts>>
  BY DEF Signal, SigTo
<1>2. OwnTypeOK /\ LoopInv(p)
  BY StageFacts, LoopingFacts
<1>3. /\ OwnTypeOK' /\ Elsewhere(p) /\ sig'[p] = "load"
      /\ orderly'[p] => main[p] = "serving"
  BY <1>1, <1>2, LoopingFacts
     DEF OwnTypeOK, LoopTypeOK, SigPc, StopPc, Elsewhere, objectVars, bodyVars
<1>4. LoopInv(p)'
  BY <1>1, <1>2, <1>3 DEF LoopInv, Stages, OrderlyStop, OneClaimLate, objectVars, bodyVars
<1> QED BY <1>1, <1>3, <1>4, LoopStepOf

LEMMA StopLoadInv ==
  ASSUME ProcessInv, NEW p \in Looping, StopLoad(p, "shutdown"), UNCHANGED <<migrationVars, ownVars>>
  PROVE  ProcessInv'
<1>1. /\ sig[p] = "load" /\ sig' = [sig EXCEPT ![p] = IF running[p] THEN "cancel" ELSE "shutdown"]
      /\ UNCHANGED <<main, objectVars, bodyVars>>
  BY DEF StopLoad, SigTo
<1>2. OwnTypeOK /\ LoopInv(p)
  BY StageFacts, LoopingFacts
<1>3. /\ OwnTypeOK' /\ Elsewhere(p) /\ sig'[p] = IF running[p] THEN "cancel" ELSE "shutdown"
  BY <1>1, <1>2, LoopingFacts
     DEF OwnTypeOK, LoopTypeOK, SigPc, StopPc, Elsewhere, objectVars, bodyVars, ownVars
<1>4. LoopInv(p)'
  BY <1>1, <1>2, <1>3
     DEF LoopInv, Stages, OrderlyStop, OneClaimLate, objectVars, bodyVars, ownVars
<1> QED BY <1>1, <1>3, <1>4, LoopStepOf

LEMMA StopCancelInv ==
  ASSUME ProcessInv, NEW p \in Looping, StopCancel(p), UNCHANGED <<migrationVars, ownVars>>
  PROVE  ProcessInv'
<1>1. /\ sig[p] = "cancel" /\ sig' = [sig EXCEPT ![p] = "wait"]
      /\ ctx' = [ctx EXCEPT ![p] = "cancelled"] \/ ctx' = ctx
      /\ UNCHANGED <<main, running, cancelSet, mainCtx, wg, bodyVars>>
  BY DEF StopCancel, SigTo
<1>2. OwnTypeOK /\ LoopInv(p)
  BY StageFacts, LoopingFacts
<1>3. /\ ctx' \in [Looping -> {"none", "live", "cancelled"}]
      /\ \A q \in Looping : q # p => ctx'[q] = ctx[q]
      /\ ctx'[p] \in {ctx[p], "cancelled"}
  BY <1>1, <1>2 DEF OwnTypeOK, LoopTypeOK
<1>4. OwnTypeOK' /\ Elsewhere(p) /\ sig'[p] = "wait"
  BY <1>1, <1>2, <1>3, LoopingFacts
     DEF OwnTypeOK, LoopTypeOK, SigPc, StopPc, Elsewhere, bodyVars, ownVars
<1>5. LoopInv(p)'
  BY <1>1, <1>2, <1>3, <1>4 DEF LoopInv, Stages, OrderlyStop, OneClaimLate, bodyVars, ownVars
<1> QED BY <1>1, <1>4, <1>5, LoopStepOf

LEMMA StopWaitInv ==
  ASSUME ProcessInv, NEW p \in Looping, StopWait(p), UNCHANGED <<migrationVars, ownVars>>
  PROVE  ProcessInv'
<1>1. /\ sig[p] = "wait" /\ sig' = [sig EXCEPT ![p] = "store"] /\ wg[p] = 0
      /\ UNCHANGED <<main, objectVars, bodyVars>>
  BY DEF StopWait, SigTo, Waited
<1>2. OwnTypeOK /\ LoopInv(p)
  BY StageFacts, LoopingFacts
<1>3. OwnTypeOK' /\ Elsewhere(p) /\ sig'[p] = "store"
  BY <1>1, <1>2, LoopingFacts
     DEF OwnTypeOK, LoopTypeOK, SigPc, StopPc, Elsewhere, objectVars, bodyVars, ownVars
<1>4. orderly[p] => loop[p] = "done"
  BY <1>1, <1>2 DEF LoopInv, Stages, OrderlyStop
<1>5. LoopInv(p)'
  BY <1>1, <1>2, <1>3, <1>4
     DEF LoopInv, Stages, OrderlyStop, OneClaimLate, objectVars, bodyVars, ownVars
<1> QED BY <1>1, <1>3, <1>5, LoopStepOf

LEMMA StopStoreInv ==
  ASSUME ProcessInv, NEW p \in Looping, StopStore(p, "shutdown"), UNCHANGED <<migrationVars, ownVars>>
  PROVE  ProcessInv'
<1>1. /\ sig[p] = "store" /\ sig' = [sig EXCEPT ![p] = "shutdown"]
      /\ running' = [running EXCEPT ![p] = FALSE]
      /\ UNCHANGED <<main, cancelSet, ctx, mainCtx, wg, bodyVars>>
  BY DEF StopStore, SigTo
<1>2. OwnTypeOK /\ LoopInv(p)
  BY StageFacts, LoopingFacts
<1>3. OwnTypeOK' /\ Elsewhere(p) /\ sig'[p] = "shutdown" /\ running'[p] = FALSE
  BY <1>1, <1>2, LoopingFacts DEF OwnTypeOK, LoopTypeOK, SigPc, Elsewhere, bodyVars, ownVars
<1>4. LoopInv(p)'
  BY <1>1, <1>2, <1>3 DEF LoopInv, Stages, OrderlyStop, OneClaimLate, bodyVars, ownVars
<1> QED BY <1>1, <1>3, <1>4, LoopStepOf

LEMMA ShutdownInv == ASSUME ProcessInv, NEW p \in Looping, Shutdown(p) PROVE ProcessInv'
<1>1. /\ sig[p] = "shutdown" /\ sig' = [sig EXCEPT ![p] = "gone"]
      /\ http' = [http EXCEPT ![p] = "down"] \/ http' = http
      /\ mainCtx' = [mainCtx EXCEPT ![p] = "cancelled"]
      /\ ctx' = [ctx EXCEPT ![p] = "cancelled"] \/ ctx' = ctx
      /\ UNCHANGED <<migrationVars, main, running, cancelSet, wg, bodyVars, orderly, starts>>
  BY DEF Shutdown, SigTo
<1>2. OwnTypeOK /\ LoopInv(p)
  BY StageFacts, LoopingFacts
<1>3. /\ ctx' \in [Looping -> {"none", "live", "cancelled"}]
      /\ \A q \in Looping : q # p => ctx'[q] = ctx[q]
      /\ ctx'[p] \in {ctx[p], "cancelled"}
  BY <1>1, <1>2 DEF OwnTypeOK, LoopTypeOK
<1>4. /\ http' \in [Looping -> {"nil", "up", "down"}]
      /\ \A q \in Looping : q # p => http'[q] = http[q]
  BY <1>1, <1>2 DEF OwnTypeOK
<1>5. OwnTypeOK' /\ Elsewhere(p) /\ sig'[p] = "gone"
  BY <1>1, <1>2, <1>3, <1>4, LoopingFacts
     DEF OwnTypeOK, LoopTypeOK, SigPc, Elsewhere, bodyVars
<1>6. LoopInv(p)'
  BY <1>1, <1>2, <1>3, <1>5 DEF LoopInv, Stages, OrderlyStop, OneClaimLate, bodyVars
<1> QED BY <1>1, <1>5, <1>6, LoopStepOf

-----------------------------------------------------------------------------
(* The loop. *)

\* A step of the loop that neither ends nor starts it, and claims nothing.
LEMMA LoopOnly ==
  ASSUME ProcessInv, NEW p \in Looping, loop[p] \notin {"none", "done"},
         NEW pc \in {"select", "tick", "next", "claim", "report"},
         loop' = [loop EXCEPT ![p] = pc], pc = "claim" => ctx[p] # "cancelled",
         NEW n \in 0..BatchSize, left' = left \/ left' = [left EXCEPT ![p] = n],
         UNCHANGED <<main, sig, objectVars, overshoot, migrationVars, ownVars>>
  PROVE  ProcessInv'
<1>1. OwnTypeOK /\ LoopInv(p)
  BY StageFacts, LoopingFacts
<1>2. left' \in [Looping -> 0..BatchSize] /\ pc \in LoopPc
  BY <1>1 DEF OwnTypeOK, LoopTypeOK, LoopPc
<1>3. OwnTypeOK' /\ Elsewhere(p) /\ loop'[p] = pc
  BY <1>1, <1>2 DEF OwnTypeOK, LoopTypeOK, Elsewhere, objectVars, ownVars
<1>4. overshoot[p] \in Nat
  BY <1>1 DEF OwnTypeOK, LoopTypeOK
<1>5. LoopInv(p)'
  BY <1>1, <1>3, <1>4 DEF LoopInv, Stages, OrderlyStop, OneClaimLate, objectVars, ownVars
<1> QED BY <1>3, <1>5, LoopStepOf

LEMMA LoopDoneInv ==
  ASSUME ProcessInv, NEW p \in Looping, LoopDone(p), UNCHANGED <<migrationVars, ownVars>>
  PROVE  ProcessInv'
<1>1. /\ loop[p] = "select" /\ ctx[p] = "cancelled"
      /\ loop' = [loop EXCEPT ![p] = "done"] /\ wg' = [wg EXCEPT ![p] = 0]
      /\ UNCHANGED <<main, sig, running, cancelSet, ctx, mainCtx, left, overshoot>>
  BY DEF LoopDone, LoopTo
<1>2. OwnTypeOK /\ LoopInv(p)
  BY StageFacts, LoopingFacts
<1>3. OwnTypeOK' /\ Elsewhere(p) /\ loop'[p] = "done" /\ wg'[p] = 0
  BY <1>1, <1>2 DEF OwnTypeOK, LoopTypeOK, LoopPc, Elsewhere, ownVars
<1>4. LoopInv(p)'
  BY <1>1, <1>2, <1>3 DEF LoopInv, Stages, OrderlyStop, OneClaimLate, ownVars
<1> QED BY <1>1, <1>3, <1>4, LoopStepOf

LEMMA LoopTickInv ==
  ASSUME ProcessInv, NEW p \in Looping, LoopTick(p), UNCHANGED <<migrationVars, ownVars>>
  PROVE  ProcessInv'
<1>1. loop[p] = "select" /\ UNCHANGED <<main, sig, objectVars, overshoot>>
  BY DEF LoopTick
<1>2. CASE LoopTo(p, "tick") /\ UNCHANGED left
  <2>1. 0 \in 0..BatchSize
    BY LoopAssumption
  <2> QED BY <1>1, <1>2, <2>1, LoopOnly DEF LoopTo
<1>3. CASE LoopTo(p, "next") /\ \E n \in 0..BatchSize : left' = [left EXCEPT ![p] = n]
  BY <1>1, <1>3, LoopOnly DEF LoopTo
<1> QED BY <1>2, <1>3 DEF LoopTick

LEMMA PollNextInv ==
  ASSUME ProcessInv, NEW p \in Looping, PollNext(p), UNCHANGED <<migrationVars, ownVars>>
  PROVE  ProcessInv'
<1>1. loop[p] = "next" /\ UNCHANGED <<main, sig, objectVars, overshoot>>
  BY DEF PollNext
<1>2. left[p] \in 0..BatchSize /\ 0 \in 0..BatchSize
  BY StageFacts, LoopingFacts, LoopAssumption
<1>3. CASE PollGoesOn(p)
  <2>1. left[p] - 1 \in 0..BatchSize /\ ctx[p] # "cancelled"
    BY <1>2, <1>3, LoopAssumption DEF PollGoesOn
  <2> QED BY <1>1, <1>3, <2>1, LoopOnly DEF PollNext, LoopTo
<1>4. CASE ~PollGoesOn(p)
  BY <1>1, <1>2, <1>4, LoopOnly DEF PollNext, LoopTo
<1> QED BY <1>3, <1>4

LEMMA PollClaimInv ==
  ASSUME ProcessInv, NEW p \in Looping, PollClaim(p), UNCHANGED <<migrationVars, ownVars>>
  PROVE  ProcessInv'
<1>1. loop[p] = "claim" /\ UNCHANGED <<main, sig, objectVars, left>> /\ 0 \in 0..BatchSize
  BY LoopAssumption DEF PollClaim
<1>2. CASE LoopTo(p, "next") /\ UNCHANGED overshoot
  BY <1>1, <1>2, LoopOnly DEF LoopTo
<1>3. CASE /\ LoopTo(p, "report")
           /\ overshoot' = [overshoot EXCEPT ![p] =
                              IF ctx[p] = "cancelled" THEN overshoot[p] + 1 ELSE overshoot[p]]
  <2>1. OwnTypeOK /\ LoopInv(p)
    BY StageFacts, LoopingFacts
  <2>2. overshoot[p] = 0
    BY <1>1, <2>1 DEF LoopInv, OneClaimLate, OwnTypeOK, LoopTypeOK
  <2>3. /\ OwnTypeOK' /\ Elsewhere(p) /\ loop'[p] = "report"
        /\ overshoot'[p] = IF ctx[p] = "cancelled" THEN 1 ELSE 0
    BY <1>1, <1>3, <2>1, <2>2
       DEF OwnTypeOK, LoopTypeOK, LoopPc, LoopTo, Elsewhere, objectVars, ownVars
  <2>4. LoopInv(p)'
    BY <1>1, <2>1, <2>3 DEF LoopInv, Stages, OrderlyStop, OneClaimLate, objectVars, ownVars
  <2> QED BY <1>1, <2>3, <2>4, LoopStepOf
<1> QED BY <1>2, <1>3 DEF PollClaim

LEMMA RunInv == ASSUME ProcessInv, NEW p \in Looping, Run(p) PROVE ProcessInv'
<1>1. UNCHANGED <<migrationVars, ownVars>> /\ 0 \in 0..BatchSize
  BY LoopAssumption DEF Run
<1>2. CASE TickEnds(p)
  BY <1>1, <1>2, LoopOnly DEF TickEnds, LoopTo
<1>3. CASE PollReport(p)
  BY <1>1, <1>3, LoopOnly DEF PollReport, LoopTo
<1> QED BY <1>1, <1>2, <1>3, LoopDoneInv, LoopTickInv, PollNextInv, PollClaimInv DEF Run, LoopStep

-----------------------------------------------------------------------------
(* The theorems. *)

LEMMA MainStepInv == ASSUME ProcessInv, NEW p \in Process, MainStep(p) PROVE ProcessInv'
<1>1. CASE StartLoop(p)
  BY <1>1, StartSwapInv, StartSetCancelInv, StartAddInv, StartCheckInv DEF StartLoop, Start
<1>2. CASE OpenFailed(p) \/ Exit(p)
  BY <1>2, EndInv DEF OpenFailed, Exit
<1> QED BY <1>1, <1>2, MigrateInv, OpenedInv, NotifyInv, BeginInv, ReturnInv DEF MainStep

LEMMA SigStepInv == ASSUME ProcessInv, NEW p \in Looping, SigStep(p) PROVE ProcessInv'
BY StopLoadInv, StopCancelInv, StopWaitInv, StopStoreInv, ShutdownInv DEF SigStep, StopLoop, Stop

LEMMA ProcessStep == ProcessInv /\ [Next]_vars => ProcessInv'
<1> SUFFICES ASSUME ProcessInv, [Next]_vars PROVE ProcessInv'
  OBVIOUS
<1>1. ASSUME NEW p \in Process, Launch(p) PROVE ProcessInv'
  BY <1>1, LaunchInv
<1>2. ASSUME NEW p \in Process, MainStep(p) PROVE ProcessInv'
  BY <1>2, MainStepInv
<1>3. ASSUME NEW p \in Process, Crash(p) PROVE ProcessInv'
  BY <1>3, EndInv DEF Crash
<1>4. ASSUME NEW p \in Looping, Signal(p) \/ SigStep(p) \/ Run(p) PROVE ProcessInv'
  BY <1>4, SignalInv, SigStepInv, RunInv
<1>5. CASE UNCHANGED vars
  <2>1. MigrationInv' /\ MigrationTypeOK' /\ applied' = applied /\ migrating' = migrating
    BY <1>5, MigrationUnchanged DEF vars, migrationVars
  <2>2. OwnTypeOK' /\ OpenInv'
    BY <1>5, <2>1, TypeParts
       DEF vars, loopVars, ownVars, objectVars, bodyVars, OwnTypeOK, LoopTypeOK, OpenInv, ProcessInv
  <2>3. ASSUME NEW p \in Looping PROVE LoopInv(p)'
    BY <1>5, <2>3 DEF ProcessInv, vars, loopVars, ownVars, objectVars, bodyVars,
                      LoopInv, Stages, OrderlyStop, OneClaimLate
  <2> QED BY <2>1, <2>2, <2>3, TypeParts DEF ProcessInv
<1> QED BY <1>1, <1>2, <1>3, <1>4, <1>5 DEF Next

\* No interleaving of starts, signals, loops and deaths leaves the inductive
\* invariant.
THEOREM ProcessInvariant == Spec => []ProcessInv
<1> QED BY InitProcess, ProcessStep, PTL DEF Spec

\* Every variable keeps its type; the wait group is never negative.
THEOREM ProcessTypeCorrect == Spec => []TypeOK
<1>1. ProcessInv => TypeOK
  BY DEF ProcessInv
<1> QED BY <1>1, ProcessInvariant, PTL

\* Versions are applied without a gap, each exactly once, whoever migrates
\* at the same time or dies in between.
THEOREM MigrationsOnce == Spec => []AppliedExactlyOnce
<1>1. ProcessInv => AppliedExactlyOnce
  <2> SUFFICES ASSUME ProcessInv PROVE AppliedExactlyOnce
    OBVIOUS
  <2>1. PICK n \in 0..LastVersion : applied = 1..n
    BY DEF ProcessInv, MigrationInv
  <2>2. n \in Nat
    BY <2>1, MigrationAssumption
  <2>3. Cardinality(applied) = n
    BY <2>1, <2>2, FS_Interval
  <2> QED BY <2>1, <2>3 DEF ProcessInv, MigrationInv, AppliedExactlyOnce
<1> QED BY <1>1, ProcessInvariant, PTL

\* The engine of a scheduler that found its migration files runs on a complete
\* schema only, whoever else migrates, with or without files.
THEOREM EngineAfterMigration == Spec => []SchemaOfFiles
<1>1. ProcessInv => SchemaOfFiles
  <2> SUFFICES ASSUME ProcessInv, NEW p \in Engine, loop[p] # "none", migrating[p] # NoFiles
               PROVE  applied = Versions
    BY DEF SchemaOfFiles
  <2>1. p \in Looping /\ p \in Process
    BY LoopingFacts DEF Looping
  <2>2. main[p] \in {"check", "serving", "sleep"}
    BY <2>1 DEF ProcessInv, LoopInv, Stages
  <2> QED BY <2>1, <2>2 DEF ProcessInv, OpenInv
<1> QED BY <1>1, ProcessInvariant, PTL

\* A process that is told to stop while it is serving does not end before
\* its loop has.
THEOREM LoopEndsFirst == Spec => []NothingCutOff
<1>1. ProcessInv => NothingCutOff
  BY DEF ProcessInv, LoopInv, Stages, OrderlyStop, NothingCutOff
<1> QED BY <1>1, ProcessInvariant, PTL

\* A worker claims at most one task after it was told to stop.
THEOREM OneLateClaim == Spec => []StopsClaiming
<1>1. ProcessInv => StopsClaiming
  BY LoopingFacts DEF ProcessInv, LoopInv, OneClaimLate, StopsClaiming, Looping
<1> QED BY <1>1, ProcessInvariant, PTL
=============================================================================
