---------------------------- MODULE ProcessProofs ----------------------------
(***************************************************************************)
(* Proofs about the processes.                                             *)
(*                                                                         *)
(* Setup, for any number of setups and migrations: a migration takes       *)
(* effect once and in order, and success means that all is there.          *)
(*                                                                         *)
(* Lifecycle, for any number of handlers: what a process opened it closes, *)
(* and under nobody without a reason.                                      *)
(***************************************************************************)
EXTENDS Setup, Lifecycle, TLAPS

(* A setup at a migration is at one there is, and the next one is in range. *)
LEMMA FileInRange ==
    ASSUME TypeOK, NEW p \in Process, file[p] <= release[p]
    PROVE  file[p] \in Version /\ file[p] + 1 \in 1 .. Files + 1
<1>1. file[p] \in 1 .. Files + 1 /\ release[p] \in 0 .. Files
  BY DEF TypeOK
<1>2. QED
  BY <1>1, SetupAssumption DEF Version

(* Where a setup is among the files is a number, and comparable. *)
LEMMA Numbers ==
    ASSUME TypeOK, NEW p \in Process
    PROVE  /\ file[p] \in Nat
           /\ release[p] \in Nat
           /\ file[p] > release[p] \/ file[p] <= release[p]
<1>1. file[p] \in 1 .. Files + 1 /\ release[p] \in 0 .. Files
  BY DEF TypeOK
<1>2. QED
  BY <1>1, SetupAssumption

(* Every step leaves the variables in their types, given the invariant: it is
   what keeps a transaction at a migration there is. *)
LEMMA StepKeepsTypes ==
    ASSUME TypeOK, IInv, [Next]_vars
    PROVE  TypeOK'
<1> USE DEF Goto, database
<1>1. ASSUME NEW p \in Process, LookForTable(p)
      PROVE  TypeOK'
  BY <1>1 DEF LookForTable, TypeOK
<1>2. ASSUME NEW p \in Process, CreateTable(p)
      PROVE  TypeOK'
  BY <1>2 DEF CreateTable, TypeOK
<1>3. ASSUME NEW p \in Process, CheckVersion(p)
      PROVE  TypeOK'
  <2>1. CASE file[p] > release[p]
    <3>1. setup' = [setup EXCEPT ![p] = "migrated"] /\ UNCHANGED file
      BY <1>3, <2>1, Numbers DEF CheckVersion
    <3>2. QED
      BY <1>3, <3>1 DEF CheckVersion, TypeOK
  <2>2. CASE file[p] <= release[p]
    <3>1. file[p] + 1 \in 1 .. Files + 1
      BY <2>2, FileInRange
    <3>2. file' \in [Process -> 1 .. Files + 1]
      BY <1>3, <3>1 DEF CheckVersion, TypeOK
    <3>3. QED
      BY <1>3, <3>2 DEF CheckVersion, TypeOK
  <2>3. QED
    BY <2>1, <2>2, Numbers
<1>4. ASSUME NEW p \in Process, ExecuteMigration(p)
      PROVE  TypeOK'
  BY <1>4 DEF ExecuteMigration, TypeOK
<1>5. ASSUME NEW p \in Process, InsertVersion(p)
      PROVE  TypeOK'
  BY <1>5 DEF InsertVersion, TypeOK
<1>6. ASSUME NEW p \in Process, setup[p] = "inserted", TakeEffect(file[p])
      PROVE  /\ recorded' \subseteq Version
             /\ effects' \in [Version -> Nat]
             /\ file[p] + 1 \in 1 .. Files + 1
  <2>1. file[p] <= release[p]
    BY <1>6 DEF IInv, ProgressIsReal
  <2>2. file[p] \in Version /\ file[p] + 1 \in 1 .. Files + 1
    BY <2>1, FileInRange
  <2>3. recorded' \subseteq Version
    BY <1>6, <2>2 DEF TakeEffect, TypeOK
  <2>4. effects' \in [Version -> Nat]
    <3>1. effects \in [Version -> Nat]
      BY DEF TypeOK
    <3>2. effects[file[p]] \in Nat
      BY <2>2, <3>1
    <3>3. effects[file[p]] + 1 \in Nat
      BY <3>2
    <3>4. QED
      BY <1>6, <3>1, <3>3 DEF TakeEffect
  <2>5. QED
    BY <2>2, <2>3, <2>4
<1>7. ASSUME NEW p \in Process, CommitMigration(p)
      PROVE  TypeOK'
  <2>1. /\ recorded' \subseteq Version
        /\ effects' \in [Version -> Nat]
        /\ file[p] + 1 \in 1 .. Files + 1
    BY <1>6, <1>7 DEF CommitMigration
  <2>2. file' \in [Process -> 1 .. Files + 1]
    BY <1>7, <2>1 DEF CommitMigration, TypeOK
  <2>3. QED
    BY <1>7, <2>1, <2>2 DEF CommitMigration, TypeOK
<1>8. ASSUME NEW p \in Process, Seed(p)
      PROVE  TypeOK'
  BY <1>8 DEF Seed, SeedUser, SeedMonitors, TypeOK
<1>9. ASSUME NEW p \in Process, Fail(p)
      PROVE  TypeOK'
  <2>1. recorded' \subseteq Version /\ effects' \in [Version -> Nat]
    BY <1>6, <1>9 DEF Fail, TypeOK
  <2>2. faults' \in 0 .. MaxFaults
    <3>1. faults \in 0 .. MaxFaults
      BY DEF TypeOK
    <3>2. faults < MaxFaults /\ faults' = faults + 1
      BY <1>9 DEF Fail
    <3>3. QED
      BY <3>1, <3>2, SetupAssumption
  <2>3. QED
    BY <1>9, <2>1, <2>2 DEF Fail, TypeOK
<1>10. CASE UNCHANGED vars
  BY <1>10 DEF vars, TypeOK
<1>11. QED
  BY <1>1, <1>2, <1>3, <1>4, <1>5, <1>7, <1>8, <1>9, <1>10
     DEF Next, Migrate

(* A transaction that records a version adds it to what is recorded, once and
   next in order, and disturbs no other setup's progress. *)
LEMMA EffectKeepsInvariant ==
    ASSUME TypeOK, IInv,
           NEW p \in Process, setup[p] = "inserted", TakeEffect(file[p]),
           UNCHANGED <<seeded, release>>,
           setup' \in {[setup EXCEPT ![p] = "checking"],
                       [setup EXCEPT ![p] = "failed"]},
           file' \in {file, [file EXCEPT ![p] = @ + 1]}
    PROVE  IInv'
<1> DEFINE v == file[p]
<1>1. v \in Version
  BY FileInRange DEF IInv, ProgressIsReal
<1>2. recorded' = recorded \cup {v} /\ v \notin recorded
  BY DEF TakeEffect, IInv, OneRecorder
<1>3. EffectsAreRecorded'
  <2>1. effects' = [effects EXCEPT ![v] = effects[v] + 1]
    BY DEF TakeEffect
  <2>2. effects[v] = 0
    BY <1>1, <1>2 DEF IInv, EffectsAreRecorded
  <2>0. effects \in [Version -> Nat]
    BY DEF TypeOK
  <2>3. effects'[v] = 1
    <3>1. effects'[v] = effects[v] + 1
      BY <1>1, <2>0, <2>1
    <3>2. QED
      BY <2>2, <3>1
  <2>4. \A u \in Version : u # v => effects'[u] = effects[u]
    BY <2>0, <2>1
  <2>5. QED
    BY <1>1, <1>2, <2>3, <2>4 DEF IInv, EffectsAreRecorded
<1>4. InOrder'
  <2>1. \A u \in Version : u < v => u \in recorded
    BY DEF IInv, ProgressIsReal
  <2>2. QED
    BY <1>2, <2>1 DEF IInv, InOrder
<1>5. OneRecorder'
  <2>1. ASSUME NEW q \in Process, setup'[q] = "inserted"
        PROVE  q # p /\ setup[q] = "inserted" /\ file'[q] = file[q]
    BY <2>1 DEF TypeOK
  <2>2. ASSUME NEW q \in Process, setup'[q] = "inserted"
        PROVE  file[q] \notin recorded'
    <3>1. file[q] # v
      BY <2>1, <2>2 DEF IInv, OneRecorder
    <3>2. QED
      BY <1>2, <2>1, <2>2, <3>1 DEF IInv, OneRecorder
  <2>3. QED
    BY <2>1, <2>2 DEF IInv, OneRecorder
<1>6. ProgressIsReal'
  <2>1. ASSUME NEW q \in Process, q # p
        PROVE  setup'[q] = setup[q] /\ file'[q] = file[q]
    BY <2>1 DEF TypeOK
  <2>2. setup'[p] \in {"checking", "failed"}
    BY DEF TypeOK
  <2>3. ASSUME NEW u \in Version, u < file'[p]
        PROVE  u \in recorded'
    <3>1. u < v \/ u = v
      <4>1. file'[p] = v \/ file'[p] = v + 1
        BY DEF TypeOK
      <4>2. u \in Nat /\ v \in Nat
        BY <1>1 DEF Version
      <4>3. QED
        BY <2>3, <4>1, <4>2
    <3>2. QED
      BY <1>2, <3>1 DEF IInv, ProgressIsReal
  <2>4. QED
    BY <1>2, <2>1, <2>2, <2>3 DEF IInv, ProgressIsReal
<1>7. QED
  BY <1>3, <1>4, <1>5, <1>6 DEF IInv

(* What a setup found or made stays so when another one goes on: the other
   steps only move one setup, or add to what is seeded. *)
LEMMA StepKeepsInvariant ==
    ASSUME TypeOK, IInv, [Next]_vars
    PROVE  IInv'
<1> USE DEF Goto, database
<1>0. ASSUME NEW p \in Process, UNCHANGED <<recorded, effects, release, file>>,
             setup' \in {[setup EXCEPT ![p] = "creating"],
                         [setup EXCEPT ![p] = "checking"],
                         [setup EXCEPT ![p] = "failed"]},
             UNCHANGED seeded
      PROVE  IInv'
  <2>1. EffectsAreRecorded' /\ InOrder'
    BY <1>0 DEF IInv, EffectsAreRecorded, InOrder
  <2>2. ASSUME NEW q \in Process,
               setup'[q] \notin {"creating", "checking", "failed"}
        PROVE  setup'[q] = setup[q]
    BY <1>0, <2>2 DEF TypeOK
  <2>3. OneRecorder'
    BY <1>0, <2>2 DEF IInv, OneRecorder
  <2>4. ProgressIsReal'
    BY <1>0, <2>2 DEF IInv, ProgressIsReal
  <2>5. QED
    BY <2>1, <2>3, <2>4 DEF IInv
<1>1. ASSUME NEW p \in Process, LookForTable(p) \/ CreateTable(p)
      PROVE  IInv'
  BY <1>0, <1>1 DEF LookForTable, CreateTable
<1>2. ASSUME NEW p \in Process, CheckVersion(p)
      PROVE  IInv'
  <2>0. file[p] \in Nat /\ release[p] \in Nat
    <3>1. file[p] \in 1 .. Files + 1 /\ release[p] \in 0 .. Files
      BY DEF TypeOK
    <3>2. QED
      BY <3>1, SetupAssumption
  <2>1. EffectsAreRecorded' /\ InOrder'
    BY <1>2 DEF CheckVersion, IInv, EffectsAreRecorded, InOrder
  <2>2. OneRecorder'
    BY <1>2 DEF CheckVersion, TypeOK, IInv, OneRecorder
  <2>3. ASSUME NEW u \in Version, u < file'[p]
        PROVE  u \in recorded
    <3>1. \/ file'[p] = file[p]
          \/ file'[p] = file[p] + 1 /\ file[p] \in recorded
      BY <1>2 DEF CheckVersion, TypeOK
    <3>2. u \in Nat
      BY DEF Version
    <3>3. u < file[p] \/ (u = file[p] /\ file[p] \in recorded)
      BY <2>0, <2>3, <3>1, <3>2
    <3>4. QED
      BY <3>3 DEF IInv, ProgressIsReal
  <2>4. ASSUME NEW q \in Process, q # p
        PROVE  setup'[q] = setup[q] /\ file'[q] = file[q]
    BY <1>2, <2>4 DEF CheckVersion, TypeOK
  <2>5. /\ setup'[p] \in {"checking", "begun", "migrated"}
        /\ setup'[p] = "begun" => file'[p] <= release[p]
        /\ setup'[p] = "migrated" => release[p] < file'[p]
    BY <1>2, <2>0 DEF CheckVersion, TypeOK
  <2>6. UNCHANGED <<recorded, seeded, release>>
    BY <1>2 DEF CheckVersion
  <2>7. ProgressIsReal'
    BY <2>3, <2>4, <2>5, <2>6 DEF IInv, ProgressIsReal
  <2>8. QED
    BY <2>1, <2>2, <2>7 DEF IInv
<1>3. ASSUME NEW p \in Process, ExecuteMigration(p)
      PROVE  IInv'
  BY <1>3 DEF ExecuteMigration, TypeOK, IInv, EffectsAreRecorded, InOrder,
              OneRecorder, ProgressIsReal
<1>4. ASSUME NEW p \in Process, InsertVersion(p)
      PROVE  IInv'
  <2>1. ASSUME NEW q \in Process, setup[q] = "inserted", file[q] = file[p]
        PROVE  FALSE
    BY <1>4, <2>1 DEF InsertVersion, Recording, Running
  <2>2. QED
    BY <1>4, <2>1 DEF InsertVersion, TypeOK, IInv, EffectsAreRecorded, InOrder,
                      OneRecorder, ProgressIsReal
<1>5. ASSUME NEW p \in Process, CommitMigration(p)
      PROVE  IInv'
  BY <1>5, EffectKeepsInvariant DEF CommitMigration
<1>6. ASSUME NEW p \in Process, Seed(p)
      PROVE  IInv'
  <2>1. UNCHANGED <<recorded, effects, release, file>>
    BY <1>6 DEF Seed, SeedUser, SeedMonitors
  <2>2. /\ setup'[p] \in {"user seeded", "done"}
        /\ setup[p] \in {"migrated", "user seeded"}
        /\ "user" \in seeded' \/ setup[p] = "user seeded"
        /\ setup'[p] = "done" =>
              "monitors" \in seeded' /\ setup[p] = "user seeded"
        /\ seeded \subseteq seeded'
    BY <1>6 DEF Seed, SeedUser, SeedMonitors, TypeOK
  <2>3. ASSUME NEW q \in Process, q # p
        PROVE  setup'[q] = setup[q]
    BY <1>6, <2>3 DEF Seed, SeedUser, SeedMonitors, TypeOK
  <2>4. EffectsAreRecorded' /\ InOrder'
    BY <2>1 DEF IInv, EffectsAreRecorded, InOrder
  <2>5. OneRecorder'
    BY <2>1, <2>2, <2>3 DEF IInv, OneRecorder
  <2>6. ProgressIsReal'
    BY <2>1, <2>2, <2>3 DEF IInv, ProgressIsReal
  <2>7. QED
    BY <2>4, <2>5, <2>6 DEF IInv
<1>7. ASSUME NEW p \in Process, Fail(p)
      PROVE  IInv'
  <2>1. CASE UNCHANGED <<recorded, effects>>
    BY <1>7, <2>1 DEF Fail, TypeOK, IInv, EffectsAreRecorded, InOrder,
                      OneRecorder, ProgressIsReal
  <2>2. CASE setup[p] = "inserted" /\ TakeEffect(file[p])
    BY <1>7, <2>2, EffectKeepsInvariant DEF Fail
  <2>3. QED
    BY <1>7, <2>1, <2>2 DEF Fail
<1>8. CASE UNCHANGED vars
  BY <1>8 DEF vars, IInv, EffectsAreRecorded, InOrder, OneRecorder,
              ProgressIsReal
<1>9. QED
  BY <1>1, <1>2, <1>3, <1>4, <1>5, <1>6, <1>7, <1>8 DEF Next, Migrate

(* Types and the inductive invariant, each of which needs the other. *)
LEMMA SetupInvariants == Spec => [](TypeOK /\ IInv)
<1>1. Init => TypeOK
  BY SetupAssumption DEF Init, TypeOK, Version
<1>2. Init => IInv
  BY SetupAssumption DEF Init, Version, IInv, EffectsAreRecorded, InOrder,
                         OneRecorder, ProgressIsReal
<1>3. TypeOK /\ IInv /\ [Next]_vars => (TypeOK /\ IInv)'
  BY StepKeepsTypes, StepKeepsInvariant
<1>4. QED
  BY <1>1, <1>2, <1>3, PTL DEF Spec

(* The variables keep their types. *)
THEOREM SetupTypeOK == Spec => []TypeOK
BY SetupInvariants, PTL

(* A migration takes effect once if it is recorded and not at all otherwise,
   for any number of concurrent setups of any releases that fail anywhere. *)
THEOREM SetupEffectsAreRecorded == Spec => []EffectsAreRecorded
<1>1. IInv => EffectsAreRecorded
  BY DEF IInv
<1>2. QED
  BY <1>1, SetupInvariants, PTL

(* Migrations take effect in order. *)
THEOREM SetupInOrder == Spec => []InOrder
<1>1. IInv => InOrder
  BY DEF IInv
<1>2. QED
  BY <1>1, SetupInvariants, PTL

(* A setup that reports success has found or made all its release needs. *)
THEOREM SetupDoneIsComplete == Spec => []DoneIsComplete
<1>1. TypeOK /\ IInv => DoneIsComplete
  <2> SUFFICES ASSUME TypeOK, IInv, NEW p \in Process, setup[p] = "done"
               PROVE  /\ 1 .. release[p] \subseteq recorded
                      /\ seeded = {"user", "monitors"}
    BY DEF DoneIsComplete
  <2>1. seeded = {"user", "monitors"}
    BY DEF TypeOK, IInv, ProgressIsReal
  <2>2. ASSUME NEW v \in 1 .. release[p]
        PROVE  v \in recorded
    <3>1. /\ release[p] \in 0 .. Files
          /\ file[p] \in 1 .. Files + 1
          /\ release[p] < file[p]
      BY DEF TypeOK, IInv, ProgressIsReal
    <3>2. v \in Version /\ v < file[p]
      BY <3>1, SetupAssumption DEF Version
    <3>3. QED
      BY <3>2 DEF IInv, ProgressIsReal
  <2>3. QED
    BY <2>1, <2>2
<1>2. QED
  BY <1>1, SetupInvariants, PTL

(* All three together. *)
THEOREM SetupSound == Spec => []SetupIsSound
BY SetupEffectsAreRecorded, SetupInOrder, SetupDoneIsComplete, PTL
   DEF SetupIsSound

-----------------------------------------------------------------------------

(* There is a table before anything is recorded. *)
LEMMA StepKeepsTable ==
    ASSUME TypeOK, TableFirst, [Next]_vars
    PROVE  TableFirst'
<1> USE DEF Goto, database
<1>1. ASSUME NEW p \in Process, LookForTable(p) \/ CreateTable(p)
      PROVE  TableFirst'
  BY <1>1 DEF LookForTable, CreateTable, TypeOK, TableFirst
<1>2. ASSUME NEW p \in Process, table, table' = table
      PROVE  TableFirst'
  BY <1>2 DEF TableFirst
<1>3. ASSUME NEW p \in Process,
             CheckVersion(p) \/ ExecuteMigration(p) \/ InsertVersion(p)
                \/ CommitMigration(p) \/ Seed(p)
      PROVE  TableFirst'
  <2>1. table' = table
    BY <1>3 DEF CheckVersion, ExecuteMigration, InsertVersion,
                CommitMigration, Seed, SeedUser, SeedMonitors
  <2>2. table
    BY <1>3 DEF CheckVersion, ExecuteMigration, InsertVersion,
                CommitMigration, Seed, SeedUser, SeedMonitors, TableFirst
  <2> QED
    BY <1>2, <1>3, <2>1, <2>2
<1>4. ASSUME NEW p \in Process, Fail(p)
      PROVE  TableFirst'
  BY <1>4 DEF Fail, TypeOK, TableFirst
<1>5. CASE UNCHANGED vars
  BY <1>5 DEF vars, TableFirst
<1> QED
  BY <1>1, <1>3, <1>4, <1>5 DEF Next, Migrate

(* A step of a setup that records nothing leaves one ahead if it does not put
   its own setup behind, nor takes it from ahead. *)
LEMMA QuietStep ==
    ASSUME TypeOK, OneIsAhead, NEW p \in Process,
           UNCHANGED <<table, recorded, faults>>,
           \A q \in Process : q # p =>
              setup'[q] = setup[q] /\ file'[q] = file[q],
           Behind(p)' => Behind(p),
           Ahead(p) => Ahead(p)'
    PROVE  OneIsAhead'
<1>1. \A q \in Process : /\ Behind(q)' => Behind(q)
                         /\ Ahead(q) => Ahead(q)'
  BY DEF Behind, Ahead
<1> QED
  BY <1>1 DEF OneIsAhead

(* As long as no call fails, one setup is ahead of all that are behind: the
   one that made the table or committed last.  What it does next it is the
   first to do. *)
LEMMA StepKeepsOneAhead ==
    ASSUME TypeOK, IInv, TableFirst, OneIsAhead, [Next]_vars
    PROVE  OneIsAhead'
<1> USE DEF Goto, database
<1>1. ASSUME NEW p \in Process, LookForTable(p)
      PROVE  OneIsAhead'
  <2>1. Behind(p)' => Behind(p)
    BY <1>1 DEF LookForTable, Behind, TypeOK
  <2>2. ~ Ahead(p)
    BY <1>1 DEF LookForTable, Ahead
  <2> QED
    BY <1>1, <2>1, <2>2, QuietStep DEF LookForTable, TypeOK
<1>2. ASSUME NEW p \in Process, CreateTable(p)
      PROVE  OneIsAhead'
  <2>1. CASE table
    <3>1. Behind(p) /\ ~ Ahead(p)
      BY <1>2, <2>1 DEF CreateTable, Behind, Ahead
    <3> QED
      BY <1>2, <2>1, <3>1, QuietStep DEF CreateTable, TypeOK
  <2>2. CASE ~ table
    <3>1. recorded' = {} /\ setup'[p] = "checking"
      BY <1>2, <2>2 DEF CreateTable, TableFirst, TypeOK
    <3>2. Ahead(p)'
      BY <3>1 DEF Ahead
    <3> QED
      BY <3>2 DEF OneIsAhead
  <2> QED
    BY <2>1, <2>2
<1>3. ASSUME NEW p \in Process, Ahead(p)
      PROVE  file[p] \notin recorded
  BY <1>3, Numbers DEF Ahead
<1>4. ASSUME NEW p \in Process, CheckVersion(p)
      PROVE  OneIsAhead'
  <2>1. UNCHANGED <<table, recorded, faults>>
    BY <1>4 DEF CheckVersion
  <2>2. \A q \in Process : q # p =>
           setup'[q] = setup[q] /\ file'[q] = file[q]
    BY <1>4 DEF CheckVersion, TypeOK
  <2>3. ~ Behind(p)'
    BY <1>4 DEF CheckVersion, Behind, TypeOK
  <2>4. ASSUME Ahead(p) PROVE Ahead(p)'
    <3>1. file' = file /\ setup'[p] \in {"migrated", "begun"}
      BY <1>3, <1>4, <2>4 DEF CheckVersion, TypeOK
    <3> QED
      BY <2>1, <2>4, <3>1 DEF Ahead
  <2> QED
    BY <2>1, <2>2, <2>3, <2>4, QuietStep
<1>5. ASSUME NEW p \in Process, ExecuteMigration(p)
      PROVE  OneIsAhead'
  <2>1. file[p] \in Version
    BY <1>5, FileInRange DEF ExecuteMigration, IInv, ProgressIsReal
  <2>2. effects[file[p]] > 0 => file[p] \in recorded
    BY <2>1 DEF IInv, EffectsAreRecorded
  <2>3. Behind(p)' => Behind(p)
    BY <1>5, <2>2 DEF ExecuteMigration, Behind, TypeOK
  <2>4. Ahead(p) => Ahead(p)'
    BY <1>3, <1>5, <2>2 DEF ExecuteMigration, Ahead, TypeOK
  <2> QED
    BY <1>5, <2>3, <2>4, QuietStep DEF ExecuteMigration, TypeOK
<1>6. ASSUME NEW p \in Process, InsertVersion(p)
      PROVE  OneIsAhead'
  <2>1. Behind(p)' => Behind(p)
    BY <1>6 DEF InsertVersion, Behind, TypeOK
  <2>2. Ahead(p) => Ahead(p)'
    BY <1>3, <1>6 DEF InsertVersion, Ahead, TypeOK
  <2> QED
    BY <1>6, <2>1, <2>2, QuietStep DEF InsertVersion, TypeOK
<1>7. ASSUME NEW p \in Process, CommitMigration(p)
      PROVE  OneIsAhead'
  <2> DEFINE v == file[p]
  <2>1. v \in Version /\ v \notin recorded
    BY <1>7, FileInRange
       DEF CommitMigration, IInv, OneRecorder, ProgressIsReal
  <2>2. \A u \in recorded : u < v
    <3> SUFFICES ASSUME NEW u \in recorded PROVE u < v
      OBVIOUS
    <3>1. u \in Version
      BY DEF TypeOK
    <3>2. u \in Nat /\ v \in Nat
      BY <2>1, <3>1 DEF Version
    <3>3. u # v /\ ~ (v < u)
      BY <2>1 DEF IInv, InOrder
    <3> HIDE DEF v
    <3> QED
      BY <3>2, <3>3
  <2>3. /\ recorded' = recorded \cup {v}
        /\ file'[p] = v + 1
        /\ setup'[p] = "checking"
    BY <1>7 DEF CommitMigration, TakeEffect, TypeOK
  <2>4. v \in Nat /\ \A u \in recorded : u \in Nat
    <3>1. \A u \in Version : u \in Nat
      BY DEF Version
    <3> QED
      BY <2>1, <3>1 DEF TypeOK
  <2>5. \A u \in recorded' : u < file'[p]
    <3> HIDE DEF v
    <3> QED
      BY <2>2, <2>3, <2>4
  <2>6. Ahead(p)'
    BY <2>3, <2>5 DEF Ahead
  <2> QED
    BY <2>6 DEF OneIsAhead
<1>8. ASSUME NEW p \in Process, Seed(p)
      PROVE  OneIsAhead'
  <2>1. /\ setup[p] \in {"migrated", "user seeded"}
        /\ setup'[p] \in {"user seeded", "done"}
        /\ UNCHANGED <<table, recorded, file, faults>>
        /\ \A q \in Process : q # p => setup'[q] = setup[q]
    BY <1>8 DEF Seed, SeedUser, SeedMonitors, TypeOK
  <2>2. ~ Behind(p)' /\ (Ahead(p) => Ahead(p)')
    BY <2>1 DEF Behind, Ahead
  <2> QED
    BY <2>1, <2>2, QuietStep
<1>9. ASSUME NEW p \in Process, Fail(p)
      PROVE  OneIsAhead'
  <2>1. faults' # 0
    <3>1. faults \in 0 .. MaxFaults /\ faults' = faults + 1
      BY <1>9 DEF Fail, TypeOK
    <3> QED
      BY <3>1, SetupAssumption
  <2> QED
    BY <2>1 DEF OneIsAhead
<1>10. CASE UNCHANGED vars
  BY <1>10 DEF vars, OneIsAhead, Behind, Ahead
<1> QED
  BY <1>1, <1>2, <1>4, <1>5, <1>6, <1>7, <1>8, <1>9, <1>10 DEF Next, Migrate

(* Setups make one another fail, but never all of them: unless a call failed
   one succeeds, for any number of setups and releases. *)
THEOREM SetupOneSucceeds == Spec => []OneSucceeds
<1>1. Init => AheadInv
  <2> SUFFICES ASSUME Init PROVE AheadInv
    OBVIOUS
  <2>1. \A p \in Process : ~ Behind(p)
    BY DEF Init, Behind
  <2>2. ~ table => recorded = {}
    <3>1. PICK n \in 0 .. Files : recorded = 1 .. n /\ table = (n > 0)
      BY DEF Init
    <3>2. ~ (n > 0) => 1 .. n = {}
      BY SetupAssumption
    <3>3. ~ table => ~ (n > 0)
      BY <3>1
    <3> QED
      BY <3>1, <3>2, <3>3
  <2>3. TableFirst
    BY <2>2 DEF Init, TableFirst
  <2> QED
    BY <2>1, <2>3 DEF AheadInv, OneIsAhead
<1>2. TypeOK /\ IInv /\ AheadInv /\ [Next]_vars => AheadInv'
  BY StepKeepsTable, StepKeepsOneAhead DEF AheadInv
<1>3. AheadInv => OneSucceeds
  <2> SUFFICES ASSUME OneIsAhead, faults = 0, NEW p \in Process,
                      \A q \in Process : Ended(q), setup[p] # "done"
               PROVE  \E q \in Process : setup[q] = "done"
    BY DEF AheadInv, OneSucceeds
  <2>1. Behind(p)
    BY DEF Ended, Behind
  <2>2. PICK q \in Process : Ahead(q)
    BY <2>1 DEF OneIsAhead
  <2> QED
    BY <2>2 DEF Ended, Ahead
<1> QED
  BY <1>1, <1>2, <1>3, SetupInvariants, PTL DEF Spec

-----------------------------------------------------------------------------
(* Lifecycle *)

(* What is open at each of main's steps. *)
Opened ==
    /\ pc \in {"store", "waitStore"} =>
          store = "none" /\ redis = "none" /\ client = "none"
    /\ pc = "redisURL" => store = "open" /\ redis = "none" /\ client = "none"
    /\ pc \in {"redis", "waitRedis", "asynq"} =>
          store = "open" /\ redis = "open" /\ client = "none"
    /\ pc \in {"serving", "shutdown"} =>
          store = "open" /\ redis = "open" /\ client = "open"
    /\ pc = "closing" =>
          /\ redis = client
          /\ \/ client = "open" /\ store = "open"
             \/ client = "closed" /\ store \in {"open", "closing"}

(* Only the command's own service begins, only once main is past app.New, and
   asynq's server is where its Run has brought it. *)
InService ==
    /\ pc \notin {"serving", "shutdown", "closing", "exited"} =>
          outcome = "none" /\ listener = "new" /\ run = "new"
    /\ pc \in {"serving", "shutdown"} => outcome = "none"
    /\ command # "serve" => listener = "new"
    /\ command # "worker" => run = "new" /\ asynq = "new"
    /\ pc = "shutdown" => command \in {"serve", "worker"}
    /\ asynq = "new" <=> run \in {"new", "failed"}
    /\ asynq = "active" => run = "waiting"
    /\ pc = "serving" /\ asynq = "closed" => run \in {"shutdown", "returned"}
    /\ pc = "shutdown" /\ command = "worker" => asynq = "closed"

(* Why main may close what handlers use. *)
Excused ==
    \/ Active = {}
    \/ over
    \/ listener = "failed"
    \/ run = "shutdown" \/ asynq = "active"

(* main closes nothing before it is excused, which it then stays: who comes
   later comes through a server of asynq's that started late. *)
Waits ==
    /\ listener = "new" /\ asynq = "new" => Active = {}
    /\ pc = "serving" /\ run = "returned" => Excused
    /\ pc = "closing" => Excused
    /\ pc = "exited" /\ redis = "closed" => Excused
    /\ command = "serve" /\ outcome = "ok" =>
          pc \in {"closing", "exited"} /\ Active = {}

LifecycleInv ==
    ProcessTypeOK /\ Opened /\ InService /\ Waits /\ NothingLeftOpen

(* The invariant holds of main, its service and its handlers together. *)
LEMMA LifecycleInvariant == ProcessSpec => []LifecycleInv
<1>1. ProcessInit => LifecycleInv
  BY DEF ProcessInit, LifecycleInv, ProcessTypeOK, Opened, InService, Waits,
         NothingLeftOpen, Excused, Active
<1>2. LifecycleInv /\ [ProcessNext]_processVars => LifecycleInv'
  <2> SUFFICES ASSUME LifecycleInv, [ProcessNext]_processVars
               PROVE  LifecycleInv'
    OBVIOUS
  <2> USE DEF LifecycleInv, ProcessTypeOK, Opened, InService, Waits,
              NothingLeftOpen, Excused, Active, opened, service, input
  <2>1. CASE Signal
    BY <2>1 DEF Signal
  <2>2. CASE Deadline
    BY <2>2 DEF Deadline
  <2>3. CASE ConnectStore
    BY <2>3 DEF ConnectStore
  <2>4. CASE RetryStore
    BY <2>4 DEF RetryStore, GiveUp
  <2>5. CASE ParseRedisURL
    BY <2>5 DEF ParseRedisURL, GiveUp
  <2>6. CASE PingRedis
    BY <2>6 DEF PingRedis
  <2>7. CASE RetryRedis
    BY <2>7 DEF RetryRedis, GiveUp, CloseStore
  <2>8. CASE NewClient
    BY <2>8 DEF NewClient, GiveUp
  <2>9. CASE SetUp
    BY <2>9 DEF SetUp, Return
  <2>10. CASE Listen
    BY <2>10 DEF Listen, Served
  <2>11. CASE StartScheduler
    BY <2>11 DEF StartScheduler, Served
  <2>12. CASE Start
    BY <2>12 DEF Start, Served
  <2>13. CASE RunSignalled
    BY <2>13 DEF RunSignalled, Served
  <2>14. CASE RunShutDown
    BY <2>14 DEF RunShutDown, Served
  <2>15. CASE Select
    BY <2>15 DEF Select, Stop, Return
  <2>16. CASE TimeIsOver
    BY <2>16 DEF TimeIsOver, Served
  <2>17. CASE ShutDown
    BY <2>17 DEF ShutDown, Return
  <2>18. CASE CloseRedis
    BY <2>18 DEF CloseRedis
  <2>19. CASE ClosePool
    BY <2>19 DEF ClosePool
  <2>20. CASE PoolClosed
    BY <2>20 DEF PoolClosed
  <2>21. ASSUME NEW h \in Handler, Accept(h)
        PROVE  LifecycleInv'
    BY <2>21 DEF Accept, Served
  <2>22. ASSUME NEW h \in Handler, Call(h)
        PROVE  LifecycleInv'
    BY <2>22 DEF Call, Served
  <2>23. ASSUME NEW h \in Handler, Answer(h)
        PROVE  LifecycleInv'
    BY <2>23 DEF Answer, Served
  <2>24. ASSUME NEW h \in Handler, End(h)
        PROVE  LifecycleInv'
    BY <2>24 DEF End, Served
  <2>25. CASE UNCHANGED processVars
    BY <2>25 DEF processVars
  <2>26. QED
    BY <2>1, <2>2, <2>3, <2>4, <2>5, <2>6, <2>7, <2>8, <2>9, <2>10, <2>11,
       <2>12, <2>13, <2>14, <2>15, <2>16, <2>17, <2>18, <2>19, <2>20, <2>21,
       <2>22, <2>23, <2>24, <2>25
       DEF ProcessNext, Main, New, Run
<1>3. QED
  BY <1>1, <1>2, PTL DEF ProcessSpec

(* Every variable has its type, and the queue is never open without the
   store. *)
THEOREM LifecycleTypeOK == ProcessSpec => []ProcessTypeOK
BY LifecycleInvariant, PTL DEF LifecycleInv

(* A web server exits without an error only when all it was doing has ended,
   and Redis is closed under a handler only for one of the reasons named. *)
THEOREM LifecycleClosesUnderNobody == ProcessSpec => []ClosesUnderNobody
<1>1. LifecycleInv => ClosesUnderNobody
  <2> SUFFICES ASSUME LifecycleInv, Active # {}
               PROVE  /\ command = "serve" => outcome # "ok"
                      /\ redis = "closed" => Excused
    BY DEF ClosesUnderNobody, Excused
  <2>1. command = "serve" => outcome # "ok"
    BY DEF LifecycleInv, Waits
  <2>2. redis = "closed" => pc \in {"closing", "exited"}
    BY DEF LifecycleInv, Opened, ProcessTypeOK
  <2>3. QED
    BY <2>1, <2>2 DEF LifecycleInv, Waits
<1>2. QED
  BY <1>1, LifecycleInvariant, PTL

(* A process that returns has closed its store and its queue, and Redis unless
   it never answered. *)
THEOREM LifecycleNothingLeftOpen == ProcessSpec => []NothingLeftOpen
BY LifecycleInvariant, PTL DEF LifecycleInv

=============================================================================
