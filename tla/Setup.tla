-------------------------------- MODULE Setup --------------------------------
(***************************************************************************)
(* Setting up the database: `go-fibe setup' applies the migrations it has  *)
(* and seeds the demo data (setup in cmd/go-fibe/main.go, Migrate in       *)
(* internal/db/migrate.go, Seed in internal/db/store.go).  Several setups  *)
(* may run at once, of releases that have more or fewer migrations, and    *)
(* each may fail at any call.                                              *)
(*                                                                         *)
(* PostgreSQL is external.  What the code relies on: a transaction, its    *)
(* DDL included, takes effect as a whole at its COMMIT; whoever creates    *)
(* what an open transaction has created waits for that transaction and     *)
(* fails if it commits.  That is so of a table, and of a row of            *)
(* schema_migrations, whose version is the primary key.                    *)
(***************************************************************************)
EXTENDS Naturals, FiniteSets

CONSTANTS
    Process,        \* setups
    Files,          \* number of migrations there have ever been
    Creating,       \* the migrations that create something, and so clash with
                    \* another run of the same migration
    MaxFaults       \* bound: calls that fail and processes that stop

ASSUME SetupAssumption ==
    /\ Files \in Nat
    /\ Creating \subseteq 1 .. Files
    /\ MaxFaults \in Nat

VARIABLES
    table,      \* whether schema_migrations exists
    recorded,   \* the versions in it
    effects,    \* effects[v]: how often migration v has taken effect
    seeded,     \* the parts of the demo data that are there
    setup,      \* setup[p]: where process p is
    release,    \* release[p]: how many migrations p has
    file,       \* file[p]: the migration p is at
    faults      \* faults so far

vars == <<table, recorded, effects, seeded, setup, release, file, faults>>

database == <<table, recorded, effects, seeded>>

Version == 1 .. Files

(* The transactions that have run migration v and not ended, and those that
   have recorded it as well. *)
Running(v) ==
    {p \in Process : setup[p] \in {"executed", "inserted"} /\ file[p] = v}

Recording(v) == {p \in Running(v) : setup[p] = "inserted"}

Goto(p, step) == setup' = [setup EXCEPT ![p] = step]

-----------------------------------------------------------------------------

(* The database may have been set up by an earlier release. *)
Init ==
    /\ \E n \in 0 .. Files :
          /\ recorded = 1 .. n
          /\ effects = [v \in Version |-> IF v <= n THEN 1 ELSE 0]
          /\ table = (n > 0)
    /\ seeded = {}
    /\ setup = [p \in Process |-> "idle"]
    /\ release \in [Process -> 0 .. Files]
    /\ file = [p \in Process |-> 1]
    /\ faults = 0

(* CREATE TABLE IF NOT EXISTS schema_migrations looks for the table first and
   fails if another setup has created it between that and its own creation. *)
LookForTable(p) ==
    /\ setup[p] = "idle"
    /\ Goto(p, IF table THEN "checking" ELSE "creating")
    /\ UNCHANGED <<database, release, file, faults>>

CreateTable(p) ==
    /\ setup[p] = "creating"
    /\ table' = TRUE
    /\ Goto(p, IF table THEN "failed" ELSE "checking")
    /\ UNCHANGED <<recorded, effects, seeded, release, file, faults>>

(* Mutant of CheckVersion: it does not look what has been recorded. *)
CheckNothing(p) ==
    /\ setup[p] = "checking"
    /\ Goto(p, IF file[p] > release[p] THEN "migrated" ELSE "begun")
    /\ UNCHANGED <<database, release, file, faults>>

(* The loop over the files: one that is recorded is passed over, for another
   one a transaction begins; after the last one comes the seed. *)
CheckVersion(p) ==
    /\ setup[p] = "checking"
    /\ \/ /\ file[p] > release[p]
          /\ Goto(p, "migrated")
          /\ UNCHANGED file
       \/ /\ file[p] <= release[p]
          /\ file[p] \in recorded
          /\ file' = [file EXCEPT ![p] = @ + 1]
          /\ UNCHANGED setup
       \/ /\ file[p] <= release[p]
          /\ file[p] \notin recorded
          /\ Goto(p, "begun")
          /\ UNCHANGED file
    /\ UNCHANGED <<database, release, faults>>

(* The migration runs.  What it creates must not be there. *)
ExecuteMigration(p) ==
    LET v == file[p]
    IN  /\ setup[p] = "begun"
        /\ v \in Creating => Running(v) = {}
        /\ Goto(p, IF v \in Creating /\ effects[v] > 0 THEN "failed"
                                                       ELSE "executed")
        /\ UNCHANGED <<database, release, file, faults>>

(* Mutants of InsertVersion: the version is no key; a setup that finds it there
   tries again. *)
InsertNoKey(p) ==
    /\ setup[p] = "executed"
    /\ Goto(p, "inserted")
    /\ UNCHANGED <<database, release, file, faults>>

InsertAgain(p) ==
    /\ setup[p] = "executed"
    /\ Recording(file[p]) = {}
    /\ file[p] \notin recorded
    /\ Goto(p, "inserted")
    /\ UNCHANGED <<database, release, file, faults>>

(* The version is inserted.  It must not be there. *)
InsertVersion(p) ==
    LET v == file[p]
    IN  /\ setup[p] = "executed"
        /\ Recording(v) = {}
        /\ Goto(p, IF v \in recorded THEN "failed" ELSE "inserted")
        /\ UNCHANGED <<database, release, file, faults>>

(* What the transaction did takes effect. *)
TakeEffect(v) ==
    /\ recorded' = recorded \cup {v}
    /\ effects' = [effects EXCEPT ![v] = @ + 1]

(* Mutant of CommitMigration: the next file is passed over. *)
CommitAndSkip(p) ==
    /\ setup[p] = "inserted"
    /\ TakeEffect(file[p])
    /\ Goto(p, "checking")
    /\ file' = [file EXCEPT ![p] = @ + 2]
    /\ UNCHANGED <<table, seeded, release, faults>>

CommitMigration(p) ==
    /\ setup[p] = "inserted"
    /\ TakeEffect(file[p])
    /\ Goto(p, "checking")
    /\ file' = [file EXCEPT ![p] = @ + 1]
    /\ UNCHANGED <<table, seeded, release, faults>>

(* Seed: the user first, then the monitors, each in a statement of its own
   that updates what is there. *)
SeedUser(p) ==
    /\ setup[p] = "migrated"
    /\ seeded' = seeded \cup {"user"}
    /\ Goto(p, "user seeded")
    /\ UNCHANGED <<table, recorded, effects, release, file, faults>>

SeedMonitors(p) ==
    /\ setup[p] = "user seeded"
    /\ seeded' = seeded \cup {"monitors"}
    /\ Goto(p, "done")
    /\ UNCHANGED <<table, recorded, effects, release, file, faults>>

(* Mutant of Fail: the loop goes on with the next file. *)
SkipFile(p) ==
    /\ setup[p] \in {"begun", "executed", "inserted"}
    /\ faults < MaxFaults
    /\ faults' = faults + 1
    /\ Goto(p, "checking")
    /\ file' = [file EXCEPT ![p] = @ + 1]
    /\ UNCHANGED <<database, release>>

(* A call fails, the context is cancelled or the process stops; an open
   transaction is rolled back.  If the call was the COMMIT, the transaction
   may have taken effect all the same. *)
Fail(p) ==
    /\ setup[p] \notin {"done", "failed"}
    /\ faults < MaxFaults
    /\ faults' = faults + 1
    /\ Goto(p, "failed")
    /\ \/ UNCHANGED <<recorded, effects>>
       \/ setup[p] = "inserted" /\ TakeEffect(file[p])
    /\ UNCHANGED <<table, seeded, release, file>>

-----------------------------------------------------------------------------

Migrate(p) ==
    \/ LookForTable(p)
    \/ CreateTable(p)
    \/ CheckVersion(p)
    \/ ExecuteMigration(p)
    \/ InsertVersion(p)
    \/ CommitMigration(p)

Seed(p) == SeedUser(p) \/ SeedMonitors(p)

Next == \E p \in Process : Migrate(p) \/ Seed(p) \/ Fail(p)

Spec == Init /\ [][Next]_vars

(* A setup that has begun goes on. *)
FairSpec ==
    /\ Spec
    /\ \A p \in Process : WF_vars(setup[p] # "idle" /\ (Migrate(p) \/ Seed(p)))

-----------------------------------------------------------------------------

(* Every variable has its type. *)
TypeOK ==
    /\ table \in BOOLEAN
    /\ recorded \subseteq Version
    /\ effects \in [Version -> Nat]
    /\ seeded \subseteq {"user", "monitors"}
    /\ setup \in [Process ->
          {"idle", "creating", "checking", "begun", "executed", "inserted",
           "migrated", "user seeded", "done", "failed"}]
    /\ release \in [Process -> 0 .. Files]
    /\ file \in [Process -> 1 .. Files + 1]
    /\ faults \in 0 .. MaxFaults

(* A migration takes effect once if it is recorded and not at all otherwise,
   although setups look before their transactions begin, and fail at any point
   (Migrate: the version is inserted in the migration's transaction). *)
EffectsAreRecorded ==
    \A v \in Version : effects[v] = IF v \in recorded THEN 1 ELSE 0

(* A migration takes effect only after those before it, whichever releases are
   being set up (sort.Strings and the return at the first error). *)
InOrder ==
    \A v \in recorded : \A u \in Version : u < v => u \in recorded

(* A setup that reports success has found or made everything its release
   needs. *)
DoneIsComplete ==
    \A p \in Process :
        setup[p] = "done" =>
            /\ 1 .. release[p] \subseteq recorded
            /\ seeded = {"user", "monitors"}

(* Whatever the releases that are set up at once and wherever they fail, a
   migration takes effect exactly if it is recorded, once and after those
   before it, and a setup reports success only when all its release needs is
   there (Migrate, Seed). *)
SetupIsSound == EffectsAreRecorded /\ InOrder /\ DoneIsComplete

Ended(p) == setup[p] \in {"done", "failed"}

(* Setups may make one another fail, but not all of them: unless a call failed,
   one succeeds. *)
OneSucceeds ==
    /\ Process # {}
    /\ \A p \in Process : Ended(p)
    /\ faults = 0
    => \E p \in Process : setup[p] = "done"

(* One transaction at a time records a version, and only one that is not
   recorded yet. *)
OneRecorder ==
    \A p \in Process :
        setup[p] = "inserted" =>
            /\ file[p] \notin recorded
            /\ \A q \in Process :
                  setup[q] = "inserted" /\ file[q] = file[p] => q = p

(* Where a setup is says what it has found or made. *)
ProgressIsReal ==
    \A p \in Process :
        /\ \A v \in Version : v < file[p] => v \in recorded
        /\ setup[p] \in {"begun", "executed", "inserted"} =>
              file[p] <= release[p]
        /\ setup[p] \in {"migrated", "user seeded", "done"} =>
              release[p] < file[p]
        /\ setup[p] \in {"user seeded", "done"} => "user" \in seeded
        /\ setup[p] = "done" => "monitors" \in seeded

(* The inductive invariant. *)
IInv == EffectsAreRecorded /\ InOrder /\ OneRecorder /\ ProgressIsReal

(* What a setup looked for has been made by another one: it fails, or has. *)
Behind(p) ==
    \/ setup[p] = "creating" /\ table
    \/ setup[p] \in {"begun", "executed"} /\ file[p] \in recorded
    \/ setup[p] = "failed"

(* Whatever is recorded, this setup is past it. *)
Ahead(p) ==
    /\ setup[p] \notin {"idle", "creating", "failed"}
    /\ \A v \in recorded : v < file[p]

(* Unless a call failed, whoever is behind is behind one that is ahead. *)
OneIsAhead ==
    faults = 0 /\ (\E p \in Process : Behind(p)) =>
        \E p \in Process : Ahead(p)

(* Nothing is recorded before there is a table. *)
TableFirst ==
    ~ table =>
        /\ recorded = {}
        /\ \A p \in Process : setup[p] \in {"idle", "creating", "failed"}

(* What the success of one rests on. *)
AheadInv == OneIsAhead /\ TableFirst

(* A setup that has begun ends, although setups wait for one another's
   transactions. *)
SetupEnds == \A p \in Process : setup[p] # "idle" ~> Ended(p)

=============================================================================
