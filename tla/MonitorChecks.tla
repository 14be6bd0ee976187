---------------------------- MODULE MonitorChecks ----------------------------
(***************************************************************************)
(* Checks of monitors as the workers carry them out, statement by          *)
(* statement (CheckMonitor in internal/jobs/jobs.go, InsertCheckEvent and  *)
(* syncIncidentForCheck in internal/db/store.go), next to the operators'   *)
(* mutations and the pruning of old events.                                *)
(*                                                                         *)
(* PostgreSQL runs the transactions at its default level, READ COMMITTED:  *)
(* a statement sees what is committed when it starts, a transaction's own  *)
(* writes become visible at COMMIT, and a statement that meets a row       *)
(* another transaction is writing waits for that transaction to end.  So   *)
(* the committed tables are variables, what a transaction has written is   *)
(* kept in `check' until it commits, and the waits are guards.  The        *)
(* mutations are single statements and hence atomic.                       *)
(*                                                                         *)
(* A transaction's now() is the time it began; `now' counts the            *)
(* transactions begun, and BEGIN is taken together with the INSERT that    *)
(* follows, the first statement that others can notice.                    *)
(***************************************************************************)
EXTENDS Naturals, FiniteSets

CONSTANTS
    Monitor, Incident, NoMonitor,   \* as in MonitorHealth
    Worker,                         \* goroutines of the job server
    MaxChecks                       \* bound: transactions begun

ASSUME CheckAssumption ==
    /\ NoMonitor \notin Monitor
    /\ MaxChecks \in Nat

VARIABLES
    lastStatus, incidents, waived,  \* as in MonitorHealth
    lastCheckedAt,  \* monitors.last_checked_at, 0 for NULL
    events,         \* the check_events table
    now,            \* the clock: transactions begun so far
    check           \* check[w]: what worker w is doing

vars == <<lastStatus, incidents, waived, lastCheckedAt, events, now, check>>

(* The refinement mapping: the committed tables are those of MonitorHealth,
   and what a transaction has yet to commit is not seen there. *)
Health == INSTANCE MonitorHealth
             WITH lastStatus <- lastStatus, incidents <- incidents,
                  waived <- waived

Result == {"up", "down"}

(* How a check of a URL ends, and the status each ending is recorded as. *)
Outcome == {"blocked", "invalid", "failed", "expected", "unexpected"}

(* Mutant of StatusOf: the ending itself, which the tables do not know. *)
RawStatus(o) == o

StatusOf(o) == IF o = "expected" THEN "up" ELSE "down"

Idle == [pc |-> "idle", monitor |-> NoMonitor, status |-> "down", at |-> 0,
         wrote |-> "nothing"]

(* The statements a transaction has completed, in order; all of them write. *)
InTransaction(w) == check[w].pc \in {"inserted", "updated", "synced"}

(* The foreign key of the INSERT holds a key-share lock on the monitor's row
   until the end: the monitor cannot be deleted. *)
SharesRow(w, m) == InTransaction(w) /\ check[w].monitor = m

(* From its UPDATE on a transaction owns the monitor's row. *)
HoldsRow(w, m) == check[w].pc \in {"updated", "synced"} /\ check[w].monitor = m

(* Worker w has incident changes of the kinds in K on m yet to commit. *)
Wrote(w, m, K) ==
    check[w].pc = "synced" /\ check[w].monitor = m /\ check[w].wrote \in K

-----------------------------------------------------------------------------

Init ==
    /\ Health!Init
    /\ lastCheckedAt = [m \in Monitor |-> 0]
    /\ events = {}
    /\ now = 0
    /\ check = [w \in Worker |-> Idle]

(* The bound: a check begins only if its transaction may begin too, and an
   operator leaves enough identifiers for the incidents those checks open. *)
Fetched == {w \in Worker : check[w].pc = "fetched"}

MayBeginCheck == now + Cardinality(Fetched) < MaxChecks

ChecksLeft == MaxChecks - now + Cardinality({w \in Worker : InTransaction(w)})

MayOpenIncident == Cardinality(Health!Unused) > ChecksLeft

(* CheckMonitor reads the monitor. If it is gone the job fails here. *)
BeginCheck(w, m) ==
    /\ MayBeginCheck
    /\ check[w].pc = "idle"
    /\ Health!Live(m)
    /\ check' = [check EXCEPT ![w].pc = "fetched", ![w].monitor = m]
    /\ UNCHANGED <<lastStatus, incidents, waived, lastCheckedAt, events, now>>

(* The request has ended in some way; the transaction begins and inserts the
   check event, which fails if the monitor has been deleted meanwhile. *)
InsertEvent(w) ==
    /\ check[w].pc = "fetched"
    /\ now' = now + 1
    /\ \/ /\ Health!Live(check[w].monitor)
          /\ \E o \in Outcome :
                check' = [check EXCEPT ![w] =
                    [pc |-> "inserted", monitor |-> check[w].monitor,
                     status |-> StatusOf(o), at |-> now', wrote |-> "nothing"]]
       \/ /\ ~ Health!Live(check[w].monitor)
          /\ check' = [check EXCEPT ![w] = Idle]
    /\ UNCHANGED <<lastStatus, incidents, waived, lastCheckedAt, events>>

(* Mutants of UpdateMonitor: it comes without a lock; it needs the row for
   itself, against those who share it as well. *)
UpdateUnlocked(w) ==
    /\ check[w].pc = "inserted"
    /\ check' = [check EXCEPT ![w].pc = "updated"]
    /\ UNCHANGED <<lastStatus, incidents, waived, lastCheckedAt, events, now>>

UpdateExclusive(w) ==
    /\ check[w].pc = "inserted"
    /\ \A v \in Worker \ {w} : ~ SharesRow(v, check[w].monitor)
    /\ check' = [check EXCEPT ![w].pc = "updated"]
    /\ UNCHANGED <<lastStatus, incidents, waived, lastCheckedAt, events, now>>

(* UPDATE monitors, which waits for the owner of the row. *)
UpdateMonitor(w) ==
    /\ check[w].pc = "inserted"
    /\ \A v \in Worker \ {w} : ~ HoldsRow(v, check[w].monitor)
    /\ check' = [check EXCEPT ![w].pc = "updated"]
    /\ UNCHANGED <<lastStatus, incidents, waived, lastCheckedAt, events, now>>

(* Mutant of InsertOnConflict: an INSERT that always goes through. *)
InsertAlways(w, m) ==
    /\ \A v \in Worker \ {w} : ~ Wrote(v, m, {"open", "resolve"})
    /\ check' = [check EXCEPT ![w].pc = "synced", ![w].wrote = "open"]

(* A failing check inserts an incident ON CONFLICT DO NOTHING, and waits for
   whoever is inserting or resolving one on the same monitor. *)
InsertOnConflict(w, m) ==
    /\ \A v \in Worker \ {w} : ~ Wrote(v, m, {"open", "resolve"})
    /\ check' = [check EXCEPT ![w].pc = "synced",
                    ![w].wrote = IF Health!OpenOn(m) = {} THEN "open"
                                                          ELSE "nothing"]

(* A passing check resolves the open incidents it sees. *)
ResolveOpen(w, m) ==
    /\ \A v \in Worker \ {w} : ~ Wrote(v, m, {"resolve"})
    /\ check' = [check EXCEPT ![w].pc = "synced",
                    ![w].wrote = IF Health!OpenOn(m) = {} THEN "nothing"
                                                          ELSE "resolve"]

SyncIncident(w) ==
    /\ check[w].pc = "updated"
    /\ \/ check[w].status = "down" /\ InsertOnConflict(w, check[w].monitor)
       \/ check[w].status = "up" /\ ResolveOpen(w, check[w].monitor)
    /\ UNCHANGED <<lastStatus, incidents, waived, lastCheckedAt, events, now>>

(* What the transaction's last statement did to the incidents becomes
   visible. *)
CommitIncidents(w, m) ==
    \/ /\ check[w].wrote = "open"
       /\ \E i \in Health!Unused :
             incidents' = [incidents EXCEPT ![i] = Health!OpenRow(m, "check")]
    \/ /\ check[w].wrote = "resolve"
       /\ incidents' = Health!Resolve(Health!OpenOn(m))
    \/ /\ check[w].wrote = "nothing"
       /\ UNCHANGED incidents

(* Mutant of CommitMonitor: the time of the commit instead of now(). *)
CommitMonitorLate(w, m) ==
    /\ lastStatus' = [lastStatus EXCEPT ![m] = check[w].status]
    /\ lastCheckedAt' = [lastCheckedAt EXCEPT ![m] = now]

CommitMonitor(w, m) ==
    /\ lastStatus' = [lastStatus EXCEPT ![m] = check[w].status]
    /\ lastCheckedAt' = [lastCheckedAt EXCEPT ![m] = check[w].at]

CommitEvent(w, m) ==
    events' = events \cup
        {[monitor |-> m, status |-> check[w].status, at |-> check[w].at]}

Commit(w) ==
    LET m == check[w].monitor
    IN  /\ check[w].pc = "synced"
        /\ CommitEvent(w, m)
        /\ CommitMonitor(w, m)
        /\ CommitIncidents(w, m)
        /\ waived' = IF \/ check[w].status = "up"
                        \/ check[w].wrote = "open"
                        \/ Health!OpenOn(m) # {}
                     THEN waived \ {m}
                     ELSE waived
        /\ check' = [check EXCEPT ![w] = Idle]
        /\ UNCHANGED now

(* A statement fails, the context is cancelled or the worker dies: whatever
   the transaction wrote is rolled back. *)
Abort(w) ==
    /\ check[w].pc # "idle"
    /\ check' = [check EXCEPT ![w] = Idle]
    /\ UNCHANGED <<lastStatus, incidents, waived, lastCheckedAt, events, now>>

-----------------------------------------------------------------------------

CreateMonitor(m) ==
    /\ Health!CreateMonitor(m)
    /\ UNCHANGED <<lastCheckedAt, events, now, check>>

(* Mutant of DeleteMonitor: the events stay. *)
DeleteMonitorOnly(m) ==
    /\ \A w \in Worker : ~ SharesRow(w, m)
    /\ Health!DeleteMonitor(m)
    /\ lastCheckedAt' = [lastCheckedAt EXCEPT ![m] = 0]
    /\ UNCHANGED <<events, now, check>>

(* The DELETE waits for the transactions that share the row, and takes the
   monitor's events with it (ON DELETE CASCADE). *)
DeleteMonitor(m) ==
    /\ \A w \in Worker : ~ SharesRow(w, m)
    /\ Health!DeleteMonitor(m)
    /\ lastCheckedAt' = [lastCheckedAt EXCEPT ![m] = 0]
    /\ events' = {e \in events : e.monitor # m}
    /\ UNCHANGED <<now, check>>

(* The unique index makes the INSERT wait for a transaction that inserts or
   resolves an incident on m.  If one is open afterwards it fails. *)
OpenIncident(m) ==
    /\ MayOpenIncident
    /\ \A w \in Worker : ~ Wrote(w, m, {"open", "resolve"})
    /\ Health!OpenIncident(m)
    /\ UNCHANGED <<lastCheckedAt, events, now, check>>

(* The UPDATE waits for a transaction that is resolving the same incident. *)
ResolveIncident(i) ==
    /\ Health!Open(i) =>
          \A w \in Worker : ~ Wrote(w, incidents[i].monitor, {"resolve"})
    /\ Health!ResolveIncident(i)
    /\ UNCHANGED <<lastCheckedAt, events, now, check>>

(* Events older than a cutoff go.  The cutoff is 14 days ago, so it is never
   later than a transaction still in progress. *)
PruneEvents(t) ==
    /\ \A w \in Worker : InTransaction(w) => t <= check[w].at
    /\ events' = {e \in events : e.at >= t}
    /\ UNCHANGED <<lastStatus, incidents, waived, lastCheckedAt, now, check>>

-----------------------------------------------------------------------------

Progress(w) ==
    \/ InsertEvent(w)
    \/ UpdateMonitor(w)
    \/ SyncIncident(w)
    \/ Commit(w)

Check(w) ==
    \/ \E m \in Monitor : BeginCheck(w, m)
    \/ Progress(w)
    \/ Abort(w)

Operate ==
    \/ \E m \in Monitor : CreateMonitor(m) \/ DeleteMonitor(m)
    \/ \E m \in Monitor \cup {NoMonitor} : OpenIncident(m)
    \/ \E i \in Incident : ResolveIncident(i)

Next ==
    \/ \E w \in Worker : Check(w)
    \/ Operate
    \/ \E t \in 1 .. now : PruneEvents(t)

Spec == Init /\ [][Next]_vars

(* A check goes on until it ends: the request has a timeout and a statement
   that need not wait returns. Nobody has to start a check or to operate. *)
FairSpec == Spec /\ \A w \in Worker : WF_vars(Progress(w))

-----------------------------------------------------------------------------

Event == [monitor : Monitor, status : Result, at : Nat]

Activity ==
    [pc : {"idle", "fetched", "inserted", "updated", "synced"},
     monitor : Monitor \cup {NoMonitor}, status : Result, at : Nat,
     wrote : {"nothing", "open", "resolve"}]

(* Every variable has its type. *)
TypeOK ==
    /\ Health!TypeOK
    /\ lastCheckedAt \in [Monitor -> Nat]
    /\ events \subseteq Event
    /\ now \in Nat
    /\ check \in [Worker -> Activity]
    /\ \A w \in Worker : check[w].pc # "idle" => check[w].monitor \in Monitor

(* The summary in a monitor's row, its status and the time of the last check,
   is that of one of the check events of the monitor, unless pruning has
   removed that event, and then only newer events are left: InsertCheckEvent
   writes the two together or not at all, whatever else happens in between. *)
SummaryIsOneCheck ==
    \A m \in Monitor :
        LET summary == [monitor |-> m, status |-> lastStatus[m],
                        at |-> lastCheckedAt[m]]
        IN  lastStatus[m] \in Result =>
               \/ summary \in events
               \/ \A e \in events : e.monitor = m => e.at > lastCheckedAt[m]

(* What MonitorHealth promises of monitors and incidents holds of the committed
   tables at any time, whichever transactions are under way: at most one open
   incident per monitor, none that a check opened on a monitor that is up, one
   for every monitor that is down unless an operator resolved it, and no link
   to a monitor that is gone (InsertCheckEvent, syncIncidentForCheck and the
   mutations that overtake them). *)
HealthInv == Health!Inv

(* A check event belongs to a monitor that exists (the foreign key, ON DELETE
   CASCADE), although its check began when the monitor was still there. *)
EventsHaveMonitor == \A e \in events : Health!Live(e.monitor)

(* One transaction at a time writes a monitor and its incidents. *)
RowLock ==
    \A v, w \in Worker :
        \A m \in Monitor : HoldsRow(v, m) /\ HoldsRow(w, m) => v = w

(* The monitor of a transaction exists. *)
MonitorIsHeld ==
    \A w \in Worker : InTransaction(w) => Health!Live(check[w].monitor)

(* What a transaction did to the incidents is still right for what is
   committed when it commits. *)
SyncStillValid ==
    \A w \in Worker :
        check[w].pc = "synced" =>
            LET m    == check[w].monitor
                open == Health!OpenOn(m)
            IN  /\ check[w].wrote = "open" =>
                      check[w].status = "down" /\ open = {}
                /\ check[w].wrote = "resolve" =>
                      check[w].status = "up" /\ open # {}
                /\ check[w].wrote = "nothing" /\ check[w].status = "down" =>
                      open # {} \/ m \in waived
                /\ check[w].wrote = "nothing" /\ check[w].status = "up" =>
                      \A i \in open : incidents[i].by = "operator"

(* The inductive invariant: between its statements a transaction keeps what
   its commit relies on. *)
IInv == RowLock /\ MonitorIsHeld /\ SyncStillValid

(* Every check in progress ends, although transactions wait for one another:
   the locks InsertCheckEvent takes cannot close a cycle. *)
ChecksEnd == \A w \in Worker : check[w].pc # "idle" ~> check[w].pc = "idle"

(* The transactions implement the atomic operations of MonitorHealth. *)
ImplementsHealth == Health!Spec

=============================================================================
