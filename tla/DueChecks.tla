------------------------------ MODULE DueChecks ------------------------------
(***************************************************************************)
(* Who gets checked: the schedulers, one in each worker process, list the  *)
(* monitors that are due at every tick and enqueue a check of each, the    *)
(* operators enqueue further ones, and the workers carry them out          *)
(* (scheduleDueMonitorChecks and enqueueDueMonitorChecks in                *)
(* internal/jobs/jobs.go, DueMonitors in internal/db/store.go).            *)
(*                                                                         *)
(* A tick lists only so many monitors, the longest unchecked first, and    *)
(* nothing keeps it from listing one whose check is already queued or      *)
(* running.  Times are abstracted to the order of the last checks and to   *)
(* whether a monitor's interval is over.  A check is recorded in one step, *)
(* and the row and the attempts of its job are left out: MonitorChecks and *)
(* JobRuns have them.                                                      *)
(*                                                                         *)
(* The formulas of the specification bear the name of the component, so    *)
(* that a module may extend another one too.                               *)
(***************************************************************************)
EXTENDS Naturals, FiniteSets, Sequences, SequencesExt

CONSTANTS
    Monitor,        \* identifiers monitors may get
    Scheduler,      \* worker processes
    Worker,         \* goroutines of the job servers
    Limit,          \* monitors a tick lists: 10
    MaxBacklog,     \* bound: outstanding checks beyond which no scheduler
                    \* ticks and no operator asks
    MaxRequests,    \* bound: checks that operators enqueue
    MaxFaults       \* bound: calls that fail

ASSUME DueAssumption ==
    /\ Limit \in Nat \ {0}
    /\ {MaxBacklog, MaxRequests, MaxFaults} \subseteq Nat

VARIABLES
    status,     \* whether a monitor exists and is enabled
    rotation,   \* the enabled monitors, the longest unchecked first
    due,        \* those of them whose interval is over or that are new
    batch,      \* batch[s]: what s has listed and not yet enqueued
    queue,      \* the pending check tasks in asynq, first in, first out
    checking,   \* checking[w]: the check w carries out, if any
    requests,   \* checks operators have enqueued so far
    faults      \* faults so far

scheduleVars ==
    <<status, rotation, due, batch, queue, checking, requests, faults>>

Exists(m) == status[m] \in {"enabled", "disabled"}

Fault ==
    /\ faults < MaxFaults
    /\ faults' = faults + 1

(* The checks that are listed or pending. *)
Outstanding == FoldFunction(LAMBDA b, n : n + Len(b), Len(queue), batch)

(* The last check of m is longer ago than that of n. *)
Before(m, n) ==
    \E i, j \in DOMAIN rotation :
       i < j /\ rotation[i] = m /\ rotation[j] = n

(* The others in their order. *)
Without(m) ==
    IF m \in ToSet(rotation)
    THEN RemoveAt(rotation, CHOOSE i \in DOMAIN rotation : rotation[i] = m)
    ELSE rotation

(* DueMonitors: the due ones in the order of their last checks, up to Limit,
   and none that is left out comes before one that is listed. *)
DueMonitors ==
    {listed \in UNION {[1 .. n -> due] : n \in 0 .. Limit} :
       /\ \A i, j \in DOMAIN listed : i < j => Before(listed[i], listed[j])
       /\ \A m \in due \ ToSet(listed) :
             /\ Len(listed) = Limit
             /\ \A i \in DOMAIN listed : Before(listed[i], m)}

-----------------------------------------------------------------------------

ScheduleInit ==
    /\ status = [m \in Monitor |-> "unused"]
    /\ rotation = <<>>
    /\ due = {}
    /\ batch = [s \in Scheduler |-> <<>>]
    /\ queue = <<>>
    /\ checking = [w \in Worker |-> {}]
    /\ requests = 0
    /\ faults = 0

(* A new monitor has never been checked: it is due and comes before those that
   have.  The query leaves the order among such monitors open; here it is fixed
   when they are created. *)
CreateMonitor(m) ==
    /\ status[m] = "unused"
    /\ \/ /\ status' = [status EXCEPT ![m] = "enabled"]
          /\ rotation' = InsertAt(rotation, 1, m)
          /\ due' = due \cup {m}
       \/ /\ status' = [status EXCEPT ![m] = "disabled"]
          /\ UNCHANGED <<rotation, due>>
    /\ UNCHANGED <<batch, queue, checking, requests, faults>>

DeleteMonitor(m) ==
    /\ Exists(m)
    /\ status' = [status EXCEPT ![m] = "deleted"]
    /\ rotation' = Without(m)
    /\ due' = due \ {m}
    /\ UNCHANGED <<batch, queue, checking, requests, faults>>

(* Seeding the demo data enables a demo monitor that had been created disabled;
   operators may have had it checked at any time, or never. *)
Seed(m) ==
    /\ status[m] = "disabled"
    /\ status' = [status EXCEPT ![m] = "enabled"]
    /\ \E i \in 1 .. Len(rotation) + 1 : rotation' = InsertAt(rotation, i, m)
    /\ due' \in {due, due \cup {m}}
    /\ UNCHANGED <<batch, queue, checking, requests, faults>>

(* The interval since the last check of m is over. *)
Elapse(m) ==
    /\ status[m] = "enabled"
    /\ m \notin due
    /\ due' = due \cup {m}
    /\ UNCHANGED <<status, rotation, batch, queue, checking, requests, faults>>

(* Mutant of Fire: the query has no ORDER BY. *)
FireAnyOrder(s) ==
    /\ batch[s] = <<>>
    /\ Outstanding <= MaxBacklog
    /\ \E m \in due : batch' = [batch EXCEPT ![s] = <<m>>]
    /\ UNCHANGED <<status, rotation, due, queue, checking, requests, faults>>

(* The ticker fires, or has fired once during the last batch. *)
Fire(s) ==
    /\ batch[s] = <<>>
    /\ Outstanding <= MaxBacklog
    /\ \E listed \in DueMonitors : batch' = [batch EXCEPT ![s] = listed]
    /\ UNCHANGED <<status, rotation, due, queue, checking, requests, faults>>

EnqueueNext(s) ==
    /\ batch[s] # <<>>
    /\ queue' = Append(queue, Head(batch[s]))
    /\ batch' = [batch EXCEPT ![s] = Tail(@)]
    /\ UNCHANGED <<status, rotation, due, checking, requests, faults>>

(* Enqueue returns an error, whether or not the task got stored, and the rest
   of the batch is given up. *)
EnqueueFails(s) ==
    /\ batch[s] # <<>>
    /\ Fault
    /\ queue' \in {queue, Append(queue, Head(batch[s]))}
    /\ batch' = [batch EXCEPT ![s] = <<>>]
    /\ UNCHANGED <<status, rotation, due, checking, requests>>

(* An operator enqueues a check of a monitor, which may be disabled. *)
EnqueueCheck(m) ==
    /\ Exists(m)
    /\ requests < MaxRequests
    /\ Outstanding <= MaxBacklog
    /\ requests' = requests + 1
    /\ queue' = Append(queue, m)
    /\ UNCHANGED <<status, rotation, due, batch, checking, faults>>

Dequeue(w) ==
    /\ checking[w] = {}
    /\ queue # <<>>
    /\ checking' = [checking EXCEPT ![w] = {Head(queue)}]
    /\ queue' = Tail(queue)
    /\ UNCHANGED <<status, rotation, due, batch, requests, faults>>

(* Mutant of Record: the result brings a deleted monitor back. *)
RecordAnyway(w, m) ==
    /\ m \in checking[w]
    /\ checking' = [checking EXCEPT ![w] = {}]
    /\ rotation' = Append(Without(m), m)
    /\ due' = due \ {m}
    /\ UNCHANGED <<status, batch, queue, requests, faults>>

(* The check is recorded in the monitor's row.  If there is none any more the
   job fails, and so do its later attempts. *)
Record(w, m) ==
    /\ m \in checking[w]
    /\ checking' = [checking EXCEPT ![w] = {}]
    /\ rotation' = IF status[m] = "enabled" THEN Append(Without(m), m)
                                            ELSE rotation
    /\ due' = due \ {m}
    /\ UNCHANGED <<status, batch, queue, requests, faults>>

(* The check fails before it is recorded, or its worker stops; asynq tries the
   task again or has used up its attempts. *)
CheckFails(w, m) ==
    /\ m \in checking[w]
    /\ Fault
    /\ checking' = [checking EXCEPT ![w] = {}]
    /\ queue' \in {queue, Append(queue, m)}
    /\ UNCHANGED <<status, rotation, due, batch, requests>>

-----------------------------------------------------------------------------

Schedule(s) == Fire(s) \/ EnqueueNext(s) \/ EnqueueFails(s)

Work(w) ==
    \/ Dequeue(w)
    \/ \E m \in Monitor : Record(w, m) \/ CheckFails(w, m)

ScheduleNext ==
    \/ \E m \in Monitor :
          \/ CreateMonitor(m) \/ DeleteMonitor(m) \/ Seed(m)
          \/ Elapse(m) \/ EnqueueCheck(m)
    \/ \E s \in Scheduler : Schedule(s)
    \/ \E w \in Worker : Work(w)

ScheduleSpec == ScheduleInit /\ [][ScheduleNext]_scheduleVars

(* Tickers tick and workers work.  That there is room for a tick again and
   again is the bound's doing, hence the strong fairness. *)
FairSchedule ==
    /\ ScheduleSpec
    /\ \A s \in Scheduler : SF_scheduleVars(Schedule(s))
    /\ \A w \in Worker : WF_scheduleVars(Work(w))

-----------------------------------------------------------------------------

(* Every variable has its type, and the rotation has the enabled monitors,
   each once. *)
ScheduleTypeOK ==
    /\ status \in [Monitor -> {"unused", "enabled", "disabled", "deleted"}]
    /\ rotation \in Seq(Monitor)
    /\ IsInjective(rotation)
    /\ ToSet(rotation) = {m \in Monitor : status[m] = "enabled"}
    /\ due \subseteq ToSet(rotation)
    /\ batch \in [Scheduler -> Seq(Monitor)]
    /\ \A s \in Scheduler : Len(batch[s]) <= Limit
    /\ queue \in Seq(Monitor)
    /\ checking \in [Worker -> SUBSET Monitor]
    /\ \A w \in Worker : Cardinality(checking[w]) <= 1
    /\ requests \in 0 .. MaxRequests
    /\ faults \in 0 .. MaxFaults

(* A due monitor keeps its turn: whichever was checked after it, or never and
   comes behind it, stays behind until it has been checked itself (the order of
   DueMonitors, InsertCheckEvent). *)
TurnsAreKept ==
    [][\A m, n \in Monitor :
          m \in due \cap due' /\ Before(m, n) => ~ Before(n, m)']_scheduleVars

(* Every due monitor is checked in the end, or deleted, although a tick lists
   only Limit monitors, lists some again whose check is still queued, and gives
   up a batch at the first error (DueMonitors, enqueueDueMonitorChecks). *)
NoStarvation == \A m \in Monitor : m \in due ~> m \notin due

=============================================================================
