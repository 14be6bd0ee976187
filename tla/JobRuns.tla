------------------------------- MODULE JobRuns -------------------------------
(***************************************************************************)
(* Background jobs, each with a row in job_runs that tells the console how *)
(* it is getting on (Enqueue and perform in internal/jobs/jobs.go).        *)
(*                                                                         *)
(* A job is written in two places that no transaction covers: its row in   *)
(* PostgreSQL and its task in the asynq queue in Redis.  The enqueuer      *)
(* writes the row, then the task; a worker takes the task and rewrites the *)
(* row around the work.  Either may stop between any two of its steps, and *)
(* any call may report an error, with or without its effect.               *)
(*                                                                         *)
(* asynq is external.  What the code relies on: a task is handed to one    *)
(* worker at a time, a task whose handler returns nil is done, a task      *)
(* whose handler returns an error or whose lease runs out is tried again   *)
(* until its attempts are used up and is then archived, and a task whose   *)
(* worker shuts down goes back to the queue.  The delay before a retry is  *)
(* left out.  The queue is assumed to keep its tasks: a Redis that evicts  *)
(* keys or restarts without its data loses them, with their rows left as   *)
(* they are.                                                               *)
(***************************************************************************)
EXTENDS Naturals

CONSTANTS
    Job,            \* job runs, one for each call of Enqueue
    Worker,         \* goroutines of the job server
    MaxAttempts,    \* asynq's limit on the attempts of a task
    MaxFaults       \* bound: calls that fail and processes that stop

ASSUME JobAssumption ==
    /\ MaxAttempts \in Nat \ {0}
    /\ MaxFaults \in Nat

VARIABLES
    row,        \* job_runs.status, "none" before there is a row
    caller,     \* caller[j]: how far Enqueue has come
    task,       \* the asynq task of j
    attempts,   \* attempts of j that ended in an error or an expired lease
    repeated,   \* history: jobs with an attempt whose success was recorded but
                \* not acknowledged to asynq, because its worker stopped in
                \* between or the call that recorded it reported an error
    work,       \* work[w]: the job w handles, and where it is in perform
    announced,  \* the job:<id>:<status> events published
    hit,        \* history: j's enqueuing, or its last attempt, met a fault
    faults      \* faults so far

vars == <<row, caller, task, attempts, repeated, work, announced, hit, faults>>

RowStatus == {"queued", "running", "succeeded", "failed"}

NoWork == [pc |-> "idle"]

Handles(w, j) == work[w].pc # "idle" /\ work[w].job = j

Owned(j) == \E w \in Worker : Handles(w, j)

(* Worker w, which handles j, goes on to pc. *)
Goto(w, j, pc) == work' = [work EXCEPT ![w] = [pc |-> pc, job |-> j]]

(* A call fails or a process stops. *)
Fault ==
    /\ faults < MaxFaults
    /\ faults' = faults + 1

(* It happens to the enqueuer or the worker of j, who cannot report it. *)
FaultOf(j) ==
    /\ Fault
    /\ hit' = [hit EXCEPT ![j] = TRUE]

NoFault == UNCHANGED <<hit, faults>>

-----------------------------------------------------------------------------

Init ==
    /\ row = [j \in Job |-> "none"]
    /\ caller = [j \in Job |-> "idle"]
    /\ task = [j \in Job |-> "none"]
    /\ attempts = [j \in Job |-> 0]
    /\ repeated = {}
    /\ work = [w \in Worker |-> NoWork]
    /\ announced = [j \in Job |-> {}]
    /\ hit = [j \in Job |-> FALSE]
    /\ faults = 0

(***************************************************************************)
(* Enqueue                                                                 *)
(***************************************************************************)

(* The row is inserted.  If the call reports an error, whether or not the row
   got inserted, Enqueue returns it. *)
InsertJobRun(j) ==
    /\ caller[j] = "idle"
    /\ \/ /\ row' = [row EXCEPT ![j] = "queued"]
          /\ caller' = [caller EXCEPT ![j] = "inserted"]
          /\ NoFault
       \/ /\ row' \in {row, [row EXCEPT ![j] = "queued"]}
          /\ caller' = [caller EXCEPT ![j] = "refused"]
          /\ FaultOf(j)
    /\ UNCHANGED <<task, attempts, repeated, work, announced>>

(* Mutant of EnqueueTask: the task never reaches the queue. *)
EnqueueNothing(j) ==
    /\ caller[j] = "inserted"
    /\ caller' = [caller EXCEPT ![j] = "stored"]
    /\ NoFault
    /\ UNCHANGED <<row, task, attempts, repeated, work, announced>>

EnqueueTask(j) ==
    /\ caller[j] = "inserted"
    /\ task' = [task EXCEPT ![j] = "pending"]
    /\ caller' = [caller EXCEPT ![j] = "stored"]
    /\ NoFault
    /\ UNCHANGED <<row, attempts, repeated, work, announced>>

(* EnqueueContext returns an error, whether or not the task got stored. *)
EnqueueFails(j) ==
    /\ caller[j] = "inserted"
    /\ task' \in {task, [task EXCEPT ![j] = "pending"]}
    /\ caller' = [caller EXCEPT ![j] = "rejected"]
    /\ Fault
    /\ UNCHANGED <<row, attempts, repeated, work, announced, hit>>

(* Mutants of ReportRejected: it returns at once; it also runs when only the
   event could not be published. *)
ReturnRejected(j) ==
    /\ caller[j] = "rejected"
    /\ caller' = [caller EXCEPT ![j] = "refused"]
    /\ NoFault
    /\ UNCHANGED <<row, task, attempts, repeated, work, announced>>

ReportAnyway(j) ==
    /\ caller[j] \in {"stored", "rejected"}
    /\ caller' = [caller EXCEPT ![j] = "refused"]
    /\ row' = [row EXCEPT ![j] = "failed"]
    /\ NoFault
    /\ UNCHANGED <<task, attempts, repeated, work, announced>>

(* The enqueuer marks the row failed and returns.  If the call reports an
   error, whether or not the row got marked, Enqueue ignores it. *)
ReportRejected(j) ==
    /\ caller[j] = "rejected"
    /\ caller' = [caller EXCEPT ![j] = "refused"]
    /\ \/ row' = [row EXCEPT ![j] = "failed"] /\ NoFault
       \/ row' \in {row, [row EXCEPT ![j] = "failed"]} /\ FaultOf(j)
    /\ UNCHANGED <<task, attempts, repeated, work, announced>>

AnnounceQueued(j) ==
    /\ caller[j] = "stored"
    /\ announced' = [announced EXCEPT ![j] = @ \cup {"queued"}]
    /\ caller' = [caller EXCEPT ![j] = "accepted"]
    /\ NoFault
    /\ UNCHANGED <<row, task, attempts, repeated, work>>

(* The process of the enqueuer stops. *)
CallerStops(j) ==
    /\ caller[j] \in {"inserted", "stored", "rejected"}
    /\ caller' = [caller EXCEPT ![j] = "stopped"]
    /\ FaultOf(j)
    /\ UNCHANGED <<row, task, attempts, repeated, work, announced>>

(***************************************************************************)
(* asynq and perform                                                       *)
(***************************************************************************)

Dequeue(w, j) ==
    /\ work[w].pc = "idle"
    /\ task[j] = "pending"
    /\ task' = [task EXCEPT ![j] = "active"]
    /\ hit' = [hit EXCEPT ![j] = FALSE]
    /\ Goto(w, j, "taken")
    /\ UNCHANGED <<row, caller, attempts, repeated, announced, faults>>

(* Mutant of MarkJobRunning: its error is ignored. *)
MarkJobRunningOrNot(w, j) ==
    /\ work[w].pc = "taken"
    /\ \/ row' = [row EXCEPT ![j] = "running"] /\ NoFault
       \/ row' \in {row, [row EXCEPT ![j] = "running"]} /\ FaultOf(j)
    /\ Goto(w, j, "marked")
    /\ UNCHANGED <<caller, task, attempts, repeated, announced>>

(* If the call reports an error, whether or not the row got marked, the attempt
   fails. *)
MarkJobRunning(w, j) ==
    /\ work[w].pc = "taken"
    /\ \/ /\ row' = [row EXCEPT ![j] = "running"]
          /\ Goto(w, j, "marked")
          /\ NoFault
       \/ /\ row' \in {row, [row EXCEPT ![j] = "running"]}
          /\ Goto(w, j, "error")
          /\ FaultOf(j)
    /\ UNCHANGED <<caller, task, attempts, repeated, announced>>

AnnounceRunning(w, j) ==
    /\ work[w].pc = "marked"
    /\ announced' = [announced EXCEPT ![j] = @ \cup {"running"}]
    /\ Goto(w, j, "executing")
    /\ NoFault
    /\ UNCHANGED <<row, caller, task, attempts, repeated>>

(* The work itself: it succeeds or returns an error. *)
Execute(w, j) ==
    /\ work[w].pc = "executing"
    /\ \E result \in {"worked", "failed"} : Goto(w, j, result)
    /\ NoFault
    /\ UNCHANGED <<row, caller, task, attempts, repeated, announced>>

(* Mutant of MarkJobFailed: the error goes to asynq only. *)
FailUnrecorded(w, j) ==
    /\ work[w].pc = "failed"
    /\ Goto(w, j, "unannounced")
    /\ NoFault
    /\ UNCHANGED <<row, caller, task, attempts, repeated, announced>>

(* If the call reports an error, whether or not the failure got recorded, it is
   ignored. *)
MarkJobFailed(w, j) ==
    /\ work[w].pc = "failed"
    /\ \/ row' = [row EXCEPT ![j] = "failed"] /\ NoFault
       \/ row' \in {row, [row EXCEPT ![j] = "failed"]} /\ FaultOf(j)
    /\ Goto(w, j, "unannounced")
    /\ UNCHANGED <<caller, task, attempts, repeated, announced>>

AnnounceFailed(w, j) ==
    /\ work[w].pc = "unannounced"
    /\ announced' = [announced EXCEPT ![j] = @ \cup {"failed"}]
    /\ Goto(w, j, "error")
    /\ NoFault
    /\ UNCHANGED <<row, caller, task, attempts, repeated>>

(* Mutants of MarkJobSucceeded: its error is ignored; a status that the table
   does not know. *)
MarkJobSucceededOrNot(w, j) ==
    /\ work[w].pc = "worked"
    /\ \/ row' = [row EXCEPT ![j] = "succeeded"] /\ NoFault
       \/ row' \in {row, [row EXCEPT ![j] = "succeeded"]} /\ FaultOf(j)
    /\ Goto(w, j, "recorded")
    /\ UNCHANGED <<caller, task, attempts, repeated, announced>>

MarkJobDone(w, j) ==
    /\ work[w].pc = "worked"
    /\ row' = [row EXCEPT ![j] = "done"]
    /\ Goto(w, j, "recorded")
    /\ NoFault
    /\ UNCHANGED <<caller, task, attempts, repeated, announced>>

(* If the call reports an error, whether or not the success got recorded, the
   attempt fails although the work is done. *)
MarkJobSucceeded(w, j) ==
    LET recorded == [row EXCEPT ![j] = "succeeded"]
    IN  /\ work[w].pc = "worked"
        /\ \/ /\ row' = recorded
              /\ Goto(w, j, "recorded")
              /\ NoFault
              /\ UNCHANGED repeated
           \/ /\ \/ UNCHANGED <<row, repeated>>
                 \/ row' = recorded /\ repeated' = repeated \cup {j}
              /\ Goto(w, j, "error")
              /\ FaultOf(j)
        /\ UNCHANGED <<caller, task, attempts, announced>>

(* The dashboard's cache entry is deleted as well (see DashboardCache). *)
AnnounceSucceeded(w, j) ==
    /\ work[w].pc = "recorded"
    /\ announced' = [announced EXCEPT ![j] = @ \cup {"succeeded"}]
    /\ Goto(w, j, "ok")
    /\ NoFault
    /\ UNCHANGED <<row, caller, task, attempts, repeated>>

(* An attempt of j is over and has not succeeded. *)
RetryOrArchive(j) ==
    /\ attempts' = [attempts EXCEPT ![j] = @ + 1]
    /\ task' = [task EXCEPT ![j] = IF attempts[j] + 1 < MaxAttempts
                                   THEN "pending" ELSE "archived"]

Acknowledge(w, j) ==
    /\ \/ /\ work[w].pc = "ok"
          /\ task' = [task EXCEPT ![j] = "done"]
          /\ UNCHANGED attempts
       \/ /\ work[w].pc = "error"
          /\ RetryOrArchive(j)
    /\ work' = [work EXCEPT ![w] = NoWork]
    /\ NoFault
    /\ UNCHANGED <<row, caller, repeated, announced>>

(* The worker's process stops, in order (the task goes back to the queue) or
   not (the task stays with nobody), or the task's context is cancelled, so
   that no later call of the handler has any effect. *)
WorkerStops(w, j) ==
    /\ work[w].pc # "idle"
    /\ task' \in {task, [task EXCEPT ![j] = "pending"]}
    /\ work' = [work EXCEPT ![w] = NoWork]
    /\ repeated' = IF work[w].pc \in {"recorded", "ok"} THEN repeated \cup {j}
                                                       ELSE repeated
    /\ FaultOf(j)
    /\ UNCHANGED <<row, caller, attempts, announced>>

(* The lease of a task that nobody handles runs out. *)
Recover(j) ==
    /\ task[j] = "active"
    /\ ~ Owned(j)
    /\ RetryOrArchive(j)
    /\ NoFault
    /\ UNCHANGED <<row, caller, repeated, work, announced>>

-----------------------------------------------------------------------------

Enqueue(j) ==
    \/ EnqueueTask(j)
    \/ EnqueueFails(j)
    \/ ReportRejected(j)
    \/ AnnounceQueued(j)

Perform(w, j) ==
    /\ Handles(w, j)
    /\ \/ MarkJobRunning(w, j)
       \/ AnnounceRunning(w, j)
       \/ Execute(w, j)
       \/ MarkJobFailed(w, j)
       \/ AnnounceFailed(w, j)
       \/ MarkJobSucceeded(w, j)
       \/ AnnounceSucceeded(w, j)
       \/ Acknowledge(w, j)

Stop ==
    \/ \E j \in Job : CallerStops(j)
    \/ \E w \in Worker, j \in Job : Handles(w, j) /\ WorkerStops(w, j)

Next ==
    \/ \E j \in Job : InsertJobRun(j) \/ Enqueue(j) \/ Recover(j)
    \/ \E w \in Worker, j \in Job : Dequeue(w, j) \/ Perform(w, j)
    \/ Stop

Spec == Init /\ [][Next]_vars

(* Calls return and the queue is served: an enqueuer and a worker go on, some
   worker takes a pending task, an expired lease is noticed.  Nothing makes
   anyone enqueue a job. *)
FairSpec ==
    /\ Spec
    /\ \A j \in Job :
          /\ WF_vars(Enqueue(j))
          /\ WF_vars(Recover(j))
          /\ WF_vars(\E w \in Worker : Dequeue(w, j))
    /\ \A w \in Worker : WF_vars(\E j \in Job : Perform(w, j))

-----------------------------------------------------------------------------

Handling ==
    [pc : {"taken", "marked", "executing", "worked", "failed", "unannounced",
           "recorded", "ok", "error"},
     job : Job]

(* Every variable has its type. *)
TypeOK ==
    /\ row \in [Job -> RowStatus \cup {"none"}]
    /\ caller \in [Job -> {"idle", "inserted", "stored", "accepted",
                           "rejected", "refused", "stopped"}]
    /\ task \in [Job -> {"none", "pending", "active", "done", "archived"}]
    /\ attempts \in [Job -> Nat]
    /\ repeated \subseteq Job
    /\ work \in [Worker -> {NoWork} \cup Handling]
    /\ announced \in [Job -> SUBSET RowStatus]
    /\ hit \in [Job -> BOOLEAN]
    /\ faults \in 0 .. MaxFaults

(* A job that is being executed is shown as running; the only thing that can
   hide it is an enqueuer who was told that the task is not in the queue and
   reports it failed (MarkJobRunning in perform, the error path of Enqueue). *)
ExecutionIsVisible ==
    \A w \in Worker :
        work[w].pc \in {"marked", "executing", "worked", "failed"} =>
            \/ row[work[w].job] = "running"
            \/ row[work[w].job] = "failed" /\ caller[work[w].job] = "refused"

(* The end of a task is recorded in its row.  One that asynq counts as done is
   shown as succeeded and was announced, whatever failed on the way, unless its
   enqueuer reported it failed; one that asynq gave up is shown as failed,
   unless its last attempt took a fault (perform). *)
EndIsRecorded ==
    \A j \in Job :
        /\ task[j] = "done" =>
              /\ \/ row[j] = "succeeded"
                 \/ row[j] = "failed" /\ caller[j] = "refused"
              /\ "succeeded" \in announced[j]
        /\ task[j] = "archived" /\ ~ hit[j] => row[j] = "failed"

(* A row shown as queued has a task or will have its fate reported; one that
   is left alone took a fault. *)
QueuedIsBacked ==
    \A j \in Job :
        row[j] = "queued" =>
            \/ task[j] \in {"pending", "active"}
            \/ caller[j] \in {"inserted", "rejected"}
            \/ hit[j]

(* The row of a job tells what becomes of its task, at the end and as long as
   it is queued. *)
RowTellsTheEnd == EndIsRecorded /\ QueuedIsBacked

(* At most one worker handles a job, so that the writes of two attempts do not
   mix; the task is active meanwhile. *)
OneHandler ==
    \A j \in Job :
        /\ \A v, w \in Worker : Handles(v, j) /\ Handles(w, j) => v = w
        /\ Owned(j) => task[j] = "active"

(* There is no row before the enqueuer has inserted it, and no task before it
   has tried to store one. *)
NothingBefore ==
    \A j \in Job :
        /\ caller[j] = "idle" => row[j] = "none"
        /\ caller[j] \in {"idle", "inserted"} => task[j] = "none"

(* What a worker that is past the work itself has recorded. *)
OutcomeIsRecorded ==
    \A w \in Worker, j \in Job :
        Handles(w, j) =>
            /\ work[w].pc \in {"recorded", "ok"} =>
                  \/ row[j] = "succeeded"
                  \/ row[j] = "failed" /\ caller[j] = "refused"
            /\ work[w].pc = "ok" => "succeeded" \in announced[j]
            /\ work[w].pc \in {"unannounced", "error"} /\ ~ hit[j] =>
                  row[j] = "failed"

(* A recorded success is acknowledged, about to be, or one that asynq did not
   hear of; a task that nobody handles although it is active lost its worker. *)
SuccessIsPending ==
    \A j \in Job :
        /\ row[j] = "succeeded" =>
              \/ task[j] = "done"
              \/ j \in repeated
              \/ \E w \in Worker :
                    Handles(w, j) /\ work[w].pc \in {"recorded", "ok"}
        /\ task[j] = "active" /\ ~ Owned(j) => hit[j]

(* The inductive invariant. *)
IInv ==
    /\ OneHandler
    /\ NothingBefore
    /\ ExecutionIsVisible
    /\ OutcomeIsRecorded
    /\ SuccessIsPending
    /\ EndIsRecorded
    /\ QueuedIsBacked

(* A recorded success is taken back only by another attempt, which asynq makes
   because the worker stopped before acknowledging the task or because the call
   that recorded the success reported an error (perform returns it), or by an
   enqueuer who took the task for lost (the error path of Enqueue). *)
SuccessIsStable ==
    [][\A j \in Job :
          row[j] = "succeeded" /\ row'[j] # "succeeded" =>
              \/ row'[j] = "running" /\ j \in repeated
              \/ row'[j] = "failed" /\ caller[j] = "rejected"]_vars

(* A job whose enqueuing succeeded comes to an end, and its row then shows the
   end, unless the last attempt took a fault. *)
AcceptedSettles ==
    \A j \in Job :
        caller[j] = "accepted" ~>
            /\ task[j] \in {"done", "archived"}
            /\ row[j] \in {"succeeded", "failed"} \/ hit[j]

=============================================================================
