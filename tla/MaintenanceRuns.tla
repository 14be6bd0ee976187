--------------------------- MODULE MaintenanceRuns ---------------------------
(***************************************************************************)
(* Maintenance tasks: the resolver RunMaintenanceTask inserts a row in     *)
(* maintenance_runs, enqueues the task's job and completes the row with    *)
(* what Enqueue returned (graph/schema.resolvers.go).  The jobs and their  *)
(* rows are those of JobRuns, whose actions are composed here with the     *)
(* resolver's own.                                                         *)
(*                                                                         *)
(* A run's status tells whether its job was queued and not what becomes of *)
(* it.  The three writes, of the run, of the job's row and of its task,    *)
(* are in two databases and in no transaction.                             *)
(***************************************************************************)
EXTENDS Naturals

CONSTANTS
    Job,                \* requests for a task, each with the job it enqueues
    Worker, MaxAttempts, MaxFaults,     \* as in JobRuns
    MaxRequestFaults    \* bound: faults of the resolver outside of Enqueue

ASSUME MaintenanceAssumption ==
    /\ MaxAttempts \in Nat \ {0}
    /\ {MaxFaults, MaxRequestFaults} \subseteq Nat

VARIABLES
    row, caller, task, attempts, repeated, work, announced, hit, faults,
                        \* as in JobRuns
    run,                \* maintenance_runs.status, "none" before there is a row
    request,            \* request[j]: how far the resolver has come
    requestFaults       \* its faults so far

Jobs == INSTANCE JobRuns

jobVars ==
    <<row, caller, task, attempts, repeated, work, announced, hit, faults>>

requestVars == <<run, request, requestFaults>>

vars == <<jobVars, requestVars>>

RunStatus == {"running", "succeeded", "failed"}

RequestFault ==
    /\ requestFaults < MaxRequestFaults
    /\ requestFaults' = requestFaults + 1

-----------------------------------------------------------------------------

Init ==
    /\ Jobs!Init
    /\ run = [j \in Job |-> "none"]
    /\ request = [j \in Job |-> "none"]
    /\ requestFaults = 0

(* The run is inserted.  If the call reports an error, the resolver answers
   with it and does not enqueue anything. *)
InsertMaintenanceRun(j) ==
    /\ request[j] = "none"
    /\ \/ /\ run' = [run EXCEPT ![j] = "running"]
          /\ request' = [request EXCEPT ![j] = "recorded"]
          /\ UNCHANGED requestFaults
       \/ /\ run' \in {run, [run EXCEPT ![j] = "running"]}
          /\ request' = [request EXCEPT ![j] = "failed"]
          /\ RequestFault
    /\ UNCHANGED jobVars

(* The resolver calls Enqueue. *)
BeginEnqueue(j) ==
    /\ request[j] = "recorded"
    /\ Jobs!InsertJobRun(j)
    /\ UNCHANGED requestVars

Returned(j) == caller[j] \in {"accepted", "refused"}

(* Mutants of CompleteMaintenanceRun: the error of Enqueue is ignored; the run
   is left alone when there was none. *)
CompleteAnyway(j) ==
    /\ request[j] = "recorded"
    /\ Returned(j)
    /\ run' = [run EXCEPT ![j] = "succeeded"]
    /\ request' = [request EXCEPT ![j] = "answered"]
    /\ UNCHANGED <<jobVars, requestFaults>>

CompleteFailedOnly(j) ==
    /\ request[j] = "recorded"
    /\ Returned(j)
    /\ run' = IF caller[j] = "refused" THEN [run EXCEPT ![j] = "failed"]
                                       ELSE run
    /\ request' = [request EXCEPT ![j] = "answered"]
    /\ UNCHANGED <<jobVars, requestFaults>>

(* Mutant: the job's status instead of Enqueue's result. *)
CompleteWithJob(j) ==
    /\ request[j] = "recorded"
    /\ Returned(j)
    /\ run' = [run EXCEPT ![j] = row[j]]
    /\ request' = [request EXCEPT ![j] = "answered"]
    /\ UNCHANGED <<jobVars, requestFaults>>

(* The run is completed with the result of Enqueue.  If the call reports an
   error, the resolver answers with it, whether or not the run got completed. *)
CompleteMaintenanceRun(j) ==
    LET completed ==
          [run EXCEPT ![j] = IF caller[j] = "accepted" THEN "succeeded"
                                                       ELSE "failed"]
    IN  /\ request[j] = "recorded"
        /\ Returned(j)
        /\ \/ /\ run' = completed
              /\ request' = [request EXCEPT ![j] = "answered"]
              /\ UNCHANGED requestFaults
           \/ /\ run' \in {run, completed}
              /\ request' = [request EXCEPT ![j] = "failed"]
              /\ RequestFault
        /\ UNCHANGED jobVars

(* The process stops or the request is cancelled, so that no later call has
   any effect, outside of Enqueue or in it. *)
RequestStops(j) ==
    /\ request[j] = "recorded"
    /\ request' = [request EXCEPT ![j] = "failed"]
    /\ \/ /\ caller[j] = "idle" \/ Returned(j)
          /\ RequestFault
          /\ UNCHANGED jobVars
       \/ /\ Jobs!CallerStops(j)
          /\ UNCHANGED requestFaults
    /\ UNCHANGED run

-----------------------------------------------------------------------------

RunMaintenanceTask(j) ==
    \/ InsertMaintenanceRun(j)
    \/ BeginEnqueue(j)
    \/ Jobs!Enqueue(j) /\ UNCHANGED requestVars
    \/ CompleteMaintenanceRun(j)

(* asynq and the workers, as in JobRuns. *)
Serve ==
    /\ \/ \E j \in Job : Jobs!Recover(j)
       \/ \E w \in Worker, j \in Job :
             \/ Jobs!Dequeue(w, j)
             \/ Jobs!Perform(w, j)
             \/ Jobs!Handles(w, j) /\ Jobs!WorkerStops(w, j)
    /\ UNCHANGED requestVars

Next ==
    \/ \E j \in Job : RunMaintenanceTask(j) \/ RequestStops(j)
    \/ Serve

Spec == Init /\ [][Next]_vars

(* As in JobRuns; a resolver that has inserted its run goes on. *)
FairSpec ==
    /\ Spec
    /\ \A j \in Job :
          /\ WF_vars(request[j] = "recorded" /\ RunMaintenanceTask(j))
          /\ WF_vars(Jobs!Recover(j) /\ UNCHANGED requestVars)
          /\ WF_vars((\E w \in Worker : Jobs!Dequeue(w, j))
                     /\ UNCHANGED requestVars)
    /\ \A w \in Worker :
          WF_vars((\E j \in Job : Jobs!Perform(w, j)) /\ UNCHANGED requestVars)

-----------------------------------------------------------------------------

(* Every variable has its type. *)
TypeOK ==
    /\ Jobs!TypeOK
    /\ run \in [Job -> RunStatus \cup {"none"}]
    /\ request \in [Job -> {"none", "recorded", "answered", "failed"}]
    /\ requestFaults \in 0 .. MaxRequestFaults

(* What a run says of its job agrees with the queue and with the job's row,
   which others have been writing meanwhile: a run that succeeded has a job
   that was stored and announced; a run that failed has one that is nowhere in
   the queue, and then its row does not say queued, or one that got stored
   although Enqueue was told otherwise; a run that is still running belongs to
   a resolver at work or to one that met a fault (RunMaintenanceTask,
   Enqueue). *)
RunIsHonest ==
    \A j \in Job :
        /\ run[j] = "succeeded" =>
              task[j] # "none" /\ "queued" \in announced[j]
        /\ run[j] = "failed" /\ task[j] = "none" =>
              row[j] \in {"none", "failed"} \/ hit[j]
        /\ run[j] = "running" => request[j] \in {"recorded", "failed"}

(* The resolver inserts the run first, and completes it with what Enqueue
   returned. *)
RunIsInOrder ==
    \A j \in Job :
        /\ request[j] = "none" => run[j] = "none" /\ caller[j] = "idle"
        /\ run[j] = "succeeded" => caller[j] = "accepted"
        /\ run[j] = "failed" => caller[j] = "refused"
        /\ run[j] = "running" => request[j] \in {"recorded", "failed"}

(* Enqueue returns without an error only when it has stored the task and
   published the event. *)
AcceptedIsStored ==
    \A j \in Job :
        /\ caller[j] \in {"stored", "accepted"} => task[j] # "none"
        /\ caller[j] = "accepted" => "queued" \in announced[j]

(* Without a task no worker has written the row. *)
NoTaskNoWork ==
    \A j \in Job : task[j] = "none" => row[j] \in {"none", "queued", "failed"}

(* The inductive invariant, together with that of JobRuns. *)
IInv == RunIsInOrder /\ AcceptedIsStored /\ NoTaskNoWork

(* A task that was asked for and whose resolver met no fault of its own gets a
   completed run; if that succeeded, the job comes to an end, and its row shows
   the end unless the last attempt took a fault. *)
TaskEnds ==
    \A j \in Job :
        request[j] = "recorded" ~>
            \/ request[j] = "failed"
            \/ run[j] = "failed"
            \/ /\ run[j] = "succeeded"
               /\ task[j] \in {"done", "archived"}
               /\ row[j] \in {"succeeded", "failed"} \/ hit[j]

(* The jobs of maintenance tasks are background jobs like any other. *)
ImplementsJobs == Jobs!Spec

=============================================================================
