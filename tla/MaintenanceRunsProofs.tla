------------------------ MODULE MaintenanceRunsProofs ------------------------
(***************************************************************************)
(* Proofs about MaintenanceRuns.  The jobs in it implement JobRuns, so     *)
(* what is proved of those holds here too; the runs' own invariant needs   *)
(* it.                                                                     *)
(***************************************************************************)
EXTENDS MaintenanceRuns, TLAPS

JobsProofs == INSTANCE JobRunsProofs

(* Every step of the composition is a step of JobRuns or leaves the jobs
   alone. *)
LEMMA MaintenanceStepIsJobStep ==
    ASSUME [Next]_vars
    PROVE  [Jobs!Next]_(Jobs!vars)
<1>1. ASSUME NEW j \in Job, BeginEnqueue(j)
      PROVE  Jobs!Next
  BY <1>1 DEF BeginEnqueue, Jobs!Next
<1>2. ASSUME NEW j \in Job, Jobs!Enqueue(j)
      PROVE  Jobs!Next
  BY <1>2 DEF Jobs!Next
<1>3. ASSUME NEW j \in Job, Jobs!CallerStops(j)
      PROVE  Jobs!Next
  BY <1>3 DEF Jobs!Next, Jobs!Stop
<1>4. CASE Serve
  BY <1>4 DEF Serve, Jobs!Next, Jobs!Stop
<1>5. CASE UNCHANGED jobVars
  BY <1>5 DEF jobVars, Jobs!vars
<1>6. QED
  BY <1>1, <1>2, <1>3, <1>4, <1>5
     DEF Next, RunMaintenanceTask, InsertMaintenanceRun, vars,
         CompleteMaintenanceRun, RequestStops

(* The jobs of maintenance tasks are jobs as JobRuns describes them. *)
THEOREM MaintenanceImplementsJobs == Spec => ImplementsJobs
<1>1. Init => Jobs!Init
  BY DEF Init
<1>2. [Next]_vars => [Jobs!Next]_(Jobs!vars)
  BY MaintenanceStepIsJobStep
<1>3. QED
  BY <1>1, <1>2, PTL DEF Spec, ImplementsJobs, Jobs!Spec

(* So what is proved of JobRuns holds: its types and its invariant. *)
LEMMA JobsInvariantHolds == Spec => [](Jobs!TypeOK /\ Jobs!IInv)
<1>1. MaxAttempts \in Nat \ {0} /\ MaxFaults \in Nat
  BY MaintenanceAssumption
<1>2. Jobs!Init => JobsProofs!Init
  BY DEF Jobs!Init, JobsProofs!Init, Jobs!NoWork, JobsProofs!NoWork
<1>3. [Jobs!Next]_(Jobs!vars) => [JobsProofs!Next]_(JobsProofs!vars)
  BY DEF
     Jobs!Next, JobsProofs!Next, Jobs!Enqueue, JobsProofs!Enqueue,
     Jobs!Perform, JobsProofs!Perform, Jobs!Stop, JobsProofs!Stop,
     Jobs!InsertJobRun, JobsProofs!InsertJobRun, Jobs!EnqueueTask,
     JobsProofs!EnqueueTask, Jobs!EnqueueFails, JobsProofs!EnqueueFails,
     Jobs!ReportRejected, JobsProofs!ReportRejected, Jobs!AnnounceQueued,
     JobsProofs!AnnounceQueued, Jobs!CallerStops, JobsProofs!CallerStops,
     Jobs!Dequeue, JobsProofs!Dequeue, Jobs!MarkJobRunning,
     JobsProofs!MarkJobRunning, Jobs!AnnounceRunning,
     JobsProofs!AnnounceRunning, Jobs!Execute, JobsProofs!Execute,
     Jobs!MarkJobFailed, JobsProofs!MarkJobFailed, Jobs!AnnounceFailed,
     JobsProofs!AnnounceFailed, Jobs!MarkJobSucceeded,
     JobsProofs!MarkJobSucceeded, Jobs!AnnounceSucceeded,
     JobsProofs!AnnounceSucceeded, Jobs!RetryOrArchive,
     JobsProofs!RetryOrArchive, Jobs!Acknowledge, JobsProofs!Acknowledge,
     Jobs!WorkerStops, JobsProofs!WorkerStops, Jobs!Recover,
     JobsProofs!Recover, Jobs!Handles, JobsProofs!Handles, Jobs!Owned,
     JobsProofs!Owned, Jobs!Goto, JobsProofs!Goto, Jobs!Fault,
     JobsProofs!Fault, Jobs!FaultOf, JobsProofs!FaultOf, Jobs!NoFault,
     JobsProofs!NoFault, Jobs!NoWork, JobsProofs!NoWork, Jobs!vars,
     JobsProofs!vars
<1>4. JobsProofs!IInv => Jobs!IInv
  BY DEF
     Jobs!IInv, JobsProofs!IInv, Jobs!OneHandler, JobsProofs!OneHandler,
     Jobs!NothingBefore, JobsProofs!NothingBefore, Jobs!ExecutionIsVisible,
     JobsProofs!ExecutionIsVisible, Jobs!OutcomeIsRecorded,
     JobsProofs!OutcomeIsRecorded, Jobs!SuccessIsPending,
     JobsProofs!SuccessIsPending, Jobs!EndIsRecorded,
     JobsProofs!EndIsRecorded, Jobs!QueuedIsBacked, JobsProofs!QueuedIsBacked,
     Jobs!Handles, JobsProofs!Handles, Jobs!Owned, JobsProofs!Owned
<1>5. JobsProofs!TypeOK => Jobs!TypeOK
  BY DEF Jobs!TypeOK, JobsProofs!TypeOK, Jobs!RowStatus, JobsProofs!RowStatus,
         Jobs!Handling, JobsProofs!Handling, Jobs!NoWork, JobsProofs!NoWork
<1>6. JobsProofs!Spec => []JobsProofs!IInv
  BY <1>1, JobsProofs!JobsInvariant
<1>7. JobsProofs!Spec => []JobsProofs!TypeOK
  BY <1>1, JobsProofs!JobsTypeOK
<1>8. QED
  BY <1>2, <1>3, <1>4, <1>5, <1>6, <1>7, MaintenanceImplementsJobs, PTL
     DEF ImplementsJobs, Jobs!Spec, JobsProofs!Spec

(* Every step leaves the variables in their types. *)
THEOREM MaintenanceTypeOK == Spec => []TypeOK
<1> DEFINE RequestTypes ==
       /\ run \in [Job -> RunStatus \cup {"none"}]
       /\ request \in [Job -> {"none", "recorded", "answered", "failed"}]
       /\ requestFaults \in 0 .. MaxRequestFaults
<1>1. Init => RequestTypes
  BY MaintenanceAssumption DEF Init
<1>2. RequestTypes /\ [Next]_vars => RequestTypes'
  <2> SUFFICES ASSUME RequestTypes, [Next]_vars
               PROVE  RequestTypes'
    OBVIOUS
  <2> USE DEF RunStatus
  <2>a. RequestFault => requestFaults' \in 0 .. MaxRequestFaults
    BY MaintenanceAssumption DEF RequestFault
  <2>1. ASSUME NEW j \in Job, InsertMaintenanceRun(j)
        PROVE  RequestTypes'
    BY <2>1, <2>a DEF InsertMaintenanceRun
  <2>2. ASSUME NEW j \in Job, CompleteMaintenanceRun(j)
        PROVE  RequestTypes'
    BY <2>2, <2>a DEF CompleteMaintenanceRun
  <2>3. ASSUME NEW j \in Job, RequestStops(j)
        PROVE  RequestTypes'
    BY <2>3, <2>a DEF RequestStops
  <2>4. CASE UNCHANGED requestVars
    BY <2>4 DEF requestVars
  <2>5. QED
    BY <2>1, <2>2, <2>3, <2>4
       DEF Next, RunMaintenanceTask, BeginEnqueue, Serve, vars
<1>3. QED
  BY <1>1, <1>2, JobsInvariantHolds, PTL DEF Spec, TypeOK

(* The steps of JobRuns keep what the runs rely on. *)
LEMMA JobStepKeepsTasks ==
    ASSUME Jobs!TypeOK, Jobs!IInv, AcceptedIsStored, NoTaskNoWork,
           [Jobs!Next]_(Jobs!vars)
    PROVE  AcceptedIsStored' /\ NoTaskNoWork'
<1> USE DEF AcceptedIsStored, NoTaskNoWork, Jobs!TypeOK, Jobs!RowStatus
<1>1. ASSUME NEW j \in Job, Jobs!InsertJobRun(j)
      PROVE  AcceptedIsStored' /\ NoTaskNoWork'
  BY <1>1 DEF Jobs!InsertJobRun
<1>2. ASSUME NEW j \in Job, Jobs!Enqueue(j)
      PROVE  AcceptedIsStored' /\ NoTaskNoWork'
  <2>1. CASE Jobs!EnqueueTask(j)
    BY <2>1 DEF Jobs!EnqueueTask
  <2>2. CASE Jobs!EnqueueFails(j)
    BY <2>2 DEF Jobs!EnqueueFails
  <2>3. CASE Jobs!ReportRejected(j)
    BY <2>3 DEF Jobs!ReportRejected
  <2>4. CASE Jobs!AnnounceQueued(j)
    BY <2>4 DEF Jobs!AnnounceQueued
  <2>5. QED
    BY <1>2, <2>1, <2>2, <2>3, <2>4 DEF Jobs!Enqueue
<1>3. ASSUME NEW j \in Job, Jobs!CallerStops(j)
      PROVE  AcceptedIsStored' /\ NoTaskNoWork'
  BY <1>3 DEF Jobs!CallerStops
<1>4. ASSUME NEW w \in Worker, NEW j \in Job, Jobs!Dequeue(w, j)
      PROVE  AcceptedIsStored' /\ NoTaskNoWork'
  BY <1>4 DEF Jobs!Dequeue
<1>5. ASSUME NEW w \in Worker, NEW j \in Job, Jobs!Perform(w, j)
      PROVE  AcceptedIsStored' /\ NoTaskNoWork'
  <2>1. Jobs!Handles(w, j) /\ task[j] = "active"
    BY <1>5 DEF Jobs!Perform, Jobs!IInv, Jobs!OneHandler, Jobs!Owned
  <2>2. CASE Jobs!MarkJobRunning(w, j)
    BY <2>1, <2>2 DEF Jobs!MarkJobRunning
  <2>3. CASE Jobs!AnnounceRunning(w, j)
    BY <2>3 DEF Jobs!AnnounceRunning
  <2>4. CASE Jobs!Execute(w, j)
    BY <2>4 DEF Jobs!Execute
  <2>5. CASE Jobs!MarkJobFailed(w, j)
    BY <2>1, <2>5 DEF Jobs!MarkJobFailed
  <2>6. CASE Jobs!AnnounceFailed(w, j)
    BY <2>6 DEF Jobs!AnnounceFailed
  <2>7. CASE Jobs!MarkJobSucceeded(w, j)
    BY <2>1, <2>7 DEF Jobs!MarkJobSucceeded
  <2>8. CASE Jobs!AnnounceSucceeded(w, j)
    BY <2>8 DEF Jobs!AnnounceSucceeded
  <2>9. CASE Jobs!Acknowledge(w, j)
    BY <2>9 DEF Jobs!Acknowledge, Jobs!RetryOrArchive
  <2>10. QED
    BY <1>5, <2>2, <2>3, <2>4, <2>5, <2>6, <2>7, <2>8, <2>9
       DEF Jobs!Perform
<1>6. ASSUME NEW w \in Worker, NEW j \in Job, Jobs!Handles(w, j),
             Jobs!WorkerStops(w, j)
      PROVE  AcceptedIsStored' /\ NoTaskNoWork'
  <2>1. task[j] = "active"
    BY <1>6 DEF Jobs!IInv, Jobs!OneHandler, Jobs!Owned
  <2>2. QED
    BY <1>6, <2>1 DEF Jobs!WorkerStops
<1>7. ASSUME NEW j \in Job, Jobs!Recover(j)
      PROVE  AcceptedIsStored' /\ NoTaskNoWork'
  BY <1>7 DEF Jobs!Recover, Jobs!RetryOrArchive
<1>8. CASE UNCHANGED Jobs!vars
  BY <1>8 DEF Jobs!vars
<1>9. QED
  BY <1>1, <1>2, <1>3, <1>4, <1>5, <1>6, <1>7, <1>8
     DEF Jobs!Next, Jobs!Stop

(* What a run says is what Enqueue returned, and that is what was stored. *)
THEOREM MaintenanceInvariant == Spec => []IInv
<1>1. Init => IInv
  BY DEF Init, Jobs!Init, IInv, RunIsInOrder, AcceptedIsStored, NoTaskNoWork
<1>2. [Next]_vars => [Jobs!Next]_(Jobs!vars)
  BY MaintenanceStepIsJobStep
<1>3. TypeOK /\ Jobs!IInv /\ IInv /\ [Next]_vars => RunIsInOrder'
  <2> SUFFICES ASSUME TypeOK, Jobs!IInv, RunIsInOrder, [Next]_vars
               PROVE  RunIsInOrder'
    BY DEF IInv
  <2> USE DEF RunIsInOrder, TypeOK
  <2>1. ASSUME NEW j \in Job, InsertMaintenanceRun(j)
        PROVE  RunIsInOrder'
    BY <2>1 DEF InsertMaintenanceRun, jobVars
  <2>2. ASSUME NEW j \in Job, BeginEnqueue(j)
        PROVE  RunIsInOrder'
    BY <2>2 DEF BeginEnqueue, Jobs!InsertJobRun, requestVars, Jobs!TypeOK
  <2>3. ASSUME NEW j \in Job, CompleteMaintenanceRun(j)
        PROVE  RunIsInOrder'
    BY <2>3 DEF CompleteMaintenanceRun, Returned, jobVars
  <2>4. ASSUME NEW j \in Job, RequestStops(j)
        PROVE  RunIsInOrder'
    BY <2>4 DEF RequestStops, jobVars, Jobs!CallerStops, Jobs!TypeOK
  <2>5. ASSUME NEW j \in Job, Jobs!Enqueue(j), UNCHANGED requestVars
        PROVE  RunIsInOrder'
    BY <2>5 DEF requestVars, Jobs!TypeOK, Jobs!Enqueue, Jobs!EnqueueTask,
                Jobs!EnqueueFails, Jobs!ReportRejected, Jobs!AnnounceQueued
  <2>6. CASE UNCHANGED <<caller, requestVars>>
    BY <2>6 DEF requestVars
  <2>7. Serve => UNCHANGED <<caller, requestVars>>
    BY DEF Serve, Jobs!Perform, Jobs!Recover, Jobs!Dequeue,
           Jobs!MarkJobRunning, Jobs!AnnounceRunning, Jobs!Execute,
           Jobs!MarkJobFailed, Jobs!AnnounceFailed, Jobs!MarkJobSucceeded,
           Jobs!AnnounceSucceeded, Jobs!Acknowledge, Jobs!WorkerStops
  <2>8. QED
    BY <2>1, <2>2, <2>3, <2>4, <2>5, <2>6, <2>7
       DEF Next, RunMaintenanceTask, vars, jobVars
<1>4. QED
  BY <1>1, <1>2, <1>3, JobStepKeepsTasks, MaintenanceTypeOK,
     JobsInvariantHolds, PTL DEF Spec, IInv, TypeOK

(* A run that succeeded has a job that was stored and announced, one that
   failed has one that nobody will work on or whose storing was not noticed,
   one that is running has a resolver at work or one that met a fault. *)
THEOREM MaintenanceRunIsHonest == Spec => []RunIsHonest
<1>1. TypeOK /\ Jobs!IInv /\ IInv => RunIsHonest
  <2> SUFFICES ASSUME TypeOK, Jobs!IInv, IInv, NEW j \in Job
               PROVE  /\ run[j] = "succeeded" =>
                            task[j] # "none" /\ "queued" \in announced[j]
                      /\ run[j] = "failed" /\ task[j] = "none" =>
                            row[j] \in {"none", "failed"} \/ hit[j]
                      /\ run[j] = "running" =>
                            request[j] \in {"recorded", "failed"}
    BY DEF RunIsHonest
  <2>1. CASE run[j] = "succeeded"
    BY <2>1 DEF IInv, RunIsInOrder, AcceptedIsStored
  <2>2. ASSUME run[j] = "failed", task[j] = "none"
        PROVE  row[j] \in {"none", "failed"} \/ hit[j]
    <3>1. caller[j] = "refused" /\ row[j] \in {"none", "queued", "failed"}
      BY <2>2 DEF IInv, RunIsInOrder, NoTaskNoWork
    <3>2. row[j] = "queued" => hit[j]
      BY <2>2, <3>1 DEF Jobs!IInv, Jobs!QueuedIsBacked
    <3>3. QED
      BY <3>1, <3>2
  <2>3. CASE run[j] = "running"
    BY <2>3 DEF IInv, RunIsInOrder
  <2>4. QED
    BY <2>1, <2>2, <2>3 DEF IInv, RunIsInOrder
<1>2. QED
  BY <1>1, MaintenanceTypeOK, JobsInvariantHolds, MaintenanceInvariant, PTL

=============================================================================
