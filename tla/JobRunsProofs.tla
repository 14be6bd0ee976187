---------------------------- MODULE JobRunsProofs ----------------------------
(***************************************************************************)
(* Proofs about JobRuns for any sets of jobs and workers, any limit on     *)
(* attempts and any number of faults.                                      *)
(***************************************************************************)
EXTENDS JobRuns, TLAPS

(* Every step leaves the variables in their types. *)
THEOREM JobsTypeOK == Spec => []TypeOK
<1> USE DEF TypeOK, RowStatus, Handling, NoWork
<1>1. Init => TypeOK
  BY JobAssumption DEF Init
<1>2. TypeOK /\ [Next]_vars => TypeOK'
  <2> SUFFICES ASSUME TypeOK, [Next]_vars
               PROVE  TypeOK'
    OBVIOUS
  <2> DEFINE FaultTypes == hit' \in [Job -> BOOLEAN] /\ faults' \in 0 .. MaxFaults
  <2>a. ASSUME NEW j \in Job, FaultOf(j)
        PROVE  FaultTypes
    BY <2>a, JobAssumption DEF FaultOf, Fault
  <2>b. ASSUME NoFault
        PROVE  FaultTypes
    BY <2>b DEF NoFault
  <2>1. ASSUME NEW j \in Job, InsertJobRun(j)
        PROVE  TypeOK'
    <3>1. FaultTypes
      BY <2>1, <2>a, <2>b DEF InsertJobRun
    <3>2. row' \in [Job -> RowStatus \cup {"none"}]
      BY <2>1 DEF InsertJobRun
    <3>3. QED
      BY <2>1, <3>1, <3>2 DEF InsertJobRun, Goto
  <2>2. ASSUME NEW j \in Job, EnqueueTask(j)
        PROVE  TypeOK'
    BY <2>2, <2>b DEF EnqueueTask, Goto
  <2>3. ASSUME NEW j \in Job, EnqueueFails(j)
        PROVE  TypeOK'
    BY <2>3, JobAssumption DEF EnqueueFails, Fault
  <2>4. ASSUME NEW j \in Job, ReportRejected(j)
        PROVE  TypeOK'
    <3>1. FaultTypes
      BY <2>4, <2>a, <2>b DEF ReportRejected
    <3>2. row' \in [Job -> RowStatus \cup {"none"}]
      BY <2>4 DEF ReportRejected
    <3>3. QED
      BY <2>4, <3>1, <3>2 DEF ReportRejected, Goto
  <2>5. ASSUME NEW j \in Job, AnnounceQueued(j)
        PROVE  TypeOK'
    BY <2>5, <2>b DEF AnnounceQueued, Goto
  <2>6. ASSUME NEW j \in Job, CallerStops(j)
        PROVE  TypeOK'
    BY <2>6, <2>a DEF CallerStops, Goto
  <2>7. ASSUME NEW w \in Worker, NEW j \in Job, Dequeue(w, j)
        PROVE  TypeOK'
    BY <2>7, JobAssumption DEF Dequeue, Goto
  <2>8. ASSUME NEW w \in Worker, NEW j \in Job, MarkJobRunning(w, j)
        PROVE  TypeOK'
    <3>1. FaultTypes
      BY <2>8, <2>a, <2>b DEF MarkJobRunning
    <3>2. row' \in [Job -> RowStatus \cup {"none"}]
      BY <2>8 DEF MarkJobRunning
    <3>3. QED
      BY <2>8, <3>1, <3>2 DEF MarkJobRunning, Goto
  <2>9. ASSUME NEW w \in Worker, NEW j \in Job, AnnounceRunning(w, j)
        PROVE  TypeOK'
    BY <2>9, <2>b DEF AnnounceRunning, Goto
  <2>10. ASSUME NEW w \in Worker, NEW j \in Job, Execute(w, j)
         PROVE  TypeOK'
    BY <2>10, <2>b DEF Execute, Goto
  <2>11. ASSUME NEW w \in Worker, NEW j \in Job, MarkJobFailed(w, j)
         PROVE  TypeOK'
    <3>1. FaultTypes
      BY <2>11, <2>a, <2>b DEF MarkJobFailed
    <3>2. row' \in [Job -> RowStatus \cup {"none"}]
      BY <2>11 DEF MarkJobFailed
    <3>3. QED
      BY <2>11, <3>1, <3>2 DEF MarkJobFailed, Goto
  <2>12. ASSUME NEW w \in Worker, NEW j \in Job, AnnounceFailed(w, j)
         PROVE  TypeOK'
    BY <2>12, <2>b DEF AnnounceFailed, Goto
  <2>13. ASSUME NEW w \in Worker, NEW j \in Job, MarkJobSucceeded(w, j)
         PROVE  TypeOK'
    <3>1. FaultTypes
      BY <2>13, <2>a, <2>b DEF MarkJobSucceeded
    <3>2. row' \in [Job -> RowStatus \cup {"none"}]
      BY <2>13 DEF MarkJobSucceeded
    <3>3. QED
      BY <2>13, <3>1, <3>2 DEF MarkJobSucceeded, Goto
  <2>14. ASSUME NEW w \in Worker, NEW j \in Job, AnnounceSucceeded(w, j)
         PROVE  TypeOK'
    BY <2>14, <2>b DEF AnnounceSucceeded, Goto
  <2>15. ASSUME NEW w \in Worker, NEW j \in Job, Acknowledge(w, j)
         PROVE  TypeOK'
    BY <2>15, <2>b DEF Acknowledge, RetryOrArchive, Goto
  <2>16. ASSUME NEW w \in Worker, NEW j \in Job, WorkerStops(w, j)
         PROVE  TypeOK'
    BY <2>16, <2>a DEF WorkerStops, Goto
  <2>17. ASSUME NEW j \in Job, Recover(j)
         PROVE  TypeOK'
    <3>1. attempts' \in [Job -> Nat]
      BY <2>17 DEF Recover, RetryOrArchive
    <3>2. task' \in [Job -> {"none", "pending", "active", "done", "archived"}]
      BY <2>17 DEF Recover, RetryOrArchive
    <3>3. QED
      BY <2>17, <2>b, <3>1, <3>2 DEF Recover
  <2>18. CASE UNCHANGED vars
    BY <2>18 DEF vars
  <2>19. QED
    BY <2>1, <2>2, <2>3, <2>4, <2>5, <2>6, <2>7, <2>8, <2>9, <2>10, <2>11,
       <2>12, <2>13, <2>14, <2>15, <2>16, <2>17, <2>18
       DEF Next, Enqueue, Perform, Stop
<1>3. QED
  BY <1>1, <1>2, PTL DEF Spec

(* The states of the row, the task, the enqueuer and the workers agree in every
   reachable state. *)
THEOREM JobsInvariant == Spec => []IInv
<1> USE DEF IInv, OneHandler, NothingBefore, ExecutionIsVisible, Owned, Handles,
            OutcomeIsRecorded, SuccessIsPending, EndIsRecorded,
            QueuedIsBacked
<1>1. Init => IInv
  BY DEF Init, NoWork
<1>2. TypeOK /\ IInv /\ [Next]_vars => IInv'
  <2> SUFFICES ASSUME TypeOK, IInv, [Next]_vars
               PROVE  IInv'
    OBVIOUS
  <2> USE DEF TypeOK, RowStatus, Handling, NoWork, Goto, NoFault, Fault, FaultOf
  <2>1. ASSUME NEW j \in Job, InsertJobRun(j)
        PROVE  IInv'
    BY <2>1 DEF InsertJobRun
  <2>2. ASSUME NEW j \in Job, EnqueueTask(j)
        PROVE  IInv'
    BY <2>2 DEF EnqueueTask
  <2>3. ASSUME NEW j \in Job, EnqueueFails(j)
        PROVE  IInv'
    BY <2>3 DEF EnqueueFails
  <2>4. ASSUME NEW j \in Job, ReportRejected(j)
        PROVE  IInv'
    BY <2>4 DEF ReportRejected
  <2>5. ASSUME NEW j \in Job, AnnounceQueued(j)
        PROVE  IInv'
    BY <2>5 DEF AnnounceQueued
  <2>6. ASSUME NEW j \in Job, CallerStops(j)
        PROVE  IInv'
    BY <2>6 DEF CallerStops
  <2>7. ASSUME NEW w \in Worker, NEW j \in Job, Dequeue(w, j)
        PROVE  IInv'
    BY <2>7 DEF Dequeue
  <2>8. ASSUME NEW w \in Worker, NEW j \in Job, Handles(w, j),
               MarkJobRunning(w, j)
        PROVE  IInv'
    <3>1. CASE /\ row' = [row EXCEPT ![j] = "running"]
               /\ work' = [work EXCEPT ![w] = [pc |-> "marked", job |-> j]]
               /\ UNCHANGED <<hit, faults>>
      BY <2>8, <3>1 DEF MarkJobRunning
    <3>2. CASE /\ row' \in {row, [row EXCEPT ![j] = "running"]}
               /\ work' = [work EXCEPT ![w] = [pc |-> "error", job |-> j]]
               /\ hit' = [hit EXCEPT ![j] = TRUE]
      BY <2>8, <3>2 DEF MarkJobRunning
    <3>3. QED
      BY <2>8, <3>1, <3>2 DEF MarkJobRunning
  <2>9. ASSUME NEW w \in Worker, NEW j \in Job, Handles(w, j),
               AnnounceRunning(w, j)
        PROVE  IInv'
    BY <2>9 DEF AnnounceRunning
  <2>10. ASSUME NEW w \in Worker, NEW j \in Job, Handles(w, j),
                Execute(w, j)
         PROVE  IInv'
    BY <2>10 DEF Execute
  <2>11. ASSUME NEW w \in Worker, NEW j \in Job, Handles(w, j),
                MarkJobFailed(w, j)
         PROVE  IInv'
    BY <2>11 DEF MarkJobFailed
  <2>12. ASSUME NEW w \in Worker, NEW j \in Job, Handles(w, j),
                AnnounceFailed(w, j)
         PROVE  IInv'
    BY <2>12 DEF AnnounceFailed
  <2>13. ASSUME NEW w \in Worker, NEW j \in Job, Handles(w, j),
                MarkJobSucceeded(w, j)
         PROVE  IInv'
    <3>1. CASE /\ row' = [row EXCEPT ![j] = "succeeded"]
               /\ work' = [work EXCEPT ![w] = [pc |-> "recorded", job |-> j]]
               /\ UNCHANGED <<repeated, hit, faults>>
      BY <2>13, <3>1 DEF MarkJobSucceeded
    <3>2. CASE /\ UNCHANGED <<row, repeated>>
               /\ work' = [work EXCEPT ![w] = [pc |-> "error", job |-> j]]
               /\ hit' = [hit EXCEPT ![j] = TRUE]
      BY <2>13, <3>2 DEF MarkJobSucceeded
    <3>3. CASE /\ row' = [row EXCEPT ![j] = "succeeded"]
               /\ repeated' = repeated \cup {j}
               /\ work' = [work EXCEPT ![w] = [pc |-> "error", job |-> j]]
               /\ hit' = [hit EXCEPT ![j] = TRUE]
      BY <2>13, <3>3 DEF MarkJobSucceeded
    <3>4. QED
      BY <2>13, <3>1, <3>2, <3>3 DEF MarkJobSucceeded
  <2>14. ASSUME NEW w \in Worker, NEW j \in Job, Handles(w, j),
                AnnounceSucceeded(w, j)
         PROVE  IInv'
    BY <2>14 DEF AnnounceSucceeded
  <2>15. ASSUME NEW w \in Worker, NEW j \in Job, Handles(w, j),
                Acknowledge(w, j)
         PROVE  IInv'
    BY <2>15 DEF Acknowledge, RetryOrArchive
  <2>16. ASSUME NEW w \in Worker, NEW j \in Job, Handles(w, j),
                WorkerStops(w, j)
         PROVE  IInv'
    BY <2>16 DEF WorkerStops
  <2>17. ASSUME NEW j \in Job, Recover(j)
         PROVE  IInv'
    BY <2>17 DEF Recover, RetryOrArchive
  <2>18. CASE UNCHANGED vars
    BY <2>18 DEF vars
  <2>19. QED
    BY <2>1, <2>2, <2>3, <2>4, <2>5, <2>6, <2>7, <2>8, <2>9, <2>10, <2>11,
       <2>12, <2>13, <2>14, <2>15, <2>16, <2>17, <2>18
       DEF Next, Enqueue, Perform, Stop
<1>3. QED
  BY <1>1, <1>2, JobsTypeOK, PTL DEF Spec

(* A job in execution is shown as running unless its enqueuer disowned it. *)
THEOREM JobsExecutionIsVisible == Spec => []ExecutionIsVisible
BY JobsInvariant, PTL DEF IInv

(* What asynq counts as done is recorded and announced as succeeded, what it
   gives up is recorded as failed, and a queued row is not left alone, each
   with the exceptions the properties name. *)
THEOREM JobsRowTellsTheEnd == Spec => []RowTellsTheEnd
BY JobsInvariant, PTL DEF IInv, RowTellsTheEnd

(* A recorded success is taken back only by another attempt at a task of which
   a success was recorded and not acknowledged, its worker having stopped or
   its call having erred, or by the enqueuer's late report. *)
THEOREM JobsSuccessIsStable == Spec => SuccessIsStable
<1> DEFINE Stable ==
       \A j \in Job :
          row[j] = "succeeded" /\ row'[j] # "succeeded" =>
              \/ row'[j] = "running" /\ j \in repeated
              \/ row'[j] = "failed" /\ caller[j] = "rejected"
<1>1. TypeOK /\ IInv /\ [Next]_vars => [Stable]_vars
  <2> SUFFICES ASSUME TypeOK, IInv, Next, NEW k \in Job,
                      row[k] = "succeeded", row'[k] # "succeeded"
               PROVE  \/ row'[k] = "running" /\ k \in repeated
                      \/ row'[k] = "failed" /\ caller[k] = "rejected"
    OBVIOUS
  <2> USE DEF TypeOK
  <2>1. ASSUME NEW j \in Job, InsertJobRun(j)
        PROVE  FALSE
    BY <2>1 DEF InsertJobRun, IInv, NothingBefore
  <2>2. ASSUME NEW j \in Job, ReportRejected(j)
        PROVE  row'[k] = "failed" /\ caller[k] = "rejected"
    BY <2>2 DEF ReportRejected
  <2>3. ASSUME NEW w \in Worker, NEW j \in Job, Handles(w, j),
               MarkJobRunning(w, j)
        PROVE  row'[k] = "running" /\ k \in repeated
    <3>1. j = k /\ row'[k] = "running"
      BY <2>3 DEF MarkJobRunning
    <3>2. task[k] = "active"
      BY <2>3, <3>1 DEF IInv, OneHandler, Owned
    <3>3. ~ \E v \in Worker : Handles(v, k) /\ work[v].pc \in {"recorded", "ok"}
      BY <2>3, <3>1 DEF IInv, OneHandler, MarkJobRunning
    <3>4. QED
      BY <3>1, <3>2, <3>3 DEF IInv, SuccessIsPending
  <2>4. ASSUME NEW w \in Worker, NEW j \in Job, Handles(w, j),
               MarkJobFailed(w, j)
        PROVE  FALSE
    <3>1. j = k /\ work[w].pc = "failed" /\ work[w].job = k
      BY <2>4 DEF MarkJobFailed, Handles
    <3>2. QED
      BY <3>1 DEF IInv, ExecutionIsVisible
  <2>5. ASSUME NEW w \in Worker, NEW j \in Job, MarkJobSucceeded(w, j)
        PROVE  FALSE
    BY <2>5 DEF MarkJobSucceeded
  <2>6. CASE UNCHANGED row
    BY <2>6
  <2>7. QED
    BY <2>1, <2>2, <2>3, <2>4, <2>5, <2>6
       DEF Next, Enqueue, Perform, Stop, EnqueueTask, EnqueueFails,
           AnnounceQueued, CallerStops, Dequeue, AnnounceRunning, Execute,
           AnnounceFailed, AnnounceSucceeded, Acknowledge, WorkerStops, Recover
<1>2. QED
  BY <1>1, JobsTypeOK, JobsInvariant, PTL DEF Spec, SuccessIsStable

=============================================================================
