------------------------- MODULE MonitorChecksProofs -------------------------
(***************************************************************************)
(* Proofs about MonitorChecks for any sets of monitors, incidents and      *)
(* workers: the types, the inductive invariant, and that the transactions  *)
(* implement MonitorHealth.                                                *)
(***************************************************************************)
EXTENDS MonitorChecks, TLAPS

(* Every step leaves the variables in their types, and a worker that is busy
   works on a monitor. *)
THEOREM ChecksTypeOK == Spec => []TypeOK
<1> USE DEF TypeOK, Health!TypeOK
<1>1. Init => TypeOK
  BY DEF Init, Health!Init, Health!NoRow, Idle, Health!Row, Result, Event,
         Activity, Health!MonitorStatus, Health!IncidentStatus
<1>2. TypeOK /\ [Next]_vars => TypeOK'
  <2> SUFFICES ASSUME TypeOK, [Next]_vars
               PROVE  TypeOK'
    OBVIOUS
  <2>1. ASSUME NEW w \in Worker, NEW m \in Monitor, BeginCheck(w, m)
        PROVE  TypeOK'
    BY <2>1 DEF BeginCheck, Activity
  <2>2. ASSUME NEW w \in Worker, InsertEvent(w)
        PROVE  TypeOK'
    <3>1. /\ now' = now + 1
          /\ check[w].pc = "fetched"
          /\ UNCHANGED <<lastStatus, incidents, waived, lastCheckedAt, events>>
      BY <2>2 DEF InsertEvent
    <3>2. now' \in Nat
      <4>1. now \in Nat
        OBVIOUS
      <4>2. QED
        BY <3>1, <4>1
    <3>3. ASSUME NEW o \in Outcome,
                 check' = [check EXCEPT ![w] =
                    [pc |-> "inserted", monitor |-> check[w].monitor,
                     status |-> StatusOf(o), at |-> now', wrote |-> "nothing"]]
          PROVE  TypeOK'
      <4>1. StatusOf(o) \in Result
        BY DEF StatusOf, Result
      <4>2. QED
        BY <3>1, <3>2, <3>3, <4>1 DEF Activity
    <3>4. CASE check' = [check EXCEPT ![w] = Idle]
      BY <3>1, <3>2, <3>4 DEF Idle, Activity, Result
    <3>5. QED
      BY <2>2, <3>1, <3>3, <3>4 DEF InsertEvent
  <2>3. ASSUME NEW w \in Worker, UpdateMonitor(w)
        PROVE  TypeOK'
    BY <2>3 DEF UpdateMonitor, Activity
  <2>4. ASSUME NEW w \in Worker, SyncIncident(w)
        PROVE  TypeOK'
    BY <2>4 DEF SyncIncident, InsertOnConflict, ResolveOpen, Activity
  <2>5. ASSUME NEW w \in Worker, Commit(w)
        PROVE  TypeOK'
    <3> DEFINE m == check[w].monitor
    <3>1. m \in Monitor /\ check[w].at \in Nat /\ check[w].status \in Result
      BY <2>5 DEF Commit, Activity
    <3>2. incidents' \in [Incident -> Health!Row]
      BY <2>5, <3>1 DEF Commit, CommitIncidents, Health!Row, Health!OpenRow,
                        Health!IncidentStatus, Health!Resolve, Health!Unused
    <3>3. /\ lastStatus' \in [Monitor -> Health!MonitorStatus]
          /\ lastCheckedAt' \in [Monitor -> Nat]
      BY <2>5, <3>1 DEF Commit, CommitMonitor, Health!MonitorStatus, Result
    <3>4. events' \subseteq Event
      BY <2>5, <3>1 DEF Commit, CommitEvent, Event
    <3>5. waived' \subseteq Monitor
      BY <2>5 DEF Commit
    <3>6. /\ check' \in [Worker -> Activity]
          /\ \A v \in Worker :
                check'[v].pc # "idle" => check'[v].monitor \in Monitor
      BY <2>5 DEF Commit, Idle, Activity, Result
    <3>7. now' \in Nat
      BY <2>5 DEF Commit
    <3>8. QED
      BY <3>2, <3>3, <3>4, <3>5, <3>6, <3>7
  <2>6. ASSUME NEW w \in Worker, Abort(w)
        PROVE  TypeOK'
    BY <2>6 DEF Abort, Idle, Activity, Result
  <2>7. ASSUME NEW m \in Monitor, CreateMonitor(m)
        PROVE  TypeOK'
    BY <2>7 DEF CreateMonitor, Health!CreateMonitor, Health!MonitorStatus
  <2>8. ASSUME NEW m \in Monitor, DeleteMonitor(m)
        PROVE  TypeOK'
    BY <2>8 DEF DeleteMonitor, Health!DeleteMonitor, Health!Unlink, Health!Row,
                Health!MonitorStatus
  <2>9. ASSUME NEW m \in Monitor \cup {NoMonitor}, OpenIncident(m)
        PROVE  TypeOK'
    BY <2>9 DEF OpenIncident, Health!OpenIncident, Health!OpenRow,
                Health!Unused, Health!Row, Health!IncidentStatus
  <2>10. ASSUME NEW i \in Incident, ResolveIncident(i)
         PROVE  TypeOK'
    BY <2>10 DEF ResolveIncident, Health!ResolveIncident, Health!Row,
                 Health!IncidentStatus
  <2>11. ASSUME NEW t \in 1 .. now, PruneEvents(t)
         PROVE  TypeOK'
    BY <2>11 DEF PruneEvents
  <2>12. CASE UNCHANGED vars
    BY <2>12 DEF vars
  <2>13. QED
    BY <2>1, <2>2, <2>3, <2>4, <2>5, <2>6, <2>7, <2>8, <2>9, <2>10, <2>11,
       <2>12 DEF Next, Check, Progress, Operate
<1>3. QED
  BY <1>1, <1>2, PTL DEF Spec

(* A transaction that has written a monitor's row is the only one that has,
   its monitor exists, and what it did to the incidents stays right until it
   commits, whatever operators do meanwhile. *)
THEOREM ChecksInvariant == Spec => []IInv
<1> USE DEF IInv
<1>1. Init => IInv
  BY DEF Init, Idle, RowLock, HoldsRow, MonitorIsHeld, InTransaction,
         SyncStillValid
<1>2. TypeOK /\ IInv /\ [Next]_vars => IInv'
  <2> SUFFICES ASSUME TypeOK, IInv, [Next]_vars
               PROVE  IInv'
    OBVIOUS
  <2> USE DEF TypeOK, Health!TypeOK, RowLock, HoldsRow, MonitorIsHeld,
              InTransaction, SyncStillValid, Health!Live, Health!OpenOn,
              Health!Open
  <2>1. ASSUME NEW w \in Worker, NEW m \in Monitor, BeginCheck(w, m)
        PROVE  IInv'
    BY <2>1 DEF BeginCheck, Activity
  <2>2. ASSUME NEW w \in Worker, InsertEvent(w)
        PROVE  IInv'
    BY <2>2 DEF InsertEvent, Idle, Activity
  <2>3. ASSUME NEW w \in Worker, UpdateMonitor(w)
        PROVE  IInv'
    BY <2>3 DEF UpdateMonitor, Activity
  <2>4. ASSUME NEW w \in Worker, SyncIncident(w)
        PROVE  IInv'
    BY <2>4 DEF SyncIncident, InsertOnConflict, ResolveOpen, Activity
  <2>5. ASSUME NEW w \in Worker, Commit(w)
        PROVE  IInv'
    <3> DEFINE m == check[w].monitor
    <3>1. check[w].pc = "synced" /\ m \in Monitor
      BY <2>5 DEF Commit
    <3>2. /\ check'[w].pc = "idle"
          /\ \A v \in Worker \ {w} : check'[v] = check[v]
      BY <2>5 DEF Commit, Idle
    <3>3. \A v \in Worker \ {w} : HoldsRow(v, check[v].monitor) =>
                                     check[v].monitor # m
      BY <3>1
    <3>4. \A n \in Monitor \ {m} :
             /\ lastStatus'[n] = lastStatus[n]
             /\ Health!OpenOn(n)' = Health!OpenOn(n)
             /\ \A i \in Health!OpenOn(n) : incidents'[i] = incidents[i]
             /\ n \in waived' <=> n \in waived
      <4> SUFFICES ASSUME NEW n \in Monitor \ {m}
                   PROVE  /\ lastStatus'[n] = lastStatus[n]
                          /\ Health!OpenOn(n)' = Health!OpenOn(n)
                          /\ \A i \in Health!OpenOn(n) :
                                incidents'[i] = incidents[i]
                          /\ n \in waived' <=> n \in waived
        OBVIOUS
      <4>1. lastStatus'[n] = lastStatus[n] /\ (n \in waived' <=> n \in waived)
        BY <2>5, <3>1 DEF Commit, CommitMonitor
      <4>2. \A i \in Incident :
               \/ incidents'[i] = incidents[i]
               \/ /\ i \notin Health!OpenOn(n)
                  /\ incidents'[i].monitor = m
        BY <2>5, <3>1 DEF Commit, CommitIncidents, Health!OpenRow,
                          Health!Unused, Health!Resolve, Health!Row
      <4>3. QED
        BY <4>1, <4>2
    <3>5. RowLock'
      BY <3>2
    <3>6. MonitorIsHeld'
      BY <2>5, <3>1, <3>2 DEF Commit, CommitMonitor, Result, Activity
    <3>7. SyncStillValid'
      BY <3>2, <3>3, <3>4
    <3>8. QED
      BY <3>5, <3>6, <3>7
  <2>6. ASSUME NEW w \in Worker, Abort(w)
        PROVE  IInv'
    BY <2>6 DEF Abort, Idle, Activity
  <2>7. ASSUME NEW m \in Monitor, CreateMonitor(m)
        PROVE  IInv'
    BY <2>7 DEF CreateMonitor, Health!CreateMonitor
  <2>8. ASSUME NEW m \in Monitor, DeleteMonitor(m)
        PROVE  IInv'
    <3>1. \A w \in Worker : InTransaction(w) => check[w].monitor # m
      BY <2>8 DEF DeleteMonitor, SharesRow
    <3>2. /\ \A n \in Monitor \ {m} : lastStatus'[n] = lastStatus[n]
          /\ waived' = waived \ {m}
          /\ UNCHANGED check
      BY <2>8 DEF DeleteMonitor, Health!DeleteMonitor
    <3>3. \A i \in Incident : \/ incidents'[i] = incidents[i]
                              \/ /\ incidents[i].monitor = m
                                 /\ incidents'[i].monitor = NoMonitor
      BY <2>8 DEF DeleteMonitor, Health!DeleteMonitor, Health!Unlink,
                  Health!Row
    <3>4. \A n \in Monitor \ {m} : Health!OpenOn(n)' = Health!OpenOn(n)
      BY <3>3, CheckAssumption
    <3>5. \A n \in Monitor \ {m} : \A i \in Health!OpenOn(n) :
             incidents'[i] = incidents[i]
      BY <3>3
    <3>6. RowLock' /\ MonitorIsHeld'
      BY <3>1, <3>2
    <3>7. SyncStillValid'
      BY <3>1, <3>2, <3>4, <3>5
    <3>8. QED
      BY <3>6, <3>7
  <2>9. ASSUME NEW m \in Monitor \cup {NoMonitor}, OpenIncident(m)
        PROVE  IInv'
    BY <2>9 DEF OpenIncident, Health!OpenIncident, Health!OpenRow,
                Health!Unused, Wrote
  <2>10. ASSUME NEW i \in Incident, ResolveIncident(i)
         PROVE  IInv'
    <3>1. RowLock' /\ MonitorIsHeld'
      BY <2>10 DEF ResolveIncident, Health!ResolveIncident
    <3>2. UNCHANGED check /\ waived \subseteq waived'
      BY <2>10 DEF ResolveIncident, Health!ResolveIncident
    <3>3. \A j \in Incident \ {i} : incidents'[j] = incidents[j]
      BY <2>10 DEF ResolveIncident, Health!ResolveIncident
    <3>4. /\ ~ Health!Open(i)'
          /\ Health!Open(i) /\ incidents[i].monitor # NoMonitor =>
                incidents[i].monitor \in waived'
      BY <2>10 DEF ResolveIncident, Health!ResolveIncident, Health!Row
    <3>5. \A n \in Monitor : Health!OpenOn(n)' = Health!OpenOn(n) \ {i}
      BY <3>3, <3>4
    <3>6. \A w \in Worker :
             check[w].pc = "synced" /\ check[w].wrote = "resolve" =>
                i \notin Health!OpenOn(check[w].monitor)
      BY <2>10 DEF ResolveIncident, Wrote
    <3>7. SyncStillValid'
      BY <3>2, <3>3, <3>4, <3>5, <3>6, CheckAssumption
    <3>8. QED
      BY <3>1, <3>7
  <2>11. ASSUME NEW t \in 1 .. now, PruneEvents(t)
         PROVE  IInv'
    BY <2>11 DEF PruneEvents
  <2>12. CASE UNCHANGED vars
    BY <2>12 DEF vars
  <2>13. QED
    BY <2>1, <2>2, <2>3, <2>4, <2>5, <2>6, <2>7, <2>8, <2>9, <2>10, <2>11,
       <2>12 DEF Next, Check, Progress, Operate
<1>3. QED
  BY <1>1, <1>2, ChecksTypeOK, PTL DEF Spec

(* Every behaviour of the transactions, seen through the monitors and the
   incidents, is one of MonitorHealth: BEGIN and the statements are stutters,
   a COMMIT is the check as a whole, a mutation is itself. *)
THEOREM ChecksImplementHealth == Spec => ImplementsHealth
<1>1. Init => Health!Init
  BY DEF Init
<1>2. TypeOK /\ IInv /\ [Next]_vars => [Health!Next]_(Health!vars)
  <2> SUFFICES ASSUME TypeOK, IInv, [Next]_vars
               PROVE  [Health!Next]_(Health!vars)
    OBVIOUS
  <2>1. ASSUME NEW w \in Worker, Commit(w)
        PROVE  Health!Next
    <3> DEFINE m == check[w].monitor
    <3>1. /\ m \in Monitor
          /\ check[w].pc = "synced"
          /\ check[w].status \in Result
          /\ check[w].wrote \in {"nothing", "open", "resolve"}
          /\ lastStatus' = [lastStatus EXCEPT ![m] = check[w].status]
      BY <2>1 DEF Commit, CommitMonitor, TypeOK, Activity
    <3>2. Health!Live(m)
      BY <3>1 DEF IInv, MonitorIsHeld, InTransaction
    <3>3. CASE check[w].status = "up"
      <4>1. waived' = waived \ {m}
        BY <2>1, <3>3 DEF Commit
      <4>2. CASE check[w].wrote = "resolve"
        <5>1. incidents' = Health!Resolve(Health!OpenOn(m))
          BY <2>1, <4>2 DEF Commit, CommitIncidents
        <5>2. Health!RecordUp(m)
          BY <3>1, <3>2, <3>3, <4>1, <5>1 DEF Health!RecordUp
        <5>3. QED
          BY <3>1, <5>2 DEF Health!Next
      <4>3. CASE check[w].wrote = "nothing"
        <5>1. \A i \in Health!OpenOn(m) \ {} : incidents[i].by = "operator"
          BY <3>1, <3>3, <4>3 DEF IInv, SyncStillValid
        <5>2. incidents' = Health!Resolve({})
          BY <2>1, <4>3 DEF Commit, CommitIncidents, Health!Resolve, TypeOK,
                            Health!TypeOK
        <5>3. Health!RecordUp(m)
          BY <3>1, <3>2, <3>3, <4>1, <5>1, <5>2 DEF Health!RecordUp
        <5>4. QED
          BY <3>1, <5>3 DEF Health!Next
      <4>4. check[w].wrote # "open"
        BY <3>1, <3>3 DEF IInv, SyncStillValid
      <4>5. QED
        BY <3>1, <4>2, <4>3, <4>4
    <3>4. CASE check[w].status = "down"
      <4>1. CASE check[w].wrote = "open"
        <5>1. /\ Health!OpenOn(m) = {}
              /\ waived' = waived \ {m}
              /\ \E i \in Health!Unused :
                    incidents' =
                       [incidents EXCEPT ![i] = Health!OpenRow(m, "check")]
          BY <2>1, <3>1, <4>1 DEF Commit, CommitIncidents, IInv, SyncStillValid
        <5>2. Health!RecordDown(m)
          BY <3>1, <3>2, <3>4, <5>1 DEF Health!RecordDown
        <5>3. QED
          BY <3>1, <5>2 DEF Health!Next
      <4>2. CASE check[w].wrote = "nothing"
        <5>1. /\ UNCHANGED incidents
              /\ Health!OpenOn(m) # {} => waived' = waived \ {m}
              /\ Health!OpenOn(m) = {} => waived' = waived
          BY <2>1, <3>4, <4>2 DEF Commit, CommitIncidents
        <5>2. Health!OpenOn(m) = {} => m \in waived
          BY <3>1, <3>4, <4>2 DEF IInv, SyncStillValid
        <5>3. Health!RecordDown(m)
          BY <3>1, <3>2, <3>4, <5>1, <5>2 DEF Health!RecordDown
        <5>4. QED
          BY <3>1, <5>3 DEF Health!Next
      <4>3. check[w].wrote # "resolve"
        BY <3>1, <3>4 DEF IInv, SyncStillValid
      <4>4. QED
        BY <3>1, <4>1, <4>2, <4>3
    <3>5. QED
      BY <3>1, <3>3, <3>4 DEF Result
  <2>2. ASSUME Operate
        PROVE  Health!Next
    BY <2>2 DEF Operate, CreateMonitor, DeleteMonitor, OpenIncident,
                ResolveIncident, Health!Next
  <2>3. CASE \/ \E w \in Worker :
                 \/ \E m \in Monitor : BeginCheck(w, m)
                 \/ InsertEvent(w) \/ UpdateMonitor(w) \/ SyncIncident(w)
                 \/ Abort(w)
             \/ \E t \in 1 .. now : PruneEvents(t)
             \/ UNCHANGED vars
    BY <2>3 DEF BeginCheck, InsertEvent, UpdateMonitor, SyncIncident, Abort,
                PruneEvents, vars, Health!vars
  <2>4. QED
    BY <2>1, <2>2, <2>3 DEF Next, Check, Progress
<1>3. QED
  BY <1>1, <1>2, ChecksTypeOK, ChecksInvariant, PTL
     DEF Spec, ImplementsHealth, Health!Spec

(* In MonitorHealth every operation leaves the variables in their types. *)
THEOREM HealthTypeOK == Health!Spec => []Health!TypeOK
<1> USE DEF Health!TypeOK, Health!Row, Health!MonitorStatus,
            Health!IncidentStatus
<1>1. Health!Init => Health!TypeOK
  BY DEF Health!Init, Health!NoRow
<1>2. Health!TypeOK /\ [Health!Next]_(Health!vars) => Health!TypeOK'
  <2> SUFFICES ASSUME Health!TypeOK, [Health!Next]_(Health!vars)
               PROVE  Health!TypeOK'
    OBVIOUS
  <2> USE DEF Health!OpenRow, Health!Unused, Health!Resolve, Health!Unlink
  <2>1. ASSUME NEW m \in Monitor, Health!CreateMonitor(m)
        PROVE  Health!TypeOK'
    BY <2>1 DEF Health!CreateMonitor
  <2>2. ASSUME NEW m \in Monitor, Health!DeleteMonitor(m)
        PROVE  Health!TypeOK'
    BY <2>2 DEF Health!DeleteMonitor
  <2>3. ASSUME NEW m \in Monitor, Health!RecordUp(m)
        PROVE  Health!TypeOK'
    BY <2>3 DEF Health!RecordUp, Health!OpenOn
  <2>4. ASSUME NEW m \in Monitor, Health!RecordDown(m)
        PROVE  Health!TypeOK'
    BY <2>4 DEF Health!RecordDown
  <2>5. ASSUME NEW m \in Monitor \cup {NoMonitor}, Health!OpenIncident(m)
        PROVE  Health!TypeOK'
    BY <2>5 DEF Health!OpenIncident
  <2>6. ASSUME NEW i \in Incident, Health!ResolveIncident(i)
        PROVE  Health!TypeOK'
    BY <2>6 DEF Health!ResolveIncident
  <2>7. CASE UNCHANGED Health!vars
    BY <2>7 DEF Health!vars
  <2>8. QED
    BY <2>1, <2>2, <2>3, <2>4, <2>5, <2>6, <2>7 DEF Health!Next
<1>3. QED
  BY <1>1, <1>2, PTL DEF Health!Spec

(* In MonitorHealth there is at most one open incident per monitor, recovery
   closes what a check opened, a monitor that is down has an incident or a
   waiver, and no incident points at a deleted monitor. *)
THEOREM HealthInvariant == Health!Spec => []Health!Inv
<1> USE DEF Health!Inv, Health!OneOpenPerMonitor, Health!RecoveryResolves,
            Health!DownIsTracked, Health!LinksAreLive, Health!Live,
            Health!Open, Health!OpenOn
<1>1. Health!Init => Health!Inv
  BY DEF Health!Init, Health!NoRow
<1>2. Health!TypeOK /\ Health!Inv /\ [Health!Next]_(Health!vars) => Health!Inv'
  <2> SUFFICES ASSUME Health!TypeOK, Health!Inv, [Health!Next]_(Health!vars)
               PROVE  Health!Inv'
    OBVIOUS
  <2> USE CheckAssumption DEF Health!TypeOK, Health!Row, Health!MonitorStatus,
                              Health!IncidentStatus
  <2>1. ASSUME NEW m \in Monitor, Health!CreateMonitor(m)
        PROVE  Health!Inv'
    BY <2>1 DEF Health!CreateMonitor
  <2>2. ASSUME NEW m \in Monitor, Health!DeleteMonitor(m)
        PROVE  Health!Inv'
    BY <2>2 DEF Health!DeleteMonitor, Health!Unlink
  <2>3. ASSUME NEW m \in Monitor, Health!RecordUp(m)
        PROVE  Health!Inv'
    BY <2>3 DEF Health!RecordUp, Health!Resolve
  <2>4. ASSUME NEW m \in Monitor, Health!RecordDown(m)
        PROVE  Health!Inv'
    BY <2>4 DEF Health!RecordDown, Health!OpenRow, Health!Unused
  <2>5. ASSUME NEW m \in Monitor \cup {NoMonitor}, Health!OpenIncident(m)
        PROVE  Health!Inv'
    BY <2>5 DEF Health!OpenIncident, Health!OpenRow, Health!Unused
  <2>6. ASSUME NEW i \in Incident, Health!ResolveIncident(i)
        PROVE  Health!Inv'
    BY <2>6 DEF Health!ResolveIncident, Health!Unused
  <2>7. CASE UNCHANGED Health!vars
    BY <2>7 DEF Health!vars
  <2>8. QED
    BY <2>1, <2>2, <2>3, <2>4, <2>5, <2>6, <2>7 DEF Health!Next
<1>3. QED
  BY <1>1, <1>2, HealthTypeOK, PTL DEF Health!Spec

(* What MonitorHealth promises, the transactions keep. *)
THEOREM ChecksKeepHealth == Spec => []HealthInv
BY HealthInvariant, ChecksImplementHealth, PTL DEF ImplementsHealth, HealthInv

(* The status and the time in a monitor's row are those of one of its check
   events, or of one that pruning removed and that was older than all the
   events left. *)
THEOREM ChecksSummary == Spec => []SummaryIsOneCheck
<1> USE DEF SummaryIsOneCheck
<1>1. Init => SummaryIsOneCheck
  BY DEF Init, Health!Init, Result
<1>2. TypeOK /\ SummaryIsOneCheck /\ [Next]_vars => SummaryIsOneCheck'
  <2> SUFFICES ASSUME TypeOK, SummaryIsOneCheck, [Next]_vars
               PROVE  SummaryIsOneCheck'
    OBVIOUS
  <2>1. ASSUME NEW w \in Worker, Commit(w)
        PROVE  SummaryIsOneCheck'
    <3> DEFINE m == check[w].monitor
    <3>1. m \in Monitor
      BY <2>1 DEF Commit, TypeOK
    <3>2. /\ [monitor |-> m, status |-> lastStatus'[m],
              at |-> lastCheckedAt'[m]] \in events'
          /\ \A n \in Monitor \ {m} : /\ lastStatus'[n] = lastStatus[n]
                                       /\ lastCheckedAt'[n] = lastCheckedAt[n]
          /\ events \subseteq events'
          /\ \A e \in events' \ events : e.monitor = m
      BY <2>1, <3>1 DEF Commit, CommitMonitor, CommitEvent, TypeOK,
                        Health!TypeOK
    <3>3. QED
      BY <3>1, <3>2
  <2>2. ASSUME NEW m \in Monitor, CreateMonitor(m)
        PROVE  SummaryIsOneCheck'
    BY <2>2 DEF CreateMonitor, Health!CreateMonitor, TypeOK, Health!TypeOK,
                Result
  <2>3. ASSUME NEW m \in Monitor, DeleteMonitor(m)
        PROVE  SummaryIsOneCheck'
    BY <2>3 DEF DeleteMonitor, Health!DeleteMonitor, TypeOK, Health!TypeOK,
                Result
  <2>4. ASSUME NEW t \in 1 .. now, PruneEvents(t)
        PROVE  SummaryIsOneCheck'
    <3> SUFFICES ASSUME NEW m \in Monitor, lastStatus[m] \in Result
                 PROVE  LET summary == [monitor |-> m, status |-> lastStatus[m],
                                        at |-> lastCheckedAt[m]]
                        IN  \/ summary \in events'
                            \/ \A e \in events' : e.monitor = m =>
                                   e.at > lastCheckedAt[m]
      BY <2>4 DEF PruneEvents
    <3> DEFINE summary == [monitor |-> m, status |-> lastStatus[m],
                           at |-> lastCheckedAt[m]]
    <3>1. /\ events' = {e \in events : e.at >= t}
          /\ t \in Nat /\ lastCheckedAt[m] \in Nat
          /\ \A e \in events : e.at \in Nat
      BY <2>4 DEF PruneEvents, TypeOK, Event
    <3>2. CASE summary \in events /\ lastCheckedAt[m] >= t
      BY <3>1, <3>2
    <3>3. CASE lastCheckedAt[m] < t
      BY <3>1, <3>3
    <3>4. CASE \A e \in events : e.monitor = m => e.at > lastCheckedAt[m]
      BY <3>1, <3>4
    <3>5. QED
      BY <3>1, <3>2, <3>3, <3>4
  <2>5. CASE UNCHANGED <<lastStatus, lastCheckedAt, events>>
    BY <2>5
  <2>6. QED
    BY <2>1, <2>2, <2>3, <2>4, <2>5
       DEF Next, Check, Progress, Operate, vars, BeginCheck, InsertEvent,
           UpdateMonitor, SyncIncident, Abort, OpenIncident, ResolveIncident,
           Health!OpenIncident, Health!ResolveIncident
<1>3. QED
  BY <1>1, <1>2, ChecksTypeOK, PTL DEF Spec

(* A recorded event belongs to a monitor that exists: it is committed together
   with the monitor's row, which is there by MonitorIsHeld, and a deletion takes
   the events with it. *)
THEOREM ChecksEvents == Spec => []EventsHaveMonitor
<1> USE DEF EventsHaveMonitor, Health!Live
<1>1. Init => EventsHaveMonitor
  BY DEF Init
<1>2. TypeOK /\ EventsHaveMonitor /\ [Next]_vars => EventsHaveMonitor'
  <2> SUFFICES ASSUME TypeOK, EventsHaveMonitor, [Next]_vars
               PROVE  EventsHaveMonitor'
    OBVIOUS
  <2>0. \A e \in events : e.monitor \in Monitor
    BY DEF TypeOK, Event
  <2>1. ASSUME NEW w \in Worker, Commit(w)
        PROVE  EventsHaveMonitor'
    <3> DEFINE m == check[w].monitor
    <3>1. m \in Monitor /\ check[w].status \in Result
      BY <2>1 DEF Commit, TypeOK, Activity
    <3>2. /\ lastStatus'[m] \in Result
          /\ \A n \in Monitor \ {m} : lastStatus'[n] = lastStatus[n]
          /\ \A e \in events' : e \in events \/ e.monitor = m
      BY <2>1, <3>1 DEF Commit, CommitMonitor, CommitEvent, TypeOK,
                        Health!TypeOK
    <3>3. QED
      BY <2>0, <3>2 DEF Result
  <2>2. ASSUME NEW m \in Monitor, CreateMonitor(m)
        PROVE  EventsHaveMonitor'
    BY <2>0, <2>2 DEF CreateMonitor, Health!CreateMonitor, TypeOK,
                      Health!TypeOK
  <2>3. ASSUME NEW m \in Monitor, DeleteMonitor(m)
        PROVE  EventsHaveMonitor'
    BY <2>0, <2>3 DEF DeleteMonitor, Health!DeleteMonitor, TypeOK,
                      Health!TypeOK
  <2>4. ASSUME NEW t \in 1 .. now, PruneEvents(t)
        PROVE  EventsHaveMonitor'
    BY <2>4 DEF PruneEvents
  <2>5. CASE UNCHANGED <<lastStatus, events>>
    BY <2>5
  <2>6. QED
    BY <2>1, <2>2, <2>3, <2>4, <2>5
       DEF Next, Check, Progress, Operate, vars, BeginCheck, InsertEvent,
           UpdateMonitor, SyncIncident, Abort, OpenIncident, ResolveIncident,
           Health!OpenIncident, Health!ResolveIncident
<1>3. QED
  BY <1>1, <1>2, ChecksTypeOK, PTL DEF Spec

=============================================================================
