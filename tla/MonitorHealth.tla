---------------------------- MODULE MonitorHealth ----------------------------
(***************************************************************************)
(* What the console promises about its monitors and incidents, with every  *)
(* operation taken as one atomic step.  The store (internal/db/store.go)   *)
(* promises it through transactions and constraints: MonitorChecks models  *)
(* those statement by statement and is shown to implement this module.     *)
(*                                                                         *)
(* A monitor or an incident is an identifier that is used once.  Of the    *)
(* rows only the columns that decide something are kept; `by' (who opened  *)
(* an incident) and `waived' are history and have no column of their own.  *)
(***************************************************************************)
EXTENDS Naturals, FiniteSets

CONSTANTS
    Monitor,        \* identifiers monitors may get
    Incident,       \* identifiers incidents may get: the bound on incidents
    NoMonitor       \* an incident's NULL monitor_id, no monitor

VARIABLES
    lastStatus,     \* monitors.last_status, or why there is no such row
    incidents,      \* the incidents table
    waived          \* history: monitors whose open incident an operator
                    \* resolved after the last check that left them up or
                    \* with an open incident

vars == <<lastStatus, incidents, waived>>

MonitorStatus  == {"unused", "pending", "up", "down", "deleted"}
IncidentStatus == {"unused", "open", "resolved"}
Row == [status : IncidentStatus, monitor : Monitor \cup {NoMonitor},
        by : {"check", "operator"}]

NoRow == [status |-> "unused", monitor |-> NoMonitor, by |-> "operator"]

(* Mutant of OpenRow: a status the table does not know. *)
OpenedRow(m, who) == [status |-> "opened", monitor |-> m, by |-> who]

OpenRow(m, who) == [status |-> "open", monitor |-> m, by |-> who]

Live(m) == lastStatus[m] \in {"pending", "up", "down"}

Open(i) == incidents[i].status = "open"

OpenOn(m) == {i \in Incident : Open(i) /\ incidents[i].monitor = m}

Unused == {i \in Incident : incidents[i].status = "unused"}

(* The open incidents in S become resolved. *)
Resolve(S) ==
    [i \in Incident |->
        IF i \in S THEN [incidents[i] EXCEPT !.status = "resolved"]
                   ELSE incidents[i]]

(* ON DELETE SET NULL: the incidents of m lose their link and stay as they
   are otherwise. *)
Unlink(m) ==
    [i \in Incident |->
        IF incidents[i].monitor = m
        THEN [incidents[i] EXCEPT !.monitor = NoMonitor]
        ELSE incidents[i]]

-----------------------------------------------------------------------------

Init ==
    /\ lastStatus = [m \in Monitor |-> "unused"]
    /\ incidents = [i \in Incident |-> NoRow]
    /\ waived = {}

CreateMonitor(m) ==
    /\ lastStatus[m] = "unused"
    /\ lastStatus' = [lastStatus EXCEPT ![m] = "pending"]
    /\ UNCHANGED <<incidents, waived>>

(* Mutant of DeleteMonitor: no foreign key, so incidents keep their link. *)
DeleteMonitorOnly(m) ==
    /\ Live(m)
    /\ lastStatus' = [lastStatus EXCEPT ![m] = "deleted"]
    /\ waived' = waived \ {m}
    /\ UNCHANGED incidents

DeleteMonitor(m) ==
    /\ Live(m)
    /\ lastStatus' = [lastStatus EXCEPT ![m] = "deleted"]
    /\ incidents' = Unlink(m)
    /\ waived' = waived \ {m}

(* Mutants of RecordUp and RecordDown: the incidents are left alone. *)
RecordUpOnly(m) ==
    /\ Live(m)
    /\ lastStatus' = [lastStatus EXCEPT ![m] = "up"]
    /\ waived' = waived \ {m}
    /\ UNCHANGED incidents

RecordDownOnly(m) ==
    /\ Live(m)
    /\ lastStatus' = [lastStatus EXCEPT ![m] = "down"]
    /\ UNCHANGED <<incidents, waived>>

(* A check finds m up.  Every incident a check opened is resolved; one an
   operator opened while the check was being recorded may be left open. *)
RecordUp(m) ==
    /\ Live(m)
    /\ lastStatus' = [lastStatus EXCEPT ![m] = "up"]
    /\ \E S \in SUBSET OpenOn(m) :
          /\ \A i \in OpenOn(m) \ S : incidents[i].by = "operator"
          /\ incidents' = Resolve(S)
    /\ waived' = waived \ {m}

(* A check finds m down.  An open incident is kept; without one, one is
   opened, unless an operator has just resolved it. *)
RecordDown(m) ==
    /\ Live(m)
    /\ lastStatus' = [lastStatus EXCEPT ![m] = "down"]
    /\ \/ /\ OpenOn(m) # {}
          /\ waived' = waived \ {m}
          /\ UNCHANGED incidents
       \/ /\ OpenOn(m) = {}
          /\ waived' = waived \ {m}
          /\ \E i \in Unused :
                incidents' = [incidents EXCEPT ![i] = OpenRow(m, "check")]
       \/ /\ OpenOn(m) = {}
          /\ m \in waived
          /\ UNCHANGED <<incidents, waived>>

(* Mutant of OpenIncident: no unique index. *)
OpenAnother(m) ==
    /\ m # NoMonitor => Live(m)
    /\ \E i \in Unused :
          incidents' = [incidents EXCEPT ![i] = OpenRow(m, "operator")]
    /\ UNCHANGED <<lastStatus, waived>>

(* An operator opens an incident, on a monitor that has none open or on no
   monitor at all. *)
OpenIncident(m) ==
    /\ m # NoMonitor => Live(m) /\ OpenOn(m) = {}
    /\ \E i \in Unused :
          incidents' = [incidents EXCEPT ![i] = OpenRow(m, "operator")]
    /\ UNCHANGED <<lastStatus, waived>>

(* An operator resolves an incident; the statement has no condition on its
   status, so resolving again is allowed. *)
ResolveIncident(i) ==
    /\ i \notin Unused
    /\ incidents' = [incidents EXCEPT ![i].status = "resolved"]
    /\ waived' = IF Open(i)
                 THEN waived \cup ({incidents[i].monitor} \ {NoMonitor})
                 ELSE waived
    /\ UNCHANGED lastStatus

Next ==
    \/ \E m \in Monitor : \/ CreateMonitor(m)
                          \/ DeleteMonitor(m)
                          \/ RecordUp(m)
                          \/ RecordDown(m)
    \/ \E m \in Monitor \cup {NoMonitor} : OpenIncident(m)
    \/ \E i \in Incident : ResolveIncident(i)

Spec == Init /\ [][Next]_vars

-----------------------------------------------------------------------------

(* Every variable has its type: the rows of the two tables and the history. *)
TypeOK ==
    /\ lastStatus \in [Monitor -> MonitorStatus]
    /\ incidents \in [Incident -> Row]
    /\ waived \subseteq Monitor

(* A monitor never has two open incidents, whoever opens them (checks and
   operators, through InsertCheckEvent and OpenIncident). *)
OneOpenPerMonitor ==
    \A i, j \in Incident :
        /\ Open(i) /\ Open(j)
        /\ incidents[i].monitor = incidents[j].monitor
        /\ incidents[i].monitor # NoMonitor
        => i = j

(* An incident that a check opened is open only as long as its monitor is
   down: recovery closes it (syncIncidentForCheck, "up"). *)
RecoveryResolves ==
    \A i \in Incident :
        /\ Open(i)
        /\ incidents[i].by = "check"
        /\ incidents[i].monitor # NoMonitor
        => lastStatus[incidents[i].monitor] = "down"

(* A monitor shown as down has an open incident, unless an operator resolved
   it since (syncIncidentForCheck, "down", and ResolveIncident). *)
DownIsTracked ==
    \A m \in Monitor :
        lastStatus[m] = "down" => OpenOn(m) # {} \/ m \in waived

(* An incident points at a monitor that exists or at none (the foreign key,
   ON DELETE SET NULL). *)
LinksAreLive ==
    \A i \in Incident :
        incidents[i].monitor # NoMonitor => Live(incidents[i].monitor)

(* The conjunction of the invariants, which is inductive together with
   TypeOK. *)
Inv ==
    /\ OneOpenPerMonitor
    /\ RecoveryResolves
    /\ DownIsTracked
    /\ LinksAreLive

=============================================================================
