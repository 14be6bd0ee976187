------------------------------- MODULE Schema -------------------------------
(***************************************************************************)
(* The object types GraphQL answers with, as far as null goes.  Three      *)
(* places decide about a field of a type, and nothing but the generator    *)
(* keeps them together:                                                    *)
(*   Pointers  the Go struct (internal/models): what may be nil at all;    *)
(*   Invalid   the type's executor in the generated server: a null there   *)
(*             makes the whole object null;                                *)
(*   Reported  the type's field functions: a null there adds an error to   *)
(*             the response.                                               *)
(***************************************************************************)

CheckEventPointers     == {"latencyMs", "statusCode", "message"}
CurrentUserPointers    == {}
DashboardPointers      == {"avgLatencyMs"}
IncidentPointers       == {"monitorId", "resolvedAt"}
JobRunPointers         == {"detail", "startedAt", "finishedAt"}
MaintenanceRunPointers == {"output", "finishedAt"}
MaintenanceTaskPointers == {}
MonitorPointers        == {"lastLatencyMs", "lastCheckedAt"}

CheckEventInvalid      == {"id", "monitorId", "status", "checkedAt"}
CurrentUserInvalid     == {"id", "email", "name", "role"}
DashboardInvalid       == {"monitorCount", "upCount", "downCount",
                           "openIncidentCount"}

(* Mutant of IncidentInvalid: no incident without a monitor. *)
IncidentWithMonitor    == {"id", "monitorId", "title", "status", "severity",
                           "openedAt"}

IncidentInvalid        == {"id", "title", "status", "severity", "openedAt"}
JobRunInvalid          == {"id", "jobType", "status", "createdAt"}
MaintenanceRunInvalid  == {"id", "taskName", "status", "startedAt"}
MaintenanceTaskInvalid == {"name", "description", "dangerous"}
MonitorInvalid         == {"id", "name", "url", "method", "expectedStatus",
                           "intervalSeconds", "enabled", "lastStatus",
                           "createdAt", "updatedAt"}

CheckEventReported     == {"id", "monitorId", "status", "checkedAt"}
CurrentUserReported    == {"id", "email", "name", "role"}
DashboardReported      == {"monitorCount", "upCount", "downCount",
                           "openIncidentCount"}
IncidentReported       == {"id", "title", "status", "severity", "openedAt"}
JobRunReported         == {"id", "jobType", "status", "createdAt"}
MaintenanceRunReported == {"id", "taskName", "status", "startedAt"}
MaintenanceTaskReported == {"name", "description", "dangerous"}
MonitorReported        == {"id", "name", "url", "method", "expectedStatus",
                           "intervalSeconds", "enabled", "lastStatus",
                           "createdAt", "updatedAt"}

Type == {"CheckEvent", "CurrentUser", "Dashboard", "Incident", "JobRun",
         "MaintenanceRun", "MaintenanceTask", "Monitor"}

Pointers ==
    [CheckEvent |-> CheckEventPointers, CurrentUser |-> CurrentUserPointers,
     Dashboard |-> DashboardPointers, Incident |-> IncidentPointers,
     JobRun |-> JobRunPointers, MaintenanceRun |-> MaintenanceRunPointers,
     MaintenanceTask |-> MaintenanceTaskPointers, Monitor |-> MonitorPointers]

Invalid ==
    [CheckEvent |-> CheckEventInvalid, CurrentUser |-> CurrentUserInvalid,
     Dashboard |-> DashboardInvalid, Incident |-> IncidentInvalid,
     JobRun |-> JobRunInvalid, MaintenanceRun |-> MaintenanceRunInvalid,
     MaintenanceTask |-> MaintenanceTaskInvalid, Monitor |-> MonitorInvalid]

Reported ==
    [CheckEvent |-> CheckEventReported, CurrentUser |-> CurrentUserReported,
     Dashboard |-> DashboardReported, Incident |-> IncidentReported,
     JobRun |-> JobRunReported, MaintenanceRun |-> MaintenanceRunReported,
     MaintenanceTask |-> MaintenanceTaskReported, Monitor |-> MonitorReported]

(* What becomes of an object of type T whose fields in nulls are null: the
   object, a null with an error, or a null that nothing explains. *)
Marshal(T, nulls) ==
    IF nulls \cap Invalid[T] = {} THEN "value"
    ELSE IF nulls \cap Reported[T] # {} THEN "reported"
    ELSE "silent"

=============================================================================
