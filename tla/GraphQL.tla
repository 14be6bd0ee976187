------------------------------ MODULE GraphQL -------------------------------
(***************************************************************************)
(* How an operation is executed: the generated server (graph/generated)    *)
(* runs the fields of a mutation one after the other and those of a query  *)
(* all at once, each by its resolver (graph/schema.resolvers.go), which    *)
(* asks the abilities (internal/ability) first.  There is no transaction   *)
(* around a mutation: a field that fails neither undoes those before it    *)
(* nor keeps those after it from running, yet a single null among its      *)
(* fields makes the whole of its data null.                                *)
(*                                                                         *)
(* Of the database there is one monitor's name and URL, and the incidents  *)
(* on it: enough for one request to be in another's way.  What a resolver  *)
(* does about jobs, cache and events is in JobRuns, MaintenanceRuns,       *)
(* DashboardCache and EventStream.  The user of a request is what Sessions *)
(* finds, once, before the execution begins.  The formulas of the          *)
(* specification bear its name, so that a module may extend Sessions too.  *)
(***************************************************************************)
EXTENDS Naturals, Sequences, Schema, Requests

MutationField == {"createMonitor", "deleteMonitor", "enqueueCheck",
                  "openIncident", "resolveIncident", "runMaintenanceTask"}

QueryField == {"viewer", "dashboard", "monitors", "checkEvents", "incidents",
               "jobRuns", "maintenanceTasks", "maintenanceRuns"}

CONSTANTS
    Role,           \* users.role
    Operation       \* operations the clients send: the bound on their fields

ASSUME GraphQLAssumption ==
    /\ Nobody \notin User
    /\ Role \in [User -> {"admin", "operator", "viewer"}]
    /\ Operation \subseteq
          [type : {"mutation"}, fields : Seq(MutationField)]
             \cup [type : {"query"}, fields : Seq(QueryField)]

VARIABLES
    execution,      \* each request: its operation, user and results so far
    monitor,        \* whether a monitor with the name and URL exists
    open,           \* whether it has an open incident
    incidents,      \* whether any incident exists: none is ever removed
    effects         \* history: the writes, as <<request, field>>, in order

executionVars == <<execution, monitor, open, incidents, effects>>

store == <<monitor, open, incidents, effects>>

Unbegun == [pc |-> "unsent", type |-> "query", fields |-> <<>>,
            results |-> <<>>, user |-> Nobody, gone |-> FALSE]

Positions(r) == DOMAIN execution[r].fields

(* ability.Can *)
Can(role, action, resource) ==
    \/ role = "admin"
    \/ role = "operator" /\ (resource = "maintenance" => action = "read")
    \/ role = "viewer" /\ action = "read"

(* Mutant of Require: whoever is logged in may do it. *)
RequireUser(r, action, resource) == execution[r].user # Nobody

(* ability.Require *)
Require(r, action, resource) ==
    /\ execution[r].user # Nobody
    /\ Can(Role[execution[r].user], action, resource)

(* Mutant of MayStart: a mutation's fields run at once, like a query's. *)
MayStartAny(r, i) == execution[r].results[i] = "pending"

(* The fields of a mutation are executed in their order, those of a query in
   any. *)
MayStart(r, i) ==
    /\ execution[r].results[i] = "pending"
    /\ execution[r].type = "mutation" =>
          \A j \in 1 .. i - 1 : execution[r].results[j] # "pending"

Starts(r, i, field) ==
    /\ execution[r].pc = "executing"
    /\ execution[r].fields[i] = field
    /\ MayStart(r, i)

Result(r, i, result) ==
    execution' = [execution EXCEPT ![r].results[i] = result]

NoEffect == UNCHANGED store

Effect(r, i) == effects' = Append(effects, <<r, i>>)

Denied(r, i, action, resource) ==
    /\ ~ Require(r, action, resource)
    /\ Result(r, i, "denied")
    /\ NoEffect

(* The resolver finds fault with its arguments. *)
Refused(r, i) == Result(r, i, "refused") /\ NoEffect

(* internalError: the call reports an error and has changed nothing (an id
   that is no UUID, text the database does not take, no connection), as every
   call does once the client is gone and the context cancelled. *)
Failed(r, i) == Result(r, i, "internal") /\ NoEffect

Calls(r) == ~ execution[r].gone

(* A row of type T, or a list of such rows, becomes a value. *)
Row(r, i, T) ==
    \E nulls \in SUBSET Pointers[T] : Result(r, i, Marshal(T, nulls))

(* The call had its effect.  It or the next one may report an error all the
   same. *)
Written(r, i, T) ==
    /\ Effect(r, i)
    /\ Row(r, i, T) \/ Result(r, i, "internal")

-----------------------------------------------------------------------------

ExecutionInit ==
    /\ execution = [r \in Request |-> Unbegun]
    /\ monitor \in BOOLEAN     \* seeded, or not
    /\ open = FALSE
    /\ incidents = FALSE
    /\ effects = <<>>

(* Exec: the user is in the context from here on. *)
Begin(r) ==
    /\ execution[r].pc = "unsent"
    /\ \E op \in Operation, u \in User \cup {Nobody} :
          execution' = [execution EXCEPT
             ![r] = [pc |-> "executing", type |-> op.type,
                     fields |-> op.fields,
                     results |-> [i \in DOMAIN op.fields |-> "pending"],
                     user |-> u, gone |-> FALSE]]
    /\ UNCHANGED store

(* The client leaves and the request's context is cancelled. *)
Leave(r) ==
    /\ execution[r].pc = "executing"
    /\ ~ execution[r].gone
    /\ execution' = [execution EXCEPT ![r].gone = TRUE]
    /\ UNCHANGED store

(* Fields that have arguments. *)
ArgumentField == MutationField \cup {"checkEvents"}

(* The arguments do not unmarshal: the resolver is not called, nor its ability
   asked. *)
BadArguments(r, i) ==
    /\ execution[r].fields[i] \in ArgumentField
    /\ Starts(r, i, execution[r].fields[i])
    /\ Refused(r, i)

(* Another monitor with the name and URL is an internal error
   (monitors_name_url_idx). *)
CreateMonitor(r, i) ==
    /\ Starts(r, i, "createMonitor")
    /\ \/ Denied(r, i, "manage", "monitor")
       \/ /\ Require(r, "manage", "monitor")
          /\ \/ Refused(r, i)
             \/ Failed(r, i)
             \/ /\ Calls(r) /\ monitor
                /\ Result(r, i, "internal") /\ NoEffect
             \/ /\ Calls(r) /\ ~ monitor
                /\ monitor' = TRUE
                /\ Written(r, i, "Monitor")
                /\ UNCHANGED <<open, incidents>>

(* Mutant of RemoveMonitor: its incidents still name it. *)
RemoveMonitorOnly == monitor' = FALSE /\ UNCHANGED <<open, incidents>>

(* The incidents of a monitor outlive it (ON DELETE SET NULL). *)
RemoveMonitor == monitor' = FALSE /\ open' = FALSE /\ UNCHANGED incidents

(* Deleting what is not there is no error and answers false. *)
DeleteMonitor(r, i) ==
    /\ Starts(r, i, "deleteMonitor")
    /\ \/ Denied(r, i, "manage", "monitor")
       \/ /\ Require(r, "manage", "monitor")
          /\ \/ Failed(r, i)
             \/ /\ Calls(r) /\ ~ monitor
                /\ Result(r, i, "value") /\ NoEffect
             \/ /\ Calls(r) /\ monitor
                /\ RemoveMonitor
                /\ Effect(r, i)
                /\ \E result \in {"value", "internal"} : Result(r, i, result)

(* Enqueue: an error may leave a job behind (JobRuns). *)
EnqueueCheck(r, i) ==
    /\ Starts(r, i, "enqueueCheck")
    /\ \/ Denied(r, i, "run", "job")
       \/ /\ Require(r, "run", "job")
          /\ \/ Failed(r, i)
             \/ Calls(r) /\ ~ monitor /\ Refused(r, i)
             \/ /\ Calls(r) /\ monitor
                /\ Effect(r, i)
                /\ UNCHANGED <<monitor, open, incidents>>
                /\ \E result \in {"value", "internal"} : Result(r, i, result)

(* A second open incident on a monitor is an internal error
   (incidents_one_open_per_monitor_idx); one on no monitor is always new. *)
OpenIncident(r, i) ==
    /\ Starts(r, i, "openIncident")
    /\ \/ Denied(r, i, "manage", "incident")
       \/ /\ Require(r, "manage", "incident")
          /\ \/ Refused(r, i)
             \/ Failed(r, i)
             \/ /\ Calls(r)
                /\ \/ open' = open
                   \/ monitor /\ ~ open /\ open' = TRUE
                /\ incidents' = TRUE
                /\ Written(r, i, "Incident")
                /\ UNCHANGED monitor

(* An incident that is resolved may be resolved again. *)
ResolveIncident(r, i) ==
    /\ Starts(r, i, "resolveIncident")
    /\ \/ Denied(r, i, "manage", "incident")
       \/ /\ Require(r, "manage", "incident")
          /\ \/ Failed(r, i)
             \/ Calls(r) /\ Refused(r, i)
             \/ /\ Calls(r) /\ incidents
                /\ open' \in {open, FALSE}
                /\ Written(r, i, "Incident")
                /\ UNCHANGED <<monitor, incidents>>

(* A run is a value even if its job could not be queued (MaintenanceRuns). *)
RunMaintenanceTask(r, i) ==
    /\ Starts(r, i, "runMaintenanceTask")
    /\ \/ Denied(r, i, "run", "maintenance")
       \/ /\ Require(r, "run", "maintenance")
          /\ \/ Refused(r, i)
             \/ Failed(r, i)
             \/ /\ Calls(r)
                /\ Written(r, i, "MaintenanceRun")
                /\ UNCHANGED <<monitor, open, incidents>>

Viewer(r, i) ==
    /\ Starts(r, i, "viewer")
    /\ IF execution[r].user = Nobody THEN Result(r, i, "silent")
                                   ELSE Row(r, i, "CurrentUser")
    /\ NoEffect

Read(r, i, resource, T) ==
    \/ Denied(r, i, "read", resource)
    \/ /\ Require(r, "read", resource)
       /\ \/ Failed(r, i)
          \/ Calls(r) /\ Row(r, i, T) /\ NoEffect

Dashboard(r, i) ==
    Starts(r, i, "dashboard") /\ Read(r, i, "monitor", "Dashboard")

Monitors(r, i) == Starts(r, i, "monitors") /\ Read(r, i, "monitor", "Monitor")

CheckEvents(r, i) ==
    /\ Starts(r, i, "checkEvents")
    /\ \/ Denied(r, i, "read", "monitor")
       \/ /\ Require(r, "read", "monitor")
          /\ \/ Failed(r, i)
             \/ Calls(r) /\ ~ monitor /\ Refused(r, i)
             \/ Calls(r) /\ monitor /\ Row(r, i, "CheckEvent") /\ NoEffect

Incidents(r, i) ==
    Starts(r, i, "incidents") /\ Read(r, i, "incident", "Incident")

JobRuns(r, i) == Starts(r, i, "jobRuns") /\ Read(r, i, "job", "JobRun")

(* maintenance.Tasks: no call. *)
MaintenanceTasks(r, i) ==
    /\ Starts(r, i, "maintenanceTasks")
    /\ \/ Denied(r, i, "read", "maintenance")
       \/ /\ Require(r, "read", "maintenance")
          /\ Row(r, i, "MaintenanceTask")
          /\ NoEffect

MaintenanceRuns(r, i) ==
    /\ Starts(r, i, "maintenanceRuns")
    /\ Read(r, i, "maintenance", "MaintenanceRun")

Mutation(r, i) ==
    \/ CreateMonitor(r, i) \/ DeleteMonitor(r, i) \/ EnqueueCheck(r, i)
    \/ OpenIncident(r, i) \/ ResolveIncident(r, i) \/ RunMaintenanceTask(r, i)

Query(r, i) ==
    \/ Viewer(r, i) \/ Dashboard(r, i) \/ Monitors(r, i) \/ CheckEvents(r, i)
    \/ Incidents(r, i) \/ JobRuns(r, i) \/ MaintenanceTasks(r, i)
    \/ MaintenanceRuns(r, i)

Respond(r) ==
    /\ execution[r].pc = "executing"
    /\ \A i \in Positions(r) : execution[r].results[i] # "pending"
    /\ execution' = [execution EXCEPT ![r].pc = "answered"]
    /\ UNCHANGED store

ExecutionNext ==
    \E r \in Request :
       \/ Begin(r) \/ Leave(r) \/ Respond(r)
       \/ \E i \in Positions(r) :
             Mutation(r, i) \/ Query(r, i) \/ BadArguments(r, i)

ExecutionSpec == ExecutionInit /\ [][ExecutionNext]_executionVars

-----------------------------------------------------------------------------

(* Root fields whose null makes all the data null. *)
MutationInvalid == MutationField

QueryInvalid == {"dashboard", "monitors", "checkEvents", "incidents",
                 "jobRuns", "maintenanceTasks", "maintenanceRuns"}

DataIsNull(r) ==
    \E i \in Positions(r) :
       /\ execution[r].fields[i] \in MutationInvalid \cup QueryInvalid
       /\ execution[r].results[i] # "value"

Errors(r) ==
    {i \in Positions(r) :
        execution[r].results[i] \in
            {"denied", "refused", "internal", "reported"}}

-----------------------------------------------------------------------------

Outcomes == {"pending", "denied", "refused", "internal", "value", "reported",
             "silent"}

Execution ==
    [pc : {"unsent", "executing", "answered"},
     type : {"query", "mutation"},
     fields : {<<>>} \cup {op.fields : op \in Operation},
     results : Seq(Outcomes),
     user : User \cup {Nobody},
     gone : BOOLEAN]

(* Requests, store and history have their types. *)
ExecutionTypeOK ==
    /\ execution \in [Request -> Execution]
    /\ \A r \in Request : DOMAIN execution[r].results = Positions(r)
    /\ {monitor, open, incidents} \subseteq BOOLEAN
    /\ open => monitor /\ incidents
    /\ effects \in Seq(Request \X (Nat \ {0}))

(* What each role may change, as ability_test.go and the seeded users have
   it: an operator all but maintenance, a viewer nothing. *)
MayChange(u, field) ==
    /\ u # Nobody
    /\ \/ Role[u] = "admin"
       \/ Role[u] = "operator" /\ field # "runMaintenanceTask"

(* No request writes what its user's role does not permit, whichever of its
   fields were denied before; and the writes of a mutation happen in the order
   of its fields, each after the end of the one before (graph resolvers,
   ability.Require, _Mutation). *)
EffectsAreAllowed ==
    \A k \in DOMAIN effects :
       LET r == effects[k][1]
           i == effects[k][2]
       IN  /\ i \in Positions(r)
           /\ MayChange(execution[r].user, execution[r].fields[i])
           /\ \A j \in 1 .. i - 1 : execution[r].results[j] # "pending"
           /\ \A l \in 1 .. k - 1 : effects[l][1] = r => effects[l][2] < i

(* A response whose data is null says why: whatever fields of the rows were
   null, no object is dropped without an error (the executors, the field
   functions and the models of each type agree), and a request with neither
   denial nor failure has its data. *)
NullsAreExplained ==
    \A r \in Request :
       execution[r].pc = "answered" /\ DataIsNull(r) => Errors(r) # {}

=============================================================================
