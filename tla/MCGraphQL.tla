----------------------------- MODULE MCGraphQL ------------------------------
EXTENDS GraphQL, TLC

CONSTANTS admin, operator, viewer

MCRole == admin :> "admin" @@ operator :> "operator" @@ viewer :> "viewer"

MCOperation ==
    [type : {"mutation"},
     fields : {<<"createMonitor", "runMaintenanceTask">>,
               <<"openIncident", "resolveIncident">>,
               <<"enqueueCheck", "deleteMonitor">>}]
    \cup
    [type : {"query"},
     fields : {<<"viewer", "dashboard", "monitors">>,
               <<"checkEvents", "incidents">>,
               <<"jobRuns", "maintenanceTasks", "maintenanceRuns">>}]

Symmetric == Permutations(Request)

=============================================================================
