---------------------------- MODULE DashboardCache ----------------------------
(***************************************************************************)
(* The cached dashboard: one entry in Redis that the dashboard query reads *)
(* through (Dashboard in graph/schema.resolvers.go, internal/cache), that  *)
(* every write to monitors, incidents and job runs deletes, and that the   *)
(* maintenance jobs clear.                                                 *)
(*                                                                         *)
(* Nothing ties the entry to the database: a request reads the database    *)
(* and sets the entry in two steps, a writer commits and deletes it in two *)
(* steps, and errors of Redis are ignored.  The only thing that always     *)
(* ends a wrong entry is its time to live.                                 *)
(*                                                                         *)
(* A summary is abstracted to whether it is still what the database says,  *)
(* and if not, for how long it has not been.  Time passes in ticks.        *)
(***************************************************************************)
EXTENDS Naturals

CONSTANTS
    Reader,         \* requests for the dashboard
    Writer,         \* resolvers and workers
    TTL,            \* the entry's time to live: ten seconds, in ticks
    MaxFill,        \* bound: ticks from a request's read to its cache write
    MaxCommits,     \* bound: writes to the database
    MaxClears       \* bound: rebuild_rollups and clear_cache jobs

ASSUME CacheAssumption ==
    /\ TTL \in Nat \ {0}
    /\ MaxFill \in Nat
    /\ MaxCommits \in Nat
    /\ MaxClears \in Nat

VARIABLES
    entry,      \* the value of cache:dashboard in Redis
    request,    \* request[r]: the summary r has read, on its way to Redis
    writer,     \* writer[w]: whether w has committed and not deleted yet
    commits,    \* writes committed so far
    cleared     \* maintenance jobs that cleared the cache so far

vars == <<entry, request, writer, commits, cleared>>

(* An age nobody looks beyond. *)
MaxAge == TTL + MaxFill

(* A summary as read from the database: whether it is current, since how many
   ticks it is not, and how often the cache had been cleared by then. *)
Summary == [current : BOOLEAN, age : 0 .. MaxAge, epoch : Nat]

NoEntry == [kind |-> "none"]

Entry == [kind : {"cached"}, summary : Summary, ttl : 1 .. TTL]

NoRequest == [kind |-> "none"]

Request == [kind : {"read"}, summary : Summary, elapsed : 0 .. MaxFill]

Cached(summary, ttl) == [kind |-> "cached", summary |-> summary, ttl |-> ttl]

Pending(summary, elapsed) ==
    [kind |-> "read", summary |-> summary, elapsed |-> elapsed]

Found == entry.kind = "cached"

Busy(r) == request[r].kind = "read"

Outdated(s) == [s EXCEPT !.current = FALSE]

Older(s) == IF s.current \/ s.age = MaxAge THEN s
                                           ELSE [s EXCEPT !.age = s.age + 1]

-----------------------------------------------------------------------------

Init ==
    /\ entry = NoEntry
    /\ request = [r \in Reader |-> NoRequest]
    /\ writer = [w \in Writer |-> "idle"]
    /\ commits = 0
    /\ cleared = 0

(* The query finds no entry, or Redis does not answer, and reads the database.
   A query that finds an entry answers with it and changes nothing. *)
ReadDatabase(r) ==
    /\ ~ Busy(r)
    /\ request' = [request EXCEPT ![r] =
          Pending([current |-> TRUE, age |-> 0, epoch |-> cleared], 0)]
    /\ UNCHANGED <<entry, writer, commits, cleared>>

(* Mutants of SetEntry: no time to live, and one in another unit. *)
SetForever(r) ==
    /\ Busy(r)
    /\ entry' = Cached(request[r].summary, 0)
    /\ request' = [request EXCEPT ![r] = NoRequest]
    /\ UNCHANGED <<writer, commits, cleared>>

SetTooLong(r) ==
    /\ Busy(r)
    /\ entry' = Cached(request[r].summary, 2 * TTL)
    /\ request' = [request EXCEPT ![r] = NoRequest]
    /\ UNCHANGED <<writer, commits, cleared>>

(* It sets the entry, whatever has happened since; an error is ignored. *)
SetEntry(r) ==
    /\ Busy(r)
    /\ \/ entry' = Cached(request[r].summary, TTL)
       \/ UNCHANGED entry
    /\ request' = [request EXCEPT ![r] = NoRequest]
    /\ UNCHANGED <<writer, commits, cleared>>

(* A write commits: every summary read before is outdated. *)
Commit(w) ==
    /\ commits < MaxCommits
    /\ writer[w] = "idle"
    /\ commits' = commits + 1
    /\ writer' = [writer EXCEPT ![w] = "committed"]
    /\ entry' = IF Found THEN Cached(Outdated(entry.summary), entry.ttl)
                               ELSE entry
    /\ request' = [r \in Reader |->
                     IF Busy(r)
                     THEN Pending(Outdated(request[r].summary),
                                  request[r].elapsed)
                     ELSE request[r]]
    /\ UNCHANGED cleared

(* The writer deletes the entry. The call may fail, which is ignored, and is
   never made if the writer stops or was told that the commit had failed. *)
DeleteEntry(w) ==
    /\ writer[w] = "committed"
    /\ entry' \in {entry, NoEntry}
    /\ writer' = [writer EXCEPT ![w] = "idle"]
    /\ UNCHANGED <<request, commits, cleared>>

(* A rebuild_rollups or clear_cache job deletes the entry and succeeds. *)
Clear ==
    /\ cleared < MaxClears
    /\ cleared' = cleared + 1
    /\ entry' = NoEntry
    /\ UNCHANGED <<request, writer, commits>>

(* Redis removes an entry when its time is up; an entry set with no time to
   live would stay. *)
Expires == Found /\ entry.ttl = 1

(* Time passes.  By the bound a request sets the entry before MaxFill ticks
   have passed. *)
Tick ==
    /\ \A r \in Reader : Busy(r) => request[r].elapsed < MaxFill
    /\ Found \/ \E r \in Reader : Busy(r)
    /\ entry' = IF Found /\ ~ Expires
                THEN Cached(Older(entry.summary),
                            IF entry.ttl = 0 THEN 0 ELSE entry.ttl - 1)
                ELSE NoEntry
    /\ request' = [r \in Reader |->
                     IF Busy(r)
                     THEN Pending(Older(request[r].summary),
                                  request[r].elapsed + 1)
                     ELSE request[r]]
    /\ UNCHANGED <<writer, commits, cleared>>

Next ==
    \/ \E r \in Reader : ReadDatabase(r) \/ SetEntry(r)
    \/ \E w \in Writer : Commit(w) \/ DeleteEntry(w)
    \/ Clear
    \/ Tick

Spec == Init /\ [][Next]_vars

(* Time passes, and a request does not wait between its two calls for ever.
   No writer is ever forced to delete the entry. *)
FairSpec ==
    /\ Spec
    /\ WF_vars(Tick)
    /\ \A r \in Reader : WF_vars(SetEntry(r))

-----------------------------------------------------------------------------

(* Every variable has its type. *)
TypeOK ==
    /\ entry \in {NoEntry} \cup Entry
    /\ request \in [Reader -> {NoRequest} \cup Request]
    /\ writer \in [Writer -> {"idle", "committed"}]
    /\ commits \in 0 .. MaxCommits
    /\ cleared \in 0 .. MaxClears

(* What the dashboard may be answered from the cache was true of the database
   less than the entry's life and one fill ago, although every deletion may
   have been lost or overtaken by an older request (SetJSON with a time to
   live in the Dashboard resolver). *)
StalenessIsBounded ==
    Found => entry.summary.age < MaxAge

(* The inductive form: a summary is outdated for no longer than it has been on
   its way and in the cache. *)
IInv ==
    /\ Found => entry.summary.age + entry.ttl <= MaxAge
    /\ \A r \in Reader :
          Busy(r) => request[r].summary.age <= request[r].elapsed

(* Once nobody writes, the dashboard becomes current and stays so, even if the
   last deletion was lost. *)
EventuallyCurrent == <>[](Found => entry.summary.current)

(* internal/maintenance/maintenance.go:9 says of rebuild_rollups that it will
   "force the next request to rebuild cached summaries": no request finds a
   summary that was read before the cache was last cleared. *)
ClearForcesRebuild == Found => entry.summary.epoch = cleared

=============================================================================
