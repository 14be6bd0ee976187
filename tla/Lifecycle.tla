----------------------------- MODULE Lifecycle ------------------------------
(***************************************************************************)
(* The start and the end of a process (cmd/go-fibe/main.go): app.New opens *)
(* the store, Redis and the queue, retrying for a while; the command runs; *)
(* on a signal the web server and the worker let what they are doing end,  *)
(* for a while, and what app.New opened is closed (app.Close).             *)
(*                                                                         *)
(* A handler is a request of the web server, an event stream included, or  *)
(* a job of the worker.  Nothing obliges one to end.  What asynq, net/http *)
(* and pgxpool do is external: asynq's Run waits for the same signals as   *)
(* main and then calls the Shutdown that RunWorker calls as well, of which *)
(* the second returns at once; closing the pool waits for calls under way. *)
(*                                                                         *)
(* The formulas of the specification bear the name of the component: Setup *)
(* is what one of the commands does, and a module may extend both.         *)
(***************************************************************************)
CONSTANTS
    Command,        \* the commands run: setup, serve, worker
    Handler         \* what a process handles: the bound on it

ASSUME LifecycleAssumption == Command \subseteq {"setup", "serve", "worker"}

VARIABLES
    pc,             \* main
    command,
    signalled,      \* SIGINT or SIGTERM: ctx is done
    expired,        \* retry's deadline has passed
    store, redis, client,   \* "none", "open", "closing" or "closed"
    handler,        \* "none", "running", "calling" the store, "done"
    listener,       \* serve: ListenAndServe
    run,            \* worker: the goroutine of asynq's Run
    asynq,          \* worker: the state of asynq's server
    positive,       \* worker: MONITOR_CHECK_INTERVAL is positive
    over,           \* the time a shutdown may take is over
    outcome         \* what main's run returns

processVars ==
    <<pc, command, signalled, expired, store, redis, client, handler,
      listener, run, asynq, positive, over, outcome>>

opened == <<store, redis, client>>
service == <<handler, listener, run, asynq, over>>
input == <<command, positive>>

Active == {h \in Handler : handler[h] \in {"running", "calling"}}

ProcessInit ==
    /\ pc = "store"
    /\ command \in Command
    /\ signalled = FALSE
    /\ expired = FALSE
    /\ store = "none" /\ redis = "none" /\ client = "none"
    /\ handler = [h \in Handler |-> "none"]
    /\ listener = "new"
    /\ run = "new"
    /\ asynq = "new"
    /\ positive \in BOOLEAN
    /\ over = FALSE
    /\ outcome = "none"

-----------------------------------------------------------------------------

(* main is past app.New and has not returned. *)
Served == pc \in {"serving", "shutdown", "closing"}

(* run returns: what is deferred comes next. *)
Return(result) ==
    /\ pc' = "closing"
    /\ outcome' = result

(* app.New fails: nothing is deferred yet. *)
GiveUp == pc' = "exited" /\ outcome' = "error"

Signal ==
    /\ pc # "exited"
    /\ ~ signalled
    /\ signalled' = TRUE
    /\ UNCHANGED <<pc, expired, opened, service, input, outcome>>

Deadline ==
    /\ pc \in {"store", "waitStore", "redis", "waitRedis"}
    /\ ~ expired
    /\ expired' = TRUE
    /\ UNCHANGED <<pc, signalled, opened, service, input, outcome>>

(* db.Connect within retry; with ctx done it fails. *)
ConnectStore ==
    /\ pc = "store"
    /\ \/ ~ signalled /\ store' = "open" /\ pc' = "redisURL"
       \/ store' = store /\ pc' = "waitStore"
    /\ UNCHANGED <<signalled, expired, redis, client, service, input, outcome>>

RetryStore ==
    /\ pc = "waitStore"
    /\ \/ pc' = "store" /\ UNCHANGED outcome
       \/ (signalled \/ expired) /\ GiveUp
    /\ UNCHANGED <<signalled, expired, opened, service, input>>

ParseRedisURL ==
    /\ pc = "redisURL"
    /\ \/ /\ redis' = "open" /\ pc' = "redis" /\ expired' = FALSE
          /\ UNCHANGED <<store, outcome>>
       \/ /\ store' = "closed" /\ GiveUp
          /\ UNCHANGED <<redis, expired>>
    /\ UNCHANGED <<signalled, client, service, input>>

PingRedis ==
    /\ pc = "redis"
    /\ \/ ~ signalled /\ pc' = "asynq"
       \/ pc' = "waitRedis"
    /\ UNCHANGED <<signalled, expired, opened, service, input, outcome>>

(* Mutant of CloseStore: the failed start leaves the store open. *)
KeepStore == UNCHANGED store

CloseStore == store' = "closed"

(* A client of Redis that never answered is left open. *)
RetryRedis ==
    /\ pc = "waitRedis"
    /\ \/ pc' = "redis" /\ UNCHANGED <<store, outcome>>
       \/ (signalled \/ expired) /\ CloseStore /\ GiveUp
    /\ UNCHANGED <<signalled, expired, redis, client, service, input>>

NewClient ==
    /\ pc = "asynq"
    /\ \/ /\ client' = "open" /\ pc' = "serving"
          /\ UNCHANGED <<store, redis, outcome>>
       \/ /\ store' = "closed" /\ redis' = "closed" /\ GiveUp
          /\ UNCHANGED client
    /\ UNCHANGED <<signalled, expired, service, input>>

-----------------------------------------------------------------------------

(* setup: Migrate and Seed (see Setup) return. *)
SetUp ==
    /\ pc = "serving" /\ command = "setup"
    /\ \E result \in {"ok", "error"} : Return(result)
    /\ UNCHANGED <<signalled, expired, opened, service, input>>

(* The goroutine of ListenAndServe, which may fail at any time. *)
Listen ==
    /\ Served /\ command = "serve"
    /\ \/ pc = "serving" /\ listener = "new" /\ listener' = "open"
       \/ listener \in {"new", "open"} /\ listener' = "failed"
    /\ UNCHANGED <<pc, signalled, expired, opened, handler, run, asynq, over,
                   input, outcome>>

(* A request, a stream or a job arrives. *)
Accept(h) ==
    /\ handler[h] = "none"
    /\ \/ pc = "serving" /\ command = "serve" /\ listener = "open"
       \/ Served /\ asynq = "active"
    /\ handler' = [handler EXCEPT ![h] = "running"]
    /\ UNCHANGED <<pc, signalled, expired, opened, listener, run, asynq, over,
                   input, outcome>>

(* It calls the store and has the answer, or ends. *)
Call(h) ==
    /\ Served /\ handler[h] = "running"
    /\ store = "open"
    /\ handler' = [handler EXCEPT ![h] = "calling"]
    /\ UNCHANGED <<pc, signalled, expired, opened, listener, run, asynq, over,
                   input, outcome>>

Answer(h) ==
    /\ Served /\ handler[h] = "calling"
    /\ handler' = [handler EXCEPT ![h] = "running"]
    /\ UNCHANGED <<pc, signalled, expired, opened, listener, run, asynq, over,
                   input, outcome>>

End(h) ==
    /\ Served /\ handler[h] = "running"
    /\ handler' = [handler EXCEPT ![h] = "done"]
    /\ UNCHANGED <<pc, signalled, expired, opened, listener, run, asynq, over,
                   input, outcome>>

(* The worker's scheduler begins: NewTicker panics unless the interval is
   positive, and a panic in a goroutine ends the process. *)
StartScheduler ==
    /\ Served /\ command = "worker" /\ ~ positive
    /\ pc' = "exited"
    /\ outcome' = "panic"
    /\ UNCHANGED <<signalled, expired, opened, service, input>>

-----------------------------------------------------------------------------

(* asynq's Run: Start, wait for a signal, Shutdown. *)
Start ==
    /\ Served /\ command = "worker" /\ run = "new"
    /\ \/ run' = "waiting" /\ asynq' = "active"
       \/ run' = "failed" /\ UNCHANGED asynq
    /\ UNCHANGED <<pc, signalled, expired, opened, handler, listener, over,
                   input, outcome>>

RunSignalled ==
    /\ Served /\ run = "waiting" /\ signalled
    /\ IF asynq = "active" THEN run' = "shutdown" /\ asynq' = "closed"
                           ELSE run' = "returned" /\ UNCHANGED asynq
    /\ UNCHANGED <<pc, signalled, expired, opened, handler, listener, over,
                   input, outcome>>

RunShutDown ==
    /\ Served /\ run = "shutdown"
    /\ Active = {} \/ over
    /\ run' = "returned"
    /\ UNCHANGED <<pc, signalled, expired, opened, handler, listener, asynq,
                   over, input, outcome>>

-----------------------------------------------------------------------------

(* Mutant of Stop: without the wait for what is under way. *)
StopAtOnce ==
    IF command = "worker" /\ asynq # "active"
       THEN Return("ok") /\ UNCHANGED asynq
       ELSE /\ Return("ok")
            /\ asynq' = IF command = "worker" THEN "closed" ELSE asynq

(* ctx is done: Shutdown.  That of asynq does nothing if the server has not
   started or Run's has begun. *)
Stop ==
    IF command = "worker" /\ asynq # "active"
       THEN Return("ok") /\ UNCHANGED asynq
       ELSE /\ pc' = "shutdown" /\ UNCHANGED outcome
            /\ asynq' = IF command = "worker" THEN "closed" ELSE asynq

(* The select of Serve and RunWorker. *)
Select ==
    /\ pc = "serving" /\ command \in {"serve", "worker"}
    /\ \/ signalled /\ Stop
       \/ listener = "failed" /\ Return("error") /\ UNCHANGED asynq
       \/ run = "failed" /\ Return("error") /\ UNCHANGED asynq
       \/ run = "returned" /\ Return("ok") /\ UNCHANGED asynq
    /\ UNCHANGED <<signalled, expired, opened, handler, listener, run, over,
                   input>>

(* Mutant of TimeIsOver: a shutdown with no time limit. *)
TimeStandsStill == FALSE /\ UNCHANGED processVars

(* Ten seconds of Serve's Shutdown, asynq's eight. *)
TimeIsOver ==
    /\ Served
    /\ pc = "shutdown" \/ run = "shutdown"
    /\ ~ over
    /\ over' = TRUE
    /\ UNCHANGED <<pc, signalled, expired, opened, handler, listener, run,
                   asynq, input, outcome>>

(* Shutdown returns: with an error if the web server's time was over. *)
ShutDown ==
    /\ pc = "shutdown"
    /\ \/ Active = {} /\ Return("ok")
       \/ over /\ Return(IF command = "serve" THEN "error" ELSE "ok")
    /\ UNCHANGED <<signalled, expired, opened, service, input>>

(* Mutant of CloseRedis: the store goes before the queue. *)
CloseStoreFirst ==
    /\ pc = "closing" /\ client = "open" /\ store = "open"
    /\ store' = "closing"
    /\ UNCHANGED <<pc, signalled, expired, redis, client, service, input,
                   outcome>>

(* app.Close: the queue and Redis at once, then the store, whose pool takes
   no more calls and waits for those under way. *)
CloseRedis ==
    /\ pc = "closing" /\ client = "open"
    /\ client' = "closed" /\ redis' = "closed"
    /\ UNCHANGED <<pc, signalled, expired, store, service, input, outcome>>

ClosePool ==
    /\ pc = "closing" /\ client = "closed" /\ store = "open"
    /\ store' = "closing"
    /\ UNCHANGED <<pc, signalled, expired, redis, client, service, input,
                   outcome>>

PoolClosed ==
    /\ pc = "closing" /\ store = "closing"
    /\ \A h \in Handler : handler[h] # "calling"
    /\ store' = "closed"
    /\ pc' = "exited"
    /\ UNCHANGED <<signalled, expired, redis, client, service, input, outcome>>

New ==
    \/ ConnectStore \/ RetryStore \/ ParseRedisURL \/ PingRedis
    \/ RetryRedis \/ NewClient

Main ==
    \/ New \/ SetUp \/ Select \/ ShutDown \/ CloseRedis
    \/ ClosePool \/ PoolClosed

Run == Start \/ RunSignalled \/ RunShutDown

ProcessNext ==
    \/ Signal \/ Deadline \/ TimeIsOver
    \/ Main \/ Run \/ Listen \/ StartScheduler
    \/ \E h \in Handler : Accept(h) \/ Call(h) \/ Answer(h) \/ End(h)

ProcessSpec == ProcessInit /\ [][ProcessNext]_processVars

(* The goroutines run, the timers fire, select is fair among what is ready,
   and the database answers.  No handler need end. *)
FairProcess ==
    /\ ProcessSpec
    /\ WF_processVars(Main)
    /\ SF_processVars(RetryStore /\ pc' = "exited")
    /\ SF_processVars(RetryRedis /\ pc' = "exited")
    /\ WF_processVars(TimeIsOver)
    /\ \A h \in Handler : WF_processVars(Answer(h))

-----------------------------------------------------------------------------

(* The process has its type; the queue is never open without the store. *)
ProcessTypeOK ==
    /\ pc \in {"store", "waitStore", "redisURL", "redis", "waitRedis",
               "asynq", "serving", "shutdown", "closing", "exited"}
    /\ command \in Command
    /\ {signalled, expired, positive, over} \subseteq BOOLEAN
    /\ store \in {"none", "open", "closing", "closed"}
    /\ {redis, client} \subseteq {"none", "open", "closed"}
    /\ handler \in [Handler -> {"none", "running", "calling", "done"}]
    /\ listener \in {"new", "open", "failed"}
    /\ run \in {"new", "waiting", "shutdown", "returned", "failed"}
    /\ asynq \in {"new", "active", "closed"}
    /\ outcome \in {"none", "ok", "error", "panic"}
    /\ pc = "shutdown" => signalled
    /\ client = "open" => store = "open"

(* The web server exits without an error only after everything it was doing
   has ended; and neither it nor the worker closes Redis under a handler
   unless the time was over, the listener failed, or asynq's Run had the
   signal first and is the one that waits, or started only after it (Serve,
   RunWorker). *)
ClosesUnderNobody ==
    Active # {} =>
       /\ command = "serve" => outcome # "ok"
       /\ redis = "closed" =>
             \/ over
             \/ listener = "failed"
             \/ run = "shutdown" \/ asynq = "active"

(* A process that returns leaves neither its store nor its queue open, at
   whichever step of app.New it failed; a client of Redis only if Redis
   never answered (app.New, app.Close). *)
NothingLeftOpen ==
    pc = "exited" /\ outcome # "panic" =>
       /\ store \in {"none", "closed"}
       /\ client # "open"
       /\ redis = "open" => client = "none" /\ (signalled \/ expired)

(* A process that has the signal ends, whether it is still connecting, its
   clients stay, or its jobs do not end (retry, Serve, RunWorker). *)
SignalEnds == signalled ~> pc = "exited"

=============================================================================
