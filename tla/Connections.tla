----------------------------- MODULE Connections -----------------------------
(***************************************************************************)
(* The life of the database module: its services open their connections    *)
(* when the module starts (PostgreSQL, then MongoDB, then Redis) and put    *)
(* them in the registry of the connection manager, the health service      *)
(* checks them by a timer and keeps a history, and all are closed when the *)
(* module ends.  Servers go down, hang and come back in between.           *)
(***************************************************************************)
EXTENDS Integers, Sequences, FiniteSets, FiniteSetsExt, SequencesExt

CONSTANTS
  Configured,   \* the connections: a sequence of pairs <<type, name>>, in the order of the start
  Nest,         \* those that the container of Nest opens before (forRoot), none with forRootAsync
  HealthCheck,  \* options.enableHealthCheck
  Users,        \* callers of the health service besides the module
  MaxHistory,   \* 100
  MaxChecks,    \* bound: checks of health
  MaxFaults     \* bound: servers that go down or hang

Conns == Range(Configured)
TypeOf(c) == c[1]

ConnectionsAssumption ==
  /\ Configured \in Seq(Conns)
  /\ \A i, j \in DOMAIN Configured : Configured[i] = Configured[j] => i = j
  /\ \A c \in Conns : TypeOf(c) \in {"postgres", "mongodb", "redis"}
  /\ Nest \subseteq {c \in Conns : TypeOf(c) # "redis"}
  /\ HealthCheck \in BOOLEAN /\ MaxHistory \in Nat \ {0} /\ {MaxChecks, MaxFaults} \subseteq Nat

VARIABLES
  server,     \* of each connection: "up", "hung" or "down"
  faults,
  client,     \* "none", "connecting", "ready", "broken" or "closed"
  held,       \* the connections in the maps of the services
  registry,   \* of each connection: "absent", or isConnected as "on" and "off"
  module,     \* where the start and the end of the module are
  at,         \* how many connections are started
  interval,   \* healthCheckInterval, 0 if null
  intervals,  \* the timers that run
  checks,     \* the checks of health, in the order of their begin
  history,
  ended       \* those that are done, in the order of their end

vars == <<server, faults, client, held, registry, module, at, interval, intervals, checks, history, ended>>

\* A check: of the connections of the registry, some are asked, and dead are the ones whose
\* server is not up as long as it takes.
Check(by, registered, asked, dead) ==
  [by |-> by, phase |-> "running", of |-> registered, asked |-> asked, dead |-> dead]

Init ==
  /\ server = [c \in Conns |-> "up"] /\ faults = 0
  /\ client = [c \in Conns |-> IF c \in Nest THEN "ready" ELSE "none"]
  /\ held = {} /\ registry = [c \in Conns |-> "absent"]
  /\ module = "new" /\ at = 0
  /\ interval = 0 /\ intervals = {} /\ checks = <<>> /\ history = <<>> /\ ended = <<>>

initialized == module = "started"

------------------------------------------------------------------------------
(* Servers and the events of their clients.                                *)

\* A check knows which servers are down all the time it takes.
Alive(c) == [k \in DOMAIN checks |-> [checks[k] EXCEPT !.dead = @ \ {c}]]

Fault(c, how) ==
  /\ server[c] = "up" /\ faults < MaxFaults /\ faults' = faults + 1
  /\ server' = [server EXCEPT ![c] = how]
  /\ UNCHANGED <<client, held, registry, module, at, interval, intervals, checks, history, ended>>

Repair(c) ==
  /\ server[c] # "up" /\ server' = [server EXCEPT ![c] = "up"] /\ checks' = Alive(c)
  /\ UNCHANGED <<faults, client, held, registry, module, at, interval, intervals, history, ended>>

\* "close" and "error" of a client of Redis turn isConnected off; one of MongoDB is no longer
\* ready; a data source of TypeORM stays initialized.
Lose(c) ==
  /\ TypeOf(c) # "postgres" /\ client[c] = "ready" /\ server[c] = "down"
  /\ client' = [client EXCEPT ![c] = "broken"]
  /\ registry' = [registry EXCEPT ![c] = IF TypeOf(c) = "redis" /\ @ = "on" THEN "off" ELSE @]
  /\ UNCHANGED <<server, faults, held, module, at, interval, intervals, checks, history, ended>>

\* "ready": the first one puts a client of Redis in the map and in the registry, whether or
\* not the start still waits for it, and a start that waits goes on.
Ready(c) ==
  /\ TypeOf(c) # "postgres" /\ client[c] \in {"connecting", "broken"} /\ server[c] = "up"
  /\ client' = [client EXCEPT ![c] = "ready"]
  /\ IF TypeOf(c) = "redis"
     THEN /\ held' = held \cup {c} /\ registry' = [registry EXCEPT ![c] = "on"]
          /\ IF module = "waiting" /\ Configured[at + 1] = c
             THEN module' = "starting" /\ at' = at + 1 ELSE UNCHANGED <<module, at>>
     ELSE UNCHANGED <<held, registry, module, at>>
  /\ UNCHANGED <<server, faults, interval, intervals, checks, history, ended>>

------------------------------------------------------------------------------
(* The start: onModuleInit of DatabaseService, and initialize of each service. *)

ModuleInit ==
  /\ module = "new" /\ module' = "starting"
  /\ UNCHANGED <<server, faults, client, held, registry, at, interval, intervals, checks, history, ended>>

\* getConnection: of the map; of Nest, and of MongoDB of mongoose, or made from its
\* configuration, which does not wait until it is open.  TRUE if there is one then.  One that
\* was closed may be found among those of mongoose, as it is, or be made anew.
DataSourceFound(c) == c \in held \cup Nest
Found(c) == IF TypeOf(c) = "postgres" THEN DataSourceFound(c)
            ELSE c \in held \cup Nest \/ TypeOf(c) = "mongodb"
Forgotten == {c \in Conns \ (held \cup Nest) : TypeOf(c) = "mongodb" /\ client[c] = "closed"}
Opened(c, anew) ==
  IF (TypeOf(c) = "mongodb" /\ client[c] = "none") \/ c \in anew THEN "connecting" ELSE client[c]

\* registerPostgresConnection, registerMongoConnection.
Register(c) == registry' = [registry EXCEPT ![c] = "on"]

\* The next connection: PostgreSQL and MongoDB are registered as connected before anything
\* is opened; a data source that is not Nest's, and a client of Redis, is waited for.
StartConnection ==
  /\ module = "starting" /\ at < Len(Configured)
  /\ LET c == Configured[at + 1] IN
     /\ IF TypeOf(c) = "redis" THEN UNCHANGED registry
        ELSE Register(c)
     /\ IF Found(c)
        THEN /\ held' = held \cup {c} /\ client' = [client EXCEPT ![c] = Opened(c, {})]
             /\ at' = at + 1 /\ UNCHANGED module
        ELSE /\ client' = [client EXCEPT ![c] = "connecting"] /\ module' = "waiting"
             /\ UNCHANGED <<held, at>>
  /\ UNCHANGED <<server, faults, interval, intervals, checks, history, ended>>

DataSourceOpen ==
  /\ module = "waiting" /\ TypeOf(Configured[at + 1]) = "postgres"
  /\ LET c == Configured[at + 1] IN
     /\ server[c] = "up" /\ client' = [client EXCEPT ![c] = "ready"] /\ held' = held \cup {c}
  /\ module' = "starting" /\ at' = at + 1
  /\ UNCHANGED <<server, faults, registry, interval, intervals, checks, history, ended>>

\* A faulty variant: nobody waits for a server that hangs with a timeout.
StartFailsWhenDown ==
  /\ module = "waiting" /\ server[Configured[at + 1]] = "down"
  /\ LET c == Configured[at + 1] IN
     client' = [client EXCEPT ![c] = IF TypeOf(c) = "redis" THEN @ ELSE "none"]
  /\ module' = "failed"
  /\ UNCHANGED <<server, faults, held, registry, at, interval, intervals, checks, history, ended>>

\* The connection is refused or times out: the start fails, and what is open stays open.
StartFails ==
  /\ module = "waiting" /\ server[Configured[at + 1]] # "up"
  /\ LET c == Configured[at + 1] IN
     client' = [client EXCEPT ![c] = IF TypeOf(c) = "redis" THEN @ ELSE "none"]
  /\ module' = "failed"
  /\ UNCHANGED <<server, faults, held, registry, at, interval, intervals, checks, history, ended>>

Started(m) == IF module = "monitoring" THEN m ELSE module

------------------------------------------------------------------------------
(* DatabaseHealthService *)

Running(by) == \E k \in DOMAIN checks : checks[k].by = by /\ checks[k].phase = "running"

\* checkHealth: the connections of the registry are looked up at once, and the ones that
\* are ready are asked.
BeginCheck(by) ==
  /\ LET registered == {c \in Conns : registry[c] # "absent"}
         found == {c \in registered : Found(c)} IN
     /\ held' = held \cup found
     /\ \E anew \in SUBSET (found \cap Forgotten) :
          client' = [c \in Conns |-> IF c \in found THEN Opened(c, anew) ELSE client[c]]
     /\ checks' = Append(checks,
          Check(by, registered, {c \in found : client[c] = "ready"}, {c \in registered : server[c] # "up"}))

\* A faulty variant: degraded is forgotten.
StatusUnlessNone(connected, registered) == IF connected = {} THEN "unhealthy" ELSE "healthy"

\* "error" is said of no connection: what asks it turns every error into FALSE.
DetermineOverallStatus(connected, registered) ==
  IF connected = registered THEN "healthy"
  ELSE IF connected = {} THEN "unhealthy" ELSE "degraded"

\* A faulty variant: a history that is full takes no more.
AddUntilFull(result) ==
  IF Len(history) < MaxHistory THEN Append(history, result) ELSE history

AddToHistory(result) ==
  LET longer == Append(history, result) IN
  IF Len(longer) > MaxHistory THEN Tail(longer) ELSE longer

\* Each that is asked has answered in time or counts as not connected, for an error as for
\* the timeout.  The check is done; a start of the monitoring goes on to set its timer, and that of the
\* module to end the start of the module.
EndCheck(k) ==
  /\ checks[k].phase = "running"
  /\ \E connected \in SUBSET (checks[k].asked \ checks[k].dead) :
       history' = AddToHistory([check |-> k, of |-> checks[k].of, connected |-> connected,
         dead |-> checks[k].dead, status |-> DetermineOverallStatus(connected, checks[k].of)])
  /\ checks' = [checks EXCEPT ![k] = [Check(@.by, {}, {}, {}) EXCEPT !.phase = "done"]]
  /\ ended' = Append(ended, k)
  /\ IF checks[k].by \in Users \cup {"module"}
     THEN interval' = k /\ intervals' = intervals \cup {k}
     ELSE UNCHANGED <<interval, intervals>>
  /\ module' = IF checks[k].by = "module" THEN Started("started") ELSE module
  /\ UNCHANGED <<server, faults, client, held, registry, at>>

\* The end of the start: monitoring if it is asked for.
StartMonitors ==
  /\ module = "starting" /\ at = Len(Configured)
  /\ IF HealthCheck /\ interval = 0
     THEN BeginCheck("module") /\ module' = "monitoring"
     ELSE module' = "started" /\ UNCHANGED <<client, held, checks>>
  /\ UNCHANGED <<server, faults, registry, at, interval, intervals, history, ended>>

\* Others have the service when the module has started, each with one call at a time.
StartMonitoring(u) ==
  /\ module = "started" /\ interval = 0 /\ ~Running(u) /\ Len(checks) < MaxChecks
  /\ BeginCheck(u)
  /\ UNCHANGED <<server, faults, registry, module, at, interval, intervals, history, ended>>

\* What a timer runs, and what checkHealth and attemptRecovery do for anyone who has the
\* service, with as many calls at a time as there are.
TimedCheck ==
  /\ intervals # {} \/ (module = "started" /\ Users # {})
  /\ Len(checks) < MaxChecks /\ BeginCheck("timer")
  /\ UNCHANGED <<server, faults, registry, module, at, interval, intervals, history, ended>>

Stopped == intervals' = intervals \ {interval} /\ interval' = 0

StopMonitoring ==
  /\ module = "started" /\ Users # {} /\ interval # 0 /\ Stopped
  /\ UNCHANGED <<server, faults, client, held, registry, module, at, checks, history, ended>>

\* getHealthHistory and getHealthStatistics, over what the history holds.
HealthHistory(limit) == SubSeq(history, Max({1, Len(history) - limit + 1}), Len(history))
Checked(status) == Quantify(DOMAIN history, LAMBDA i : history[i].status = status)
Uptime == IF history = <<>> THEN 0 ELSE (100 * Checked("healthy")) \div Len(history)
HealthStatistics ==
  [totalChecks |-> Len(history), healthyChecks |-> Checked("healthy"),
   degradedChecks |-> Checked("degraded"), unhealthyChecks |-> Checked("unhealthy"), uptime |-> Uptime]

\* getConnectionHealthStats: of the results in which the connection is.
OfConnection(c) == SelectSeq(history, LAMBDA h : c \in h.of)
ConnectionHealthStats(c) ==
  LET own == OfConnection(c) IN
  [isHealthy |-> own # <<>> /\ c \in Last(own).connected,
   uptime |-> IF own = <<>> THEN 0
              ELSE (100 * Quantify(DOMAIN own, LAMBDA i : c \in own[i].connected)) \div Len(own)]

\* exportHealthReport: unhealthy until the first check.
HealthReport ==
  [currentStatus |-> IF history = <<>> THEN "unhealthy" ELSE Last(history).status,
   statistics |-> HealthStatistics,
   connectionStats |-> [c \in {x \in Conns : registry[x] # "absent"} |-> ConnectionHealthStats(c)]]

------------------------------------------------------------------------------
(* The end: Nest waits for the start, then calls onModuleDestroy of all.   *)

ModuleDestroy ==
  /\ module = "started" /\ module' = "closing" /\ Stopped
  /\ UNCHANGED <<server, faults, client, held, registry, at, checks, history, ended>>

\* closeAll of a service forgets its connections when each is closed, or was not to be.
Close(c) ==
  /\ module = "closing" /\ c \in held /\ client[c] # "closed"
  /\ client' = [client EXCEPT ![c] = "closed"]
  /\ registry' = [registry EXCEPT ![c] = IF TypeOf(c) = "redis" THEN "off" ELSE @]
  /\ UNCHANGED <<server, faults, held, module, at, interval, intervals, checks, history, ended>>

ModuleClosed ==
  /\ module = "closing" /\ \A c \in held : client[c] = "closed"
  /\ held' = {} /\ module' = "closed"
  /\ UNCHANGED <<server, faults, client, registry, at, interval, intervals, checks, history, ended>>

Finished ==
  /\ module \in {"failed", "closed"}
  /\ \A k \in DOMAIN checks : checks[k].phase = "done"
  /\ UNCHANGED vars

Progress ==
  \/ ModuleInit \/ StartConnection \/ DataSourceOpen \/ StartFails \/ StartMonitors \/ ModuleClosed
  \/ \E c \in Conns : Ready(c) \/ Close(c)
  \/ \E k \in DOMAIN checks : EndCheck(k)

Next ==
  \/ Progress
  \/ \E c \in Conns : Lose(c) \/ Repair(c) \/ \E how \in {"down", "hung"} : Fault(c, how)
  \/ \E u \in Users : StartMonitoring(u)
  \/ TimedCheck \/ StopMonitoring \/ ModuleDestroy \/ Finished

\* The clients connect or give up, and every question has its timeout.
Spec == Init /\ [][Next]_vars /\ WF_vars(Progress)

------------------------------------------------------------------------------
(* Properties *)

\* When the module has started, every connection that is configured is in the registry and
\* in the map of its service, and the ones that are waited for have been open.
AllEstablished ==
  initialized => \A c \in Conns :
    /\ c \in held /\ registry[c] # "absent"
    /\ TypeOf(c) # "mongodb" \/ c \in Nest => client[c] \notin {"none", "connecting"}

\* A result that is kept tells what the check met: no server that was down all along counts
\* as connected, it is healthy only if all of the registry answered and unhealthy only if
\* none did; and the statistics of a history count each of its results once.
ResultsTruthful ==
  /\ \A i \in DOMAIN history :
       LET h == history[i] IN
       /\ h.connected \subseteq h.of \ h.dead
       /\ h.status = "healthy" => h.dead = {}
       /\ h.status = "unhealthy" <=> (h.connected = {} /\ h.of # {})
  /\ HealthStatistics.healthyChecks + HealthStatistics.degradedChecks
       + HealthStatistics.unhealthyChecks = Len(history)

\* Every check that is done has ended once, and the history is what the last of them have
\* found, in the order in which they ended, however they overlap.
HistoryRecent ==
  /\ Range(ended) = {k \in DOMAIN checks : checks[k].phase = "done"} /\ IsInjective(ended)
  /\ Len(history) = Min({MaxHistory, Len(ended)})
  /\ \A i \in DOMAIN history : history[i].check = ended[Len(ended) - Len(history) + i]

\* Once the module is closed every connection is, nothing is held and no timer runs, if
\* nobody else has started a monitoring.
ClosedIsQuiet ==
  (module = "closed" /\ \A k \in DOMAIN checks : checks[k].by \notin Users)
  => held = {} /\ intervals = {} /\ \A c \in Conns : client[c] = "closed"

\* startMonitoring, "Idempotent": there is never a second timer.
Idempotent == Cardinality(intervals) <= 1

\* The start ends, one way or the other, and every check ends.
Waiting ==
  \/ module \in {"starting", "waiting", "monitoring"}
  \/ \E k \in DOMAIN checks : checks[k].phase # "done"
Settles == Waiting ~> ~Waiting
=============================================================================
