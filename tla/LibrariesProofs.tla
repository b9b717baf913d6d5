---------------------------- MODULE LibrariesProofs ----------------------------
(***************************************************************************)
(* Proofs about the connections of the database module and their health,   *)
(* for any connections, any callers and any length of the history, and     *)
(* about the tables and collections behind the base repositories, for any  *)
(* callers, jobs, rows, batches and pages, about a purse of any amounts,   *)
(* taken apart in any way, and about the advice on any queries, for any    *)
(* limits of what is slow and of what is kept.                             *)
(*                                                                         *)
(* HealthInv has three parts: how far the start and the end of the module  *)
(* have got and what is open by then (ConnInv), which checks may still set *)
(* a timer (Quiet), and which checks the results that are kept are of: the *)
(* last of those that have ended, in the order of their end (Recorded).    *)
(*                                                                         *)
(* StoreInv has four: the rows (RowsInv), what each job has done and will  *)
(* report of it (JobsInv), which of the rows that matched a batch has been *)
(* through and still has before it (PagesInv), and what a caller knows who *)
(* is alone (AloneInv).                                                    *)
(*                                                                         *)
(* What a purse holds is a sum, which is a recursive function: what it is  *)
(* of a sequence of any length goes by induction over its length.  So is   *)
(* the time of some queries.  KeptOf is what is kept of a sequence of them *)
(* and holds of every one, as one query comes after the other.             *)
(***************************************************************************)
EXTENDS MCDatabases, FiniteSetTheorems, WellFoundedInduction, TLAPS

------------------------------------------------------------------------------
(* The connections of the database module *)

USE DEF Database!TypeOf

\* The states of the clients and of the module.
Modules == {"new", "starting", "waiting", "failed", "monitoring", "started", "closing", "closed"}
ConnTyped ==
  /\ server \in [Database!Conns -> {"up", "hung", "down"}]
  /\ dbClient \in [Database!Conns -> {"none", "connecting", "ready", "broken", "closed"}]
  /\ registry \in [Database!Conns -> {"absent", "on", "off"}]
  /\ held \subseteq Database!Conns /\ module \in Modules /\ at \in 0..Len(Configured)
OneCheck ==
  {k \in [by : Users \cup {"module", "timer"}, phase : {"running", "done"},
          of : SUBSET Database!Conns, asked : SUBSET Database!Conns, dead : SUBSET Database!Conns] :
     k.asked \subseteq k.of /\ k.dead \subseteq k.of}

\* What is held is registered and was waited for; the start waits for what is not held, and
\* has been through the connections before; nothing is checked before its end.
Waited(c) == Database!TypeOf(c) # "mongodb" \/ c \in Nest
Before == {"new", "starting", "waiting", "failed"}
Established ==
  /\ \A c \in held \cup Nest : Waited(c) => dbClient[c] \notin {"none", "connecting"}
  /\ \A c \in held : registry[c] # "absent"
  /\ module # "closed" => \A i \in 1..at : Configured[i] \in held
  /\ module \notin Before => at = Len(Configured)
  /\ module = "waiting" => /\ at < Len(Configured) /\ Configured[at + 1] \notin held \cup Nest
                           /\ Database!TypeOf(Configured[at + 1]) # "mongodb"
                           /\ Database!TypeOf(Configured[at + 1]) = "redis" \/ registry[Configured[at + 1]] # "absent"
  /\ module \in Before => checks = <<>> /\ intervals = {}
ConnInv == ConnTyped /\ checks \in Seq(OneCheck) /\ Established

\* How a check begins: those that are asked, and those that are dead, are of the registry.
Begun(by) ==
  \E of \in SUBSET Database!Conns : \E asked \in SUBSET of, dead \in SUBSET of :
    checks' = Append(checks, Database!Check(by, of, asked, dead))

LEMMA ConfiguredConns ==
  ASSUME Database!ConnectionsAssumption
  PROVE  /\ \A i \in 1..Len(Configured) : Configured[i] \in Database!Conns
         /\ \A c \in Database!Conns : \E i \in 1..Len(Configured) : Configured[i] = c
         /\ Len(Configured) \in Nat
  BY DEF Database!ConnectionsAssumption, Database!Conns, Database!Range

\* Whoever is alive again is taken from the dead of every check.
LEMMA AliveKept ==
  ASSUME checks \in Seq(OneCheck), NEW c \in Database!Conns, checks' = Database!Alive(c)
  PROVE  /\ checks' \in Seq(OneCheck) /\ DOMAIN checks' = DOMAIN checks
         /\ Len(checks') = Len(checks)
         /\ \A k \in DOMAIN checks : checks'[k] = [checks[k] EXCEPT !.dead = @ \ {c}]
<1> DEFINE one(k) == [checks[k] EXCEPT !.dead = @ \ {c}]
<1>1. ASSUME NEW k \in DOMAIN checks PROVE one(k) \in OneCheck
  <2>1. checks[k] \in OneCheck
    OBVIOUS
  <2> QED BY <2>1 DEF OneCheck
<1>2. checks' = [k \in 1..Len(checks) |-> one(k)]
  BY DEF Database!Alive
<1> HIDE DEF one
<1>3. checks' \in Seq(OneCheck) /\ Len(checks') = Len(checks)
  BY <1>1, <1>2
<1> QED BY <1>2, <1>3 DEF one

\* What was waited for is not opened again.
LEMMA CheckBegins ==
  ASSUME ConnTyped, NEW by \in Users \cup {"module", "timer"}, Database!BeginCheck(by)
  PROVE  /\ Begun(by)
         /\ held \subseteq held' /\ held' \subseteq {c \in Database!Conns : c \in held \/ registry[c] # "absent"}
         /\ \A c \in held' : Database!Found(c)
         /\ dbClient' \in [Database!Conns -> {"none", "connecting", "ready", "broken", "closed"}]
         /\ \A c \in Database!Conns : Waited(c) /\ dbClient[c] # "none" => dbClient'[c] = dbClient[c]
<1> DEFINE registered == {c \in Database!Conns : registry[c] # "absent"}
           found == {c \in registered : Database!Found(c)}
           asked == {c \in found : dbClient[c] = "ready"}
           dead == {c \in registered : server[c] # "up"}
<1>1. checks' = Append(checks, Database!Check(by, registered, asked, dead))
  BY DEF Database!BeginCheck
<1>2. registered \in SUBSET Database!Conns /\ asked \in SUBSET registered /\ dead \in SUBSET registered
  OBVIOUS
<1>3. Begun(by)
  <2> HIDE DEF registered, asked, dead
  <2> QED BY <1>1, <1>2 DEF Begun
<1>4. held' = held \cup found
  BY DEF Database!BeginCheck
<1>7. PICK anew \in SUBSET (found \cap Database!Forgotten) :
        dbClient' = [c \in Database!Conns |-> IF c \in found THEN Database!Opened(c, anew) ELSE dbClient[c]]
  BY DEF Database!BeginCheck
<1>5. \A c \in held : Database!Found(c)
  BY DEF Database!Found, Database!DataSourceFound
<1>6. \A c \in Database!Conns :
        /\ Database!Opened(c, anew) \in {"none", "connecting", "ready", "broken", "closed"}
        /\ Waited(c) /\ dbClient[c] # "none" => Database!Opened(c, anew) = dbClient[c]
  BY DEF Database!Opened, Database!Forgotten, Waited, ConnTyped
<1> QED BY <1>3, <1>4, <1>5, <1>6, <1>7 DEF ConnTyped

\* A check begins, whatever module' is.
LEMMA EstablishedAtCheck ==
  ASSUME Database!ConnectionsAssumption, ConnInv, NEW by \in Users \cup {"module", "timer"}, Database!BeginCheck(by),
         UNCHANGED <<server, registry, at>>, module' \in Modules \ Before,
         at = Len(Configured), module = "closed" => module' = "closed"
  PROVE  ConnInv'
<1>1. /\ held \subseteq held' /\ held' \subseteq {c \in Database!Conns : c \in held \/ registry[c] # "absent"}
      /\ \A c \in held' : Database!Found(c)
      /\ dbClient' \in [Database!Conns -> {"none", "connecting", "ready", "broken", "closed"}]
      /\ \A c \in Database!Conns : Waited(c) /\ dbClient[c] # "none" => dbClient'[c] = dbClient[c]
  BY CheckBegins DEF ConnInv
<1>2. PICK of \in SUBSET Database!Conns : \E asked \in SUBSET of, dead \in SUBSET of :
        checks' = Append(checks, Database!Check(by, of, asked, dead))
  BY CheckBegins DEF ConnInv, Begun
<1>3. PICK asked \in SUBSET of, dead \in SUBSET of : checks' = Append(checks, Database!Check(by, of, asked, dead))
  BY <1>2
<1>4. Database!Check(by, of, asked, dead) \in OneCheck
  BY DEF Database!Check, OneCheck
<1>5. checks' \in Seq(OneCheck)
  BY <1>3, <1>4 DEF ConnInv
<1>6. ConnTyped'
  BY <1>1 DEF ConnInv, ConnTyped
<1>7. \A c \in held' \cup Nest : Waited(c) => dbClient'[c] \notin {"none", "connecting"}
  <2> TAKE c \in held' \cup Nest
  <2> HAVE Waited(c)
  <2>1. c \in held \cup Nest
    BY <1>1 DEF Waited, Database!Found, Database!DataSourceFound, Database!ConnectionsAssumption
  <2>2. c \in Database!Conns
    BY <1>1 DEF Database!ConnectionsAssumption
  <2>3. dbClient[c] \notin {"none", "connecting"}
    BY <2>1 DEF ConnInv, Established
  <2> QED BY <1>1, <2>2, <2>3
<1>9. \A c \in held' : registry[c] # "absent"
  BY <1>1 DEF ConnInv, Established
<1>10. module' # "closed" => \A i \in 1..at' : Configured[i] \in held'
  BY <1>1 DEF ConnInv, Established
<1> QED BY <1>5, <1>6, <1>7, <1>9, <1>10 DEF ConnInv, Established, Before

LEMMA ConnStarts == ASSUME Database!ConnectionsAssumption, Database!Init PROVE ConnInv
<1>1. ConnTyped
  BY ConfiguredConns DEF Database!Init, ConnTyped, Modules
<1>2. checks = <<>> /\ held = {} /\ intervals = {} /\ module = "new" /\ at = 0
  BY DEF Database!Init
<1>3. \A c \in Nest : dbClient[c] = "ready"
  BY DEF Database!Init, Database!ConnectionsAssumption
<1> QED BY <1>1, <1>2, <1>3 DEF ConnInv, Established, Before

\* A step that checks nothing and keeps the place of the start.
LEMMA Elsewhere ==
  ASSUME Database!ConnectionsAssumption, ConnInv, ConnTyped', UNCHANGED <<module, at, checks, intervals>>,
         held \subseteq held',
         \A c \in held' : registry'[c] # "absent",
         \A c \in held' \cup Nest : Waited(c) => dbClient'[c] \notin {"none", "connecting"},
         module = "waiting" => Configured[at + 1] \notin held',
         module = "waiting" /\ Database!TypeOf(Configured[at + 1]) # "redis" => registry'[Configured[at + 1]] # "absent"
  PROVE  ConnInv'
  BY DEF ConnInv, Established, Before

LEMMA ConnStep == ASSUME Database!ConnectionsAssumption, ConnInv, [Database!Next]_(Database!vars) PROVE ConnInv'
<1> USE DEF ConnInv
<1>1. ASSUME NEW c \in Database!Conns, NEW how \in {"down", "hung"}, Database!Fault(c, how) PROVE ConnInv'
  <2>1. ConnTyped'
    BY <1>1 DEF Database!Fault, ConnTyped
  <2> QED BY <1>1, <2>1, Elsewhere DEF Database!Fault, Established
<1>2. ASSUME NEW c \in Database!Conns, Database!Repair(c) PROVE ConnInv'
  <2>1. ConnTyped'
    BY <1>2 DEF Database!Repair, ConnTyped
  <2>2. checks' \in Seq(OneCheck) /\ Len(checks') = Len(checks)
    BY <1>2, AliveKept DEF Database!Repair
  <2>3. checks = <<>> => checks' = <<>>
    BY <2>2
  <2> QED BY <1>2, <2>1, <2>2, <2>3 DEF Database!Repair, Established
<1>3. ASSUME NEW c \in Database!Conns, Database!Lose(c) PROVE ConnInv'
  <2>1. ConnTyped'
    BY <1>3 DEF Database!Lose, ConnTyped
  <2>2. \A d \in Database!Conns : dbClient'[d] = dbClient[d] \/ dbClient'[d] = "broken"
    BY <1>3 DEF Database!Lose, ConnTyped
  <2>3. \A d \in Database!Conns : registry[d] # "absent" => registry'[d] # "absent"
    BY <1>3 DEF Database!Lose, ConnTyped
  <2>5. \A d \in held' \cup Nest : Waited(d) => dbClient'[d] \notin {"none", "connecting"}
    BY <1>3, <2>2 DEF Database!Lose, Established, ConnTyped, Database!ConnectionsAssumption
  <2>6. \A d \in held' : registry'[d] # "absent"
    BY <1>3, <2>3 DEF Database!Lose, Established, ConnTyped
  <2>7. module = "waiting" => Configured[at + 1] \in Database!Conns
    BY ConfiguredConns DEF Established, ConnTyped
  <2> QED BY <1>3, <2>1, <2>3, <2>5, <2>6, <2>7, Elsewhere DEF Database!Lose, Established
<1>4. ASSUME NEW c \in Database!Conns, Database!Ready(c) PROVE ConnInv'
  <2>1. ConnTyped'
    <3>1. module = "waiting" => at + 1 \in 0..Len(Configured)
      BY ConfiguredConns DEF Established, ConnTyped
    <3> QED BY <1>4, <3>1 DEF Database!Ready, ConnTyped, Modules
  <2>2. \A d \in Database!Conns : dbClient'[d] = dbClient[d] \/ dbClient'[d] = "ready"
    BY <1>4 DEF Database!Ready, ConnTyped
  <2>3. \A d \in Database!Conns : registry[d] # "absent" => registry'[d] # "absent"
    BY <1>4 DEF Database!Ready, ConnTyped
  <2>5. held \subseteq held' /\ held' \subseteq held \cup {c} /\ (c \in held' => c \in held \/ registry'[c] # "absent")
        /\ dbClient'[c] = "ready"
    BY <1>4 DEF Database!Ready, ConnTyped
  <2>6. \A d \in held' \cup Nest : Waited(d) => dbClient'[d] \notin {"none", "connecting"}
    BY <2>2, <2>5 DEF Established, ConnTyped, Database!ConnectionsAssumption
  <2>7. \A d \in held' : registry'[d] # "absent"
    BY <2>3, <2>5 DEF Established, ConnTyped
  <2>8. CASE Database!TypeOf(c) = "redis" /\ module = "waiting" /\ Configured[at + 1] = c
    <3>1. module' = "starting" /\ at' = at + 1 /\ held' = held \cup {c} /\ UNCHANGED <<checks, intervals>>
      BY <1>4, <2>8 DEF Database!Ready
    <3>2. \A i \in 1..at' : Configured[i] \in held'
      <4> TAKE i \in 1..at'
      <4>1. at \in Nat /\ (i \in 1..at \/ i = at + 1)
        BY <3>1 DEF ConnTyped
      <4> QED BY <2>8, <3>1, <4>1 DEF Established
    <3> QED BY <2>1, <2>6, <2>7, <2>8, <3>1, <3>2 DEF Established, Before
  <2>9. CASE ~(Database!TypeOf(c) = "redis" /\ module = "waiting" /\ Configured[at + 1] = c)
    <3>1. UNCHANGED <<module, at, checks, intervals>>
      BY <1>4, <2>9 DEF Database!Ready
    <3>2. module = "waiting" => Configured[at + 1] \notin held'
      BY <1>4, <2>9 DEF Database!Ready, Established
    <3>3. module = "waiting" => Configured[at + 1] \in Database!Conns
      BY ConfiguredConns DEF Established, ConnTyped
    <3> QED BY <2>1, <2>3, <2>5, <2>6, <2>7, <3>1, <3>2, <3>3, Elsewhere DEF Established
  <2> QED BY <2>8, <2>9
<1>5. ASSUME Database!ModuleInit PROVE ConnInv'
  BY <1>5 DEF Database!ModuleInit, ConnTyped, Established, Modules, Before
<1>6. ASSUME Database!StartConnection PROVE ConnInv'
  <2> DEFINE c == Configured[at + 1]
  <2>0. c \in Database!Conns /\ at + 1 \in 0..Len(Configured) /\ at \in Nat
    BY <1>6, ConfiguredConns DEF Database!StartConnection, ConnTyped
  <2>1. /\ registry' = IF Database!TypeOf(c) = "redis" THEN registry ELSE [registry EXCEPT ![c] = "on"]
        /\ module = "starting" /\ at < Len(Configured) /\ UNCHANGED <<server, interval, intervals, checks, history>>
    BY <1>6 DEF Database!StartConnection, Database!Register
  <2>2. CASE Database!Found(c)
    <3>1. held' = held \cup {c} /\ dbClient' = [dbClient EXCEPT ![c] = Database!Opened(c, {})] /\ at' = at + 1 /\ module' = module
      BY <1>6, <2>2 DEF Database!StartConnection
    <3>2. ConnTyped'
      BY <2>0, <2>1, <3>1 DEF ConnTyped, Database!Opened
    <3>3. Database!TypeOf(c) = "redis" => c \in held
      BY <2>2 DEF Database!Found, Database!ConnectionsAssumption
    <3>4. \A d \in held' : registry'[d] # "absent"
      BY <2>0, <2>1, <3>1, <3>3 DEF ConnTyped, Established
    <3>5. Waited(c) => c \in held \cup Nest
      BY <2>2 DEF Database!Found, Database!DataSourceFound, Waited
    <3>6. \A d \in held' \cup Nest : Waited(d) => dbClient'[d] \notin {"none", "connecting"}
      BY <2>0, <3>1, <3>5 DEF ConnTyped, Established, Database!Opened, Database!ConnectionsAssumption
    <3>7. \A i \in 1..at' : Configured[i] \in held'
      <4> TAKE i \in 1..at'
      <4>1. i \in 1..at \/ i = at + 1
        BY <2>0, <3>1
      <4> QED BY <2>1, <3>1, <4>1 DEF Established
    <3> HIDE DEF c
    <3> QED BY <2>1, <3>1, <3>2, <3>4, <3>6, <3>7 DEF Established, Before
  <2>3. CASE ~Database!Found(c)
    <3>1. dbClient' = [dbClient EXCEPT ![c] = "connecting"] /\ module' = "waiting" /\ UNCHANGED <<held, at>>
      BY <1>6, <2>3 DEF Database!StartConnection
    <3>2. ConnTyped'
      BY <2>0, <2>1, <3>1 DEF ConnTyped, Modules
    <3>3. c \notin held \cup Nest /\ Database!TypeOf(c) # "mongodb"
      BY <2>3 DEF Database!Found, Database!DataSourceFound
    <3>4. \A d \in held' : registry'[d] # "absent"
      BY <2>0, <2>1, <3>1 DEF ConnTyped, Established
    <3>5. \A d \in held' \cup Nest : Waited(d) => dbClient'[d] \notin {"none", "connecting"}
      BY <2>0, <3>1, <3>3 DEF ConnTyped, Established, Database!ConnectionsAssumption
    <3>6. Database!TypeOf(c) = "redis" \/ registry'[c] # "absent"
      BY <2>0, <2>1 DEF ConnTyped
    <3> HIDE DEF c
    <3>7. /\ at' < Len(Configured) /\ c \notin held' \cup Nest
      BY <2>1, <3>1, <3>3
    <3> QED BY <2>1, <3>1, <3>2, <3>3, <3>4, <3>5, <3>6, <3>7 DEF Established, Before, c
  <2> QED BY <2>2, <2>3
<1>7. ASSUME Database!DataSourceOpen PROVE ConnInv'
  <2> DEFINE c == Configured[at + 1]
  <2>0. module = "waiting" /\ c \in Database!Conns /\ at + 1 \in 0..Len(Configured) /\ at \in Nat
    BY <1>7, ConfiguredConns DEF Database!DataSourceOpen, ConnTyped, Established
  <2>1. /\ dbClient' = [dbClient EXCEPT ![c] = "ready"] /\ held' = held \cup {c}
        /\ module' = "starting" /\ at' = at + 1 /\ Database!TypeOf(c) = "postgres"
        /\ UNCHANGED <<server, registry, interval, intervals, checks, history>>
    BY <1>7 DEF Database!DataSourceOpen
  <2>2. registry[c] # "absent"
    BY <2>0, <2>1 DEF Established
  <2>3. ConnTyped'
    BY <2>0, <2>1 DEF ConnTyped, Modules
  <2>4. \A i \in 1..at' : Configured[i] \in held'
    <3> TAKE i \in 1..at'
    <3>1. i \in 1..at \/ i = at + 1
      BY <2>0, <2>1
    <3> QED BY <2>0, <2>1, <3>1 DEF Established
  <2>5. \A d \in held' \cup Nest : Waited(d) => dbClient'[d] \notin {"none", "connecting"}
    BY <2>0, <2>1 DEF ConnTyped, Established, Database!ConnectionsAssumption
  <2> HIDE DEF c
  <2> QED BY <2>0, <2>1, <2>2, <2>3, <2>4, <2>5 DEF Established, Before
<1>8. ASSUME Database!StartFails PROVE ConnInv'
  <2> DEFINE c == Configured[at + 1]
  <2>0. module = "waiting" /\ c \in Database!Conns
    BY <1>8, ConfiguredConns DEF Database!StartFails, ConnTyped, Established
  <2>1. /\ dbClient' = [dbClient EXCEPT ![c] = IF Database!TypeOf(c) = "redis" THEN @ ELSE "none"]
        /\ module' = "failed" /\ UNCHANGED <<server, held, registry, at, interval, intervals, checks, history>>
    BY <1>8 DEF Database!StartFails
  <2>2. ConnTyped'
    BY <2>0, <2>1 DEF ConnTyped, Modules
  <2>3. \A d \in held' \cup Nest : Waited(d) => dbClient'[d] \notin {"none", "connecting"}
    BY <2>0, <2>1 DEF ConnTyped, Established, Database!ConnectionsAssumption
  <2> QED BY <2>0, <2>1, <2>2, <2>3 DEF Established, Before
<1>9. ASSUME Database!StartMonitors PROVE ConnInv'
  <2>1. CASE HealthCheck /\ interval = 0
    <3>1. Database!BeginCheck("module") /\ module' = "monitoring" /\ UNCHANGED <<server, registry, at>>
          /\ at = Len(Configured) /\ module = "starting"
      BY <1>9, <2>1 DEF Database!StartMonitors
    <3> QED BY <3>1, EstablishedAtCheck DEF Modules, Before
  <2>2. CASE ~(HealthCheck /\ interval = 0)
    <3>1. /\ module = "starting" /\ at = Len(Configured) /\ module' = "started"
          /\ UNCHANGED <<server, dbClient, held, registry, at, intervals, checks>>
      BY <1>9, <2>2 DEF Database!StartMonitors
    <3> QED BY <3>1 DEF ConnTyped, Established, Modules, Before
  <2> QED BY <2>1, <2>2
<1>10. ASSUME NEW u \in Users, Database!StartMonitoring(u) PROVE ConnInv'
  <2>1. Database!BeginCheck(u) /\ UNCHANGED <<server, registry, module, at>> /\ module = "started"
    BY <1>10 DEF Database!StartMonitoring
  <2> QED BY <2>1, EstablishedAtCheck DEF Modules, Before, Established
<1>11. ASSUME Database!TimedCheck PROVE ConnInv'
  <2>1. Database!BeginCheck("timer") /\ UNCHANGED <<server, registry, module, at>>
        /\ (intervals # {} \/ module = "started")
    BY <1>11 DEF Database!TimedCheck
  <2>2. module \in Modules \ Before /\ at = Len(Configured)
    BY <2>1 DEF ConnTyped, Established, Before
  <2> QED BY <2>1, <2>2, EstablishedAtCheck
<1>12. ASSUME NEW k \in DOMAIN checks, Database!EndCheck(k) PROVE ConnInv'
  <2>1. /\ checks' = [checks EXCEPT ![k] = [Database!Check(checks[k].by, {}, {}, {}) EXCEPT !.phase = "done"]]
        /\ UNCHANGED <<server, dbClient, held, registry, at>>
        /\ module' = IF checks[k].by = "module" THEN Database!Started("started") ELSE module
    BY <1>12 DEF Database!EndCheck
  <2>2. module \notin Before /\ checks[k] \in OneCheck
    BY DEF Established
  <2>3. [Database!Check(checks[k].by, {}, {}, {}) EXCEPT !.phase = "done"] \in OneCheck
    BY <2>2 DEF OneCheck, Database!Check
  <2>4. checks' \in Seq(OneCheck)
    BY <2>1, <2>3
  <2>5. module' \in Modules \ Before /\ (module' = "closed" <=> module = "closed")
    BY <2>1, <2>2 DEF Database!Started, Modules, Before, ConnTyped
  <2>6. ConnTyped'
    BY <2>1, <2>5 DEF ConnTyped
  <2>7. module' # "waiting"
    BY <2>5 DEF Before
  <2>8. Established'
    BY <2>1, <2>2, <2>5, <2>7 DEF Established
  <2> QED BY <2>4, <2>6, <2>8
<1>13. ASSUME Database!StopMonitoring PROVE ConnInv'
  BY <1>13 DEF Database!StopMonitoring, Database!Stopped, ConnTyped, Established, Before
<1>14. ASSUME Database!ModuleDestroy PROVE ConnInv'
  BY <1>14 DEF Database!ModuleDestroy, Database!Stopped, ConnTyped, Established, Modules, Before
<1>15. ASSUME NEW c \in Database!Conns, Database!Close(c) PROVE ConnInv'
  <2>1. ConnTyped'
    BY <1>15 DEF Database!Close, ConnTyped
  <2>2. \A d \in Database!Conns : dbClient'[d] \in {dbClient[d], "closed"} /\ (registry[d] # "absent" => registry'[d] # "absent")
    BY <1>15 DEF Database!Close, ConnTyped, Established
  <2>3. \A d \in held' \cup Nest : Waited(d) => dbClient'[d] \notin {"none", "connecting"}
    BY <1>15, <2>2 DEF Database!Close, ConnTyped, Established, Database!ConnectionsAssumption
  <2> QED BY <1>15, <2>1, <2>2, <2>3 DEF Database!Close, ConnTyped, Established, Before
<1>16. ASSUME Database!ModuleClosed PROVE ConnInv'
  BY <1>16 DEF Database!ModuleClosed, ConnTyped, Established, Modules, Before, Database!ConnectionsAssumption
<1>17. CASE UNCHANGED Database!vars
  BY <1>17 DEF Database!vars, ConnTyped, Established
<1> QED BY <1>1, <1>2, <1>3, <1>4, <1>5, <1>6, <1>7, <1>8, <1>9, <1>10, <1>11, <1>12, <1>13, <1>14,
          <1>15, <1>16, <1>17 DEF Database!Next, Database!Progress, Database!Finished

\* If nobody else has started a monitoring there is at most the timer of the module, set by
\* the first check, and none when the module ends; nothing is looked up again after that.
NoUsers == \A k \in DOMAIN checks : checks[k].by \notin Users
Quiet == NoUsers =>
  /\ intervals \subseteq {interval}
  /\ module = "monitoring" => intervals = {}
  /\ \A k \in DOMAIN checks :
       checks[k].by = "module" /\ checks[k].phase = "running" => k = 1 /\ module = "monitoring"
  /\ module \in {"closing", "closed"} => intervals = {}
  /\ module = "closed" => held = {} /\ \A c \in Database!Conns : dbClient[c] = "closed"

\* No check of a user is forgotten.
LEMMA UsersRemembered ==
  ASSUME checks \in Seq(OneCheck), checks' \in Seq(OneCheck), Len(checks) <= Len(checks'),
         \A k \in DOMAIN checks : checks'[k].by = checks[k].by
  PROVE  NoUsers' => NoUsers
<1>1. DOMAIN checks = 1..Len(checks) /\ DOMAIN checks' = 1..Len(checks') /\ Len(checks) \in Nat
      /\ Len(checks') \in Nat
  OBVIOUS
<1>2. DOMAIN checks \subseteq DOMAIN checks'
  BY <1>1
<1> QED BY <1>2 DEF NoUsers

LEMMA QuietAtCheck ==
  ASSUME ConnInv, NEW by \in Users \cup {"module", "timer"}, Database!BeginCheck(by)
  PROVE  /\ Len(checks') = Len(checks) + 1 /\ Len(checks) \in Nat
         /\ checks'[Len(checks) + 1].by = by
         /\ \A k \in DOMAIN checks : checks'[k] = checks[k]
         /\ DOMAIN checks' = DOMAIN checks \cup {Len(checks) + 1}
         /\ NoUsers' => NoUsers /\ by \notin Users
<1>1. PICK of \in SUBSET Database!Conns : \E asked \in SUBSET of, dead \in SUBSET of :
        checks' = Append(checks, Database!Check(by, of, asked, dead))
  BY CheckBegins DEF ConnInv, Begun
<1>2. PICK asked \in SUBSET of, dead \in SUBSET of : checks' = Append(checks, Database!Check(by, of, asked, dead))
  BY <1>1
<1>3. Database!Check(by, of, asked, dead) \in OneCheck /\ Database!Check(by, of, asked, dead).by = by
  BY DEF Database!Check, OneCheck
<1>4. /\ Len(checks') = Len(checks) + 1 /\ Len(checks) \in Nat
      /\ checks'[Len(checks) + 1].by = by
      /\ \A k \in DOMAIN checks : checks'[k] = checks[k]
      /\ DOMAIN checks' = DOMAIN checks \cup {Len(checks) + 1}
  BY <1>2, <1>3 DEF ConnInv
<1> QED BY <1>4 DEF NoUsers

\* A step that leaves the checks and timers alone.
LEMMA StaysQuiet ==
  ASSUME Quiet, UNCHANGED <<checks, interval, intervals>>,
         module' \in {"monitoring", "closing", "closed"} => module' = module /\ UNCHANGED held,
         module = "monitoring" => module' = module,
         NoUsers /\ module' = "closed" => UNCHANGED dbClient
  PROVE  Quiet'
  BY DEF Quiet, NoUsers

LEMMA QuietStep == ASSUME Database!ConnectionsAssumption, ConnInv, Quiet, [Database!Next]_(Database!vars) PROVE Quiet'
<1>1. ASSUME NEW c \in Database!Conns, NEW how \in {"down", "hung"}, Database!Fault(c, how) PROVE Quiet'
  BY <1>1, StaysQuiet DEF Database!Fault
<1>2. ASSUME NEW c \in Database!Conns, Database!Repair(c) PROVE Quiet'
  <2>1. checks' = Database!Alive(c) /\ UNCHANGED <<held, dbClient, module, interval, intervals>>
    BY <1>2 DEF Database!Repair
  <2>2. DOMAIN checks' = DOMAIN checks
        /\ \A k \in DOMAIN checks : checks'[k].by = checks[k].by /\ checks'[k].phase = checks[k].phase
    <3>1. DOMAIN checks' = DOMAIN checks
          /\ \A k \in DOMAIN checks : checks'[k] = [checks[k] EXCEPT !.dead = @ \ {c}] /\ checks[k] \in OneCheck
      BY <2>1, AliveKept DEF ConnInv
    <3> QED BY <3>1 DEF OneCheck
  <2> QED BY <2>1, <2>2 DEF Quiet, NoUsers
<1>3. ASSUME NEW c \in Database!Conns, Database!Lose(c) PROVE Quiet'
  <2>1. NoUsers => module # "closed"
    BY <1>3 DEF Database!Lose, Quiet
  <2> QED BY <1>3, <2>1, StaysQuiet DEF Database!Lose
<1>4. ASSUME NEW c \in Database!Conns, Database!Ready(c) PROVE Quiet'
  <2>1. UNCHANGED <<checks, interval, intervals>> /\ module \in Modules /\ module' \in {module, "starting"}
        /\ (module' # module => module = "waiting")
    BY <1>4 DEF Database!Ready, ConnInv, ConnTyped
  <2>2. NoUsers => module # "closed"
    BY <1>4 DEF Database!Ready, Quiet
  <2> QED BY <2>1, <2>2 DEF Quiet, NoUsers
<1>5. ASSUME Database!ModuleInit PROVE Quiet'
  BY <1>5, StaysQuiet DEF Database!ModuleInit
<1>6. ASSUME Database!StartConnection PROVE Quiet'
  BY <1>6, StaysQuiet DEF Database!StartConnection
<1>7. ASSUME Database!DataSourceOpen PROVE Quiet'
  BY <1>7, StaysQuiet DEF Database!DataSourceOpen
<1>8. ASSUME Database!StartFails PROVE Quiet'
  BY <1>8, StaysQuiet DEF Database!StartFails
<1>9. ASSUME Database!StartMonitors PROVE Quiet'
  <2>1. checks = <<>> /\ intervals = {}
    BY <1>9 DEF Database!StartMonitors, ConnInv, Established, Before
  <2>2. CASE HealthCheck /\ interval = 0
    <3>1. Database!BeginCheck("module") /\ module' = "monitoring" /\ UNCHANGED <<interval, intervals>>
      BY <1>9, <2>2 DEF Database!StartMonitors
    <3>2. DOMAIN checks' = {1}
      BY <2>1, <3>1, QuietAtCheck
    <3> QED BY <2>1, <3>1, <3>2 DEF Quiet
  <2>3. CASE ~(HealthCheck /\ interval = 0)
    BY <1>9, <2>1, <2>3 DEF Database!StartMonitors, Quiet
  <2> QED BY <2>2, <2>3
<1>10. ASSUME NEW u \in Users, Database!StartMonitoring(u) PROVE Quiet'
  <2>1. Database!BeginCheck(u)
    BY <1>10 DEF Database!StartMonitoring
  <2> QED BY <2>1, QuietAtCheck DEF Quiet
<1>11. ASSUME Database!TimedCheck PROVE Quiet'
  <2>1. Database!BeginCheck("timer") /\ UNCHANGED <<module, interval, intervals>>
        /\ (intervals # {} \/ module = "started")
    BY <1>11 DEF Database!TimedCheck
  <2>2. ASSUME NoUsers'
        PROVE  \A k \in DOMAIN checks' : checks'[k].by = "module" => k \in DOMAIN checks /\ checks'[k] = checks[k]
    BY <2>1, QuietAtCheck
  <2>3. NoUsers' => NoUsers
    BY <2>1, QuietAtCheck
  <2> QED BY <2>1, <2>2, <2>3 DEF Quiet
<1>12. ASSUME NEW k \in DOMAIN checks, Database!EndCheck(k) PROVE Quiet'
  <2>1. /\ checks' = [checks EXCEPT ![k] = [Database!Check(checks[k].by, {}, {}, {}) EXCEPT !.phase = "done"]]
        /\ IF checks[k].by \in Users \cup {"module"}
           THEN interval' = k /\ intervals' = intervals \cup {k} ELSE UNCHANGED <<interval, intervals>>
        /\ module' = IF checks[k].by = "module" THEN Database!Started("started") ELSE module
        /\ checks[k].phase = "running" /\ UNCHANGED <<held, dbClient>>
    BY <1>12 DEF Database!EndCheck
  <2>2. DOMAIN checks' = DOMAIN checks
        /\ \A j \in DOMAIN checks : /\ checks'[j].by = checks[j].by
                                    /\ checks'[j].phase = IF j = k THEN "done" ELSE checks[j].phase
    BY <2>1 DEF Database!Check
  <2>3. NoUsers' => NoUsers
    BY <2>2 DEF NoUsers
  <2>4. CASE checks[k].by = "module"
    <3>1. ASSUME NoUsers'
          PROVE  k = 1 /\ module = "monitoring" /\ intervals = {} /\ "module" \notin Users
      BY <2>1, <2>3, <2>4, <3>1 DEF Quiet, NoUsers
    <3> QED BY <2>1, <2>2, <2>4, <3>1 DEF Quiet, Database!Started, NoUsers
  <2>5. CASE checks[k].by # "module"
    <3>1. NoUsers' => UNCHANGED <<interval, intervals, module>>
      BY <2>1, <2>3, <2>5 DEF NoUsers
    <3> QED BY <2>1, <2>2, <2>3, <3>1 DEF Quiet
  <2> QED BY <2>4, <2>5
<1>13. ASSUME Database!StopMonitoring PROVE Quiet'
  BY <1>13 DEF Database!StopMonitoring, Database!Stopped, Quiet, NoUsers
<1>14. ASSUME Database!ModuleDestroy PROVE Quiet'
  BY <1>14 DEF Database!ModuleDestroy, Database!Stopped, Quiet, NoUsers
<1>15. ASSUME NEW c \in Database!Conns, Database!Close(c) PROVE Quiet'
  BY <1>15, StaysQuiet DEF Database!Close
<1>16. ASSUME Database!ModuleClosed PROVE Quiet'
  <2>1. Database!Conns \subseteq held
    BY <1>16, ConfiguredConns DEF Database!ModuleClosed, ConnInv, Established, Before
  <2> QED BY <1>16, <2>1 DEF Database!ModuleClosed, Quiet, NoUsers
<1>17. CASE UNCHANGED Database!vars
  BY <1>17, StaysQuiet DEF Database!vars
<1> QED BY <1>1, <1>2, <1>3, <1>4, <1>5, <1>6, <1>7, <1>8, <1>9, <1>10, <1>11, <1>12, <1>13, <1>14,
          <1>15, <1>16, <1>17 DEF Database!Next, Database!Progress, Database!Finished

LEMMA QuietStarts == ASSUME Database!Init PROVE Quiet
  BY DEF Database!Init, Quiet, NoUsers

\* The results that are kept: each is truthful, every check that is done has ended once, and
\* those of the history are the last that did, as many as there were until it is full.
Done == {k \in DOMAIN checks : checks[k].phase = "done"}
OneResult ==
  {h \in [check : Nat, of : SUBSET Database!Conns, connected : SUBSET Database!Conns, dead : SUBSET Database!Conns,
          status : {"healthy", "degraded", "unhealthy"}] :
     /\ h.dead \subseteq h.of /\ h.connected \subseteq h.of \ h.dead
     /\ h.status = Database!DetermineOverallStatus(h.connected, h.of)}
Recorded ==
  /\ history \in Seq(OneResult) /\ ended \in Seq(Done)
  /\ \A k \in Done : \E n \in DOMAIN ended : ended[n] = k
  /\ \A m, n \in DOMAIN ended : ended[m] = ended[n] => m = n
  /\ Len(history) = IF Len(ended) < MaxHistory THEN Len(ended) ELSE MaxHistory
  /\ \A i \in DOMAIN history : history[i].check = ended[Len(ended) - Len(history) + i]

\* A result is appended, and the oldest leaves a full history.
LEMMA Appended ==
  ASSUME Database!ConnectionsAssumption, history \in Seq(OneResult), Len(history) <= MaxHistory,
         NEW r \in OneResult, history' = Database!AddToHistory(r)
  PROVE  /\ history' \in Seq(OneResult)
         /\ Len(history') = IF Len(history) < MaxHistory THEN Len(history) + 1 ELSE MaxHistory
         /\ \E d \in {0, 1} : /\ d = Len(history) + 1 - Len(history')
                            /\ \A i \in DOMAIN history' :
                                 \/ i + d \in DOMAIN history /\ history'[i] = history[i + d]
                                 \/ i + d = Len(history) + 1 /\ history'[i] = r
<1> DEFINE longer == Append(history, r)
<1>0. MaxHistory \in Nat \ {0} /\ Len(history) \in Nat /\ DOMAIN history = 1..Len(history)
  BY DEF Database!ConnectionsAssumption
<1>1. /\ longer \in Seq(OneResult) /\ Len(longer) = Len(history) + 1
      /\ \A m \in 1..Len(history) : longer[m] = history[m]
      /\ longer[Len(history) + 1] = r
  OBVIOUS
<1>2. history' = IF Len(longer) > MaxHistory THEN Tail(longer) ELSE longer
  BY DEF Database!AddToHistory
<1> HIDE DEF longer
<1>3. CASE Len(history) < MaxHistory
  <2>1. history' = longer
    BY <1>0, <1>1, <1>2, <1>3
  <2>2. \A i \in DOMAIN history' :
          \/ i + 0 \in DOMAIN history /\ history'[i] = history[i + 0]
          \/ i + 0 = Len(history) + 1 /\ history'[i] = r
    BY <1>0, <1>1, <2>1
  <2> QED BY <1>1, <1>3, <2>1, <2>2
<1>4. CASE ~(Len(history) < MaxHistory)
  <2> DEFINE m == Len(history)
             n == MaxHistory
  <2>00. m \in Nat /\ n \in Nat /\ m <= n /\ ~(m < n) /\ Len(longer) = m + 1
    BY <1>0, <1>1, <1>4
  <2> HIDE DEF m, n
  <2>01. m = n /\ Len(longer) > n
    BY <2>00
  <2>0. Len(history) = MaxHistory /\ Len(longer) > MaxHistory
    BY <2>01 DEF m, n
  <2>1. history' = Tail(longer)
    BY <1>2, <2>0
  <2>2. /\ history' \in Seq(OneResult) /\ Len(history') = Len(history)
        /\ \A i \in 1..Len(history) : history'[i] = longer[i + 1]
    BY <1>0, <1>1, <2>0, <2>1
  <2>3. \A i \in DOMAIN history' :
          \/ i + 1 \in DOMAIN history /\ history'[i] = history[i + 1]
          \/ i + 1 = Len(history) + 1 /\ history'[i] = r
    BY <1>0, <1>1, <2>2
  <2> QED BY <1>4, <2>0, <2>2, <2>3
<1> QED BY <1>3, <1>4

LEMMA RecordedStarts == ASSUME Database!ConnectionsAssumption, Database!Init PROVE Recorded
<1>1. checks = <<>> /\ history = <<>> /\ ended = <<>>
  BY DEF Database!Init
<1>2. Done = {}
  BY <1>1 DEF Done
<1> QED BY <1>1, <1>2 DEF Recorded, Database!ConnectionsAssumption

LEMMA ResultRecorded ==
  ASSUME Database!ConnectionsAssumption, ConnInv, Recorded, NEW k \in DOMAIN checks, Database!EndCheck(k)
  PROVE  Recorded'
<1>0. checks \in Seq(OneCheck) /\ DOMAIN checks = 1..Len(checks) /\ Len(checks) \in Nat /\ k \in Nat
  BY DEF ConnInv
<1>1. checks[k] \in OneCheck /\ checks[k].phase = "running"
  BY <1>0 DEF Database!EndCheck
<1>2. PICK connected \in SUBSET (checks[k].asked \ checks[k].dead) :
        history' = Database!AddToHistory([check |-> k, of |-> checks[k].of, connected |-> connected,
          dead |-> checks[k].dead, status |-> Database!DetermineOverallStatus(connected, checks[k].of)])
  BY DEF Database!EndCheck
<1> DEFINE r == [check |-> k, of |-> checks[k].of, connected |-> connected, dead |-> checks[k].dead,
                 status |-> Database!DetermineOverallStatus(connected, checks[k].of)]
<1>3. r \in OneResult /\ r.check = k
  <2>1. /\ checks[k].of \in SUBSET Database!Conns /\ checks[k].dead \in SUBSET Database!Conns /\ checks[k].dead \subseteq checks[k].of
        /\ connected \in SUBSET Database!Conns /\ connected \subseteq checks[k].of \ checks[k].dead
    BY <1>1 DEF OneCheck
  <2>2. Database!DetermineOverallStatus(connected, checks[k].of) \in {"healthy", "degraded", "unhealthy"}
    BY DEF Database!DetermineOverallStatus
  <2> QED BY <1>0, <2>1, <2>2 DEF OneResult
<1>4. history' = Database!AddToHistory(r)
  BY <1>2
<1> HIDE DEF r
<1>5. /\ checks' = [checks EXCEPT ![k] = [Database!Check(checks[k].by, {}, {}, {}) EXCEPT !.phase = "done"]]
      /\ ended' = Append(ended, k)
  BY DEF Database!EndCheck
<1>6. DOMAIN checks' = DOMAIN checks
      /\ \A j \in DOMAIN checks : checks'[j].phase = IF j = k THEN "done" ELSE checks[j].phase
  BY <1>5 DEF Database!Check
<1>7. Done' = Done \cup {k} /\ k \notin Done
  BY <1>1, <1>6 DEF Done
<1>8. /\ ended' \in Seq(Done') /\ DOMAIN ended' = DOMAIN ended \cup {Len(ended) + 1}
      /\ \A n \in DOMAIN ended : ended'[n] = ended[n] /\ ended[n] \in Done
      /\ ended'[Len(ended) + 1] = k /\ Len(ended') = Len(ended) + 1
      /\ DOMAIN ended = 1..Len(ended) /\ Len(ended) \in Nat
  <2>1. ended \in Seq(Done') /\ k \in Done' /\ ended \in Seq(Done)
    BY <1>7 DEF Recorded
  <2> QED BY <1>5, <2>1
<1>9. MaxHistory \in Nat \ {0} /\ Len(history) <= MaxHistory /\ history \in Seq(OneResult) /\ Len(history) \in Nat
  BY <1>8 DEF Recorded, Database!ConnectionsAssumption
<1>10. /\ history' \in Seq(OneResult)
       /\ Len(history') = IF Len(history) < MaxHistory THEN Len(history) + 1 ELSE MaxHistory
  BY <1>3, <1>4, <1>9, Appended
<1>11. PICK d \in {0, 1} :
         /\ d = Len(history) + 1 - Len(history')
         /\ \A i \in DOMAIN history' :
              \/ i + d \in DOMAIN history /\ history'[i] = history[i + d]
              \/ i + d = Len(history) + 1 /\ history'[i] = r
  BY <1>3, <1>4, <1>9, Appended
<1>12. Len(history') = IF Len(ended') < MaxHistory THEN Len(ended') ELSE MaxHistory
  BY <1>8, <1>9, <1>10 DEF Recorded
<1>13. \A j \in Done' : \E n \in DOMAIN ended' : ended'[n] = j
  BY <1>7, <1>8 DEF Recorded
<1>14. \A m, n \in DOMAIN ended' : ended'[m] = ended'[n] => m = n
  BY <1>7, <1>8 DEF Recorded
<1>15. ASSUME NEW i \in DOMAIN history'
       PROVE  history'[i].check = ended'[Len(ended') - Len(history') + i]
  <2> DEFINE place == Len(ended') - Len(history') + i
  <2>0. i \in Nat /\ Len(history') \in Nat /\ DOMAIN history = 1..Len(history) /\ DOMAIN history' = 1..Len(history')
    BY <1>9, <1>10
  <2>1. place = Len(ended) - Len(history) + (i + d)
    <3> DEFINE e == Len(ended)
               e1 == Len(ended')
               h == Len(history)
               h1 == Len(history')
    <3>1. e \in Nat /\ h \in Nat /\ h1 \in Nat /\ e1 = e + 1 /\ d = h + 1 - h1
      BY <1>8, <1>9, <1>11, <2>0
    <3> HIDE DEF e, e1, h, h1
    <3>2. e1 - h1 + i = e - h + (i + d)
      BY <2>0, <3>1
    <3> QED BY <3>2 DEF e, e1, h, h1
  <2>2. CASE i + d \in DOMAIN history /\ history'[i] = history[i + d]
    <3>1. Len(history) <= Len(ended)
      BY <1>8, <1>9 DEF Recorded
    <3>2. place \in DOMAIN ended
      BY <1>8, <1>9, <2>0, <2>1, <2>2, <3>1
    <3>3. history[i + d].check = ended[place]
      BY <2>1, <2>2 DEF Recorded
    <3> QED BY <1>8, <2>2, <3>2, <3>3
  <2>3. CASE i + d = Len(history) + 1 /\ history'[i] = r
    <3>1. place = Len(ended) + 1
      BY <1>8, <1>9, <2>1, <2>3
    <3> QED BY <1>3, <1>8, <2>3, <3>1
  <2> QED BY <1>11, <2>2, <2>3
<1> QED BY <1>8, <1>10, <1>12, <1>13, <1>14, <1>15 DEF Recorded

\* Whatever does not end a check.
LEMMA KeepsRecords ==
  ASSUME Recorded, Done' = Done, UNCHANGED <<history, ended>>
  PROVE  Recorded'
  BY DEF Recorded

LEMMA RecordedAtCheck ==
  ASSUME ConnInv, Recorded, NEW by \in Users \cup {"module", "timer"}, Database!BeginCheck(by),
         UNCHANGED <<history, ended>>
  PROVE  Recorded'
<1>1. PICK of \in SUBSET Database!Conns : \E asked \in SUBSET of, dead \in SUBSET of :
        checks' = Append(checks, Database!Check(by, of, asked, dead))
  BY CheckBegins DEF ConnInv, Begun
<1>2. PICK asked \in SUBSET of, dead \in SUBSET of : checks' = Append(checks, Database!Check(by, of, asked, dead))
  BY <1>1
<1>3. Database!Check(by, of, asked, dead) \in OneCheck /\ Database!Check(by, of, asked, dead).phase = "running"
  BY DEF Database!Check, OneCheck
<1>4. DOMAIN checks' = DOMAIN checks \cup {Len(checks) + 1} /\ checks'[Len(checks) + 1].phase = "running"
      /\ \A k \in DOMAIN checks : checks'[k] = checks[k]
      /\ Len(checks) + 1 \notin DOMAIN checks
  BY <1>2, <1>3 DEF ConnInv
<1>5. Done' = Done
  BY <1>4 DEF Done
<1> QED BY <1>5, KeepsRecords

LEMMA RecordedStep == ASSUME Database!ConnectionsAssumption, ConnInv, Recorded, [Database!Next]_(Database!vars) PROVE Recorded'
<1>1. ASSUME NEW c \in Database!Conns, NEW how \in {"down", "hung"}, Database!Fault(c, how) PROVE Recorded'
  BY <1>1, KeepsRecords DEF Database!Fault, Done
<1>2. ASSUME NEW c \in Database!Conns, Database!Repair(c) PROVE Recorded'
  <2>1. checks' = Database!Alive(c) /\ UNCHANGED <<history, ended>>
    BY <1>2 DEF Database!Repair
  <2>2. DOMAIN checks' = DOMAIN checks
        /\ \A k \in DOMAIN checks : checks'[k] = [checks[k] EXCEPT !.dead = @ \ {c}] /\ checks[k] \in OneCheck
    BY <2>1, AliveKept DEF ConnInv
  <2>3. \A k \in DOMAIN checks : checks'[k].phase = checks[k].phase
    BY <2>2 DEF OneCheck
  <2>4. Done' = Done
    BY <2>2, <2>3 DEF Done
  <2> QED BY <2>1, <2>4, KeepsRecords
<1>3. ASSUME NEW c \in Database!Conns, Database!Lose(c) PROVE Recorded'
  BY <1>3, KeepsRecords DEF Database!Lose, Done
<1>4. ASSUME NEW c \in Database!Conns, Database!Ready(c) PROVE Recorded'
  BY <1>4, KeepsRecords DEF Database!Ready, Done
<1>5. CASE Database!ModuleInit \/ Database!StartConnection \/ Database!DataSourceOpen \/ Database!StartFails \/ Database!ModuleClosed
  BY <1>5, KeepsRecords DEF Database!ModuleInit, Database!StartConnection, Database!DataSourceOpen, Database!StartFails, Database!ModuleClosed, Done
<1>6. CASE Database!StartMonitors
  <2>1. CASE HealthCheck /\ interval = 0
    BY <1>6, <2>1, RecordedAtCheck DEF Database!StartMonitors
  <2>2. CASE ~(HealthCheck /\ interval = 0)
    BY <1>6, <2>2, KeepsRecords DEF Database!StartMonitors, Done
  <2> QED BY <2>1, <2>2
<1>7. ASSUME NEW u \in Users, Database!StartMonitoring(u) PROVE Recorded'
  BY <1>7, RecordedAtCheck DEF Database!StartMonitoring
<1>8. CASE Database!TimedCheck
  BY <1>8, RecordedAtCheck DEF Database!TimedCheck
<1>9. ASSUME NEW k \in DOMAIN checks, Database!EndCheck(k) PROVE Recorded'
  BY <1>9, ResultRecorded
<1>10. CASE Database!StopMonitoring \/ Database!ModuleDestroy
  BY <1>10, KeepsRecords DEF Database!StopMonitoring, Database!ModuleDestroy, Database!Stopped, Done
<1>11. ASSUME NEW c \in Database!Conns, Database!Close(c) PROVE Recorded'
  BY <1>11, KeepsRecords DEF Database!Close, Done
<1>12. CASE UNCHANGED Database!vars
  BY <1>12, KeepsRecords DEF Database!vars, Done
<1> QED BY <1>1, <1>2, <1>3, <1>4, <1>5, <1>6, <1>7, <1>8, <1>9, <1>10, <1>11, <1>12
        DEF Database!Next, Database!Progress, Database!Finished

\* Each result has one of the three statuses, so their counts add up to the history.
LEMMA CountsAddUp ==
  ASSUME history \in Seq(OneResult)
  PROVE  Database!HealthStatistics.healthyChecks + Database!HealthStatistics.degradedChecks
           + Database!HealthStatistics.unhealthyChecks = Len(history)
<1> DEFINE With(status) == {i \in DOMAIN history : history[i].status = status}
<1>1. DOMAIN history = 1..Len(history) /\ Len(history) \in Nat
  OBVIOUS
<1>2. IsFiniteSet(DOMAIN history) /\ Cardinality(DOMAIN history) = Len(history)
  BY <1>1, FS_Interval
<1>3. \A i \in DOMAIN history : history[i] \in OneResult
  OBVIOUS
<1>4. DOMAIN history = With("healthy") \cup With("degraded") \cup With("unhealthy")
  BY <1>3 DEF OneResult
<1>5. \A status : IsFiniteSet(With(status)) /\ Cardinality(With(status)) \in Nat
  <2> TAKE status
  <2>1. With(status) \in SUBSET DOMAIN history
    OBVIOUS
  <2> QED BY <1>2, <2>1, FS_Subset, FS_CardinalityType
<1>6. With("healthy") \cap With("degraded") = {}
      /\ (With("healthy") \cup With("degraded")) \cap With("unhealthy") = {}
  OBVIOUS
<1>7. \A status : Database!Checked(status) = Cardinality(With(status))
  BY DEF Database!Checked, Database!Quantify, Database!Cardinality, Cardinality
<1> HIDE DEF With
<1>8. /\ IsFiniteSet(With("healthy") \cup With("degraded"))
      /\ Cardinality(With("healthy") \cup With("degraded"))
           = Cardinality(With("healthy")) + Cardinality(With("degraded"))
  <2>1. Cardinality(With("healthy") \cap With("degraded")) = 0
    BY <1>6, FS_EmptySet
  <2>2. /\ IsFiniteSet(With("healthy") \cup With("degraded"))
        /\ Cardinality(With("healthy") \cup With("degraded"))
           = Cardinality(With("healthy")) + Cardinality(With("degraded"))
             - Cardinality(With("healthy") \cap With("degraded"))
    BY <1>5, FS_Union
  <2> QED BY <1>5, <2>1, <2>2
<1>9. Cardinality(DOMAIN history)
        = Cardinality(With("healthy") \cup With("degraded")) + Cardinality(With("unhealthy"))
  <2> DEFINE both == With("healthy") \cup With("degraded")
  <2>1. IsFiniteSet(both) /\ Cardinality(both) \in Nat
    BY <1>8, FS_CardinalityType
  <2>2. Cardinality(both \cap With("unhealthy")) = 0
    BY <1>6, FS_EmptySet
  <2>3. Cardinality(both \cup With("unhealthy"))
          = Cardinality(both) + Cardinality(With("unhealthy")) - Cardinality(both \cap With("unhealthy"))
    BY <1>5, <2>1, FS_Union
  <2> QED BY <1>4, <1>5, <2>1, <2>2, <2>3
<1>10. /\ Database!HealthStatistics.healthyChecks = Database!Checked("healthy")
       /\ Database!HealthStatistics.degradedChecks = Database!Checked("degraded")
       /\ Database!HealthStatistics.unhealthyChecks = Database!Checked("unhealthy")
  BY DEF Database!HealthStatistics
<1> QED BY <1>2, <1>5, <1>7, <1>8, <1>9, <1>10

LEMMA TruthfulFromRecords == ASSUME Recorded PROVE Database!ResultsTruthful
<1>1. history \in Seq(OneResult)
  BY DEF Recorded
<1>2. ASSUME NEW i \in DOMAIN history
      PROVE  /\ history[i].connected \subseteq history[i].of \ history[i].dead
             /\ history[i].status = "healthy" => history[i].dead = {}
             /\ history[i].status = "unhealthy" <=> (history[i].connected = {} /\ history[i].of # {})
  <2>1. history[i] \in OneResult
    BY <1>1
  <2> QED BY <2>1 DEF OneResult, Database!DetermineOverallStatus
<1> QED BY <1>1, <1>2, CountsAddUp DEF Database!ResultsTruthful

LEMMA RecentFromRecords ==
  ASSUME Database!ConnectionsAssumption, Recorded
  PROVE  Database!HistoryRecent
<1> DEFINE m == MaxHistory
           n == Len(ended)
<1>1. m \in Nat /\ n \in Nat
  BY DEF Recorded, Database!ConnectionsAssumption
<1> HIDE DEF m, n
<1>2. Database!Min({m, n}) = IF n < m THEN n ELSE m
  <2> DEFINE least == IF n < m THEN n ELSE m
  <2>1. least \in {m, n} /\ \A y \in {m, n} : least <= y
    BY <1>1
  <2>2. \A x \in {m, n} : (\A y \in {m, n} : x <= y) => x = least
    BY <1>1
  <2> HIDE DEF least
  <2>3. Database!Min({m, n}) = least
    BY <2>1, <2>2 DEF Database!Min
  <2> QED BY <2>3 DEF least
<1>3. Len(history) = Database!Min({MaxHistory, Len(ended)})
  BY <1>2 DEF Recorded, m, n
<1>4. Database!Range(ended) = {k \in DOMAIN checks : checks[k].phase = "done"}
  <2>1. Database!Range(ended) = Done
    BY DEF Recorded, Database!Range
  <2> QED BY <2>1 DEF Done
<1>5. Database!IsInjective(ended)
  BY DEF Recorded, Database!IsInjective
<1> QED BY <1>3, <1>4, <1>5 DEF Database!HistoryRecent, Recorded

\* The inductive invariant of the connections.
HealthInv == ConnInv /\ Quiet /\ Recorded

LEMMA HealthStarts == ASSUME Database!ConnectionsAssumption, Database!Init PROVE HealthInv
  BY ConnStarts, QuietStarts, RecordedStarts DEF HealthInv

LEMMA HealthStep == ASSUME Database!ConnectionsAssumption, HealthInv, [Database!Next]_(Database!vars) PROVE HealthInv'
  BY ConnStep, QuietStep, RecordedStep DEF HealthInv

\* The invariant is what the properties follow from.
LEMMA HealthTold ==
  ASSUME Database!ConnectionsAssumption, HealthInv
  PROVE  Database!AllEstablished /\ Database!ClosedIsQuiet /\ Database!ResultsTruthful /\ Database!HistoryRecent
<1> USE DEF HealthInv
<1>1. Database!AllEstablished
  <2> SUFFICES ASSUME Database!initialized, NEW c \in Database!Conns
               PROVE  /\ c \in held /\ registry[c] # "absent"
                      /\ Database!TypeOf(c) # "mongodb" \/ c \in Nest => dbClient[c] \notin {"none", "connecting"}
    BY DEF Database!AllEstablished
  <2>1. module = "started"
    BY DEF Database!initialized
  <2>2. PICK i \in 1..Len(Configured) : Configured[i] = c
    BY ConfiguredConns
  <2>3. c \in held
    BY <2>1, <2>2 DEF ConnInv, Established, Before
  <2> QED BY <2>3 DEF ConnInv, Established, Waited
<1>2. Database!ClosedIsQuiet
  <2> SUFFICES ASSUME module = "closed", NoUsers
               PROVE  held = {} /\ intervals = {} /\ \A c \in Database!Conns : dbClient[c] = "closed"
    BY DEF Database!ClosedIsQuiet, NoUsers
  <2> QED BY DEF Quiet
<1>3. Database!ResultsTruthful /\ Database!HistoryRecent
  BY TruthfulFromRecords, RecentFromRecords DEF ConnInv
<1> QED BY <1>1, <1>2, <1>3

\* DatabaseService and DatabaseHealthService: a module that has started has every connection;
\* one that is closed has none and no timer; what the history says is true, and it holds the
\* checks that ended last, as many as it takes, in the order in which they ended.
THEOREM HealthReported ==
  ASSUME Database!ConnectionsAssumption
  PROVE  Database!Spec => [](Database!AllEstablished /\ Database!ClosedIsQuiet /\ Database!ResultsTruthful /\ Database!HistoryRecent)
<1>1. Database!Init => HealthInv
  BY HealthStarts
<1>2. HealthInv /\ [Database!Next]_(Database!vars) => HealthInv'
  BY HealthStep
<1>3. HealthInv => Database!AllEstablished /\ Database!ClosedIsQuiet /\ Database!ResultsTruthful /\ Database!HistoryRecent
  BY HealthTold
<1> QED BY <1>1, <1>2, <1>3, PTL DEF Database!Spec

------------------------------------------------------------------------------
(* A collection or a table: the rows *)

\* What is read of a row, and what a job knows of its own.
Read(row) == {"key", "status"} \subseteq DOMAIN row
RowsTyped ==
  /\ last \in Nat /\ DOMAIN rows \subseteq 1..last
  /\ \A i \in DOMAIN rows : Read(rows[i])
Distinct == \A i, k \in DOMAIN rows : rows[i].key = rows[k].key => i = k
RowsInv == RowsTyped /\ (unique => Distinct)

\* How a step changes the rows: new ones have new numbers, and others may not have seen it.
Grown ==
  /\ last' \in Nat /\ last <= last'
  /\ DOMAIN rows' \subseteq DOMAIN rows \cup ((last + 1)..last')
Undisturbed == Table!Open \subseteq Table!Open' /\ Table!Open' \cap DOMAIN rows \subseteq Table!Open

Wanted(j) ==
  /\ j.op \in Table!Commands \cup {"upserts", "createMany", "transaction", "batch"}
  /\ Len(j.records) \in Nat /\ \A i \in 1..Len(j.records) : Read(j.records[i])
  /\ j.op # "batch" => Len(j.records) > 0
  /\ j.op = "batch" => j.size \in Nat \ {0}
  /\ j.keep \in BOOLEAN /\ j.settles \in BOOLEAN /\ j.sorted \in BOOLEAN

LEMMA JobsWanted == ASSUME Table!StoreAssumption, NEW j \in StoreJobs PROVE Wanted(j)
<1>1. \A r \in Table!Records : Read(r)
  BY DEF Table!Records, Table!RowOf, Read
<1>2. /\ j.op \in Table!Commands \cup {"upserts", "createMany", "transaction", "batch"}
      /\ j.records \in Seq(Table!Records) /\ {j.keep, j.settles, j.sorted} \subseteq BOOLEAN
      /\ IF j.op = "batch" THEN j.size \in Nat \ {0} ELSE j.records # <<>>
  BY DEF Table!StoreAssumption
<1> QED BY <1>1, <1>2 DEF Wanted

\* One row is inserted.
LEMMA InsertedOne ==
  ASSUME RowsTyped, NEW r, Read(r), Table!Insert(r)
  PROVE  /\ RowsTyped' /\ Grown
         /\ Distinct /\ (\A i \in DOMAIN rows : rows[i].key # r.key) => Distinct'
<1>1. RowsTyped' /\ Grown
  BY DEF RowsTyped, Table!Insert, Grown
<1>2. \A i \in DOMAIN rows : i # last + 1 /\ rows'[i] = rows[i]
  BY DEF RowsTyped, Table!Insert
<1>3. ASSUME Distinct, \A i \in DOMAIN rows : rows[i].key # r.key PROVE Distinct'
  BY <1>2, <1>3 DEF Distinct, Table!Insert
<1> QED BY <1>1, <1>3

\* Some of a batch are inserted.
LEMMA InsertedAll ==
  ASSUME RowsTyped, NEW batch, Len(batch) \in Nat, DOMAIN batch = 1..Len(batch),
         \A i \in DOMAIN batch : Read(batch[i]),
         NEW ids \in SUBSET DOMAIN batch, Table!InsertAll(batch, ids)
  PROVE  /\ RowsTyped' /\ Grown
         /\ unique /\ Distinct /\ Table!Duplicates(batch, ids) = {} => Distinct'
<1>1. RowsTyped' /\ Grown
  BY DEF RowsTyped, Table!InsertAll, Grown
<1>2. \A i \in DOMAIN rows : i <= last /\ rows'[i] = rows[i]
  BY DEF RowsTyped, Table!InsertAll
<1>3. \A k \in ids : last + k > last /\ last + k \in DOMAIN rows' /\ rows'[last + k] = batch[k]
  BY DEF RowsTyped, Table!InsertAll
<1>4. \A i \in DOMAIN rows' : i \in DOMAIN rows \/ \E k \in ids : i = last + k
  BY DEF Table!InsertAll
<1>5. ASSUME unique, Distinct, Table!Duplicates(batch, ids) = {} PROVE Distinct'
  <2>1. \A i \in ids : (\A r \in DOMAIN rows : rows[r].key # batch[i].key)
                       /\ (\A k \in ids : k < i => batch[k].key # batch[i].key)
    BY <1>5 DEF Table!Duplicates
  <2>2. \A i, k \in ids : batch[i].key = batch[k].key => i = k
    BY <2>1
  <2> QED BY <1>2, <1>3, <1>4, <1>5, <2>1, <2>2 DEF Distinct
<1> QED BY <1>1, <1>5

\* What is changed of a row is not its key, and what is deleted is gone.
LEMMA RowsEdited ==
  ASSUME RowsTyped, last' = last, DOMAIN rows' \subseteq DOMAIN rows,
         \A i \in DOMAIN rows' : rows'[i].key = rows[i].key /\ DOMAIN rows'[i] = DOMAIN rows[i]
  PROVE  RowsTyped' /\ Grown /\ (Distinct => Distinct')
<1>1. RowsTyped' /\ Grown
  BY DEF RowsTyped, Grown, Read
<1> QED BY <1>1 DEF Distinct

LEMMA EditKeeps ==
  ASSUME NEW op, NEW row, NEW record, Read(row)
  PROVE  /\ Table!Edited(op, row, record).key = row.key
         /\ DOMAIN Table!Edited(op, row, record) = DOMAIN row
  BY DEF Table!Edited, Read

------------------------------------------------------------------------------
(* The jobs: what they report *)

Stages(op) ==
  IF op = "none" THEN {"idle"} ELSE IF op = "upserts" THEN {"look", "write", "done"}
  ELSE IF op = "createMany" THEN {"batch", "each", "done"}
  ELSE IF op = "batch" THEN {"count", "fetch", "process", "done"}
  ELSE IF op = "transaction" THEN {"within", "commit", "done"} ELSE {"command", "read", "done"}
Pcs == {"idle", "look", "write", "batch", "each", "count", "fetch", "process", "within", "commit",
        "command", "read", "done"}
Replies == {"", "done", "missed", "threw"}
Running ==
  [job : StoreJobs \cup {Table!NoJob}, pc : Pcs, at : Nat \ {0}, found : Nat, inserted : Nat, updated : Nat,
   failed : Nat, answer : Replies, made : Nat, changed : Nat, page : Nat \ {0}, total : Nat,
   data : SUBSET Nat, seen : SUBSET Nat, again : BOOLEAN, due : SUBSET Nat, lost : BOOLEAN]
Size(p) == Len(p.job.records)
JobTyped(p) ==
  /\ p \in Running /\ p.pc \in Stages(p.job.op)
  /\ p.pc \notin {"done", "idle"} /\ p.job.op # "batch" => p.at <= Size(p)

\* What has been counted is what was done, and all the records before the current one are
\* counted; a method that has not answered has done nothing, or has to read what it did.
Bulk(p) == p.job.op \in {"upserts", "createMany"}
Valid(j, kind) == kind = "postgres" \/ \A r \in Table!Range(j.records) : r.status # "bad"
Handled(p) == IF p.pc = "done" THEN Size(p) ELSE p.at - 1
Counts(p, kind) ==
  /\ kind = "mongo" /\ (Bulk(p) \/ p.job.op = "updateMany") => p.updated = p.changed
  /\ Bulk(p) /\ Valid(p.job, kind) =>
       p.inserted = p.made /\ (p.job.keep \/ p.inserted + p.updated + p.failed = Handled(p))
  /\ p.pc = "each" => p.found > 0 /\ p.at + p.found <= Size(p) + 1
Answers(p) ==
  /\ p.pc # "done" \/ Bulk(p) \/ p.job.op = "batch" => p.answer = ""
  /\ p.pc \in {"command", "within", "commit"} => p.changed = 0 /\ p.made = 0 /\ p.updated = 0
  /\ p.answer = "done" => p.changed > 0 \/ p.made > 0 \/ p.updated > 0
  /\ p.answer = "threw" => p.changed = 0 /\ p.made = 0
  /\ p.job.op = "transaction" /\ p.answer = "done" => p.made = Size(p)
\* ids are the rows there are, and n is the last number.
ReadsBack(p, ids, n) ==
  p.pc = "read" => /\ p.made = 0 /\ p.job.op # "updateMany" /\ p.found <= n
                   /\ p.changed > 0 \/ p.found \notin ids
Reports(p, kind, ids, n) == Counts(p, kind) /\ Answers(p) /\ ReadsBack(p, ids, n)
JobsInv ==
  /\ job \in [Writers -> Running]
  /\ \A c \in Writers : JobTyped(job[c]) /\ Reports(job[c], dialect, DOMAIN rows, last)

LEMMA StillRead ==
  ASSUME NEW p \in Running, NEW ids, NEW n \in Nat, ReadsBack(p, ids, n),
         NEW more, NEW m \in Nat, n <= m, more \subseteq ids \cup ((n + 1)..m)
  PROVE  ReadsBack(p, more, m)
<1>1. p.found \in Nat
  BY DEF Running
<1> QED BY <1>1 DEF ReadsBack

\* A step of a caller leaves the jobs of the others, but for what they may have lost.
LEMMA LostReports ==
  ASSUME NEW p \in Running, JobTyped(p), NEW kind, NEW ids, NEW n, Reports(p, kind, ids, n)
  PROVE  LET q == [p EXCEPT !.lost = TRUE] IN q \in Running /\ JobTyped(q)
         /\ Reports(q, kind, ids, n)
<1> DEFINE q == [p EXCEPT !.lost = TRUE]
<1>1. /\ q \in Running /\ q.job = p.job /\ q.pc = p.pc /\ q.at = p.at /\ q.found = p.found
      /\ q.inserted = p.inserted /\ q.updated = p.updated /\ q.failed = p.failed
      /\ q.answer = p.answer /\ q.made = p.made /\ q.changed = p.changed
  BY DEF Running
<1> HIDE DEF q
<1>2. JobTyped(q)
  BY <1>1 DEF JobTyped, Size
<1>3. Counts(q, kind)
  BY <1>1 DEF Reports, Counts, Bulk, Valid, Handled, Size
<1>4. Answers(q) /\ ReadsBack(q, ids, n)
  BY <1>1 DEF Reports, Answers, Bulk, ReadsBack, Size
<1> QED BY <1>1, <1>2, <1>3, <1>4 DEF Reports, q

\* What the stage of a job tells of what was asked for.
Asks(p) ==
  /\ Wanted(p.job)
  /\ p.pc \in {"look", "write"} => p.job.op = "upserts"
  /\ p.pc \in {"batch", "each"} => p.job.op = "createMany"
  /\ p.pc \in {"count", "fetch", "process"} => p.job.op = "batch"
  /\ p.pc \in {"within", "commit"} => p.job.op = "transaction"
  /\ p.pc \in {"command", "read"} => p.job.op \in Table!Commands
  /\ p.pc # "done" /\ p.job.op # "batch" =>
       p.at \in 1..Size(p) /\ Read(p.job.records[p.at])

LEMMA AtWork ==
  ASSUME Table!StoreAssumption, NEW p \in Running, JobTyped(p), p.pc # "idle"
  PROVE  Asks(p)
<1>1. p.job \in StoreJobs
  BY DEF Running, JobTyped, Table!NoJob, Table!Job, Stages
<1>2. Wanted(p.job)
  BY <1>1, JobsWanted
<1>3. p.job.op # "none"
  BY <1>2 DEF Wanted, Table!Commands, Table!Updates, Table!Operators
<1>4. /\ p.pc \in {"look", "write"} => p.job.op = "upserts"
      /\ p.pc \in {"batch", "each"} => p.job.op = "createMany"
      /\ p.pc \in {"count", "fetch", "process"} => p.job.op = "batch"
      /\ p.pc \in {"within", "commit"} => p.job.op = "transaction"
  BY <1>3 DEF JobTyped, Stages
<1>5. p.pc \in {"command", "read"} => p.job.op \in Table!Commands
  BY <1>2 DEF Wanted, JobTyped, Stages
<1>6. p.pc # "done" /\ p.job.op # "batch" =>
        p.at \in 1..Size(p) /\ Read(p.job.records[p.at])
  BY <1>2 DEF Wanted, JobTyped, Running, Size
<1> QED BY <1>2, <1>4, <1>5, <1>6 DEF Asks

\* A step sets some fields of a job and keeps the others.
Fields ==
  {"job", "pc", "at", "found", "inserted", "updated", "failed", "answer", "made", "changed",
   "page", "total", "data", "seen", "again", "due", "lost"}
Counting == {"inserted", "updated", "failed", "made", "changed"}
Sets(p, q, fields) == q \in Running /\ \A f \in Fields \ fields : q[f] = p[f]

LEMMA PcSet ==
  ASSUME NEW p \in Running, NEW x \in Pcs
  PROVE  LET q == [p EXCEPT !.pc = x] IN q \in Running /\ Sets(p, q, {"pc"}) /\ q.pc = x
  BY DEF Running, Fields, Sets
LEMMA AtSet ==
  ASSUME NEW p \in Running, NEW x \in Nat \ {0}
  PROVE  LET q == [p EXCEPT !.at = x] IN q \in Running /\ Sets(p, q, {"at"}) /\ q.at = x
  BY DEF Running, Fields, Sets
LEMMA FoundSet ==
  ASSUME NEW p \in Running, NEW x \in Nat
  PROVE  LET q == [p EXCEPT !.found = x] IN q \in Running /\ Sets(p, q, {"found"}) /\ q.found = x
  BY DEF Running, Fields, Sets
LEMMA AnswerSet ==
  ASSUME NEW p \in Running, NEW x \in Replies
  PROVE  LET q == [p EXCEPT !.answer = x] IN q \in Running /\ Sets(p, q, {"answer"}) /\ q.answer = x
  BY DEF Running, Fields, Sets
LEMMA Stated == /\ "done" \in Pcs /\ "look" \in Pcs /\ "write" \in Pcs /\ "batch" \in Pcs
               /\ "each" \in Pcs /\ "count" \in Pcs /\ "fetch" \in Pcs /\ "process" \in Pcs
               /\ "commit" \in Pcs /\ "read" \in Pcs
  BY DEF Pcs
LEMMA InsertedSet ==
  ASSUME NEW p \in Running, NEW t \in Nat, NEW n \in Nat
  PROVE  LET q == Table!Inserted(p, t, n) IN
         /\ q \in Running /\ Sets(p, q, {"inserted", "made"})
         /\ q.inserted = p.inserted + t /\ q.made = p.made + n
<1>1. PICK x \in Nat : x = p.inserted + t
  BY DEF Running
<1>2. PICK y \in Nat : y = p.made + n
  BY DEF Running
<1> DEFINE q == [p EXCEPT !.inserted = x, !.made = y]
<1>3. q \in Running /\ Sets(p, q, {"inserted", "made"}) /\ q.inserted = x /\ q.made = y
  BY DEF Running, Fields, Sets
<1>4. Table!Inserted(p, t, n) = q
  BY <1>1, <1>2 DEF Table!Inserted
<1> HIDE DEF q
<1> QED BY <1>1, <1>2, <1>3, <1>4
LEMMA UpdatedSet ==
  ASSUME NEW p \in Running, NEW t \in Nat, NEW n \in Nat
  PROVE  LET q == Table!Updated(p, t, n) IN
         /\ q \in Running /\ Sets(p, q, {"updated", "changed"})
         /\ q.updated = p.updated + t /\ q.changed = p.changed + n
<1>1. PICK x \in Nat : x = p.updated + t
  BY DEF Running
<1>2. PICK y \in Nat : y = p.changed + n
  BY DEF Running
<1> DEFINE q == [p EXCEPT !.updated = x, !.changed = y]
<1>3. q \in Running /\ Sets(p, q, {"updated", "changed"}) /\ q.updated = x /\ q.changed = y
  BY DEF Running, Fields, Sets
<1>4. Table!Updated(p, t, n) = q
  BY <1>1, <1>2 DEF Table!Updated
<1> HIDE DEF q
<1> QED BY <1>1, <1>2, <1>3, <1>4
LEMMA FailedSet ==
  ASSUME NEW p \in Running, NEW n \in Nat
  PROVE  LET q == Table!Failed(p, n) IN
         q \in Running /\ Sets(p, q, {"failed"}) /\ q.failed = p.failed + n
  BY DEF Table!Failed, Running, Fields, Sets

\* The next record, and the next batch.
LEMMA Advancing ==
  ASSUME NEW p \in Running, Size(p) \in Nat, p.at <= Size(p)
  PROVE  LET q == Table!Advanced(p) IN
         /\ q \in Running /\ Sets(p, q, {"at", "pc"}) /\ Handled(q) = p.at
            /\ q.pc \in {"look", "done"}
         /\ q.pc # "done" => q.at <= Size(p)
<1>1. p.at \in Nat \ {0} /\ p.at + 1 \in Nat \ {0}
  BY DEF Running
<1>2. CASE p.at = Size(p)
  <2>1. Table!Advanced(p) = [p EXCEPT !.pc = "done"]
    BY <1>2 DEF Table!Advanced, Size
  <2>2. Sets(p, Table!Advanced(p), {"pc"}) /\ Table!Advanced(p).pc = "done"
    BY <2>1, PcSet, Stated
  <2> QED BY <1>2, <2>2 DEF Handled, Sets, Fields, Size
<1>3. CASE p.at # Size(p)
  <2> DEFINE r == [p EXCEPT !.at = p.at + 1]
  <2>1. Table!Advanced(p) = [r EXCEPT !.pc = "look"]
    BY <1>3 DEF Table!Advanced, Size
  <2>2. r \in Running /\ Sets(p, r, {"at"}) /\ r.at = p.at + 1
    BY <1>1, AtSet
  <2> HIDE DEF r
  <2>3. Sets(r, Table!Advanced(p), {"pc"}) /\ Table!Advanced(p).pc = "look"
    BY <2>1, <2>2, PcSet, Stated
  <2> QED BY <1>1, <1>3, <2>2, <2>3 DEF Handled, Sets, Fields
<1> QED BY <1>2, <1>3

LEMMA NextBatching ==
  ASSUME NEW p \in Running, Size(p) \in Nat, NEW n \in Nat \ {0}, p.at + n <= Size(p) + 1
  PROVE  LET q == Table!NextBatch(p, n) IN
         /\ q \in Running /\ Sets(p, q, {"at", "pc"}) /\ Handled(q) = p.at + n - 1
         /\ q.pc \in {"batch", "done"} /\ (q.pc # "done" => q.at <= Size(p))
<1>1. p.at \in Nat \ {0} /\ p.at + n \in Nat \ {0}
  BY DEF Running
<1>2. CASE p.at + n > Size(p)
  <2>1. Table!NextBatch(p, n) = [p EXCEPT !.pc = "done"]
    BY <1>2 DEF Table!NextBatch, Size
  <2>2. Sets(p, Table!NextBatch(p, n), {"pc"}) /\ Table!NextBatch(p, n).pc = "done"
    BY <2>1, PcSet, Stated
  <2>3. Size(p) = p.at + n - 1
    BY <1>1, <1>2
  <2>4. Handled(Table!NextBatch(p, n)) = Size(p)
    BY <2>2 DEF Handled, Sets, Fields, Size
  <2>5. Sets(p, Table!NextBatch(p, n), {"at", "pc"})
    BY <2>2 DEF Sets
  <2> QED BY <2>2, <2>3, <2>4, <2>5 DEF Sets
<1>3. CASE ~(p.at + n > Size(p))
  <2> DEFINE r == [p EXCEPT !.at = p.at + n]
  <2>1. Table!NextBatch(p, n) = [r EXCEPT !.pc = "batch"]
    BY <1>3 DEF Table!NextBatch, Size
  <2>2. r \in Running /\ Sets(p, r, {"at"}) /\ r.at = p.at + n
    BY <1>1, AtSet
  <2> HIDE DEF r
  <2>3. Sets(r, Table!NextBatch(p, n), {"pc"}) /\ Table!NextBatch(p, n).pc = "batch"
    BY <2>1, <2>2, PcSet, Stated
  <2> QED BY <1>1, <1>3, <2>2, <2>3 DEF Handled, Sets, Fields
<1> QED BY <1>2, <1>3

\* How a job goes on.
At(p, kind) == p \in Running /\ JobTyped(p) /\ Asks(p) /\ Counts(p, kind) /\ Answers(p)
Goes(p, q, kind) ==
  q.job = p.job /\ q.pc # "idle" /\ q \in Running /\ JobTyped(q) /\ Counts(q, kind) /\ Answers(q)

LEMMA LookGoes ==
  ASSUME NEW p, NEW kind, At(p, kind), p.pc = "look", NEW i \in Nat
  PROVE  LET q == [p EXCEPT !.found = i, !.pc = "write"] IN
         Goes(p, q, kind) /\ q.pc = "write" /\ q.found = i /\ q.at = p.at
<1> DEFINE q == [p EXCEPT !.found = i, !.pc = "write"]
           r == [p EXCEPT !.found = i]
<1>a. q = [r EXCEPT !.pc = "write"] /\ p \in Running
  BY DEF At
<1>b. r \in Running /\ Sets(p, r, {"found"}) /\ r.found = i
  BY <1>a, FoundSet
<1> HIDE DEF r, q
<1>c. Sets(r, q, {"pc"}) /\ q.pc = "write"
  BY <1>a, <1>b, PcSet, Stated
<1>1. /\ q \in Running /\ Sets(p, q, {"found", "pc"}) /\ q.found = i /\ q.pc = "write"
  BY <1>b, <1>c DEF Sets, Fields
<1>2. /\ q.job = p.job /\ q.at = p.at /\ q.answer = p.answer /\ q.inserted = p.inserted
         /\ q.made = p.made
      /\ q.updated = p.updated /\ q.failed = p.failed /\ q.changed = p.changed
  BY <1>1 DEF Sets, Fields
<1>3. p.job.op = "upserts"
  BY DEF At, Asks
<1>4. JobTyped(q)
  BY <1>1, <1>2, <1>3 DEF At, JobTyped, Stages, Size
<1>5. Counts(q, kind) /\ Answers(q)
  BY <1>1, <1>2, <1>3 DEF At, Counts, Answers, Bulk, Handled
<1> QED BY <1>1, <1>2, <1>4, <1>5 DEF Goes, q

\* findOrCreate, upsert and bulkUpsert, after a record: one more is counted, once.
LEMMA UpsertGoes ==
  ASSUME NEW p, NEW kind, At(p, kind), p.pc = "write",
         NEW r \in Running, Sets(p, r, {"inserted", "updated", "failed", "made", "changed"}),
         p.inserted = p.made => r.inserted = r.made,
         kind = "mongo" /\ p.updated = p.changed => r.updated = r.changed,
         p.job.keep \/ r.inserted + r.updated + r.failed = p.inserted + p.updated + p.failed + 1
  PROVE  Goes(p, Table!Advanced(r), kind) /\ Table!Advanced(r).pc \in {"look", "done"}
<1> DEFINE q == Table!Advanced(r)
<1>1. r.job = p.job /\ r.at = p.at /\ r.answer = p.answer /\ r.pc = p.pc
  BY DEF Sets, Fields
<1>2. p.job.op = "upserts" /\ Size(p) \in Nat /\ p.at \in 1..Size(p) /\ Size(r) = Size(p)
  BY <1>1 DEF At, Asks, Wanted, Size
<1>3. /\ q \in Running /\ Sets(r, q, {"at", "pc"}) /\ Handled(q) = r.at /\ q.pc \in {"look", "done"}
      /\ q.pc # "done" => q.at <= Size(p)
  BY <1>1, <1>2, Advancing
<1> HIDE DEF q
<1>4. /\ q.job = p.job /\ q.answer = p.answer /\ q.inserted = r.inserted
      /\ q.updated = r.updated /\ q.failed = r.failed /\ q.made = r.made /\ q.changed = r.changed
  BY <1>1, <1>3 DEF Sets, Fields
<1>5. JobTyped(q)
  BY <1>2, <1>3, <1>4 DEF JobTyped, Stages, Size
<1>6. /\ p.inserted \in Nat /\ p.updated \in Nat /\ p.failed \in Nat /\ p.at \in Nat
      /\ Handled(p) = p.at - 1
  BY DEF At, Running, Handled
<1>7. Counts(q, kind)
  BY <1>1, <1>2, <1>3, <1>4, <1>6 DEF At, Counts, Bulk
<1>8. Answers(q)
  BY <1>2, <1>3, <1>4 DEF At, Answers, Bulk
<1> QED BY <1>3, <1>4, <1>5, <1>7, <1>8 DEF Goes, q

\* createMany, after n records.
LEMMA CreateManyGoes ==
  ASSUME NEW p, NEW kind, At(p, kind), p.pc \in {"batch", "each"}, NEW n \in Nat \ {0},
         p.at + n <= Size(p) + 1,
         NEW r \in Running, Sets(p, r, {"inserted", "failed", "made"}),
         Valid(p.job, kind) =>
           /\ p.inserted = p.made => r.inserted = r.made
           /\ r.inserted + r.failed = p.inserted + p.failed + n
  PROVE  Goes(p, Table!NextBatch(r, n), kind) /\ Table!NextBatch(r, n).pc \in {"batch", "done"}
<1> DEFINE q == Table!NextBatch(r, n)
<1>1. r.job = p.job /\ r.at = p.at /\ r.answer = p.answer /\ r.updated = p.updated
      /\ r.changed = p.changed
  BY DEF Sets, Fields
<1>2. p.job.op = "createMany" /\ Size(p) \in Nat /\ p.at \in 1..Size(p) /\ Size(r) = Size(p)
  BY <1>1 DEF At, Asks, Wanted, Size
<1>3. /\ q \in Running /\ Sets(r, q, {"at", "pc"}) /\ Handled(q) = r.at + n - 1
      /\ q.pc \in {"batch", "done"} /\ (q.pc # "done" => q.at <= Size(p))
  BY <1>1, <1>2, NextBatching
<1> HIDE DEF q
<1>4. /\ q.job = p.job /\ q.answer = p.answer /\ q.inserted = r.inserted
      /\ q.updated = r.updated /\ q.failed = r.failed /\ q.made = r.made /\ q.changed = r.changed
  BY <1>1, <1>3 DEF Sets, Fields
<1>5. JobTyped(q)
  BY <1>2, <1>3, <1>4 DEF JobTyped, Stages, Size
<1>6. /\ p.inserted \in Nat /\ p.updated \in Nat /\ p.failed \in Nat /\ p.at \in Nat
      /\ r.inserted \in Nat /\ r.failed \in Nat /\ Handled(p) = p.at - 1
  BY DEF At, Running, Handled
<1>7. Counts(q, kind)
  BY <1>1, <1>2, <1>3, <1>4, <1>6 DEF At, Counts, Bulk
<1>8. Answers(q)
  BY <1>1, <1>2, <1>3, <1>4 DEF At, Answers, Bulk
<1> QED BY <1>3, <1>4, <1>5, <1>7, <1>8 DEF Goes, q

\* A method answers, or a transaction: what it says is what has been done by then.
LEMMA AnswerGoes ==
  ASSUME NEW p, NEW kind, At(p, kind), p.pc \in {"command", "read", "within", "commit"},
         NEW r \in Running, Sets(p, r, Counting), NEW reply \in Replies,
         kind = "mongo" /\ p.job.op = "updateMany" => r.updated = r.changed,
         reply = "done" => r.changed > 0 \/ r.made > 0 \/ r.updated > 0,
         reply = "threw" => r.changed = 0 /\ r.made = 0,
         p.job.op = "transaction" /\ reply = "done" => r.made = Size(p)
  PROVE  Goes(p, Table!Answered(r, reply), kind) /\ Table!Answered(r, reply).pc = "done"
<1> DEFINE q == Table!Answered(r, reply)
           s == [r EXCEPT !.pc = "done"]
<1>1. q = [s EXCEPT !.answer = reply]
  BY DEF Table!Answered
<1>a. s \in Running /\ Sets(r, s, {"pc"}) /\ s.pc = "done"
  BY PcSet, Stated
<1> HIDE DEF s
<1>b. Sets(s, q, {"answer"}) /\ q.answer = reply
  BY <1>1, <1>a, AnswerSet
<1>2. q \in Running /\ Sets(r, q, {"pc", "answer"}) /\ q.pc = "done" /\ q.answer = reply
  BY <1>a, <1>b DEF Sets, Fields
<1> HIDE DEF q
<1>3. /\ q.job = p.job /\ q.updated = r.updated /\ q.made = r.made /\ q.changed = r.changed
  BY <1>2 DEF Sets, Fields, Counting
<1>4. /\ p.job.op \notin {"upserts", "createMany", "batch", "none"} /\ Size(q) = Size(p)
  BY <1>3 DEF At, Asks, Table!Commands, Table!Updates, Table!Operators, Size
<1>5. JobTyped(q)
  BY <1>2, <1>3, <1>4 DEF JobTyped, Stages
<1>6. Counts(q, kind) /\ Answers(q)
  BY <1>2, <1>3, <1>4 DEF Counts, Answers, Bulk
<1> QED BY <1>2, <1>3, <1>5, <1>6 DEF Goes, q

\* A batch that has failed is saved record by record: the first of n, and the next.
LEMMA EachBegins ==
  ASSUME NEW p, NEW kind, At(p, kind), p.pc = "batch", NEW n \in Nat \ {0}, p.at + n <= Size(p) + 1
  PROVE  LET q == [p EXCEPT !.pc = "each", !.found = n] IN Goes(p, q, kind) /\ q.pc = "each"
<1> DEFINE q == [p EXCEPT !.pc = "each", !.found = n]
           r == [p EXCEPT !.pc = "each"]
<1>1. q = [r EXCEPT !.found = n] /\ p \in Running
  BY DEF At
<1>2. r \in Running /\ Sets(p, r, {"pc"}) /\ r.pc = "each"
  BY <1>1, PcSet, Stated
<1> HIDE DEF r, q
<1>3. Sets(r, q, {"found"}) /\ q.found = n
  BY <1>1, <1>2, FoundSet
<1>4. /\ q \in Running /\ q.pc = "each" /\ q.job = p.job /\ q.at = p.at /\ q.answer = p.answer
      /\ q.inserted = p.inserted /\ q.made = p.made /\ q.updated = p.updated /\ q.failed = p.failed
      /\ q.changed = p.changed
  BY <1>2, <1>3 DEF Sets, Fields
<1>5. p.job.op = "createMany" /\ Size(q) = Size(p) /\ p.at <= Size(p)
  BY <1>4 DEF At, Asks, Size
<1>6. JobTyped(q)
  BY <1>4, <1>5 DEF JobTyped, Stages
<1>7. Handled(q) = Handled(p)
  BY <1>4 DEF Handled
<1>8. Counts(q, kind)
  BY <1>3, <1>4, <1>5, <1>7 DEF At, Counts, Bulk
<1>9. Answers(q)
  BY <1>4, <1>5 DEF At, Answers, Bulk
<1> QED BY <1>4, <1>6, <1>8, <1>9 DEF Goes, q

LEMMA EachGoes ==
  ASSUME NEW p, NEW kind, At(p, kind), p.pc = "each", p.found # 1,
         NEW r \in Running, Sets(p, r, {"inserted", "failed", "made"}),
         p.inserted = p.made => r.inserted = r.made,
         r.inserted + r.failed = p.inserted + p.failed + 1
  PROVE  LET q == [r EXCEPT !.found = r.found - 1, !.at = r.at + 1] IN Goes(p, q, kind)
         /\ q.pc = "each"
<1> DEFINE q == [r EXCEPT !.found = r.found - 1, !.at = r.at + 1]
           s == [r EXCEPT !.found = r.found - 1]
<1>1. /\ r.job = p.job /\ r.at = p.at /\ r.answer = p.answer /\ r.pc = p.pc /\ r.found = p.found
      /\ r.updated = p.updated /\ r.changed = p.changed
  BY DEF Sets, Fields
<1>2. p.found \in Nat /\ p.at \in Nat /\ p.found > 1 /\ p.at + p.found <= Size(p) + 1
  BY DEF At, Counts, Running
<1>3. r.found - 1 \in Nat /\ r.at + 1 \in Nat \ {0} /\ s.at = r.at
  BY <1>1, <1>2 DEF Running
<1>4. q = [s EXCEPT !.at = r.at + 1]
  BY <1>3
<1>5. s \in Running /\ Sets(r, s, {"found"}) /\ s.found = r.found - 1
  BY <1>3, FoundSet
<1> HIDE DEF s, q
<1>6. Sets(s, q, {"at"}) /\ q.at = r.at + 1
  BY <1>3, <1>4, <1>5, AtSet
<1>7. /\ q \in Running /\ q.pc = "each" /\ q.job = p.job /\ q.at = p.at + 1 /\ q.answer = p.answer
      /\ q.inserted = r.inserted /\ q.made = r.made /\ q.updated = p.updated /\ q.failed = r.failed
      /\ q.changed = p.changed /\ q.found = p.found - 1
  BY <1>1, <1>5, <1>6 DEF Sets, Fields
<1>8. p.job.op = "createMany" /\ Size(q) = Size(p) /\ Size(p) \in Nat
  BY <1>7 DEF At, Asks, Wanted, Size
<1>9. JobTyped(q)
  BY <1>2, <1>7, <1>8 DEF JobTyped, Stages
<1>10. /\ p.inserted \in Nat /\ p.updated \in Nat /\ p.failed \in Nat
       /\ r.inserted \in Nat /\ r.failed \in Nat
  BY DEF At, Running
<1>11. Handled(q) = Handled(p) + 1 /\ Handled(p) \in Int
  BY <1>2, <1>7 DEF Handled
<1>12. Counts(q, kind)
  BY <1>2, <1>7, <1>8, <1>10, <1>11 DEF At, Counts, Bulk
<1>13. Answers(q)
  BY <1>7, <1>8 DEF At, Answers, Bulk
<1> QED BY <1>7, <1>9, <1>12, <1>13 DEF Goes, q

\* A batch goes on, a transaction goes on, and a row is read after an update.
LEMMA PagesGo ==
  ASSUME NEW p, NEW kind, At(p, kind), p.job.op = "batch",
         NEW q \in Running, Sets(p, q, {"pc", "page", "total", "data", "seen", "again"}),
         q.pc \in {"count", "fetch", "process", "done"}
  PROVE  Goes(p, q, kind)
<1>1. q.job = p.job /\ q.answer = p.answer
  BY DEF Sets, Fields
<1>2. JobTyped(q)
  BY <1>1 DEF JobTyped, Stages
<1>3. Counts(q, kind) /\ Answers(q)
  BY <1>1 DEF At, Counts, Answers, Bulk
<1> QED BY <1>1, <1>2, <1>3 DEF Goes

LEMMA WithinGoes ==
  ASSUME NEW p, NEW kind, At(p, kind), p.pc = "within",
         NEW q \in Running, Sets(p, q, {"pc", "at"}), q.pc \in {"within", "commit"}, q.at <= Size(p)
  PROVE  Goes(p, q, kind)
<1>1. /\ q.job = p.job /\ q.answer = p.answer /\ q.made = p.made /\ q.changed = p.changed
      /\ q.updated = p.updated
  BY DEF Sets, Fields
<1>2. p.job.op = "transaction" /\ Size(q) = Size(p)
  BY <1>1 DEF At, Asks, Size
<1>3. JobTyped(q)
  BY <1>1, <1>2 DEF JobTyped, Stages
<1>4. Counts(q, kind) /\ Answers(q)
  BY <1>1, <1>2 DEF At, Counts, Answers, Bulk
<1> QED BY <1>1, <1>3, <1>4 DEF Goes

LEMMA ReadGoes ==
  ASSUME NEW p, NEW kind, At(p, kind), p.pc = "command", p.job.op # "updateMany",
         NEW q \in Running, Sets(p, q, {"pc", "found", "changed"}), q.pc = "read"
  PROVE  Goes(p, q, kind) /\ q.made = 0
<1>1. q.job = p.job /\ q.answer = p.answer /\ q.made = p.made /\ q.at = p.at
      /\ q.updated = p.updated
  BY DEF Sets, Fields
<1>2. p.job.op \notin {"transaction", "batch", "none", "upserts", "createMany"} /\ Size(q) = Size(p)
      /\ p.at <= Size(p)
  BY <1>1 DEF At, Asks, Table!Commands, Table!Updates, Table!Operators, Size
<1>3. JobTyped(q)
  BY <1>1, <1>2 DEF JobTyped, Stages
<1>4. Counts(q, kind) /\ Answers(q) /\ q.made = 0
  BY <1>1, <1>2 DEF At, Counts, Answers, Bulk
<1> QED BY <1>1, <1>3, <1>4 DEF Goes

------------------------------------------------------------------------------
(* The steps of a caller *)

\* A step leaves the jobs of the others, but for what they may have lost.
OthersKept(c) ==
  /\ job' = [d \in Writers |-> job'[d]]
  /\ \A d \in Writers \ {c} :
       (job'[d] = job[d] /\ Undisturbed) \/ job'[d] = [job[d] EXCEPT !.lost = TRUE]
StepOf(c) ==
  /\ RowsInv' /\ Grown /\ OthersKept(c) /\ dialect' = dialect
  /\ Goes(job[c], job'[c], dialect) /\ ReadsBack(job'[c], DOMAIN rows', last')

LEMMA RowsStill == ASSUME RowsInv, UNCHANGED <<unique, rows, last>>
                   PROVE RowsInv' /\ Grown /\ Undisturbed
  BY DEF RowsInv, RowsTyped, Distinct, Grown, Undisturbed, Table!Open

LEMMA OnlyOne ==
  ASSUME JobsInv, NEW c \in Writers, NEW q, job' = [job EXCEPT ![c] = q]
  PROVE  job'[c] = q /\ (Undisturbed => OthersKept(c))
  BY DEF JobsInv, OthersKept

LEMMA OthersDisturbed ==
  ASSUME JobsInv, NEW c \in Writers, NEW q, NEW written,
         job' = [Table!Disturbed(written) EXCEPT ![c] = q]
  PROVE  job'[c] = q /\ OthersKept(c)
<1> DEFINE kept(d) == Undisturbed /\ (job[d].job.sorted \/ written \cap Table!Open' = {})
           others == [d \in Writers |-> IF kept(d) THEN job[d] ELSE [job[d] EXCEPT !.lost = TRUE]]
<1>1. Table!Disturbed(written) = others
  BY DEF Table!Disturbed, Undisturbed
<1>2. job' = [others EXCEPT ![c] = q]
  BY <1>1
<1>3. job'[c] = q /\ job' = [d \in Writers |-> job'[d]]
      /\ \A d \in Writers \ {c} : job'[d] = others[d]
  BY <1>2
<1>4. \A d \in Writers \ {c} : others[d] = IF kept(d) THEN job[d]
      ELSE [job[d] EXCEPT !.lost = TRUE]
  OBVIOUS
<1>5. \A d \in Writers \ {c} : kept(d) => Undisturbed
  OBVIOUS
<1> HIDE DEF others, kept
<1> QED BY <1>3, <1>4, <1>5 DEF OthersKept

\* The job of a caller that is at work.
LEMMA CallerAt ==
  ASSUME Table!StoreAssumption, JobsInv, NEW c \in Writers, job[c].pc # "idle"
  PROVE  At(job[c], dialect) /\ ReadsBack(job[c], DOMAIN rows, last) /\ job[c] \in Running
<1>1. job[c] \in Running /\ JobTyped(job[c]) /\ Reports(job[c], dialect, DOMAIN rows, last)
  BY DEF JobsInv
<1> QED BY <1>1, AtWork DEF At, Reports

LEMMA LookStep ==
  ASSUME Table!StoreAssumption, RowsInv, JobsInv, NEW c \in Writers, Table!Look(c)
  PROVE  StepOf(c) /\ job'[c].pc = "write" /\ job'[c].at = job[c].at
<1>1. At(job[c], dialect) /\ job[c].pc = "look"
  BY CallerAt DEF Table!Look
<1>2. PICK i \in DOMAIN rows \cup {0} : job' = [job EXCEPT ![c].found = i, ![c].pc = "write"]
  BY DEF Table!Look
<1>3. i \in Nat /\ UNCHANGED <<dialect, unique, rows, last>>
  BY DEF RowsInv, RowsTyped, Table!Look
<1> DEFINE q == [job[c] EXCEPT !.found = i, !.pc = "write"]
<1>4. job' = [job EXCEPT ![c] = q]
  BY <1>2 DEF JobsInv
<1>5. Goes(job[c], q, dialect) /\ q.pc = "write" /\ q.at = job[c].at
  BY <1>1, <1>3, LookGoes
<1> HIDE DEF q
<1> QED BY <1>3, <1>4, <1>5, RowsStill, OnlyOne DEF StepOf, ReadsBack

LEMMA KeepStep ==
  ASSUME Table!StoreAssumption, RowsInv, JobsInv, NEW c \in Writers, Table!KeepFound(c)
  PROVE  StepOf(c) /\ job'[c].pc # "write"
<1>1. At(job[c], dialect) /\ job[c].pc = "write" /\ job[c].job.keep /\ job[c] \in Running
  BY CallerAt DEF Table!KeepFound
<1>2. Sets(job[c], job[c], {"inserted", "updated", "failed", "made", "changed"})
  BY <1>1 DEF Sets
<1>3. Goes(job[c], Table!Advanced(job[c]), dialect)
      /\ Table!Advanced(job[c]).pc \in {"look", "done"}
  BY <1>1, <1>2, UpsertGoes
<1>4. job' = [job EXCEPT ![c] = Table!Advanced(job[c])] /\ UNCHANGED <<dialect, unique, rows, last>>
  BY DEF Table!KeepFound
<1> QED BY <1>3, <1>4, RowsStill, OnlyOne DEF StepOf, ReadsBack

\* A record is counted: one failed, one inserted, one updated.
Counters(p) ==
  /\ p.inserted \in Nat /\ p.updated \in Nat /\ p.failed \in Nat /\ p.made \in Nat
     /\ p.changed \in Nat
  /\ p.at \in Nat /\ p.found \in Nat

LEMMA CountOne ==
  ASSUME NEW p \in Running, NEW n \in Nat
  PROVE  /\ Counters(p)
         /\ LET r == Table!Inserted(p, n, n) IN
            /\ r \in Running /\ Sets(p, r, {"inserted", "made"})
            /\ r.inserted = p.inserted + n /\ r.made = p.made + n /\ r.failed = p.failed
            /\ r.updated = p.updated /\ r.changed = p.changed
         /\ LET r == Table!Failed(p, n) IN
            /\ r \in Running /\ Sets(p, r, {"failed"})
            /\ r.failed = p.failed + n /\ r.inserted = p.inserted /\ r.made = p.made
            /\ r.updated = p.updated /\ r.changed = p.changed
<1>1. Counters(p)
  BY DEF Running, Counters
<1>2. LET r == Table!Inserted(p, n, n) IN
        /\ r \in Running /\ Sets(p, r, {"inserted", "made"})
        /\ r.inserted = p.inserted + n /\ r.made = p.made + n /\ r.failed = p.failed
        /\ r.updated = p.updated /\ r.changed = p.changed
  BY InsertedSet DEF Sets, Fields
<1>3. LET r == Table!Failed(p, n) IN
        /\ r \in Running /\ Sets(p, r, {"failed"})
        /\ r.failed = p.failed + n /\ r.inserted = p.inserted /\ r.made = p.made
        /\ r.updated = p.updated /\ r.changed = p.changed
  BY FailedSet DEF Sets, Fields
<1> QED BY <1>1, <1>2, <1>3

LEMMA Counted1 ==
  ASSUME NEW p, NEW r
  PROVE  /\ Sets(p, r, {"inserted", "made"}) => Sets(p, r, Counting)
         /\ Sets(p, r, {"failed"}) => Sets(p, r, Counting)
         /\ Sets(p, r, {"updated", "changed"}) => Sets(p, r, Counting)
  BY DEF Sets, Counting

LEMMA UpsertCounts ==
  ASSUME NEW p, NEW kind, At(p, kind), p.pc = "write",
         NEW r, \/ r \in {Table!Inserted(p, 1, 1), Table!Failed(p, 1), Table!Updated(p, 1, 1)}
                \/ (r = Table!Updated(p, 1, 0) /\ kind # "mongo")
  PROVE  Goes(p, Table!Advanced(r), kind) /\ Table!Advanced(r).pc \in {"look", "done"}
<1>1. p \in Running
  BY DEF At
<1>2. /\ r \in Running /\ Sets(p, r, Counting) /\ Counters(p)
      /\ r.inserted + r.updated + r.failed = p.inserted + p.updated + p.failed + 1
      /\ p.inserted = p.made => r.inserted = r.made
      /\ kind = "mongo" /\ p.updated = p.changed => r.updated = r.changed
  <2>1. CASE r = Table!Inserted(p, 1, 1)
    <3>1. /\ r \in Running /\ Sets(p, r, {"inserted", "made"}) /\ Counters(p)
          /\ r.inserted = p.inserted + 1 /\ r.made = p.made + 1 /\ r.failed = p.failed
          /\ r.updated = p.updated /\ r.changed = p.changed
      BY <1>1, <2>1, CountOne
    <3> QED BY <3>1, Counted1 DEF Counters
  <2>2. CASE r = Table!Failed(p, 1)
    <3>1. /\ r \in Running /\ Sets(p, r, {"failed"}) /\ Counters(p)
          /\ r.failed = p.failed + 1 /\ r.inserted = p.inserted /\ r.made = p.made
          /\ r.updated = p.updated /\ r.changed = p.changed
      BY <1>1, <2>2, CountOne
    <3> QED BY <3>1, Counted1 DEF Counters
  <2>3. CASE r = Table!Updated(p, 1, 1) \/ (r = Table!Updated(p, 1, 0) /\ kind # "mongo")
    <3>1. PICK k \in Nat : r = Table!Updated(p, 1, k) /\ (kind = "mongo" => k = 1)
      BY <2>3
    <3>2. /\ r \in Running /\ Sets(p, r, {"updated", "changed"})
          /\ r.updated = p.updated + 1 /\ r.changed = p.changed + k
      BY <1>1, <3>1, UpdatedSet
    <3>3. r.inserted = p.inserted /\ r.made = p.made /\ r.failed = p.failed
      BY <3>2 DEF Sets, Fields
    <3>4. Counters(p)
      BY <1>1, CountOne
    <3> QED BY <3>1, <3>2, <3>3, <3>4, Counted1 DEF Counters
  <2> QED BY <2>1, <2>2, <2>3
<1> QED BY <1>2, UpsertGoes DEF Counting

LEMMA CreateMissingStep ==
  ASSUME Table!StoreAssumption, RowsInv, JobsInv, NEW c \in Writers, Table!CreateMissing(c)
  PROVE  StepOf(c) /\ job'[c].pc # "write"
<1>1. At(job[c], dialect) /\ job[c].pc = "write" /\ Read(Table!Current(c))
      /\ UNCHANGED <<dialect, unique>>
  BY CallerAt DEF Table!CreateMissing, At, Asks, Table!Current
<1>2. CASE Table!Refused(Table!Current(c))
  <2>1. job' = [job EXCEPT ![c] = Table!Advanced(Table!Failed(job[c], 1))]
        /\ UNCHANGED <<rows, last>>
    BY <1>2 DEF Table!CreateMissing
  <2>2. Goes(job[c], Table!Advanced(Table!Failed(job[c], 1)), dialect)
        /\ Table!Advanced(Table!Failed(job[c], 1)).pc \in {"look", "done"}
    BY <1>1, UpsertCounts
  <2> QED BY <1>1, <2>1, <2>2, RowsStill, OnlyOne DEF StepOf, ReadsBack
<1>3. CASE ~Table!Refused(Table!Current(c))
  <2>1. job' = [Table!Disturbed({last'}) EXCEPT ![c] = Table!Advanced(Table!Inserted(job[c], 1, 1))]
        /\ Table!Insert(Table!Current(c))
    BY <1>3 DEF Table!CreateMissing
  <2>2. /\ Goes(job[c], Table!Advanced(Table!Inserted(job[c], 1, 1)), dialect)
        /\ Table!Advanced(Table!Inserted(job[c], 1, 1)).pc \in {"look", "done"}
    BY <1>1, UpsertCounts
  <2>3. RowsInv' /\ Grown
    BY <1>1, <1>3, <2>1, InsertedOne DEF RowsInv, Table!Refused
  <2> QED BY <1>1, <2>1, <2>2, <2>3, OthersDisturbed DEF StepOf, ReadsBack
<1> QED BY <1>2, <1>3

LEMMA UpdateFoundStep ==
  ASSUME Table!StoreAssumption, RowsInv, JobsInv, NEW c \in Writers, Table!UpdateFound(c)
  PROVE  StepOf(c) /\ job'[c].pc # "write" /\ (Distinct => Distinct')
<1> DEFINE i == job[c].found
<1>1. At(job[c], dialect) /\ job[c].pc = "write" /\ UNCHANGED <<dialect, unique, last>>
  BY CallerAt DEF Table!UpdateFound
<1>2. CASE i \in DOMAIN rows
  <2>1. /\ job' = [Table!Disturbed({i}) EXCEPT ![c] = Table!Advanced(Table!Updated(job[c], 1, 1))]
        /\ rows' = [rows EXCEPT ![i] = [rows[i] EXCEPT !.status = Table!Current(c).status]]
    BY <1>2 DEF Table!UpdateFound
  <2>2. /\ Goes(job[c], Table!Advanced(Table!Updated(job[c], 1, 1)), dialect)
        /\ Table!Advanced(Table!Updated(job[c], 1, 1)).pc \in {"look", "done"}
    BY <1>1, UpsertCounts
  <2>3. /\ DOMAIN rows' = DOMAIN rows
        /\ \A k \in DOMAIN rows' : rows'[k].key = rows[k].key /\ DOMAIN rows'[k] = DOMAIN rows[k]
    BY <1>2, <2>1 DEF RowsInv, RowsTyped, Read
  <2>4. RowsInv' /\ Grown /\ (Distinct => Distinct')
    BY <1>1, <2>3, RowsEdited DEF RowsInv
  <2> QED BY <1>1, <2>1, <2>2, <2>4, OthersDisturbed DEF StepOf, ReadsBack
<1>3. CASE i \notin DOMAIN rows
  <2> DEFINE r == IF dialect = "mongo" THEN Table!Failed(job[c], 1) ELSE Table!Updated(job[c], 1, 0)
  <2>1. job' = [job EXCEPT ![c] = Table!Advanced(r)] /\ UNCHANGED rows
    BY <1>3 DEF Table!UpdateFound
  <2>2. r = Table!Failed(job[c], 1) \/ (r = Table!Updated(job[c], 1, 0) /\ dialect # "mongo")
    OBVIOUS
  <2> HIDE DEF r
  <2>3. Goes(job[c], Table!Advanced(r), dialect) /\ Table!Advanced(r).pc \in {"look", "done"}
    BY <1>1, <2>2, UpsertCounts
  <2> QED BY <1>1, <2>1, <2>3, RowsStill, OnlyOne DEF StepOf, ReadsBack, Distinct
<1> QED BY <1>2, <1>3

LEMMA TableCard == \A S : Table!Cardinality(S) = Cardinality(S)
  BY DEF Table!Cardinality, Cardinality

\* A batch is the next of the records.
LEMMA BatchIs ==
  ASSUME Table!StoreAssumption, NEW c \in Writers, job[c] \in Running, Asks(job[c]),
         job[c].pc = "batch"
  PROVE  /\ Len(Table!BatchOf(c)) \in Nat \ {0}
         /\ job[c].at + Len(Table!BatchOf(c)) <= Size(job[c]) + 1
         /\ DOMAIN Table!BatchOf(c) = 1..Len(Table!BatchOf(c))
         /\ \A i \in DOMAIN Table!BatchOf(c) :
              Read(Table!BatchOf(c)[i])
              /\ \E k \in 1..Size(job[c]) : Table!BatchOf(c)[i] = job[c].job.records[k]
<1> DEFINE records == job[c].job.records
           first == job[c].at
           m == Table!Smaller(first + BatchSize - 1, Len(records))
<1>1. /\ Len(records) \in Nat /\ first \in 1..Len(records) /\ BatchSize \in Nat \ {0}
      /\ \A i \in 1..Len(records) : Read(records[i])
  BY DEF Asks, Wanted, Table!StoreAssumption, Size
<1>2. job[c].job \in StoreJobs
  BY DEF Running, Asks, Wanted, Table!NoJob, Table!Job, Table!Commands, Table!Updates,
     Table!Operators
<1>3. records \in Seq(Table!Records)
  BY <1>2 DEF Table!StoreAssumption
<1>4. Table!BatchOf(c) = SubSeq(records, first, m) /\ Size(job[c]) = Len(records)
  BY DEF Table!BatchOf, Size
<1> HIDE DEF records, first
<1>5. m \in first..Len(records)
  BY <1>1 DEF Table!Smaller
<1> HIDE DEF m
<1>6. /\ Len(SubSeq(records, first, m)) = m - first + 1
         /\ DOMAIN SubSeq(records, first, m) = 1..(m - first + 1)
      /\ \A i \in 1..(m - first + 1) : SubSeq(records, first, m)[i] = records[first + i - 1]
  BY <1>1, <1>3, <1>5
<1>7. first + Len(Table!BatchOf(c)) <= Size(job[c]) + 1 /\ Len(Table!BatchOf(c)) \in Nat \ {0}
  BY <1>1, <1>4, <1>5, <1>6
<1>8. \A i \in 1..(m - first + 1) : first + i - 1 \in 1..Len(records)
  BY <1>1, <1>5
<1> QED BY <1>1, <1>4, <1>6, <1>7, <1>8 DEF first, records

LEMMA InsertManyStep ==
  ASSUME Table!StoreAssumption, RowsInv, JobsInv, NEW c \in Writers, Table!InsertMany(c)
  PROVE  StepOf(c)
<1> DEFINE p == job[c]
           batch == Table!BatchOf(c)
           valid == {i \in DOMAIN batch : batch[i].status # "bad"}
           again == Table!Duplicates(batch, valid)
           errors == Cardinality(again)
           size == Cardinality(valid)
           made == size - errors
           n == Len(batch)
           told == IF errors > 0 THEN n - errors ELSE IF made = 0 THEN n ELSE made
           r == Table!Inserted(p, told, made)
           s == Table!Failed(r, errors)
<1>1. At(p, dialect) /\ p \in Running /\ Asks(p) /\ p.pc = "batch" /\ UNCHANGED <<dialect, unique>>
      /\ dialect = "mongo"
  BY CallerAt DEF Table!InsertMany, At
<1>2. /\ n \in Nat \ {0} /\ p.at + n <= Size(p) + 1 /\ DOMAIN batch = 1..n
      /\ \A i \in DOMAIN batch : Read(batch[i]) /\ \E k \in 1..Size(p) : batch[i] = p.job.records[k]
  BY <1>1, BatchIs
<1>3. Table!InsertAll(batch, valid \ again) /\ job' = [Table!Disturbed((last + 1)..last') EXCEPT ![c] = Table!NextBatch(s, n)]
  BY TableCard DEF Table!InsertMany
<1>4. again \subseteq valid /\ valid \subseteq 1..n
  BY <1>2 DEF Table!Duplicates
<1>5. unique => Table!Duplicates(batch, valid \ again) = {}
  BY DEF Table!Duplicates
<1>6. (Valid(p.job, dialect) => valid = 1..n) /\ DOMAIN p.job.records = 1..Size(p)
  <2>1. DOMAIN p.job.records = 1..Size(p)
    <3>1. p.job \in StoreJobs
      BY <1>1 DEF Running, Asks, Wanted, Table!NoJob, Table!Job, Table!Commands, Table!Updates,
         Table!Operators
    <3> QED BY <3>1 DEF Table!StoreAssumption, Size
  <2>2. ASSUME Valid(p.job, dialect) PROVE \A i \in DOMAIN batch : batch[i].status # "bad"
    BY <1>1, <1>2, <2>1, <2>2 DEF Valid, Table!Range
  <2> QED BY <1>2, <2>1, <2>2
<1> HIDE DEF p, n, batch, valid
<1>7. /\ errors \in Nat /\ size \in Nat /\ errors <= size
      /\ size <= n /\ (Valid(p.job, dialect) => size = n)
  <2>1. IsFiniteSet(1..n) /\ Cardinality(1..n) = n
    BY <1>2, FS_Interval
  <2>2. IsFiniteSet(valid) /\ size <= n
    BY <1>4, <2>1, FS_Subset
  <2>3. IsFiniteSet(again) /\ errors <= size
    BY <1>4, <2>2, FS_Subset
  <2> QED BY <1>6, <2>1, <2>2, <2>3, FS_CardinalityType
<1> HIDE DEF again, errors, size
<1>8. /\ made \in Nat /\ told \in Nat
      /\ size = n => told = made /\ told + errors = n
  BY <1>2, <1>7
<1> HIDE DEF made, told
<1>9. r \in Running /\ Sets(p, r, {"inserted", "made"}) /\ r.inserted = p.inserted + told
      /\ r.made = p.made + made
  BY <1>1, <1>8, InsertedSet
<1> HIDE DEF r
<1>10. s \in Running /\ Sets(r, s, {"failed"}) /\ s.failed = r.failed + errors
  BY <1>7, <1>9, FailedSet
<1> HIDE DEF s
<1>11. /\ Sets(p, s, {"inserted", "failed", "made"}) /\ s.inserted = p.inserted + told
       /\ s.made = p.made + made /\ s.failed = p.failed + errors
  BY <1>9, <1>10 DEF Sets, Fields
<1>12. Counters(p)
  BY <1>1, CountOne
<1>13. Valid(p.job, dialect) =>
         /\ p.inserted = p.made => s.inserted = s.made
         /\ s.inserted + s.failed = p.inserted + p.failed + n
  BY <1>7, <1>8, <1>11, <1>12 DEF Counters
<1>14. Goes(p, Table!NextBatch(s, n), dialect) /\ Table!NextBatch(s, n).pc # "read"
  BY <1>1, <1>2, <1>10, <1>11, <1>13, CreateManyGoes
<1>15. RowsInv' /\ Grown
  BY <1>1, <1>2, <1>3, <1>4, <1>5, InsertedAll DEF RowsInv, n
<1> QED BY <1>1, <1>3, <1>14, <1>15, OthersDisturbed DEF StepOf, ReadsBack, p, n

LEMMA SaveBatchStep ==
  ASSUME Table!StoreAssumption, RowsInv, JobsInv, NEW c \in Writers, Table!SaveBatch(c)
  PROVE  StepOf(c)
<1> DEFINE p == job[c]
           batch == Table!BatchOf(c)
           fails == \/ Table!Duplicates(batch, DOMAIN batch) # {}
                    \/ \E i \in DOMAIN batch : batch[i].status = "bad"
           n == Len(batch)
           r == Table!Inserted(p, n, n)
<1>1. At(p, dialect) /\ p \in Running /\ Asks(p) /\ p.pc = "batch" /\ UNCHANGED <<dialect, unique>>
  BY CallerAt DEF Table!SaveBatch, At
<1>2. /\ n \in Nat \ {0} /\ p.at + n <= Size(p) + 1 /\ DOMAIN batch = 1..n
      /\ \A i \in DOMAIN batch : Read(batch[i])
  BY <1>1, BatchIs
<1>3. CASE fails
  <2> DEFINE q == [p EXCEPT !.pc = "each", !.found = n]
  <2>1. job' = [job EXCEPT ![c] = q] /\ UNCHANGED <<rows, last>>
    BY <1>3 DEF Table!SaveBatch, JobsInv
  <2>2. Goes(p, q, dialect) /\ q.pc = "each"
    BY <1>1, <1>2, EachBegins
  <2> HIDE DEF q
  <2> QED BY <1>1, <2>1, <2>2, RowsStill, OnlyOne DEF StepOf, ReadsBack
<1>4. CASE ~fails
  <2>1. /\ Table!InsertAll(batch, DOMAIN batch)
        /\ job' = [Table!Disturbed((last + 1)..last') EXCEPT ![c] = Table!NextBatch(r, n)]
    BY <1>4 DEF Table!SaveBatch
  <2>2. RowsInv' /\ Grown
    BY <1>1, <1>2, <1>4, <2>1, InsertedAll DEF RowsInv
  <2> HIDE DEF p, n
  <2>3. /\ r \in Running /\ Sets(p, r, {"inserted", "made"}) /\ Counters(p)
        /\ r.inserted = p.inserted + n /\ r.made = p.made + n /\ r.failed = p.failed
    BY <1>1, <1>2, CountOne
  <2> HIDE DEF r
  <2>4. Sets(p, r, {"inserted", "failed", "made"})
    BY <2>3 DEF Sets
  <2>5. (p.inserted = p.made => r.inserted = r.made)
        /\ r.inserted + r.failed = p.inserted + p.failed + n
    BY <1>2, <2>3 DEF Counters
  <2>6. Goes(p, Table!NextBatch(r, n), dialect) /\ Table!NextBatch(r, n).pc # "read"
    BY <1>1, <1>2, <2>3, <2>4, <2>5, CreateManyGoes
  <2> QED BY <1>1, <2>1, <2>2, <2>6, OthersDisturbed DEF StepOf, ReadsBack, p
<1> QED BY <1>3, <1>4

LEMMA EachCounts ==
  ASSUME NEW p, NEW kind, At(p, kind), p.pc = "each",
         NEW r, r = Table!Inserted(p, 1, 1) \/ r = Table!Failed(p, 1)
  PROVE  Goes(p, Table!NextOfBatch(r), kind) /\ Table!NextOfBatch(r).pc # "read"
<1>a. p \in Running
  BY DEF At
<1>b. Counters(p)
  BY <1>a, CountOne
<1>1. p \in Running /\ Counters(p) /\ p.at <= Size(p) /\ p.at \in Nat /\ Size(p) \in Nat
  BY <1>a, <1>b DEF At, Asks, Wanted, Size, Counters
<1>2. /\ r \in Running /\ (Sets(p, r, {"inserted", "made"}) \/ Sets(p, r, {"failed"}))
      /\ r.inserted + r.failed = p.inserted + p.failed + 1
      /\ p.inserted = p.made => r.inserted = r.made
  <2>1. CASE r = Table!Inserted(p, 1, 1)
    <3>1. /\ r \in Running /\ Sets(p, r, {"inserted", "made"})
          /\ r.inserted = p.inserted + 1 /\ r.made = p.made + 1 /\ r.failed = p.failed
      BY <1>1, <2>1, CountOne
    <3> QED BY <1>1, <3>1 DEF Counters
  <2>2. CASE r = Table!Failed(p, 1)
    <3>1. /\ r \in Running /\ Sets(p, r, {"failed"})
          /\ r.failed = p.failed + 1 /\ r.inserted = p.inserted /\ r.made = p.made
      BY <1>1, <2>2, CountOne
    <3> QED BY <1>1, <3>1 DEF Counters
  <2> QED BY <2>1, <2>2
<1>3. Sets(p, r, {"inserted", "failed", "made"})
  BY <1>2 DEF Sets
<1>4. r.found = p.found
  BY <1>3 DEF Sets, Fields
<1>5. CASE p.found = 1
  <2>1. Table!NextOfBatch(r) = Table!NextBatch(r, 1)
    BY <1>4, <1>5 DEF Table!NextOfBatch
  <2> QED BY <1>1, <1>2, <1>3, <2>1, CreateManyGoes
<1>6. CASE p.found # 1
  <2> DEFINE q == [r EXCEPT !.found = r.found - 1, !.at = r.at + 1]
  <2>1. Table!NextOfBatch(r) = q
    BY <1>4, <1>6 DEF Table!NextOfBatch
  <2>2. Goes(p, q, kind) /\ q.pc = "each"
    BY <1>2, <1>3, <1>6, EachGoes
  <2> HIDE DEF q
  <2> QED BY <2>1, <2>2
<1> QED BY <1>5, <1>6

LEMMA SaveEachStep ==
  ASSUME Table!StoreAssumption, RowsInv, JobsInv, NEW c \in Writers, Table!SaveEach(c)
  PROVE  StepOf(c)
<1>1. At(job[c], dialect) /\ job[c].pc = "each" /\ Read(Table!Current(c))
      /\ UNCHANGED <<dialect, unique>>
  BY CallerAt DEF Table!SaveEach, At, Asks, Table!Current
<1>2. CASE Table!Refused(Table!Current(c))
  <2>1. job' = [job EXCEPT ![c] = Table!NextOfBatch(Table!Failed(job[c], 1))]
        /\ UNCHANGED <<rows, last>>
    BY <1>2 DEF Table!SaveEach
  <2>2. Goes(job[c], Table!NextOfBatch(Table!Failed(job[c], 1)), dialect)
        /\ Table!NextOfBatch(Table!Failed(job[c], 1)).pc # "read"
    BY <1>1, EachCounts
  <2> QED BY <1>1, <2>1, <2>2, RowsStill, OnlyOne DEF StepOf, ReadsBack
<1>3. CASE ~Table!Refused(Table!Current(c))
  <2>1. job' = [Table!Disturbed({last'}) EXCEPT ![c] = Table!NextOfBatch(Table!Inserted(job[c], 1, 1))]
        /\ Table!Insert(Table!Current(c))
    BY <1>3 DEF Table!SaveEach
  <2>2. /\ Goes(job[c], Table!NextOfBatch(Table!Inserted(job[c], 1, 1)), dialect)
        /\ Table!NextOfBatch(Table!Inserted(job[c], 1, 1)).pc # "read"
    BY <1>1, EachCounts
  <2>3. RowsInv' /\ Grown
    BY <1>1, <1>3, <2>1, InsertedOne DEF RowsInv, Table!Refused
  <2> QED BY <1>1, <2>1, <2>2, <2>3, OthersDisturbed DEF StepOf, ReadsBack
<1> QED BY <1>2, <1>3

\* A method that has done something, or nothing.
LEMMA DoneSomething ==
  ASSUME NEW p, NEW kind, At(p, kind), p.pc = "command", p.job.op # "updateMany",
         NEW r, r = Table!Inserted(p, 0, 1) \/ r = Table!Updated(p, 0, 1)
  PROVE  Goes(p, Table!Answered(r, "done"), kind) /\ Table!Answered(r, "done").pc = "done"
<1>1. /\ p \in Running /\ Counters(p) /\ p.made = 0 /\ p.changed = 0 /\ p.updated = 0
      /\ p.job.op \notin {"transaction", "batch", "upserts", "createMany"}
  BY CountOne DEF At, Answers, Asks, Table!Commands, Table!Updates, Table!Operators
<1>2. /\ r \in Running /\ (Sets(p, r, {"inserted", "made"}) \/ Sets(p, r, {"updated", "changed"}))
      /\ r.changed > 0 \/ r.made > 0
  <2>1. CASE r = Table!Inserted(p, 0, 1)
    <3>1. r \in Running /\ Sets(p, r, {"inserted", "made"}) /\ r.made = p.made + 1
      BY <1>1, <2>1, InsertedSet
    <3> QED BY <1>1, <3>1
  <2>2. CASE r = Table!Updated(p, 0, 1)
    <3>1. r \in Running /\ Sets(p, r, {"updated", "changed"}) /\ r.changed = p.changed + 1
      BY <1>1, <2>2, UpdatedSet
    <3> QED BY <1>1, <3>1
  <2> QED BY <2>1, <2>2
<1>3. Sets(p, r, Counting) /\ "done" \in Replies
  BY <1>2 DEF Sets, Counting, Replies
<1> QED BY <1>1, <1>2, <1>3, AnswerGoes

LEMMA DoneNothing ==
  ASSUME NEW p, NEW kind, At(p, kind), p.pc \in {"command", "within", "commit"},
         NEW reply \in {"missed", "threw"}
  PROVE  Goes(p, Table!Answered(p, reply), kind) /\ Table!Answered(p, reply).pc = "done"
<1>1. p \in Running /\ p.made = 0 /\ p.changed = 0 /\ p.updated = 0
  BY DEF At, Answers
<1>2. Sets(p, p, Counting) /\ reply \in Replies /\ reply # "done"
  BY <1>1 DEF Sets, Replies
<1> QED BY <1>1, <1>2, AnswerGoes

LEMMA CreateStep ==
  ASSUME Table!StoreAssumption, RowsInv, JobsInv, NEW c \in Writers, Table!Create(c)
  PROVE  StepOf(c)
<1>1. /\ At(job[c], dialect) /\ job[c].pc = "command" /\ job[c].job.op = "create"
         /\ Read(Table!Current(c))
      /\ UNCHANGED <<dialect, unique>>
  BY CallerAt DEF Table!Create, Table!Asked, At, Asks, Table!Current
<1>2. CASE Table!Refused(Table!Current(c))
  <2>1. job' = [job EXCEPT ![c] = Table!Answered(job[c], "threw")] /\ UNCHANGED <<rows, last>>
    BY <1>2 DEF Table!Create
  <2>2. Goes(job[c], Table!Answered(job[c], "threw"), dialect)
        /\ Table!Answered(job[c], "threw").pc = "done"
    BY <1>1, DoneNothing
  <2> QED BY <1>1, <2>1, <2>2, RowsStill, OnlyOne DEF StepOf, ReadsBack
<1>3. CASE ~Table!Refused(Table!Current(c))
  <2>1. job' = [Table!Disturbed({last'}) EXCEPT ![c] = Table!Answered(Table!Inserted(job[c], 0, 1), "done")]
        /\ Table!Insert(Table!Current(c))
    BY <1>3 DEF Table!Create
  <2>2. /\ Goes(job[c], Table!Answered(Table!Inserted(job[c], 0, 1), "done"), dialect)
        /\ Table!Answered(Table!Inserted(job[c], 0, 1), "done").pc = "done"
    BY <1>1, DoneSomething
  <2>3. RowsInv' /\ Grown
    BY <1>1, <1>3, <2>1, InsertedOne DEF RowsInv, Table!Refused
  <2> QED BY <1>1, <2>1, <2>2, <2>3, OthersDisturbed DEF StepOf, ReadsBack
<1> QED BY <1>2, <1>3

\* One row is edited.
LEMMA RowEdited ==
  ASSUME RowsInv, NEW c \in Writers, NEW i \in DOMAIN rows, Table!EditRow(c, i),
         UNCHANGED <<unique, last>>
  PROVE  RowsInv' /\ Grown
<1>1. rows' = [rows EXCEPT ![i] = Table!Edited(job[c].job.op, rows[i], Table!Current(c))]
  BY DEF Table!EditRow
<1>2. /\ DOMAIN rows' = DOMAIN rows
      /\ \A k \in DOMAIN rows' : k # i => rows'[k] = rows[k]
      /\ rows'[i] = Table!Edited(job[c].job.op, rows[i], Table!Current(c))
  BY <1>1
<1>3. \A k \in DOMAIN rows : Read(rows[k])
  BY DEF RowsInv, RowsTyped
<1>4. rows'[i].key = rows[i].key /\ DOMAIN rows'[i] = DOMAIN rows[i]
  BY <1>2, <1>3, EditKeeps
<1> QED BY <1>2, <1>4, RowsEdited DEF RowsInv

LEMMA UpdateMongoStep ==
  ASSUME Table!StoreAssumption, RowsInv, JobsInv, NEW c \in Writers, Table!UpdateMongo(c)
  PROVE  StepOf(c)
<1>1. /\ At(job[c], dialect) /\ job[c].pc = "command" /\ job[c].job.op # "updateMany"
      /\ UNCHANGED <<dialect, unique, last>>
  BY CallerAt DEF Table!UpdateMongo, Table!Updates
<1>2. PICK i \in 0..last :
        IF i \in DOMAIN rows
        THEN /\ Table!EditRow(c, i)
             /\ job' = [Table!Disturbed({i}) EXCEPT ![c] =
                          Table!Answered(Table!Updated(job[c], 0, 1), "done")]
        ELSE job' = [job EXCEPT ![c] = Table!Answered(job[c], "threw")] /\ UNCHANGED rows
  BY DEF Table!UpdateMongo
<1>3. CASE i \in DOMAIN rows
  BY <1>1, <1>2, <1>3, RowEdited, DoneSomething, OthersDisturbed DEF StepOf, ReadsBack
<1>4. CASE i \notin DOMAIN rows
  <2>1. Goes(job[c], Table!Answered(job[c], "threw"), dialect)
        /\ Table!Answered(job[c], "threw").pc = "done"
    BY <1>1, DoneNothing
  <2> QED BY <1>1, <1>2, <1>4, <2>1, RowsStill, OnlyOne DEF StepOf, ReadsBack
<1> QED BY <1>3, <1>4

LEMMA OperatorMongoStep ==
  ASSUME Table!StoreAssumption, RowsInv, JobsInv, NEW c \in Writers, Table!OperatorMongo(c)
  PROVE  StepOf(c)
<1>1. /\ At(job[c], dialect) /\ job[c].pc = "command"
         /\ job[c].job.op \notin {"updateMany", "update"}
      /\ UNCHANGED <<dialect, unique, last>>
  BY CallerAt DEF Table!OperatorMongo, Table!Operators
<1>2. PICK i \in 0..last :
        IF i \in DOMAIN rows
        THEN /\ Table!EditRow(c, i)
             /\ job' = [Table!Disturbed({i}) EXCEPT ![c] =
                          Table!Answered(Table!Updated(job[c], 0, 1), "done")]
        ELSE job' = [job EXCEPT ![c] = Table!Answered(job[c], "missed")] /\ UNCHANGED rows
  BY DEF Table!OperatorMongo
<1>3. CASE i \in DOMAIN rows
  BY <1>1, <1>2, <1>3, RowEdited, DoneSomething, OthersDisturbed DEF StepOf, ReadsBack
<1>4. CASE i \notin DOMAIN rows
  <2>1. Goes(job[c], Table!Answered(job[c], "missed"), dialect)
        /\ Table!Answered(job[c], "missed").pc = "done"
    BY <1>1, DoneNothing
  <2> QED BY <1>1, <1>2, <1>4, <2>1, RowsStill, OnlyOne DEF StepOf, ReadsBack
<1> QED BY <1>3, <1>4

\* A row is read after an update of it, or of none.
ToRead(p, i) == [p EXCEPT !.found = i, !.pc = "read"]
LEMMA ReadBegins ==
  ASSUME NEW p, NEW kind, At(p, kind), p.pc = "command", p.job.op # "updateMany", NEW i \in Nat,
         NEW u, u = p \/ u = Table!Updated(p, 0, 1)
  PROVE  LET q == ToRead(u, i) IN
         /\ Goes(p, q, kind) /\ q.made = 0 /\ q.found = i /\ q.pc = "read" /\ q.job = p.job
         /\ u = Table!Updated(p, 0, 1) => q.changed > 0
<1>1. p \in Running /\ p.updated = 0 /\ p.changed = 0
  BY DEF At, Answers
<1>2. ASSUME u = Table!Updated(p, 0, 1)
      PROVE  u \in Running /\ Sets(p, u, {"updated", "changed"}) /\ u.updated = p.updated + 0
             /\ u.changed = p.changed + 1
  <2>1. PICK t \in Nat, n \in Nat : t = 0 /\ n = 1
    OBVIOUS
  <2>2. u = Table!Updated(p, t, n)
    BY <1>2, <2>1
  <2>3. u \in Running /\ Sets(p, u, {"updated", "changed"}) /\ u.updated = p.updated + t
        /\ u.changed = p.changed + n
    BY <1>1, <2>2, UpdatedSet
  <2> QED BY <2>1, <2>3
<1>3. /\ u \in Running /\ Sets(p, u, {"updated", "changed"}) /\ u.updated = p.updated
      /\ u = Table!Updated(p, 0, 1) => u.changed > 0
  BY <1>1, <1>2 DEF Sets
<1> DEFINE r == [u EXCEPT !.found = i]
           q == ToRead(u, i)
<1>4. q = [r EXCEPT !.pc = "read"]
  BY DEF ToRead
<1>5. r \in Running /\ Sets(u, r, {"found"}) /\ r.found = i
  BY <1>3, FoundSet
<1> HIDE DEF r, q
<1>6. q \in Running /\ Sets(r, q, {"pc"}) /\ q.pc = "read"
  BY <1>4, <1>5, PcSet, Stated
<1>7. q.updated = p.updated /\ q.found = i /\ q.changed = u.changed /\ q.job = p.job
  BY <1>3, <1>5, <1>6 DEF Sets, Fields
<1>8. Sets(p, q, {"pc", "found", "changed"})
  BY <1>3, <1>5, <1>6, <1>7 DEF Sets
<1>9. Goes(p, q, kind) /\ q.made = 0
  BY <1>6, <1>8, ReadGoes
<1> QED BY <1>3, <1>6, <1>7, <1>9 DEF q

LEMMA EditPostgresStep ==
  ASSUME Table!StoreAssumption, RowsInv, JobsInv, NEW c \in Writers, Table!EditPostgres(c)
  PROVE  StepOf(c)
<1> DEFINE p == job[c]
<1>1. /\ At(p, dialect) /\ p.pc = "command" /\ p.job.op # "updateMany" /\ p \in Running
      /\ UNCHANGED <<dialect, unique, last>> /\ last \in Nat
  BY CallerAt DEF Table!EditPostgres, Table!Updates, RowsInv, RowsTyped
<1>2. PICK i \in 0..last :
        IF i \in DOMAIN rows
        THEN /\ Table!EditRow(c, i)
             /\ job' = [Table!Disturbed({i}) EXCEPT ![c] =
                          [Table!Updated(p, 0, 1) EXCEPT !.found = i, !.pc = "read"]]
        ELSE job' = [job EXCEPT ![c].found = i, ![c].pc = "read"] /\ UNCHANGED rows
  BY DEF Table!EditPostgres
<1>3. i \in Nat /\ i <= last
  BY <1>1
<1>4. CASE i \in DOMAIN rows
  <2> DEFINE u == Table!Updated(p, 0, 1)
             q == ToRead(u, i)
  <2>1. Table!EditRow(c, i) /\ job' = [Table!Disturbed({i}) EXCEPT ![c] = q]
    BY <1>2, <1>4 DEF ToRead
  <2>2. u = Table!Updated(p, 0, 1)
    OBVIOUS
  <2> HIDE DEF u, p
  <2>3. Goes(p, q, dialect) /\ q.made = 0 /\ q.found = i /\ q.pc = "read" /\ q.job = p.job
        /\ q.changed > 0
    BY <1>1, <1>3, <2>2, ReadBegins
  <2> HIDE DEF q
  <2>4. RowsInv' /\ Grown
    BY <1>1, <1>4, <2>1, RowEdited
  <2> QED BY <1>1, <1>3, <2>1, <2>3, <2>4, OthersDisturbed DEF StepOf, ReadsBack, p
<1>5. CASE i \notin DOMAIN rows
  <2> DEFINE q == ToRead(p, i)
  <2>1. job' = [job EXCEPT ![c] = q] /\ UNCHANGED rows
    BY <1>2, <1>5 DEF JobsInv, ToRead
  <2> HIDE DEF p
  <2>2. Goes(p, q, dialect) /\ q.made = 0 /\ q.found = i /\ q.pc = "read" /\ q.job = p.job
    BY <1>1, <1>3, ReadBegins
  <2> HIDE DEF q
  <2> QED BY <1>1, <1>3, <1>5, <2>1, <2>2, RowsStill, OnlyOne DEF StepOf, ReadsBack, p
<1> QED BY <1>4, <1>5

LEMMA ReadBackStep ==
  ASSUME Table!StoreAssumption, RowsInv, JobsInv, NEW c \in Writers, Table!ReadBack(c)
  PROVE  StepOf(c)
<1> DEFINE p == job[c]
           reply == IF p.found \in DOMAIN rows THEN "done" ELSE "missed"
<1>1. /\ At(p, dialect) /\ p.pc = "read" /\ ReadsBack(p, DOMAIN rows, last) /\ p \in Running
  BY CallerAt DEF Table!ReadBack
<1>2. job' = [job EXCEPT ![c] = Table!Answered(p, reply)]
      /\ UNCHANGED <<dialect, unique, rows, last>>
  BY DEF Table!ReadBack
<1>3. /\ reply \in Replies /\ reply # "threw" /\ (reply = "done" => p.changed > 0)
      /\ p.job.op \notin {"updateMany", "transaction"}
  BY <1>1 DEF ReadsBack, Replies, At, Asks, Table!Commands, Table!Updates, Table!Operators
<1>4. Sets(p, p, Counting)
  BY <1>1 DEF Sets
<1> HIDE DEF p, reply
<1>5. Goes(p, Table!Answered(p, reply), dialect) /\ Table!Answered(p, reply).pc = "done"
  BY <1>1, <1>3, <1>4, AnswerGoes
<1> QED BY <1>2, <1>5, RowsStill, OnlyOne DEF StepOf, ReadsBack, p

\* The rows of a set, which is finite.
LEMMA SomeRows ==
  ASSUME RowsTyped, NEW ids \in SUBSET DOMAIN rows
  PROVE  IsFiniteSet(ids) /\ Cardinality(ids) \in Nat /\ (Cardinality(ids) = 0 <=> ids = {})
<1>1. ids \subseteq 1..last /\ last \in Nat
  BY DEF RowsTyped
<1>2. IsFiniteSet(1..last)
  BY <1>1, FS_Interval
<1>3. IsFiniteSet(ids)
  BY <1>1, <1>2, FS_Subset
<1> QED BY <1>3, FS_CardinalityType, FS_EmptySet

LEMMA UpdateManyStep ==
  ASSUME Table!StoreAssumption, RowsInv, JobsInv, NEW c \in Writers, Table!UpdateMany(c)
  PROVE  StepOf(c)
<1> DEFINE p == job[c]
<1>1. /\ At(p, dialect) /\ p.pc = "command" /\ p.job.op = "updateMany" /\ p \in Running
      /\ UNCHANGED <<dialect, unique, last>> /\ RowsTyped
  BY CallerAt DEF Table!UpdateMany, Table!Asked, RowsInv
<1>2. PICK status \in RowStatuses :
        LET ids == {i \in DOMAIN rows : rows[i].status = status}
            modified == IF status = Table!Current(c).status THEN {} ELSE ids
            counted == Table!Counted(ids, modified) IN
        /\ rows' = [i \in DOMAIN rows |->
                      IF i \in ids THEN Table!Edited("update", rows[i], Table!Current(c)) ELSE rows[i]]
        /\ job' = [Table!Disturbed(ids) EXCEPT ![c] = Table!Answered(
                     Table!Updated(p, counted, Table!Cardinality(modified)),
                     IF counted = 0 THEN "missed" ELSE "done")]
  BY DEF Table!UpdateMany
<1> DEFINE ids == {i \in DOMAIN rows : rows[i].status = status}
           modified == IF status = Table!Current(c).status THEN {} ELSE ids
           told == Table!Counted(ids, modified)
           n == Cardinality(modified)
           reply == IF told = 0 THEN "missed" ELSE "done"
           r == Table!Updated(p, told, n)
<1>3. /\ rows' = [i \in DOMAIN rows |->
                    IF i \in ids THEN Table!Edited("update", rows[i], Table!Current(c)) ELSE rows[i]]
      /\ job' = [Table!Disturbed(ids) EXCEPT ![c] = Table!Answered(r, reply)]
  BY <1>2, TableCard
<1>4. Cardinality(ids) \in Nat /\ Cardinality(modified) \in Nat
  BY <1>1, SomeRows
<1>5. told \in Nat /\ n \in Nat /\ (dialect = "mongo" => told = n)
  BY <1>4, TableCard DEF Table!Counted
<1>6. \A i \in DOMAIN rows : Read(rows[i])
  BY <1>1 DEF RowsTyped
<1>7. /\ DOMAIN rows' = DOMAIN rows
      /\ \A i \in DOMAIN rows' : rows'[i].key = rows[i].key /\ DOMAIN rows'[i] = DOMAIN rows[i]
  BY <1>3, <1>6, EditKeeps
<1>8. RowsInv' /\ Grown
  BY <1>1, <1>7, RowsEdited DEF RowsInv
<1>9. p.updated = 0 /\ p.changed = 0 /\ p.made = 0
  BY <1>1 DEF At, Answers
<1>10. reply \in Replies /\ reply # "threw" /\ (reply = "done" => told # 0)
  BY DEF Replies
<1> HIDE DEF p, told, n, reply
<1>11. r \in Running /\ Sets(p, r, {"updated", "changed"}) /\ r.updated = p.updated + told
       /\ r.changed = p.changed + n
  BY <1>1, <1>5, UpdatedSet
<1> HIDE DEF r
<1>12. Sets(p, r, Counting)
  BY <1>11, Counted1
<1>13. Goes(p, Table!Answered(r, reply), dialect) /\ Table!Answered(r, reply).pc = "done"
  BY <1>1, <1>5, <1>9, <1>10, <1>11, <1>12, AnswerGoes
<1> HIDE DEF ids
<1> QED BY <1>1, <1>3, <1>8, <1>13, OthersDisturbed DEF StepOf, ReadsBack, p

LEMMA WithoutKeeps ==
  ASSUME RowsInv, NEW ids, rows' = Table!Without(ids), UNCHANGED <<unique, last>>
  PROVE  RowsInv' /\ Grown
  BY RowsEdited DEF RowsInv, Table!Without

LEMMA DeleteStep ==
  ASSUME Table!StoreAssumption, RowsInv, JobsInv, NEW c \in Writers, Table!Delete(c)
  PROVE  StepOf(c)
<1>1. /\ At(job[c], dialect) /\ job[c].pc = "command" /\ job[c].job.op # "updateMany"
      /\ UNCHANGED <<dialect, unique, last>>
  BY CallerAt DEF Table!Delete, Table!Asked
<1>2. PICK i \in 0..last :
        /\ rows' = Table!Without({i})
        /\ job' = [Table!Disturbed({}) EXCEPT ![c] =
                     IF i \in DOMAIN rows THEN Table!Answered(Table!Updated(job[c], 0, 1), "done")
                                           ELSE Table!Answered(job[c], "missed")]
  BY DEF Table!Delete
<1> DEFINE q == IF i \in DOMAIN rows THEN Table!Answered(Table!Updated(job[c], 0, 1), "done")
       ELSE Table!Answered(job[c], "missed")
<1>3. Goes(job[c], q, dialect) /\ q.pc = "done"
  <2>1. /\ Goes(job[c], Table!Answered(Table!Updated(job[c], 0, 1), "done"), dialect)
        /\ Table!Answered(Table!Updated(job[c], 0, 1), "done").pc = "done"
    BY <1>1, DoneSomething
  <2>2. Goes(job[c], Table!Answered(job[c], "missed"), dialect)
        /\ Table!Answered(job[c], "missed").pc = "done"
    BY <1>1, DoneNothing
  <2> QED BY <2>1, <2>2
<1> HIDE DEF q
<1> QED BY <1>1, <1>2, <1>3, WithoutKeeps, OthersDisturbed DEF StepOf, ReadsBack, q

LEMMA DeleteManyStep ==
  ASSUME Table!StoreAssumption, RowsInv, JobsInv, NEW c \in Writers, Table!DeleteMany(c)
  PROVE  StepOf(c)
<1> DEFINE p == job[c]
<1>1. /\ At(p, dialect) /\ p.pc = "command" /\ p.job.op = "deleteMany" /\ p \in Running
      /\ UNCHANGED <<dialect, unique, last>> /\ RowsTyped
  BY CallerAt DEF Table!DeleteMany, Table!Asked, RowsInv
<1>2. PICK status \in RowStatuses :
        LET ids == {i \in DOMAIN rows : rows[i].status = status} IN
        /\ rows' = Table!Without(ids)
        /\ job' = [Table!Disturbed({}) EXCEPT ![c] = Table!Answered(
                     Table!Updated(p, 0, Table!Cardinality(ids)), IF ids = {} THEN "missed" ELSE "done")]
  BY DEF Table!DeleteMany
<1> DEFINE ids == {i \in DOMAIN rows : rows[i].status = status}
           n == Cardinality(ids)
           reply == IF ids = {} THEN "missed" ELSE "done"
           r == Table!Updated(p, 0, n)
<1>3. rows' = Table!Without(ids) /\ job' = [Table!Disturbed({}) EXCEPT ![c] = Table!Answered(r, reply)]
  BY <1>2, TableCard
<1>4. n \in Nat /\ (n = 0 <=> ids = {})
  BY <1>1, SomeRows
<1>5. p.updated = 0 /\ p.changed = 0 /\ p.made = 0
  BY <1>1 DEF At, Answers
<1>6. reply \in Replies /\ reply # "threw" /\ (reply = "done" => n # 0)
  BY <1>4 DEF Replies
<1>7. RowsInv' /\ Grown
  BY <1>1, <1>3, WithoutKeeps
<1> HIDE DEF p, n, reply, ids
<1>8. r \in Running /\ Sets(p, r, {"updated", "changed"}) /\ r.updated = p.updated + 0
      /\ r.changed = p.changed + n
  BY <1>1, <1>4, UpdatedSet
<1> HIDE DEF r
<1>9. Sets(p, r, Counting)
  BY <1>8, Counted1
<1>10. Goes(p, Table!Answered(r, reply), dialect) /\ Table!Answered(r, reply).pc = "done"
  BY <1>1, <1>4, <1>5, <1>6, <1>8, <1>9, AnswerGoes
<1> QED BY <1>1, <1>3, <1>7, <1>10, OthersDisturbed DEF StepOf, ReadsBack, p

\* A page is counted, fetched and processed, and then the next.
Paging == {"pc", "page", "total", "data", "seen", "again"}
CountedAs(p, n) == [p EXCEPT !.total = n, !.pc = "fetch"]
Got(p, data) == [p EXCEPT !.data = data, !.pc = "process"]

LEMMA PageFields ==
  ASSUME NEW p \in Running, NEW q
  PROVE  /\ Sets(p, q, {"total", "pc"}) => Sets(p, q, Paging)
         /\ Sets(p, q, {"data", "pc"}) => Sets(p, q, Paging)
         /\ Sets(p, q, {"page", "pc"}) => Sets(p, q, Paging)
         /\ Sets(p, q, {"seen", "again", "data"}) => Sets(p, q, Paging)
         /\ \A r : Sets(p, q, Paging) /\ Sets(q, r, Paging) => Sets(p, r, Paging)
  BY DEF Sets, Paging

LEMMA CountSet ==
  ASSUME NEW p \in Running, NEW n \in Nat
  PROVE  LET q == CountedAs(p, n) IN
         q \in Running /\ Sets(p, q, {"total", "pc"}) /\ q.total = n /\ q.pc = "fetch"
<1> DEFINE r == [p EXCEPT !.total = n]
           q == CountedAs(p, n)
<1>1. r \in Running /\ Sets(p, r, {"total"}) /\ r.total = n
  BY DEF Running, Sets, Fields
<1>2. q = [r EXCEPT !.pc = "fetch"]
  BY DEF CountedAs
<1> HIDE DEF r, q
<1>3. q \in Running /\ Sets(r, q, {"pc"}) /\ q.pc = "fetch"
  BY <1>1, <1>2, PcSet, Stated
<1> QED BY <1>1, <1>3 DEF Sets, Fields, q

LEMMA GotSet ==
  ASSUME NEW p \in Running, NEW data \in SUBSET Nat
  PROVE  LET q == Got(p, data) IN
         q \in Running /\ Sets(p, q, {"data", "pc"}) /\ q.data = data /\ q.pc = "process"
<1> DEFINE r == [p EXCEPT !.data = data]
           q == Got(p, data)
<1>1. r \in Running /\ Sets(p, r, {"data"}) /\ r.data = data
  BY DEF Running, Sets, Fields
<1>2. q = [r EXCEPT !.pc = "process"]
  BY DEF Got
<1> HIDE DEF r, q
<1>3. q \in Running /\ Sets(r, q, {"pc"}) /\ q.pc = "process"
  BY <1>1, <1>2, PcSet, Stated
<1> QED BY <1>1, <1>3 DEF Sets, Fields, q

LEMMA GivenSet ==
  ASSUME NEW p \in Running
  PROVE  LET q == Table!Given(p) IN
         /\ q \in Running /\ Sets(p, q, {"seen", "again", "data"})
         /\ q.seen = p.seen \cup p.data /\ q.data = {}
         /\ q.again <=> (p.again \/ p.seen \cap p.data # {})
<1>1. PICK x \in SUBSET Nat : x = p.seen \cup p.data
  BY DEF Running
<1>2. PICK y \in BOOLEAN : y <=> (p.again \/ p.seen \cap p.data # {})
  OBVIOUS
<1>3. PICK z \in SUBSET Nat : z = {}
  OBVIOUS
<1> DEFINE q == [p EXCEPT !.seen = x, !.again = y, !.data = z]
<1>4. q \in Running /\ Sets(p, q, {"seen", "again", "data"}) /\ q.seen = x /\ q.data = z
      /\ q.again = y
  BY DEF Running, Fields, Sets
<1>5. Table!Given(p) = q
  <2>1. (p.again \/ p.seen \cap p.data # {}) = y
    BY <1>2
  <2> QED BY <1>1, <1>3, <2>1, Zenon DEF Table!Given
<1> HIDE DEF q
<1> QED BY <1>1, <1>2, <1>3, <1>4, <1>5

\* With the products given as numbers.
LEMMA NextPageSet ==
  ASSUME NEW p \in Running
  PROVE  LET q == Table!NextPage(p) IN
         /\ q \in Running /\ Sets(p, q, {"page", "pc"})
         /\ IF p.page * Table!Limit(p.job.size) < p.total THEN q.pc = "count" /\ q.page = p.page + 1
            ELSE q.pc = "done" /\ q.page = p.page
<1> DEFINE more == p.page * Table!Limit(p.job.size) < p.total
           q == Table!NextPage(p)
           r == [p EXCEPT !.page = p.page + 1]
<1>1. q = IF more THEN [r EXCEPT !.pc = "count"] ELSE [p EXCEPT !.pc = "done"]
  BY DEF Table!NextPage
<1>2. r \in Running /\ Sets(p, r, {"page"}) /\ r.page = p.page + 1
  <2>1. PICK x \in Nat \ {0} : x = p.page + 1
    BY DEF Running
  <2>2. [p EXCEPT !.page = x] \in Running /\ Sets(p, [p EXCEPT !.page = x], {"page"})
        /\ [p EXCEPT !.page = x].page = x
    BY DEF Running, Fields, Sets
  <2> QED BY <2>1, <2>2
<1> HIDE DEF r, more, q
<1>3. CASE more
  <2>1. q = [r EXCEPT !.pc = "count"]
    BY <1>1, <1>3
  <2>2. q \in Running /\ Sets(r, q, {"pc"}) /\ q.pc = "count"
    BY <1>2, <2>1, PcSet, Stated
  <2>3. Sets(p, q, {"page", "pc"}) /\ q.page = p.page + 1
    BY <1>2, <2>2 DEF Sets, Fields
  <2> QED BY <1>3, <2>2, <2>3 DEF more, q
<1>4. CASE ~more
  <2>1. q = [p EXCEPT !.pc = "done"]
    BY <1>1, <1>4
  <2>2. q \in Running /\ Sets(p, q, {"pc"}) /\ q.pc = "done"
    BY <2>1, PcSet, Stated
  <2>3. Sets(p, q, {"page", "pc"}) /\ q.page = p.page
    BY <2>2 DEF Sets, Fields
  <2> QED BY <1>4, <2>2, <2>3 DEF more, q
<1> QED BY <1>3, <1>4

LEMMA CountStep ==
  ASSUME Table!StoreAssumption, RowsInv, JobsInv, NEW c \in Writers, Table!Count(c)
  PROVE  StepOf(c) /\ job'[c] = CountedAs(job[c], Cardinality(Table!Open)) /\ UNCHANGED rows
<1> DEFINE p == job[c]
           n == Cardinality(Table!Open)
           q == CountedAs(p, n)
<1>1. At(p, dialect) /\ p.pc = "count" /\ p \in Running /\ p.job.op = "batch"
      /\ UNCHANGED <<dialect, unique, rows, last>>
  BY CallerAt DEF Table!Count, At, Asks
<1>2. job' = [job EXCEPT ![c] = q]
  BY TableCard DEF Table!Count, CountedAs, JobsInv
<1>3. n \in Nat
  <2>1. Table!Open \subseteq DOMAIN rows
    BY DEF Table!Open
  <2> QED BY <2>1, SomeRows DEF RowsInv
<1> HIDE DEF p, n
<1>4. q \in Running /\ Sets(p, q, {"total", "pc"}) /\ q.pc = "fetch"
  BY <1>1, <1>3, CountSet
<1> HIDE DEF q
<1>5. Goes(p, q, dialect)
  BY <1>1, <1>4, PageFields, PagesGo DEF Paging
<1>6. StepOf(c) /\ job'[c] = q
  BY <1>1, <1>2, <1>4, <1>5, RowsStill, OnlyOne DEF StepOf, ReadsBack, p
<1> QED BY <1>1, <1>6 DEF q, p, n

LEMMA FetchStep ==
  ASSUME Table!StoreAssumption, RowsInv, JobsInv, NEW c \in Writers, Table!Fetch(c)
  PROVE  /\ StepOf(c) /\ UNCHANGED rows
         /\ \E data \in SUBSET Nat :
              /\ job'[c] = IF data = {} THEN Table!NextPage(job[c]) ELSE Got(job[c], data)
              /\ ~job[c].lost => data = Table!PageOf(Table!Open, job[c].page, job[c].job.size)
<1> DEFINE p == job[c]
           page == Table!PageOf(Table!Open, p.page, p.job.size)
<1>1. At(p, dialect) /\ p.pc = "fetch" /\ p \in Running /\ p.job.op = "batch"
      /\ UNCHANGED <<dialect, unique, rows, last>>
  BY CallerAt DEF Table!Fetch, At, Asks
<1>2. PICK data \in Table!Fetched(p) :
        job' = [job EXCEPT ![c] = IF data = {} THEN Table!NextPage(p) ELSE Got(p, data)]
  BY DEF Table!Fetch, Got
<1>3. page \subseteq Table!Open /\ Table!Open \in SUBSET Nat
  BY DEF Table!PageOf, Table!Open, RowsInv, RowsTyped
<1>4. data \in SUBSET Nat /\ (~p.lost => data = page)
  BY <1>2, <1>3 DEF Table!Fetched
<1> DEFINE q == IF data = {} THEN Table!NextPage(p) ELSE Got(p, data)
<1> HIDE DEF p, page
<1>5. q \in Running /\ (Sets(p, q, {"page", "pc"}) \/ Sets(p, q, {"data", "pc"}))
      /\ q.pc \in {"count", "process", "done"}
  BY <1>1, <1>4, NextPageSet, GotSet
<1> HIDE DEF q
<1>6. Goes(p, q, dialect)
  BY <1>1, <1>5, PageFields, PagesGo DEF Paging
<1>7. job' = [job EXCEPT ![c] = q]
  BY <1>2 DEF q
<1>8. StepOf(c) /\ job'[c] = q
  BY <1>1, <1>5, <1>6, <1>7, RowsStill, OnlyOne DEF StepOf, ReadsBack, p
<1> QED BY <1>1, <1>4, <1>8 DEF q, p, page

LEMMA ProcessStep ==
  ASSUME Table!StoreAssumption, RowsInv, JobsInv, NEW c \in Writers, Table!Process(c)
  PROVE  /\ StepOf(c) /\ job'[c] = Table!NextPage(Table!Given(job[c]))
         /\ (~job[c].job.settles => UNCHANGED rows)
<1> DEFINE p == job[c]
           g == Table!Given(p)
           q == Table!NextPage(g)
<1>1. At(p, dialect) /\ p.pc = "process" /\ p \in Running /\ p.job.op = "batch"
      /\ UNCHANGED <<dialect, unique, last>>
  BY CallerAt DEF Table!Process, At, Asks
<1>2. IF p.job.settles
      THEN /\ rows' = [i \in DOMAIN rows |->
                         IF i \in p.data THEN [rows[i] EXCEPT !.status = "done"] ELSE rows[i]]
           /\ job' = [Table!Disturbed(p.data) EXCEPT ![c] = q]
      ELSE job' = [job EXCEPT ![c] = q] /\ UNCHANGED rows
  BY DEF Table!Process
<1>3. g \in Running /\ Sets(p, g, {"seen", "again", "data"})
  BY <1>1, GivenSet
<1> HIDE DEF g
<1>4. q \in Running /\ Sets(g, q, {"page", "pc"}) /\ q.pc \in {"count", "done"}
  BY <1>3, NextPageSet
<1> HIDE DEF q
<1>5. Sets(p, q, Paging)
  BY <1>1, <1>3, <1>4, PageFields
<1>6. Goes(p, q, dialect)
  BY <1>1, <1>4, <1>5, PagesGo DEF Paging
<1>7. CASE p.job.settles
  <2>1. /\ DOMAIN rows' = DOMAIN rows
        /\ \A i \in DOMAIN rows' : rows'[i].key = rows[i].key /\ DOMAIN rows'[i] = DOMAIN rows[i]
    BY <1>2, <1>7 DEF RowsInv, RowsTyped, Read
  <2>2. RowsInv' /\ Grown
    BY <1>1, <2>1, RowsEdited DEF RowsInv
  <2> QED BY <1>1, <1>2, <1>4, <1>6, <1>7, <2>2, OthersDisturbed DEF StepOf, ReadsBack, q, g
<1>8. CASE ~p.job.settles
  BY <1>1, <1>2, <1>4, <1>6, <1>8, RowsStill, OnlyOne DEF StepOf, ReadsBack, q, g
<1> QED BY <1>7, <1>8

\* A transaction inserts a record, and commits.
LEMMA TxInsertStep ==
  ASSUME Table!StoreAssumption, RowsInv, JobsInv, NEW c \in Writers, Table!TxInsert(c)
  PROVE  StepOf(c)
<1> DEFINE p == job[c]
           own == \E i \in 1..(p.at - 1) : p.job.records[i].key = Table!Current(c).key
           fails == Table!Refused(Table!Current(c)) \/ (unique /\ own)
           q == IF fails THEN Table!Answered(p, "threw")
                ELSE IF p.at < Len(p.job.records) THEN [p EXCEPT !.at = p.at + 1]
                     ELSE [p EXCEPT !.pc = "commit"]
<1>1. /\ At(p, dialect) /\ p.pc = "within" /\ p \in Running
         /\ UNCHANGED <<dialect, unique, rows, last>>
      /\ p.at \in Nat /\ Size(p) \in Nat /\ p.at <= Size(p)
  BY CallerAt DEF Table!TxInsert, At, Asks, Wanted, Size
<1>2. job' = [job EXCEPT ![c] = q]
  BY DEF Table!TxInsert
<1> HIDE DEF p, own, fails
<1>3. Goes(p, q, dialect) /\ q.pc # "read"
  <2>1. CASE fails
    <3>1. Goes(p, Table!Answered(p, "threw"), dialect) /\ Table!Answered(p, "threw").pc = "done"
      BY <1>1, DoneNothing
    <3> QED BY <2>1, <3>1
  <2>2. CASE ~fails /\ p.at < Size(p)
    <3> DEFINE r == [p EXCEPT !.at = p.at + 1]
    <3>1. r \in Running /\ Sets(p, r, {"at"}) /\ r.at = p.at + 1
      BY <1>1, AtSet
    <3>2. q = r
      BY <2>2 DEF Size
    <3> HIDE DEF r, q
    <3>3. Sets(p, r, {"pc", "at"}) /\ r.pc = "within"
      BY <1>1, <3>1 DEF Sets, Fields
    <3> QED BY <1>1, <2>2, <3>1, <3>2, <3>3, WithinGoes
  <2>3. CASE ~fails /\ ~(p.at < Size(p))
    <3>1. q = [p EXCEPT !.pc = "commit"]
      BY <2>3 DEF Size
    <3> HIDE DEF q
    <3>2. q \in Running /\ Sets(p, q, {"pc"}) /\ q.pc = "commit"
      BY <1>1, <3>1, PcSet, Stated
    <3>3. Sets(p, q, {"pc", "at"}) /\ q.at = p.at
      BY <3>2 DEF Sets, Fields
    <3> QED BY <1>1, <3>2, <3>3, WithinGoes
  <2> QED BY <2>1, <2>2, <2>3
<1> HIDE DEF q
<1> QED BY <1>1, <1>2, <1>3, RowsStill, OnlyOne DEF StepOf, ReadsBack, p

LEMMA TxCommitStep ==
  ASSUME Table!StoreAssumption, RowsInv, JobsInv, NEW c \in Writers, Table!TxCommit(c)
  PROVE  StepOf(c)
<1> DEFINE p == job[c]
           batch == p.job.records
           n == Len(batch)
           r == Table!Inserted(p, 0, n)
<1>1. /\ At(p, dialect) /\ p.pc = "commit" /\ p \in Running /\ p.job.op = "transaction"
         /\ UNCHANGED <<dialect, unique>>
      /\ p.made = 0 /\ p.changed = 0 /\ p.updated = 0
  BY CallerAt DEF Table!TxCommit, At, Asks, Answers
<1>2. p.job \in StoreJobs
  BY <1>1 DEF Running, Table!NoJob, Table!Job
<1>3. /\ batch \in Seq(Table!Records) /\ n \in Nat \ {0} /\ DOMAIN batch = 1..n /\ Size(p) = n
      /\ \A i \in DOMAIN batch : Read(batch[i])
  <2>1. batch \in Seq(Table!Records)
    BY <1>2 DEF Table!StoreAssumption
  <2>2. n \in Nat /\ n > 0 /\ \A i \in 1..n : Read(batch[i])
    BY <1>1 DEF At, Asks, Wanted
  <2>3. DOMAIN batch = 1..n /\ Size(p) = n
    BY <2>1 DEF Size
  <2> QED BY <2>1, <2>2, <2>3
<1>4. CASE Table!Duplicates(batch, DOMAIN batch) # {}
  <2>1. job' = [job EXCEPT ![c] = Table!Answered(p, "threw")] /\ UNCHANGED <<rows, last>>
    BY <1>4 DEF Table!TxCommit
  <2>2. Goes(p, Table!Answered(p, "threw"), dialect) /\ Table!Answered(p, "threw").pc = "done"
    BY <1>1, DoneNothing
  <2> HIDE DEF p
  <2> QED BY <1>1, <2>1, <2>2, RowsStill, OnlyOne DEF StepOf, ReadsBack, p
<1>5. CASE Table!Duplicates(batch, DOMAIN batch) = {}
  <2>1. /\ Table!InsertAll(batch, DOMAIN batch)
        /\ job' = [Table!Disturbed((last + 1)..last') EXCEPT ![c] = Table!Answered(r, "done")]
    BY <1>5 DEF Table!TxCommit
  <2>2. RowsInv' /\ Grown
    BY <1>1, <1>3, <1>5, <2>1, InsertedAll DEF RowsInv
  <2> HIDE DEF p, n, batch
  <2>3. r \in Running /\ Sets(p, r, {"inserted", "made"}) /\ r.made = p.made + n
    BY <1>1, <1>3, InsertedSet
  <2> HIDE DEF r
  <2>4. Sets(p, r, {"updated", "made", "changed", "inserted"}) /\ "done" \in Replies
    BY <2>3 DEF Sets, Replies
  <2>5. r.updated = 0 /\ r.changed = 0 /\ r.made = n
    BY <1>1, <1>3, <2>3 DEF Sets, Fields
  <2>6. Sets(p, r, Counting)
    BY <2>4 DEF Sets, Counting
  <2>7. Goes(p, Table!Answered(r, "done"), dialect) /\ Table!Answered(r, "done").pc = "done"
    BY <1>1, <1>3, <2>3, <2>4, <2>5, <2>6, AnswerGoes
  <2> QED BY <1>1, <2>1, <2>2, <2>7, OthersDisturbed DEF StepOf, ReadsBack, p
<1> QED BY <1>4, <1>5

\* A caller begins.
LEMMA BeginStep ==
  ASSUME Table!StoreAssumption, RowsInv, JobsInv, NEW c \in Writers, Table!Begin(c)
  PROVE  LET q == job'[c] IN
         /\ RowsInv' /\ Grown /\ Undisturbed /\ OthersKept(c) /\ UNCHANGED <<dialect, rows>>
         /\ job[c].pc = "idle"
         /\ q \in Running /\ JobTyped(q) /\ Reports(q, dialect, DOMAIN rows, last)
         /\ q.job \in StoreJobs /\ q.pc \notin {"idle", "write", "fetch", "process", "done"}
         /\ q.page = 1 /\ q.seen = {} /\ ~q.again /\ ~q.lost
         /\ q.job.op = "batch" => q.due = Table!Open
<1>1. PICK j \in StoreJobs :
        job' = [job EXCEPT ![c] =
                  [Table!Progress(j, IF j.op \in DOMAIN Table!Entry THEN Table!Entry[j.op] ELSE "command") EXCEPT
                     !.due = IF j.op = "batch" THEN Table!Open ELSE {}]]
  BY DEF Table!Begin
<1> DEFINE pc == IF j.op \in DOMAIN Table!Entry THEN Table!Entry[j.op] ELSE "command"
           due == IF j.op = "batch" THEN Table!Open ELSE {}
           q == [Table!Progress(j, pc) EXCEPT !.due = due]
<1>2. job' = [job EXCEPT ![c] = q] /\ UNCHANGED <<dialect, unique, rows, last>>
      /\ job[c].pc = "idle"
  BY <1>1 DEF Table!Begin
<1>3. Wanted(j)
  BY JobsWanted
<1>4. pc = IF j.op = "upserts" THEN "look" ELSE IF j.op = "createMany" THEN "batch"
           ELSE IF j.op = "batch" THEN "count" ELSE IF j.op = "transaction" THEN "within"
                ELSE "command"
  BY DEF Table!Entry
<1> HIDE DEF pc
<1>5. pc \in Pcs /\ pc \in Stages(j.op)
      /\ pc \notin {"idle", "done", "write", "read", "fetch", "process", "each"}
  BY <1>3, <1>4 DEF Pcs, Stages, Wanted, Table!Commands, Table!Updates, Table!Operators
<1>6. due \in SUBSET Nat
  BY DEF Table!Open, RowsInv, RowsTyped
<1>7. j.op = "batch" => due = Table!Open
  OBVIOUS
<1> HIDE DEF due
<1>8. q.job = j /\ q.pc = pc /\ q.answer = "" /\ q.seen = {} /\ q.due = due
  BY DEF Table!Progress
<1>a. q.at = 1 /\ q.page = 1 /\ q.inserted = 0 /\ q.updated = 0 /\ q.failed = 0 /\ q.made = 0
      /\ q.changed = 0
  BY DEF Table!Progress
<1>b. ~q.again /\ ~q.lost
  BY DEF Table!Progress
<1>9. q \in Running
  <2>1. "" \in Replies /\ 1 \in Nat \ {0} /\ 0 \in Nat /\ {} \in SUBSET Nat /\ FALSE \in BOOLEAN
    BY DEF Replies
  <2>2. Table!Progress(j, pc) \in Running
    BY <1>5, <2>1, Zenon DEF Running, Table!Progress
  <2>3. \A p \in Running : [p EXCEPT !.due = due] \in Running
    BY <1>6 DEF Running
  <2> QED BY <2>2, <2>3
<1> HIDE DEF q
<1>10. JobTyped(q)
  <2>1. Size(q) = Len(j.records)
    BY <1>8 DEF Size
  <2>2. Size(q) \in Nat /\ (j.op # "batch" => Size(q) > 0)
    BY <1>3, <2>1 DEF Wanted
  <2>3. q.at = 1 /\ q.pc \in Stages(q.job.op) /\ q.pc # "done" /\ q.pc # "idle" /\ q.job = j
    BY <1>5, <1>8, <1>a
  <2> QED BY <1>9, <2>2, <2>3 DEF JobTyped
<1>11. Counts(q, dialect) /\ Answers(q) /\ ReadsBack(q, DOMAIN rows, last)
  <2>a. q.pc # "done"
    BY <1>5, <1>8
  <2>b. q.at = 1
    BY <1>a
  <2>1. Handled(q) = 0
    BY <2>a, <2>b DEF Handled
  <2>2. q.inserted + q.updated + q.failed = 0
    BY <1>a
  <2>3. Counts(q, dialect)
    BY <1>5, <1>8, <1>a, <2>1, <2>2 DEF Counts
  <2>4. Answers(q) /\ ReadsBack(q, DOMAIN rows, last)
    BY <1>5, <1>8, <1>a DEF Answers, ReadsBack
  <2> QED BY <2>3, <2>4
<1>12. RowsInv' /\ Grown /\ Undisturbed /\ OthersKept(c) /\ job'[c] = q
  BY <1>2, RowsStill, OnlyOne
<1> QED BY <1>2, <1>5, <1>7, <1>8, <1>a, <1>b, <1>9, <1>10, <1>11, <1>12 DEF Reports

\* Every step of a caller.
LEMMA StepKeeps ==
  ASSUME Table!StoreAssumption, RowsInv, JobsInv, NEW c \in Writers, Table!Step(c)
  PROVE  Table!Begin(c) \/ StepOf(c)
BY LookStep, CreateMissingStep, KeepStep, UpdateFoundStep, InsertManyStep, SaveBatchStep,
   SaveEachStep,
   CountStep, FetchStep, ProcessStep, CreateStep, UpdateMongoStep, OperatorMongoStep,
   EditPostgresStep,
   ReadBackStep, UpdateManyStep, DeleteStep, DeleteManyStep, TxInsertStep, TxCommitStep
   DEF Table!Step

LEMMA JobsStep ==
  ASSUME Table!StoreAssumption, RowsInv, JobsInv, NEW c \in Writers, Table!Step(c)
  PROVE  RowsInv' /\ JobsInv' /\ Grown /\ OthersKept(c)
<1>1. /\ RowsInv' /\ Grown /\ OthersKept(c) /\ dialect' = dialect /\ job'[c] \in Running
         /\ JobTyped(job'[c])
      /\ Reports(job'[c], dialect, DOMAIN rows', last')
  <2>1. CASE Table!Begin(c)
    <3>1. UNCHANGED last
      BY <2>1 DEF Table!Begin
    <3> QED BY <2>1, <3>1, BeginStep
  <2>2. CASE StepOf(c)
    BY <2>2 DEF StepOf, Goes, Reports
  <2> QED BY <2>1, <2>2, StepKeeps
<1>2. \A d \in Writers \ {c} :
        job'[d] \in Running /\ JobTyped(job'[d]) /\ Reports(job'[d], dialect, DOMAIN rows', last')
  <2> TAKE d \in Writers \ {c}
  <2>1. job[d] \in Running /\ JobTyped(job[d]) /\ Reports(job[d], dialect, DOMAIN rows, last)
    BY DEF JobsInv
  <2>2. Reports(job[d], dialect, DOMAIN rows', last')
    <3>1. ReadsBack(job[d], DOMAIN rows', last')
      BY <1>1, <2>1, StillRead DEF Grown, RowsInv, RowsTyped, Reports
    <3> QED BY <2>1, <3>1 DEF Reports
  <2>3. job'[d] = job[d] \/ job'[d] = [job[d] EXCEPT !.lost = TRUE]
    BY <1>1 DEF OthersKept
  <2> QED BY <2>1, <2>2, <2>3, LostReports
<1>3. job' \in [Writers -> Running]
  <2>1. job' = [d \in Writers |-> job'[d]] /\ \A d \in Writers : job'[d] \in Running
    BY <1>1, <1>2 DEF OthersKept
  <2> QED BY <2>1
<1> QED BY <1>1, <1>2, <1>3 DEF JobsInv

------------------------------------------------------------------------------
(* The pages of a batch *)

\* What was before a page, and with it; all before has been processed, and what matched at
\* the start is among what was counted.
Upto(p) == (p.page - 1) * Table!Limit(p.job.size)
Full(p) == p.page * Table!Limit(p.job.size)
InPage(p, ids) == Table!PageOf(ids, p.page, p.job.size)
CoveredPages(p, ids) ==
  /\ p.due \subseteq ids /\ ~p.again
  /\ p.pc # "done" => Upto(p) <= Cardinality(ids)
     /\ p.seen = {i \in ids : Table!Rank(ids, i) <= Upto(p)}
  /\ p.pc \in {"fetch", "process"} =>
       p.total <= Cardinality(ids) /\ \A i \in p.due : Table!Rank(ids, i) <= p.total
  /\ p.pc = "process" =>
       p.data \subseteq InPage(p, ids) /\ \A i \in InPage(p, ids) : Table!Rank(ids, i) <= p.total =>
       i \in p.data
  /\ p.pc = "done" => p.due \subseteq p.seen
Covered(p, ids) == p.job.op = "batch" /\ ~p.job.settles /\ ~p.lost => CoveredPages(p, ids)
PagesInv == \A c \in Writers : Covered(job[c], Table!Open)

LEMMA Products ==
  ASSUME Table!StoreAssumption, NEW p \in Running, p.job.size \in Nat \ {0}
  PROVE  /\ Upto(p) \in Nat /\ Full(p) \in Nat /\ Upto(p) < Full(p) /\ (p.page = 1 => Upto(p) = 0)
         /\ \A q : q.job = p.job /\ q.page = p.page + 1 => Upto(q) = Full(p)
<1> DEFINE limit == Table!Limit(p.job.size)
<1>1. limit \in Nat \ {0} /\ p.page \in Nat \ {0}
  BY DEF Table!StoreAssumption, Table!Limit, Table!Smaller, Running
<1>2. Upto(p) = (p.page - 1) * limit /\ Full(p) = p.page * limit
  BY DEF Upto, Full
<1>3. ASSUME NEW q, q.job = p.job, q.page = p.page + 1 PROVE Upto(q) = p.page * limit
  <2>1. q.page - 1 = p.page
    BY <1>1, <1>3
  <2> QED BY <1>3, <2>1 DEF Upto
<1> HIDE DEF limit
<1>4. PICK k \in Nat : k + 1 = p.page
  <2>1. p.page - 1 \in Nat /\ p.page - 1 + 1 = p.page
    BY <1>1
  <2> QED BY <2>1
<1>5. \A m, n \in Nat : m * n \in Nat /\ (m + 1) * n = m * n + n /\ 0 * n = 0
  OBVIOUS
<1>6. p.page - 1 = k /\ (p.page = 1 => k = 0)
  BY <1>1, <1>4
<1>7. Upto(p) = k * limit /\ Full(p) = (k + 1) * limit
  BY <1>2, <1>4, <1>6
<1>8. k * limit \in Nat /\ (k + 1) * limit = k * limit + limit /\ 0 * limit = 0
  BY <1>1, <1>4, <1>5
<1>9. Upto(p) \in Nat /\ Full(p) \in Nat /\ Upto(p) < Full(p)
  BY <1>1, <1>7, <1>8
<1>10. p.page = 1 => Upto(p) = 0
  BY <1>6, <1>7, <1>8
<1> QED BY <1>2, <1>3, <1>9, <1>10

LEMMA RankIs ==
  ASSUME NEW ids \in SUBSET Nat, IsFiniteSet(ids)
  PROVE  Cardinality(ids) \in Nat /\ \A i \in ids : Table!Rank(ids, i) \in 1..Cardinality(ids)
<1>1. Cardinality(ids) \in Nat
  BY FS_CardinalityType
<1>2. ASSUME NEW i \in ids PROVE Table!Rank(ids, i) \in 1..Cardinality(ids)
  <2> DEFINE upto == {k \in ids : k <= i}
  <2>1. Table!Rank(ids, i) = Cardinality(upto)
    BY TableCard DEF Table!Rank
  <2>2. upto \subseteq ids /\ i \in upto
    OBVIOUS
  <2> HIDE DEF upto
  <2>3. IsFiniteSet(upto) /\ Cardinality(upto) <= Cardinality(ids)
    BY <2>2, FS_Subset
  <2>4. Cardinality(upto) \in Nat /\ Cardinality(upto) # 0
    BY <2>2, <2>3, FS_CardinalityType, FS_EmptySet
  <2> QED BY <1>1, <2>1, <2>3, <2>4
<1> QED BY <1>1, <1>2

LEMMA PageIs ==
  ASSUME Table!StoreAssumption, NEW p \in Running, p.job.size \in Nat \ {0}, NEW ids \in SUBSET Nat,
         IsFiniteSet(ids), NEW i \in ids
  PROVE  i \in InPage(p, ids) <=> Upto(p) < Table!Rank(ids, i) /\ Table!Rank(ids, i) <= Full(p)
<1>1. i \in InPage(p, ids) <=> Table!Rank(ids, i) \in (Upto(p) + 1)..Full(p)
  BY DEF InPage, Table!PageOf, Upto, Full
<1>2. Upto(p) \in Nat /\ Full(p) \in Nat /\ Table!Rank(ids, i) \in Nat
  BY Products, RankIs
<1> QED BY <1>1, <1>2

\* New rows come behind all the others: the ranks of those that match do not change.
LEMMA MoreRows ==
  ASSUME NEW ids \in SUBSET Nat, NEW more \in SUBSET Nat, IsFiniteSet(more), ids \subseteq more,
         \A i \in more \ ids : \A k \in ids : k < i
  PROVE  /\ Cardinality(ids) \in Nat /\ Cardinality(ids) <= Cardinality(more)
         /\ Cardinality(more) \in Nat
         /\ \A i \in ids : Table!Rank(more, i) = Table!Rank(ids, i)
         /\ \A i \in more \ ids : Cardinality(ids) < Table!Rank(more, i)
<1>1. IsFiniteSet(ids) /\ Cardinality(ids) <= Cardinality(more)
  BY FS_Subset
<1>2. Cardinality(ids) \in Nat /\ Cardinality(more) \in Nat
  BY <1>1, FS_CardinalityType
<1>3. ASSUME NEW i \in ids PROVE Table!Rank(more, i) = Table!Rank(ids, i)
  <2>1. \A k \in more : k <= i => k \in ids
    OBVIOUS
  <2>2. {k \in more : k <= i} = {k \in ids : k <= i}
    BY <2>1
  <2> QED BY <2>2 DEF Table!Rank
<1>4. ASSUME NEW i \in more \ ids PROVE Cardinality(ids) < Table!Rank(more, i)
  <2> DEFINE upto == {k \in more : k <= i}
  <2>1. Table!Rank(more, i) = Cardinality(upto)
    BY TableCard DEF Table!Rank
  <2>2. upto \subseteq more /\ ids \subseteq upto \ {i} /\ i \in upto
    OBVIOUS
  <2> HIDE DEF upto
  <2>3. IsFiniteSet(upto)
    BY <2>2, FS_Subset
  <2>4. Cardinality(upto \ {i}) = Cardinality(upto) - 1 /\ IsFiniteSet(upto \ {i})
    BY <2>2, <2>3, FS_RemoveElement
  <2>5. Cardinality(ids) <= Cardinality(upto \ {i})
    BY <2>2, <2>4, FS_Subset
  <2> QED BY <1>2, <2>1, <2>3, <2>4, <2>5, FS_CardinalityType
<1> QED BY <1>1, <1>2, <1>3, <1>4

LEMMA CoverMore ==
  ASSUME Table!StoreAssumption, NEW p \in Running, p.job.size \in Nat \ {0}, NEW ids \in SUBSET Nat,
         NEW more \in SUBSET Nat,
         IsFiniteSet(more), ids \subseteq more, \A i \in more \ ids : \A k \in ids : k < i,
         CoveredPages(p, ids)
  PROVE  CoveredPages(p, more)
<1> DEFINE m == Cardinality(ids)
           n == Cardinality(more)
           upto == Upto(p)
           total == p.total
<1>1. /\ m \in Nat /\ m <= n /\ n \in Nat
      /\ \A i \in ids : Table!Rank(more, i) = Table!Rank(ids, i)
      /\ \A i \in more \ ids : m < Table!Rank(more, i)
  BY MoreRows
<1>2. IsFiniteSet(ids)
  BY FS_Subset
<1>3. \A i \in more : Table!Rank(more, i) \in Nat
  BY <1>2, RankIs
<1>4. upto \in Nat /\ total \in Nat
  BY Products DEF Running
<1>a. CoveredPages(p, ids) <=>
        /\ p.due \subseteq ids /\ ~p.again
        /\ p.pc # "done" => upto <= m /\ p.seen = {i \in ids : Table!Rank(ids, i) <= upto}
        /\ p.pc \in {"fetch", "process"} => total <= m
           /\ \A i \in p.due : Table!Rank(ids, i) <= total
        /\ p.pc = "process" =>
             p.data \subseteq InPage(p, ids)
             /\ \A i \in InPage(p, ids) : Table!Rank(ids, i) <= total => i \in p.data
        /\ p.pc = "done" => p.due \subseteq p.seen
  BY DEF CoveredPages
<1>b. CoveredPages(p, more) <=>
        /\ p.due \subseteq more /\ ~p.again
        /\ p.pc # "done" => upto <= n /\ p.seen = {i \in more : Table!Rank(more, i) <= upto}
        /\ p.pc \in {"fetch", "process"} => total <= n
           /\ \A i \in p.due : Table!Rank(more, i) <= total
        /\ p.pc = "process" =>
             p.data \subseteq InPage(p, more)
             /\ \A i \in InPage(p, more) : Table!Rank(more, i) <= total => i \in p.data
        /\ p.pc = "done" => p.due \subseteq p.seen
  BY DEF CoveredPages
<1> HIDE DEF m, n, upto, total
<1>5. p.due \subseteq more /\ ~p.again /\ (p.pc = "done" => p.due \subseteq p.seen)
  BY <1>a
<1>6. ASSUME p.pc # "done"
      PROVE  upto <= n /\ p.seen = {i \in more : Table!Rank(more, i) <= upto}
  <2>1. upto <= m /\ p.seen = {i \in ids : Table!Rank(ids, i) <= upto}
    BY <1>6, <1>a
  <2>2. \A i \in more : Table!Rank(more, i) <= upto <=> i \in ids /\ Table!Rank(ids, i) <= upto
    BY <1>1, <1>3, <1>4, <2>1
  <2>3. upto <= n
    BY <1>1, <1>4, <2>1
  <2>4. p.seen = {i \in more : Table!Rank(more, i) <= upto}
    BY <2>1, <2>2
  <2> QED BY <2>3, <2>4
<1>7. ASSUME p.pc \in {"fetch", "process"}
      PROVE  total <= n /\ \A i \in p.due : Table!Rank(more, i) <= total
  <2>1. total <= m /\ p.due \subseteq ids /\ \A i \in p.due : Table!Rank(ids, i) <= total
    BY <1>7, <1>a
  <2>2. total <= n
    BY ONLY <1>1, <1>4, <2>1
  <2>3. ASSUME NEW i \in p.due PROVE Table!Rank(more, i) <= total
    BY ONLY <1>1, <1>4, <2>1, i \in p.due
  <2> QED BY ONLY <2>2, <2>3
<1>8. ASSUME p.pc = "process"
      PROVE  p.data \subseteq InPage(p, more)
             /\ \A i \in InPage(p, more) : Table!Rank(more, i) <= total => i \in p.data
  <2>1. /\ total <= m /\ p.data \subseteq InPage(p, ids)
        /\ \A i \in InPage(p, ids) : Table!Rank(ids, i) <= total => i \in p.data
    BY <1>8, <1>a
  <2>2. InPage(p, ids) \subseteq ids /\ InPage(p, more) \subseteq more
    BY DEF InPage, Table!PageOf
  <2>3. \A i \in ids : i \in InPage(p, ids) <=> i \in InPage(p, more)
    BY <1>1, <1>2, PageIs
  <2>4. ASSUME NEW i \in InPage(p, more), Table!Rank(more, i) <= total PROVE i \in ids
    <3>1. total <= m /\ i \in more
      BY <2>1, <2>2
    <3>2. Table!Rank(more, i) <= m
      BY <1>1, <1>3, <1>4, <2>4, <3>1
    <3> QED BY <1>1, <1>3, <3>1, <3>2
  <2> QED BY <1>1, <2>1, <2>2, <2>3, <2>4
<1> QED BY <1>5, <1>6, <1>7, <1>8, <1>b

\* A page is counted; the next one is begun, or the batch ends; a page is fetched; and processed.
LEMMA CoverCounted ==
  ASSUME Table!StoreAssumption, NEW p \in Running, p.pc = "count", NEW ids \in SUBSET Nat,
         IsFiniteSet(ids), CoveredPages(p, ids)
  PROVE  CoveredPages(CountedAs(p, Cardinality(ids)), ids)
<1> DEFINE n == Cardinality(ids)
           q == CountedAs(p, n)
<1>1. n \in Nat /\ \A i \in ids : Table!Rank(ids, i) \in 1..n
  BY RankIs
<1>2. /\ p.due \subseteq ids /\ ~p.again /\ Upto(p) <= n
      /\ p.seen = {i \in ids : Table!Rank(ids, i) <= Upto(p)}
  BY DEF CoveredPages
<1> HIDE DEF n
<1>3. q \in Running /\ Sets(p, q, {"total", "pc"}) /\ q.total = n /\ q.pc = "fetch"
  BY <1>1, CountSet
<1> HIDE DEF q
<1>4. q.due = p.due /\ q.again = p.again /\ q.seen = p.seen /\ Upto(q) = Upto(p)
  BY <1>3 DEF Sets, Fields, Upto
<1>5. q.total <= n /\ \A i \in q.due : Table!Rank(ids, i) <= q.total
  <2>1. q.total <= n
    BY <1>1, <1>3
  <2>2. ASSUME NEW i \in q.due PROVE Table!Rank(ids, i) <= q.total
    <3>1. i \in ids
      BY <1>2, <1>4
    <3>2. Table!Rank(ids, i) \in 1..n
      BY <1>1, <3>1
    <3> QED BY <1>1, <1>3, <3>2
  <2> QED BY <2>1, <2>2
<1>6. CoveredPages(q, ids)
  BY <1>2, <1>3, <1>4, <1>5 DEF CoveredPages, n
<1> QED BY <1>6 DEF q, n

LEMMA CoverNext ==
  ASSUME Table!StoreAssumption, NEW g \in Running, g.job.size \in Nat \ {0}, NEW ids \in SUBSET Nat,
         IsFiniteSet(ids),
         g.due \subseteq ids, ~g.again, g.total <= Cardinality(ids),
         \A i \in g.due : Table!Rank(ids, i) <= g.total,
         \A i \in g.seen : i \in ids /\ Table!Rank(ids, i) <= Full(g),
         \A i \in ids : Table!Rank(ids, i) <= Full(g) /\ Table!Rank(ids, i) <= g.total =>
         i \in g.seen
  PROVE  CoveredPages(Table!NextPage(g), ids)
<1> DEFINE q == Table!NextPage(g)
           n == Cardinality(ids)
           full == Full(g)
           total == g.total
           rank(i) == Table!Rank(ids, i)
<1>1. /\ q \in Running /\ Sets(g, q, {"page", "pc"})
      /\ IF full < total THEN q.pc = "count" /\ q.page = g.page + 1 ELSE q.pc = "done"
         /\ q.page = g.page
  BY NextPageSet DEF Full
<1> HIDE DEF q
<1>2. /\ q.job = g.job /\ q.due = g.due /\ q.again = g.again /\ q.seen = g.seen
  BY <1>1 DEF Sets, Fields
<1>3. n \in Nat /\ full \in Nat /\ total \in Nat /\ \A i \in ids : rank(i) \in Nat
  BY RankIs, Products DEF Running
<1>4. /\ total <= n /\ \A i \in g.due : rank(i) <= total
      /\ \A i \in g.seen : i \in ids /\ rank(i) <= full
      /\ \A i \in ids : rank(i) <= full /\ rank(i) <= total => i \in g.seen
  OBVIOUS
<1>5. q.page = g.page + 1 => Upto(q) = full
  BY <1>2, Products
<1>6. CoveredPages(q, ids) <=>
        /\ q.due \subseteq ids /\ ~q.again
        /\ q.pc # "done" => Upto(q) <= n /\ q.seen = {i \in ids : rank(i) <= Upto(q)}
        /\ q.pc \in {"fetch", "process"} => q.total <= n /\ \A i \in q.due : rank(i) <= q.total
        /\ q.pc = "process" =>
             q.data \subseteq InPage(q, ids) /\ \A i \in InPage(q, ids) : rank(i) <= q.total =>
             i \in q.data
        /\ q.pc = "done" => q.due \subseteq q.seen
  BY DEF CoveredPages
<1> HIDE DEF n, full, total, rank
<1>7. CASE full < total
  <2>1. q.pc = "count" /\ Upto(q) = full
    BY <1>1, <1>5, <1>7
  <2>2. full <= n
    BY <1>3, <1>4, <1>7
  <2>3. \A i \in ids : rank(i) <= full <=> i \in g.seen
    BY <1>3, <1>4, <1>7
  <2>4. g.seen = {i \in ids : rank(i) <= full}
    BY <1>4, <2>3
  <2> QED BY <1>2, <1>6, <2>1, <2>2, <2>4 DEF q
<1>8. CASE ~(full < total)
  <2>1. q.pc = "done"
    BY <1>1, <1>8
  <2>2. ASSUME NEW i \in g.due PROVE i \in g.seen
    <3>1. i \in ids /\ rank(i) <= total /\ rank(i) \in Nat
      BY <1>3, <1>4
    <3>2. rank(i) <= full
      BY <1>3, <1>8, <3>1
    <3> QED BY <1>4, <3>1, <3>2
  <2> QED BY <1>2, <1>6, <2>1, <2>2 DEF q
<1> QED BY <1>7, <1>8

LEMMA CoverFetched ==
  ASSUME Table!StoreAssumption, NEW p \in Running, p.job.size \in Nat \ {0}, p.pc = "fetch",
         NEW ids \in SUBSET Nat, IsFiniteSet(ids), CoveredPages(p, ids)
  PROVE  LET data == InPage(p, ids) IN
         CoveredPages(IF data = {} THEN Table!NextPage(p) ELSE Got(p, data), ids)
<1> DEFINE data == InPage(p, ids)
           n == Cardinality(ids)
           upto == Upto(p)
           full == Full(p)
           rank(i) == Table!Rank(ids, i)
<1>1. /\ p.due \subseteq ids /\ ~p.again /\ upto <= n /\ p.total <= n
      /\ p.seen = {i \in ids : rank(i) <= upto} /\ \A i \in p.due : rank(i) <= p.total
  BY DEF CoveredPages
<1>2. /\ data \subseteq ids /\ \A i \in ids : i \in data <=> upto < rank(i) /\ rank(i) <= full
  BY PageIs DEF InPage, Table!PageOf
<1>3. n \in Nat /\ upto \in Nat /\ full \in Nat /\ upto < full /\ \A i \in ids : rank(i) \in Nat
  BY RankIs, Products
<1>4. CASE data = {}
  <2> HIDE DEF upto, full, rank, data
  <2>1. ASSUME NEW i \in p.seen PROVE i \in ids /\ rank(i) <= full
    <3>1. i \in ids /\ rank(i) <= upto
      BY <1>1
    <3>2. rank(i) \in Nat
      BY <1>3, <3>1
    <3> QED BY <1>3, <3>1, <3>2
  <2>2. \A i \in ids : rank(i) <= full => i \in p.seen
    BY <1>1, <1>2, <1>3, <1>4
  <2> HIDE DEF n
  <2>3. CoveredPages(Table!NextPage(p), ids)
    BY <1>1, <2>1, <2>2, CoverNext DEF n, full, rank
  <2> QED BY <1>4, <2>3 DEF data
<1>5. CASE data # {}
  <2> DEFINE q == Got(p, data)
  <2>1. data \in SUBSET Nat
    BY <1>2
  <2> HIDE DEF data
  <2>2. q \in Running /\ Sets(p, q, {"data", "pc"}) /\ q.data = data /\ q.pc = "process"
    BY <2>1, GotSet
  <2> HIDE DEF q
  <2>3. /\ q.due = p.due /\ q.again = p.again /\ q.seen = p.seen /\ q.total = p.total
        /\ Upto(q) = upto /\ InPage(q, ids) = InPage(p, ids)
    BY <2>2 DEF Sets, Fields, Upto, InPage
  <2>4. CoveredPages(q, ids)
    BY <1>1, <2>2, <2>3 DEF CoveredPages, data
  <2> QED BY <1>5, <2>4 DEF q, data
<1> QED BY <1>4, <1>5

LEMMA CoverProcessed ==
  ASSUME Table!StoreAssumption, NEW p \in Running, p.job.size \in Nat \ {0}, p.pc = "process",
         NEW ids \in SUBSET Nat, IsFiniteSet(ids), CoveredPages(p, ids)
  PROVE  CoveredPages(Table!NextPage(Table!Given(p)), ids)
<1> DEFINE g == Table!Given(p)
           upto == Upto(p)
           full == Full(p)
           total == p.total
           rank(i) == Table!Rank(ids, i)
<1>1. /\ p.due \subseteq ids /\ ~p.again /\ total <= Cardinality(ids)
      /\ p.seen = {i \in ids : rank(i) <= upto} /\ \A i \in p.due : rank(i) <= total
      /\ p.data \subseteq InPage(p, ids) /\ \A i \in InPage(p, ids) : rank(i) <= total =>
         i \in p.data
  BY DEF CoveredPages
<1>2. /\ InPage(p, ids) \subseteq ids
      /\ \A i \in ids : i \in InPage(p, ids) <=> upto < rank(i) /\ rank(i) <= full
  BY PageIs DEF InPage, Table!PageOf
<1>3. upto \in Nat /\ full \in Nat /\ upto < full /\ \A i \in ids : rank(i) \in Nat
  BY RankIs, Products
<1>4. /\ g \in Running /\ Sets(p, g, {"seen", "again", "data"}) /\ g.seen = p.seen \cup p.data
      /\ g.again <=> (p.again \/ p.seen \cap p.data # {})
  BY GivenSet
<1> HIDE DEF g
<1>5. g.job = p.job /\ g.due = p.due /\ g.total = total /\ Full(g) = full
  BY <1>4 DEF Sets, Fields, Full
<1> HIDE DEF upto, full, total, rank
<1>6. \A i \in p.data : i \in ids /\ upto < rank(i) /\ rank(i) <= full
  BY <1>1, <1>2
<1>a. ASSUME NEW i \in p.seen PROVE i \in ids /\ rank(i) <= full /\ ~(upto < rank(i))
  <2>1. i \in ids /\ rank(i) <= upto
    BY <1>1
  <2>2. rank(i) \in Nat
    BY <1>3, <2>1
  <2> QED BY <1>3, <2>1, <2>2
<1>7. p.seen \cap p.data = {}
  BY <1>6, <1>a
<1>8. \A i \in g.seen : i \in ids /\ rank(i) <= full
  BY <1>4, <1>6, <1>a
<1>9. ASSUME NEW i \in ids, rank(i) <= full, rank(i) <= total PROVE i \in g.seen
  <2>1. CASE rank(i) <= upto
    <3>1. i \in p.seen
      BY ONLY <1>1, <2>1, i \in ids
    <3> QED BY ONLY <1>4, <3>1
  <2>2. CASE upto < rank(i)
    <3>1. i \in InPage(p, ids) /\ rank(i) <= total
      BY ONLY <1>2, <1>9, <2>2, i \in ids
    <3>2. i \in p.data
      BY ONLY <1>1, <3>1
    <3> QED BY <1>4, <3>2
  <2>3. rank(i) \in Nat /\ upto \in Nat
    BY ONLY <1>3, i \in ids
  <2> QED BY ONLY <2>1, <2>2, <2>3
<1> QED BY <1>1, <1>4, <1>5, <1>7, <1>8, <1>9, CoverNext DEF rank, g

\* What others do to the rows that match, when it is not seen: it adds rows behind them.
LEMMA OpenGrows ==
  ASSUME RowsTyped, RowsTyped', Grown, Undisturbed
  PROVE  /\ Table!Open \in SUBSET Nat /\ Table!Open' \in SUBSET Nat /\ IsFiniteSet(Table!Open')
         /\ Table!Open \subseteq Table!Open'
            /\ \A i \in Table!Open' \ Table!Open : \A k \in Table!Open : k < i
<1>1. /\ Table!Open \subseteq DOMAIN rows /\ Table!Open' \subseteq DOMAIN rows'
      /\ DOMAIN rows \subseteq 1..last /\ DOMAIN rows' \subseteq 1..last' /\ last \in Nat
         /\ last' \in Nat
  BY DEF Table!Open, RowsTyped
<1>2. IsFiniteSet(Table!Open')
  <2>1. IsFiniteSet(1..last')
    BY <1>1, FS_Interval
  <2> QED BY <1>1, <2>1, FS_Subset
<1>3. \A i \in Table!Open' \ Table!Open : i \in (last + 1)..last'
  BY <1>1 DEF Undisturbed, Grown
<1>4. \A k \in Table!Open : k \in 1..last
  BY <1>1
<1> QED BY <1>1, <1>2, <1>3, <1>4 DEF Undisturbed

\* A batch steps in one of four ways, and unless it settles what it gets leaves the rows alone.
LEMMA OwnPages ==
  ASSUME Table!StoreAssumption, RowsInv, JobsInv, PagesInv, NEW c \in Writers, Table!Step(c)
  PROVE  Covered(job'[c], Table!Open')
<1> DEFINE p == job[c]
           q == job'[c]
<1>1. CASE Table!Begin(c)
  <2>1. /\ q.page = 1 /\ q.seen = {} /\ ~q.again /\ q.pc \notin {"fetch", "process", "done"}
           /\ q \in Running
        /\ q.job \in StoreJobs /\ (q.job.op = "batch" => q.due = Table!Open) /\ UNCHANGED rows
    BY <1>1, BeginStep
  <2>2. Table!Open' = Table!Open /\ Table!Open \in SUBSET Nat /\ IsFiniteSet(Table!Open)
    BY <2>1, SomeRows DEF Table!Open, RowsInv, RowsTyped
  <2>3. Cardinality(Table!Open) \in Nat
        /\ \A i \in Table!Open : Table!Rank(Table!Open, i) \in 1..Cardinality(Table!Open)
    BY <2>2, RankIs
  <2> HIDE DEF q
  <2>4. ASSUME q.job.op = "batch" PROVE CoveredPages(q, Table!Open)
    <3>1. q.job.size \in Nat \ {0}
      BY <2>1, <2>4, JobsWanted DEF Wanted
    <3>2. Upto(q) = 0
      BY <2>1, <3>1, Products
    <3>3. \A i \in Table!Open : ~(Table!Rank(Table!Open, i) <= 0)
      BY <2>3
    <3>4. Upto(q) <= Cardinality(Table!Open)
          /\ q.seen = {i \in Table!Open : Table!Rank(Table!Open, i) <= Upto(q)}
      BY <2>1, <2>3, <3>2, <3>3
    <3> QED BY <2>1, <2>4, <3>4 DEF CoveredPages
  <2> QED BY <2>2, <2>4 DEF Covered, q
<1>2. CASE StepOf(c)
  <2> SUFFICES ASSUME q.job.op = "batch", ~q.job.settles, ~q.lost PROVE CoveredPages(q, Table!Open')
    BY DEF Covered
  <2>1. p \in Running /\ JobTyped(p) /\ q.job = p.job /\ p.job.op = "batch" /\ ~p.job.settles
    BY <1>2 DEF StepOf, Goes, JobsInv
  <2>2. p.pc \in {"count", "fetch", "process", "done"}
    BY <2>1 DEF JobTyped, Stages
  <2>3. Table!Count(c) \/ Table!Fetch(c) \/ Table!Process(c)
    BY <2>1, <2>2 DEF Table!Step, Table!Begin, Table!Look, Table!CreateMissing, Table!KeepFound,
       Table!UpdateFound, Table!InsertMany, Table!SaveBatch,
       Table!SaveEach, Table!Create, Table!UpdateMongo, Table!OperatorMongo, Table!EditPostgres,
       Table!ReadBack, Table!UpdateMany, Table!Delete,
       Table!DeleteMany, Table!TxInsert, Table!TxCommit, Table!Asked
  <2>4. p.pc \in {"count", "fetch", "process"} /\ p.job.size \in Nat \ {0}
    <3>1. p.pc # "idle" /\ p.pc \in {"count", "fetch", "process"}
      BY <2>3 DEF Table!Count, Table!Fetch, Table!Process
    <3> QED BY <2>1, <3>1, AtWork DEF Asks, Wanted
  <2>5. Table!Open \in SUBSET Nat /\ IsFiniteSet(Table!Open)
    BY SomeRows DEF Table!Open, RowsInv, RowsTyped
  <2>6. Covered(p, Table!Open) /\ Cardinality(Table!Open) \in Nat
    BY <2>5, RankIs DEF PagesInv
  <2>7. CASE Table!Count(c)
    <3>1. q = CountedAs(p, Cardinality(Table!Open)) /\ UNCHANGED rows /\ p.pc = "count"
      BY <2>7, CountStep DEF Table!Count
    <3>2. q.lost = p.lost
      BY <2>1, <2>6, <3>1, CountSet DEF Sets, Fields
    <3>3. CoveredPages(p, Table!Open)
      BY <2>1, <2>6, <3>2 DEF Covered
    <3>4. CoveredPages(CountedAs(p, Cardinality(Table!Open)), Table!Open)
      BY <2>1, <2>5, <3>1, <3>3, CoverCounted
    <3> QED BY <3>1, <3>4 DEF Table!Open
  <2>8. CASE Table!Fetch(c)
    <3>1. PICK data \in SUBSET Nat :
            /\ q = (IF data = {} THEN Table!NextPage(p) ELSE Got(p, data))
            /\ ~p.lost => data = InPage(p, Table!Open)
      BY <2>8, FetchStep DEF InPage
    <3>2. UNCHANGED rows /\ p.pc = "fetch"
      BY <2>8, FetchStep DEF Table!Fetch
    <3>3. Table!NextPage(p).lost = p.lost /\ Got(p, data).lost = p.lost
      BY <2>1, <3>1, NextPageSet, GotSet DEF Sets, Fields
    <3>4. ~p.lost
      BY <3>1, <3>3
    <3>5. CoveredPages(p, Table!Open)
      BY <2>1, <2>6, <3>4 DEF Covered
    <3> DEFINE page == InPage(p, Table!Open)
    <3>6. CoveredPages(IF page = {} THEN Table!NextPage(p) ELSE Got(p, page), Table!Open)
      BY <2>1, <2>4, <2>5, <3>2, <3>5, CoverFetched
    <3>7. q = IF page = {} THEN Table!NextPage(p) ELSE Got(p, page)
      BY <3>1, <3>4
    <3> QED BY <3>2, <3>6, <3>7 DEF Table!Open
  <2>9. CASE Table!Process(c)
    <3>1. q = Table!NextPage(Table!Given(p)) /\ UNCHANGED rows /\ p.pc = "process"
      BY <2>1, <2>9, ProcessStep DEF Table!Process
    <3>2. Table!Given(p) \in Running /\ Table!Given(p).lost = p.lost
      BY <2>1, GivenSet DEF Sets, Fields
    <3>3. Table!NextPage(Table!Given(p)).lost = p.lost
      BY <3>2, NextPageSet DEF Sets, Fields
    <3>4. CoveredPages(p, Table!Open)
      BY <2>1, <2>6, <3>1, <3>3 DEF Covered
    <3>5. CoveredPages(Table!NextPage(Table!Given(p)), Table!Open)
      BY <2>1, <2>4, <2>5, <3>1, <3>4, CoverProcessed
    <3> QED BY <3>1, <3>5 DEF Table!Open
  <2> QED BY <2>3, <2>7, <2>8, <2>9
<1> QED BY <1>1, <1>2, StepKeeps

LEMMA PagesStep ==
  ASSUME Table!StoreAssumption, RowsInv, JobsInv, PagesInv, NEW c \in Writers, Table!Step(c)
  PROVE  PagesInv'
<1>1. RowsInv' /\ JobsInv' /\ Grown /\ OthersKept(c)
  BY JobsStep
<1>2. ASSUME NEW d \in Writers, d # c PROVE Covered(job'[d], Table!Open')
  <2> SUFFICES ASSUME job'[d].job.op = "batch", ~job'[d].job.settles, ~job'[d].lost
               PROVE  CoveredPages(job'[d], Table!Open')
    BY DEF Covered
  <2>1. job[d] \in Running /\ JobTyped(job[d])
    BY DEF JobsInv
  <2>2. [job[d] EXCEPT !.lost = TRUE].lost = TRUE
    BY <2>1 DEF Running
  <2>3. job'[d] = job[d] /\ Undisturbed
    BY <1>1, <1>2, <2>2 DEF OthersKept
  <2>4. /\ Table!Open \in SUBSET Nat /\ Table!Open' \in SUBSET Nat /\ IsFiniteSet(Table!Open')
        /\ Table!Open \subseteq Table!Open'
           /\ \A i \in Table!Open' \ Table!Open : \A k \in Table!Open : k < i
    BY <1>1, <2>3, OpenGrows DEF RowsInv
  <2>5. CoveredPages(job[d], Table!Open)
    BY <2>3 DEF PagesInv, Covered
  <2>6. job[d].job.size \in Nat \ {0}
    <3>1. job[d].pc # "idle"
      BY <2>1, <2>3 DEF JobTyped, Stages
    <3> QED BY <2>1, <2>3, <3>1, AtWork DEF Asks, Wanted
  <2>7. CoveredPages(job[d], Table!Open')
    BY <2>1, <2>4, <2>5, <2>6, CoverMore
  <2> QED BY <2>3, <2>7
<1>3. \A d \in Writers : Covered(job'[d], Table!Open')
  BY <1>2, OwnPages
<1> QED BY <1>3 DEF PagesInv

------------------------------------------------------------------------------
(* A caller alone *)

\* Who looks up and creates while nobody else has begun makes no second row of a key.
Sole(c) ==
  /\ \A d \in Writers \ {c} : job[d].pc = "idle"
  /\ job[c].pc = "idle" \/ job[c].job.op = "upserts"
Alone(c) ==
  Sole(c) => /\ Distinct
             /\ job[c].pc = "write" /\ job[c].found = 0 =>
                \A i \in DOMAIN rows : rows[i].key # Table!Current(c).key
AloneInv == \A c \in Writers : Alone(c)

LEMMA LookFinds ==
  ASSUME Table!StoreAssumption, RowsInv, JobsInv, NEW c \in Writers, Table!Look(c),
         job'[c].found = 0
  PROVE  \A i \in DOMAIN rows' : rows'[i].key # Table!Current(c)'.key
<1> DEFINE same == {i \in DOMAIN rows : rows[i].key = Table!Current(c).key}
<1>1. PICK i \in IF same = {} THEN {0}
         ELSE same : job' = [job EXCEPT ![c].found = i, ![c].pc = "write"]
  BY DEF Table!Look
<1>2. job[c] \in Running /\ job \in [Writers -> Running]
  BY DEF JobsInv
<1>3. job'[c].found = i /\ UNCHANGED rows
  BY <1>1, <1>2 DEF Running, Table!Look
<1>4. same = {}
  <2>1. 0 \notin DOMAIN rows
    BY DEF RowsInv, RowsTyped
  <2> QED BY <1>1, <1>3, <2>1
<1>5. job'[c].at = job[c].at /\ job'[c].job = job[c].job
  BY LookStep DEF StepOf, Goes
<1>6. Table!Current(c)' = Table!Current(c)
  BY <1>5 DEF Table!Current
<1> QED BY <1>3, <1>4, <1>6

LEMMA AloneStep ==
  ASSUME Table!StoreAssumption, RowsInv, JobsInv, AloneInv, NEW c \in Writers, Table!Step(c)
  PROVE  AloneInv'
<1>1. /\ RowsInv' /\ OthersKept(c) /\ job[c] \in Running /\ JobTyped(job[c])
         /\ (Table!Begin(c) \/ StepOf(c))
  BY JobsStep, StepKeeps DEF JobsInv
<1>2. job'[c].pc # "idle"
  BY <1>1, BeginStep DEF StepOf, Goes
<1>3. ASSUME NEW d \in Writers, d # c PROVE ~Sole(d)'
  BY <1>2, <1>3 DEF Sole
<1>4. ASSUME Sole(c)'
      PROVE  /\ Distinct'
             /\ job'[c].pc = "write" /\ job'[c].found = 0 =>
                \A i \in DOMAIN rows' : rows'[i].key # Table!Current(c)'.key
  <2>1. ASSUME NEW d \in Writers \ {c} PROVE job[d].pc = "idle"
    <3>1. job'[d].pc = "idle" /\ (job'[d] = job[d] \/ job'[d] = [job[d] EXCEPT !.lost = TRUE])
      BY <1>1, <1>4 DEF OthersKept, Sole
    <3>2. job[d] \in Running
      BY DEF JobsInv
    <3>3. [job[d] EXCEPT !.lost = TRUE].pc = job[d].pc
      BY <3>2 DEF Running
    <3> QED BY <3>1, <3>3
  <2>2. CASE Table!Begin(c)
    <3>1. job[c].pc = "idle" /\ UNCHANGED rows /\ job'[c].pc # "write"
      BY <2>2, BeginStep
    <3>2. Distinct
      BY <2>1, <3>1 DEF AloneInv, Alone, Sole
    <3> QED BY <3>1, <3>2 DEF Distinct
  <2>3. CASE StepOf(c)
    <3>1. job[c].job.op = "upserts"
      BY <1>2, <1>4, <2>3 DEF Sole, StepOf, Goes
    <3>2. Alone(c) /\ Sole(c)
      BY <2>1, <3>1 DEF AloneInv, Sole
    <3>3. Distinct
      BY <3>2 DEF Alone
    <3>4. job[c].pc \in {"look", "write", "done"}
      BY <1>1, <3>1 DEF JobTyped, Stages
    <3>5. CASE Table!Look(c)
      <4>1. UNCHANGED rows
        BY <3>5 DEF Table!Look
      <4>2. Distinct'
        BY <3>3, <4>1 DEF Distinct
      <4> QED BY <3>5, <4>2, LookFinds
    <3>6. CASE Table!CreateMissing(c)
      <4>1. job'[c].pc # "write"
        BY <3>6, CreateMissingStep
      <4>2. Distinct'
        <5>1. \A i \in DOMAIN rows : rows[i].key # Table!Current(c).key
          BY <3>2, <3>6 DEF Alone, Table!CreateMissing
        <5>2. UNCHANGED rows \/ Table!Insert(Table!Current(c))
          BY <3>6 DEF Table!CreateMissing
        <5>3. Read(Table!Current(c))
          <6>1. job[c].pc = "write"
            BY <3>6 DEF Table!CreateMissing
          <6>2. At(job[c], dialect)
            BY <6>1, CallerAt
          <6> QED BY <6>1, <6>2, <3>1 DEF At, Asks, Table!Current
        <5>4. CASE UNCHANGED rows
          BY <3>3, <5>4 DEF Distinct
        <5>5. CASE Table!Insert(Table!Current(c))
          BY <3>3, <5>1, <5>3, <5>5, InsertedOne DEF RowsInv
        <5> QED BY <5>2, <5>4, <5>5
      <4> QED BY <4>1, <4>2
    <3>7. CASE Table!KeepFound(c)
      <4>1. UNCHANGED rows /\ job'[c].pc # "write"
        BY <3>7, KeepStep DEF Table!KeepFound
      <4> QED BY <3>3, <4>1 DEF Distinct
    <3>8. CASE Table!UpdateFound(c)
      BY <3>3, <3>8, UpdateFoundStep
    <3> QED BY <3>4, <3>1, <3>5, <3>6, <3>7, <3>8 DEF Table!Step, Table!Begin, Table!InsertMany,
           Table!SaveBatch,
       Table!SaveEach, Table!Count, Table!Fetch, Table!Process, Table!Create, Table!UpdateMongo,
       Table!OperatorMongo, Table!EditPostgres, Table!ReadBack,
       Table!UpdateMany, Table!Delete, Table!DeleteMany, Table!TxInsert, Table!TxCommit, Table!Asked
  <2> QED BY <1>1, <2>2, <2>3
<1>5. Alone(c)'
  BY <1>4 DEF Alone
<1> QED BY <1>3, <1>5 DEF AloneInv, Alone

------------------------------------------------------------------------------
(* What the tables keep *)

StoreInv == RowsInv /\ JobsInv /\ PagesInv /\ AloneInv

LEMMA TableStarts == ASSUME Table!StoreAssumption, Table!Init PROVE StoreInv
<1>1. PICK start \in FirstRows : rows = start /\ last = Len(rows)
         /\ job = [c \in Writers |-> Table!Progress(Table!NoJob, "idle")]
  BY DEF Table!Init
<1>2. /\ start \in Seq(Table!Records)
      /\ \A i, k \in DOMAIN start : start[i].key = start[k].key => i = k
  BY DEF Table!StoreAssumption
<1>3. \A r \in Table!Records : Read(r)
  BY DEF Table!Records, Table!RowOf, Read
<1>4. RowsInv /\ Distinct
  <2>1. Len(start) \in Nat /\ DOMAIN start = 1..Len(start)
        /\ \A i \in 1..Len(start) : start[i] \in Table!Records
    BY <1>2
  <2> QED BY <1>1, <1>2, <1>3, <2>1 DEF RowsInv, RowsTyped, Distinct
<1> DEFINE p == Table!Progress(Table!NoJob, "idle")
<1>5. p.job = Table!NoJob /\ p.pc = "idle" /\ p.answer = "" /\ Table!NoJob.op = "none"
  BY DEF Table!Progress, Table!NoJob, Table!Job
<1>6. p \in Running
  <2>1. /\ "" \in Replies /\ 1 \in Nat \ {0} /\ 0 \in Nat /\ {} \in SUBSET Nat /\ FALSE \in BOOLEAN
        /\ "idle" \in Pcs /\ Table!NoJob \in StoreJobs \cup {Table!NoJob}
    BY DEF Replies, Pcs
  <2> QED BY <2>1, Zenon DEF Table!Progress, Running
<1> HIDE DEF p
<1>7. JobTyped(p)
  BY <1>5, <1>6 DEF JobTyped, Stages
<1>8. Reports(p, dialect, DOMAIN rows, last)
  BY <1>5 DEF Reports, Counts, Answers, ReadsBack, Bulk
<1>9. \A c \in Writers : job[c] = p
  BY <1>1 DEF p
<1>10. JobsInv
  BY <1>1, <1>6, <1>7, <1>8, <1>9 DEF JobsInv, p
<1>11. PagesInv
  BY <1>5, <1>9 DEF PagesInv, Covered
<1>12. AloneInv
  BY <1>4, <1>5, <1>9 DEF AloneInv, Alone
<1> QED BY <1>4, <1>10, <1>11, <1>12 DEF StoreInv

LEMMA TableStep == ASSUME Table!StoreAssumption, StoreInv, [Table!Next]_(Table!vars) PROVE StoreInv'
<1>1. CASE Table!Next
  <2>1. CASE \E c \in Writers : Table!Step(c)
    BY <2>1, JobsStep, PagesStep, AloneStep DEF StoreInv
  <2>2. CASE UNCHANGED Table!vars
    BY <2>2 DEF Table!vars, StoreInv, RowsInv, RowsTyped, Distinct, JobsInv, PagesInv, Table!Open,
       AloneInv, Alone, Sole, Table!Current
  <2> QED BY <1>1, <2>1, <2>2 DEF Table!Next, Table!Finished
<1>2. CASE UNCHANGED Table!vars
  BY <1>2 DEF Table!vars, StoreInv, RowsInv, RowsTyped, Distinct, JobsInv, PagesInv, Table!Open,
     AloneInv, Alone, Sole, Table!Current
<1> QED BY <1>1, <1>2

\* What is distinct is there once.
LEMMA OnceAtMost ==
  ASSUME Distinct, NEW key
  PROVE  Cardinality({i \in DOMAIN rows : rows[i].key = key}) <= 1
<1> DEFINE same == {i \in DOMAIN rows : rows[i].key = key}
<1>1. same = {} \/ \E i \in same : same = {i}
  BY DEF Distinct
<1> HIDE DEF same
<1>2. Cardinality(same) = 0 \/ Cardinality(same) = 1
  BY <1>1, FS_EmptySet, FS_Singleton
<1> QED BY <1>2 DEF same

LEMMA TableOnce == ASSUME StoreInv PROVE Table!OneRowPerKey
<1>1. unique => Distinct
  BY DEF StoreInv, RowsInv
<1>2. ASSUME NEW c \in Writers, job[c].job.op = "upserts", \A d \in Writers \ {c} : job[d].pc = "idle"
      PROVE Distinct
  BY <1>2 DEF StoreInv, AloneInv, Alone, Sole
<1>3. ASSUME Distinct
      PROVE  \A key : Table!Cardinality({i \in DOMAIN rows : rows[i].key = key}) <= 1
  BY <1>3, OnceAtMost, TableCard
<1> QED BY <1>1, <1>2, <1>3 DEF Table!OneRowPerKey, Distinct

LEMMA TableTruthful == ASSUME StoreInv PROVE Table!ReportsTruthful
<1> SUFFICES ASSUME NEW c \in Writers
             PROVE  LET p == job[c]
                        n == Len(p.job.records)
                        bulk == p.job.op \in {"upserts", "createMany"} IN
                    /\ dialect = "mongo" /\ (bulk \/ p.job.op = "updateMany") =>
                       p.updated = p.changed
                    /\ bulk /\ (dialect = "postgres" \/ \A r \in Table!Range(p.job.records) : r.status # "bad") =>
                         /\ p.inserted = p.made
                         /\ p.pc = "done" => p.job.keep \/ p.inserted + p.updated + p.failed = n
                    /\ p.answer = "done" => p.changed > 0 \/ p.made > 0 \/ p.updated > 0
                    /\ p.answer = "threw" => p.changed = 0 /\ p.made = 0
                    /\ p.job.op = "transaction" /\ p.answer = "done" => p.made = n
  BY DEF Table!ReportsTruthful
<1>1. Counts(job[c], dialect) /\ Answers(job[c])
  BY DEF StoreInv, JobsInv, Reports
<1> QED BY <1>1 DEF Counts, Answers, Bulk, Valid, Handled, Size

LEMMA TableCovers == ASSUME StoreInv PROVE Table!BatchesCover
  BY DEF StoreInv, PagesInv, Covered, CoveredPages, Table!BatchesCover

------------------------------------------------------------------------------
(* Money *)

\* What holds of 0 and passes on holds of every number: the set of the numbers it does not
\* hold of would have a least one.
LEMMA Induction ==
  ASSUME NEW S, 0 \in S, \A n \in Nat : n \in S => n + 1 \in S
  PROVE  Nat \subseteq S
<1> DEFINE T == Nat \ S
           R == {ss \in Nat \X Nat : ss[1] < ss[2]}
<1>1. SUFFICES ASSUME T # {} PROVE FALSE
  OBVIOUS
<1>2. T \subseteq Nat
  OBVIOUS
<1>3. IsWellFoundedOn(R, Nat)
  BY NatLessThanWellFounded DEF OpToRel
<1> HIDE DEF T, R
<1>4. PICK x \in T : \A y \in T : ~ (<<y, x>> \in R)
  BY <1>1, <1>2, <1>3, WFMin
<1>5. x \in Nat /\ x # 0
  BY <1>4 DEF T
<1>6. x - 1 \in Nat /\ x - 1 < x
  BY <1>5
<1>7. x - 1 \notin T
  BY <1>4, <1>5, <1>6 DEF R
<1> QED BY <1>4, <1>5, <1>6, <1>7 DEF T

\* Two sums that grow alike for n steps differ by as much after them as before.
LEMMA GrowAlike ==
  ASSUME NEW a, NEW b, NEW n \in Nat,
         \A i \in 0..n : a[i] \in Int /\ b[i] \in Int,
         \A i \in 1..n : a[i] - a[i - 1] = b[i] - b[i - 1]
  PROVE  a[n] - a[0] = b[n] - b[0]
<1> DEFINE S == {i \in Nat : i <= n => a[i] - a[0] = b[i] - b[0]}
<1>1. 0 \in S
  OBVIOUS
<1>2. ASSUME NEW i \in Nat, i \in S PROVE i + 1 \in S
  <2>1. SUFFICES ASSUME i + 1 <= n PROVE a[i + 1] - a[0] = b[i + 1] - b[0]
    OBVIOUS
  <2>2. i \in 0..n /\ i + 1 \in 1..n /\ i + 1 \in 0..n /\ 0 \in 0..n /\ (i + 1) - 1 = i
    BY <2>1
  <2>3. a[i] - a[0] = b[i] - b[0]
    BY <1>2, <2>1
  <2>4. a[i + 1] - a[i] = b[i + 1] - b[i]
    BY <2>2
  <2>5. /\ a[0] \in Int /\ b[0] \in Int /\ a[i] \in Int /\ b[i] \in Int
        /\ a[i + 1] \in Int /\ b[i + 1] \in Int
    BY <2>2
  <2> QED BY <2>3, <2>4, <2>5
<1>3. Nat \subseteq S
  <2> HIDE DEF S
  <2> QED BY <1>1, <1>2, Induction
<1> QED BY <1>3

\* What a purse holds.
Coins == [amount : Int, currency : Currencies]

\* A sum up to n exists: it is extended by one amount after the other.
LEMMA SumsExist ==
  ASSUME NEW ms \in Seq(Coins), NEW n \in Nat, n <= Len(ms)
  PROVE  \E f : f = [i \in 0..n |-> IF i = 0 THEN 0 ELSE f[i - 1] + ms[i].amount]
<1> DEFINE Sum(f, m) == f = [i \in 0..m |-> IF i = 0 THEN 0 ELSE f[i - 1] + ms[i].amount]
           S == {m \in Nat : \E f : Sum(f, m)}
<1>1. 0 \in S
  <2>1. Sum([i \in 0..0 |-> 0], 0)
    OBVIOUS
  <2> HIDE DEF Sum
  <2> QED BY <2>1
<1>2. ASSUME NEW m \in Nat, m \in S PROVE m + 1 \in S
  <2>1. PICK f : Sum(f, m)
    BY <1>2
  <2> DEFINE g == [i \in 0..(m + 1) |-> IF i = m + 1 THEN f[m] + ms[m + 1].amount ELSE f[i]]
  <2>2. ASSUME NEW i \in 0..(m + 1)
        PROVE  g[i] = IF i = 0 THEN 0 ELSE g[i - 1] + ms[i].amount
    BY <2>1
  <2>3. Sum(g, m + 1)
    BY <2>2
  <2> HIDE DEF Sum, g
  <2> QED BY <2>3
<1>3. Nat \subseteq S
  <2> HIDE DEF S
  <2> QED BY <1>1, <1>2, Induction
<1> QED BY <1>3

\* Sums: it begins with nothing and grows by one amount at a time.
LEMMA SumsGrow ==
  ASSUME NEW ms \in Seq(Coins)
  PROVE  /\ Cash!Sums(ms)[0] = 0
         /\ \A i \in 1..Len(ms) : Cash!Sums(ms)[i] = Cash!Sums(ms)[i - 1] + ms[i].amount
         /\ \A i \in 0..Len(ms) : Cash!Sums(ms)[i] \in Int
<1> DEFINE f == Cash!Sums(ms)  n == Len(ms)
<1>1. f = [i \in 0..n |-> IF i = 0 THEN 0 ELSE f[i - 1] + ms[i].amount]
  <2>1. n \in Nat /\ n <= Len(ms)
    OBVIOUS
  <2>2. \E g : g = [i \in 0..n |-> IF i = 0 THEN 0 ELSE g[i - 1] + ms[i].amount]
    BY <2>1, SumsExist
  <2> QED BY ONLY <2>2 DEF Cash!Sums
<1> HIDE DEF f
<1>2. f[0] = 0 /\ \A i \in 1..n : f[i] = f[i - 1] + ms[i].amount
  BY <1>1
<1> DEFINE S == {i \in Nat : i <= n => f[i] \in Int}
<1>3. 0 \in S
  BY <1>2
<1>4. ASSUME NEW i \in Nat, i \in S PROVE i + 1 \in S
  <2>1. SUFFICES ASSUME i + 1 <= n PROVE f[i + 1] \in Int
    OBVIOUS
  <2>2. f[i] \in Int /\ f[i + 1] = f[i] + ms[i + 1].amount
    BY <2>1, <1>2, <1>4
  <2>3. ms[i + 1].amount \in Int
    <3>1. i + 1 \in 1..Len(ms)
      BY <2>1
    <3>2. ms[i + 1] \in Coins
      BY ONLY <3>1, ms \in Seq(Coins)
    <3> QED BY ONLY <3>2 DEF Coins
  <2> QED BY <2>2, <2>3
<1>5. Nat \subseteq S
  <2> HIDE DEF S
  <2> QED BY <1>3, <1>4, Induction
<1> QED BY <1>2, <1>5 DEF f

LEMMA CoinsIn ==
  ASSUME NEW s \in Seq(Coins), NEW i \in 1..Len(s)
  PROVE  s[i] \in Coins /\ s[i].amount \in Int
<1>1. s[i] \in Coins
  OBVIOUS
<1> QED BY ONLY <1>1 DEF Coins

LEMMA CoinsJoined ==
  ASSUME NEW s \in Seq(Coins), NEW t \in Seq(Coins)
  PROVE  /\ s \o t \in Seq(Coins) /\ Len(s \o t) = Len(s) + Len(t)
         /\ Len(s) \in Nat /\ Len(t) \in Nat
         /\ \A i \in 1..Len(s) : (s \o t)[i] = s[i]
         /\ \A i \in 1..Len(t) : (s \o t)[Len(s) + i] = t[i]
OBVIOUS

\* Amounts side by side add up to the sum of both.
LEMMA TotalJoined ==
  ASSUME NEW s \in Seq(Coins), NEW t \in Seq(Coins)
  PROVE  /\ s \o t \in Seq(Coins)
         /\ Cash!TotalOf(s \o t) = Cash!TotalOf(s) + Cash!TotalOf(t)
<1> DEFINE d == s \o t  m == Len(s)  n == Len(t)
           a == Cash!Sums(s)  b == Cash!Sums(t)  c == Cash!Sums(d)
<1>1. d \in Seq(Coins) /\ Len(d) = m + n
  BY CoinsJoined
<1>2. /\ m \in Nat /\ n \in Nat
      /\ \A i \in 1..m : s[i].amount = d[i].amount /\ s[i].amount \in Int
      /\ \A i \in 1..n : t[i].amount = d[m + i].amount /\ t[i].amount \in Int
  BY CoinsJoined, CoinsIn
<1> HIDE DEF d
<1>3. Cash!TotalOf(s) = a[m] /\ Cash!TotalOf(t) = b[n] /\ Cash!TotalOf(d) = c[m + n]
  BY <1>1 DEF Cash!TotalOf
<1>4. /\ a[0] = 0 /\ \A i \in 1..m : a[i] = a[i - 1] + s[i].amount
      /\ \A i \in 0..m : a[i] \in Int
  BY SumsGrow
<1>5. /\ b[0] = 0 /\ \A i \in 1..n : b[i] = b[i - 1] + t[i].amount
      /\ \A i \in 0..n : b[i] \in Int
  BY SumsGrow
<1>6. /\ c[0] = 0 /\ \A i \in 1..(m + n) : c[i] = c[i - 1] + d[i].amount
      /\ \A i \in 0..(m + n) : c[i] \in Int
  BY <1>1, SumsGrow
<1> HIDE DEF a, b, c, m, n
<1>7. ASSUME NEW i \in 1..m PROVE c[i] - c[i - 1] = a[i] - a[i - 1]
  <2>1. i \in 1..(m + n) /\ i - 1 \in 0..m /\ i - 1 \in 0..(m + n)
    BY ONLY <1>2, i \in 1..m
  <2>2. /\ c[i] = c[i - 1] + d[i].amount /\ a[i] = a[i - 1] + s[i].amount
        /\ c[i - 1] \in Int /\ a[i - 1] \in Int
    BY ONLY <1>4, <1>6, <2>1, i \in 1..m
  <2>3. s[i].amount = d[i].amount /\ s[i].amount \in Int
    BY ONLY <1>2, i \in 1..m
  <2> QED BY ONLY <2>2, <2>3
<1>8. c[m] - c[0] = a[m] - a[0]
  <2>1. m \in Nat /\ \A i \in 0..m : c[i] \in Int /\ a[i] \in Int
    BY ONLY <1>2, <1>4, <1>6
  <2> QED BY ONLY <2>1, <1>7, GrowAlike
<1>9. c[m + n] - c[m] = b[n] - b[0]
  <2> DEFINE e == [i \in 0..n |-> c[m + i]]
  <2>1. \A i \in 0..n : e[i] \in Int /\ b[i] \in Int
    BY ONLY <1>2, <1>5, <1>6
  <2>2. ASSUME NEW i \in 1..n PROVE e[i] - e[i - 1] = b[i] - b[i - 1]
    <3> DEFINE k == m + i
    <3>1. /\ k \in 1..(m + n) /\ k - 1 \in 0..(m + n) /\ i - 1 \in 0..n
          /\ e[i] = c[k] /\ e[i - 1] = c[k - 1]
      BY ONLY <1>2, i \in 1..n
    <3>2. d[k].amount = t[i].amount /\ t[i].amount \in Int
      BY ONLY <1>2, i \in 1..n
    <3> HIDE DEF e, k
    <3>3. c[k] = c[k - 1] + d[k].amount /\ c[k - 1] \in Int
      BY ONLY <1>6, <3>1
    <3>4. b[i] = b[i - 1] + t[i].amount /\ b[i - 1] \in Int
      BY ONLY <1>5, <3>1, i \in 1..n
    <3> QED BY ONLY <3>1, <3>2, <3>3, <3>4
  <2>3. e[n] = c[m + n] /\ e[0] = c[m] /\ n \in Nat
    BY ONLY <1>2
  <2> HIDE DEF e
  <2>4. e[n] - e[0] = b[n] - b[0]
    BY ONLY <2>1, <2>2, <2>3, GrowAlike
  <2> QED BY ONLY <2>3, <2>4
<1>10. a[m] \in Int /\ b[n] \in Int /\ c[m] \in Int /\ c[m + n] \in Int
  BY ONLY <1>2, <1>4, <1>5, <1>6
<1>11. c[m + n] = a[m] + b[n]
  BY ONLY <1>4, <1>5, <1>6, <1>8, <1>9, <1>10
<1> QED BY ONLY <1>1, <1>3, <1>11 DEF d

LEMMA TotalNumber == ASSUME NEW s \in Seq(Coins) PROVE Cash!TotalOf(s) \in Int
<1>1. Len(s) \in 0..Len(s)
  OBVIOUS
<1> QED BY <1>1, SumsGrow DEF Cash!TotalOf

LEMMA TotalOfOne ==
  ASSUME NEW x \in Coins
  PROVE  <<x>> \in Seq(Coins) /\ Cash!TotalOf(<<x>>) = x.amount
<1> DEFINE s == <<x>>
<1>1. s \in Seq(Coins) /\ Len(s) = 1 /\ s[1] = x /\ 1 \in 1..1
  OBVIOUS
<1>2. x.amount \in Int
  BY DEF Coins
<1>3. Cash!TotalOf(s) = Cash!Sums(s)[1]
  BY <1>1 DEF Cash!TotalOf
<1> HIDE DEF s
<1>4. Cash!Sums(s)[0] = 0 /\ Cash!Sums(s)[1] = Cash!Sums(s)[1 - 1] + s[1].amount
  BY <1>1, SumsGrow
<1> QED BY <1>1, <1>2, <1>3, <1>4 DEF s

\* RemoveAt: what is taken out is what is missing.
LEMMA TotalWithout ==
  ASSUME NEW s \in Seq(Coins), NEW i \in 1..Len(s)
  PROVE  /\ Cash!RemoveAt(s, i) \in Seq(Coins)
         /\ Len(Cash!RemoveAt(s, i)) = Len(s) - 1
         /\ \A j \in 1..(i - 1) : Cash!RemoveAt(s, i)[j] = s[j]
         /\ Cash!TotalOf(s) = Cash!TotalOf(Cash!RemoveAt(s, i)) + s[i].amount
<1> DEFINE x == SubSeq(s, 1, i - 1)  y == SubSeq(s, i + 1, Len(s))  z == <<s[i]>>
<1>0. i \in 1..Len(s) /\ Len(s) \in Nat /\ i \in Nat
  OBVIOUS
<1>1. /\ x \in Seq(Coins) /\ Len(x) = i - 1 /\ \A j \in 1..(i - 1) : x[j] = s[j]
      /\ y \in Seq(Coins) /\ Len(y) = Len(s) - i /\ \A j \in 1..(Len(s) - i) : y[j] = s[i + j]
  OBVIOUS
<1>2. s[i] \in Coins /\ s[i].amount \in Int
  BY CoinsIn
<1>3. z \in Seq(Coins) /\ Cash!TotalOf(z) = s[i].amount /\ Len(z) = 1 /\ z[1] = s[i]
  BY <1>2, TotalOfOne
<1>4. Cash!RemoveAt(s, i) = x \o y
  BY DEF Cash!RemoveAt
<1> HIDE DEF x, y, z
<1>5. x \o y \in Seq(Coins) /\ Len(x \o y) = Len(s) - 1 /\ \A j \in 1..(i - 1) : (x \o y)[j] = s[j]
  <2> DEFINE u == x \o y
  <2>1. u \in Seq(Coins) /\ Len(u) = Len(x) + Len(y) /\ \A j \in 1..Len(x) : u[j] = x[j]
    BY ONLY <1>1, CoinsJoined
  <2> HIDE DEF u
  <2>2. u \in Seq(Coins) /\ Len(u) = Len(s) - 1 /\ \A j \in 1..(i - 1) : u[j] = s[j]
    BY ONLY <1>0, <1>1, <2>1
  <2> QED BY ONLY <2>2 DEF u
<1>6. s = (x \o z) \o y
  <2> DEFINE w == x \o z  v == w \o y
  <2>0. /\ w \in Seq(Coins) /\ Len(w) = Len(x) + Len(z) /\ \A j \in 1..Len(x) : w[j] = x[j]
        /\ \A j \in 1..Len(z) : w[Len(x) + j] = z[j]
    BY ONLY <1>1, <1>3, CoinsJoined
  <2> HIDE DEF w
  <2>1. w \in Seq(Coins) /\ Len(w) = i /\ \A j \in 1..(i - 1) : w[j] = s[j]
    BY ONLY <1>0, <1>1, <1>3, <2>0
  <2>2. w[i] = s[i]
    <3>1. 1 \in 1..Len(z) /\ Len(x) + 1 = i
      BY ONLY <1>0, <1>1, <1>3
    <3> QED BY ONLY <1>3, <2>0, <3>1
  <2>5. /\ v \in Seq(Coins) /\ Len(v) = Len(w) + Len(y) /\ \A j \in 1..Len(w) : v[j] = w[j]
        /\ \A j \in 1..Len(y) : v[Len(w) + j] = y[j]
    BY ONLY <1>1, <2>1, CoinsJoined
  <2> HIDE DEF v
  <2>3. /\ v \in Seq(Coins) /\ Len(v) = Len(s) /\ \A j \in 1..i : v[j] = w[j]
        /\ \A j \in 1..(Len(s) - i) : v[i + j] = y[j]
    BY ONLY <1>0, <1>1, <2>1, <2>5
  <2>4. ASSUME NEW j \in 1..Len(s) PROVE v[j] = s[j]
    <3>1. CASE j < i
      BY ONLY <1>0, <2>1, <2>3, <3>1, j \in 1..Len(s)
    <3>2. CASE j = i
      BY ONLY <1>0, <2>2, <2>3, <3>2
    <3>3. CASE j > i
      <4>1. j - i \in 1..(Len(s) - i) /\ i + (j - i) = j
        BY ONLY <1>0, <3>3, j \in 1..Len(s)
      <4>2. v[i + (j - i)] = y[j - i]
        BY ONLY <2>3, <4>1
      <4>3. y[j - i] = s[i + (j - i)]
        BY ONLY <1>1, <4>1
      <4> QED BY ONLY <4>1, <4>2, <4>3
    <3> QED BY ONLY <1>0, <3>1, <3>2, <3>3, j \in 1..Len(s)
  <2>6. v = s
    BY ONLY <2>3, <2>4, s \in Seq(Coins)
  <2> QED BY <2>6 DEF v, w
<1>7. x \o z \in Seq(Coins) /\ Cash!TotalOf(x \o z) = Cash!TotalOf(x) + s[i].amount
  BY ONLY <1>1, <1>3, TotalJoined
<1>8. Cash!TotalOf(s) = (Cash!TotalOf(x) + s[i].amount) + Cash!TotalOf(y)
  BY ONLY <1>1, <1>6, <1>7, TotalJoined
<1>9. Cash!TotalOf(x \o y) = Cash!TotalOf(x) + Cash!TotalOf(y)
  BY ONLY <1>1, TotalJoined
<1>10. Cash!TotalOf(x) \in Int /\ Cash!TotalOf(y) \in Int
  BY <1>1, TotalNumber
<1>11. Cash!TotalOf(s) = Cash!TotalOf(x \o y) + s[i].amount
  BY ONLY <1>2, <1>8, <1>9, <1>10
<1> QED BY ONLY <1>4, <1>5, <1>11

\* splitMoney: the first parts take the remainder, so that the parts are the whole.
LEMMA TotalSplit ==
  ASSUME NEW x \in Coins, NEW parts \in Nat \ {0}
  PROVE  /\ Cash!SplitMoney(x, parts) \in Seq(Coins)
         /\ Cash!TotalOf(Cash!SplitMoney(x, parts)) = x.amount
<1> DEFINE base == x.amount \div parts
           rest == x.amount - base * parts
           s == Cash!SplitMoney(x, parts)
           c == Cash!Sums(s)
           b == [i \in 0..parts |-> i * base + IF i <= rest THEN i ELSE rest]
<1>1. x.amount \in Int /\ x.currency \in Currencies
  BY DEF Coins
<1>2. base \in Int /\ rest \in 0..(parts - 1)
  BY <1>1
<1>3. /\ s \in Seq(Coins) /\ Len(s) = parts
      /\ \A i \in 1..parts : s[i].amount = base + IF i <= rest THEN 1 ELSE 0
  <2>1. s = [i \in 1..parts |-> [amount |-> base + (IF i <= rest THEN 1 ELSE 0), currency |-> x.currency]]
    BY DEF Cash!SplitMoney, Cash!MoneyOf
  <2> HIDE DEF s, base, rest
  <2>2. s \in [1..parts -> Coins]
    BY <1>1, <1>2, <2>1 DEF Coins
  <2> QED BY <2>1, <2>2
<1>4. x.amount = base * parts + rest
  BY <1>1, <1>2
<1>5. Cash!TotalOf(s) = c[parts]
  BY <1>3 DEF Cash!TotalOf
<1> HIDE DEF base, rest, s
<1>6. /\ c[0] = 0 /\ \A i \in 1..parts : c[i] = c[i - 1] + s[i].amount
      /\ \A i \in 0..parts : c[i] \in Int
  BY <1>3, SumsGrow
<1> HIDE DEF c
<1>7. \A i \in 0..parts : b[i] \in Int
  BY <1>2
<1>8. ASSUME NEW i \in 1..parts PROVE b[i] - b[i - 1] = base + IF i <= rest THEN 1 ELSE 0
  <2>1. i * base = (i - 1) * base + base
    BY <1>2
  <2>2. i \in Int /\ i - 1 \in 0..parts /\ i \in 0..parts /\ (i - 1) * base \in Int
    BY <1>2
  <2> QED BY <1>2, <2>1, <2>2
<1>9. b[0] = 0 /\ b[parts] = x.amount
  BY <1>1, <1>2, <1>4
<1> HIDE DEF b
<1>10. c[parts] - c[0] = b[parts] - b[0]
  <2>1. \A i \in 0..parts : c[i] \in Int /\ b[i] \in Int
    BY ONLY <1>6, <1>7
  <2>2. \A i \in 1..parts : c[i] - c[i - 1] = b[i] - b[i - 1]
    <3>1. ASSUME NEW i \in 1..parts
          PROVE  c[i] = c[i - 1] + (b[i] - b[i - 1]) /\ c[i - 1] \in Int /\ c[i] \in Int
      <4>1. i \in 0..parts /\ i - 1 \in 0..parts
        OBVIOUS
      <4> QED BY ONLY <4>1, <1>3, <1>6, <1>8, i \in 1..parts
    <3>2. ASSUME NEW i \in 1..parts PROVE b[i] - b[i - 1] \in Int
      BY <1>2, <1>8
    <3> QED BY ONLY <3>1, <3>2
  <2> QED BY ONLY parts \in Nat \ {0}, <2>1, <2>2, GrowAlike
<1>11. c[parts] \in Int
  BY <1>6
<1> QED BY ONLY <1>1, <1>3, <1>5, <1>6, <1>9, <1>10, <1>11 DEF s

MoneyInv == purse \in Seq(Coins)

LEMMA MoneyStarts == ASSUME Cash!MoneyAssumption, Cash!Init PROVE MoneyInv
BY DEF Cash!MoneyAssumption, Cash!Init, Cash!MoneyOf, MoneyInv, Coins

\* Split: the parts for the whole.
LEMMA MoneySplit ==
  ASSUME Cash!MoneyAssumption, MoneyInv, NEW i \in 1..Len(purse), NEW parts \in Parts, Cash!Split(i, parts)
  PROVE  MoneyInv' /\ Cash!TotalOf(purse') = Cash!TotalOf(purse)
<1> DEFINE r == Cash!RemoveAt(purse, i)  s == Cash!SplitMoney(purse[i], parts)
<1>1. purse \in Seq(Coins) /\ purse[i] \in Coins /\ purse[i].amount \in Int /\ parts \in Nat \ {0}
  BY CoinsIn DEF MoneyInv, Cash!MoneyAssumption
<1>2. purse' = r \o s
  BY DEF Cash!Split, Cash!Without
<1>3. r \in Seq(Coins) /\ Cash!TotalOf(purse) = Cash!TotalOf(r) + purse[i].amount
  BY ONLY <1>1, i \in 1..Len(purse), TotalWithout
<1>4. s \in Seq(Coins) /\ Cash!TotalOf(s) = purse[i].amount
  BY ONLY <1>1, TotalSplit
<1> HIDE DEF r, s
<1>5. r \o s \in Seq(Coins) /\ Cash!TotalOf(r \o s) = Cash!TotalOf(r) + Cash!TotalOf(s)
  BY ONLY <1>3, <1>4, TotalJoined
<1> QED BY ONLY <1>2, <1>3, <1>4, <1>5 DEF MoneyInv

\* addMoney: one amount for two of the same currency.
LEMMA MoneyAdded ==
  ASSUME MoneyInv, NEW i \in 1..Len(purse), NEW j \in 1..Len(purse), Cash!Add(i, j)
  PROVE  MoneyInv' /\ Cash!TotalOf(purse') = Cash!TotalOf(purse)
<1> DEFINE r == Cash!RemoveAt(purse, j)  q == Cash!RemoveAt(r, i)
           x == Cash!AddMoney(purse[i], purse[j])  s == <<x>>
<1>1. /\ purse \in Seq(Coins) /\ purse[i] \in Coins /\ purse[j] \in Coins
      /\ purse[i].amount \in Int /\ purse[j].amount \in Int /\ i < j
  BY CoinsIn DEF MoneyInv, Cash!Add
<1>2. x \in Coins /\ x.amount = purse[i].amount + purse[j].amount
  BY ONLY <1>1 DEF Coins, Cash!AddMoney, Cash!MoneyOf
<1>3. purse' = q \o s
  BY DEF Cash!Add, Cash!Without
<1>4. /\ r \in Seq(Coins) /\ Len(r) = Len(purse) - 1 /\ \A k \in 1..(j - 1) : r[k] = purse[k]
      /\ Cash!TotalOf(purse) = Cash!TotalOf(r) + purse[j].amount
  BY ONLY <1>1, j \in 1..Len(purse), TotalWithout
<1> HIDE DEF r, x
<1>5. i \in 1..Len(r) /\ r[i] = purse[i]
  BY <1>1, <1>4
<1>6. q \in Seq(Coins) /\ Cash!TotalOf(r) = Cash!TotalOf(q) + r[i].amount
  BY ONLY <1>4, <1>5, TotalWithout
<1>7. s \in Seq(Coins) /\ Cash!TotalOf(s) = x.amount
  BY ONLY <1>2, TotalOfOne
<1> HIDE DEF q, s
<1>8. q \o s \in Seq(Coins) /\ Cash!TotalOf(q \o s) = Cash!TotalOf(q) + Cash!TotalOf(s)
  BY ONLY <1>6, <1>7, TotalJoined
<1>9. Cash!TotalOf(q) \in Int
  BY ONLY <1>6, TotalNumber
<1> QED BY ONLY <1>1, <1>2, <1>3, <1>4, <1>5, <1>6, <1>7, <1>8, <1>9 DEF MoneyInv

\* percentOf and subtractMoney: a part, and what it leaves.
LEMMA MoneyDeducted ==
  ASSUME Cash!MoneyAssumption, MoneyInv, NEW i \in 1..Len(purse), NEW percent \in Percents, Cash!Deduct(i, percent)
  PROVE  MoneyInv' /\ Cash!TotalOf(purse') = Cash!TotalOf(purse)
<1> DEFINE r == Cash!RemoveAt(purse, i)
           x == Cash!PercentOf(purse[i], percent)  y == Cash!SubtractMoney(purse[i], x)
           s == <<x>>  t == <<y>>
<1>1. purse \in Seq(Coins) /\ purse[i] \in Coins /\ purse[i].amount \in Int /\ percent \in Int
  BY CoinsIn DEF MoneyInv, Cash!MoneyAssumption
<1>2. x \in Coins
  BY ONLY <1>1 DEF Coins, Cash!PercentOf, Cash!MultiplyMoney, Cash!MoneyOf, Cash!Round
<1>3. purse' = r \o <<x, y>>
  BY DEF Cash!Deduct, Cash!Without
<1>4. r \in Seq(Coins) /\ Cash!TotalOf(purse) = Cash!TotalOf(r) + purse[i].amount
  BY ONLY <1>1, i \in 1..Len(purse), TotalWithout
<1> HIDE DEF r, x
<1>5. y \in Coins /\ x.amount \in Int /\ y.amount = purse[i].amount - x.amount
  BY ONLY <1>1, <1>2 DEF Coins, Cash!SubtractMoney, Cash!MoneyOf
<1> HIDE DEF y
<1>6. s \in Seq(Coins) /\ Cash!TotalOf(s) = x.amount /\ t \in Seq(Coins) /\ Cash!TotalOf(t) = y.amount
  BY ONLY <1>2, <1>5, TotalOfOne
<1>7. <<x, y>> = s \o t
  <2>1. /\ s \o t \in Seq(Coins) /\ Len(s \o t) = Len(s) + Len(t)
        /\ \A k \in 1..Len(s) : (s \o t)[k] = s[k]
        /\ \A k \in 1..Len(t) : (s \o t)[Len(s) + k] = t[k]
    BY ONLY <1>6, CoinsJoined
  <2>2. Len(s) = 1 /\ s[1] = x /\ Len(t) = 1 /\ t[1] = y
    OBVIOUS
  <2> DEFINE u == s \o t
  <2> HIDE DEF u
  <2>3. u \in Seq(Coins) /\ Len(u) = 2 /\ u[1] = x /\ u[2] = y
    BY ONLY <2>1, <2>2 DEF u
  <2>4. <<x, y>> = u
    BY ONLY <2>3
  <2> QED BY <2>4 DEF u
<1> HIDE DEF s, t
<1>8. s \o t \in Seq(Coins) /\ Cash!TotalOf(s \o t) = Cash!TotalOf(s) + Cash!TotalOf(t)
  BY ONLY <1>6, TotalJoined
<1> DEFINE u == s \o t
<1> HIDE DEF u
<1>9. r \o u \in Seq(Coins) /\ Cash!TotalOf(r \o u) = Cash!TotalOf(r) + Cash!TotalOf(u)
  BY ONLY <1>4, <1>8, TotalJoined DEF u
<1>10. Cash!TotalOf(r) \in Int
  BY ONLY <1>4, TotalNumber
<1>11. purse' = r \o u /\ Cash!TotalOf(u) = x.amount + y.amount
  BY ONLY <1>3, <1>6, <1>7, <1>8 DEF u
<1> QED BY ONLY <1>1, <1>4, <1>5, <1>9, <1>10, <1>11 DEF MoneyInv

LEMMA MoneyStep ==
  ASSUME Cash!MoneyAssumption, MoneyInv, [Cash!Next]_purse
  PROVE  MoneyInv' /\ (purse' # purse => Cash!TotalOf(purse') = Cash!TotalOf(purse))
<1>1. CASE Cash!Next
  BY <1>1, MoneySplit, MoneyAdded, MoneyDeducted DEF Cash!Next
<1>2. CASE UNCHANGED purse
  BY <1>2 DEF MoneyInv
<1> QED BY <1>1, <1>2

------------------------------------------------------------------------------
(* The advice on queries *)

\* The sum that Times is exists: it is extended by one query after the other.
IsTimes(f, s, set, n) ==
  f = [i \in 0..n |-> IF i = 0 THEN 0 ELSE f[i - 1] + (IF i \in set THEN s[i].time ELSE 0)]
LEMMA TimesExist ==
  ASSUME NEW s \in Seq(ReportedQueries), NEW set, NEW n \in Nat
  PROVE  \E f : IsTimes(f, s, set, n)
<1> DEFINE Sum(f, m) == IsTimes(f, s, set, m)
           S == {m \in Nat : \E f : Sum(f, m)}
<1>1. 0 \in S
  <2>1. Sum([i \in 0..0 |-> 0], 0)
    BY DEF IsTimes
  <2> HIDE DEF Sum
  <2> QED BY <2>1
<1>2. ASSUME NEW m \in Nat, m \in S PROVE m + 1 \in S
  <2>1. PICK f : Sum(f, m)
    BY <1>2
  <2> DEFINE add == IF m + 1 \in set THEN s[m + 1].time ELSE 0
             g == [i \in 0..(m + 1) |-> IF i = m + 1 THEN f[m] + add ELSE f[i]]
  <2>2. ASSUME NEW i \in 0..(m + 1)
        PROVE  g[i] = IF i = 0 THEN 0 ELSE g[i - 1] + (IF i \in set THEN s[i].time ELSE 0)
    BY <2>1 DEF IsTimes
  <2>3. Sum(g, m + 1)
    BY <2>2 DEF IsTimes
  <2> HIDE DEF Sum, g
  <2> QED BY <2>3
<1>3. Nat \subseteq S
  <2> HIDE DEF S
  <2> QED BY <1>1, <1>2, Induction
<1> QED BY <1>3

\* What the assumption says of the queries.
LEMMA QueryKinds ==
  ASSUME Advisor!OptimizationAssumption
  PROVE  /\ \A q \in ReportedQueries : q.time \in Nat /\ q.cached \in BOOLEAN /\ q.slow \in BOOLEAN
         /\ WorthCaching \in Nat /\ SlowQuery \in Nat /\ VerySlowQuery \in Nat
         /\ KeptQueries \in Nat \ {0} /\ MaxSuggestions \in Nat \ {0} /\ MaxReported \in Nat \ {0}
         /\ WorthCaching < SlowQuery
BY DEF Advisor!OptimizationAssumption

\* Times begins with nothing and grows by the time of a query that is meant.
LEMMA TimesGrow ==
  ASSUME Advisor!OptimizationAssumption, NEW s \in Seq(ReportedQueries), NEW set
  PROVE  LET f == Advisor!Times(s, set) IN
         /\ f[0] = 0
         /\ \A i \in 1..Len(s) : f[i] = f[i - 1] + (IF i \in set THEN s[i].time ELSE 0)
         /\ \A i \in 0..Len(s) : f[i] \in Nat
<1> DEFINE f == Advisor!Times(s, set)  n == Len(s)
<1>1. f = [i \in 0..n |-> IF i = 0 THEN 0 ELSE f[i - 1] + (IF i \in set THEN s[i].time ELSE 0)]
  <2>1. n \in Nat
    OBVIOUS
  <2>2. \E g : IsTimes(g, s, set, n)
    BY <2>1, TimesExist
  <2> QED BY ONLY <2>2 DEF Advisor!Times, IsTimes
<1> HIDE DEF f
<1>2. f[0] = 0 /\ \A i \in 1..n : f[i] = f[i - 1] + (IF i \in set THEN s[i].time ELSE 0)
  BY <1>1
<1>3. \A i \in 1..n : s[i].time \in Nat
  <2>1. \A i \in 1..n : s[i] \in ReportedQueries
    OBVIOUS
  <2> QED BY ONLY <2>1, QueryKinds, Advisor!OptimizationAssumption
<1> DEFINE S == {i \in Nat : i <= n => f[i] \in Nat}
<1>4. 0 \in S
  BY <1>2
<1>5. ASSUME NEW i \in Nat, i \in S PROVE i + 1 \in S
  <2>1. SUFFICES ASSUME i + 1 <= n PROVE f[i + 1] \in Nat
    OBVIOUS
  <2>2. f[i] \in Nat /\ i + 1 \in 1..n /\ (i + 1) - 1 = i
    BY <2>1, <1>5
  <2>3. s[i + 1].time \in Nat /\ f[i + 1] = f[i] + (IF i + 1 \in set THEN s[i + 1].time ELSE 0)
    BY ONLY <1>2, <1>3, <2>2
  <2> QED BY ONLY <2>2, <2>3
<1>6. Nat \subseteq S
  <2> HIDE DEF S
  <2> QED BY <1>4, <1>5, Induction
<1> QED BY <1>2, <1>6 DEF f

\* One query more: its time counts where it is meant.
LEMMA TimeMore ==
  ASSUME Advisor!OptimizationAssumption, NEW s \in Seq(ReportedQueries), NEW q \in ReportedQueries,
         NEW set, NEW more, \A i \in 1..Len(s) : i \in more <=> i \in set
  PROVE  Advisor!TimeOf(Append(s, q), more)
           = Advisor!TimeOf(s, set) + (IF Len(s) + 1 \in more THEN q.time ELSE 0)
<1> DEFINE t == Append(s, q)  n == Len(s)  f == Advisor!Times(s, set)  g == Advisor!Times(t, more)
<1>1. /\ t \in Seq(ReportedQueries) /\ Len(t) = n + 1 /\ n \in Nat /\ t[n + 1] = q
      /\ \A i \in 1..n : t[i] = s[i]
  OBVIOUS
<1>2. \A i \in 1..n : s[i] \in ReportedQueries
  OBVIOUS
<1>3. Advisor!TimeOf(t, more) = g[n + 1] /\ Advisor!TimeOf(s, set) = f[n]
  BY <1>1 DEF Advisor!TimeOf
<1> HIDE DEF t
<1>4. /\ f[0] = 0 /\ \A i \in 1..n : f[i] = f[i - 1] + (IF i \in set THEN s[i].time ELSE 0)
      /\ \A i \in 0..n : f[i] \in Nat
  BY TimesGrow
<1>5. /\ g[0] = 0 /\ \A i \in 1..(n + 1) : g[i] = g[i - 1] + (IF i \in more THEN t[i].time ELSE 0)
      /\ \A i \in 0..(n + 1) : g[i] \in Nat
  BY <1>1, TimesGrow
<1>6. n \in Nat /\ t[n + 1] = q /\ \A i \in 1..n : t[i].time = s[i].time /\ s[i].time \in Nat
  BY ONLY <1>1, <1>2, QueryKinds, Advisor!OptimizationAssumption
<1>7. \A i \in 1..n : i \in more <=> i \in set
  OBVIOUS
<1> HIDE DEF f, g, n
<1>8. g[n] - g[0] = f[n] - f[0]
  <2>1. \A i \in 0..n : g[i] \in Int /\ f[i] \in Int
    BY ONLY <1>4, <1>5, <1>6
  <2>2. ASSUME NEW i \in 1..n PROVE g[i] - g[i - 1] = f[i] - f[i - 1]
    <3>1. i \in 1..(n + 1) /\ i - 1 \in 0..n /\ i - 1 \in 0..(n + 1)
      BY ONLY <1>6, i \in 1..n
    <3>2. g[i] = g[i - 1] + (IF i \in more THEN t[i].time ELSE 0) /\ g[i - 1] \in Nat
      BY ONLY <1>5, <3>1
    <3>3. f[i] = f[i - 1] + (IF i \in set THEN s[i].time ELSE 0) /\ f[i - 1] \in Nat
      BY ONLY <1>4, <3>1, i \in 1..n
    <3>4. t[i].time = s[i].time /\ s[i].time \in Nat /\ (i \in more <=> i \in set)
      BY ONLY <1>6, <1>7, i \in 1..n
    <3> QED BY ONLY <3>2, <3>3, <3>4
  <2> QED BY ONLY <1>6, <2>1, <2>2, GrowAlike
<1>9. n + 1 \in 1..(n + 1) /\ (n + 1) - 1 = n /\ n \in 0..n /\ n \in 0..(n + 1)
  BY <1>6
<1>10. g[n + 1] = g[n] + (IF n + 1 \in more THEN q.time ELSE 0) /\ g[n] \in Nat /\ f[n] \in Nat
  BY ONLY <1>4, <1>5, <1>6, <1>9
<1>11. g[n] = f[n]
  BY ONLY <1>4, <1>5, <1>8, <1>10
<1> QED BY ONLY <1>3, <1>10, <1>11 DEF n, t

LEMMA TimeIsNat ==
  ASSUME Advisor!OptimizationAssumption, NEW s \in Seq(ReportedQueries), NEW set
  PROVE  Advisor!TimeOf(s, set) \in Nat
<1>1. Len(s) \in 0..Len(s)
  OBVIOUS
<1> QED BY <1>1, TimesGrow DEF Advisor!TimeOf

\* No query takes no time.
LEMMA TimeOfNone ==
  ASSUME Advisor!OptimizationAssumption, NEW s \in Seq(ReportedQueries)
  PROVE  Advisor!TimeOf(s, {}) = 0
<1> DEFINE n == Len(s)  f == Advisor!Times(s, {})  g == [i \in 0..n |-> 0]
<1>1. n \in Nat /\ n \in 0..n /\ 0 \in 0..n
  OBVIOUS
<1>2. f[0] = 0 /\ (\A i \in 1..n : f[i] = f[i - 1] + 0) /\ \A i \in 0..n : f[i] \in Nat
  BY TimesGrow
<1>3. Advisor!TimeOf(s, {}) = f[n]
  BY DEF Advisor!TimeOf
<1> HIDE DEF f, n
<1>4. \A i \in 0..n : f[i] \in Int /\ g[i] \in Int
  BY ONLY <1>2
<1>5. ASSUME NEW i \in 1..n PROVE f[i] - f[i - 1] = g[i] - g[i - 1]
  <2>1. i - 1 \in 0..n /\ i \in 0..n
    BY <1>1
  <2> QED BY ONLY <1>2, <2>1, i \in 1..n
<1>6. g[n] = 0 /\ g[0] = 0
  BY <1>1
<1> HIDE DEF g
<1>7. f[n] - f[0] = g[n] - g[0]
  BY ONLY <1>1, <1>4, <1>5, GrowAlike
<1> QED BY ONLY <1>1, <1>2, <1>3, <1>6, <1>7

LEMMA LargerOfTwo ==
  ASSUME NEW a \in Int, NEW b \in Int
  PROVE  /\ Advisor!Max({a, b}) = IF a < b THEN b ELSE a
         /\ Advisor!Min({a, b}) = IF a < b THEN a ELSE b
<1>1. \E x \in {a, b} : \A y \in {a, b} : x >= y
  OBVIOUS
<1>2. \E x \in {a, b} : \A y \in {a, b} : x <= y
  OBVIOUS
<1> QED BY <1>1, <1>2 DEF Advisor!Max, Advisor!Min

\* Newest: the last of a sequence, as many as n or all.
LEMMA NewestIs ==
  ASSUME NEW S, NEW s \in Seq(S), NEW n \in Nat \ {0}
  PROVE  LET l == IF Len(s) < n THEN Len(s) ELSE n
             t == Advisor!Newest(s, n) IN
         /\ t \in Seq(S) /\ Len(t) = l
         /\ \A i \in 1..l : t[i] = s[Len(s) - l + i]
<1> DEFINE l == IF Len(s) < n THEN Len(s) ELSE n
           m == Advisor!Max({1, Len(s) - n + 1})
<1>1. Len(s) \in Nat
  OBVIOUS
<1>2. m = IF Len(s) < n THEN 1 ELSE Len(s) - n + 1
  BY <1>1, LargerOfTwo
<1>4. Advisor!Newest(s, n) = SubSeq(s, m, Len(s))
  BY DEF Advisor!Newest
<1> HIDE DEF m
<1>3. m = Len(s) - l + 1 /\ m \in 1..(Len(s) + 1) /\ l \in Nat
  BY ONLY <1>1, <1>2, n \in Nat \ {0}
<1> HIDE DEF l
<1>5. /\ SubSeq(s, m, Len(s)) \in Seq(S) /\ Len(SubSeq(s, m, Len(s))) = Len(s) - m + 1
      /\ \A i \in 1..(Len(s) - m + 1) : SubSeq(s, m, Len(s))[i] = s[m + i - 1]
  BY ONLY <1>1, <1>3, s \in Seq(S)
<1>6. Len(s) - m + 1 = l /\ \A i \in 1..l : m + i - 1 = Len(s) - l + i
  BY ONLY <1>1, <1>3
<1> QED BY ONLY <1>4, <1>5, <1>6 DEF l

\* What is left when one more has come does not depend on those that had left.
LEMMA NewestMore ==
  ASSUME NEW S, NEW s \in Seq(S), NEW x \in S, NEW n \in Nat \ {0}
  PROVE  Advisor!Newest(Append(Advisor!Newest(s, n), x), n) = Advisor!Newest(Append(s, x), n)
<1> DEFINE t == Advisor!Newest(s, n)  tx == Append(t, x)  sx == Append(s, x)
           l == IF Len(s) < n THEN Len(s) ELSE n
           k == IF Len(s) + 1 < n THEN Len(s) + 1 ELSE n
           a == Advisor!Newest(tx, n)  b == Advisor!Newest(sx, n)
<1>1. t \in Seq(S) /\ Len(t) = l /\ \A i \in 1..l : t[i] = s[Len(s) - l + i]
  BY NewestIs
<1>2. /\ sx \in Seq(S) /\ Len(sx) = Len(s) + 1 /\ sx[Len(s) + 1] = x /\ Len(s) \in Nat
      /\ \A i \in 1..Len(s) : sx[i] = s[i]
  OBVIOUS
<1> HIDE DEF t
<1>3. tx \in Seq(S) /\ Len(tx) = l + 1 /\ tx[l + 1] = x /\ \A i \in 1..l : tx[i] = t[i]
  BY <1>1
<1> HIDE DEF tx, sx
<1> DEFINE p == IF Len(tx) < n THEN Len(tx) ELSE n
           q == IF Len(sx) < n THEN Len(sx) ELSE n
<1>e. tx \in Seq(S)
  BY <1>3
<1>a. a \in Seq(S) /\ Len(a) = p /\ \A i \in 1..p : a[i] = tx[Len(tx) - p + i]
  BY ONLY <1>e, n \in Nat \ {0}, NewestIs
<1>f. sx \in Seq(S)
  BY <1>2
<1>b. b \in Seq(S) /\ Len(b) = q /\ \A i \in 1..q : b[i] = sx[Len(sx) - q + i]
  BY ONLY <1>f, n \in Nat \ {0}, NewestIs
<1> HIDE DEF a, b
<1>4. p = k /\ q = k /\ k \in Nat /\ l \in Nat
  BY ONLY <1>2, <1>3, n \in Nat \ {0}
<1>c. Len(tx) = l + 1 /\ Len(sx) = Len(s) + 1 /\ Len(s) \in Nat
  BY ONLY <1>2, <1>3
<1>d. /\ l = IF Len(s) < n THEN Len(s) ELSE n
      /\ k = IF Len(s) + 1 < n THEN Len(s) + 1 ELSE n
  OBVIOUS
<1> HIDE DEF p, q, l, k
<1>5. a \in Seq(S) /\ Len(a) = k /\ \A i \in 1..k : a[i] = tx[l + 1 - k + i]
  <2>1. Len(tx) - p = l + 1 - k
    BY ONLY <1>4, <1>c
  <2> QED BY ONLY <1>a, <1>4, <2>1
<1>6. b \in Seq(S) /\ Len(b) = k /\ \A i \in 1..k : b[i] = sx[Len(s) + 1 - k + i]
  BY ONLY <1>b, <1>4, <1>c
<1>7. ASSUME NEW i \in 1..k PROVE a[i] = b[i]
  <2>1. CASE i = k
    <3>1. l + 1 - k + i = l + 1 /\ Len(s) + 1 - k + i = Len(s) + 1
      BY ONLY <1>4, <1>c, <2>1
    <3> QED BY ONLY <1>2, <1>3, <1>5, <1>6, <3>1, i \in 1..k
  <2>2. CASE i < k
    <3> DEFINE u == l + 1 - k + i  v == Len(s) + 1 - k + i
    <3>1. u \in 1..l /\ v \in 1..Len(s) /\ Len(s) - l + u = v
      <4>1. k \in 1..(l + 1) /\ l <= Len(s)
        BY ONLY <1>4, <1>c, <1>d, n \in Nat \ {0}
      <4> QED BY ONLY <1>4, <1>c, <2>2, <4>1, i \in 1..k
    <3>2. a[i] = tx[u] /\ b[i] = sx[v]
      BY ONLY <1>5, <1>6, i \in 1..k
    <3> HIDE DEF u, v
    <3>3. tx[u] = t[u] /\ sx[v] = s[v]
      BY ONLY <1>2, <1>3, <3>1
    <3>4. t[u] = s[Len(s) - l + u]
      BY ONLY <1>1, <3>1
    <3> QED BY ONLY <3>1, <3>2, <3>3, <3>4
  <2>3. i = k \/ i < k
    BY ONLY <1>4, i \in 1..k
  <2> QED BY <2>1, <2>2, <2>3
<1> QED BY ONLY <1>5, <1>6, <1>7 DEF a, b, tx, sx, t

LEMMA SameSize == \A S : Advisor!Cardinality(S) = Cardinality(S)
  BY DEF Advisor!Cardinality, Cardinality

\* The places of a finite set in an order are the numbers up to its size.
Ordered(S, R) ==
  /\ IsFiniteSet(S)
  /\ \A i \in S : <<i, i>> \in R
  /\ \A i, j \in S : <<i, j>> \in R \/ <<j, i>> \in R
  /\ \A i, j \in S : <<i, j>> \in R /\ <<j, i>> \in R => i = j
  /\ \A i, j, k \in S : <<i, j>> \in R /\ <<j, k>> \in R => <<i, k>> \in R
PlacesOf(S, R) == [i \in S |-> Cardinality({j \in S : <<j, i>> \in R})]
LEMMA Places ==
  ASSUME NEW S, NEW R, Ordered(S, R), NEW place, place = PlacesOf(S, R)
  PROVE  /\ \A i \in S : place[i] \in 1..Cardinality(S)
         /\ \A i, j \in S : place[i] <= place[j] <=> <<i, j>> \in R
         /\ \A k \in 1..Cardinality(S) :
              Advisor!AtPlace(place, k) \in S /\ place[Advisor!AtPlace(place, k)] = k
         /\ \A i \in S : Advisor!AtPlace(place, place[i]) = i
<1> DEFINE upto(i) == {j \in S : <<j, i>> \in R}  n == Cardinality(S)
<1> USE DEF Ordered, PlacesOf
<1>0. IsFiniteSet(S)
  OBVIOUS
<1>1. \A i \in S : place[i] = Cardinality(upto(i)) /\ upto(i) \in SUBSET S /\ i \in upto(i)
  OBVIOUS
<1>2. n \in Nat
  BY <1>0, FS_CardinalityType
<1>3. ASSUME NEW i \in S PROVE IsFiniteSet(upto(i)) /\ place[i] \in Nat /\ place[i] \in 1..n
  <2> DEFINE u == upto(i)
  <2>1. u \in SUBSET S /\ place[i] = Cardinality(u) /\ u # {}
    BY <1>1
  <2> HIDE DEF u
  <2>2. IsFiniteSet(u) /\ Cardinality(u) <= n
    BY ONLY <1>0, <2>1, FS_Subset
  <2>3. Cardinality(u) \in Nat
    BY ONLY <2>2, FS_CardinalityType
  <2>4. Cardinality(u) # 0
    BY ONLY <2>1, <2>2, FS_EmptySet
  <2> QED BY ONLY <1>2, <2>1, <2>2, <2>3, <2>4 DEF u
<1>4. ASSUME NEW i \in S, NEW j \in S, <<i, j>> \in R PROVE place[i] <= place[j]
  <2>1. upto(i) \in SUBSET upto(j)
    BY <1>4
  <2> DEFINE u == upto(i)  v == upto(j)
  <2>2. u \in SUBSET v /\ IsFiniteSet(v) /\ place[i] = Cardinality(u) /\ place[j] = Cardinality(v)
    BY <1>1, <1>3, <2>1
  <2> HIDE DEF u, v
  <2> QED BY ONLY <2>2, FS_Subset
<1>5. ASSUME NEW i \in S, NEW j \in S, <<i, j>> \notin R PROVE place[j] < place[i]
  <2>1. <<j, i>> \in R
    BY <1>5
  <2> DEFINE u == upto(j)  v == upto(i)
  <2>2. u \in SUBSET v /\ u # v
    BY <1>5, <2>1
  <2>3. IsFiniteSet(v) /\ place[j] = Cardinality(u) /\ place[i] = Cardinality(v) /\ place[i] \in Nat /\ place[j] \in Nat
    BY <1>1, <1>3
  <2> HIDE DEF u, v
  <2>4. Cardinality(u) <= Cardinality(v) /\ Cardinality(u) # Cardinality(v)
    BY ONLY <2>2, <2>3, FS_Subset
  <2> QED BY ONLY <2>3, <2>4
<1>6. \A i, j \in S : place[i] <= place[j] <=> <<i, j>> \in R
  <2>1. SUFFICES ASSUME NEW i \in S, NEW j \in S PROVE place[i] <= place[j] <=> <<i, j>> \in R
    OBVIOUS
  <2>2. CASE <<i, j>> \in R
    BY ONLY <1>4, <2>2, i \in S, j \in S
  <2>3. CASE <<i, j>> \notin R
    <3>1. place[j] < place[i]
      BY ONLY <1>5, <2>3, i \in S, j \in S
    <3>2. place[i] \in Nat /\ place[j] \in Nat
      BY ONLY <1>3, i \in S, j \in S
    <3> QED BY ONLY <2>3, <3>1, <3>2
  <2> QED BY <2>2, <2>3
<1>7. \A i, j \in S : place[i] = place[j] => i = j
  <2>1. SUFFICES ASSUME NEW i \in S, NEW j \in S, place[i] = place[j] PROVE i = j
    OBVIOUS
  <2>2. place[i] <= place[j] /\ place[j] <= place[i]
    BY <1>3, <2>1
  <2> QED BY <1>6, <2>2
<1>8. place \in Injection(S, 1..n)
  BY <1>3, <1>7 DEF Injection, IsInjective
<1>9. IsFiniteSet(1..n) /\ Cardinality(1..n) = n
  BY <1>2, FS_Interval
<1>10. place \in Surjection(S, 1..n)
  <2> HIDE DEF n
  <2>1. n = Cardinality(S)
    BY DEF n
  <2> QED BY ONLY <1>0, <1>8, <1>9, <2>1, FS_Injection
<1>11. \A k \in 1..n : \E i \in S : place[i] = k
  BY <1>10 DEF Surjection
<1>12. DOMAIN place = S
  OBVIOUS
<1> HIDE DEF n
<1>13. ASSUME NEW k \in 1..n
       PROVE Advisor!AtPlace(place, k) \in S /\ place[Advisor!AtPlace(place, k)] = k
  <2>1. \E i \in DOMAIN place : place[i] = k
    BY ONLY <1>11, <1>12, k \in 1..n
  <2>2. Advisor!AtPlace(place, k) \in DOMAIN place /\ place[Advisor!AtPlace(place, k)] = k
    BY ONLY <2>1 DEF Advisor!AtPlace
  <2> QED BY ONLY <1>12, <2>2
<1>14. ASSUME NEW i \in S PROVE Advisor!AtPlace(place, place[i]) = i
  BY ONLY <1>3, <1>7, <1>13, i \in S
<1> QED BY ONLY <1>3, <1>6, <1>13, <1>14 DEF n

\* A suggestion: the text of a query and what is wrong with it.
Pairs == {q.text : q \in ReportedQueries} \X {Advisor!Issues[k] : k \in 1..11}

LEMMA RaisedIs ==
  ASSUME NEW q
  PROVE  /\ Advisor!Raised(q) \in SUBSET (1..11) /\ IsFiniteSet(Advisor!Raised(q))
         /\ ~q.cached /\ q.time > WorthCaching => 11 \in Advisor!Raised(q)
         /\ Advisor!Issues[11] = "uncached"
<1>1. Len(Advisor!Issues) = 11 /\ Advisor!Issues[11] = "uncached"
  BY DEF Advisor!Issues
<1>2. Advisor!Raised(q) \in SUBSET (1..11)
  BY <1>1 DEF Advisor!Raised
<1>3. IsFiniteSet(1..11)
  <2>1. 1 \in Int /\ 11 \in Int
    OBVIOUS
  <2> QED BY ONLY <2>1, FS_Interval
<1>4. IsFiniteSet(Advisor!Raised(q))
  BY ONLY <1>2, <1>3, FS_Subset
<1>5. ASSUME ~q.cached, q.time > WorthCaching PROVE 11 \in Advisor!Raised(q)
  <2>1. 11 \in 1..Len(Advisor!Issues)
    BY <1>1
  <2> QED BY ONLY <1>1, <1>5, <2>1, Zenon DEF Advisor!Raised
<1> QED BY ONLY <1>1, <1>2, <1>4, <1>5

\* generateOptimizationSuggestions: one suggestion of the query for each issue it raises, that
\* of being uncached last.
LEMMA SuggestionsAre ==
  ASSUME Advisor!OptimizationAssumption, NEW q \in ReportedQueries
  PROVE  LET s == Advisor!Suggestions(q) IN
         /\ s \in Seq(Pairs) /\ (s = <<>> <=> Advisor!Raised(q) = {})
         /\ \A k \in 1..Len(s) : s[k][1] = q.text
         /\ ~q.cached /\ q.time > SlowQuery => s[Len(s)][2] = "uncached"
<1> DEFINE s == Advisor!Suggestions(q)  r == Advisor!Raised(q)  n == Advisor!Cardinality(r)
           place == [i \in r |-> Advisor!Cardinality({j \in r : j <= i})]
           R == {w \in r \X r : w[1] <= w[2]}
<1>1. /\ r \in SUBSET (1..11) /\ IsFiniteSet(r) /\ Advisor!Issues[11] = "uncached"
      /\ ~q.cached /\ q.time > WorthCaching => 11 \in r
  BY RaisedIs
<1>2. s = [k \in 1..n |-> <<q.text, Advisor!Issues[Advisor!AtPlace(place, k)]>>]
  BY DEF Advisor!Suggestions
<1> HIDE DEF s, r
<1>3. n \in Nat /\ (n = 0 <=> r = {})
  BY ONLY <1>1, FS_CardinalityType, FS_EmptySet, SameSize DEF n
<1>4. Ordered(r, R)
  BY <1>1 DEF Ordered
<1>5. place = PlacesOf(r, R)
  <2>1. \A i \in r : {j \in r : j <= i} = {j \in r : <<j, i>> \in R}
    OBVIOUS
  <2> HIDE DEF R
  <2>2. \A i \in r : Advisor!Cardinality({j \in r : j <= i}) = Cardinality({j \in r : <<j, i>> \in R})
    BY ONLY <2>1, SameSize
  <2> QED BY ONLY <2>2 DEF place, PlacesOf
<1> HIDE DEF place, R, n
<1>c. n = Cardinality(r)
  BY ONLY SameSize DEF n
<1>6. /\ \A i \in r : place[i] \in 1..n
      /\ \A i, j \in r : place[i] <= place[j] <=> <<i, j>> \in R
      /\ \A k \in 1..n : Advisor!AtPlace(place, k) \in r
      /\ \A i \in r : Advisor!AtPlace(place, place[i]) = i
  BY ONLY <1>1, <1>4, <1>5, <1>c, Places
<1>7. \A k \in 1..n : Advisor!AtPlace(place, k) \in 1..11
  BY ONLY <1>1, <1>6
<1>8. s \in Seq(Pairs) /\ Len(s) = n /\ \A k \in 1..n : s[k][1] = q.text /\ s[k][2] = Advisor!Issues[Advisor!AtPlace(place, k)]
  <2>1. \A k \in 1..n : <<q.text, Advisor!Issues[Advisor!AtPlace(place, k)]>> \in Pairs
    BY <1>7 DEF Pairs
  <2> QED BY ONLY <1>2, <1>3, <2>1
<1>9. ASSUME ~q.cached, q.time > SlowQuery PROVE s[n][2] = "uncached"
  <2>1. 11 \in r
    BY <1>1, <1>9, QueryKinds
  <2>2. \A i \in r : <<i, 11>> \in R
    BY <1>1, <2>1 DEF R
  <2>3. n \in 1..n /\ Advisor!AtPlace(place, n) \in r
    BY ONLY <1>3, <1>6, <2>1
  <2>4. place[11] = n
    <3>1. place[Advisor!AtPlace(place, n)] = n /\ place[Advisor!AtPlace(place, n)] <= place[11] /\ place[11] \in 1..n
      <4>1. place[Advisor!AtPlace(place, n)] = n
        BY ONLY <1>1, <1>4, <1>5, <1>c, <2>3, Places
      <4> QED BY ONLY <1>6, <2>1, <2>2, <2>3, <4>1
    <3> QED BY ONLY <1>3, <3>1
  <2>5. Advisor!AtPlace(place, n) = 11
    BY ONLY <1>6, <2>1, <2>4
  <2> QED BY ONLY <1>1, <1>8, <2>3, <2>5
<1>10. s = <<>> <=> r = {}
  BY ONLY <1>3, <1>8
<1> QED BY ONLY <1>8, <1>9, <1>10 DEF s, r

\* exportPerformanceReport: the slowest of the history come first, and none that is left out
\* took longer than one that is in.
LEMMA TopIs ==
  ASSUME Advisor!OptimizationAssumption, queryHistory \in Seq(ReportedQueries), NEW c
  PROVE  LET top == Advisor!TopSlowQueries(c) IN
         /\ Len(top) <= MaxReported
         /\ \A k \in DOMAIN top : /\ \E i \in Advisor!Slow(c) : top[k] = queryHistory[i]
                                  /\ \A l \in 1..k : top[l].time >= top[k].time
         /\ \A i \in Advisor!Slow(c) :
              \/ \E k \in DOMAIN top : top[k] = queryHistory[i]
              \/ Len(top) = MaxReported /\ \A k \in DOMAIN top : queryHistory[i].time <= top[k].time
<1> DEFINE top == Advisor!TopSlowQueries(c)  r == Advisor!Slow(c)  n == Advisor!Cardinality(r)
           place == [i \in r |-> Advisor!Cardinality({j \in r : Advisor!Before(j, i)})]
           R == {w \in r \X r : Advisor!Before(w[1], w[2])}
           m == Advisor!Min({MaxReported, n})
<1>1. Len(queryHistory) \in Nat /\ DOMAIN queryHistory = 1..Len(queryHistory) /\ r \in SUBSET (1..Len(queryHistory))
  BY DEF Advisor!Slow
<1>2. \A i \in r : queryHistory[i].time \in Nat /\ i \in Nat
  <2>1. \A i \in r : queryHistory[i] \in ReportedQueries
    BY <1>1
  <2> QED BY <1>1, <2>1, QueryKinds
<1>3. top = [k \in 1..m |-> queryHistory[Advisor!AtPlace(place, k)]]
  BY DEF Advisor!TopSlowQueries
<1> HIDE DEF top, r
<1>4. IsFiniteSet(r) /\ n \in Nat
  <2>1. IsFiniteSet(1..Len(queryHistory))
    BY ONLY <1>1, FS_Interval
  <2>2. IsFiniteSet(r)
    BY ONLY <1>1, <2>1, FS_Subset
  <2> QED BY ONLY <2>2, FS_CardinalityType, SameSize DEF n
<1>5. Ordered(r, R)
  BY ONLY <1>2, <1>4 DEF Ordered, Advisor!Before
<1>6. place = PlacesOf(r, R)
  <2>1. \A i \in r : {j \in r : Advisor!Before(j, i)} = {j \in r : <<j, i>> \in R}
    OBVIOUS
  <2> HIDE DEF R
  <2>2. \A i \in r : Advisor!Cardinality({j \in r : Advisor!Before(j, i)}) = Cardinality({j \in r : <<j, i>> \in R})
    BY ONLY <2>1, SameSize
  <2> QED BY ONLY <2>2 DEF place, PlacesOf
<1>7. \A i, j \in r : <<i, j>> \in R => queryHistory[i].time >= queryHistory[j].time
  BY ONLY <1>2 DEF Advisor!Before
<1> HIDE DEF place, R
<1>c. n = Cardinality(r)
  BY ONLY SameSize DEF n
<1>8. /\ \A i \in r : place[i] \in 1..n
      /\ \A i, j \in r : place[i] <= place[j] <=> <<i, j>> \in R
      /\ \A k \in 1..n : Advisor!AtPlace(place, k) \in r /\ place[Advisor!AtPlace(place, k)] = k
      /\ \A i \in r : Advisor!AtPlace(place, place[i]) = i
  BY ONLY <1>4, <1>5, <1>6, <1>c, Places
<1>9. m = (IF MaxReported < n THEN MaxReported ELSE n) /\ MaxReported \in Nat
  <2>1. MaxReported \in Nat
    BY QueryKinds
  <2> HIDE DEF n
  <2>2. n \in Int /\ MaxReported \in Int
    BY <1>4, <2>1
  <2> QED BY ONLY <2>1, <2>2, LargerOfTwo DEF m
<1> HIDE DEF n, m
<1>10. m \in 0..n /\ m <= MaxReported /\ (m = MaxReported \/ m = n)
  BY ONLY <1>4, <1>9
<1>11. DOMAIN top = 1..m /\ Len(top) = m /\ \A k \in 1..m : top[k] = queryHistory[Advisor!AtPlace(place, k)]
  BY ONLY <1>3, <1>10, <1>4
<1>12. ASSUME NEW k \in 1..m, NEW l \in 1..k PROVE top[l].time >= top[k].time
  <2>1. k \in 1..n /\ l \in 1..n /\ l \in 1..m /\ l <= k
    BY ONLY <1>4, <1>10, k \in 1..m, l \in 1..k
  <2>2. Advisor!AtPlace(place, l) \in r /\ Advisor!AtPlace(place, k) \in r /\ <<Advisor!AtPlace(place, l), Advisor!AtPlace(place, k)>> \in R
    BY ONLY <1>8, <2>1
  <2> QED BY ONLY <1>7, <1>11, <2>1, <2>2, k \in 1..m
<1>13. ASSUME NEW k \in 1..m PROVE \E i \in r : top[k] = queryHistory[i]
  <2>1. k \in 1..n
    BY ONLY <1>4, <1>10, k \in 1..m
  <2> QED BY ONLY <1>8, <1>11, <2>1, k \in 1..m
<1>14. ASSUME NEW i \in r, \A k \in 1..m : top[k] # queryHistory[i]
       PROVE  m = MaxReported /\ \A k \in 1..m : queryHistory[i].time <= top[k].time
  <2>1. place[i] \in 1..n /\ Advisor!AtPlace(place, place[i]) = i
    BY ONLY <1>8, i \in r
  <2>2. place[i] \notin 1..m
    BY ONLY <1>11, <1>14, <2>1
  <2>3. m < place[i] /\ m # n
    BY ONLY <1>4, <1>10, <2>1, <2>2
  <2>4. ASSUME NEW k \in 1..m PROVE queryHistory[i].time <= top[k].time
    <3>1. k \in 1..n /\ k <= place[i]
      BY ONLY <1>4, <1>10, <2>1, <2>3, k \in 1..m
    <3>2. Advisor!AtPlace(place, k) \in r /\ <<Advisor!AtPlace(place, k), i>> \in R
      BY ONLY <1>8, <3>1, i \in r
    <3>3. queryHistory[Advisor!AtPlace(place, k)].time >= queryHistory[i].time
      BY ONLY <1>7, <3>2, i \in r
    <3>4. queryHistory[Advisor!AtPlace(place, k)].time \in Nat /\ queryHistory[i].time \in Nat
      BY ONLY <1>2, <3>2, i \in r
    <3> QED BY ONLY <1>11, <3>3, <3>4, k \in 1..m
  <2> QED BY ONLY <1>10, <2>3, <2>4
<1> QED BY ONLY <1>10, <1>11, <1>12, <1>13, <1>14 DEF top, r

\* The queries of a sequence that the figures are about, as Mine, Longer and Alike have them of
\* what is recorded.
MineOf(r, c) == {i \in DOMAIN r : r[i].connection = c}
LongerOf(r, c, limit) == {i \in MineOf(r, c) : r[i].time > limit}
CachedOf(r, c) == {i \in MineOf(r, c) : r[i].cached}
AlikeOf(r, c, p) == {i \in MineOf(r, c) : Advisor!Pattern(r[i].text) = p}
AdvisingOf(r, c) == {i \in MineOf(r, c) : r[i].slow /\ Advisor!Raised(r[i]) # {}}

\* A query more is the last of the sets that it belongs to, and no other set gets one.
SameSets(t, r, c) ==
  /\ MineOf(t, c) = MineOf(r, c) /\ CachedOf(t, c) = CachedOf(r, c)
  /\ \A l : LongerOf(t, c, l) = LongerOf(r, c, l)
  /\ \A p : AlikeOf(t, c, p) = AlikeOf(r, c, p)
  /\ AdvisingOf(t, c) = AdvisingOf(r, c)
MoreSets(t, r, q, n) ==
  LET c == q.connection IN
  /\ MineOf(t, c) = MineOf(r, c) \cup {n}
  /\ CachedOf(t, c) = IF q.cached THEN CachedOf(r, c) \cup {n} ELSE CachedOf(r, c)
  /\ \A l : LongerOf(t, c, l) =
             IF q.time > l THEN LongerOf(r, c, l) \cup {n} ELSE LongerOf(r, c, l)
  /\ \A p : AlikeOf(t, c, p) =
             IF Advisor!Pattern(q.text) = p THEN AlikeOf(r, c, p) \cup {n} ELSE AlikeOf(r, c, p)
  /\ AdvisingOf(t, c) =
       IF q.slow /\ Advisor!Raised(q) # {} THEN AdvisingOf(r, c) \cup {n} ELSE AdvisingOf(r, c)
LEMMA OneMore ==
  ASSUME NEW r \in Seq(ReportedQueries), NEW q \in ReportedQueries
  PROVE  /\ MoreSets(Append(r, q), r, q, Len(r) + 1)
         /\ \A c : q.connection # c => SameSets(Append(r, q), r, c)
<1> DEFINE t == Append(r, q)  n == Len(r) + 1
<1>1. /\ DOMAIN t = 1..n /\ DOMAIN r = 1..(n - 1) /\ n \in Nat \ {0} /\ t[n] = q
      /\ \A i \in 1..(n - 1) : t[i] = r[i]
  OBVIOUS
<1>2. /\ DOMAIN t = DOMAIN r \cup {n} /\ n \notin DOMAIN r /\ t[n] = q
      /\ \A i \in DOMAIN r : t[i] = r[i]
  BY ONLY <1>1
<1> HIDE DEF t, n
<1>3. MoreSets(t, r, q, n)
  BY ONLY <1>2 DEF MoreSets, MineOf, LongerOf, CachedOf, AlikeOf, AdvisingOf
<1>4. \A c : q.connection # c => SameSets(t, r, c)
  BY ONLY <1>2 DEF SameSets, MineOf, LongerOf, CachedOf, AlikeOf, AdvisingOf
<1> QED BY ONLY <1>3, <1>4 DEF t, n

LEMMA SizeMore ==
  ASSUME NEW n \in Nat, NEW A \in SUBSET (1..n)
  PROVE  /\ Advisor!Cardinality(A) \in Nat
         /\ Advisor!Cardinality(A \cup {n + 1}) = Advisor!Cardinality(A) + 1
<1>1. IsFiniteSet(1..n)
  BY FS_Interval
<1>2. IsFiniteSet(A) /\ n + 1 \notin A
  <2>1. IsFiniteSet(A)
    BY ONLY <1>1, A \in SUBSET (1..n), FS_Subset
  <2>2. n + 1 \notin 1..n
    OBVIOUS
  <2> QED BY ONLY <2>1, <2>2, A \in SUBSET (1..n)
<1>3. Cardinality(A) \in Nat
  BY <1>2, FS_CardinalityType
<1>4. Cardinality(A \cup {n + 1}) = Cardinality(A) + 1
  BY <1>2, FS_AddElement
<1> QED BY <1>3, <1>4, SameSize

LEMMA SetsOfQueries ==
  ASSUME NEW r \in Seq(ReportedQueries), NEW c
  PROVE  /\ MineOf(r, c) \in SUBSET (1..Len(r)) /\ CachedOf(r, c) \in SUBSET (1..Len(r))
         /\ \A l : LongerOf(r, c, l) \in SUBSET (1..Len(r))
         /\ \A p : AlikeOf(r, c, p) \in SUBSET (1..Len(r))
         /\ AdvisingOf(r, c) \in SUBSET (1..Len(r))
<1>1. DOMAIN r = 1..Len(r)
  OBVIOUS
<1> QED BY ONLY <1>1 DEF MineOf, LongerOf, CachedOf, AlikeOf, AdvisingOf

\* Put and At.
LEMMA AtPut ==
  ASSUME NEW map, NEW key, NEW value, NEW k, NEW default
  PROVE  Advisor!At(Advisor!Put(map, key, value), k, default)
           = IF k = key THEN value ELSE Advisor!At(map, k, default)
BY DEF Advisor!At, Advisor!Put

LEMMA TimeWith ==
  ASSUME Advisor!OptimizationAssumption, NEW r \in Seq(ReportedQueries), NEW q \in ReportedQueries,
         NEW A \in SUBSET (1..Len(r))
  PROVE  /\ Advisor!TimeOf(r, A) \in Nat
         /\ Advisor!TimeOf(Append(r, q), A) = Advisor!TimeOf(r, A)
         /\ Advisor!TimeOf(Append(r, q), A \cup {Len(r) + 1}) = Advisor!TimeOf(r, A) + q.time
<1> DEFINE m == A \cup {Len(r) + 1}
<1>1. \A i \in 1..Len(r) : i \in m <=> i \in A
  OBVIOUS
<1>2. Len(r) + 1 \in m /\ Len(r) + 1 \notin A
  OBVIOUS
<1> HIDE DEF m
<1>3. Advisor!TimeOf(Append(r, q), m)
        = Advisor!TimeOf(r, A) + (IF Len(r) + 1 \in m THEN q.time ELSE 0)
  BY <1>1, TimeMore
<1>4. Advisor!TimeOf(Append(r, q), A)
        = Advisor!TimeOf(r, A) + (IF Len(r) + 1 \in A THEN q.time ELSE 0)
  BY TimeMore
<1>5. Advisor!TimeOf(r, A) \in Nat
  BY TimeIsNat
<1> QED BY ONLY <1>2, <1>3, <1>4, <1>5 DEF m

\* What FiguresTrue says of the figures of a connection, of any sequence of queries.
PatternOf(r, c, p, figures) ==
  LET same == AlikeOf(r, c, p) IN
  /\ figures.count = Advisor!Cardinality(same) /\ figures.time = Advisor!TimeOf(r, same)
  /\ \A i \in same : r[i].time \in figures.minTime..figures.maxTime
  /\ \E i \in same : r[i].time = figures.minTime
  /\ \E i \in same : r[i].time = figures.maxTime
PatternsOf(r, c, patterns) ==
  /\ DOMAIN patterns = {Advisor!Pattern(r[i].text) : i \in MineOf(r, c)}
  /\ \A p \in DOMAIN patterns : PatternOf(r, c, p, patterns[p])
CountsOf(r, c, patterns) ==
  [totalQueries |-> Advisor!Cardinality(MineOf(r, c)), time |-> Advisor!TimeOf(r, MineOf(r, c)),
   slowQueries |-> Advisor!Cardinality(LongerOf(r, c, SlowQuery)),
   verySlowQueries |-> Advisor!Cardinality(LongerOf(r, c, VerySlowQuery)),
   cachedQueries |-> Advisor!Cardinality(CachedOf(r, c)), queryPatterns |-> patterns]
FiguresOf(r, c, s) == s = CountsOf(r, c, s.queryPatterns) /\ PatternsOf(r, c, s.queryPatterns)

\* A connection that has not reported has no figures.
LEMMA FiguresOfNone ==
  ASSUME Advisor!OptimizationAssumption, NEW r \in Seq(ReportedQueries), NEW c, MineOf(r, c) = {}
  PROVE  FiguresOf(r, c, Advisor!EmptyStatistics)
<1>1. LongerOf(r, c, SlowQuery) = {} /\ LongerOf(r, c, VerySlowQuery) = {} /\ CachedOf(r, c) = {}
  BY DEF LongerOf, CachedOf
<1>2. Advisor!Cardinality({}) = 0
  BY FS_EmptySet, SameSize
<1>3. Advisor!TimeOf(r, {}) = 0
  BY TimeOfNone
<1>4. Advisor!EmptyStatistics = CountsOf(r, c, <<>>)
  BY <1>1, <1>2, <1>3 DEF Advisor!EmptyStatistics, CountsOf
<1>5. Advisor!EmptyStatistics.queryPatterns = <<>>
  BY DEF Advisor!EmptyStatistics
<1>6. DOMAIN <<>> = {}
  OBVIOUS
<1>7. PatternsOf(r, c, <<>>)
  BY <1>6 DEF PatternsOf
<1> QED BY ONLY <1>4, <1>5, <1>7 DEF FiguresOf

\* Of another connection a query leaves them as they are.
LEMMA FiguresOfOthers ==
  ASSUME Advisor!OptimizationAssumption, NEW r \in Seq(ReportedQueries), NEW q \in ReportedQueries,
         NEW c, q.connection # c, NEW s, FiguresOf(r, c, s)
  PROVE  FiguresOf(Append(r, q), c, s)
<1> DEFINE t == Append(r, q)  n == Len(r) + 1
<1>a. t = Append(r, q) /\ n = Len(r) + 1 /\ q.connection # c
  OBVIOUS
<1>b. \A i \in 1..Len(r) : t[i] = r[i]
  OBVIOUS
<1> HIDE DEF t, n
<1>1. /\ MineOf(t, c) = MineOf(r, c) /\ CachedOf(t, c) = CachedOf(r, c)
      /\ \A l : LongerOf(t, c, l) = LongerOf(r, c, l)
      /\ \A p : AlikeOf(t, c, p) = AlikeOf(r, c, p)
  BY ONLY <1>a, OneMore DEF SameSets
<1>3. ASSUME NEW A \in SUBSET (1..Len(r)) PROVE Advisor!TimeOf(t, A) = Advisor!TimeOf(r, A)
  BY <1>a, TimeWith
<1>4. CountsOf(t, c, s.queryPatterns) = CountsOf(r, c, s.queryPatterns)
  BY <1>1, <1>3, SetsOfQueries DEF CountsOf
<1>5. \A i \in MineOf(r, c) : t[i] = r[i]
  BY <1>b, SetsOfQueries
<1>6. \A p : AlikeOf(r, c, p) \in SUBSET MineOf(r, c)
  BY DEF AlikeOf
<1>7. ASSUME NEW p, NEW f, PatternOf(r, c, p, f) PROVE PatternOf(t, c, p, f)
  BY <1>1, <1>3, <1>5, <1>6, <1>7, SetsOfQueries DEF PatternOf
<1>8. {Advisor!Pattern(t[i].text) : i \in MineOf(t, c)} = {Advisor!Pattern(r[i].text) : i \in MineOf(r, c)}
  BY ONLY <1>1, <1>5
<1>9. PatternsOf(t, c, s.queryPatterns)
  BY ONLY <1>7, <1>8, FiguresOf(r, c, s) DEF FiguresOf, PatternsOf
<1> QED BY ONLY <1>4, <1>9, FiguresOf(r, c, s) DEF FiguresOf, t

\* The figures of a pattern with one query more.
MorePattern(f, q) ==
  [count |-> f.count + 1, time |-> f.time + q.time,
   minTime |-> Advisor!Min({f.minTime, q.time}), maxTime |-> Advisor!Max({f.maxTime, q.time})]
FirstPattern(q) == [count |-> 0, time |-> 0, minTime |-> q.time, maxTime |-> 0]

LEMMA PatternGrows ==
  ASSUME Advisor!OptimizationAssumption, NEW r \in Seq(ReportedQueries), NEW q \in ReportedQueries,
         NEW f,
         \/ PatternOf(r, q.connection, Advisor!Pattern(q.text), f)
         \/ AlikeOf(r, q.connection, Advisor!Pattern(q.text)) = {} /\ f = FirstPattern(q)
  PROVE  PatternOf(Append(r, q), q.connection, Advisor!Pattern(q.text), MorePattern(f, q))
<1> DEFINE c == q.connection  p == Advisor!Pattern(q.text)  t == Append(r, q)  n == Len(r) + 1
           A == AlikeOf(r, c, p)  B == AlikeOf(t, c, p)  g == MorePattern(f, q)
<1>1. B = A \cup {n}
  BY OneMore DEF MoreSets
<1>2. A \in SUBSET (1..Len(r)) /\ Len(r) \in Nat
  <2>1. Len(r) \in Nat
    OBVIOUS
  <2>2. \A k, l : AlikeOf(r, k, l) \in SUBSET (1..Len(r))
    BY SetsOfQueries
  <2> QED BY ONLY <2>1, <2>2
<1>3. t[n] = q /\ \A i \in 1..Len(r) : t[i] = r[i]
  OBVIOUS
<1>4. \A i \in 1..Len(r) : r[i] \in ReportedQueries
  OBVIOUS
<1>5. q.time \in Nat /\ \A i \in A : r[i].time \in Nat
  BY <1>2, <1>4, QueryKinds
<1>6. /\ Advisor!TimeOf(r, A) \in Nat /\ Advisor!TimeOf(t, A \cup {n}) = Advisor!TimeOf(r, A) + q.time
  BY <1>2, TimeWith
<1>7. Advisor!Cardinality(A) \in Nat /\ Advisor!Cardinality(A \cup {n}) = Advisor!Cardinality(A) + 1
  BY <1>2, SizeMore
<1>8. A = {} => Advisor!Cardinality(A) = 0 /\ Advisor!TimeOf(r, A) = 0
  BY FS_EmptySet, SameSize, TimeOfNone
<1>9. /\ f.count = Advisor!Cardinality(A) /\ f.time = Advisor!TimeOf(r, A)
      /\ f.minTime \in Nat /\ f.maxTime \in Nat
      /\ \A i \in A : f.minTime <= r[i].time /\ r[i].time <= f.maxTime
      /\ (\E i \in A : r[i].time = f.minTime) \/ f.minTime = q.time
      /\ (\E i \in A : r[i].time = f.maxTime) \/ f.maxTime = 0
  <2>1. CASE PatternOf(r, c, p, f)
    <3>1. /\ f.count = Advisor!Cardinality(A) /\ f.time = Advisor!TimeOf(r, A)
          /\ \A i \in A : r[i].time \in f.minTime..f.maxTime
          /\ \E i \in A : r[i].time = f.minTime
          /\ \E i \in A : r[i].time = f.maxTime
      BY ONLY <2>1 DEF PatternOf, A
    <3> HIDE DEF A
    <3>2. f.minTime \in Nat /\ f.maxTime \in Nat
      BY ONLY <1>5, <3>1
    <3>3. \A i \in A : f.minTime <= r[i].time /\ r[i].time <= f.maxTime
      BY ONLY <1>5, <3>1, <3>2
    <3> QED BY ONLY <3>1, <3>2, <3>3
  <2>2. CASE A = {} /\ f = FirstPattern(q)
    <3>1. f.count = 0 /\ f.time = 0 /\ f.minTime = q.time /\ f.maxTime = 0
      BY ONLY <2>2 DEF FirstPattern
    <3> QED BY ONLY <1>5, <1>8, <2>2, <3>1
  <2> QED BY <2>1, <2>2
<1>10. /\ g.count = f.count + 1 /\ g.time = f.time + q.time
       /\ g.minTime = Advisor!Min({f.minTime, q.time}) /\ g.maxTime = Advisor!Max({f.maxTime, q.time})
  BY DEF MorePattern
<1> HIDE DEF A, B, g, t, n
<1>11. /\ g.minTime = IF f.minTime < q.time THEN f.minTime ELSE q.time
       /\ g.maxTime = IF f.maxTime < q.time THEN q.time ELSE f.maxTime
  <2>1. f.minTime \in Int /\ f.maxTime \in Int /\ q.time \in Int
    BY ONLY <1>5, <1>9
  <2> QED BY ONLY <1>10, <2>1, LargerOfTwo
<1>12. g.count = Advisor!Cardinality(B) /\ g.time = Advisor!TimeOf(t, B)
  BY ONLY <1>1, <1>6, <1>7, <1>9, <1>10
<1>13. (\A i \in A : t[i] = r[i]) /\ t[n] = q
  BY ONLY <1>2, <1>3
<1>14. \A i \in B : t[i].time \in g.minTime..g.maxTime
  <2>1. g.minTime \in Nat /\ g.maxTime \in Nat /\ q.time \in g.minTime..g.maxTime
    BY ONLY <1>5, <1>9, <1>11
  <2>2. \A i \in A : r[i].time \in g.minTime..g.maxTime
    BY ONLY <1>5, <1>9, <1>11
  <2> QED BY ONLY <1>1, <1>13, <2>1, <2>2
<1>15. (\E i \in B : t[i].time = g.minTime) /\ \E i \in B : t[i].time = g.maxTime
  <2>1. n \in B /\ A \in SUBSET B
    BY ONLY <1>1
  <2>2. g.minTime = q.time \/ \E i \in A : r[i].time = g.minTime
    BY ONLY <1>9, <1>11
  <2>3. g.maxTime = q.time \/ \E i \in A : r[i].time = g.maxTime
    BY ONLY <1>5, <1>9, <1>11
  <2> QED BY ONLY <1>13, <2>1, <2>2, <2>3
<1> QED BY ONLY <1>12, <1>14, <1>15 DEF PatternOf, B, g, t

\* updateStatistics: the figures of the connection of a query with that query.
LEMMA FiguresGrow ==
  ASSUME Advisor!OptimizationAssumption, NEW r \in Seq(ReportedQueries), NEW q \in ReportedQueries,
         NEW s, FiguresOf(r, q.connection, s)
  PROVE  FiguresOf(Append(r, q), q.connection, Advisor!WithPattern(Advisor!Counted(s, q), q))
<1> DEFINE c == q.connection  t == Append(r, q)  n == Len(r) + 1  ps == s.queryPatterns
           p == Advisor!Pattern(q.text)  old == Advisor!At(ps, p, FirstPattern(q))
           qs == Advisor!Put(ps, p, MorePattern(old, q))
           new == Advisor!WithPattern(Advisor!Counted(s, q), q)
<1>1. s = CountsOf(r, c, ps) /\ PatternsOf(r, c, ps)
  BY DEF FiguresOf
<1> HIDE DEF ps
<1>2. new = [totalQueries |-> Advisor!Cardinality(MineOf(r, c)) + 1,
             time |-> Advisor!TimeOf(r, MineOf(r, c)) + q.time,
             slowQueries |-> Advisor!Cardinality(LongerOf(r, c, SlowQuery)) + (IF q.time > SlowQuery THEN 1 ELSE 0),
             verySlowQueries |->
               Advisor!Cardinality(LongerOf(r, c, VerySlowQuery)) + (IF q.time > VerySlowQuery THEN 1 ELSE 0),
             cachedQueries |-> Advisor!Cardinality(CachedOf(r, c)) + (IF q.cached THEN 1 ELSE 0),
             queryPatterns |-> qs]
  <2> DEFINE counted == Advisor!Counted(s, q)
  <2>1. counted = [totalQueries |-> Advisor!Cardinality(MineOf(r, c)) + 1,
                   time |-> Advisor!TimeOf(r, MineOf(r, c)) + q.time,
                   slowQueries |-> Advisor!Cardinality(LongerOf(r, c, SlowQuery)) + (IF q.time > SlowQuery THEN 1 ELSE 0),
                   verySlowQueries |->
                     Advisor!Cardinality(LongerOf(r, c, VerySlowQuery)) + (IF q.time > VerySlowQuery THEN 1 ELSE 0),
                   cachedQueries |-> Advisor!Cardinality(CachedOf(r, c)) + (IF q.cached THEN 1 ELSE 0),
                   queryPatterns |-> ps]
    <3> DEFINE v1 == Advisor!Cardinality(MineOf(r, c))  v2 == Advisor!TimeOf(r, MineOf(r, c))
               v3 == Advisor!Cardinality(LongerOf(r, c, SlowQuery))
               v4 == Advisor!Cardinality(LongerOf(r, c, VerySlowQuery))
               v5 == Advisor!Cardinality(CachedOf(r, c))
               b3 == IF q.time > SlowQuery THEN 1 ELSE 0
               b4 == IF q.time > VerySlowQuery THEN 1 ELSE 0
               b5 == IF q.cached THEN 1 ELSE 0
    <3>1. s = [totalQueries |-> v1, time |-> v2, slowQueries |-> v3, verySlowQueries |-> v4,
               cachedQueries |-> v5, queryPatterns |-> ps]
      BY ONLY <1>1 DEF CountsOf
    <3>2. counted = [s EXCEPT !.totalQueries = s.totalQueries + 1, !.time = s.time + q.time,
                       !.cachedQueries = s.cachedQueries + b5,
                       !.slowQueries = s.slowQueries + b3, !.verySlowQueries = s.verySlowQueries + b4]
      BY ONLY DEF counted, b3, b4, b5, Advisor!Counted, Advisor!One
    <3> HIDE DEF v1, v2, v3, v4, v5, b3, b4, b5
    <3>3. counted = [totalQueries |-> v1 + 1, time |-> v2 + q.time, slowQueries |-> v3 + b3,
                     verySlowQueries |-> v4 + b4, cachedQueries |-> v5 + b5, queryPatterns |-> ps]
      BY ONLY <3>1, <3>2
    <3> QED BY ONLY <3>3 DEF v1, v2, v3, v4, v5, b3, b4, b5
  <2>2. Advisor!WithPattern(counted, q) =
          [counted EXCEPT !.queryPatterns =
             Advisor!Put(counted.queryPatterns, p,
                         MorePattern(Advisor!At(counted.queryPatterns, p, FirstPattern(q)), q))]
    BY DEF Advisor!WithPattern, FirstPattern, MorePattern
  <2> HIDE DEF counted, p
  <2>3. counted.queryPatterns = ps
    BY ONLY <2>1
  <2>4. Advisor!WithPattern(counted, q) = [counted EXCEPT !.queryPatterns = qs]
    BY ONLY <2>2, <2>3 DEF qs, old
  <2> HIDE DEF qs
  <2> QED BY ONLY <2>1, <2>4 DEF counted, new
<1> HIDE DEF new, qs, old
<1>3. new = CountsOf(t, c, qs)
  <2>1. MoreSets(t, r, q, n) /\ Len(r) \in Nat
    BY OneMore
  <2>2. /\ MineOf(r, c) \in SUBSET (1..Len(r)) /\ CachedOf(r, c) \in SUBSET (1..Len(r))
        /\ \A l : LongerOf(r, c, l) \in SUBSET (1..Len(r))
    BY SetsOfQueries
  <2>3. Advisor!TimeOf(t, MineOf(t, c)) = Advisor!TimeOf(r, MineOf(r, c)) + q.time
    BY <2>1, <2>2, TimeWith DEF MoreSets
  <2>4. \A A \in SUBSET (1..Len(r)) :
          /\ Advisor!Cardinality(A) \in Nat /\ Advisor!Cardinality(A \cup {n}) = Advisor!Cardinality(A) + 1
    BY <2>1, SizeMore
  <2> HIDE DEF t, n, c
  <2>7. /\ MineOf(t, c) = MineOf(r, c) \cup {n}
        /\ CachedOf(t, c) = IF q.cached THEN CachedOf(r, c) \cup {n} ELSE CachedOf(r, c)
        /\ \A l : LongerOf(t, c, l) =
                   IF q.time > l THEN LongerOf(r, c, l) \cup {n} ELSE LongerOf(r, c, l)
    BY ONLY <2>1 DEF MoreSets, c
  <2>8. /\ Advisor!Cardinality(CachedOf(r, c)) \in Nat
        /\ \A l : Advisor!Cardinality(LongerOf(r, c, l)) \in Nat
    BY ONLY <2>2, <2>4
  <2>5. /\ Advisor!Cardinality(MineOf(t, c)) = Advisor!Cardinality(MineOf(r, c)) + 1
        /\ Advisor!Cardinality(CachedOf(t, c)) = Advisor!Cardinality(CachedOf(r, c)) + (IF q.cached THEN 1 ELSE 0)
    <3>1. CASE q.cached
      BY ONLY <2>2, <2>4, <2>7, <2>8, <3>1
    <3>2. CASE ~q.cached
      BY ONLY <2>2, <2>4, <2>7, <2>8, <3>2
    <3> QED BY <3>1, <3>2
  <2>6. \A l : Advisor!Cardinality(LongerOf(t, c, l)) =
                 Advisor!Cardinality(LongerOf(r, c, l)) + (IF q.time > l THEN 1 ELSE 0)
    <3>1. SUFFICES ASSUME NEW l PROVE Advisor!Cardinality(LongerOf(t, c, l)) =
                                        Advisor!Cardinality(LongerOf(r, c, l)) + (IF q.time > l THEN 1 ELSE 0)
      OBVIOUS
    <3>2. CASE q.time > l
      BY ONLY <2>2, <2>4, <2>7, <2>8, <3>2
    <3>3. CASE ~(q.time > l)
      BY ONLY <2>2, <2>4, <2>7, <2>8, <3>3
    <3> QED BY <3>2, <3>3
  <2> QED BY ONLY <1>2, <2>3, <2>5, <2>6 DEF CountsOf
<1>4. PatternOf(t, c, p, MorePattern(old, q))
  <2>1. CASE p \in DOMAIN ps
    <3>1. PatternOf(r, c, p, old)
      BY ONLY <1>1, <2>1 DEF PatternsOf, old, Advisor!At
    <3> QED BY <3>1, PatternGrows
  <2>2. CASE p \notin DOMAIN ps
    <3>1. AlikeOf(r, c, p) = {}
      BY ONLY <1>1, <2>2 DEF PatternsOf, AlikeOf
    <3>2. old = FirstPattern(q)
      BY ONLY <2>2 DEF old, Advisor!At
    <3> QED BY <3>1, <3>2, PatternGrows
  <2> QED BY <2>1, <2>2
<1>5. ASSUME NEW k \in DOMAIN ps, k # p PROVE PatternOf(t, c, k, ps[k])
  <2>1. PatternOf(r, c, k, ps[k])
    BY ONLY <1>1, k \in DOMAIN ps DEF PatternsOf
  <2>2. AlikeOf(t, c, k) = AlikeOf(r, c, k)
    BY <1>5, OneMore DEF MoreSets
  <2>3. AlikeOf(r, c, k) \in SUBSET (1..Len(r))
    BY SetsOfQueries
  <2>4. Advisor!TimeOf(t, AlikeOf(r, c, k)) = Advisor!TimeOf(r, AlikeOf(r, c, k))
    BY <2>3, TimeWith
  <2>5. \A i \in AlikeOf(r, c, k) : t[i] = r[i]
    BY <2>3
  <2> HIDE DEF t
  <2> QED BY ONLY <2>1, <2>2, <2>4, <2>5 DEF PatternOf
<1>6. DOMAIN qs = {Advisor!Pattern(t[i].text) : i \in MineOf(t, c)}
  <2>1. DOMAIN qs = DOMAIN ps \cup {p}
    BY DEF qs, Advisor!Put
  <2>2. DOMAIN ps = {Advisor!Pattern(r[i].text) : i \in MineOf(r, c)}
    BY ONLY <1>1 DEF PatternsOf
  <2>3. MineOf(t, c) = MineOf(r, c) \cup {n}
    BY OneMore DEF MoreSets
  <2>5. t[n] = q
    OBVIOUS
  <2>4. \A i \in MineOf(r, c) : t[i] = r[i]
    BY SetsOfQueries
  <2> HIDE DEF t, n
  <2> QED BY ONLY <2>1, <2>2, <2>3, <2>4, <2>5
<1>7. ASSUME NEW k \in DOMAIN qs PROVE PatternOf(t, c, k, qs[k])
  <2>1. qs[k] = (IF k = p THEN MorePattern(old, q) ELSE ps[k]) /\ (k = p \/ k \in DOMAIN ps)
    BY DEF qs, Advisor!Put
  <2> QED BY ONLY <1>4, <1>5, <2>1
<1>8. PatternsOf(t, c, qs)
  BY ONLY <1>6, <1>7 DEF PatternsOf
<1>9. new.queryPatterns = qs
  BY ONLY <1>2
<1> QED BY ONLY <1>3, <1>8, <1>9 DEF FiguresOf, new, t

\* What SlowIsAdvised says of the suggestions of a connection, of any sequence of queries.
AdviceOf(r, c, s) ==
  /\ s \in Seq(Pairs) /\ Len(s) <= MaxSuggestions
  /\ \A i \in AdvisingOf(r, c) :
       (\A j \in AdvisingOf(r, c) : j <= i) =>
         /\ Len(s) # 0 /\ s[Len(s)][1] = r[i].text
         /\ ~r[i].cached /\ r[i].time > SlowQuery => s[Len(s)][2] = "uncached"

\* What the service keeps, of the queries r: a history, figures and suggestions.
KeptOf(r, kept, stats, suggestions) ==
  /\ r \in Seq(ReportedQueries)
  /\ kept = Advisor!Newest(r, KeptQueries)
  /\ DOMAIN stats = {r[i].connection : i \in DOMAIN r}
  /\ \A c \in DOMAIN stats : FiguresOf(r, c, stats[c])
  /\ \A c : AdviceOf(r, c, Advisor!At(suggestions, c, <<>>))
AdviceInv == KeptOf(recorded, queryHistory, statistics, optimizationSuggestions)

LEMMA AdviceOfOthers ==
  ASSUME NEW r \in Seq(ReportedQueries), NEW q \in ReportedQueries,
         NEW c, NEW s, AdviceOf(r, c, s),
         q.connection # c \/ ~ (q.slow /\ Advisor!Raised(q) # {})
  PROVE  AdviceOf(Append(r, q), c, s)
<1> DEFINE t == Append(r, q)
<1>1. AdvisingOf(t, c) = AdvisingOf(r, c)
  <2>1. CASE q.connection # c
    BY <2>1, OneMore DEF SameSets
  <2>2. CASE q.connection = c
    BY <2>2, OneMore DEF MoreSets
  <2> QED BY <2>1, <2>2
<1>2. \A i \in 1..Len(r) : t[i] = r[i]
  OBVIOUS
<1>3. AdvisingOf(r, c) \in SUBSET (1..Len(r))
  BY SetsOfQueries
<1> HIDE DEF t
<1>4. \A i \in AdvisingOf(r, c) : t[i] = r[i]
  BY ONLY <1>2, <1>3
<1> QED BY ONLY <1>1, <1>4, AdviceOf(r, c, s) DEF AdviceOf, t

\* handleSlowQuery: the suggestions of a query are the last.
LEMMA AdviceGrows ==
  ASSUME Advisor!OptimizationAssumption, NEW r \in Seq(ReportedQueries), NEW q \in ReportedQueries,
         NEW s \in Seq(Pairs), q.slow, Advisor!Raised(q) # {}
  PROVE  AdviceOf(Append(r, q), q.connection,
                  Advisor!Newest(s \o Advisor!Suggestions(q), MaxSuggestions))
<1> DEFINE t == Append(r, q)  n == Len(r) + 1  c == q.connection
           more == Advisor!Suggestions(q)  all == s \o more
           kept == Advisor!Newest(all, MaxSuggestions)
           l == IF Len(all) < MaxSuggestions THEN Len(all) ELSE MaxSuggestions
<1>1. /\ more \in Seq(Pairs) /\ more # <<>>
      /\ \A k \in 1..Len(more) : more[k][1] = q.text
      /\ ~q.cached /\ q.time > SlowQuery => more[Len(more)][2] = "uncached"
  BY SuggestionsAre
<1> HIDE DEF more
<1>2. Len(more) \in Nat /\ Len(more) # 0 /\ Len(s) \in Nat
  BY <1>1
<1>3. all \in Seq(Pairs) /\ Len(all) = Len(s) + Len(more) /\ all[Len(s) + Len(more)] = more[Len(more)]
  BY <1>1, <1>2
<1>4. MaxSuggestions \in Nat \ {0}
  BY QueryKinds
<1> HIDE DEF all
<1>5. kept \in Seq(Pairs) /\ Len(kept) = l /\ \A i \in 1..l : kept[i] = all[Len(all) - l + i]
  BY ONLY <1>3, <1>4, NewestIs
<1> HIDE DEF kept
<1>6. l \in 1..MaxSuggestions /\ Len(all) - l + l = Len(all) /\ l \in 1..l /\ Len(more) \in 1..Len(more)
  BY ONLY <1>2, <1>3, <1>4
<1> HIDE DEF l
<1>7. kept[l] = more[Len(more)]
  BY ONLY <1>3, <1>5, <1>6
<1>8. n \in AdvisingOf(t, c)
  BY OneMore DEF MoreSets
<1>9. AdvisingOf(t, c) \in SUBSET (1..n) /\ t[n] = q
  <2>1. t \in Seq(ReportedQueries) /\ Len(t) = n /\ t[n] = q
    OBVIOUS
  <2> HIDE DEF t, n, c
  <2> QED BY ONLY <2>1, SetsOfQueries
<1>10. n \in Nat
  OBVIOUS
<1> HIDE DEF t, n, c
<1>11. \A i \in AdvisingOf(t, c) : (\A j \in AdvisingOf(t, c) : j <= i) => i = n
  BY ONLY <1>8, <1>9, <1>10
<1>12. Len(kept) # 0 /\ Len(kept) <= MaxSuggestions /\ Len(kept) = l
  BY ONLY <1>4, <1>5, <1>6
<1>13. AdviceOf(t, c, kept)
  BY ONLY <1>1, <1>5, <1>6, <1>7, <1>9, <1>11, <1>12 DEF AdviceOf
<1> QED BY ONLY <1>13 DEF t, c, kept, all, more

\* Where nothing is recorded.
LEMMA NothingAdvised ==
  ASSUME Advisor!OptimizationAssumption PROVE KeptOf(<<>>, <<>>, <<>>, <<>>)
<1> DEFINE r == <<>>
<1>1. r \in Seq(ReportedQueries) /\ Len(r) = 0 /\ DOMAIN r = {} /\ DOMAIN <<>> = {}
  OBVIOUS
<1> HIDE DEF r
<1>2. KeptQueries \in Nat \ {0} /\ MaxSuggestions \in Nat
  BY QueryKinds
<1>3. Advisor!Newest(r, KeptQueries) = <<>>
  <2> DEFINE l == IF Len(r) < KeptQueries THEN Len(r) ELSE KeptQueries
             kept == Advisor!Newest(r, KeptQueries)
  <2>1. kept \in Seq(ReportedQueries) /\ Len(kept) = l
    BY <1>1, <1>2, NewestIs
  <2> HIDE DEF kept
  <2>2. l = 0
    BY ONLY <1>1, <1>2 DEF l
  <2>3. kept = <<>>
    BY ONLY <2>1, <2>2
  <2> QED BY ONLY <2>3 DEF kept
<1>4. \A c : AdvisingOf(r, c) = {}
  BY ONLY <1>1 DEF AdvisingOf, MineOf
<1>5. \A c : Advisor!At(<<>>, c, <<>>) = <<>>
  BY <1>1 DEF Advisor!At
<1>6. <<>> \in Seq(Pairs) /\ Len(<<>>) = 0
  OBVIOUS
<1>7. \A c : AdviceOf(r, c, <<>>)
  BY ONLY <1>2, <1>4, <1>6 DEF AdviceOf
<1>8. DOMAIN <<>> = {} /\ {r[i].connection : i \in DOMAIN r} = {}
  BY <1>1
<1>9. DOMAIN <<>> = {}
  OBVIOUS
<1>10. KeptOf(r, <<>>, <<>>, <<>>)
  BY ONLY <1>1, <1>3, <1>5, <1>7, <1>8, <1>9 DEF KeptOf
<1> QED BY ONLY <1>10 DEF r

LEMMA AdviceStarts ==
  ASSUME Advisor!OptimizationAssumption, Advisor!Init
  PROVE  AdviceInv
<1>1. recorded = <<>> /\ queryHistory = <<>> /\ statistics = <<>> /\ optimizationSuggestions = <<>>
  BY DEF Advisor!Init
<1> QED BY <1>1, NothingAdvised DEF AdviceInv

\* A query that is recorded.
LEMMA AdviceRecords ==
  ASSUME Advisor!OptimizationAssumption, AdviceInv, NEW q \in ReportedQueries, Advisor!RecordQuery(q)
  PROVE  AdviceInv'
<1> DEFINE t == Append(recorded, q)  c == q.connection
           s == Advisor!GetStatistics(c)
           new == Advisor!WithPattern(Advisor!Counted(s, q), q)
<1>1. /\ queryHistory' = Advisor!Newest(Append(queryHistory, q), KeptQueries)
      /\ statistics' = Advisor!Put(statistics, c, new)
      /\ optimizationSuggestions' = Advisor!Advised(q)
      /\ recorded' = t
  BY DEF Advisor!RecordQuery
<1>2. /\ recorded \in Seq(ReportedQueries)
      /\ queryHistory = Advisor!Newest(recorded, KeptQueries)
      /\ DOMAIN statistics = {recorded[i].connection : i \in DOMAIN recorded}
      /\ \A k \in DOMAIN statistics : FiguresOf(recorded, k, statistics[k])
      /\ \A k : AdviceOf(recorded, k, Advisor!OptimizationSuggestions(k))
  BY DEF AdviceInv, KeptOf, Advisor!OptimizationSuggestions
<1>3. t \in Seq(ReportedQueries)
  BY <1>2
<1>4. Advisor!Newest(Append(queryHistory, q), KeptQueries) = Advisor!Newest(t, KeptQueries)
  <2>1. KeptQueries \in Nat \ {0}
    BY QueryKinds
  <2> QED BY ONLY <1>2, <2>1, q \in ReportedQueries, NewestMore
<1>5. {t[i].connection : i \in DOMAIN t} = DOMAIN statistics \cup {c}
  <2>1. /\ DOMAIN t = 1..(Len(recorded) + 1) /\ DOMAIN recorded = 1..Len(recorded)
        /\ t[Len(recorded) + 1] = q /\ \A i \in 1..Len(recorded) : t[i] = recorded[i]
        /\ Len(recorded) \in Nat
    BY <1>2
  <2>2. /\ DOMAIN t = DOMAIN recorded \cup {Len(recorded) + 1}
        /\ \A i \in DOMAIN recorded : t[i] = recorded[i]
    BY ONLY <2>1
  <2> HIDE DEF t
  <2>3. \A i \in DOMAIN recorded : t[i].connection = recorded[i].connection
    BY ONLY <2>2
  <2> QED BY ONLY <1>2, <2>1, <2>2, <2>3 DEF c
<1>6. FiguresOf(recorded, c, s)
  <2>1. CASE c \in DOMAIN statistics
    BY <1>2, <2>1 DEF Advisor!GetStatistics, Advisor!At
  <2>2. CASE c \notin DOMAIN statistics
    <3>1. MineOf(recorded, c) = {}
      BY <1>2, <2>2 DEF MineOf
    <3>2. s = Advisor!EmptyStatistics
      BY <2>2 DEF Advisor!GetStatistics, Advisor!At
    <3> QED BY <1>2, <3>1, <3>2, FiguresOfNone
  <2> QED BY <2>1, <2>2
<1>7. FiguresOf(t, c, new)
  BY <1>2, <1>6, FiguresGrow
<1> HIDE DEF new, s
<1>8. DOMAIN statistics' = {t[i].connection : i \in DOMAIN t}
  BY <1>1, <1>5 DEF Advisor!Put
<1>9. ASSUME NEW k \in DOMAIN statistics' PROVE FiguresOf(t, k, statistics'[k])
  <2>1. statistics'[k] = (IF k = c THEN new ELSE statistics[k]) /\ (k = c \/ k \in DOMAIN statistics)
    BY <1>1 DEF Advisor!Put
  <2>2. CASE k = c
    BY ONLY <1>7, <2>1, <2>2
  <2>3. CASE k # c
    <3>1. FiguresOf(recorded, k, statistics[k])
      BY <1>2, <2>1, <2>3
    <3> QED BY <1>2, <2>1, <2>3, <3>1, FiguresOfOthers
  <2> QED BY <2>2, <2>3
<1>10. ASSUME NEW k PROVE AdviceOf(t, k, Advisor!At(Advisor!Advised(q), k, <<>>))
  <2>1. AdviceOf(recorded, k, Advisor!At(optimizationSuggestions, k, <<>>))
    BY <1>2 DEF Advisor!OptimizationSuggestions
  <2>2. CASE q.slow /\ Advisor!Raised(q) # {} /\ k = c
    <3>1. Advisor!Suggestions(q) # <<>>
      BY <2>2, SuggestionsAre
    <3>2. Advisor!At(Advisor!Advised(q), k, <<>>)
            = Advisor!Newest(Advisor!At(optimizationSuggestions, c, <<>>) \o Advisor!Suggestions(q), MaxSuggestions)
      BY <2>2, <3>1, AtPut DEF Advisor!Advised
    <3>3. Advisor!At(optimizationSuggestions, c, <<>>) \in Seq(Pairs)
      BY <2>1, <2>2 DEF AdviceOf
    <3> QED BY <1>2, <2>2, <3>2, <3>3, AdviceGrows
  <2>3. CASE ~ (q.slow /\ Advisor!Raised(q) # {}) \/ k # c
    <3>1. Advisor!At(Advisor!Advised(q), k, <<>>) = Advisor!At(optimizationSuggestions, k, <<>>)
      <4>1. Advisor!Suggestions(q) = <<>> <=> Advisor!Raised(q) = {}
        BY SuggestionsAre
      <4> QED BY <2>3, <4>1, AtPut DEF Advisor!Advised
    <3> QED BY <1>2, <2>1, <2>3, <3>1, AdviceOfOthers
  <2> QED BY <2>2, <2>3
<1> HIDE DEF t, c
<1>11. \A k : AdviceOf(recorded', k, Advisor!At(optimizationSuggestions', k, <<>>))
  BY <1>1, <1>10
<1> QED BY <1>1, <1>3, <1>4, <1>8, <1>9, <1>11 DEF AdviceInv, KeptOf

LEMMA AdviceStep ==
  ASSUME Advisor!OptimizationAssumption, AdviceInv, [Advisor!Next]_(Advisor!vars)
  PROVE  AdviceInv'
<1>1. ASSUME NEW q \in ReportedQueries, Advisor!RecordQuery(q) PROVE AdviceInv'
  BY <1>1, AdviceRecords
<1>2. ASSUME UNCHANGED <<queryHistory, statistics, optimizationSuggestions, recorded>> PROVE AdviceInv'
  BY <1>2 DEF AdviceInv
<1>3. CASE Advisor!EnableMonitoring \/ Advisor!DisableMonitoring \/ UNCHANGED Advisor!vars
  BY <1>2, <1>3 DEF Advisor!EnableMonitoring, Advisor!DisableMonitoring, Advisor!vars
<1>4. CASE Advisor!ClearStatistics
  <2>1. recorded' = <<>> /\ queryHistory' = <<>> /\ statistics' = <<>> /\ optimizationSuggestions' = <<>>
    BY <1>4 DEF Advisor!ClearStatistics
  <2> QED BY <2>1, NothingAdvised DEF AdviceInv
<1> QED BY <1>1, <1>3, <1>4 DEF Advisor!Next

\* What is kept of the figures, the history and the suggestions is true.
LEMMA AdviceKept ==
  ASSUME Advisor!OptimizationAssumption, AdviceInv
  PROVE  Advisor!FiguresTrue /\ Advisor!HistoryNewest /\ Advisor!SlowIsAdvised
<1>1. /\ \A c : MineOf(recorded, c) = Advisor!Mine(c)
      /\ \A c, l : LongerOf(recorded, c, l) = Advisor!Longer(c, l)
      /\ \A c, p : AlikeOf(recorded, c, p) = Advisor!Alike(c, p)
      /\ \A c : AdvisingOf(recorded, c) = Advisor!Advising(c)
  BY DEF MineOf, LongerOf, AlikeOf, AdvisingOf, Advisor!Mine, Advisor!Longer, Advisor!Alike, Advisor!Advising
<1>2. \A c : CachedOf(recorded, c) = {i \in Advisor!Mine(c) : recorded[i].cached}
  BY DEF CachedOf, MineOf, Advisor!Mine
<1>3. ASSUME NEW c \in DOMAIN statistics, NEW p, NEW f, PatternOf(recorded, c, p, f)
      PROVE  Advisor!PatternTrue(c, p, f)
  BY <1>1, <1>3 DEF PatternOf, Advisor!PatternTrue
<1>4. Advisor!FiguresTrue
  <2>1. DOMAIN statistics = {recorded[i].connection : i \in DOMAIN recorded}
    BY DEF AdviceInv, KeptOf, Advisor!OptimizationSuggestions
  <2>2. ASSUME NEW c \in DOMAIN statistics
        PROVE  LET s == statistics[c] IN
               /\ s.totalQueries = Advisor!Cardinality(Advisor!Mine(c))
               /\ s.time = Advisor!TimeOf(recorded, Advisor!Mine(c))
               /\ s.slowQueries = Advisor!Cardinality(Advisor!Longer(c, SlowQuery))
               /\ s.verySlowQueries = Advisor!Cardinality(Advisor!Longer(c, VerySlowQuery))
               /\ s.cachedQueries = Advisor!Cardinality({i \in Advisor!Mine(c) : recorded[i].cached})
               /\ DOMAIN s.queryPatterns = {Advisor!Pattern(recorded[i].text) : i \in Advisor!Mine(c)}
               /\ \A p \in DOMAIN s.queryPatterns : Advisor!PatternTrue(c, p, s.queryPatterns[p])
    <3> DEFINE s == statistics[c]
    <3>1. s = CountsOf(recorded, c, s.queryPatterns) /\ PatternsOf(recorded, c, s.queryPatterns)
      BY DEF AdviceInv, KeptOf, FiguresOf
    <3> HIDE DEF s
    <3>2. /\ s.totalQueries = Advisor!Cardinality(Advisor!Mine(c))
          /\ s.time = Advisor!TimeOf(recorded, Advisor!Mine(c))
          /\ s.slowQueries = Advisor!Cardinality(Advisor!Longer(c, SlowQuery))
          /\ s.verySlowQueries = Advisor!Cardinality(Advisor!Longer(c, VerySlowQuery))
          /\ s.cachedQueries = Advisor!Cardinality({i \in Advisor!Mine(c) : recorded[i].cached})
      <4> DEFINE ps == s.queryPatterns
      <4>1. s = CountsOf(recorded, c, ps)
        BY ONLY <3>1
      <4> HIDE DEF ps
      <4>2. /\ s.totalQueries = Advisor!Cardinality(MineOf(recorded, c))
            /\ s.time = Advisor!TimeOf(recorded, MineOf(recorded, c))
            /\ s.slowQueries = Advisor!Cardinality(LongerOf(recorded, c, SlowQuery))
            /\ s.verySlowQueries = Advisor!Cardinality(LongerOf(recorded, c, VerySlowQuery))
            /\ s.cachedQueries = Advisor!Cardinality(CachedOf(recorded, c))
        BY ONLY <4>1 DEF CountsOf
      <4> QED BY ONLY <1>1, <1>2, <4>2
    <3>3. /\ DOMAIN s.queryPatterns = {Advisor!Pattern(recorded[i].text) : i \in Advisor!Mine(c)}
          /\ \A p \in DOMAIN s.queryPatterns : PatternOf(recorded, c, p, s.queryPatterns[p])
      BY ONLY <1>1, <3>1 DEF PatternsOf
    <3> QED BY <1>3, <3>2, <3>3 DEF s
  <2> QED BY ONLY <2>1, <2>2 DEF Advisor!FiguresTrue
<1>5. Advisor!HistoryNewest
  <2>1. recorded \in Seq(ReportedQueries) /\ queryHistory = Advisor!Newest(recorded, KeptQueries)
    BY DEF AdviceInv, KeptOf, Advisor!OptimizationSuggestions
  <2>2. queryHistory \in Seq(ReportedQueries)
    BY <2>1, QueryKinds, NewestIs
  <2> QED BY <2>1, <2>2, TopIs DEF Advisor!HistoryNewest
<1>6. Advisor!SlowIsAdvised
  <2>1. \A c : AdviceOf(recorded, c, Advisor!OptimizationSuggestions(c))
    BY DEF AdviceInv, KeptOf, Advisor!OptimizationSuggestions
  <2>2. \A c : Advisor!OptimizationSuggestions(c) = <<>> => Len(Advisor!OptimizationSuggestions(c)) = 0
    OBVIOUS
  <2> QED BY ONLY <1>1, <2>1, <2>2 DEF AdviceOf, Advisor!SlowIsAdvised
<1> QED BY <1>4, <1>5, <1>6
=============================================================================
