------------------------------ MODULE MCDatabases ------------------------------
(***************************************************************************)
(* The libraries with a state that the proofs are about: the connections   *)
(* of the database module and their health, a collection or table behind   *)
(* the base repositories, a purse of money, and the advice on queries;     *)
(* with the values of their constants.                                     *)
(***************************************************************************)
EXTENDS Integers, Sequences, FiniteSets

CONSTANTS
  Configured, Nest, HealthCheck, Users, MaxHistory, MaxChecks, MaxFaults,       \* of Connections
  Writers, RowKeys, RowStatuses, Dialects, StoreJobs, FirstRows, MaxRows, BatchSize, PageLimit, \* of Store
  Currencies, Decimals, RateScale, Mantissa, Amounts, Parts, Percents, Rates, MaxPurse,                     \* of Money
  ReportedQueries, WorthCaching, SlowQuery, SlowJoin, VerySlowQuery, KeptQueries,
  MaxSuggestions, MaxReported, MaxRecorded                                          \* of QueryOptimization

VARIABLES
  server, faults, dbClient, held, registry, module, at,
  interval, intervals, checks, history, ended,
  dialect, unique, rows, last, job,
  purse,
  monitoringEnabled, queryHistory, statistics, optimizationSuggestions, recorded

Database == INSTANCE Connections WITH client <- dbClient
Table == INSTANCE Store WITH
  Callers <- Writers, Keys <- RowKeys, Statuses <- RowStatuses, Jobs <- StoreJobs, InitialRows <- FirstRows
Cash == INSTANCE Money
Advisor == INSTANCE QueryOptimization WITH Queries <- ReportedQueries, MaxHistory <- KeptQueries

\* One connection of each type, none of them opened by the container.
MCConfigured == <<<<"postgres", "main">>, <<"mongodb", "docs">>, <<"redis", "cache">>>>

\* Jobs of every kind, of one record, of two with different keys and of three with a key
\* that occurs twice, or with one that the schema refuses.
RowWith(key, status) == [key |-> key, status |-> status, deleted |-> FALSE, n |-> 0, tags |-> <<>>]
AJob(op, records, keep) ==
  [op |-> op, records |-> records, keep |-> keep, size |-> 0, settles |-> FALSE, sorted |-> FALSE]
ABatch(size, settles, sorted) ==
  [op |-> "batch", records |-> <<>>, keep |-> FALSE, size |-> size, settles |-> settles, sorted |-> sorted]
Singles ==
  {"create", "delete", "deleteMany", "updateMany", "update", "softDelete", "restore",
   "increment", "decrement", "push", "pull", "addToSet"}
MCStoreJobs ==
  {AJob("upserts", <<RowWith("k", "open")>>, TRUE),
   AJob("upserts", <<RowWith("k", "done"), RowWith("m", "open")>>, FALSE),
   AJob("createMany", <<RowWith("k", "open"), RowWith("m", "bad"), RowWith("k", "done")>>, FALSE),
   AJob("createMany", <<RowWith("m", "open"), RowWith("n", "open"), RowWith("k", "open")>>, FALSE),
   AJob("transaction", <<RowWith("k", "open"), RowWith("m", "open")>>, FALSE),
   ABatch(2, FALSE, TRUE), ABatch(2, FALSE, FALSE), ABatch(9, TRUE, FALSE)}
  \cup {AJob(op, <<RowWith("k", "done")>>, FALSE) : op \in Singles}
MCFirstRows == {<<>>, <<RowWith("k", "open"), RowWith("m", "open"), RowWith("n", "open")>>}

\* Amounts below zero, of few units and of many; currencies of each kind.
MCDecimals == [JPY |-> 0, USD |-> 2, KWD |-> 3]
MCAmounts == {-7, 0, 1, 10, 25}
MCRates == {<<3, 8>>, <<3, 2>>, <<7, 1>>, <<1, 1>>, <<5, 16>>}

\* Queries of two connections, that differ in their values only, or in the issues they raise.
Query(connection, form, has, literal, time, cached, slow) ==
  [connection |-> connection, text |-> [form |-> form, has |-> has, literal |-> literal],
   time |-> time, cached |-> cached, slow |-> slow]
Joining == {"SELECT", "SELECT *", "WHERE", "JOIN"}
MCReportedQueries ==
  {Query("main", "sql", Joining, 1, 4, FALSE, TRUE), Query("main", "sql", Joining, 2, 1, FALSE, FALSE),
   Query("main", "sql", {"UPDATE", "WHERE", "LIKE '%"}, 1, 3, TRUE, TRUE),
   Query("main", "other", {}, 1, 3, TRUE, TRUE),
   Query("docs", "json", {"$in", "$regex"}, 1, 5, FALSE, TRUE),
   Query("docs", "json", {"$in", "$regex"}, 2, 2, FALSE, FALSE),
   Query("docs", "broken", {}, 1, 2, FALSE, TRUE)}
=============================================================================
