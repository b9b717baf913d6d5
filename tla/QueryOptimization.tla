-------------------------- MODULE QueryOptimization --------------------------
(***************************************************************************)
(* QueryOptimizationService: the queries that the services of the stores   *)
(* report, kept as a history, as statistics of each connection and of each *)
(* pattern of a query, and as suggestions.                                 *)
(*                                                                         *)
(* A query is a record [connection, text, time, cached, slow], its text a  *)
(* record [form, has, literal]: form is "sql" (it holds a keyword in       *)
(* capitals), "json", "broken" (begins like JSON but is none) or "other",  *)
(* has are the parts that suggestions look for, and literal stands for its *)
(* values.  Averages are kept as sums: the mean is time over the count.    *)
(***************************************************************************)
EXTENDS Integers, Sequences, FiniteSets, FiniteSetsExt, SequencesExt

CONSTANTS
  Queries,          \* the queries that are reported
  WorthCaching,     \* 500 ms
  SlowQuery,        \* 1000 ms, SLOW_QUERY_MS and the limit of the suggestions
  SlowJoin,         \* 2000 ms
  VerySlowQuery,    \* 5000 ms, VERY_SLOW_QUERY_MS
  MaxHistory,       \* 10000
  MaxSuggestions,   \* 100
  MaxReported,      \* 10 slow queries and
  MaxRecorded       \* bound: queries in a run

OptimizationAssumption ==
  /\ {WorthCaching, SlowQuery, SlowJoin, VerySlowQuery} \subseteq Nat
  /\ WorthCaching < SlowQuery /\ SlowQuery < VerySlowQuery
  /\ {MaxHistory, MaxSuggestions, MaxReported} \subseteq Nat \ {0} /\ MaxRecorded \in Nat
  /\ \A q \in Queries : q.time \in Nat /\ q.cached \in BOOLEAN /\ q.slow \in BOOLEAN

VARIABLES
  monitoringEnabled,
  queryHistory,
  statistics,               \* of each connection that has reported
  optimizationSuggestions,  \* of each connection that has some: pairs of a text and an issue
  recorded                  \* every query since the last clearing, which the service forgets

vars == <<monitoringEnabled, queryHistory, statistics, optimizationSuggestions, recorded>>

Init ==
  /\ monitoringEnabled = FALSE /\ queryHistory = <<>> /\ recorded = <<>>
  /\ statistics = <<>> /\ optimizationSuggestions = <<>>

EmptyStatistics ==
  [totalQueries |-> 0, time |-> 0, slowQueries |-> 0, verySlowQueries |-> 0,
   cachedQueries |-> 0, queryPatterns |-> <<>>]

\* Of a map, what is there or else a default; and a map with another value of a key.
At(map, key, default) == IF key \in DOMAIN map THEN map[key] ELSE default
Put(map, key, value) == [k \in DOMAIN map \cup {key} |-> IF k = key THEN value ELSE map[k]]
\* A faulty variant: the oldest are kept.
Oldest(seq, n) == SubSeq(seq, 1, Min({n, Len(seq)}))

Newest(seq, n) == SubSeq(seq, Max({1, Len(seq) - n + 1}), Len(seq))
One(condition) == IF condition THEN 1 ELSE 0

\* extractQueryPattern: the values of SQL and of JSON are replaced.
Pattern(text) ==
  IF text.form \in {"sql", "json"} THEN [text EXCEPT !.literal = 0] ELSE text

GetStatistics(connection) == At(statistics, connection, EmptyStatistics)

\* updateStatistics: slow and very slow by the time, whatever the caller says.
Counted(stats, q) ==
  [stats EXCEPT !.totalQueries = @ + 1, !.time = @ + q.time,
     !.cachedQueries = @ + One(q.cached),
     !.slowQueries = @ + One(q.time > SlowQuery),
     !.verySlowQueries = @ + One(q.time > VerySlowQuery)]

\* analyzeQueryPattern.
WithPattern(stats, q) ==
  LET pattern == Pattern(q.text)
      new == [count |-> 0, time |-> 0, minTime |-> q.time, maxTime |-> 0]
      old == At(stats.queryPatterns, pattern, new) IN
  [stats EXCEPT !.queryPatterns =
     Put(@, pattern, [count |-> old.count + 1, time |-> old.time + q.time,
                      minTime |-> Min({old.minTime, q.time}), maxTime |-> Max({old.maxTime, q.time})])]

\* generateOptimizationSuggestions: what it looks for, in this order, and what a query raises.
Issues ==
  <<"no WHERE or LIMIT", "SELECT *", "slow WHERE", "slow JOIN", "subquery", "leading wildcard",
    "slow MongoDB query", "$regex", "large $in", "very slow", "uncached">>
Raised(q) ==
  LET sql == q.text.form = "sql" /\ q.text.has \cap {"SELECT", "UPDATE", "DELETE"} # {}
      json == q.text.form = "json"
      has(part) == part \in q.text.has IN
  {k \in 1..Len(Issues) :
     \/ Issues[k] = "no WHERE or LIMIT" /\ sql /\ has("SELECT") /\ ~has("WHERE") /\ ~has("LIMIT")
     \/ Issues[k] = "SELECT *" /\ sql /\ has("SELECT *")
     \/ Issues[k] = "slow WHERE" /\ sql /\ has("WHERE") /\ q.time > SlowQuery
     \/ Issues[k] = "slow JOIN" /\ sql /\ has("JOIN") /\ q.time > SlowJoin
     \/ Issues[k] = "subquery" /\ sql /\ has("SELECT") /\ has("(SELECT")
     \/ Issues[k] = "leading wildcard" /\ sql /\ has("LIKE '%")
     \/ Issues[k] = "slow MongoDB query" /\ json /\ q.time > SlowQuery
     \/ Issues[k] = "$regex" /\ json /\ has("$regex")
     \/ Issues[k] = "large $in" /\ json /\ has("$in") /\ q.time > WorthCaching
     \/ Issues[k] = "very slow" /\ q.time > VerySlowQuery
     \/ Issues[k] = "uncached" /\ ~q.cached /\ q.time > WorthCaching}

\* Of a set of numbers with their places, the one at a place.
AtPlace(place, k) == CHOOSE i \in DOMAIN place : place[i] = k

Suggestions(q) ==
  LET place == [i \in Raised(q) |-> Cardinality({j \in Raised(q) : j <= i})] IN
  [k \in 1..Cardinality(Raised(q)) |-> <<q.text, Issues[AtPlace(place, k)]>>]

\* handleSlowQuery, for what the caller calls slow.
Advised(q) ==
  IF q.slow /\ Suggestions(q) # <<>>
  THEN Put(optimizationSuggestions, q.connection,
           Newest(At(optimizationSuggestions, q.connection, <<>>) \o Suggestions(q), MaxSuggestions))
  ELSE optimizationSuggestions

RecordQuery(q) ==
  /\ Len(recorded) < MaxRecorded
  /\ monitoringEnabled
  /\ queryHistory' = Newest(Append(queryHistory, q), MaxHistory)
  /\ statistics' =
       Put(statistics, q.connection, WithPattern(Counted(GetStatistics(q.connection), q), q))
  /\ optimizationSuggestions' = Advised(q)
  /\ recorded' = Append(recorded, q)
  /\ UNCHANGED monitoringEnabled

EnableMonitoring ==
  /\ ~monitoringEnabled /\ monitoringEnabled' = TRUE
  /\ UNCHANGED <<queryHistory, statistics, optimizationSuggestions, recorded>>

\* And onModuleDestroy: what was recorded stays.
DisableMonitoring ==
  /\ monitoringEnabled /\ monitoringEnabled' = FALSE
  /\ UNCHANGED <<queryHistory, statistics, optimizationSuggestions, recorded>>

ClearStatistics ==
  /\ recorded # <<>>
  /\ queryHistory' = <<>> /\ statistics' = <<>> /\ optimizationSuggestions' = <<>> /\ recorded' = <<>>
  /\ UNCHANGED monitoringEnabled

Next ==
  \/ \E q \in Queries : RecordQuery(q)
  \/ EnableMonitoring \/ DisableMonitoring \/ ClearStatistics

Spec == Init /\ [][Next]_vars

------------------------------------------------------------------------------
(* What is read of it. *)

Of(seq, connection) == SelectSeq(seq, LAMBDA q : q.connection = connection)

QueryHistory(limit, connection) == Newest(Of(queryHistory, connection), limit)
OptimizationSuggestions(connection) == At(optimizationSuggestions, connection, <<>>)

\* analyzePerformance: patterns whose mean is slow.
ProblematicPatterns(connection) ==
  LET patterns == GetStatistics(connection).queryPatterns IN
  {p \in DOMAIN patterns : patterns[p].time > SlowQuery * patterns[p].count}

\* exportPerformanceReport: of the history of a connection what is called slow, the slowest
\* first and what took the same time as it was recorded.
Slow(connection) == {i \in DOMAIN queryHistory : queryHistory[i].connection = connection /\ queryHistory[i].slow}
Before(i, j) ==
  \/ queryHistory[i].time > queryHistory[j].time
  \/ queryHistory[i].time = queryHistory[j].time /\ i <= j
TopSlowQueries(connection) ==
  LET slow == Slow(connection)
      place == [i \in slow |-> Cardinality({j \in slow : Before(j, i)})] IN
  [k \in 1..Min({MaxReported, Cardinality(slow)}) |-> queryHistory[AtPlace(place, k)]]

PerformanceReport ==
  [c \in DOMAIN statistics |->
     [statistics |-> statistics[c], suggestions |-> OptimizationSuggestions(c),
      topSlowQueries |-> TopSlowQueries(c)]]

------------------------------------------------------------------------------
(* Properties *)

\* The queries recorded of a connection, those that took longer than a limit, those of a pattern.
Mine(c) == {i \in DOMAIN recorded : recorded[i].connection = c}
Longer(c, limit) == {i \in Mine(c) : recorded[i].time > limit}
Alike(c, pattern) == {i \in Mine(c) : Pattern(recorded[i].text) = pattern}

\* The time of some queries of a sequence.
Times(seq, set) ==
  LET sum[i \in 0..Len(seq)] ==
        IF i = 0 THEN 0 ELSE sum[i - 1] + (IF i \in set THEN seq[i].time ELSE 0)
  IN sum
TimeOf(seq, set) == Times(seq, set)[Len(seq)]

\* The running figures are those of all queries since the last clearing, of the connection
\* and of its patterns, although the history forgets and monitoring stops in between.
PatternTrue(c, p, figures) ==
  LET same == Alike(c, p) IN
  /\ figures.count = Cardinality(same) /\ figures.time = TimeOf(recorded, same)
  /\ \A i \in same : recorded[i].time \in figures.minTime..figures.maxTime
  /\ \E i \in same : recorded[i].time = figures.minTime
  /\ \E i \in same : recorded[i].time = figures.maxTime
FiguresTrue ==
  /\ DOMAIN statistics = {recorded[i].connection : i \in DOMAIN recorded}
  /\ \A c \in DOMAIN statistics :
       LET s == statistics[c] IN
       /\ s.totalQueries = Cardinality(Mine(c)) /\ s.time = TimeOf(recorded, Mine(c))
       /\ s.slowQueries = Cardinality(Longer(c, SlowQuery))
       /\ s.verySlowQueries = Cardinality(Longer(c, VerySlowQuery))
       /\ s.cachedQueries = Cardinality({i \in Mine(c) : recorded[i].cached})
       /\ DOMAIN s.queryPatterns = {Pattern(recorded[i].text) : i \in Mine(c)}
       /\ \A p \in DOMAIN s.queryPatterns : PatternTrue(c, p, s.queryPatterns[p])

\* The history holds the newest queries, and a report the slowest of them, in order.
HistoryNewest ==
  /\ queryHistory = Newest(recorded, MaxHistory)
  /\ \A c \in DOMAIN statistics :
       LET top == TopSlowQueries(c) IN
       /\ Len(top) <= MaxReported
       /\ \A k \in DOMAIN top : /\ \E i \in Slow(c) : top[k] = queryHistory[i]
                                /\ \A l \in 1..k : top[l].time >= top[k].time
       /\ \A i \in Slow(c) :
            \/ \E k \in DOMAIN top : top[k] = queryHistory[i]
            \/ Len(top) = MaxReported /\ \A k \in DOMAIN top : queryHistory[i].time <= top[k].time

\* The newest query of a connection that was called slow and raises an issue has left the last
\* suggestion of it, of being uncached if it was.
Advising(c) == {i \in Mine(c) : recorded[i].slow /\ Raised(recorded[i]) # {}}
SlowIsAdvised ==
  \A c \in DOMAIN statistics :
    LET suggestions == OptimizationSuggestions(c)
        newest == suggestions[Len(suggestions)] IN
    /\ Len(suggestions) <= MaxSuggestions
    /\ \A i \in Advising(c) :
         (\A j \in Advising(c) : j <= i) =>
           /\ suggestions # <<>> /\ newest[1] = recorded[i].text
           /\ ~recorded[i].cached /\ recorded[i].time > SlowQuery => newest[2] = "uncached"
=============================================================================
