------------------------------ MODULE MCLibraries ------------------------------
(***************************************************************************)
(* Small instances of the database and utility libraries.  They share no   *)
(* state, so the initial state chooses the one that runs: a component, or  *)
(* an input of the pure algorithms, which stays as it is.                  *)
(***************************************************************************)
EXTENDS MCDatabases

VARIABLES
  focus,
  input                                                     \* of the pure algorithms

UpTo(set, n) == UNION {[1..k -> set] : k \in 0..n}

------------------------------------------------------------------------------
(* The pure algorithms, and the inputs they are checked on. *)

Decimal == INSTANCE Numbers WITH Small <- 3
Array == INSTANCE Lists
Reference == INSTANCE References
Filter == INSTANCE Filters
Parser == INSTANCE Queries WITH Written <- {-3, 0, 1, 2, 5, 10, 500}
Pipeline == INSTANCE Pipelines

\* The assumptions of the components hold of these values.
ASSUME LibrariesAssumption ==
  /\ Decimal!NumbersAssumption /\ Parser!QueriesAssumption /\ Cash!MoneyAssumption /\ Table!StoreAssumption
  /\ Database!ConnectionsAssumption /\ Advisor!OptimizationAssumption

Fractions == {Decimal!Number[n, p] : n \in {-25, -5, -3, 0, 1, 2, 5, 7, 10, 15, 25, 125}, p \in 0..3}
Items == {[key |-> 1, tag |-> 1], [key |-> 1, tag |-> 2], [key |-> 2, tag |-> 1]}
Dates == {2026, 2027, 2040, 2051} \X {1, 12} \X {1, 9, 10, 31}
ToolInputs ==
  [kind : {"numbers"}, a : Fractions, b : Fractions]
  \cup [kind : {"values"}, s : UpTo({0, 1, 3, 7}, 4)]
  \cup [kind : {"lists"}, s : UpTo(Items, 4), t : UpTo(Items, 2)]
  \cup [kind : {"dates"}, a : Dates, b : Dates]
  \cup [kind : {"digits"}, s : [1..2 -> 0..9] \cup [1..3 -> 0..9]]

\* Filters of a numeric and of a textual field, alone and in pairs, and documents with and
\* without the fields.
Num(n) == Filter!NumberOf(n)
Text(s) == Filter!TextOf(s)
Null == Filter!Null
FilterOf(field, operator, value) ==
  [field |-> field, operator |-> operator, value |-> value, caseSensitive |-> TRUE]
\* Their values are of three kinds, which one set cannot hold.
Comparisons == {FilterOf("n", o, Num(2)) : o \in {"eq", "neq", "gt", "gte", "lt", "lte"}}
Listings == {FilterOf("n", o, <<Num(1), Num(2)>>) : o \in {"in", "nin", "between"}}
Presences == {FilterOf("n", o, TRUE) : o \in {"exists", "isNull", "isNotNull"}}
TextFilters ==
  [field : {"t"}, operator : Filter!Textual \cup {"eq", "date"},
   value : {Text(<<1>>), Text(<<-1, 2>>)}, caseSensitive : BOOLEAN]
NumberValues == {Null} \cup {Num(n) : n \in 1..3}
TextValues == {Null} \cup {Text(s) : s \in {<<>>, <<1>>, <<-1>>, <<1, 2>>, <<2, 1>>, <<-1, 2, 1>>}}
Documents == [n : NumberValues, t : TextValues] \cup [t : TextValues]
Grouped == [n : {Null, Num(1), Num(3)}, g : {Null, Num(1), Num(2)}] \cup [n : {Num(1)}]
Filtering(filters) == \E doc \in Documents : input = [kind |-> "filters", doc |-> doc, filters |-> filters]
AndAnother(f) ==
  \/ Filtering(<<f>>)
  \/ \E g \in Comparisons : Filtering(<<f, g>>)
  \/ \E g \in Listings : Filtering(<<f, g>>)
  \/ \E g \in Presences : Filtering(<<f, g>>)
FilterInput ==
  \/ \E f \in Comparisons : AndAnother(f)
  \/ \E f \in Listings : AndAnother(f)
  \/ \E f \in Presences : AndAnother(f)
  \/ \E f \in TextFilters : Filtering(<<f>>) \/ \E g \in Presences : Filtering(<<f, g>>)
GroupInputs ==
  [kind : {"groups"}, docs : [1..2 -> Grouped],
   options : [groupBy : {{}, {"g"}, {"g", "n"}}, field : {"n"},
              having : {<<>>, <<FilterOf("g", "gte", Num(2))>>, <<FilterOf("n", "lt", Num(3))>>}]]

\* Collections whose documents differ in n, and one to join them with.
Numbered == [n : {Num(x) : x \in 1..4}, g : {Null, Num(1), Num(2)}]
Others == {<<[u |-> Num(1)], [u |-> Num(1)], [u |-> Num(2)]>>, <<[u |-> Null]>>}
PipelineInputs ==
  [kind : {"pipelines"},
   docs : {s \in UpTo(Numbered, 3) : \A i, j \in DOMAIN s : s[i].n = s[j].n => i = j}]

\* Query strings of at most two parameters.
OrderedBy(field, desc) == [field |-> field, desc |-> desc]
FieldParams ==
  [field : {"age", "name"},
   lookup : {"", "exact", "in", "gte", "icontains", "contains", "range", "isnull", "year", "bogus"},
   raw : {<<<<"1">>>>, <<<<"1", "2">>>>, <<<<"1">>, <<"2">>>>, <<<<"true">>>>, <<<<"x">>>>}]
OrderParams ==
  [field : {"ordering", "sort"}, lookup : {""},
   raw : {<<<<OrderedBy("name", TRUE)>>>>, <<<<OrderedBy("secret", FALSE)>>>>,
          <<<<OrderedBy("", FALSE), OrderedBy("name", FALSE)>>>>,
          <<<<OrderedBy("name", FALSE)>>, <<OrderedBy("secret", TRUE)>>>>}]
PageParams ==
  [field : {"page", "page_size", "pageSize"}, lookup : {""},
   raw : {<<<<x>>>> : x \in {"-3", "0", "1", "500", "x"}}]
  \cup [field : {"search"}, lookup : {""}, raw : {<<<<"x">>>>}]
Params == FieldParams \cup OrderParams \cup PageParams
Second == OrderParams \cup PageParams
          \cup {p \in FieldParams : p.field = "age" /\ p.lookup \in {"", "in", "gte"}}
StringInputs ==
  [kind : {"strings"},
   params : {<<>>} \cup {<<p>> : p \in Params}
            \cup {<<p, q>> : p \in Params, q \in Second}]
\* A name occurs once in a query that is parsed.
NamesDiffer(params) ==
  \A i, j \in DOMAIN params :
    <<params[i].field, params[i].lookup>> = <<params[j].field, params[j].lookup>> => i = j
FilterSet ==
  [filterFields |-> [age |-> {"exact", "in", "gte", "range", "isnull"},
                     name |-> {"exact", "contains", "icontains"}],
   searchFields |-> {"name"}, orderingFields |-> {"name"},
   defaultOrdering |-> <<OrderedBy("name", TRUE)>>, pageSize |-> 5, maxPageSize |-> 10]

------------------------------------------------------------------------------
moneyState == purse
tableState == <<dialect, unique, rows, last, job>>
databaseState == <<server, faults, dbClient, held, registry, module, at, interval, intervals, checks, history, ended>>
advisorState == <<monitoringEnabled, queryHistory, statistics, optimizationSuggestions, recorded>>
libraryVars == <<input, moneyState, tableState, databaseState, advisorState>>

NoInput == [kind |-> "none"]
Chosen ==
  IF focus = "algorithms"
  THEN \/ input \in ToolInputs \/ FilterInput \/ input \in GroupInputs \/ input \in PipelineInputs
       \/ input \in StringInputs /\ NamesDiffer(input.params)
  ELSE input = NoInput

\* What does not run has one initial state.
LibrariesInit ==
  /\ Chosen
  /\ Cash!Init /\ (focus # "money" => purse = <<Cash!MoneyOf(0, "USD")>>)
  /\ Table!Init /\ (focus # "store" => dialect = "mongo" /\ ~unique /\ rows = <<>>)
  /\ Database!Init /\ Advisor!Init

LibrariesNext ==
  /\ UNCHANGED input
  /\ \/ /\ focus = "money" /\ Cash!Next
        /\ UNCHANGED <<tableState, databaseState, advisorState>>
     \/ /\ focus = "store" /\ Table!Next
        /\ UNCHANGED <<moneyState, databaseState, advisorState>>
     \/ /\ focus = "connections" /\ Database!Next
        /\ UNCHANGED <<moneyState, tableState, advisorState>>
     \/ /\ focus = "statistics" /\ Advisor!Next
        /\ UNCHANGED <<moneyState, tableState, databaseState>>
     \/ /\ focus = "algorithms"
        /\ UNCHANGED <<moneyState, tableState, databaseState, advisorState>>

\* The fairness of Connections.
LibrariesFair == WF_databaseState(focus = "connections" /\ Database!Progress)

------------------------------------------------------------------------------
(* Properties *)

\* money.util.ts, "so the total is always exact": splitting, adding and deducting keep the sum.
MoneyKept == [][Cash!TotalOf(purse') = Cash!TotalOf(purse)]_purse

\* math.util.ts: the precise operations give the exact result of numbers that are written
\* without an exponent, rounding goes to the nearest, and the statistics are their definitions.
NumbersRight ==
  CASE input.kind = "numbers" ->
         /\ ~Decimal!HasExponent(input.a) /\ ~Decimal!HasExponent(input.b) =>
              Decimal!Precise(input.a, input.b)
         /\ \A decimals \in 0..2 : Decimal!Rounds(input.a, decimals)
    [] input.kind = "values" -> Decimal!Statistics(input.s)
    [] OTHER -> TRUE

\* array.util.ts: pages tile a list, a shuffle may give any order, a sort is stable in the
\* order of its keys, groups lose nothing; reference.util.ts: a reference tells its day for
\* 26 years, and a check digit finds a wrong digit and most exchanges.
ListsRight ==
  CASE input.kind = "lists" ->
         /\ Array!Groups(input.s, input.t)
         /\ input.t = <<>> =>
              /\ \A limit \in 1..3 : Array!PagesTile(input.s, limit)
              /\ Array!ShufflesAll(input.s)
              /\ \A keys \in {<<[key |-> "key", order |-> "desc"]>>,
                              <<[key |-> "tag", order |-> "asc"], [key |-> "key", order |-> "desc"]>>} :
                   Array!SortsStably(input.s, keys)
    [] input.kind = "dates" -> Reference!RefsTellDays(input.a, input.b)
    [] input.kind = "digits" -> Reference!LuhnDetects(input.s)
    [] OTHER -> TRUE

\* And of money.util.ts: a split is fair, a conversion is to the nearest unit, what is derived
\* from rates is as close as floats allow, and units come back.
ToolsRight ==
  /\ focus = "algorithms" => NumbersRight /\ ListsRight
  /\ focus = "money" => Cash!MoneyExact

\* The two services translate a filter into queries that select the same rows, where both
\* know its operator; a pipeline selects no more than a query; counts, distinct values and
\* groups agree.
DialectsAgree ==
  CASE input.kind = "filters" ->
         Filter!TranslationsAgree(input.filters, input.doc) /\ Filter!MongoSelectsMore(input.filters, input.doc)
    [] input.kind = "groups" ->
         /\ Filter!AggregatesAgree(input.docs, input.options)
         /\ Filter!ReadsAgree(input.docs, <<>>, "n")
         /\ \A f \in Comparisons : Filter!ReadsAgree(input.docs, <<f>>, "n")
         /\ \A f \in Listings : Filter!ReadsAgree(input.docs, <<f>>, "n")
         /\ \A f \in Presences : Filter!ReadsAgree(input.docs, <<f>>, "n")
    [] OTHER -> TRUE

\* MongoPipelineBuilder: a facet's pages tile what matches, a join loses no document of the
\* left, a count by field counts each once, what only reshapes keeps the documents.
PipelinesRight ==
  input.kind = "pipelines" =>
    /\ \A filters \in {<<>>, <<FilterOf("g", "gt", Num(1))>>, <<FilterOf("g", "isNull", Null)>>}, size \in 1..3 :
         Pipeline!PagesTile(input.docs, filters, "n", size)
    /\ Pipeline!CountsByField(input.docs, "g")
    /\ \A other \in Others :
         LET lookup == [from |-> other, localField |-> "g", foreignField |-> "u", as |-> "j"] IN
         /\ \A preserve \in BOOLEAN : Pipeline!JoinsLeft(input.docs, lookup, preserve)
         /\ Pipeline!ReshapesKeep(input.docs, other, lookup)

\* FilterSet, QueryFilterParser, the interceptor and the decorators: only fields and lookups
\* that are allowed become filters, the two parsers agree, what is built is read back, who
\* orders by an allowed field orders by no other, and the documentation lists what is filtered.
StringsRight ==
  input.kind = "strings" =>
    /\ Parser!Whitelisted(FilterSet, input.params)
    /\ Parser!ParsersAgree(FilterSet, input.params)
    /\ Parser!ReadsBack(Parser!ParserOptionsOf(FilterSet), input.params)
    /\ Parser!DocumentsWhatItFilters(FilterSet, input.params)
    /\ Parser!DecoratorsAgree(FilterSet, input.params)
    /\ Parser!OrdersAllowed(FilterSet, input.params)


\* findOrCreate, upsert and bulkUpsert make no second row of a key where an index forbids it
\* or nobody else writes.
OneRowPerKey == focus = "store" => Table!OneRowPerKey

\* BulkWriteResult and the answers of the methods say what was done, whoever else writes, and
\* batchProcess processes every row that matches all the time, once, as long as the order in
\* which it cuts its pages stays.
StoreTruthful == focus = "store" => Table!ReportsTruthful /\ Table!BatchesCover

\* DatabaseService, "resolves when all connections are established", and DatabaseHealthService:
\* what is reported is what was met, the results of the checks that ended last are kept in that
\* order, and nothing runs after the end.
HealthTruthful == focus = "connections" =>
  /\ Database!AllEstablished /\ Database!ClosedIsQuiet
  /\ Database!ResultsTruthful /\ Database!HistoryRecent

\* startMonitoring, "Idempotent": there is never a second timer.
Idempotent == Database!Idempotent

\* QueryOptimizationService: the running figures are those of all queries, the history is the
\* newest of them, and a slow query leaves its advice.
AdviceTrue == focus = "statistics" => Advisor!FiguresTrue /\ Advisor!HistoryNewest /\ Advisor!SlowIsAdvised
=============================================================================
