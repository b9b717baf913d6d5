------------------------------- MODULE Filters -------------------------------
(***************************************************************************)
(* What a list of FilterOptions selects, in the three translations of the  *)
(* database library: MongoService.buildFilterQuery, PipelineBuilder.       *)
(* matchFromFilters and PostgresService.applyFilters, with the searches    *)
(* and the aggregations of the two services.  A repository promises the    *)
(* same interface over both databases (IBaseRepository); the properties    *)
(* say for which requests the answers agree.                               *)
(*                                                                         *)
(* A document is a function of the fields it has.  A value is null, a      *)
(* number or a text; a text is a sequence of letters, a letter is a number *)
(* and its capital the negative of it.  Patterns hold no metacharacters.   *)
(***************************************************************************)
EXTENDS Integers, Sequences, FiniteSets, FiniteSetsExt, SequencesExt

Null == [kind |-> "null"]
NumberOf(n) == [kind |-> "number", n |-> n]
TextOf(s) == [kind |-> "text", s |-> s]

\* A field that a document lacks reads as null, in a query as in a column.
ValueIn(doc, field) == IF field \in DOMAIN doc THEN doc[field] ELSE Null

Below(v, w) == v.kind = "number" /\ w.kind = "number" /\ v.n < w.n
NotAbove(v, w) == Below(v, w) \/ (v = w /\ v.kind = "number")

Folded(s) == [i \in DOMAIN s |-> IF s[i] < 0 THEN -s[i] ELSE s[i]]

\* pattern occurs in v at the place that operator asks for.
Occurs(v, pattern, operator, sensitive) ==
  /\ v.kind = "text"
  /\ LET s == IF sensitive THEN v.s ELSE Folded(v.s)
         p == IF sensitive THEN pattern.s ELSE Folded(pattern.s) IN
     CASE operator = "startsWith" -> IsPrefix(p, s)
       [] operator = "endsWith" -> IsSuffix(p, s)
       [] OTHER -> \E i \in 1..(Len(s) + 1) : IsPrefix(p, SubSeq(s, i, Len(s)))

Textual == {"contains", "like", "ilike", "startsWith", "endsWith", "regex"}

\* The comparisons that mean the same in every translation, on a value that is not null.
Compares(filter, v) ==
  CASE filter.operator = "gt" -> Below(filter.value, v)
    [] filter.operator = "gte" -> NotAbove(filter.value, v)
    [] filter.operator = "lt" -> Below(v, filter.value)
    [] filter.operator = "lte" -> NotAbove(v, filter.value)
    [] filter.operator = "in" -> v \in Range(filter.value)
    [] filter.operator = "between" ->
         NotAbove(filter.value[1], v) /\ NotAbove(v, filter.value[2])
    [] OTHER -> v = filter.value

------------------------------------------------------------------------------
(* MongoDB *)

MongoOperators ==
  Textual \cup {"eq", "neq", "gt", "gte", "lt", "lte", "in", "nin", "between",
                "exists", "isNull", "isNotNull"}

\* What the condition that buildFilterQuery writes for a filter admits.  $ne and $nin
\* admit null; a text is matched without regard to case unless the filter asks.
MongoAdmits(filter, doc) ==
  LET v == ValueIn(doc, filter.field) IN
  CASE filter.operator \in Textual ->
         Occurs(v, filter.value, filter.operator, filter.caseSensitive)
    [] filter.operator = "neq" -> v # filter.value
    [] filter.operator = "nin" -> v \notin Range(filter.value)
    [] filter.operator = "exists" -> (filter.field \in DOMAIN doc) = filter.value
    [] filter.operator = "isNull" -> v = Null
    [] filter.operator = "isNotNull" -> v # Null
    [] OTHER -> Compares(filter, v)

\* query[filter.field] = ...: the last filter of a field replaces the earlier ones, and
\* an operator the switch does not know adds nothing.
BuildFilterQuery(filters) ==
  LET known == SelectSeq(filters, LAMBDA x : x.operator \in MongoOperators) IN
  [field \in {known[i].field : i \in DOMAIN known} |->
     known[Max({i \in DOMAIN known : known[i].field = field})]]

QueryAdmits(query, doc) == \A field \in DOMAIN query : MongoAdmits(query[field], doc)

\* matchFromFilters: only "ilike" and "icontains" ignore case, and an operator that is not
\* known compares for equality.
PipelineFilter(filter) ==
  CASE filter.operator \in {"ilike", "icontains"} ->
         [filter EXCEPT !.operator = "contains", !.caseSensitive = FALSE]
    [] filter.operator \in Textual -> [filter EXCEPT !.caseSensitive = TRUE]
    [] filter.operator \notin MongoOperators -> [filter EXCEPT !.operator = "eq"]
    [] OTHER -> filter

MatchFromFilters(filters) ==
  BuildFilterQuery([i \in DOMAIN filters |-> PipelineFilter(filters[i])])

\* buildSearchQuery: a search without fields restricts nothing.
SearchAdmits(search, doc) ==
  search.fields # {} =>
    \E field \in search.fields :
      Occurs(ValueIn(doc, field), search.query, "contains", search.caseSensitive)

\* findOne, count, exists and distinct of a collection, a function of identifiers.
MongoFound(docs, filters) ==
  {i \in DOMAIN docs : QueryAdmits(BuildFilterQuery(filters), docs[i])}
MongoFindOne(docs, filters) ==
  LET found == MongoFound(docs, filters) IN
  IF found = {} THEN 0 ELSE CHOOSE i \in found : TRUE
MongoCount(docs, filters) == Cardinality(MongoFound(docs, filters))
MongoExists(docs, filters) == MongoCount(docs, filters) > 0
MongoDistinct(docs, filters, field) ==
  {docs[i][field] : i \in {i \in MongoFound(docs, filters) : field \in DOMAIN docs[i]}}

------------------------------------------------------------------------------
(* PostgreSQL *)

\* getOperatorSQL and the switch of applyFilters.  A comparison with null is unknown, and
\* an unknown row is left out; LIKE and ~ heed case, ILIKE does not; an operator the map
\* does not know is an equality.
SqlAdmits(filter, doc) ==
  LET v == ValueIn(doc, filter.field) IN
  CASE filter.operator = "isNull" -> v = Null
    [] filter.operator = "isNotNull" -> v # Null
    [] OTHER ->
         /\ v # Null
         /\ CASE filter.operator = "neq" -> v # filter.value
              [] filter.operator = "nin" -> v \notin Range(filter.value)
              [] filter.operator \in Textual ->
                   Occurs(v, filter.value, filter.operator,
                     \/ filter.operator \in {"like", "regex"}
                     \/ filter.operator # "ilike" /\ filter.caseSensitive)
              [] OTHER -> Compares(filter, v)

\* A faulty variant: orWhere.
AnyFilter(filters, doc) == \E i \in DOMAIN filters : SqlAdmits(filters[i], doc)

\* andWhere: every filter counts.
ApplyFilters(filters, doc) == \A i \in DOMAIN filters : SqlAdmits(filters[i], doc)

\* applySearch: LIKE heeds case and ILIKE does not; no fields, no condition.
SqlSearchAdmits(search, doc) ==
  \/ search.fields = {}
  \/ \E field \in search.fields :
       Occurs(ValueIn(doc, field), search.query, "contains", search.caseSensitive)

SqlFound(docs, filters) == {i \in DOMAIN docs : ApplyFilters(filters, docs[i])}
SqlCount(docs, filters) == Cardinality(SqlFound(docs, filters))
SqlExists(docs, filters) == SqlCount(docs, filters) > 0

\* BasePostgresRepository.distinct: every filter is an equality, whatever its operator; null
\* is a value of a column that holds it.
SqlDistinct(docs, filters, field) ==
  {ValueIn(docs[i], field) : i \in {i \in DOMAIN docs :
     \A k \in DOMAIN filters : /\ ValueIn(docs[i], filters[k].field) # Null
                              /\ ValueIn(docs[i], filters[k].field) = filters[k].value}}

------------------------------------------------------------------------------
(* Aggregation: docs is a function of identifiers. *)

\* A document without the field and one with a null in it are of different groups in
\* MongoDB; a column is null or not.
MongoKey(doc, groupBy) == [field \in groupBy \cap DOMAIN doc |-> doc[field]]
SqlKey(doc, groupBy) == [field \in groupBy |-> ValueIn(doc, field)]

\* count, sum, avg (a sum and how many), min and max of one field over some documents; null
\* is skipped, and a sum of nothing is 0.
Summary(docs, ids, field) ==
  LET known == {i \in ids : ValueIn(docs[i], field).kind = "number"}
      values == {docs[i][field].n : i \in known} IN
  [count |-> Cardinality(ids),
   sum |-> MapThenSumSet(LAMBDA i : docs[i][field].n, known),
   known |-> Cardinality(known),
   min |-> IF values = {} THEN Null ELSE NumberOf(Min(values)),
   max |-> IF values = {} THEN Null ELSE NumberOf(Max(values))]

\* keys: the key of the group of each document.
GroupsOf(docs, keys, field) ==
  {[key |-> k] @@ Summary(docs, {i \in DOMAIN keys : keys[i] = k}, field) : k \in Range(keys)}

\* MongoService.aggregate: "having" is a $match before the $group, and without groupBy
\* there is no $group: every document is a group, with nothing counted.
MongoAggregate(docs, options) ==
  LET query == BuildFilterQuery(options.having)
      ids == {i \in DOMAIN docs : QueryAdmits(query, docs[i])} IN
  IF options.groupBy = {} THEN {[key |-> i] : i \in ids}
  ELSE GroupsOf(docs, [i \in ids |-> MongoKey(docs[i], options.groupBy)], options.field)

\* PostgresService.aggregate: "having" restricts the groups, by the columns of their keys.
PostgresAggregate(docs, options) ==
  LET groups == IF options.groupBy = {}
                THEN {[key |-> <<>>] @@ Summary(docs, DOMAIN docs, options.field)}
                ELSE GroupsOf(docs, [i \in DOMAIN docs |-> SqlKey(docs[i], options.groupBy)],
                              options.field) IN
  {g \in groups : ApplyFilters(options.having, g.key)}

------------------------------------------------------------------------------
(* Properties *)

\* The operators whose meaning does not depend on the database, and the filters that do
\* not ask for what only one of them has.
Portable(filter, doc) ==
  /\ filter.operator \in MongoOperators \ {"exists", "like", "ilike"}
  /\ filter.operator = "regex" => filter.caseSensitive
  /\ filter.operator \in {"neq", "nin"} => ValueIn(doc, filter.field) # Null

\* IBaseRepository, one interface for two databases: both translations of a list of
\* portable filters, one for each field, select the same documents, and so does a pipeline
\* when no case is to be ignored.
TranslationsAgree(filters, doc) ==
  (/\ \A i \in DOMAIN filters : Portable(filters[i], doc)
   /\ \A i, j \in DOMAIN filters : filters[i].field = filters[j].field => i = j)
  => /\ QueryAdmits(BuildFilterQuery(filters), doc) = ApplyFilters(filters, doc)
     /\ (\A i \in DOMAIN filters : filters[i].caseSensitive)
        => QueryAdmits(MatchFromFilters(filters), doc) = ApplyFilters(filters, doc)

\* So do count, exists and, for filters of equality, distinct of the two repositories, on
\* documents that have every field; and findOne finds what exists.
ReadsAgree(docs, filters, field) ==
  (/\ \A i \in DOMAIN filters, id \in DOMAIN docs :
        /\ Portable(filters[i], docs[id])
        /\ filters[i].field \in DOMAIN docs[id] /\ field \in DOMAIN docs[id]
   /\ \A i, j \in DOMAIN filters : filters[i].field = filters[j].field => i = j)
  => /\ MongoCount(docs, filters) = SqlCount(docs, filters)
     /\ MongoExists(docs, filters) = SqlExists(docs, filters)
     /\ MongoExists(docs, filters) = (MongoFindOne(docs, filters) # 0)
     /\ (\A i \in DOMAIN filters : filters[i].operator = "eq" /\ filters[i].value # Null)
        => MongoDistinct(docs, filters, field) = SqlDistinct(docs, filters, field)

\* However often a field is named, MongoDB never selects less than PostgreSQL.
MongoSelectsMore(filters, doc) ==
  (\A i \in DOMAIN filters : Portable(filters[i], doc)) /\ ApplyFilters(filters, doc)
  => QueryAdmits(BuildFilterQuery(filters), doc)

\* The groups of an aggregation are the same in both databases when it groups by something
\* and restricts only what it groups by.
AggregatesAgree(docs, options) ==
  (/\ options.groupBy # {}
   /\ \A id \in DOMAIN docs : options.groupBy \subseteq DOMAIN docs[id]
   /\ \A i \in DOMAIN options.having :
        /\ options.having[i].field \in options.groupBy
        /\ \A id \in DOMAIN docs : Portable(options.having[i], docs[id])
   /\ \A i, j \in DOMAIN options.having :
        options.having[i].field = options.having[j].field => i = j)
  => MongoAggregate(docs, options) = PostgresAggregate(docs, options)
=============================================================================
