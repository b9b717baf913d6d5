------------------------------- MODULE Queries -------------------------------
(***************************************************************************)
(* From the parameters of a request to the options of a query: the parser  *)
(* of the database library (QueryFilterParser), its FilterSet, its filter  *)
(* backends and the interceptor that composes them, and the way back       *)
(* (buildQueryString, parseQueryString).                                   *)
(*                                                                         *)
(* The parameters are a sequence, in the order of the request, of records  *)
(* [field, lookup, raw]: "age__gte=18" has field "age" and lookup "gte", a *)
(* parameter without lookup has "".  raw holds the strings that were given *)
(* for the key, one or, when it is repeated, more; a string is the         *)
(* sequence of its parts between commas, without the blanks around them.   *)
(* The parts of an ordering are records [field, desc].                     *)
(***************************************************************************)
EXTENDS Integers, Sequences, FiniteSets, FiniteSetsExt, SequencesExt

CONSTANT Written  \* the numbers that parameters hold

QueriesAssumption == Written \subseteq Int

\* No search, and no list of allowed fields: an ordering that is not given is empty.
NoSearch == [query |-> <<>>, fields |-> {}]
AllFields == {"*"}

\* QUERY_LOOKUPS.
QueryLookups ==
  [exact |-> "eq", iexact |-> "ieq", contains |-> "contains", icontains |-> "icontains",
   in |-> "in", gt |-> "gt", gte |-> "gte", lt |-> "lt", lte |-> "lte",
   startswith |-> "startsWith", istartswith |-> "istartsWith",
   endswith |-> "endsWith", iendswith |-> "iendsWith", range |-> "between",
   date |-> "date", year |-> "year", month |-> "month", day |-> "day", week |-> "week",
   week_day |-> "weekDay", quarter |-> "quarter", time |-> "time", hour |-> "hour",
   minute |-> "minute", second |-> "second", isnull |-> "isNull",
   regex |-> "regex", iregex |-> "iregex", search |-> "search"]

\* The operators that ignore case, and what they are without that.
Folding == [ieq |-> "eq", icontains |-> "contains", istartsWith |-> "startsWith",
            iendsWith |-> "endsWith", iregex |-> "regex"]

Operator(lookup) ==
  IF lookup \in DOMAIN QueryLookups THEN QueryLookups[lookup] ELSE "eq"

Ordering == {"ordering", "order_by", "sort"}
Paging == {"page", "page_size", "pageSize"}
IsReserved(p) == p.lookup = "" /\ p.field \in {"search"} \cup Ordering \cup Paging

\* The strings of a parameter without lookup, none when it is not given.
Given(params, name) ==
  LET at == {i \in DOMAIN params : params[i].field = name /\ params[i].lookup = ""} IN
  IF at = {} THEN <<>> ELSE params[Max(at)].raw

IsGiven(params, name) == Given(params, name) # <<>>

\* parseInt of the parts that stand for numbers; any other is NaN, and the default counts.
Numerals == [x \in {ToString(n) : n \in Written} |-> CHOOSE n \in Written : ToString(n) = x]
ParseNumber(strings, default) ==
  IF strings # <<>> /\ strings[1][1] \in DOMAIN Numerals
  THEN Numerals[strings[1][1]] ELSE default

FilterOf(field, operator, value, caseSensitive) ==
  [field |-> field, operator |-> operator, value |-> value, caseSensitive |-> caseSensitive]

Pieces(string) == [i \in DOMAIN string |-> <<string[i]>>]

\* [start, end] = value.split(','): an end that is missing is undefined.
Bounds(string) == <<<<string[1]>>, IF Len(string) > 1 THEN <<string[2]>> ELSE <<>>>>

NullFilter(field, isNull) ==
  FilterOf(field, IF isNull THEN "isNull" ELSE "isNotNull", <<<<"true">>>>, FALSE)

------------------------------------------------------------------------------
(* QueryFilterParser: options is a record [defaultPageSize, maxPageSize,   *)
(* searchFields, allowedFields, excludedFields], three sets of fields; the *)
(* second is AllFields when the option is not given.                       *)

IsFieldAllowed(options, field) ==
  IF options.allowedFields # AllFields THEN field \in options.allowedFields
  ELSE field \notin options.excludedFields

\* parseFieldFilter: "in" and "range" split a string and leave an array as it is; every
\* operator that begins with an "i" counts as one without case, "in" among them.
ParseFieldFilter(param) ==
  LET operator == Operator(param.lookup)
      once == Len(param.raw) = 1 IN
  CASE operator = "isNull" -> NullFilter(param.field, param.raw[1] \in {<<"true">>, <<"1">>, <<"True">>})
    [] operator = "in" ->
         FilterOf(param.field, "in", IF once THEN Pieces(param.raw[1]) ELSE param.raw, FALSE)
    [] operator = "between" /\ once ->
         FilterOf(param.field, "between", Bounds(param.raw[1]), FALSE)
    [] operator \in DOMAIN Folding ->
         FilterOf(param.field, Folding[operator], param.raw, FALSE)
    [] OTHER -> FilterOf(param.field, operator, param.raw, TRUE)

SortOf(token) == [field |-> token.field, order |-> IF token.desc THEN "DESC" ELSE "ASC"]
Tokens(strings) == IF Len(strings) = 1 THEN strings[1] ELSE [i \in DOMAIN strings |-> strings[i][1]]

\* parse: the filters in the order of the request, the last of the ordering parameters, and
\* a page size that has an upper limit only.
Parse(options, params) ==
  LET fields == SelectSeq(params, LAMBDA p :
                  ~IsReserved(p) /\ IsFieldAllowed(options, p.field))
      orders == SelectSeq(params, LAMBDA p : p.field \in Ordering /\ p.lookup = "")
      sizes == IF IsGiven(params, "page_size") THEN Given(params, "page_size")
               ELSE Given(params, "pageSize")
      page == ParseNumber(Given(params, "page"), 1)
      pageSize == IF sizes = <<>> THEN options.defaultPageSize
                  ELSE Min({ParseNumber(sizes, options.defaultPageSize), options.maxPageSize}) IN
  [filters |-> [i \in DOMAIN fields |-> ParseFieldFilter(fields[i])],
   search |-> IF IsGiven(params, "search")
              THEN [query |-> Given(params, "search")[1], fields |-> options.searchFields]
              ELSE NoSearch,
   ordering |-> IF orders = <<>> THEN <<>>
                ELSE LET tokens == Tokens(Last(orders).raw) IN
                     [i \in DOMAIN tokens |-> SortOf(tokens[i])],
   page |-> page, pageSize |-> pageSize, offset |-> (page - 1) * pageSize]

------------------------------------------------------------------------------
(* FilterSet: fs is a record [filterFields, searchFields, orderingFields,  *)
(* defaultOrdering, pageSize, maxPageSize]; filterFields is a function     *)
(* from the declared fields to their lookups.                              *)

\* parseFilter: only declared lookups, only the first string of a parameter.
FilterSetFilter(param) ==
  LET operator == Operator(param.lookup) IN
  CASE operator = "in" -> FilterOf(param.field, "in", Pieces(param.raw[1]), FALSE)
    [] operator = "between" -> FilterOf(param.field, "between", Bounds(param.raw[1]), FALSE)
    [] operator = "isNull" ->
         NullFilter(param.field, param.raw[1] \in {<<"true">>, <<"1">>, <<"True">>})
    [] OTHER -> FilterOf(param.field,
                  IF operator \in DOMAIN Folding THEN Folding[operator] ELSE operator,
                  <<param.raw[1]>>, operator \notin DOMAIN Folding)


Declared(fs, p) ==
  /\ ~IsReserved(p) /\ p.field # "format"
  /\ p.field \in DOMAIN fs.filterFields
  /\ (IF p.lookup = "" THEN "exact" ELSE p.lookup) \in fs.filterFields[p.field]

\* parseOrdering of FilterSet and of OrderingFilterBackend: no empty names, and only the
\* allowed ones when any are named.
AllowedOrders(tokens, orderingFields) ==
  LET kept == SelectSeq(tokens, LAMBDA t :
                t.field # "" /\ (orderingFields = {} \/ t.field \in orderingFields)) IN
  [i \in DOMAIN kept |-> SortOf(kept[i])]

\* apply and toQueryOptions.  Of a request without parameters apply returns before it comes to
\* the default ordering and to the limits of the page.
ApplyFilterSet(fs, params) ==
  IF params = <<>>
  THEN [filter |-> <<>>, search |-> NoSearch, sort |-> <<>>, page |-> 1, limit |-> fs.pageSize]
  ELSE
  LET declared == SelectSeq(params, LAMBDA p : Declared(fs, p))
      orders == CASE IsGiven(params, "ordering") -> Given(params, "ordering")[1]
                  [] IsGiven(params, "order_by") -> Given(params, "order_by")[1]
                  [] IsGiven(params, "sort") -> Given(params, "sort")[1]
                  [] OTHER -> fs.defaultOrdering
      sizes == IF IsGiven(params, "page_size") THEN Given(params, "page_size")
               ELSE Given(params, "pageSize") IN
  [filter |-> [i \in DOMAIN declared |-> FilterSetFilter(declared[i])],
   search |-> IF IsGiven(params, "search") /\ fs.searchFields # {}
              THEN [query |-> Given(params, "search")[1], fields |-> fs.searchFields]
              ELSE NoSearch,
   sort |-> AllowedOrders(orders, fs.orderingFields),
   page |-> Max({1, ParseNumber(Given(params, "page"), 1)}),
   limit |-> Min({Max({1, ParseNumber(sizes, fs.pageSize)}), fs.maxPageSize})]

------------------------------------------------------------------------------
(* Filter backends: each turns the options of a query into others.         *)

NoOptions == [filter |-> <<>>, search |-> NoSearch, sort |-> <<>>, page |-> 0, limit |-> 0]

\* QueryFilterBackend.createFilter: an operator for every lookup it knows, and "eq" for the
\* others; case is never asked for, and a store takes that for "ignore it".
BackendLookups == [x \in DOMAIN QueryLookups |->
  IF x \in {"exact", "iexact", "contains", "icontains", "gt", "gte", "lt", "lte", "in",
            "startswith", "istartswith", "endswith", "iendswith", "isnull", "regex", "iregex"}
  THEN IF QueryLookups[x] \in DOMAIN Folding THEN Folding[QueryLookups[x]] ELSE QueryLookups[x]
  ELSE "eq"]

BackendFilter(param) ==
  LET operator == BackendLookups[IF param.lookup = "" THEN "exact" ELSE param.lookup] IN
  CASE operator = "in" -> FilterOf(param.field, "in", Pieces(param.raw[1]), FALSE)
    [] operator = "isNull" -> NullFilter(param.field, param.raw[1] = <<"true">>)
    [] OTHER -> FilterOf(param.field, operator, param.raw, FALSE)

\* QueryFilterBackend.filterQueryset: a repeated parameter is skipped.
FieldBackend(filterFields, params, options) ==
  LET kept == SelectSeq(params, LAMBDA p :
        /\ Len(p.raw) = 1
        /\ p.field \in DOMAIN filterFields
        /\ (IF p.lookup = "" THEN "exact" ELSE p.lookup) \in filterFields[p.field]) IN
  [options EXCEPT !.filter = @ \o [i \in DOMAIN kept |-> BackendFilter(kept[i])]]

\* MainQueryFilterBackend takes all that the parser finds.
MainBackend(parserOptions, params, options) ==
  LET parsed == Parse(parserOptions, params) IN
  [filter |-> options.filter \o parsed.filters,
   search |-> IF parsed.search = NoSearch THEN options.search ELSE parsed.search,
   sort |-> IF parsed.ordering = <<>> THEN options.sort ELSE parsed.ordering,
   page |-> parsed.page, limit |-> parsed.pageSize]

SearchBackend(searchFields, params, options) ==
  IF IsGiven(params, "search") /\ searchFields # {}
  THEN [options EXCEPT !.search = [query |-> Given(params, "search")[1], fields |-> searchFields]]
  ELSE options

\* OrderingFilterBackend: a repeated ordering is an array, of which split is called, and an
\* ordering of which nothing is allowed changes nothing.
Threw == [threw |-> TRUE]
OrderingBackend(orderingFields, defaultOrdering, params, options) ==
  LET asked == Given(params, "ordering")
      sort == AllowedOrders(asked[1], orderingFields) IN
  CASE Len(asked) > 1 -> Threw
    [] Len(asked) = 1 /\ sort # <<>> -> [options EXCEPT !.sort = sort]
    [] asked = <<>> /\ defaultOrdering # <<>> /\ options.sort = <<>> ->
         [options EXCEPT !.sort = AllowedOrders(defaultOrdering, orderingFields)]
    [] OTHER -> options

ParserOptionsOf(config) ==
  [defaultPageSize |-> config.pageSize, maxPageSize |-> config.maxPageSize,
   searchFields |-> config.searchFields, allowedFields |-> AllFields, excludedFields |-> {}]

\* CompositeFilterBackend: the backends in their order, each on what the last has left, until
\* one throws.  A backend is a record of its kind and the configuration it was made from.
FilterQueryset(params, options, backend) ==
  LET config == backend.config IN
  CASE backend.kind = "main" -> MainBackend(ParserOptionsOf(config), params, options)
    [] backend.kind = "fields" -> FieldBackend(config.filterFields, params, options)
    [] backend.kind = "search" -> SearchBackend(config.searchFields, params, options)
    [] backend.kind = "ordering" ->
         OrderingBackend(config.orderingFields, config.defaultOrdering, params, options)

Composite(backends, params, options) ==
  FoldLeft(LAMBDA o, backend : IF o = Threw THEN o ELSE FilterQueryset(params, o, backend),
           options, backends)

\* QueryFilterInterceptor: what the configuration says of filterFields is not looked at.
Intercept(config, params) ==
  Composite(<<[kind |-> "main", config |-> config], [kind |-> "search", config |-> config],
              [kind |-> "ordering", config |-> config]>>, params, NoOptions)

------------------------------------------------------------------------------
(* Decorators: of a handler, and of its parameters. *)

\* resolveFilterSet: what a configuration gives, over the defaults of a FilterSet.
DefaultFilterSet ==
  [filterFields |-> <<>>, searchFields |-> {}, orderingFields |-> {}, defaultOrdering |-> <<>>,
   pageSize |-> 20, maxPageSize |-> 100]
ResolveFilterSet(config) == config @@ DefaultFilterSet

\* Filtered: without a configuration, on the handler or its class, nothing of the request.
Filtered(configs, params) ==
  IF configs = <<>> THEN [NoOptions EXCEPT !.page = 1, !.limit = 20]
  ELSE ApplyFilterSet(ResolveFilterSet(Head(configs)), params)

\* The parameters that ApiFilters documents: one for every lookup of every field, with the
\* search and the ordering if there are fields for them, and the page.
Documented(config) ==
  LET fs == ResolveFilterSet(config) IN
  UNION {{[field |-> f, lookup |-> IF l = "exact" THEN "" ELSE l] : l \in fs.filterFields[f]}
           : f \in DOMAIN fs.filterFields}
  \cup [field : {"page", "page_size"}
                \cup (IF fs.searchFields = {} THEN {} ELSE {"search"})
                \cup (IF fs.orderingFields = {} THEN {} ELSE {"ordering"}), lookup : {""}]

\* SearchQuery, OrderingParam (Ordering in the code) and Pagination, each of a parameter of
\* a handler: parseInt(...) || default, with an upper limit only.
SearchQuery(fields, params) ==
  IF IsGiven(params, "search") THEN [query |-> Given(params, "search")[1], fields |-> fields] ELSE NoSearch

OrderingParam(params) ==
  LET tokens == IF IsGiven(params, "ordering") THEN Given(params, "ordering")[1] ELSE <<>> IN
  [i \in DOMAIN tokens |-> SortOf(tokens[i])]

OrDefault(n, default) == IF n = 0 THEN default ELSE n

Pagination(defaultPageSize, maxPageSize, params) ==
  LET page == OrDefault(ParseNumber(Given(params, "page"), 0), 1)
      pageSize == Min({OrDefault(ParseNumber(Given(params, "page_size"), 0), defaultPageSize),
                       maxPageSize}) IN
  [page |-> page, pageSize |-> pageSize, offset |-> (page - 1) * pageSize]

------------------------------------------------------------------------------
(* The way back. *)

\* buildQueryString: the first lookup that stands for the operator, "exact" for an operator
\* without lookup; whether case counts is not written, nor a number that is 0.
LookupOf(operator) ==
  IF operator \in Range(QueryLookups)
  THEN CHOOSE x \in DOMAIN QueryLookups : QueryLookups[x] = operator ELSE "exact"

Unless0(name, n) ==
  IF n = 0 THEN <<>> ELSE <<[field |-> name, lookup |-> "", string |-> <<ToString(n)>>]>>

BuildQueryString(options) ==
  [i \in DOMAIN options.filters |->
     LET f == options.filters[i] IN
     [field |-> f.field, lookup |-> IF f.operator = "eq" THEN "" ELSE LookupOf(f.operator),
      string |-> FlattenSeq(f.value)]]
  \o (IF options.search = NoSearch THEN <<>>
      ELSE <<[field |-> "search", lookup |-> "", string |-> options.search.query]>>)
  \o (IF options.ordering = <<>> THEN <<>>
      ELSE <<[field |-> "ordering", lookup |-> "",
              string |-> [i \in DOMAIN options.ordering |->
                            [field |-> options.ordering[i].field,
                             desc |-> options.ordering[i].order = "DESC"]]]>>)
  \o Unless0("page", options.page) \o Unless0("page_size", options.pageSize)

\* parseQueryString: the strings of a repeated key are collected at its first place.
SameKey(a, b) == a.field = b.field /\ a.lookup = b.lookup
ParametersOf(pairs) ==
  LET firsts == {i \in DOMAIN pairs : \A j \in 1..(i - 1) : ~SameKey(pairs[i], pairs[j])}
      order == SetToSortSeq(firsts, <) IN
  [k \in DOMAIN order |->
     LET same == SelectSeq(pairs, LAMBDA p : SameKey(p, pairs[order[k]])) IN
     [field |-> pairs[order[k]].field, lookup |-> pairs[order[k]].lookup,
      raw |-> [i \in DOMAIN same |-> same[i].string]]]

------------------------------------------------------------------------------
(* Properties *)

\* FilterSet, "whitelist model": whatever is asked, only declared fields filter, only allowed
\* fields order, and the page is one that exists and no longer than the maximum; without any
\* parameter it is as long as the FilterSet says, even beyond the maximum.
Whitelisted(fs, params) ==
  LET options == ApplyFilterSet(fs, params) IN
  /\ \A i \in DOMAIN options.filter : options.filter[i].field \in DOMAIN fs.filterFields
  /\ fs.orderingFields # {} =>
       \A i \in DOMAIN options.sort : options.sort[i].field \in fs.orderingFields
  /\ options.page >= 1
  /\ IF params = <<>> THEN options.limit = fs.pageSize ELSE options.limit \in 1..fs.maxPageSize

\* The two parsers of the library read the filters of a FilterSet alike as long as no
\* parameter is repeated.
ParsersAgree(fs, params) ==
  (\A i \in DOMAIN params : Len(params[i].raw) = 1 /\ Declared(fs, params[i]))
  => ApplyFilterSet(fs, params).filter = Parse(ParserOptionsOf(fs), params).filters

\* Every parameter that ApiFilters documents has an effect that the FilterSet of the handler
\* declares, and it declares no filter that is not documented.
DocumentsWhatItFilters(config, params) ==
  LET fs == ResolveFilterSet(config)
      declared == {i \in DOMAIN params : Declared(fs, params[i])} IN
  /\ \A i \in declared : \E d \in Documented(config) :
       d.field = params[i].field /\ d.lookup = (IF params[i].lookup = "exact" THEN "" ELSE params[i].lookup)
  /\ \A i \in DOMAIN params :
       [field |-> params[i].field, lookup |-> params[i].lookup] \in Documented(config) =>
         i \in declared \/ IsReserved(params[i]) \/ params[i].field = "format"
  /\ Len(Filtered(<<config>>, params).filter) = Cardinality(declared)

\* The parameter decorators read a request as the parser does, if it names no parameter twice,
\* orders by "ordering", and asks for a page other than 0 by "page_size".
DecoratorsAgree(config, params) ==
  LET parsed == Parse(ParserOptionsOf(config), params)
      pages == Pagination(config.pageSize, config.maxPageSize, params) IN
  (\A i \in DOMAIN params : /\ Len(params[i].raw) = 1
                            /\ params[i].field \notin {"order_by", "sort", "pageSize"}
                            /\ params[i].field \in Paging => params[i].raw[1] # <<"0">>)
  => /\ SearchQuery(config.searchFields, params) = parsed.search
     /\ OrderingParam(params) = parsed.ordering
     /\ (config.pageSize <= config.maxPageSize) =>
          pages = [page |-> parsed.page, pageSize |-> parsed.pageSize, offset |-> parsed.offset]

\* What buildQueryString writes of a parsed request is read again as the same request, if no
\* two parameters ask the same of a field, every lookup is one that heeds case, no isnull asks
\* for false, and neither the page nor its size is 0.
ReadsBack(parserOptions, params) ==
  LET parsed == Parse(parserOptions, params) IN
  /\ \A i \in DOMAIN params :
       /\ Len(params[i].raw) = 1
       /\ \A j \in DOMAIN params :
            /\ params[i].field = params[j].field
            /\ Operator(params[i].lookup) = Operator(params[j].lookup)
            => i = j
       /\ Operator(params[i].lookup) \notin DOMAIN Folding
       /\ params[i].lookup = "isnull" => params[i].raw[1] = <<"true">>
  /\ parsed.page # 0 /\ parsed.pageSize # 0
  => Parse(parserOptions, ParametersOf(BuildQueryString(parsed))) = parsed

\* QueryFilterConfig, "Fields that can be used for ordering/sorting": no other orders what
\* the interceptor hands to the handler, of a request that asks for no order, or by
\* "ordering", once, for a field that can be used.
OrdersAllowed(config, params) ==
  LET options == Intercept(config, params) IN
  /\ config.orderingFields # {}
  /\ \A i \in DOMAIN params : params[i].field \in Ordering =>
       /\ params[i].field = "ordering" /\ Len(params[i].raw) = 1
       /\ \E t \in Range(params[i].raw[1]) : t.field \in config.orderingFields
  => /\ options # Threw
     /\ \A i \in DOMAIN options.sort : options.sort[i].field \in config.orderingFields
=============================================================================
