------------------------------ MODULE Pipelines ------------------------------
(***************************************************************************)
(* PipelineBuilder: a list of aggregation stages, and what MongoDB makes   *)
(* of the stages whose outcome the properties are about.  Documents are    *)
(* functions of their fields, a collection is a sequence of documents, and *)
(* a stage is a record of its name and what it is given.                   *)
(***************************************************************************)
EXTENDS Filters

\* Every method of the builder appends stages to those there are and returns the builder.
Pushed(stages, name, given) == Append(stages, [name |-> name, given |-> given])

Match(stages, query) == Pushed(stages, "$match", query)
SortStage(stages, field, ascending) ==
  Pushed(stages, "$sort", [field |-> field, ascending |-> ascending])
LimitStage(stages, n) == Pushed(stages, "$limit", n)
SkipStage(stages, n) == Pushed(stages, "$skip", n)
UnwindStage(stages, field, preserve) ==
  Pushed(stages, "$unwind", [field |-> field, preserve |-> preserve])
LookupStage(stages, options) == Pushed(stages, "$lookup", options)
GroupStage(stages, by, field) == Pushed(stages, "$group", [by |-> by, field |-> field])
CountStage(stages) == Pushed(stages, "$count", "count")
FacetStage(stages, facets) == Pushed(stages, "$facet", facets)

ProjectStage(stages, fields) == Pushed(stages, "$project", fields)
AddFieldsStage(stages, fields) == Pushed(stages, "$addFields", fields)
UnsetStage(stages, fields) == Pushed(stages, "$unset", fields)
ReplaceRootStage(stages, field) == Pushed(stages, "$replaceRoot", field)
BucketStage(stages, options) == Pushed(stages, "$bucket", options)
UnionWithStage(stages, other) == Pushed(stages, "$unionWith", other)
RawStages(stages, given) == stages \o given
When(condition, stages, then) == IF condition THEN then ELSE stages

LookupAndUnwind(stages, options, preserve) ==
  UnwindStage(LookupStage(stages, options), options.as, preserve)

\* A faulty variant: pages are counted from zero.
SkipFromZero(page, pageSize) == Max({0, page}) * pageSize

SkipOf(page, pageSize) == (Max({1, page}) - 1) * pageSize

Paginate(stages, page, pageSize) ==
  LimitStage(SkipStage(stages, SkipOf(page, pageSize)), pageSize)

FilterSortPaginate(stages, query, field, ascending, page, pageSize) ==
  Paginate(SortStage(Match(stages, query), field, ascending), page, pageSize)

\* Both branches see the same documents.
PaginatedFacet(stages, page, pageSize) ==
  FacetStage(stages, [data |-> LimitStage(SkipStage(<<>>, SkipOf(page, pageSize)), pageSize),
                      totalCount |-> CountStage(<<>>)])

CountByField(stages, field) == SortStage(GroupStage(stages, field, field), "count", FALSE)
Stats(stages, groupByField, valueField) == GroupStage(stages, groupByField, valueField)

------------------------------------------------------------------------------
(* What MongoDB does with the stages. *)

Sorted(docs, field, ascending) ==
  SortSeq(docs, LAMBDA d, e : LET a == ValueIn(d, field)
                                  b == ValueIn(e, field) IN
    IF ascending THEN Below(a, b) ELSE Below(b, a))

\* $lookup: the documents of the other collection whose foreign field is the local one.
Joined(doc, options) ==
  [f \in DOMAIN doc \cup {options.as} |->
     IF f = options.as
     THEN SelectSeq(options.from, LAMBDA o :
            ValueIn(o, options.foreignField) = ValueIn(doc, options.localField))
     ELSE doc[f]]

\* $unwind: a document for every member of the array; one without the field when it is
\* empty and the document is to be preserved.
Unwound(doc, given) ==
  IF doc[given.field] = <<>>
  THEN IF given.preserve THEN <<[f \in DOMAIN doc \ {given.field} |-> doc[f]]>> ELSE <<>>
  ELSE [i \in DOMAIN doc[given.field] |-> [doc EXCEPT ![given.field] = @[i]]]

\* $bucket: the documents between a boundary and the next, and the others in the default.
BucketOf(doc, options) ==
  LET v == ValueIn(doc, options.groupBy)
      below == {b \in Range(options.boundaries) : v.kind = "number" /\ b <= v.n} IN
  IF below = {} \/ below = Range(options.boundaries) THEN options.default ELSE Max(below)

Bucketed(docs, options) ==
  LET keys == {BucketOf(docs[i], options) : i \in DOMAIN docs}
      order == SetToSortSeq(keys, <) IN
  [k \in DOMAIN order |->
     [key |-> NumberOf(order[k]),
      count |-> NumberOf(Cardinality({i \in DOMAIN docs : BucketOf(docs[i], options) = order[k]}))]]

GroupedBy(docs, given) ==
  LET groups == GroupsOf(docs, [i \in DOMAIN docs |-> ValueIn(docs[i], given.by)], given.field)
      order == SetToSeq(groups) IN
  [i \in DOMAIN order |->
     [key |-> order[i].key, count |-> NumberOf(order[i].count), sum |-> NumberOf(order[i].sum),
      min |-> order[i].min, max |-> order[i].max]]

Applied(docs, stage) ==
  CASE stage.name = "$match" -> SelectSeq(docs, LAMBDA d : QueryAdmits(stage.given, d))
    [] stage.name = "$sort" -> Sorted(docs, stage.given.field, stage.given.ascending)
    [] stage.name = "$skip" -> SubSeq(docs, stage.given + 1, Len(docs))
    [] stage.name = "$limit" -> SubSeq(docs, 1, Min({stage.given, Len(docs)}))
    [] stage.name = "$lookup" -> [i \in DOMAIN docs |-> Joined(docs[i], stage.given)]
    [] stage.name = "$unwind" ->
         FlattenSeq([i \in DOMAIN docs |-> Unwound(docs[i], stage.given)])
    [] stage.name = "$group" -> GroupedBy(docs, stage.given)
    [] stage.name = "$project" ->
         [i \in DOMAIN docs |-> Restrict(docs[i], stage.given \cap DOMAIN docs[i])]
    [] stage.name = "$unset" ->
         [i \in DOMAIN docs |-> Restrict(docs[i], DOMAIN docs[i] \ stage.given)]
    [] stage.name = "$addFields" -> [i \in DOMAIN docs |-> stage.given @@ docs[i]]
    [] stage.name = "$replaceRoot" -> [i \in DOMAIN docs |-> docs[i][stage.given]]
    [] stage.name = "$bucket" -> Bucketed(docs, stage.given)
    [] stage.name = "$unionWith" -> docs \o stage.given
    [] stage.name = "$count" ->
         IF docs = <<>> THEN <<>> ELSE <<[count |-> NumberOf(Len(docs))]>>

RunStages(docs, stages) == FoldLeft(Applied, docs, stages)

\* A facet answers one document, of the results of its branches.
RunFacet(docs, stages) ==
  [branch \in DOMAIN Last(stages).given |->
     RunStages(RunStages(docs, Front(stages)), Last(stages).given[branch])]

------------------------------------------------------------------------------
(* Properties *)

\* filterSortPaginate: the pages, one after the other, are the documents that match in their
\* order, whatever the size, and a page before the first is the first; paginatedFacet cuts
\* the same pages and counts what all of them hold.
PagesTile(docs, filters, field, size) ==
  LET query == MatchFromFilters(filters)
      all == Sorted(SelectSeq(docs, LAMBDA d : QueryAdmits(query, d)), field, TRUE)
      pages == (Len(all) + size - 1) \div size
      page(n) == RunStages(docs, FilterSortPaginate(<<>>, query, field, TRUE, n, size))
      facet(n) == RunFacet(docs,
                    PaginatedFacet(SortStage(Match(<<>>, query), field, TRUE), n, size)) IN
  /\ FlattenSeq([n \in 1..pages |-> page(n)]) = all
  /\ page(pages + 1) = <<>> /\ page(0) = page(1) /\ page(-2) = page(1)
  /\ \A n \in 0..(pages + 1) :
       /\ facet(n).data = page(n)
       /\ all # <<>> => facet(n).totalCount = <<[count |-> NumberOf(Len(all))]>>

\* lookupAndUnwind is a left join: a document for every match, and one for a document that
\* has none, unless these are not to be preserved.
JoinsLeft(docs, options, preserve) ==
  LET joined == RunStages(docs, LookupAndUnwind(<<>>, options, preserve))
      matches(d) == Cardinality({k \in DOMAIN options.from :
                      ValueIn(options.from[k], options.foreignField) = ValueIn(d, options.localField)}) IN
  Len(joined) = MapThenSumSet(LAMBDA i : IF preserve THEN Max({1, matches(docs[i])})
                                         ELSE matches(docs[i]), DOMAIN docs)

\* countByField: a group for every value, each document in one, the largest first.
CountsByField(docs, field) ==
  LET groups == RunStages(docs, CountByField(<<>>, field)) IN
  /\ MapThenSumSet(LAMBDA i : groups[i].count.n, DOMAIN groups) = Len(docs)
  /\ {groups[i].key : i \in DOMAIN groups} = {ValueIn(docs[i], field) : i \in DOMAIN docs}
  /\ \A i, k \in DOMAIN groups : i < k => groups[i].count.n >= groups[k].count.n

\* A field that is joined and unset again, or left out of a projection, leaves no trace; a
\* union holds both collections; each document is in one bucket; and a step that depends on
\* a condition is taken when it holds.
ReshapesKeep(docs, other, options) ==
  LET fields == UNION {DOMAIN docs[i] : i \in DOMAIN docs}
      joined == LookupStage(<<>>, options)
      buckets == RunStages(docs, BucketStage(<<>>, [groupBy |-> options.localField,
                                   boundaries |-> <<1, 2, 3>>, default |-> 0])) IN
  /\ options.as \notin fields =>
       /\ RunStages(docs, UnsetStage(joined, {options.as})) = docs
       /\ RunStages(docs, ProjectStage(joined, fields)) = docs
  /\ RunStages(docs, RawStages(AddFieldsStage(<<>>, [mark |-> Null]), UnsetStage(<<>>, {"mark"}))) = docs
  /\ Len(RunStages(docs, UnionWithStage(<<>>, other))) = Len(docs) + Len(other)
  /\ MapThenSumSet(LAMBDA k : buckets[k].count.n, DOMAIN buckets) = Len(docs)
  /\ \A condition \in BOOLEAN :
       RunStages(docs, When(condition, <<>>, LimitStage(<<>>, 1)))
         = IF condition THEN SubSeq(docs, 1, Min({1, Len(docs)})) ELSE docs
=============================================================================
