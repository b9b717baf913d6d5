-------------------------------- MODULE Lists --------------------------------
(***************************************************************************)
(* array.util.ts and pagination.util.ts: pure functions on arrays.  An     *)
(* item is a record with a key and a tag, so that items which compare      *)
(* equal can be told apart.                                                *)
(***************************************************************************)
EXTENDS Integers, Sequences, FiniteSets, SequencesExt

Items(s) == {s[i] : i \in 1..Len(s)}
LesserOf(a, b) == IF a <= b THEN a ELSE b
GreaterOf(a, b) == IF a >= b THEN a ELSE b

\* The indices of s whose item is the first with its key; Kept, the items at some indices.
Kept(s, indices) == LET c == SetToSortSeq(indices, <) IN [i \in 1..Len(c) |-> s[c[i]]]
UniqueBy(s, keyOf) ==
  Kept(s, {i \in 1..Len(s) : \A j \in 1..(i - 1) : keyOf[s[j]] # keyOf[s[i]]})
Unique(s) == UniqueBy(s, [x \in Items(s) |-> x])

Slice(s, from, to) == SubSeq(s, from + 1, LesserOf(to, Len(s)))

\* A faulty variant: a last chunk that is not full is lost.
FullChunks(s, size) == [i \in 1..(Len(s) \div size) |-> Slice(s, (i - 1) * size, i * size)]

\* chunk, size at least 1
Chunk(s, size) ==
  [i \in 1..((Len(s) + size - 1) \div size) |-> Slice(s, (i - 1) * size, i * size)]

FlattenArray(ss) == FlattenSeq(ss)
Intersection(a, b) == Unique(SelectSeq(a, LAMBDA x : x \in Items(b)))
Difference(a, b) == SelectSeq(a, LAMBDA x : x \notin Items(b))

\* sortBy one key after the other; Array.sort is stable.  Precedes: the comparison is below 0.
Compare(a, b, order) == IF a = b THEN 0 ELSE IF (a < b) = (order = "asc") THEN -1 ELSE 1
Precedes(a, b, keys) ==
  \E k \in 1..Len(keys) :
    /\ Compare(a[keys[k].key], b[keys[k].key], keys[k].order) = -1
    /\ \A l \in 1..(k - 1) : a[keys[l].key] = b[keys[l].key]
SortBy(s, keys) ==
  LET Before(i, j) == Precedes(s[i], s[j], keys) \/ (~Precedes(s[j], s[i], keys) /\ i < j)
      order == SetToSortSeq(1..Len(s), Before)
  IN [i \in 1..Len(s) |-> s[order[i]]]

\* partition, findWithIndex (0 where the code has undefined), take, takeLast, zip; a predicate
\* is the set of what it holds of.
Partition(s, set) == <<SelectSeq(s, LAMBDA x : x \in set), SelectSeq(s, LAMBDA x : x \notin set)>>
FindWithIndex(s, set) == SelectInSeq(s, LAMBDA x : x \in set)
Take(s, n) == Slice(s, 0, GreaterOf(0, n))
TakeLast(s, n) == IF n <= 0 THEN <<>> ELSE Slice(s, GreaterOf(0, Len(s) - n), Len(s))
ZipPairs(a, b) == [i \in 1..LesserOf(Len(a), Len(b)) |-> <<a[i], b[i]>>]

\* toMap: of the items with one key the last wins; countBy
ToMap(s, keyOf) ==
  [k \in {keyOf[x] : x \in Items(s)} |-> SelectLastInSeq(s, LAMBDA x : keyOf[x] = k)]
CountBy(s, keyOf) ==
  [k \in {keyOf[x] : x \in Items(s)} |-> Len(SelectSeq(s, LAMBDA x : keyOf[x] = k))]

\* minBy and maxBy: the first of the extreme items, of a non-empty array
MinBy(s, f) == s[SelectInSeq(s, LAMBDA x : \A y \in Items(s) : f[x] <= f[y])]
MaxBy(s, f) == s[SelectInSeq(s, LAMBDA x : \A y \in Items(s) : f[x] >= f[y])]

\* shuffle: what the loop can make of s when j is drawn from 0..i; sampleN takes from it.
Swapped(s, i, j) == [s EXCEPT ![i] = s[j], ![j] = s[i]]
ShufflesFrom(s) ==
  LET Shuffles[i \in Nat] ==
        IF i >= Len(s) THEN {s}
        ELSE UNION {{Swapped(r, i + 1, j) : j \in 1..(i + 1)} : r \in Shuffles[i + 1]}
  IN IF s = <<>> THEN {s} ELSE Shuffles[1]
SampleN(s, n) == {Slice(r, 0, LesserOf(n, Len(s))) : r \in ShufflesFrom(s)}

\* buildPaginationMeta
PaginationMeta(page, limit, total) ==
  LET pages == (total + limit - 1) \div limit
  IN [totalPages |-> pages, hasNext |-> page < pages, hasPrevious |-> page > 1]

----------------------------------------------------------------------------
KeyOfItems(s) == [x \in Items(s) |-> x.key]
IsOrderOf(s, t) == \E p \in [1..Len(s) -> 1..Len(s)] : IsInjective(p) /\ t = [i \in 1..Len(s) |-> s[p[i]]]

\* Pages tile the result: page after page gives every row once, in order; the last has no next.
PagesTile(s, limit) ==
  LET pages == Chunk(s, limit) IN
    /\ FlattenArray(pages) = s
    /\ \A i \in 1..Len(pages) : Len(pages[i]) \in 1..limit
    /\ \A page \in 1..(Len(pages) + 1) :
         LET meta == PaginationMeta(page, limit, Len(s)) IN
           /\ meta.totalPages = Len(pages)
           /\ meta.hasNext <=> page < Len(pages)
           /\ page <= Len(pages) => pages[page] = Take(TakeLast(s, Len(s) - (page - 1) * limit), limit)

\* sortBy puts items in order and leaves those that compare equal as they were.
SortsStably(s, keys) ==
  LET t == SortBy(s, keys) IN
    /\ IsOrderOf(s, t)
    /\ \A i, j \in 1..Len(t) : i < j => ~Precedes(t[j], t[i], keys)
    /\ \A x, y \in Items(s) : ~Precedes(x, y, keys) /\ ~Precedes(y, x, keys) =>
         SelectSeq(s, LAMBDA z : z \in {x, y}) = SelectSeq(t, LAMBDA z : z \in {x, y})

\* The others keep, drop and group what they should, and lose and invent nothing.
Groups(s, t) ==
  LET parts == Partition(s, Items(t))
      keyOf == KeyOfItems(s) IN
    /\ Items(Unique(s)) = Items(s) /\ IsInjective(Unique(s))
    /\ Len(UniqueBy(s, keyOf)) = Cardinality(DOMAIN ToMap(s, keyOf))
    /\ Intersection(s, t) = Unique(parts[1]) /\ Difference(s, t) = parts[2]
    /\ Items(parts[1]) \cup Items(parts[2]) = Items(s)
    /\ Len(parts[1]) + Len(parts[2]) = Len(s)
    /\ \A k \in DOMAIN CountBy(s, keyOf) : s[ToMap(s, keyOf)[k]].key = k
    /\ Len(ZipPairs(s, t)) = LesserOf(Len(s), Len(t))
    /\ s # <<>> => /\ MinBy(s, keyOf) = SortBy(s, <<[key |-> "key", order |-> "asc"]>>)[1]
                   /\ MaxBy(s, keyOf) = SortBy(s, <<[key |-> "key", order |-> "desc"]>>)[1]
    /\ LET at == FindWithIndex(s, Items(t)) IN
         IF parts[1] = <<>> THEN at = 0 ELSE s[at] = parts[1][1]
    /\ FoldFunction(LAMBDA n, m : n + m, 0, CountBy(s, keyOf)) = Len(s)

\* shuffle can give every order of the items, and nothing else.
ShufflesAll(s) ==
  /\ ShufflesFrom(s) = {[i \in 1..Len(s) |-> s[p[i]]] : p \in
       {q \in [1..Len(s) -> 1..Len(s)] : IsInjective(q)}}
  /\ \A r \in SampleN(s, 2) : Len(r) = LesserOf(2, Len(s)) /\ Items(r) \subseteq Items(s)
=============================================================================
