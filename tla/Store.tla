-------------------------------- MODULE Store --------------------------------
(***************************************************************************)
(* One collection, or one table, behind BaseMongoRepository and            *)
(* MongoService, or BasePostgresRepository and PostgresService: the        *)
(* operations of the two that take more than one command, while others     *)
(* write to the same rows.                                                 *)
(*                                                                         *)
(* A row has a key and a status; rows are numbered in the order they are   *)
(* created, with gaps.  Sorted is sorted by that number.  What the schema  *)
(* refuses has status "bad".  Callers do one job each.                     *)
(***************************************************************************)
EXTENDS Integers, Sequences, FiniteSets, Functions

CONSTANTS
  Callers,
  Keys,
  Statuses,      \* "bad" is no member
  Dialects,      \* of {"mongo", "postgres"}
  Jobs,          \* what callers ask for, see Job below
  InitialRows,   \* a set of sequences of rows
  MaxRows,       \* bound: no row is created beyond it
  BatchSize,     \* 1000 in createMany
  PageLimit      \* 100 in find

VARIABLES
  dialect,   \* which of the two services it is
  unique,    \* is there a unique index on the key?
  rows,      \* the rows there are
  last,      \* the number of the last row that was created
  job        \* what each caller is doing

vars == <<dialect, unique, rows, last, job>>

------------------------------------------------------------------------------
\* deleted stands for deletedAt, n for a field that is counted up, and tags for an array.
RowOf(key, status) ==
  [key |-> key, status |-> status, deleted |-> FALSE, n |-> 0, tags |-> <<>>]

\* op: "upserts" for findOrCreate (keep), upsert and bulkUpsert, of one record or more;
\* "createMany"; "batch" for batchProcess and stream, where the processor may settle what it
\* gets, and sorted says whether options.sort names a field that orders all rows, new ones
\* last, and that nobody writes; "transaction", of several inserts; or the name of a method.
Job(op, records, keep, size, settles, sorted) ==
  [op |-> op, records |-> records, keep |-> keep, size |-> size, settles |-> settles,
   sorted |-> sorted]

\* The methods of one command.
Updates == {"update", "softDelete", "restore"}
Operators == {"increment", "decrement", "push", "pull", "addToSet"}
Commands == Updates \cup Operators \cup {"create", "updateMany", "delete", "deleteMany"}

\* Nothing is asked for with no record, or in pages of none; no key occurs twice at first.
Records == {RowOf(key, status) : key \in Keys, status \in Statuses \cup {"bad"}}
StoreAssumption ==
  /\ "bad" \notin Statuses
  /\ Dialects \subseteq {"mongo", "postgres"}
  /\ {MaxRows, BatchSize, PageLimit} \subseteq Nat \ {0}
  /\ \A j \in Jobs :
       /\ j = Job(j.op, j.records, j.keep, j.size, j.settles, j.sorted)
       /\ j.op \in Commands \cup {"upserts", "createMany", "transaction", "batch"}
       /\ j.records \in Seq(Records) /\ {j.keep, j.settles, j.sorted} \subseteq BOOLEAN
       /\ IF j.op = "batch" THEN j.size \in Nat \ {0} ELSE j.records # <<>>
  /\ \A start \in InitialRows :
       /\ start \in Seq(Records)
       /\ \A i, k \in DOMAIN start : start[i].key = start[k].key => i = k

\* The progress of a job.  inserted, updated and failed are what it will report; made and
\* changed are what it did; seen is what the processor got, again whether it got a row twice,
\* due what matched at the start, and lost whether others have disturbed it, see Disturbed;
\* answer is what a method returns: "done", "missed" (null, false or 0) or "threw".
Progress(j, pc) ==
  [job |-> j, pc |-> pc, at |-> 1, found |-> 0, inserted |-> 0, updated |-> 0, failed |-> 0,
   answer |-> "", made |-> 0, changed |-> 0, page |-> 1, total |-> 0, data |-> {},
   seen |-> {}, again |-> FALSE, due |-> {}, lost |-> FALSE]

NoJob == Job("none", <<>>, FALSE, 0, FALSE, FALSE)

Init ==
  /\ dialect \in Dialects
  /\ unique \in BOOLEAN
  /\ rows \in InitialRows
  /\ last = Len(rows)
  /\ job = [c \in Callers |-> Progress(NoJob, "idle")]

------------------------------------------------------------------------------
\* The filter of a batch job, and its page: min(limit || 20, 100) and the rows after skip.
Open == {i \in DOMAIN rows : rows[i].status = "open"}
Smaller(m, n) == IF m < n THEN m ELSE n
Limit(size) == Smaller(size, PageLimit)
Rank(ids, i) == Cardinality({k \in ids : k <= i})
PageOf(ids, page, size) ==
  {i \in ids : Rank(ids, i) \in ((page - 1) * Limit(size) + 1)..(page * Limit(size))}

\* The jobs of the others, disturbed when a step makes a row that was there match or stop to
\* match, and those without options.sort also when it writes to a row that matches, or adds
\* one: a row that is written may change its place, and a new one may take any.
Disturbed(written) ==
  [c \in Callers |->
     IF /\ Open \subseteq Open' /\ Open' \cap DOMAIN rows \subseteq Open
        /\ job[c].job.sorted \/ written \cap Open' = {}
     THEN job[c] ELSE [job[c] EXCEPT !.lost = TRUE]]

Refused(record) ==
  \/ record.status = "bad"
  \/ unique /\ \E i \in DOMAIN rows : rows[i].key = record.key

Insert(record) ==
  /\ last < MaxRows
  /\ last' = last + 1
  /\ rows' = [i \in DOMAIN rows \cup {last + 1} |-> IF i = last + 1 THEN record ELSE rows[i]]

\* Of a batch of records, those that a unique index refuses: their key is in the table, or in
\* the batch before them.
Duplicates(batch, ids) ==
  {i \in ids :
     /\ unique
     /\ \/ \E r \in DOMAIN rows : rows[r].key = batch[i].key
        \/ \E k \in ids : k < i /\ batch[k].key = batch[i].key}

\* The rest are inserted in their order.
InsertAll(batch, ids) ==
  /\ last + Len(batch) <= MaxRows
  /\ last' = last + Len(batch)
  /\ rows' = [i \in DOMAIN rows \cup {last + k : k \in ids} |->
                IF i <= last THEN rows[i] ELSE batch[i - last]]

\* A caller begins; a batch remembers what matches now.
Entry == [upserts |-> "look", createMany |-> "batch", batch |-> "count", transaction |-> "within"]
Begin(c) ==
  /\ job[c].pc = "idle"
  /\ \E j \in Jobs :
       /\ dialect = "mongo" \/ j.op \notin {"push", "pull", "addToSet"}
       /\ job' = [job EXCEPT ![c] =
                     [Progress(j, IF j.op \in DOMAIN Entry THEN Entry[j.op] ELSE "command") EXCEPT
                        !.due = IF j.op = "batch" THEN Open ELSE {}]]
  /\ UNCHANGED <<dialect, unique, rows, last>>

Current(c) == job[c].job.records[job[c].at]

\* What is counted: as much as is told, though it was n.
Inserted(p, told, n) == [p EXCEPT !.inserted = @ + told, !.made = @ + n]
Updated(p, told, n) == [p EXCEPT !.updated = @ + told, !.changed = @ + n]
Failed(p, n) == [p EXCEPT !.failed = @ + n]

\* The next record, or the end of the job; a single upsert has no next.
Advanced(p) ==
  IF p.at = Len(p.job.records) THEN [p EXCEPT !.pc = "done"]
  ELSE [p EXCEPT !.at = @ + 1, !.pc = "look"]

------------------------------------------------------------------------------
(* findOrCreate, upsert, bulkUpsert: look, then write. *)

\* A faulty variant: another field is looked up.
LookByStatus(c) ==
  /\ job[c].pc = "look"
  /\ LET same == {i \in DOMAIN rows : rows[i].status = Current(c).status} IN
     \E i \in IF same = {} THEN {0} ELSE same :
       job' = [job EXCEPT ![c].found = i, ![c].pc = "write"]
  /\ UNCHANGED <<dialect, unique, rows, last>>

Look(c) ==
  /\ job[c].pc = "look"
  /\ LET same == {i \in DOMAIN rows : rows[i].key = Current(c).key} IN
     \E i \in IF same = {} THEN {0} ELSE same :
       job' = [job EXCEPT ![c].found = i, ![c].pc = "write"]
  /\ UNCHANGED <<dialect, unique, rows, last>>

\* Nothing was found: create, which a unique index refuses when another was faster.
CreateMissing(c) ==
  /\ job[c].pc = "write" /\ job[c].found = 0
  /\ IF Refused(Current(c))
     THEN job' = [job EXCEPT ![c] = Advanced(Failed(@, 1))] /\ UNCHANGED <<rows, last>>
     ELSE /\ Insert(Current(c))
          /\ job' = [Disturbed({last'}) EXCEPT ![c] = Advanced(Inserted(job[c], 1, 1))]
  /\ UNCHANGED <<dialect, unique>>

\* findOrCreate returns what it has found.
KeepFound(c) ==
  /\ job[c].pc = "write" /\ job[c].found # 0 /\ job[c].job.keep
  /\ job' = [job EXCEPT ![c] = Advanced(@)]
  /\ UNCHANGED <<dialect, unique, rows, last>>

\* Otherwise the row is written over.  If it is gone by now, MongoDB's update throws, and
\* that of PostgreSQL changes nothing and counts as an update.
UpdateFound(c) ==
  /\ job[c].pc = "write" /\ job[c].found # 0 /\ ~job[c].job.keep
  /\ LET i == job[c].found IN
     IF i \in DOMAIN rows
     THEN LET row == [rows[i] EXCEPT !.status = Current(c).status] IN
          /\ rows' = [rows EXCEPT ![i] = row]
          /\ job' = [Disturbed({i}) EXCEPT ![c] = Advanced(Updated(job[c], 1, 1))]
     ELSE /\ job' = [job EXCEPT ![c] =
                       Advanced(IF dialect = "mongo" THEN Failed(@, 1) ELSE Updated(@, 1, 0))]
          /\ UNCHANGED rows
  /\ UNCHANGED <<dialect, unique, last>>

------------------------------------------------------------------------------
(* createMany: a batch at a time. *)

BatchOf(c) ==
  SubSeq(job[c].job.records, job[c].at, Smaller(job[c].at + BatchSize - 1, Len(job[c].job.records)))

NextBatch(p, n) ==
  IF p.at + n > Len(p.job.records) THEN [p EXCEPT !.pc = "done"]
  ELSE [p EXCEPT !.at = @ + n, !.pc = "batch"]

\* MongoService: insertMany, not ordered.  What the schema refuses is left out without an
\* error; the duplicates are the errors; insertedCount || batch.length is what counts.
InsertMany(c) ==
  /\ job[c].pc = "batch" /\ dialect = "mongo"
  /\ LET batch == BatchOf(c)
         valid == {i \in DOMAIN batch : batch[i].status # "bad"}
         errors == Cardinality(Duplicates(batch, valid))
         made == Cardinality(valid) - errors
         counted == IF errors > 0 THEN Len(batch) - errors
                    ELSE IF made = 0 THEN Len(batch) ELSE made IN
     /\ InsertAll(batch, valid \ Duplicates(batch, valid))
     /\ job' = [Disturbed((last + 1)..last') EXCEPT ![c] =
                  NextBatch(Failed(Inserted(job[c], counted, made), errors), Len(batch))]
  /\ UNCHANGED <<dialect, unique>>

\* PostgresService: the batch as a whole, in a transaction of its own,
SaveBatch(c) ==
  /\ job[c].pc = "batch" /\ dialect = "postgres"
  /\ LET batch == BatchOf(c)
         fails == \/ Duplicates(batch, DOMAIN batch) # {}
                  \/ \E i \in DOMAIN batch : batch[i].status = "bad" IN
     IF fails
     THEN job' = [job EXCEPT ![c].pc = "each", ![c].found = Len(batch)] /\ UNCHANGED <<rows, last>>
     ELSE /\ InsertAll(batch, DOMAIN batch)
          /\ job' = [Disturbed((last + 1)..last') EXCEPT ![c] =
                       NextBatch(Inserted(job[c], Len(batch), Len(batch)), Len(batch))]
  /\ UNCHANGED <<dialect, unique>>

\* and if that fails one record after the other; found counts those of the batch to come.
NextOfBatch(p) ==
  IF p.found = 1 THEN NextBatch(p, 1) ELSE [p EXCEPT !.found = @ - 1, !.at = @ + 1]

SaveEach(c) ==
  /\ job[c].pc = "each"
  /\ IF Refused(Current(c))
     THEN job' = [job EXCEPT ![c] = NextOfBatch(Failed(@, 1))] /\ UNCHANGED <<rows, last>>
     ELSE /\ Insert(Current(c))
          /\ job' = [Disturbed({last'}) EXCEPT ![c] = NextOfBatch(Inserted(job[c], 1, 1))]
  /\ UNCHANGED <<dialect, unique>>

------------------------------------------------------------------------------
(* batchProcess, stream: findMany page by page; find counts, then fetches. *)

Count(c) ==
  /\ job[c].pc = "count"
  /\ job' = [job EXCEPT ![c].total = Cardinality(Open), ![c].pc = "fetch"]
  /\ UNCHANGED <<dialect, unique, rows, last>>

\* A faulty variant: a last page that is not full is left out.
NextFullPage(p) ==
  IF (p.page + 1) * Limit(p.job.size) <= p.total
  THEN [p EXCEPT !.page = @ + 1, !.pc = "count"] ELSE [p EXCEPT !.pc = "done"]

NextPage(p) ==
  IF p.page * Limit(p.job.size) < p.total
  THEN [p EXCEPT !.page = @ + 1, !.pc = "count"] ELSE [p EXCEPT !.pc = "done"]

\* In which order are the rows?  options.sort says so.  Without it no ORDER BY is given, and
\* once the job is disturbed a page may be of any rows that match.
Fetched(p) ==
  LET page == PageOf(Open, p.page, p.job.size) IN
  IF p.job.sorted \/ ~p.lost THEN {page}
  ELSE {ids \in SUBSET Open : Cardinality(ids) = Cardinality(page)}

Fetch(c) ==
  /\ job[c].pc = "fetch"
  /\ \E data \in Fetched(job[c]) :
     job' = [job EXCEPT ![c] = IF data = {} THEN NextPage(@)
                               ELSE [@ EXCEPT !.data = data, !.pc = "process"]]
  /\ UNCHANGED <<dialect, unique, rows, last>>

\* processor(batch.data), which may settle the rows it gets.
Given(p) ==
  [p EXCEPT !.seen = @ \cup p.data, !.again = @ \/ p.seen \cap p.data # {}, !.data = {}]

Process(c) ==
  /\ job[c].pc = "process"
  /\ IF job[c].job.settles
     THEN /\ rows' = [i \in DOMAIN rows |->
                        IF i \in job[c].data THEN [rows[i] EXCEPT !.status = "done"] ELSE rows[i]]
          /\ job' = [Disturbed(job[c].data) EXCEPT ![c] = NextPage(Given(job[c]))]
     ELSE job' = [job EXCEPT ![c] = NextPage(Given(@))] /\ UNCHANGED rows
  /\ UNCHANGED <<dialect, unique, last>>

------------------------------------------------------------------------------
(* A command of the database each, with the read that PostgresService.     *)
(* update, increment and decrement do behind it.                           *)

Asked(c, op) == job[c].pc = "command" /\ job[c].job.op = op
Answered(p, answer) == [p EXCEPT !.pc = "done", !.answer = answer]

Create(c) ==
  /\ Asked(c, "create")
  /\ IF Refused(Current(c))
     THEN job' = [job EXCEPT ![c] = Answered(@, "threw")] /\ UNCHANGED <<rows, last>>
     ELSE /\ Insert(Current(c))
          /\ job' = [Disturbed({last'}) EXCEPT ![c] = Answered(Inserted(job[c], 0, 1), "done")]
  /\ UNCHANGED <<dialect, unique>>

\* softDelete and restore are updates of deletedAt.
Tagged(op, tags, tag) ==
  CASE op = "push" \/ (op = "addToSet" /\ tag \notin Range(tags)) -> Append(tags, tag)
    [] op = "pull" -> SelectSeq(tags, LAMBDA x : x # tag)
    [] OTHER -> tags
Edited(op, row, record) ==
  [row EXCEPT !.status = IF op = "update" THEN record.status ELSE @,
              !.deleted = op = "softDelete" \/ (@ /\ op # "restore"),
              !.n = IF op = "increment" THEN @ + 1 ELSE IF op = "decrement" THEN @ - 1 ELSE @,
              !.tags = Tagged(op, @, record.key)]

EditRow(c, i) == rows' = [rows EXCEPT ![i] = Edited(job[c].job.op, @, Current(c))]

\* findByIdAndUpdate: for a row that is not there (0) or gone, update of the repository
\* throws, and with it softDelete and restore,
UpdateMongo(c) ==
  /\ dialect = "mongo" /\ job[c].pc = "command" /\ job[c].job.op \in Updates
  /\ \E i \in 0..last :
       IF i \in DOMAIN rows
       THEN /\ EditRow(c, i)
            /\ job' = [Disturbed({i}) EXCEPT ![c] = Answered(Updated(job[c], 0, 1), "done")]
       ELSE job' = [job EXCEPT ![c] = Answered(@, "threw")] /\ UNCHANGED rows
  /\ UNCHANGED <<dialect, unique, last>>

\* and $inc, $push, $pull and $addToSet answer null.
OperatorMongo(c) ==
  /\ dialect = "mongo" /\ job[c].pc = "command" /\ job[c].job.op \in Operators
  /\ \E i \in 0..last :
       IF i \in DOMAIN rows
       THEN /\ EditRow(c, i)
            /\ job' = [Disturbed({i}) EXCEPT ![c] = Answered(Updated(job[c], 0, 1), "done")]
       ELSE job' = [job EXCEPT ![c] = Answered(@, "missed")] /\ UNCHANGED rows
  /\ UNCHANGED <<dialect, unique, last>>

\* PostgreSQL: UPDATE, which changes nothing if the row is gone; it knows no arrays,
EditPostgres(c) ==
  /\ dialect = "postgres" /\ job[c].pc = "command"
  /\ job[c].job.op \in Updates \cup {"increment", "decrement"}
  /\ \E i \in 0..last :
       IF i \in DOMAIN rows
       THEN /\ EditRow(c, i)
            /\ job' = [Disturbed({i}) EXCEPT ![c] =
                         [Updated(job[c], 0, 1) EXCEPT !.found = i, !.pc = "read"]]
       ELSE job' = [job EXCEPT ![c].found = i, ![c].pc = "read"] /\ UNCHANGED rows
  /\ UNCHANGED <<dialect, unique, last>>

\* and then findOne.
ReadBack(c) ==
  /\ job[c].pc = "read"
  /\ job' = [job EXCEPT ![c] = Answered(@, IF job[c].found \in DOMAIN rows THEN "done" ELSE "missed")]
  /\ UNCHANGED <<dialect, unique, rows, last>>

\* A faulty variant: matchedCount.
CountedMatched(matched, modified) == Cardinality(matched)

\* modifiedCount of MongoDB, and what PostgreSQL says is affected.
Counted(matched, modified) == Cardinality(IF dialect = "mongo" THEN modified ELSE matched)

\* The rows with a status are updated, or deleted.
UpdateMany(c) ==
  /\ Asked(c, "updateMany")
  /\ \E status \in Statuses :
       LET ids == {i \in DOMAIN rows : rows[i].status = status}
           modified == IF status = Current(c).status THEN {} ELSE ids
           counted == Counted(ids, modified) IN
       /\ rows' = [i \in DOMAIN rows |->
                     IF i \in ids THEN Edited("update", rows[i], Current(c)) ELSE rows[i]]
       /\ job' = [Disturbed(ids) EXCEPT ![c] = Answered(
                    Updated(job[c], counted, Cardinality(modified)),
                    IF counted = 0 THEN "missed" ELSE "done")]
  /\ UNCHANGED <<dialect, unique, last>>

Without(ids) == [i \in DOMAIN rows \ ids |-> rows[i]]

Delete(c) ==
  /\ Asked(c, "delete")
  /\ \E i \in 0..last :
       /\ rows' = Without({i})
       /\ job' = [Disturbed({}) EXCEPT ![c] =
                    IF i \in DOMAIN rows THEN Answered(Updated(job[c], 0, 1), "done")
                    ELSE Answered(job[c], "missed")]
  /\ UNCHANGED <<dialect, unique, last>>

DeleteMany(c) ==
  /\ Asked(c, "deleteMany")
  /\ \E status \in Statuses :
       LET ids == {i \in DOMAIN rows : rows[i].status = status} IN
       /\ rows' = Without(ids)
       /\ job' = [Disturbed({}) EXCEPT ![c] =
                    Answered(Updated(job[c], 0, Cardinality(ids)),
                             IF ids = {} THEN "missed" ELSE "done")]
  /\ UNCHANGED <<dialect, unique, last>>

------------------------------------------------------------------------------
(* transaction: fn inserts record by record, and sees what it has inserted; *)
(* others see it when it is committed.                                     *)

TxInsert(c) ==
  /\ job[c].pc = "within"
  /\ LET p == job[c]
         own == \E i \in 1..(p.at - 1) : p.job.records[i].key = Current(c).key IN
     job' = [job EXCEPT ![c] =
               IF Refused(Current(c)) \/ (unique /\ own) THEN Answered(p, "threw")
               ELSE IF p.at < Len(p.job.records) THEN [p EXCEPT !.at = p.at + 1]
               ELSE [p EXCEPT !.pc = "commit"]]
  /\ UNCHANGED <<dialect, unique, rows, last>>

\* The commit fails when another was faster with a key.
TxCommit(c) ==
  /\ job[c].pc = "commit"
  /\ LET batch == job[c].job.records IN
     IF Duplicates(batch, DOMAIN batch) # {}
     THEN job' = [job EXCEPT ![c] = Answered(@, "threw")] /\ UNCHANGED <<rows, last>>
     ELSE /\ InsertAll(batch, DOMAIN batch)
          /\ job' = [Disturbed((last + 1)..last') EXCEPT ![c] =
                       Answered(Inserted(job[c], 0, Len(batch)), "done")]
  /\ UNCHANGED <<dialect, unique>>

Step(c) ==
  \/ Begin(c) \/ Look(c) \/ CreateMissing(c) \/ KeepFound(c) \/ UpdateFound(c)
  \/ InsertMany(c) \/ SaveBatch(c) \/ SaveEach(c)
  \/ Count(c) \/ Fetch(c) \/ Process(c)
  \/ Create(c) \/ UpdateMongo(c) \/ OperatorMongo(c) \/ EditPostgres(c) \/ ReadBack(c)
  \/ UpdateMany(c) \/ Delete(c) \/ DeleteMany(c) \/ TxInsert(c) \/ TxCommit(c)

\* The callers have what they asked for.
Finished == (\A c \in Callers : job[c].pc = "done") /\ UNCHANGED vars

Next == (\E c \in Callers : Step(c)) \/ Finished

Spec == Init /\ [][Next]_vars

------------------------------------------------------------------------------
(* Properties *)

\* findOrCreate, upsert and bulkUpsert make no second row of a key: where an index forbids
\* it, whoever else writes, and elsewhere as long as nobody else does.
OneRowPerKey ==
  /\ unique => \A i, k \in DOMAIN rows : rows[i].key = rows[k].key => i = k
  /\ \A c \in Callers :
       (/\ job[c].job.op = "upserts"
        /\ \A d \in Callers \ {c} : job[d].pc = "idle")
       => \A r \in Range(job[c].job.records) :
            Cardinality({i \in DOMAIN rows : rows[i].key = r.key}) <= 1

\* BulkWriteResult: every record of a bulk operation is in one of its counts, as many are
\* reported inserted as were, and no update is reported that MongoDB did not make.  (Not so
\* for what the schema refuses in createMany of MongoDB.)  A method that succeeds has done
\* what it was asked, and one that throws nothing.
ReportsTruthful ==
  \A c \in Callers :
    LET p == job[c]
        n == Len(p.job.records)
        bulk == p.job.op \in {"upserts", "createMany"} IN
    /\ dialect = "mongo" /\ (bulk \/ p.job.op = "updateMany") => p.updated = p.changed
    /\ bulk /\ (dialect = "postgres" \/ \A r \in Range(p.job.records) : r.status # "bad") =>
         /\ p.inserted = p.made
         /\ p.pc = "done" => p.job.keep \/ p.inserted + p.updated + p.failed = n
    /\ p.answer = "done" => p.changed > 0 \/ p.made > 0 \/ p.updated > 0
    /\ p.answer = "threw" => p.changed = 0 /\ p.made = 0
    /\ p.job.op = "transaction" /\ p.answer = "done" => p.made = n

\* batchProcess, "Iterates through all matching entities page-by-page", and stream: as long as
\* no row but new ones begins or ceases to match meanwhile, each is processed, once; and
\* without options.sort only as long as no row that matches is written, or added, either.
BatchesCover ==
  \A c \in Callers :
    LET p == job[c] IN
    p.job.op = "batch" /\ p.pc = "done" /\ ~p.job.settles /\ ~p.lost =>
      p.due \subseteq p.seen /\ ~p.again
=============================================================================
