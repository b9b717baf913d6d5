------------------------------- MODULE Outgoing -------------------------------
(***************************************************************************)
(* Calls to other systems: RequestService with its retries (retry), run by *)
(* a pool of workers (parallelLimit), for a caller that waits only so long *)
(* (withTimeout).  The other side carries requests out, refuses them or is *)
(* not heard of: a request or its answer may be lost.                      *)
(***************************************************************************)
EXTENDS Integers, Sequences, FiniteSets, FiniteSetsExt, SequencesExt

CONSTANTS
  Batches,      \* the sequences of calls, see Call, that a caller hands to the pool
  Concurrency,  \* the workers it asks for
  MaxAttempts,  \* of a retry
  DelayMs       \* the first delay of a retry

OutgoingAssumption ==
  /\ {Concurrency, MaxAttempts} \subseteq Nat \ {0} /\ DelayMs \in Nat
  /\ \A b \in Batches : b \in Seq(Range(b))

VARIABLES
  batch,    \* the tasks
  index,    \* how many tasks are taken
  worker,   \* what each worker does: a task, 0 before its first, or Gone
  task,     \* how far each task is, see NotTaken
  results,  \* the results of the pool, Undefined at first
  caller    \* "waiting", "resolved", "rejected" or "timed out"

vars == <<batch, index, worker, task, results, caller>>

Gone == -1
Undefined == [ok |-> FALSE, status |-> 0]

Tasks == DOMAIN batch
Workers == 1..Min({Concurrency, Len(batch)})

------------------------------------------------------------------------------
(* Requests *)

\* The methods of the service, and the one of HTTP that each stands for; request and
\* requestFull take any, and GET if none is given.
MethodOf ==
  [getRequest |-> "GET", getWithParams |-> "GET", downloadRequest |-> "GET",
   postRequest |-> "POST", putRequest |-> "PUT", patchRequest |-> "PATCH",
   deleteRequest |-> "DELETE", headRequest |-> "HEAD", isAlive |-> "HEAD"]

\* A call: the method of the service ("request" with its own), a payload or none, a content
\* type, the parameters of the query with those that are undefined, and whether it is made
\* with a retry.
Call(by, method, payload, contentType, params, again) ==
  [by |-> by, method |-> method, payload |-> payload, contentType |-> contentType,
   params |-> params, again |-> again]

HttpMethod(call) == IF call.by = "request" THEN call.method ELSE MethodOf[call.by]
ContentTypes == {"application/x-www-form-urlencoded", "multipart/form-data", "application/json"}
HasPayload(call) == call.payload # "none" /\ call.by \in {"request", "postRequest", "putRequest", "patchRequest"}

\* resolveContentType, of the calls that may name one.
ContentType(call) == IF HasPayload(call) THEN call.contentType ELSE "application/json"
Invalid(call) == ContentType(call) \notin ContentTypes

\* prepareBody: an encoded string, a form, or the payload as it is.
PrepareBody(payload, contentType) ==
  CASE contentType = "application/x-www-form-urlencoded" -> <<"string", payload>>
    [] contentType = "multipart/form-data" -> <<"form", payload>>
    [] OTHER -> <<"object", payload>>

\* observe: only three methods send a body.
Observe(call) ==
  IF HttpMethod(call) \in {"POST", "PUT", "PATCH"} /\ HasPayload(call)
  THEN PrepareBody(call.payload, ContentType(call)) ELSE <<"none", "none">>

\* buildUrl: the parameters that are undefined are left out.
BuildUrl(call) ==
  IF call.by \in {"request", "getWithParams"}
  THEN {p \in call.params : p[2] # "undefined"} ELSE {}

Sent(call) ==
  [method |-> HttpMethod(call), query |-> BuildUrl(call),
   contentType |-> ContentType(call), body |-> Observe(call)]

\* executeFull: an answer that is an error keeps its status, and no answer is a 400.
BadRequest == 400
NoAnswer == 0
IsError(status) == status \notin 200..299
StatusOf(answer) == IF answer = NoAnswer THEN BadRequest ELSE answer
\* isAlive throws nothing: TRUE, here a 200, or FALSE, here a 400.
Outcome(call, status) ==
  IF call.by = "isAlive" THEN [ok |-> TRUE, status |-> IF IsError(status) THEN BadRequest ELSE 200]
  ELSE [ok |-> ~IsError(status), status |-> status]

------------------------------------------------------------------------------
(* Tasks.  A task is waiting, calling (its request is on the way), answered *)
(* (its answer is), sleeping between two attempts, or over.  served counts  *)
(* how often the other side has carried it out, and slept its delays.       *)

NotTaken == [phase |-> "waiting", attempt |-> 0, sent |-> <<>>, answer |-> NoAnswer,
             served |-> 0, slept |-> 0, outcome |-> Undefined]

Init ==
  /\ batch \in Batches
  /\ index = 0 /\ worker = [w \in Workers |-> 0]
  /\ task = [t \in Tasks |-> NotTaken]
  /\ results = [t \in Tasks |-> Undefined] /\ caller = "waiting"

Attempts(t) == IF batch[t].again THEN MaxAttempts ELSE 1
Delay(attempt) == DelayMs * 2 ^ (attempt - 1)

\* An attempt of a task: a content type that there is none of fails at once, in every attempt.
Attempted(t, attempt) ==
  IF Invalid(batch[t])
  THEN [task[t] EXCEPT !.phase = "answered", !.attempt = attempt, !.answer = BadRequest]
  ELSE [task[t] EXCEPT !.phase = "calling", !.attempt = attempt, !.answer = NoAnswer, !.sent = Append(@, Sent(batch[t]))]

\* A faulty variant: a worker does not wait for its task.
FreeAtOnce(w) == worker[w] # Gone

\* A worker takes the next task when it begins and whenever it is done with one.
Free(w) == worker[w] \in {0} \cup {t \in Tasks : task[t].phase = "over"}
Take(w) ==
  /\ Free(w) /\ index < Len(batch)
  /\ index' = index + 1 /\ worker' = [worker EXCEPT ![w] = index + 1]
  /\ task' = [task EXCEPT ![index + 1] = Attempted(index + 1, 1)]
  /\ UNCHANGED <<batch, results, caller>>

Leave(w) ==
  /\ Free(w) /\ index = Len(batch) /\ worker' = [worker EXCEPT ![w] = Gone]
  /\ UNCHANGED <<batch, index, task, results, caller>>

\* The other side carries a request out, or refuses it.
Serve(t) ==
  /\ task[t].phase = "calling"
  /\ \E status \in {200, 503} :
       task' = [task EXCEPT ![t].answer = status, ![t].served = IF status = 200 THEN @ + 1 ELSE @,
                            ![t].phase = "answered"]
  /\ UNCHANGED <<batch, index, worker, results, caller>>

\* The request or its answer is lost: the timeout of the request.
Lose(t) ==
  /\ ~Invalid(batch[t])
  /\ task[t].phase = "calling" \/ (task[t].phase = "answered" /\ task[t].answer # NoAnswer)
  /\ task' = [task EXCEPT ![t].phase = "answered", ![t].answer = NoAnswer]
  /\ UNCHANGED <<batch, index, worker, results, caller>>

\* The attempt ends: with a result, or after the last attempt with its error, which ends the
\* worker and rejects the pool, but stops no other worker.
EndAttempt(t) ==
  /\ task[t].phase = "answered"
  /\ LET outcome == Outcome(batch[t], StatusOf(task[t].answer)) IN
     IF ~outcome.ok /\ task[t].attempt < Attempts(t)
     THEN /\ task' = [task EXCEPT ![t].phase = "sleeping", ![t].slept = @ + Delay(task[t].attempt)]
          /\ UNCHANGED <<worker, results, caller>>
     ELSE /\ task' = [task EXCEPT ![t].phase = "over", ![t].outcome = outcome]
          /\ IF outcome.ok
             THEN results' = [results EXCEPT ![t] = outcome] /\ UNCHANGED <<worker, caller>>
             ELSE /\ worker' = [w \in Workers |-> IF worker[w] = t THEN Gone ELSE worker[w]]
                  /\ caller' = IF caller = "waiting" THEN "rejected" ELSE caller
                  /\ UNCHANGED results
  /\ UNCHANGED <<batch, index>>

Retry(t) ==
  /\ task[t].phase = "sleeping"
  /\ task' = [task EXCEPT ![t] = Attempted(t, task[t].attempt + 1)]
  /\ UNCHANGED <<batch, index, worker, results, caller>>

\* Promise.all of the workers.
Resolve ==
  /\ caller = "waiting" /\ \A w \in Workers : worker[w] = Gone
  /\ caller' = "resolved"
  /\ UNCHANGED <<batch, index, worker, task, results>>

\* withTimeout around the pool, which goes on.
TimeOut ==
  /\ caller = "waiting" /\ caller' = "timed out"
  /\ UNCHANGED <<batch, index, worker, task, results>>

Finished ==
  /\ caller # "waiting" /\ \A w \in Workers : worker[w] = Gone
  /\ UNCHANGED vars

Step(t) == Serve(t) \/ Lose(t) \/ EndAttempt(t) \/ Retry(t)

Next ==
  \/ \E w \in Workers : Take(w) \/ Leave(w)
  \/ \E t \in Tasks : Step(t)
  \/ Resolve \/ TimeOut \/ Finished

\* Every request has its timeout, and every timer and promise its turn.
Spec == /\ Init /\ [][Next]_vars
        /\ WF_vars(Resolve) /\ WF_vars(\E w \in Workers : Take(w) \/ Leave(w))
        /\ WF_vars(\E t \in Tasks : Step(t))

------------------------------------------------------------------------------
(* Properties *)

\* parallelLimit: never more tasks at once than the workers asked for, none before its turn or
\* twice, and a pool that is resolved has the result of every task in the place of the task.
PoolFaithful ==
  /\ Cardinality({t \in Tasks : task[t].phase \notin {"waiting", "over"}}) <= Concurrency
  /\ \A t \in Tasks : (task[t].phase = "waiting") <=> (t > index)
  /\ \A w, v \in Workers : worker[w] = worker[v] => w = v \/ worker[w] \in {0, Gone}
  /\ caller = "resolved" => \A t \in Tasks : results[t] = task[t].outcome /\ results[t].ok
  /\ caller = "rejected" => \E t \in Tasks : task[t].phase = "over" /\ ~task[t].outcome.ok

\* retry: a call is not made more often than it may be, and one that ends well without a retry
\* has been carried out exactly once, one with retries at least once and no more often than it
\* was sent; all attempts send the same, and the delays double.
RetriesBounded ==
  \A t \in Tasks :
    /\ task[t].attempt <= Attempts(t) /\ task[t].served <= Len(task[t].sent)
    /\ task[t].phase = "over" /\ task[t].outcome.ok /\ batch[t].by # "isAlive" =>
         task[t].served \in 1..task[t].attempt
    /\ \A i \in DOMAIN task[t].sent : task[t].sent[i] = task[t].sent[1]
    /\ task[t].phase = "over" /\ ~task[t].outcome.ok => task[t].attempt = Attempts(t)
    /\ task[t].phase \in {"calling", "answered", "over"} /\ task[t].attempt > 0 =>
         task[t].slept = DelayMs * (2 ^ (task[t].attempt - 1) - 1)

\* The caller is answered, and every worker ends, whatever is lost.
Waiting == caller = "waiting" \/ \E w \in Workers : worker[w] # Gone
PoolSettles == Waiting ~> ~Waiting
=============================================================================
