----------------------------- MODULE Idempotency -----------------------------
(***************************************************************************)
(* IdempotencyInterceptor and TimeoutInterceptor, for the requests that    *)
(* carry one idempotency key (one user, method, path and body): the answer *)
(* of a request is kept in the memory of the process for an hour from its  *)
(* arrival, and repeated.                                                  *)
(***************************************************************************)
EXTENDS Naturals

CONSTANTS
  Attempts,  \* bound: the requests with this key
  Ttl,       \* ttlMs
  MaxTime,   \* bound: ticks of the clock
  None

IdempotencyAssumption ==
  /\ {Ttl, MaxTime} \subseteq Nat
  /\ None \notin [expiresAt: Nat, payload: Attempts]

VARIABLES
  now,
  cache,    \* the entry of the key
  attempt,  \* attempt[a]: the request a
  excused   \* history: the client has not waited, a request has timed out, the
            \* process was restarted

idemVars == <<now, cache, attempt, excused>>

Time == 0..MaxTime

\* abandoned: answered by a timeout, while the work goes on.
Attempt == [pc: {"new", "running", "abandoned", "done", "replayed", "failed"},
            arrival: Time]

TypeOK ==
  /\ now \in Time
  /\ cache \in [expiresAt: 0..(MaxTime + Ttl), payload: Attempts] \cup {None}
  /\ attempt \in [Attempts -> Attempt]
  /\ excused \in BOOLEAN

Init ==
  /\ now = 0 /\ cache = None /\ excused = FALSE
  /\ attempt = [a \in Attempts |-> [pc |-> "new", arrival |-> 0]]

Running(a) == attempt[a].pc = "running"
Turn(a, pc) == attempt' = [attempt EXCEPT ![a].pc = pc]

----------------------------------------------------------------------------
Kept == cache # None /\ cache.expiresAt > now

\* evictExpiredEntries and the look into the cache.
Replay(a) ==
  /\ attempt[a].pc = "new" /\ Kept
  /\ attempt' = [attempt EXCEPT ![a] = [pc |-> "replayed", arrival |-> now]]
  /\ UNCHANGED <<now, cache, excused>>

Handle(a) ==
  /\ attempt[a].pc = "new" /\ ~Kept
  /\ cache' = None
  /\ attempt' = [attempt EXCEPT ![a] = [pc |-> "running", arrival |-> now]]
  /\ excused' = (excused \/ \E b \in Attempts : Running(b))
  /\ UNCHANGED now

\* A faulty variant: the answer is not kept.
AnswerOnly(a) ==
  /\ Running(a) /\ Turn(a, "done")
  /\ UNCHANGED <<now, cache, excused>>

\* tap: the work is done, and its answer is kept.
Answer(a) ==
  /\ Running(a) /\ Turn(a, "done")
  /\ cache' = [expiresAt |-> attempt[a].arrival + Ttl, payload |-> a]
  /\ UNCHANGED <<now, excused>>

\* The handler throws.
Throw(a) ==
  /\ Running(a) /\ Turn(a, "failed")
  /\ UNCHANGED <<now, cache, excused>>

\* TimeoutInterceptor answers in the place of the handler, which nothing stops.
TimeOut(a) ==
  /\ Running(a) /\ Turn(a, "abandoned")
  /\ excused' = TRUE
  /\ UNCHANGED <<now, cache>>

AnswerLate(a) ==
  /\ attempt[a].pc = "abandoned"
  /\ Turn(a, "done") \/ Turn(a, "failed")
  /\ UNCHANGED <<now, cache, excused>>

\* The process restarts, or another one takes the next request.
Restart ==
  /\ cache' = None /\ excused' = TRUE
  /\ attempt' = [a \in Attempts |->
       IF attempt[a].pc \in {"running", "abandoned"} THEN [attempt[a] EXCEPT !.pc = "failed"]
       ELSE attempt[a]]
  /\ UNCHANGED now

Tick == now < MaxTime /\ now' = now + 1 /\ UNCHANGED <<cache, attempt, excused>>

Next ==
  \/ \E a \in Attempts : \/ Replay(a) \/ Handle(a) \/ Answer(a) \/ Throw(a)
                         \/ TimeOut(a) \/ AnswerLate(a)
  \/ Restart \/ Tick

Spec == Init /\ [][Next]_idemVars

----------------------------------------------------------------------------
\* A client that waits for each answer before it tries again, and is answered by the
\* handler of a process that lives, has the work done once within the hour.
DoneOnce ==
  excused \/ \A a, b \in Attempts :
    /\ a # b /\ attempt[a].pc = "done" /\ attempt[b].pc = "done"
    /\ attempt[a].arrival <= attempt[b].arrival
    => attempt[a].arrival + Ttl <= attempt[b].arrival
=============================================================================
