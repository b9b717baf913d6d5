--------------------------- MODULE MCInfrastructure ---------------------------
(***************************************************************************)
(* Small instances of the components that know nothing of users:           *)
(* distributed transactions, the lock and the cache of Redis, the Amadeus  *)
(* token, calls to other systems, idempotency keys.  They share no state,  *)
(* so their interleavings tell nothing: the initial state chooses the one  *)
(* that runs, and the others stand still; among them the libraries.        *)
(***************************************************************************)
EXTENDS MCLibraries, MCServices, TLC

CONSTANT Focuses

\* The requests that the programs of the cache are made of: its definitions without a program.
Ask == INSTANCE RedisCache WITH
  Callers <- {}, Keys <- {}, Programs <- {}, Cached <- {}, Channels <- {}, Default <- 2,
  MaxTime <- 0, now <- cacheTime, until <- expires, call <- asked
Word(text) == Ask!Str(text, 0)
Wording(text) == [number |-> FALSE, str |-> Word(text)]
Numeral(n) == [number |-> TRUE, str |-> Ask!Numeral(n)]
Item(k, value, ttl) == [key |-> k, value |-> value, ttl |-> ttl]
Channel(method, channels, message) == Ask!Request(method, <<>>, channels, message)
Together ==
  Ask!Transaction(<<Ask!Command("rpush", "q", Word("a"), 0), Ask!Command("set", "v", Wording("x"), 0),
                    Ask!Command("get", "v", 0, 0)>>)

\* Counters; values that expire; a queue; a transaction among them; a clearing by a
\* pattern, and of everything; sets, sorted sets and hashes; channels.
MCCachePrograms ==
  {[a |-> <<Ask!Incr("n", 1), Ask!Incr("n", 1)>>, b |-> <<Ask!Incr("n", 1), Ask!Incr("n", 1)>>],
   [a |-> <<Ask!Set("c", Numeral(1), 0), Ask!Get("c")>>,
    b |-> <<Ask!Delete("c"), Ask!Set("c", Wording(""), 1), Ask!Get("c")>>],
   [a |-> <<Ask!Forward("rpush", "q", Word("a")), Ask!Forward("lpop", "q", 0), Ask!Forward("lpop", "q", 0)>>,
    b |-> <<Ask!Forward("lpush", "q", Word("b")), Ask!Forward("rpop", "q", 0)>>],
   [a |-> <<Together, Ask!Decr("n", 1)>>,
    b |-> <<Ask!Incr("n", 2), Ask!Forward("lpop", "q", 0), Ask!MGet(<<"v", "n">>)>>],
   [a |-> <<Ask!ClearCache({"c", "v"}), Ask!Exists("v")>>,
    b |-> <<Ask!MSet(<<Item("v", Numeral(2), 0), Item("v", Wording("y"), 1)>>),
            Ask!Set("c", Numeral(3), 2), Ask!TtlOf("v")>>],
   [a |-> <<Ask!ClearCache({}), Ask!Expire("v", 1)>>,
    b |-> <<Ask!Set("v", Numeral(1), -1),
            Ask!Forward("hset", "v", [field |-> "f", str |-> Word("x")]),
            Ask!Forward("hset", "n", [field |-> "f", str |-> Word("x")]),
            Ask!Forward("hdel", "n", [field |-> "f"])>>],
   [a |-> <<Ask!Forward("sadd", "q", "s"), Ask!Forward("sismember", "q", "s"), Ask!Forward("srem", "q", "s")>>,
    b |-> <<Ask!Forward("zadd", "n", [member |-> "m", score |-> 1]),
            Ask!Forward("zrem", "n", [member |-> "m"]), Ask!Forward("zscore", "n", [member |-> "m"])>>],
   [a |-> <<Channel("subscribe", {"d", "e"}, 0), Channel("publish", {"e"}, 1), Channel("unsubscribe", {"e"}, 0)>>,
    b |-> <<Channel("publish", {"d", "e"}, 2), Channel("subscribe", {"d"}, 0), Channel("publish", {"d"}, 3),
            Channel("unsubscribe", {}, 0)>>]}
serviceVars == <<vars, lockState, tokenState, idemState, cacheState, poolState>>
allVars == <<focus, serviceVars, libraryVars>>

\* What does not run has one initial state.
MCInit ==
  /\ focus \in Focuses
  /\ Init /\ Lock!Init /\ Token!Init /\ Idem!Init
  /\ Cache!Init /\ (focus # "cache" => program = CHOOSE p \in CachePrograms : TRUE)
  /\ Pool!Init /\ (focus # "calls" => Head(batch).by = "request")
  /\ LibrariesInit

ServicesNext ==
  \/ /\ focus = "tx" /\ Next
     /\ UNCHANGED <<lockState, tokenState, idemState, cacheState, poolState>>
  \/ /\ focus = "lock" /\ Lock!Next
     /\ UNCHANGED <<vars, tokenState, idemState, cacheState, poolState>>
  \/ /\ focus = "token" /\ Token!Next
     /\ UNCHANGED <<vars, lockState, idemState, cacheState, poolState>>
  \/ /\ focus = "idempotency" /\ Idem!Next
     /\ UNCHANGED <<vars, lockState, tokenState, cacheState, poolState>>
  \/ /\ focus = "cache" /\ Cache!Next
     /\ UNCHANGED <<vars, lockState, tokenState, idemState, poolState>>
  \/ /\ focus = "calls" /\ Pool!Next
     /\ UNCHANGED <<vars, lockState, tokenState, idemState, cacheState>>

MCNext ==
  /\ UNCHANGED focus
  /\ \/ ServicesNext /\ UNCHANGED libraryVars
     \/ LibrariesNext /\ UNCHANGED serviceVars

\* The fairness of each component.
MCSpec ==
  /\ MCInit /\ [][MCNext]_allVars /\ LibrariesFair
  /\ \A c \in Callers : WF_vars(focus = "tx" /\ CallStep(c))
  /\ WF_vars(focus = "tx" /\ Delete)
  /\ \A c \in Clients : WF_lockState(focus = "lock" /\ Lock!Answer(c))
  /\ WF_poolState(focus = "calls" /\ Pool!Resolve)
  /\ WF_poolState(focus = "calls" /\ \E w \in Pool!Workers : Pool!Take(w) \/ Pool!Leave(w))
  /\ WF_poolState(focus = "calls" /\ \E t \in Pool!Tasks : Pool!Step(t))

\* The types of all.
AllTypesOK == TypeOK /\ Lock!TypeOK /\ Token!TypeOK /\ Idem!TypeOK /\ Cash!TypeOK

\* acquireLock, "A distributed lock": within the time that was granted it has one holder.
Exclusive == focus = "lock" => Lock!Exclusive

\* getAccessToken: no request is sent with a token that has expired.
NeverExpired == Token!NeverExpired

\* IdempotencyInterceptor: a repeated request is not carried out again.
DoneOnce == focus = "idempotency" => Idem!DoneOnce

\* RedisService: a counter gives no number twice and a queue no element twice, what is
\* answered has been carried out, a value that is set goes by itself, and a callback hears
\* its channels, whatever others do and wherever a connection breaks.
CacheTruthful ==
  focus = "cache" => Cache!CountsOnce /\ Cache!Reported /\ Cache!Vanishes /\ Cache!Heard

\* transaction, "executed atomically": no command of another between its own.
ExecutedAtomically == Cache!ExecutedAtomically

\* parallelLimit: no more at once than is asked for, and every result in its place; retry: no
\* more attempts than is asked for, each after its delay.
PoolFaithful == focus = "calls" => Pool!PoolFaithful /\ Pool!RetriesBounded

\* Whoever waits is answered: the callers of a commit or rollback, whose transaction is
\* forgotten; a client of a lock, with the lock or without; the callers of a pool of calls,
\* whose workers end; the start of the database module and every check of health.  The
\* clients of a lock are interchangeable: what is true of one is true of each.
OneClient == CHOOSE c \in Clients : TRUE
SomeoneWaits ==
  \/ focus = "tx" /\ Waiting
  \/ focus = "lock" /\ Lock!Waits(OneClient)
  \/ focus = "calls" /\ Pool!Waiting
  \/ focus = "connections" /\ Database!Waiting
AllAnswered == SomeoneWaits ~> ~SomeoneWaits
=============================================================================
