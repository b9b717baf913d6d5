------------------------------ MODULE RedisCache ------------------------------
(***************************************************************************)
(* RedisService besides its lock: the conversions of the values, the       *)
(* expiry of the keys, and calls of several commands, between whose        *)
(* commands those of others are carried out.  A caller stands for a        *)
(* process with a connection of its own (callers of one process share one, *)
(* where the commands of a pipeline stay together, and do less); the       *)
(* callbacks are those of one process, on its connection for subscriptions. *)
(*                                                                         *)
(* A string of Redis is a record [text, n]: a text that is no JSON, or,    *)
(* with text "numeral", the numeral of n.  A caller has numbers too.  The  *)
(* elements of a list are told apart by the order they were pushed in.     *)
(***************************************************************************)
EXTENDS Integers, Sequences, FiniteSets, FiniteSetsExt, SequencesExt

CONSTANTS
  Callers,
  Keys,
  Programs,   \* a set of functions from callers to sequences of requests, see Request
  Cached,     \* the keys that only set writes, with a time that is not negative
  Channels,
  Default,    \* 3600 in set
  MaxTime     \* bound: ticks of the clock of Redis

VARIABLES
  now,
  keys,        \* what each key holds, its kind and its value, "none" when it is not there
  until,       \* when it expires, 0 if never
  program,     \* what each caller has yet to ask for
  call,        \* the request each caller waits for
  outcomes,    \* what its requests have returned, in their order
  subscribed,  \* the channels of the subscriber's connection
  callbacks,   \* the callbacks on it, see Subscribe
  pushed,      \* history: how many elements have been pushed
  counters     \* history: the keys to which nothing was done but adding

vars == <<now, keys, until, program, call, outcomes, subscribed, callbacks, pushed, counters>>

Str(text, n) == [text |-> text, n |-> n]
Numeral(n) == Str("numeral", n)
Holding(kind, content) == [kind |-> kind, content |-> content]
Missing == Holding("none", <<>>)

\* A value of a caller is [number, str].  set writes a string as it is and anything else as
\* JSON; get reads what is JSON as such, so a string that looks like a number becomes one,
\* and an empty string reads like a key that is not there.
Serialize(value) == value.str
Read(entry) ==
  IF entry.kind # "string" \/ entry.content.text = "" THEN "null"
  ELSE IF entry.content.text = "numeral" THEN "number" ELSE "string"

\* A faulty variant: no default.
GivenLifetime(ttl) == IF ttl > 0 THEN ttl ELSE 0

\* options?.ttl || 3600, and no expiry when that is negative.
Lifetime(ttl) ==
  LET t == IF ttl = 0 THEN Default ELSE ttl IN IF t > 0 THEN t ELSE 0

\* A command: op, key and what else it is given.
Command(op, key, arg, ttl) == [op |-> op, key |-> key, arg |-> arg, ttl |-> ttl]

\* A request: a method, its commands, and the channels or the message it is about.
Request(method, commands, channels, message) ==
  [method |-> method, commands |-> commands, channels |-> channels, message |-> message]

\* The methods.  set writes with an expiry unless it is told not to; mset only with one that
\* is given for the item.
Set(key, value, ttl) == Request("set", <<Command("set", key, value, Lifetime(ttl))>>, {}, 0)
Get(key) == Request("get", <<Command("get", key, 0, 0)>>, {}, 0)
MGet(ks) == Request("mget", <<Command("mget", Head(ks), ks, 0)>>, {}, 0)
MSet(items) ==
  Request("mset", [i \in DOMAIN items |->
    Command("set", items[i].key, items[i].value, Max({0, items[i].ttl}))], {}, 0)
Delete(key) == Request("delete", <<Command("del", key, 0, 0)>>, {}, 0)
Exists(key) == Request("exists", <<Command("exists", key, 0, 0)>>, {}, 0)
Incr(key, n) == Request("incr", <<Command("incr", key, n, 0)>>, {}, 0)
Decr(key, n) == Request("decr", <<Command("incr", key, -n, 0)>>, {}, 0)
Expire(key, ttl) == Request("expire", <<Command("expire", key, 0, ttl)>>, {}, 0)
TtlOf(key) == Request("ttl", <<Command("ttl", key, 0, 0)>>, {}, 0)
\* clearCache: KEYS and then DEL with a pattern, which stands for a set of keys, and FLUSHDB
\* without.
ClearCache(pattern) ==
  Request("clearCache", <<Command(IF pattern = {} THEN "flushdb" ELSE "keys", 0, pattern, 0)>>, {}, 0)
\* The methods for hashes, lists, sets and sorted sets forward their command.
Forward(op, key, arg) == Request("forward", <<Command(op, key, arg, 0)>>, {}, 0)
\* transaction: a pipeline, without MULTI and EXEC.
Transaction(commands) == Request("transaction", commands, {}, 0)

Hashes == {"hset", "hget", "hgetall", "hdel"}
Lists == {"lpush", "rpush", "lpop", "rpop", "lrange", "llen"}
Sets == {"sadd", "srem", "sismember", "smembers", "scard"}
SortedSets == {"zadd", "zrem", "zscore", "zcard", "zrange", "zrevrange"}
\* Of these, what reads a whole value, or how long it is.
Whole == {"hgetall", "lrange", "llen", "smembers", "scard", "zrange", "zrevrange", "zcard"}
\* What is about one key, and what looks at it without a change.
OfOneKey == {"set", "get", "del", "exists", "expire", "ttl", "incr"}
            \cup Hashes \cup Lists \cup Sets \cup SortedSets
Looks == {"get", "exists", "ttl"}
KindOf(op) ==
  IF op \in Hashes THEN "hash" ELSE IF op \in Lists THEN "list"
  ELSE IF op \in Sets THEN "set" ELSE IF op \in SortedSets THEN "zset" ELSE "string"

\* What is asked for: by a method above, of commands of its own; a pipeline is of commands
\* about one key each; those on Cached write with a time, or remove.
Channelled == {"publish", "subscribe", "unsubscribe"}
Pipelined == {"mset", "transaction"}
IsString(s) == s = Str(s.text, s.n) /\ s.n \in Int
IsSequence(s) == Len(s) \in Nat /\ s = [i \in 1..Len(s) |-> s[i]]
WellMade(command) ==
  /\ command = Command(command.op, command.key, command.arg, command.ttl)
  /\ command.op \in OfOneKey \cup {"mget", "keys", "flushdb"}
  /\ command.ttl \in Int
  /\ command.op \in OfOneKey => command.key \in Keys
  /\ command.op = "set" => IsString(command.arg.str)
  /\ command.op = "incr" => command.arg \in Int
  /\ command.op = "mget" => command.arg \in Seq(Keys)
  /\ command.op = "keys" => command.arg \subseteq Keys
  /\ command.op \in OfOneKey /\ command.key \in Cached =>
       \/ command.op = "set" /\ command.ttl \in {Lifetime(ttl) : ttl \in 0..Default}
       \/ command.op \in Looks \cup {"del"}
CanBeAsked(r) ==
  /\ r.method # "none"
  /\ IsSequence(r.commands)
  /\ \A i \in DOMAIN r.commands : WellMade(r.commands[i])
  /\ r.channels \subseteq Channels
  /\ r.method \notin Channelled \cup Pipelined => r.commands # <<>>
  /\ r.method \in Pipelined => \A i \in DOMAIN r.commands : r.commands[i].op \in OfOneKey
CacheAssumption ==
  /\ Cached \subseteq Keys /\ Default \in Nat \ {0} /\ MaxTime \in Nat
  /\ \A p \in Programs :
       /\ p = [c \in Callers |-> p[c]]
       /\ \A c \in Callers : IsSequence(p[c]) /\ \A i \in DOMAIN p[c] : CanBeAsked(p[c][i])

Idle == [method |-> "none", commands |-> <<>>, answers |-> <<>>, carried |-> 0, mixed |-> FALSE]

Init ==
  /\ now = 0
  /\ keys = [k \in Keys |-> Missing] /\ until = [k \in Keys |-> 0]
  /\ program \in Programs
  /\ call = [c \in Callers |-> Idle]
  /\ outcomes = [c \in Callers |-> <<>>]
  /\ subscribed = {} /\ callbacks = <<>>
  /\ pushed = 0 /\ counters = Keys

------------------------------------------------------------------------------
(* What Redis does with a command: the entry it leaves and its answer.     *)

Result(entry, text) == [entry |-> entry, answer |-> Str(text, 0)]
WrongType(entry) == Result(entry, "error")
\* What a key is left with: nothing is kept of a value that is empty.
Rest(kind, value, empty) == IF value = empty THEN Missing ELSE Holding(kind, value)
Found(entry, is) == Result(entry, IF is THEN "ok" ELSE "none")

\* hset, hget, hdel: a function from fields to strings.
HashEffect(command, entry) ==
  LET hash == entry.content
      field == command.arg.field IN
  IF command.op = "hset" THEN Result(Holding("hash", (field :> command.arg.str) @@ hash), "ok")
  ELSE IF command.op = "hdel"
  THEN Found(Rest("hash", Restrict(hash, DOMAIN hash \ {field}), <<>>), field \in DOMAIN hash)
  ELSE Found(entry, field \in DOMAIN hash)

\* lpush, rpush, lpop, rpop: a sequence.
Popped(list, n) == [entry |-> Rest("list", list, <<>>), answer |-> Str("element", n)]
ListEffect(command, entry) ==
  LET list == entry.content IN
  IF command.op = "lpush" THEN Result(Holding("list", <<pushed + 1>> \o list), "ok")
  ELSE IF command.op = "rpush" THEN Result(Holding("list", Append(list, pushed + 1)), "ok")
  ELSE IF list = <<>> THEN Found(entry, FALSE)
  ELSE IF command.op = "lpop" THEN Popped(Tail(list), Head(list))
  ELSE Popped(Front(list), Last(list))

\* sadd, srem, sismember: a set of strings.
SetEffect(command, entry) ==
  LET set == IF entry.kind = "none" THEN {} ELSE entry.content IN
  IF command.op = "sadd"
  THEN Found(Holding("set", set \cup {command.arg}), command.arg \notin set)
  ELSE Found(IF command.op = "srem" THEN Rest("set", set \ {command.arg}, {}) ELSE entry,
             command.arg \in set)

\* zadd, zrem, zscore: a function from members to scores.
SortedEffect(command, entry) ==
  LET scores == entry.content
      member == command.arg.member IN
  IF command.op = "zadd"
  THEN Result(Holding("zset", (member :> command.arg.score) @@ scores), "ok")
  ELSE Found(IF command.op = "zrem"
             THEN Rest("zset", Restrict(scores, DOMAIN scores \ {member}), <<>>) ELSE entry,
             member \in DOMAIN scores)

\* incr, incrby, decr, decrby: of a numeral, or of nothing.
Counted(entry, n) == [entry |-> Holding("string", Numeral(n)), answer |-> Numeral(n)]
Added(entry, n) ==
  IF entry.kind = "none" THEN Counted(entry, n)
  ELSE IF entry.kind = "string" /\ entry.content.text = "numeral" THEN Counted(entry, entry.content.n + n)
  ELSE WrongType(entry)

\* A key that expires at once is deleted.
Effect(command, entry) ==
  LET kind == KindOf(command.op) IN
  IF command.op = "set" THEN Result(Holding("string", Serialize(command.arg)), "ok")
  ELSE IF command.op = "del" \/ (command.op = "expire" /\ command.ttl <= 0)
  THEN Found(Missing, entry.kind # "none")
  ELSE IF command.op \in {"exists", "expire", "ttl"} THEN Found(entry, entry.kind # "none")
  ELSE IF entry.kind \notin {"none", kind} THEN WrongType(entry)
  ELSE IF command.op = "get" THEN Result(entry, Read(entry))
  ELSE IF command.op = "incr" THEN Added(entry, command.arg)
  ELSE IF command.op \in Whole THEN Found(entry, entry.kind # "none")
  ELSE IF kind = "hash" THEN HashEffect(command, entry)
  ELSE IF kind = "list" THEN ListEffect(command, entry)
  ELSE IF kind = "set" THEN SetEffect(command, entry)
  ELSE SortedEffect(command, entry)

------------------------------------------------------------------------------
(* Requests *)

\* A caller asks: for what is not about a channel, see Subscribe.
Ask(c) ==
  /\ call[c].method = "none" /\ program[c] # <<>>
  /\ Head(program[c]).method \notin Channelled
  /\ call' = [call EXCEPT ![c].method = Head(program[c]).method,
                          ![c].commands = Head(program[c]).commands]
  /\ program' = [program EXCEPT ![c] = Tail(@)]
  /\ UNCHANGED <<now, keys, until, outcomes, subscribed, callbacks, pushed, counters>>

\* Others whose commands wait see that another's has come between.
Mixed(c) ==
  [d \in Callers |-> IF d # c /\ call[d].carried > 0 /\ call[d].commands # <<>>
                     THEN [call[d] EXCEPT !.mixed = TRUE] ELSE call[d]]

\* A command of a call was carried out; what is left of the call, and the answer it got.
Carry(c, commands, answers) ==
  call' = [Mixed(c) EXCEPT ![c].commands = commands, ![c].carried = @ + 1,
                           ![c].answers = @ \o answers]
Answer(text, n, k) == [text |-> text, n |-> n, key |-> k]

\* KEYS: what is found is what the call goes on to delete.
Find(c, command) ==
  LET found == {k \in command.arg : keys[k].kind # "none"} IN
  /\ command.op = "keys"
  /\ Carry(c, IF found = {} THEN <<>> ELSE <<Command("delAll", command.key, found, 0)>>, <<>>)
  /\ UNCHANGED <<keys, until, pushed, counters>>

\* DEL of many keys, and FLUSHDB.
Clear(c, command) ==
  LET gone == IF command.op = "delAll" THEN command.arg ELSE Keys IN
  /\ command.op \in {"delAll", "flushdb"}
  /\ keys' = [k \in Keys |-> IF k \in gone THEN Missing ELSE keys[k]]
  /\ until' = [k \in Keys |-> IF k \in gone THEN 0 ELSE until[k]]
  /\ counters' = counters \ gone
  /\ Carry(c, Tail(call[c].commands), <<Answer("ok", 0, command.key)>>)
  /\ UNCHANGED pushed

\* MGET.
ReadMany(c, command) ==
  /\ command.op = "mget"
  /\ Carry(c, Tail(call[c].commands),
           [i \in DOMAIN command.arg |-> Answer(Read(keys[command.arg[i]]), 0, command.key)])
  /\ UNCHANGED <<keys, until, pushed, counters>>

\* A command about one key.
Single(c, command) ==
  LET k == command.key
      result == Effect(command, keys[k]) IN
  /\ command.op \in OfOneKey
  /\ keys' = [keys EXCEPT ![k] = result.entry]
  /\ until' = [until EXCEPT ![k] =
       IF result.entry.kind = "none" THEN 0
       ELSE IF command.op \in {"set", "expire"} THEN IF command.ttl > 0 THEN now + command.ttl ELSE 0
       ELSE @]
  /\ pushed' = IF command.op \in {"lpush", "rpush"} THEN pushed + 1 ELSE pushed
  /\ counters' = IF command.op = "incr" /\ command.arg > 0 THEN counters ELSE counters \ {k}
  /\ Carry(c, Tail(call[c].commands), <<Answer(result.answer.text, result.answer.n, k)>>)

Execute(c) ==
  /\ call[c].commands # <<>>
  /\ LET command == Head(call[c].commands) IN
     Find(c, command) \/ Clear(c, command) \/ ReadMany(c, command) \/ Single(c, command)
  /\ UNCHANGED <<now, program, outcomes, subscribed, callbacks>>

\* The connection breaks: whether the command was carried out is not known.  The calls of
\* one key, mget and mset swallow the error; incr, decr and the typed commands throw.
Swallows == {"get", "set", "delete", "exists", "mget", "mset", "expire", "ttl", "clearCache"}
Return(c, outcome) ==
  /\ call' = [call EXCEPT ![c] = Idle]
  /\ outcomes' = [outcomes EXCEPT ![c] = Append(@, [method |-> call[c].method, outcome |-> outcome,
                     answers |-> call[c].answers, carried |-> call[c].carried, mixed |-> call[c].mixed])]
  /\ UNCHANGED <<now, keys, until, program, subscribed, callbacks, pushed, counters>>

Break(c) ==
  /\ call[c].method # "none"
  /\ Return(c, IF call[c].method \in Swallows THEN "failed" ELSE "threw")

\* A call returns: a transaction throws the first error of its commands, mset does not look.
Finish(c) ==
  /\ call[c].method # "none" /\ call[c].commands = <<>>
  /\ LET failed == \E i \in DOMAIN call[c].answers : call[c].answers[i].text = "error" IN
     Return(c, IF ~failed \/ call[c].method \in {"mset", "clearCache"} THEN "done"
               ELSE IF call[c].method \in Swallows THEN "failed" ELSE "threw")

------------------------------------------------------------------------------
(* Channels *)

Asks(c, method) ==
  /\ call[c].method = "none" /\ program[c] # <<>> /\ Head(program[c]).method = method
  /\ program' = [program EXCEPT ![c] = Tail(@)]
  /\ UNCHANGED <<now, keys, until, call, outcomes, pushed, counters>>

\* The callback is put on the connection, for the messages of whatever channel, and the
\* server subscribes.  missed tells whether it was not called with a message on one of its own
\* channels, and cut whether somebody else gave one of them up.
Subscribe(c) ==
  /\ Asks(c, "subscribe")
  /\ callbacks' = Append(callbacks, [of |-> c, channels |-> Head(program[c]).channels,
                                     cut |-> FALSE, missed |-> FALSE])
  /\ subscribed' = subscribed \cup Head(program[c]).channels

\* No channels: all of them.  The callbacks stay.
Unsubscribe(c) ==
  /\ Asks(c, "unsubscribe")
  /\ LET asked == Head(program[c]).channels
         channels == IF asked = {} THEN Channels ELSE asked IN
     /\ subscribed' = subscribed \ channels
     /\ callbacks' = [i \in DOMAIN callbacks |->
          IF callbacks[i].of = c THEN [callbacks[i] EXCEPT !.channels = @ \ channels]
          ELSE [callbacks[i] EXCEPT !.cut = @ \/ callbacks[i].channels \cap channels # {}]]

\* The server sends a message to the connection if it has subscribed.
Publish(c) ==
  /\ Asks(c, "publish")
  /\ \E channel \in Head(program[c]).channels :
       callbacks' = [i \in DOMAIN callbacks |->
         [callbacks[i] EXCEPT
            !.missed = @ \/ (channel \in callbacks[i].channels /\ channel \notin subscribed)]]
  /\ UNCHANGED subscribed

\* Time passes, and keys expire.
Tick ==
  /\ now < MaxTime /\ now' = now + 1
  /\ LET gone == {k \in Keys : until[k] # 0 /\ until[k] <= now + 1} IN
     /\ keys' = [k \in Keys |-> IF k \in gone THEN Missing ELSE keys[k]]
     /\ until' = [k \in Keys |-> IF k \in gone THEN 0 ELSE until[k]]
  /\ UNCHANGED <<program, call, outcomes, subscribed, callbacks, pushed, counters>>

Finished == (\A c \in Callers : call[c].method = "none" /\ program[c] = <<>>) /\ UNCHANGED vars

Step(c) ==
  Ask(c) \/ Execute(c) \/ Break(c) \/ Finish(c) \/ Subscribe(c) \/ Unsubscribe(c) \/ Publish(c)

Next == (\E c \in Callers : Step(c)) \/ Tick \/ Finished

Spec == Init /\ [][Next]_vars

------------------------------------------------------------------------------
(* Properties *)

\* What callers were answered: the place of every answer, whose call it was, which of them,
\* and where in it.
Answers ==
  UNION {UNION {{<<c, j, i>> : i \in DOMAIN outcomes[c][j].answers} : j \in DOMAIN outcomes[c]} :
         c \in Callers}
AnswerAt(p) == outcomes[p[1]][p[2]].answers[p[3]]

\* A counter gives no number twice, whoever counts, and a queue hands no element to two, even
\* when connections break: a key is a counter as long as nothing is done to it but adding.
CountsOnce ==
  \A p, q \in Answers :
    LET a == AnswerAt(p) b == AnswerAt(q) IN
    p # q /\ a.text = b.text =>
      /\ a.text = "element" => a.n # b.n
      /\ a.text = "numeral" /\ a.key = b.key /\ a.key \in counters => a.n # b.n

\* "done" of a single command is not said of one that was not carried out, and a pipeline
\* that returns has carried out all of it, whatever came between.
Reported ==
  \A c \in Callers : \A j \in DOMAIN outcomes[c] :
    LET r == outcomes[c][j] IN
    r.outcome = "done" =>
      IF r.method \in Pipelined THEN r.carried = Len(r.answers) ELSE r.carried >= 1

\* set: what it has written goes by itself, after the time it was given or the default.
Vanishes ==
  \A k \in Cached : keys[k].kind # "none" => until[k] \in (now + 1)..(now + Default)

\* A callback misses no message on its channels, as long as no other caller unsubscribes from
\* one of them.
Heard == \A i \in DOMAIN callbacks : ~callbacks[i].cut => ~callbacks[i].missed

\* transaction, "executed atomically": no command of another between its own.
ExecutedAtomically ==
  \A c \in Callers : \A j \in DOMAIN outcomes[c] :
    outcomes[c][j].method = "transaction" /\ outcomes[c][j].outcome = "done" => ~outcomes[c][j].mixed
=============================================================================
