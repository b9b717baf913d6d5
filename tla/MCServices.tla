------------------------------ MODULE MCServices ------------------------------
(***************************************************************************)
(* The components that know nothing of users and that the proofs are about: *)
(* a distributed transaction, the lock and the cache of Redis, the Amadeus *)
(* token, idempotency keys, calls to other systems.  They share no state.  *)
(***************************************************************************)
EXTENDS DistributedTx

CONSTANTS
  None,
  Clients, Retries, Ttl, MaxTime,               \* of RedisLock; Idempotency has the same times
  Requests, TokenLife, Margin, TokenDelay, TokenEnd, \* of AmadeusToken
  Tries,                                        \* of Idempotency
  Batches, Concurrency, MaxAttempts, DelayMs,   \* of Outgoing
  Processes, CacheKeys, CachePrograms, Cached, Channels, Default, CacheEnd  \* of RedisCache

VARIABLES
  lockTime, key, until, client,                  \* of RedisLock
  tokenTime, accessToken, tokenExpiry, request,  \* of AmadeusToken
  idemTime, cache, attempt, excused,             \* of Idempotency
  batch, index, worker, task, results, caller,   \* of Outgoing
  cacheTime, keys, expires, program, asked,      \* of RedisCache
  outcomes, subscribed, callbacks, pushed, counters

Lock == INSTANCE RedisLock WITH now <- lockTime
Token == INSTANCE AmadeusToken WITH
  Callers <- Requests, Lifetime <- TokenLife, Delay <- TokenDelay, MaxTime <- TokenEnd,
  now <- tokenTime, call <- request
Idem == INSTANCE Idempotency WITH Attempts <- Tries, now <- idemTime

Pool == INSTANCE Outgoing

Cache == INSTANCE RedisCache WITH
  Callers <- Processes, Keys <- CacheKeys, Programs <- CachePrograms, MaxTime <- CacheEnd,
  now <- cacheTime, until <- expires, call <- asked

\* Batches of three calls of every kind, with retries and without.
Json == "application/json"
CallOf(by, method, payload, contentType, params, again) ==
  [by |-> by, method |-> method, payload |-> payload, contentType |-> contentType,
   params |-> params, again |-> again]
MCBatches ==
  {<<CallOf("getWithParams", "GET", "none", Json, {<<"a", "1">>, <<"b", "undefined">>}, FALSE),
     CallOf("request", "POST", "order", Json, {}, TRUE),
     CallOf("isAlive", "HEAD", "none", Json, {}, FALSE)>>,
   <<CallOf("request", "DELETE", "order", "multipart/form-data", {}, TRUE),
     CallOf("postRequest", "POST", "order", "text/plain", {}, TRUE),
     CallOf("putRequest", "PUT", "order", "application/x-www-form-urlencoded", {}, FALSE)>>}

\* The assumptions of the components hold of these values.
ASSUME ServicesAssumption ==
  /\ Lock!LockAssumption /\ Token!TokenAssumption
  /\ Idem!IdempotencyAssumption /\ Pool!OutgoingAssumption /\ Cache!CacheAssumption

lockState == <<lockTime, key, until, client>>
tokenState == <<tokenTime, accessToken, tokenExpiry, request>>
idemState == <<idemTime, cache, attempt, excused>>
poolState == <<batch, index, worker, task, results, caller>>
cacheState == <<cacheTime, keys, expires, program, asked, outcomes, subscribed, callbacks, pushed, counters>>
=============================================================================
