------------------------------- MODULE RedisLock -------------------------------
(***************************************************************************)
(* The distributed lock of RedisService: acquireLock sets a key with a     *)
(* value of its own and an expiry, and tries again for a while; releaseLock *)
(* deletes the key in a script that first compares the value.              *)
(***************************************************************************)
EXTENDS Naturals

CONSTANTS
  Clients,  \* the callers, each with a lock value of its own
  Retries,  \* attempts of acquireLock (10 in the code)
  Ttl,      \* expiry of the key, in ticks of the clock of Redis
  MaxTime,  \* bound: ticks of the clock
  None

LockAssumption ==
  /\ {Retries, Ttl} \subseteq Nat \ {0} /\ MaxTime \in Nat
  /\ None \notin Clients

VARIABLES
  now,
  key,    \* the lock value in Redis, or None
  until,  \* when it expires
  client  \* client[c]: where c is

lockVars == <<now, key, until, client>>

Client == [pc: {"idle", "try", "wait", "hold", "release"},
           tries: 0..Retries,
           until: 0..(MaxTime + Ttl)]  \* history: the end of the time it was granted

TypeOK ==
  /\ now \in 0..MaxTime /\ until \in 0..(MaxTime + Ttl)
  /\ key \in Clients \cup {None}
  /\ client \in [Clients -> Client]

Idle == [pc |-> "idle", tries |-> 0, until |-> 0]

Init ==
  /\ now = 0 /\ key = None /\ until = 0
  /\ client = [c \in Clients |-> Idle]

----------------------------------------------------------------------------
\* acquireLock
Begin(c) ==
  /\ client[c].pc = "idle"
  /\ client' = [client EXCEPT ![c].pc = "try", ![c].tries = 0]
  /\ UNCHANGED <<now, key, until>>

\* SET key value PX ttl NX succeeds.
Acquire(c) ==
  /\ client[c].pc = "try" /\ key = None
  /\ key' = c /\ until' = now + Ttl
  /\ client' = [client EXCEPT ![c].pc = "hold", ![c].until = now + Ttl]
  /\ UNCHANGED now

\* SET finds the key.
Miss(c) ==
  /\ client[c].pc = "try" /\ key # None
  /\ client' = [client EXCEPT ![c].pc = "wait", ![c].tries = @ + 1]
  /\ UNCHANGED <<now, key, until>>

\* The answer to a SET is lost and the caller gets an exception: the key may be set.
LoseAnswer(c) ==
  /\ client[c].pc = "try"
  /\ \/ key = None /\ key' = c /\ until' = now + Ttl
     \/ UNCHANGED <<key, until>>
  /\ client' = [client EXCEPT ![c] = Idle]
  /\ UNCHANGED now

\* A faulty variant: a failed attempt starts over.
RetryAlways(c) ==
  /\ client[c].pc = "wait"
  /\ client' = [client EXCEPT ![c] = [Idle EXCEPT !.pc = "try"]]
  /\ UNCHANGED <<now, key, until>>

\* A faulty variant: one attempt too many.
RetryOnceMore(c) ==
  /\ client[c].pc = "wait"
  /\ client' = [client EXCEPT ![c] = IF client[c].tries <= Retries
       THEN [pc |-> "try", tries |-> client[c].tries, until |-> 0] ELSE Idle]
  /\ UNCHANGED <<now, key, until>>

\* After retryDelay it tries again, or returns null.
Retry(c) ==
  /\ client[c].pc = "wait"
  /\ client' = [client EXCEPT ![c] = IF client[c].tries < Retries
       THEN [pc |-> "try", tries |-> client[c].tries, until |-> 0] ELSE Idle]
  /\ UNCHANGED <<now, key, until>>

----------------------------------------------------------------------------
\* The critical section ends, in time or not.
Finish(c) ==
  /\ client[c].pc = "hold"
  /\ client' = [client EXCEPT ![c].pc = "release"]
  /\ UNCHANGED <<now, key, until>>

\* A faulty variant: DEL without looking.
ReleaseAny(c) ==
  /\ client[c].pc = "release"
  /\ key' = None
  /\ client' = [client EXCEPT ![c] = Idle]
  /\ UNCHANGED <<now, until>>

\* releaseLock: the script compares and deletes at once.
Release(c) ==
  /\ client[c].pc = "release"
  /\ key' = IF key = c THEN None ELSE key
  /\ client' = [client EXCEPT ![c] = Idle]
  /\ UNCHANGED <<now, until>>

\* The client dies in the critical section, or its release fails.
Crash(c) ==
  /\ client[c].pc \in {"hold", "release"}
  /\ client' = [client EXCEPT ![c] = Idle]
  /\ UNCHANGED <<now, key, until>>

----------------------------------------------------------------------------
\* Redis expires the key.
Expired == key # None /\ until <= now
Expire == Expired /\ key' = None /\ UNCHANGED <<now, until, client>>

Tick ==
  /\ now < MaxTime /\ ~Expired
  /\ now' = now + 1
  /\ UNCHANGED <<key, until, client>>

Next ==
  \/ \E c \in Clients : \/ Begin(c) \/ Acquire(c) \/ Miss(c) \/ LoseAnswer(c) \/ Retry(c)
                        \/ Finish(c) \/ Release(c) \/ Crash(c)
  \/ Expire \/ Tick

Spec == Init /\ [][Next]_lockVars

\* Redis answers, or the connection fails, and timers fire; how long a critical
\* section takes is up to the caller.
Answer(c) == Acquire(c) \/ Miss(c) \/ LoseAnswer(c) \/ Retry(c) \/ Release(c)
FairSpec == Spec /\ \A c \in Clients : WF_lockVars(Answer(c))

----------------------------------------------------------------------------
\* Within the time that Redis has granted it no client shares the lock, late releases,
\* lost answers and crashes of other clients included.
Granted(c) == client[c].pc \in {"hold", "release"} /\ now < client[c].until
Exclusive == \A c, d \in Clients : Granted(c) /\ Granted(d) => c = d

\* acquireLock has not returned, neither a lock nor null.
Waits(c) == client[c].pc \in {"try", "wait"}
=============================================================================
