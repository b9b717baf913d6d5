---------------------------- MODULE ServicesProofs ----------------------------
(***************************************************************************)
(* What the components that know nothing of users promise, for any number  *)
(* of databases, clients, requests and calls: what "committed" says of a   *)
(* distributed transaction; that what is granted for a time, the lock of   *)
(* Redis and the token of Amadeus, is not used beyond it; that the work of *)
(* a repeated request is done once; that a pool of calls keeps its bounds; *)
(* that the cache counts once, hands out once and tells what it has done.  *)
(***************************************************************************)
EXTENDS MCServices, Sequences, FiniteSetTheorems, TLAPS

------------------------------------------------------------------------------
(* Distributed transactions *)

\* The branches that have answered a call that still hopes are committed.
CommitsSoFar == \A c \in Callers :
  call[c].pc = "commit" => \A b \in call[c].asked \ call[c].committing : branch[b] = "committed"

TxInv == TypeOK /\ CommitsSoFar

\* A branch that has committed stays so, and a call does not change those of others.
LEMMA CommittedStays == ASSUME TypeOK, Next
                PROVE  \A b \in Branches : branch[b] = "committed" => branch'[b] = "committed"
<1>1. ASSUME NEW c \in Callers, NEW d \in Branches, CommitSucceeds(c, d) \/ CommitFails(c, d) \/ EndRollback(c, d)
      PROVE  \A b \in Branches : branch[b] = "committed" => branch'[b] = "committed"
  BY <1>1 DEF TypeOK, CommitSucceeds, CommitFails, EndRollback
<1>2. ASSUME NEW c \in Callers,
             Commit(c) \/ Committed(c) \/ Rollback(c) \/ NoRollback(c) \/ RolledBack(c)
      PROVE  UNCHANGED branch
  BY <1>2 DEF Commit, Committed, Rollback, NoRollback, RolledBack
<1>3. ASSUME (\E b \in Branches : Enlist(b)) \/ Delete \/ Sweep
      PROVE  UNCHANGED branch
  BY <1>3 DEF Enlist, Delete, Sweep
<1> QED BY <1>1, <1>2, <1>3 DEF Next, CallStep

\* A step of one call, to a state that is well typed and that breaks no hope of its own.
LEMMA CallMoves == ASSUME TxInv, Next, NEW c \in Callers, NEW r \in Call, call' = [call EXCEPT ![c] = r],
                      r.pc = "commit" => \A b \in r.asked \ r.committing : branch'[b] = "committed"
               PROVE  CommitsSoFar'
<1>1. SUFFICES ASSUME NEW d \in Callers, call'[d].pc = "commit",
                      NEW b \in call'[d].asked \ call'[d].committing
               PROVE  branch'[b] = "committed"
  BY DEF CommitsSoFar
<1>2. call'[d] = IF d = c THEN r ELSE call[d]
  BY DEF TxInv, TypeOK
<1>3. CASE d = c
  BY <1>1, <1>2, <1>3
<1>4. CASE d # c
  <2>1. branch[b] = "committed" /\ b \in Branches
    BY <1>1, <1>2, <1>4 DEF TxInv, TypeOK, Call, CommitsSoFar
  <2> QED BY <2>1, CommittedStays DEF TxInv
<1> QED BY <1>3, <1>4

\* Whatever happens, everything keeps its type.
LEMMA TxTyped == ASSUME TypeOK, Next
               PROVE  TypeOK'
<1>1. ASSUME NEW c \in Callers, Commit(c) PROVE TypeOK'
  <2> DEFINE r == [pc |-> "commit", asked |-> connections, committing |-> connections, aborting |-> {}]
  <2>1. r \in Call
    BY DEF TypeOK, Call
  <2> HIDE DEF r
  <2>2. call' = [call EXCEPT ![c] = r]
    BY <1>1 DEF Commit, r
  <2> QED BY <1>1, <2>1, <2>2 DEF Commit, TypeOK
<1>2. ASSUME NEW c \in Callers, NEW b \in Branches, CommitSucceeds(c, b) PROVE TypeOK'
  <2>1. call' \in [Callers -> Call]
    BY <1>2 DEF CommitSucceeds, TypeOK, Call
  <2> QED BY <1>2, <2>1 DEF CommitSucceeds, TypeOK
<1>3. ASSUME NEW c \in Callers, NEW b \in Branches, CommitFails(c, b) PROVE TypeOK'
  <2> DEFINE first == [call EXCEPT ![c].committing = call[c].committing \ {b}]
             pc == IF call[c].pc = "commit" THEN "catch" ELSE call[c].pc
  <2>1. first \in [Callers -> Call]
    BY DEF TypeOK, Call
  <2>2. pc \in {"idle", "commit", "catch", "rollback", "done"}
    BY DEF TypeOK, Call
  <2>3. call' = [first EXCEPT ![c].pc = pc]
    BY <1>3 DEF CommitFails
  <2> HIDE DEF first, pc
  <2>4. call' \in [Callers -> Call]
    BY <2>1, <2>2, <2>3 DEF Call
  <2>5. branch' \in [Branches -> {"open", "committed", "aborted"}]
    BY <1>3 DEF CommitFails, TypeOK
  <2> QED BY <1>3, <2>4, <2>5 DEF CommitFails, TypeOK
<1>4. ASSUME NEW c \in Callers, Committed(c) \/ NoRollback(c) \/ RolledBack(c) PROVE TypeOK'
  <2>1. call' \in [Callers -> Call]
    BY <1>4 DEF Committed, NoRollback, RolledBack, TypeOK, Call
  <2> QED BY <1>4, <2>1 DEF Committed, NoRollback, RolledBack, TypeOK
<1>5. ASSUME NEW c \in Callers, Rollback(c) PROVE TypeOK'
  <2>1. call' \in [Callers -> Call]
    BY <1>5 DEF Rollback, TypeOK, Call
  <2> QED BY <1>5, <2>1 DEF Rollback, TypeOK
<1>6. ASSUME NEW c \in Callers, NEW b \in Branches, EndRollback(c, b) PROVE TypeOK'
  <2>1. call' \in [Callers -> Call]
    BY <1>6 DEF EndRollback, TypeOK, Call
  <2>2. branch' \in [Branches -> {"open", "committed", "aborted"}]
    BY <1>6 DEF EndRollback, TypeOK
  <2> QED BY <1>6, <2>1, <2>2 DEF EndRollback, TypeOK
<1>7. ASSUME (\E b \in Branches : Enlist(b)) \/ Delete \/ Sweep PROVE TypeOK'
  BY <1>7 DEF Enlist, Delete, Sweep, TypeOK
<1> QED BY <1>1, <1>2, <1>3, <1>4, <1>5, <1>6, <1>7 DEF Next, CallStep

\* Whatever happens, the calls are not disappointed of what they have heard.
LEMMA TxHopes == ASSUME TxInv, Next
               PROVE  CommitsSoFar'
<1>0. TypeOK /\ CommitsSoFar /\ TypeOK'
  BY TxTyped DEF TxInv
<1>1. ASSUME NEW c \in Callers, Commit(c) PROVE CommitsSoFar'
  <2> DEFINE r == [pc |-> "commit", asked |-> connections, committing |-> connections, aborting |-> {}]
  <2>1. r \in Call /\ r.asked \ r.committing = {}
    BY <1>0 DEF TypeOK, Call
  <2> HIDE DEF r
  <2>2. call' = [call EXCEPT ![c] = r]
    BY <1>1 DEF Commit, r
  <2> QED BY <2>1, <2>2, CallMoves
<1>2. ASSUME NEW c \in Callers, NEW b \in Branches, CommitSucceeds(c, b) PROVE CommitsSoFar'
  <2> DEFINE r == [call[c] EXCEPT !.committing = @ \ {b}]
  <2>1. call' = [call EXCEPT ![c] = r] /\ branch'[b] = "committed"
    BY <1>0, <1>2 DEF CommitSucceeds, TypeOK
  <2>2. /\ r \in Call /\ r.asked = call[c].asked /\ r.pc = call[c].pc
        /\ r.committing = call[c].committing \ {b}
    BY <1>0 DEF TypeOK, Call
  <2> HIDE DEF r
  <2>3. ASSUME r.pc = "commit", NEW d \in r.asked \ r.committing PROVE branch'[d] = "committed"
    <3>1. CASE d = b
      BY <2>1, <3>1
    <3>2. CASE d # b
      <4>1. branch[d] = "committed" /\ d \in Branches
        BY <1>0, <2>2, <2>3, <3>2 DEF CommitsSoFar, TypeOK, Call
      <4> QED BY <1>0, <4>1, CommittedStays
    <3> QED BY <3>1, <3>2
  <2> QED BY <2>1, <2>2, <2>3, CallMoves
<1>3. ASSUME NEW c \in Callers, NEW b \in Branches, CommitFails(c, b) PROVE CommitsSoFar'
  <2> DEFINE r == call'[c]
  <2>1. r \in Call
    BY <1>0 DEF TypeOK
  <2>2. r.pc = (IF call[c].pc = "commit" THEN "catch" ELSE call[c].pc)
    BY <1>0, <1>3 DEF CommitFails, TypeOK, Call
  <2>3. call' = [call EXCEPT ![c] = r]
    BY <1>0, <1>3 DEF CommitFails, TypeOK
  <2> HIDE DEF r
  <2>4. r.pc # "commit"
    BY <2>2
  <2> QED BY <2>1, <2>3, <2>4, CallMoves
<1>4. ASSUME NEW c \in Callers,
             Committed(c) \/ NoRollback(c) \/ RolledBack(c) \/ Rollback(c)
      PROVE  CommitsSoFar'
  <2> DEFINE r == call'[c]
  <2>1. call' = [call EXCEPT ![c] = r] /\ r \in Call /\ r.pc # "commit"
    BY <1>0, <1>4 DEF Committed, NoRollback, RolledBack, Rollback, TypeOK, Call
  <2> QED BY <2>1, CallMoves
<1>5. ASSUME NEW c \in Callers, NEW b \in Branches, EndRollback(c, b) PROVE CommitsSoFar'
  <2> DEFINE r == [call[c] EXCEPT !.aborting = @ \ {b}]
  <2>1. call' = [call EXCEPT ![c] = r]
    BY <1>5 DEF EndRollback
  <2>2. /\ r \in Call /\ r.asked = call[c].asked /\ r.pc = call[c].pc
        /\ r.committing = call[c].committing
    BY <1>0 DEF TypeOK, Call
  <2> HIDE DEF r
  <2>3. ASSUME r.pc = "commit", NEW d \in r.asked \ r.committing PROVE branch'[d] = "committed"
    <3>1. branch[d] = "committed" /\ d \in Branches
      BY <1>0, <2>2, <2>3 DEF CommitsSoFar, TypeOK, Call
    <3> QED BY <1>0, <3>1, CommittedStays
  <2> QED BY <2>1, <2>2, <2>3, CallMoves
<1>6. ASSUME (\E b \in Branches : Enlist(b)) \/ Delete \/ Sweep PROVE CommitsSoFar'
  BY <1>0, <1>6 DEF Enlist, Delete, Sweep, CommitsSoFar
<1> QED BY <1>1, <1>2, <1>3, <1>4, <1>5, <1>6 DEF Next, CallStep

LEMMA TxStarts == ASSUME Init PROVE TxInv
<1>1. Idle \in Call /\ Idle.pc = "idle"
  BY DEF Idle, Call
<1>2. \A c \in Callers : call[c] = Idle
  BY DEF Init
<1>3. TypeOK
  BY <1>1 DEF Init, TypeOK
<1>4. CommitsSoFar
  BY <1>1, <1>2 DEF CommitsSoFar
<1> QED BY <1>3, <1>4 DEF TxInv

LEMMA TxStep == ASSUME TxInv, [Next]_vars PROVE TxInv'
<1>1. CASE Next
  BY <1>1, TxTyped, TxHopes DEF TxInv
<1>2. CASE UNCHANGED vars
  BY <1>2 DEF TxInv, TypeOK, CommitsSoFar, vars
<1> QED BY <1>1, <1>2

\* A call that ends in a commit has been answered by every database it asked, and none
\* of them rolls back later, whatever other calls do at the same time.
THEOREM Truthful == Spec => CommitTruthful
<1>1. TxInv /\ [Next]_vars
        => [\A c \in Callers : call[c].pc = "commit" /\ call'[c].pc = "done"
              => \A b \in call[c].asked : branch[b] = "committed"]_vars
  <2>1. ASSUME TxInv, Next, NEW c \in Callers, call[c].pc = "commit", call'[c].pc = "done",
               NEW b \in call[c].asked
        PROVE  branch[b] = "committed"
    <3>1. call[c].committing = {}
      <4>1. TypeOK
        BY <2>1 DEF TxInv
      <4>2. ASSUME NEW d \in Callers, CallStep(d) \/ Commit(d) \/ Rollback(d)
            PROVE  call[c].committing = {}
        <5>1. CASE d = c
          <6>1. ~Commit(c) /\ ~Rollback(c) /\ ~NoRollback(c) /\ ~RolledBack(c)
            BY <2>1 DEF Commit, Rollback, NoRollback, RolledBack
          <6>2. ASSUME NEW e \in Branches, CommitSucceeds(c, e) \/ EndRollback(c, e) PROVE FALSE
            <7>1. call'[c].pc = call[c].pc
              BY <4>1, <6>2 DEF CommitSucceeds, EndRollback, TypeOK, Call
            <7> QED BY <2>1, <7>1
          <6>3. ASSUME NEW e \in Branches, CommitFails(c, e) PROVE FALSE
            <7>1. call'[c].pc = "catch"
              BY <2>1, <4>1, <6>3 DEF CommitFails, TypeOK, Call
            <7> QED BY <2>1, <7>1
          <6>4. Committed(c)
            BY <4>2, <5>1, <6>1, <6>2, <6>3 DEF CallStep
          <6> QED BY <6>4 DEF Committed
        <5>2. CASE d # c
          <6>1. call'[c] = call[c]
            BY <4>1, <4>2, <5>2 DEF CallStep, Committed, NoRollback, RolledBack, Rollback,
                  Commit, CommitSucceeds, CommitFails, EndRollback, TypeOK
          <6> QED BY <2>1, <6>1
        <5> QED BY <5>1, <5>2
      <4>3. CASE (\E d \in Branches : Enlist(d)) \/ Delete \/ Sweep
        BY <2>1, <4>3 DEF Enlist, Delete, Sweep
      <4> QED BY <2>1, <4>2, <4>3 DEF Next
    <3> QED BY <2>1, <3>1 DEF TxInv, CommitsSoFar
  <2> QED BY <2>1
<1>2. Init => TxInv
  BY TxStarts
<1>3. TxInv /\ [Next]_vars => TxInv'
  BY TxStep
<1> QED BY <1>1, <1>2, <1>3, PTL DEF Spec, CommitTruthful

------------------------------------------------------------------------------
(* The lock *)

\* A client that holds the lock within its time is the one in Redis, until the same time.
HolderIsKey == \A c \in Clients : Lock!Granted(c) => key = c /\ until = client[c].until
LockInv == Lock!TypeOK /\ HolderIsKey

USE DEF Lock!TypeOK, Lock!Client, Lock!Granted

\* Only c moves.
Steps(c) == /\ client' \in [Clients -> Lock!Client]
            /\ \A d \in Clients \ {c} : client'[d] = client[d]

\* A step of one client that leaves Redis alone and grants it nothing new.
LEMMA Passes ==
  ASSUME Lock!LockAssumption, LockInv, NEW c \in Clients, Steps(c),
         UNCHANGED <<lockTime, key, until>>,
         client'[c].pc \in {"hold", "release"} =>
           client[c].pc \in {"hold", "release"} /\ client'[c].until = client[c].until
  PROVE  LockInv'
<1>1. Lock!TypeOK'
  BY DEF LockInv, Steps
<1>2. ASSUME NEW d \in Clients, Lock!Granted(d)'
      PROVE  key' = d /\ until' = client'[d].until
  <2>1. Lock!Granted(d) /\ client'[d].until = client[d].until
    <3>1. CASE d = c
      BY <1>2, <3>1 DEF LockInv, Steps
    <3>2. CASE d # c
      BY <1>2, <3>2 DEF LockInv, Steps
    <3> QED BY <3>1, <3>2
  <2> QED BY <2>1 DEF LockInv, Steps, HolderIsKey
<1> QED BY <1>1, <1>2 DEF LockInv, Steps, HolderIsKey

\* A step that leaves nobody with the lock but, perhaps, the client c in Redis.
LEMMA Grants ==
  ASSUME Lock!LockAssumption, LockInv, NEW c \in Clients, Steps(c), key = None,
         key' \in Clients \cup {None}, until' \in 0..(MaxTime + Ttl), UNCHANGED lockTime,
         client'[c].pc \in {"hold", "release"} => key' = c /\ until' = client'[c].until
  PROVE  LockInv'
<1>1. Lock!TypeOK'
  BY DEF LockInv, Steps
<1>2. ASSUME NEW d \in Clients, Lock!Granted(d)'
      PROVE  key' = d /\ until' = client'[d].until
  <2>1. CASE d = c
    BY <1>2, <2>1 DEF LockInv, Steps
  <2>2. CASE d # c
    <3>1. Lock!Granted(d)
      BY <1>2, <2>2 DEF LockInv, Steps
    <3> QED BY <3>1 DEF LockInv, Steps, HolderIsKey, Lock!LockAssumption
  <2> QED BY <2>1, <2>2
<1> QED BY <1>1, <1>2 DEF LockInv, Steps, HolderIsKey

LEMMA LockStep == ASSUME Lock!LockAssumption, LockInv, [Lock!Next]_(Lock!lockVars) PROVE LockInv'
<1> USE DEF Lock!LockAssumption
<1>0. ASSUME NEW c \in Clients, client' = [client EXCEPT ![c] = Lock!Idle]
      PROVE  Steps(c) /\ client'[c].pc = "idle"
  BY <1>0 DEF LockInv, Steps, Lock!Idle
<1>1. ASSUME NEW c \in Clients, Lock!Begin(c) PROVE LockInv'
  <2> DEFINE first == [client EXCEPT ![c].pc = "try"]
  <2>1. first \in [Clients -> Lock!Client] /\ first[c].pc = "try"
        /\ \A d \in Clients \ {c} : first[d] = client[d]
    BY DEF LockInv
  <2>2. client' = [first EXCEPT ![c].tries = 0]
    BY <1>1 DEF Lock!Begin
  <2> HIDE DEF first
  <2>3. Steps(c) /\ client'[c].pc = "try"
    BY <2>1, <2>2 DEF Steps
  <2> QED BY <1>1, <2>3, Passes DEF Lock!Begin
<1>2. ASSUME NEW c \in Clients, Lock!Miss(c) PROVE LockInv'
  <2>1. Steps(c) /\ client'[c].pc = "wait"
    BY <1>2 DEF LockInv, Steps, Lock!Miss
  <2> QED BY <1>2, <2>1, Passes DEF Lock!Miss
<1>3. ASSUME NEW c \in Clients, Lock!Retry(c) PROVE LockInv'
  <2>1. Steps(c) /\ client'[c].pc \in {"try", "idle"}
    <3>1. CASE client[c].tries < Retries
      BY <1>3, <3>1 DEF LockInv, Steps, Lock!Retry
    <3>2. CASE ~(client[c].tries < Retries)
      BY <1>0, <1>3, <3>2 DEF Lock!Retry
    <3> QED BY <3>1, <3>2
  <2> QED BY <1>3, <2>1, Passes DEF Lock!Retry
<1>4. ASSUME NEW c \in Clients, Lock!Finish(c) PROVE LockInv'
  <2>1. Steps(c) /\ client'[c].until = client[c].until
    BY <1>4 DEF LockInv, Steps, Lock!Finish
  <2> QED BY <1>4, <2>1, Passes DEF Lock!Finish
<1>6. ASSUME NEW c \in Clients, Lock!Crash(c) PROVE LockInv'
  BY <1>0, <1>6, Passes DEF Lock!Crash
<1>7. ASSUME NEW c \in Clients, Lock!Acquire(c) PROVE LockInv'
  <2> DEFINE first == [client EXCEPT ![c].pc = "hold"]
  <2>1. first \in [Clients -> Lock!Client] /\ first[c].pc = "hold"
        /\ \A d \in Clients \ {c} : first[d] = client[d]
    BY DEF LockInv
  <2>2. client' = [first EXCEPT ![c].until = lockTime + Ttl]
    BY <1>7 DEF Lock!Acquire
  <2> HIDE DEF first
  <2>3. until' = lockTime + Ttl /\ lockTime + Ttl \in 0..(MaxTime + Ttl)
    BY <1>7 DEF LockInv, Lock!Acquire
  <2>4. Steps(c) /\ until' = client'[c].until
    BY <2>1, <2>2, <2>3 DEF Steps
  <2> QED BY <1>7, <2>3, <2>4, Grants DEF Lock!Acquire
<1>8. ASSUME NEW c \in Clients, Lock!LoseAnswer(c) PROVE LockInv'
  <2>1. Steps(c) /\ client'[c].pc = "idle"
    BY <1>0, <1>8 DEF Lock!LoseAnswer
  <2>2. CASE UNCHANGED <<key, until>>
    BY <1>8, <2>1, <2>2, Passes DEF Lock!LoseAnswer
  <2>3. CASE key = None /\ key' = c /\ until' = lockTime + Ttl
    <3>1. until' \in 0..(MaxTime + Ttl)
      BY <2>3 DEF LockInv
    <3> QED BY <1>8, <2>1, <2>3, <3>1, Grants DEF Lock!LoseAnswer
  <2> QED BY <1>8, <2>2, <2>3 DEF Lock!LoseAnswer
<1>9. ASSUME NEW c \in Clients, Lock!Release(c) PROVE LockInv'
  <2>1. Steps(c) /\ client'[c].pc = "idle"
    BY <1>0, <1>9 DEF Lock!Release
  <2>2. CASE key # c
    BY <1>9, <2>1, <2>2, Passes DEF Lock!Release
  <2>3. CASE key = c
    <3>1. Lock!TypeOK'
      BY <1>9, <2>1, <2>3 DEF LockInv, Steps, Lock!Release
    <3>2. ASSUME NEW d \in Clients PROVE ~Lock!Granted(d)'
      BY <1>9, <2>1, <2>3 DEF LockInv, HolderIsKey, Steps, Lock!Release
    <3> QED BY <3>1, <3>2 DEF LockInv, HolderIsKey
  <2> QED BY <2>2, <2>3
<1>10. CASE Lock!Expire
  <2>1. Lock!TypeOK'
    BY <1>10 DEF LockInv, Lock!Expire
  <2>2. ASSUME NEW d \in Clients PROVE ~Lock!Granted(d)'
    BY <1>10 DEF LockInv, HolderIsKey, Lock!Expire, Lock!Expired
  <2> QED BY <2>1, <2>2 DEF LockInv, HolderIsKey
<1>11. CASE Lock!Tick
  <2>1. Lock!TypeOK'
    BY <1>11 DEF LockInv, Lock!Tick
  <2>2. ASSUME NEW d \in Clients, Lock!Granted(d)' PROVE Lock!Granted(d)
    BY <1>11, <2>2 DEF LockInv, Lock!Tick
  <2> QED BY <1>11, <2>1, <2>2 DEF LockInv, HolderIsKey, Lock!Tick
<1>12. CASE UNCHANGED Lock!lockVars
  BY <1>12 DEF LockInv, HolderIsKey, Lock!lockVars
<1> QED
  BY <1>1, <1>2, <1>3, <1>4, <1>6, <1>7, <1>8, <1>9, <1>10, <1>11, <1>12 DEF Lock!Next

LEMMA LockStarts == ASSUME Lock!LockAssumption, Lock!Init PROVE LockInv
  BY DEF Lock!Init, Lock!Idle, LockInv, HolderIsKey, Lock!LockAssumption

\* Within the time that Redis has granted it no client shares the lock, whatever clients
\* die, release late or lose an answer (acquireLock, releaseLock).
THEOREM LockExclusive ==
  ASSUME Lock!LockAssumption
  PROVE  Lock!Spec => []Lock!Exclusive
<1>1. Lock!Init => LockInv
  BY LockStarts
<1>2. LockInv => Lock!Exclusive
  BY DEF LockInv, HolderIsKey, Lock!Exclusive
<1>3. LockInv /\ [Lock!Next]_(Lock!lockVars) => LockInv'
  BY LockStep
<1> QED BY <1>1, <1>2, <1>3, PTL DEF Lock!Spec

------------------------------------------------------------------------------
(* The token *)

USE DEF Token!TypeOK, Token!Call, Token!Time

\* The token that is kept is given up the margin before its end, or earlier.
KeptInTime == accessToken # None => tokenExpiry <= accessToken + TokenLife
\* An answer is not under way for longer than the delay.
AnswersFresh == \A c \in Requests :
  request[c].pc = "answer" => request[c].token \in Token!Time /\ tokenTime <= request[c].token + TokenDelay
TokenInv == Token!TypeOK /\ KeptInTime /\ AnswersFresh

\* A step of one request that keeps the token and the time.
LEMMA CallPasses ==
  ASSUME Token!TokenAssumption, TokenInv, NEW c \in Requests, NEW r \in Token!Call,
         request' = [request EXCEPT ![c] = r], UNCHANGED <<tokenTime, accessToken, tokenExpiry>>,
         r.pc = "answer" => r.token = tokenTime
  PROVE  TokenInv'
<1>1. Token!TypeOK'
  BY DEF TokenInv
<1>2. KeptInTime'
  BY DEF TokenInv, KeptInTime
<1>3. ASSUME NEW d \in Requests, request'[d].pc = "answer"
      PROVE  request'[d].token \in Token!Time /\ tokenTime <= request'[d].token + TokenDelay
  <2>1. CASE d = c
    BY <1>3, <2>1 DEF TokenInv, Token!TokenAssumption
  <2>2. CASE d # c
    BY <1>3, <2>2 DEF TokenInv, AnswersFresh
  <2> QED BY <2>1, <2>2
<1> QED BY <1>1, <1>2, <1>3 DEF TokenInv, AnswersFresh

\* What is sent is a token that has not expired, step by step.
LEMMA TokenStep ==
  ASSUME Token!TokenAssumption, TokenInv, [Token!Next]_(Token!tokenVars)
  PROVE  TokenInv' /\ Token!SentValid
<1> USE DEF Token!TokenAssumption
<1>1. ASSUME NEW c \in Requests, Token!SendCached(c) PROVE TokenInv' /\ Token!SentValid
  <2> DEFINE r == [pc |-> "sent", token |-> accessToken]
  <2>1. r \in Token!Call /\ r.pc = "sent" /\ request' = [request EXCEPT ![c] = r]
    BY <1>1 DEF TokenInv, Token!SendCached
  <2>2. r.token \in Token!Time /\ tokenTime < r.token + TokenLife
    BY <1>1 DEF TokenInv, KeptInTime, Token!SendCached, Token!Usable
  <2> HIDE DEF r
  <2>3. TokenInv'
    BY <1>1, <2>1, CallPasses DEF Token!SendCached
  <2>4. Token!SentValid
    BY <2>1, <2>2 DEF TokenInv, Token!SentValid
  <2> QED BY <2>3, <2>4
<1>2. ASSUME NEW c \in Requests, Token!Fetch(c) PROVE TokenInv' /\ Token!SentValid
  <2> DEFINE r == [pc |-> "fetch", token |-> None]
  <2>1. r \in Token!Call /\ r.pc = "fetch" /\ request' = [request EXCEPT ![c] = r]
    BY <1>2 DEF TokenInv, Token!Fetch
  <2> HIDE DEF r
  <2>2. TokenInv'
    BY <1>2, <2>1, CallPasses DEF Token!Fetch
  <2>3. Token!SentValid
    BY <2>1 DEF TokenInv, Token!SentValid
  <2> QED BY <2>2, <2>3
<1>3. ASSUME NEW c \in Requests, Token!Grant(c) PROVE TokenInv' /\ Token!SentValid
  <2> DEFINE r == [pc |-> "answer", token |-> tokenTime]
  <2>1. r \in Token!Call /\ r.pc = "answer" /\ r.token = tokenTime /\ request' = [request EXCEPT ![c] = r]
    BY <1>3 DEF TokenInv, Token!Grant
  <2> HIDE DEF r
  <2>2. TokenInv'
    BY <1>3, <2>1, CallPasses DEF Token!Grant
  <2>3. Token!SentValid
    BY <2>1 DEF TokenInv, Token!SentValid
  <2> QED BY <2>2, <2>3
<1>4. ASSUME NEW c \in Requests, Token!End(c) PROVE TokenInv' /\ Token!SentValid
  <2>1. Token!Idle \in Token!Call /\ Token!Idle.pc = "idle"
    BY DEF Token!Idle
  <2>2. TokenInv'
    BY <1>4, <2>1, CallPasses DEF Token!End
  <2>3. Token!SentValid
    BY <1>4, <2>1 DEF TokenInv, Token!SentValid, Token!End
  <2> QED BY <2>2, <2>3
<1>5. ASSUME NEW c \in Requests, Token!SendFetched(c) PROVE TokenInv' /\ Token!SentValid
  <2>1. /\ request' \in [Requests -> Token!Call]
        /\ request'[c].pc = "sent" /\ request'[c].token = request[c].token
        /\ \A d \in Requests \ {c} : request'[d] = request[d]
    BY <1>5 DEF TokenInv, Token!SendFetched
  <2>2. request[c].token \in Token!Time /\ tokenTime <= request[c].token + TokenDelay
    BY <1>5 DEF TokenInv, AnswersFresh, Token!SendFetched
  <2>3. Token!TypeOK'
    BY <1>5, <2>1, <2>2 DEF TokenInv, Token!SendFetched, Token!Expiry
  <2>4. KeptInTime'
    BY <1>5, <2>2 DEF TokenInv, KeptInTime, Token!SendFetched, Token!Expiry
  <2>5. AnswersFresh'
    BY <1>5, <2>1 DEF TokenInv, AnswersFresh, Token!SendFetched
  <2>6. Token!SentValid
    BY <2>1, <2>2 DEF TokenInv, Token!SentValid
  <2> QED BY <2>3, <2>4, <2>5, <2>6 DEF TokenInv
<1>6. CASE Token!Tick
  BY <1>6 DEF TokenInv, KeptInTime, AnswersFresh, Token!SentValid, Token!Tick
<1>7. CASE UNCHANGED Token!tokenVars
  BY <1>7 DEF TokenInv, KeptInTime, AnswersFresh, Token!SentValid, Token!tokenVars
<1> QED
  BY <1>1, <1>2, <1>3, <1>4, <1>5, <1>6, <1>7 DEF Token!Next

LEMMA TokenStarts == ASSUME Token!TokenAssumption, Token!Init PROVE TokenInv
  BY DEF Token!Init, Token!Idle, TokenInv, KeptInTime, AnswersFresh, Token!TokenAssumption

\* No request is sent with a token that has expired, whatever fetches overlap
\* ("Using cached Amadeus access token").
THEOREM TokenValid ==
  ASSUME Token!TokenAssumption
  PROVE  Token!Spec => Token!NeverExpired
<1>1. Token!Init => TokenInv
  BY TokenStarts
<1>2. TokenInv /\ [Token!Next]_(Token!tokenVars) => TokenInv' /\ Token!SentValid
  BY TokenStep
<1> QED BY <1>1, <1>2, PTL DEF Token!Spec, Token!NeverExpired

------------------------------------------------------------------------------
(* Idempotency keys *)

\* The entry in the cache outlives every request that was answered within the lifetime.
Outlives(a) ==
  attempt[a].arrival + Ttl <= idemTime \/ (cache # None /\ attempt[a].arrival + Ttl <= cache.expiresAt)
\* As long as nothing excuses it: one request is worked on at a time, which came when what
\* had been done before it was forgotten, and what has been done is kept.
OneWorks ==
  /\ \A a \in Tries : attempt[a].pc # "abandoned"
  /\ \A a, b \in Tries : Idem!Running(a) /\ Idem!Running(b) => a = b
WorksAnew ==
  \A a, b \in Tries : Idem!Running(a) /\ attempt[b].pc = "done"
    => attempt[b].arrival + Ttl <= attempt[a].arrival
DoneKept == \A a \in Tries : attempt[a].pc = "done" => Outlives(a)
Once == OneWorks /\ WorksAnew /\ DoneKept /\ Idem!DoneOnce
IdemInv == Idem!TypeOK /\ (excused \/ Once)

USE DEF Idem!TypeOK, Idem!Attempt, Idem!Time, Idem!Running

\* A request goes from one stage to another, and nothing else becomes "done" or "running".
LEMMA IdemTurns ==
  ASSUME Idem!IdempotencyAssumption, Idem!TypeOK, NEW a \in Tries, NEW pc,
         pc \in {"done", "failed", "abandoned"}, Idem!Turn(a, pc)
  PROVE  /\ attempt' \in [Tries -> Idem!Attempt]
         /\ attempt'[a].pc = pc
         /\ \A b \in Tries : attempt'[b].arrival = attempt[b].arrival
         /\ \A b \in Tries \ {a} : attempt'[b].pc = attempt[b].pc
  BY DEF Idem!Turn, Idem!IdempotencyAssumption

\* Whatever happens, types are kept.
LEMMA IdemTyped ==
  ASSUME Idem!IdempotencyAssumption, Idem!TypeOK, [Idem!Next]_(Idem!idemVars)
  PROVE  Idem!TypeOK'
<1> USE DEF Idem!IdempotencyAssumption
<1>1. ASSUME NEW a \in Tries, Idem!Replay(a) \/ Idem!Handle(a) PROVE Idem!TypeOK'
  <2>1. ASSUME NEW pc \in {"replayed", "running"} PROVE [pc |-> pc, arrival |-> idemTime] \in Idem!Attempt
    OBVIOUS
  <2>2. attempt' \in [Tries -> Idem!Attempt]
    BY <1>1, <2>1 DEF Idem!Replay, Idem!Handle
  <2>3. cache' \in {cache, None} /\ UNCHANGED idemTime /\ excused' \in BOOLEAN
    BY <1>1 DEF Idem!Replay, Idem!Handle
  <2> QED BY <2>2, <2>3
<1>2. ASSUME NEW a \in Tries, Idem!Answer(a) PROVE Idem!TypeOK'
  <2>1. attempt[a].arrival + Ttl \in 0..(MaxTime + Ttl)
    OBVIOUS
  <2> QED BY <1>2, <2>1, IdemTurns DEF Idem!Answer
<1>3. ASSUME NEW a \in Tries, Idem!Throw(a) \/ Idem!TimeOut(a) \/ Idem!AnswerLate(a)
      PROVE  Idem!TypeOK'
  BY <1>3, IdemTurns DEF Idem!Throw, Idem!TimeOut, Idem!AnswerLate
<1>4. CASE Idem!Restart
  <2>1. \A a \in Tries : [attempt[a] EXCEPT !.pc = "failed"] \in Idem!Attempt
    OBVIOUS
  <2>2. attempt' \in [Tries -> Idem!Attempt]
    BY <1>4, <2>1 DEF Idem!Restart
  <2> QED BY <1>4, <2>2 DEF Idem!Restart
<1>5. CASE Idem!Tick
  BY <1>5 DEF Idem!Tick
<1>6. CASE UNCHANGED Idem!idemVars
  BY <1>6 DEF Idem!idemVars
<1> QED BY <1>1, <1>2, <1>3, <1>4, <1>5, <1>6 DEF Idem!Next

\* Requests stay within the hour.
LEMMA IdemStep ==
  ASSUME Idem!IdempotencyAssumption, IdemInv, [Idem!Next]_(Idem!idemVars)
  PROVE  IdemInv'
<1> USE DEF Idem!IdempotencyAssumption
<1>0. Idem!TypeOK /\ Idem!TypeOK'
  BY IdemTyped DEF IdemInv
<1>a. SUFFICES ASSUME ~excused, ~excused' PROVE Once'
  <2>1. excused => excused'
    BY <1>0 DEF Idem!Next, Idem!Replay, Idem!Handle, Idem!Answer, Idem!Throw, Idem!TimeOut,
      Idem!AnswerLate, Idem!Restart, Idem!Tick, Idem!idemVars
  <2> QED BY <1>0, <2>1 DEF IdemInv
<1>b. OneWorks /\ WorksAnew /\ DoneKept /\ Idem!DoneOnce
  BY <1>a DEF IdemInv, Once
<1>1. ASSUME NEW a \in Tries, Idem!Replay(a) PROVE Once'
  <2>1. /\ attempt'[a].pc = "replayed"
        /\ \A b \in Tries \ {a} : attempt'[b] = attempt[b]
        /\ UNCHANGED <<idemTime, cache, excused>>
    BY <1>0, <1>1 DEF Idem!Replay
  <2>2. OneWorks' /\ WorksAnew'
    BY <1>b, <2>1 DEF OneWorks, WorksAnew
  <2>3. DoneKept' /\ Idem!DoneOnce'
    BY <1>a, <1>b, <2>1 DEF DoneKept, Outlives, Idem!DoneOnce
  <2> QED BY <2>2, <2>3 DEF Once
<1>2. ASSUME NEW a \in Tries, Idem!Handle(a) PROVE Once'
  <2>1. /\ attempt'[a].pc = "running" /\ attempt'[a].arrival = idemTime
        /\ \A b \in Tries \ {a} : attempt'[b] = attempt[b]
        /\ UNCHANGED idemTime
    BY <1>0, <1>2 DEF Idem!Handle
  <2>2. \A b \in Tries : ~Idem!Running(b)
    BY <1>a, <1>2 DEF Idem!Handle
  <2>3. \A b \in Tries : attempt[b].pc = "done" => attempt[b].arrival + Ttl <= idemTime
    BY <1>0, <1>b, <1>2 DEF Idem!Handle, Idem!Kept, DoneKept, Outlives
  <2>4. OneWorks'
    BY <1>b, <2>1, <2>2 DEF OneWorks
  <2>5. WorksAnew'
    BY <2>1, <2>2, <2>3 DEF WorksAnew
  <2>6. DoneKept' /\ Idem!DoneOnce'
    BY <1>a, <1>b, <2>1, <2>3 DEF DoneKept, Outlives, Idem!DoneOnce
  <2> QED BY <2>4, <2>5, <2>6 DEF Once
<1>3. ASSUME NEW a \in Tries, Idem!Answer(a) PROVE Once'
  <2>1. /\ attempt'[a].pc = "done"
        /\ \A b \in Tries : attempt'[b].arrival = attempt[b].arrival
        /\ \A b \in Tries \ {a} : attempt'[b].pc = attempt[b].pc
        /\ UNCHANGED idemTime
    BY <1>0, <1>3, IdemTurns DEF Idem!Answer
  <2>2. cache' # None /\ cache'.expiresAt = attempt[a].arrival + Ttl
    BY <1>0, <1>3 DEF Idem!Answer
  <2>3. \A b \in Tries : attempt[b].pc = "done" => attempt[b].arrival + Ttl <= attempt[a].arrival
    BY <1>b, <1>3 DEF WorksAnew, Idem!Answer
  <2>4. \A b \in Tries : attempt[b].arrival \in Nat
    BY <1>0
  <2>5. OneWorks'
    BY <1>b, <2>1 DEF OneWorks
  <2>6. WorksAnew'
    BY <1>b, <1>3, <2>1 DEF OneWorks, WorksAnew, Idem!Answer
  <2>7. DoneKept'
    <3>1. ASSUME NEW b \in Tries, attempt'[b].pc = "done" PROVE attempt[b].arrival <= attempt[a].arrival
      BY <2>1, <2>3, <2>4, <3>1
    <3> QED BY <2>1, <2>2, <2>4, <3>1 DEF DoneKept, Outlives
  <2>8. Idem!DoneOnce'
    <3>1. ASSUME NEW b \in Tries, NEW d \in Tries, b # d, attempt'[b].pc = "done",
                 attempt'[d].pc = "done", attempt[b].arrival <= attempt[d].arrival
          PROVE  attempt[b].arrival + Ttl <= attempt[d].arrival
      <4>1. CASE b # a /\ d # a
        BY <1>a, <1>b, <2>1, <3>1, <4>1 DEF Idem!DoneOnce
      <4>2. CASE d = a
        BY <2>1, <2>3, <3>1, <4>2
      <4>3. CASE b = a
        <5>1. attempt[d].arrival + Ttl <= attempt[a].arrival
          BY <2>1, <2>3, <3>1, <4>3
        <5> QED BY <2>4, <3>1, <4>3, <5>1
      <4> QED BY <4>1, <4>2, <4>3
    <3> QED BY <2>1, <3>1 DEF Idem!DoneOnce
  <2> QED BY <2>5, <2>6, <2>7, <2>8 DEF Once
<1>4. ASSUME NEW a \in Tries, Idem!Throw(a) PROVE Once'
  <2>1. /\ attempt'[a].pc = "failed"
        /\ \A b \in Tries : attempt'[b].arrival = attempt[b].arrival
        /\ \A b \in Tries \ {a} : attempt'[b].pc = attempt[b].pc
        /\ UNCHANGED <<idemTime, cache, excused>>
    BY <1>0, <1>4, IdemTurns DEF Idem!Throw
  <2>2. OneWorks' /\ WorksAnew'
    BY <1>b, <2>1 DEF OneWorks, WorksAnew
  <2>3. DoneKept' /\ Idem!DoneOnce'
    BY <1>a, <1>b, <2>1 DEF DoneKept, Outlives, Idem!DoneOnce
  <2> QED BY <2>2, <2>3 DEF Once
<1>5. ASSUME NEW a \in Tries, Idem!TimeOut(a) \/ Idem!AnswerLate(a) PROVE Once'
  BY <1>a, <1>b, <1>5 DEF Idem!TimeOut, Idem!AnswerLate, OneWorks
<1>6. CASE Idem!Restart
  BY <1>a, <1>6 DEF Idem!Restart
<1>7. CASE Idem!Tick
  <2>1. UNCHANGED <<cache, attempt>> /\ idemTime' = idemTime + 1
    BY <1>7 DEF Idem!Tick
  <2>2. OneWorks' /\ WorksAnew' /\ Idem!DoneOnce'
    BY <1>a, <1>b, <2>1 DEF OneWorks, WorksAnew, Idem!DoneOnce
  <2>3. DoneKept'
    BY <1>0, <1>b, <2>1 DEF DoneKept, Outlives
  <2> QED BY <2>2, <2>3 DEF Once
<1>8. CASE UNCHANGED Idem!idemVars
  BY <1>b, <1>8 DEF Idem!idemVars, Once, OneWorks, WorksAnew, DoneKept, Outlives, Idem!DoneOnce
<1> QED BY <1>1, <1>2, <1>3, <1>4, <1>5, <1>6, <1>7, <1>8 DEF Idem!Next

LEMMA IdemStarts == ASSUME Idem!IdempotencyAssumption, Idem!Init PROVE IdemInv
<1>1. [pc |-> "new", arrival |-> 0] \in Idem!Attempt
  BY DEF Idem!IdempotencyAssumption
<1>2. Idem!TypeOK
  BY <1>1 DEF Idem!IdempotencyAssumption, Idem!Init
<1>3. \A a \in Tries : attempt[a].pc = "new"
  BY DEF Idem!Init
<1>4. Once
  BY <1>3 DEF Once, OneWorks, WorksAnew, DoneKept, Idem!DoneOnce
<1> QED BY <1>2, <1>4 DEF IdemInv

\* Of the requests with one key that a waiting client repeats, no two are carried out within
\* the hour, as long as the process lives and answers in time (IdempotencyInterceptor).
THEOREM WorkDoneOnce ==
  ASSUME Idem!IdempotencyAssumption
  PROVE  Idem!Spec => []Idem!DoneOnce
<1>1. Idem!Init => IdemInv
  BY IdemStarts
<1>2. IdemInv /\ [Idem!Next]_(Idem!idemVars) => IdemInv'
  BY IdemStep
<1>3. IdemInv => Idem!DoneOnce
  BY DEF IdemInv, Once, Idem!DoneOnce
<1> QED BY <1>1, <1>2, <1>3, PTL DEF Idem!Spec

------------------------------------------------------------------------------
(* The pool of calls *)

\* Attempts of a call.
Limit(c) == IF c.again THEN MaxAttempts ELSE 1
Statuses == {Pool!NoAnswer, 200, Pool!BadRequest, 503}
Stage(c) ==
  [phase: {"waiting", "calling", "answered", "sleeping", "over"},
   attempt: 0..Limit(c), sent: Seq({Pool!Sent(c)}), answer: Statuses,
   served: Nat, slept: Int, outcome: [ok: BOOLEAN, status: Statuses]]

\* k is how far the task of a call c may be: the attempts, what they have sent and what was
\* carried out of it go together, and so do the delays.
Sends(c, k) ==
  /\ Len(k.sent) = IF Pool!Invalid(c) THEN 0 ELSE k.attempt
  /\ k.served <= Len(k.sent)
  /\ k.phase = "waiting" <=> k.attempt = 0
  /\ k.phase = "calling" => ~Pool!Invalid(c) /\ k.served < k.attempt
  /\ k.phase = "answered" /\ Pool!Invalid(c) => k.answer = Pool!BadRequest
  /\ k.phase = "answered" /\ k.answer = 200 => k.served > 0
Delays(c, k) ==
  /\ k.phase = "waiting" => k.slept = 0
  /\ k.phase \in {"calling", "answered", "over"} => k.slept = DelayMs * (2 ^ (k.attempt - 1) - 1)
  /\ k.phase = "sleeping" => k.slept = DelayMs * (2 ^ k.attempt - 1) /\ k.attempt < Limit(c)
Ends(c, k) ==
  k.phase = "over" =>
    /\ k.outcome.ok /\ c.by # "isAlive" => k.served > 0
    /\ ~k.outcome.ok => k.attempt = Limit(c)
Kept(c, k) == k \in Stage(c) /\ Sends(c, k) /\ Delays(c, k) /\ Ends(c, k)

PoolTyped ==
  /\ batch \in Batches /\ index \in 0..Len(batch)
  /\ worker \in [Pool!Workers -> {Pool!Gone, 0} \cup 1..index]
  /\ DOMAIN task = Pool!Tasks /\ DOMAIN results = Pool!Tasks
  /\ \A t \in Pool!Tasks : Kept(batch[t], task[t])
\* The workers take the tasks in turn, each its own, and leave none that is not over.
Attended ==
  /\ \A t \in Pool!Tasks : task[t].phase = "waiting" <=> t > index
  /\ \A t \in Pool!Tasks :
       task[t].phase \notin {"waiting", "over"} => \E w \in Pool!Workers : worker[w] = t
  /\ \A w, v \in Pool!Workers : worker[w] = worker[v] => w = v \/ worker[w] \in {0, Pool!Gone}
\* What the caller hears is what has happened; until a task fails a worker leaves only when
\* all tasks are taken.
Well(t) == task[t].phase = "over" /\ task[t].outcome.ok
Failed(t) == task[t].phase = "over" /\ ~task[t].outcome.ok
Heard ==
  /\ \A t \in Pool!Tasks : Well(t) => results[t] = task[t].outcome
  /\ caller = "waiting" =>
       /\ \A t \in Pool!Tasks : ~Failed(t)
       /\ \A w \in Pool!Workers : worker[w] = Pool!Gone => index = Len(batch)
  /\ caller = "resolved" => \A t \in Pool!Tasks : Well(t)
  /\ caller = "rejected" => \E t \in Pool!Tasks : Failed(t)
PoolInv == PoolTyped /\ Attended /\ Heard

\* What the proofs need of the powers of two: a set has as many subsets as its own number
\* of elements says.
LEMMA Doubles == ASSUME NEW n \in Nat PROVE 2 ^ n \in Nat /\ 2 ^ (n + 1) = 2 * 2 ^ n
<1> DEFINE less == 1..n
           more == 1..(n + 1)
           with == {x \in SUBSET more : n + 1 \in x}
           f == [x \in SUBSET less |-> x \cup {n + 1}]
<1>1. IsFiniteSet(less) /\ Cardinality(less) = n /\ IsFiniteSet(more) /\ Cardinality(more) = n + 1
  BY FS_Interval
<1>2. /\ IsFiniteSet(SUBSET less) /\ Cardinality(SUBSET less) = 2 ^ n
      /\ IsFiniteSet(SUBSET more) /\ Cardinality(SUBSET more) = 2 ^ (n + 1)
  BY <1>1, FS_SUBSET
<1>3. f \in Bijection(SUBSET less, with)
  <2>1. ASSUME NEW x \in SUBSET less, NEW y \in SUBSET less, f[x] = f[y] PROVE x = y
    <3>1. n + 1 \notin x /\ n + 1 \notin y
      OBVIOUS
    <3> QED BY <2>1, <3>1
  <2>2. ASSUME NEW y \in with PROVE \E x \in SUBSET less : f[x] = y
    <3>1. y \ {n + 1} \in SUBSET less
      <4>1. \A i \in y : i \in 1..(n + 1)
        OBVIOUS
      <4>2. \A i \in y \ {n + 1} : i \in 1..n
        BY <4>1
      <4> QED BY <4>2
    <3>2. (y \ {n + 1}) \cup {n + 1} = y
      OBVIOUS
    <3>3. f[y \ {n + 1}] = y
      BY <3>1, <3>2
    <3> QED BY <3>1, <3>3
  <2>3. ASSUME NEW x \in SUBSET less PROVE f[x] \in with
    <3>1. \A i \in x : i \in 1..(n + 1)
      OBVIOUS
    <3>2. n + 1 \in 1..(n + 1)
      OBVIOUS
    <3>3. x \cup {n + 1} \in SUBSET (1..(n + 1))
      BY <3>1, <3>2
    <3> QED BY <3>3
  <2>4. f \in [SUBSET less -> with]
    BY <2>3
  <2> HIDE DEF less, with, f
  <2>5. f \in Injection(SUBSET less, with)
    BY <2>1, <2>4 DEF Injection, IsInjective
  <2>6. f \in Surjection(SUBSET less, with)
    BY <2>2, <2>4 DEF Surjection
  <2> QED BY <2>5, <2>6 DEF Bijection
<1>4. IsFiniteSet(with) /\ Cardinality(with) = 2 ^ n
  <2> HIDE DEF with, f
  <2> QED BY <1>2, <1>3, FS_Bijection DEF ExistsBijection
<1>5. SUBSET more = (SUBSET less) \cup with
  <2>1. ASSUME NEW x \in SUBSET more, n + 1 \notin x PROVE x \in SUBSET less
    <3>1. \A i \in x : i \in 1..(n + 1) /\ i # n + 1
      BY <2>1
    <3>2. \A i \in x : i \in 1..n
      BY <3>1
    <3> QED BY <3>2
  <2>2. SUBSET less \subseteq SUBSET more
    <3>1. \A i \in less : i \in more
      OBVIOUS
    <3> QED BY <3>1
  <2>3. with \subseteq SUBSET more /\ \A x \in SUBSET more : n + 1 \in x => x \in with
    OBVIOUS
  <2> HIDE DEF less, more, with
  <2> QED BY <2>1, <2>2, <2>3
<1>6. (SUBSET less) \cap with = {}
  <2>1. n + 1 \notin less
    OBVIOUS
  <2>2. \A x \in with : n + 1 \in x
    OBVIOUS
  <2> HIDE DEF less, with
  <2> QED BY <2>1, <2>2
<1>7. Cardinality({}) = 0
  BY FS_EmptySet
<1> HIDE DEF less, more, with, f
<1>8. 2 ^ n \in Nat
  BY <1>2, FS_CardinalityType
<1>9. Cardinality(SUBSET more) = Cardinality(SUBSET less) + Cardinality(with) - 0
  BY <1>2, <1>4, <1>5, <1>6, <1>7, FS_Union
<1> QED BY <1>2, <1>4, <1>8, <1>9

\* The smaller of two.
LEMMA MinOfTwo ==
  ASSUME NEW a \in Nat, NEW b \in Nat
  PROVE  Pool!Min({a, b}) \in {a, b} /\ Pool!Min({a, b}) <= a /\ Pool!Min({a, b}) <= b
<1>1. \E x \in {a, b} : \A y \in {a, b} : x <= y
  OBVIOUS
<1> QED BY <1>1 DEF Pool!Min

USE DEF Pool!NoAnswer, Pool!BadRequest, Pool!Gone

\* The stages of one task: k is how far the task of c is, and these are how far it gets.
Tried(c, k, n) ==
  IF Pool!Invalid(c)
  THEN [k EXCEPT !.phase = "answered", !.attempt = n, !.answer = Pool!BadRequest]
  ELSE [k EXCEPT !.phase = "calling", !.attempt = n, !.answer = Pool!NoAnswer,
                 !.sent = Append(@, Pool!Sent(c))]
Served(k, code) ==
  [k EXCEPT !.answer = code, !.served = IF code = 200 THEN @ + 1 ELSE @, !.phase = "answered"]
Lost(k) == [k EXCEPT !.phase = "answered", !.answer = Pool!NoAnswer]
Asleep(k) == [k EXCEPT !.phase = "sleeping", !.slept = @ + Pool!Delay(k.attempt)]
Result(c, k) == Pool!Outcome(c, Pool!StatusOf(k.answer))
Over(c, k) == [k EXCEPT !.phase = "over", !.outcome = Result(c, k)]

LEMMA StartKept == ASSUME Pool!OutgoingAssumption, NEW c PROVE Kept(c, Pool!NotTaken)
  BY DEF Pool!OutgoingAssumption, Pool!NotTaken, Pool!Undefined, Kept, Stage, Sends, Delays, Ends, Limit, Statuses

LEMMA AttemptKept ==
  ASSUME Pool!OutgoingAssumption, NEW c, NEW k, Kept(c, k), NEW n,
         \/ k.phase = "waiting" /\ n = 1
         \/ k.phase = "sleeping" /\ n = k.attempt + 1
  PROVE  Kept(c, Tried(c, k, n)) /\ Tried(c, k, n).phase \in {"answered", "calling"}
<1> DEFINE r == Tried(c, k, n)
<1>0. r = IF Pool!Invalid(c)
          THEN [k EXCEPT !.phase = "answered", !.attempt = n, !.answer = Pool!BadRequest]
          ELSE [k EXCEPT !.phase = "calling", !.attempt = n, !.answer = Pool!NoAnswer,
                         !.sent = Append(@, Pool!Sent(c))]
  BY DEF Tried
<1> HIDE DEF r
<1> DEFINE s == Pool!Sent(c)
           invalid == Pool!Invalid(c)
<1> HIDE DEF s, invalid
<1>1. k \in Stage(c) /\ Limit(c) \in Nat \ {0} /\ k.attempt \in Nat /\ k.sent \in Seq({s})
  BY DEF Kept, Stage, Limit, Pool!OutgoingAssumption, s
<1>2. n \in 1..Limit(c) /\ n = k.attempt + 1
  BY <1>1 DEF Kept, Sends, Delays
<1>3. r.slept = DelayMs * (2 ^ (n - 1) - 1)
  <2>1. r.slept = k.slept
    BY <1>0, <1>1 DEF Stage
  <2>2. CASE k.phase = "waiting"
    <3>1. 2 ^ 0 = 1
      OBVIOUS
    <3> QED BY <2>1, <2>2, <3>1 DEF Kept, Delays, Pool!OutgoingAssumption
  <2>3. CASE k.phase = "sleeping"
    BY <1>1, <2>1, <2>3 DEF Kept, Delays
  <2> QED BY <2>2, <2>3
<1>4. ASSUME invalid PROVE Kept(c, r) /\ r.phase = "answered"
  <2>1. /\ r.phase = "answered" /\ r.attempt = n /\ r.answer = 400 /\ r.sent = k.sent
        /\ r.served = k.served /\ r.outcome = k.outcome /\ r \in Stage(c)
    <3>1. r = [k EXCEPT !.phase = "answered", !.attempt = n, !.answer = 400]
      BY <1>0, <1>4 DEF invalid
    <3>2. 400 \in Statuses /\ n \in 0..Limit(c)
      BY <1>1, <1>2 DEF Statuses
    <3>3. r \in Stage(c)
      <4>1. k \in Stage(c)
        BY DEF Kept
      <4> DEFINE first == [k EXCEPT !.phase = "answered"]
                 second == [first EXCEPT !.attempt = n]
      <4>2. first \in Stage(c)
        BY <4>1 DEF Stage
      <4>3. r = [second EXCEPT !.answer = 400]
        BY <3>1
      <4> HIDE DEF first
      <4>4. second \in Stage(c)
        BY <3>2, <4>2 DEF Stage
      <4> HIDE DEF second
      <4> QED BY <3>2, <4>3, <4>4 DEF Stage
    <3>4. r.phase = "answered" /\ r.attempt = n /\ r.answer = 400
      BY <1>1, <3>1 DEF Stage
    <3>5. r.sent = k.sent /\ r.served = k.served /\ r.outcome = k.outcome
      BY <1>1, <3>1 DEF Stage
    <3> QED BY <3>3, <3>4, <3>5
  <2> QED BY <1>1, <1>2, <1>3, <1>4, <2>1 DEF Kept, Sends, Delays, Ends, invalid
<1>5. ASSUME ~invalid PROVE Kept(c, r) /\ r.phase = "calling"
  <2>1. Append(k.sent, s) \in Seq({s}) /\ Len(Append(k.sent, s)) = Len(k.sent) + 1
    BY <1>1
  <2>2. /\ r.phase = "calling" /\ r.attempt = n /\ r.answer = 0 /\ r.sent = Append(k.sent, s)
        /\ r.served = k.served /\ r.outcome = k.outcome
    BY <1>0, <1>1, <1>2, <1>5 DEF Stage, s, invalid
  <2>3. r \in Stage(c)
    <3>1. r = [k EXCEPT !.phase = "calling", !.attempt = n, !.answer = 0, !.sent = Append(@, s)]
      BY <1>0, <1>5 DEF invalid, s
    <3>2. 0 \in Statuses /\ n \in 0..Limit(c)
      BY <1>1, <1>2 DEF Statuses
    <3> QED BY <1>1, <2>1, <3>1, <3>2 DEF Stage, s
  <2>4. k.served \in Nat /\ k.served <= k.attempt /\ Len(k.sent) = k.attempt
    BY <1>1, <1>5 DEF Kept, Sends, Stage, invalid
  <2> QED BY <1>1, <1>2, <1>3, <1>5, <2>1, <2>2, <2>3, <2>4 DEF Kept, Sends, Delays, Ends, invalid
<1> QED BY <1>4, <1>5 DEF r

LEMMA ServeKept ==
  ASSUME Pool!OutgoingAssumption, NEW c, NEW k, Kept(c, k), k.phase = "calling", NEW code \in {200, 503}
  PROVE  Kept(c, Served(k, code)) /\ Served(k, code).phase = "answered"
<1> DEFINE r == Served(k, code)
<1>1. k \in Stage(c) /\ k.attempt \in Nat /\ k.served \in Nat /\ Len(k.sent) \in Nat
  BY DEF Kept, Stage, Limit, Pool!OutgoingAssumption
<1>2. /\ r.phase = "answered" /\ r.attempt = k.attempt /\ r.answer = code /\ r.sent = k.sent
      /\ r.served = (IF code = 200 THEN k.served + 1 ELSE k.served)
      /\ r.slept = k.slept /\ r.outcome = k.outcome /\ r \in Stage(c)
  <2>1. code \in Statuses /\ (IF code = 200 THEN k.served + 1 ELSE k.served) \in Nat
    BY <1>1 DEF Statuses
  <2> QED BY <1>1, <2>1 DEF Stage, Served
<1> HIDE DEF r
<1>3. Kept(c, r)
  BY <1>1, <1>2 DEF Kept, Sends, Delays, Ends
<1> QED BY <1>2, <1>3 DEF r

LEMMA LoseKept ==
  ASSUME Pool!OutgoingAssumption, NEW c, NEW k, Kept(c, k), ~Pool!Invalid(c), k.phase \in {"calling", "answered"}
  PROVE  Kept(c, Lost(k)) /\ Lost(k).phase = "answered"
<1> DEFINE r == Lost(k)
<1>1. k \in Stage(c) /\ k.attempt \in Nat /\ k.served \in Nat /\ Len(k.sent) \in Nat
  BY DEF Kept, Stage, Limit, Pool!OutgoingAssumption
<1>2. /\ r.phase = "answered" /\ r.attempt = k.attempt /\ r.answer = 0 /\ r.sent = k.sent
      /\ r.served = k.served /\ r.slept = k.slept /\ r.outcome = k.outcome /\ r \in Stage(c)
  <2>1. 0 \in Statuses
    BY DEF Statuses
  <2> QED BY <1>1, <2>1 DEF Stage, Lost
<1> HIDE DEF r
<1>3. Kept(c, r)
  BY <1>1, <1>2 DEF Kept, Sends, Delays, Ends
<1> QED BY <1>2, <1>3 DEF r

LEMMA SleepKept ==
  ASSUME Pool!OutgoingAssumption, NEW c, NEW k, Kept(c, k), k.phase = "answered", k.attempt < Limit(c)
  PROVE  Kept(c, Asleep(k)) /\ Asleep(k).phase = "sleeping"
<1> DEFINE r == Asleep(k)
<1>1. k \in Stage(c) /\ k.attempt \in Nat \ {0} /\ k.served \in Nat /\ Len(k.sent) \in Nat /\ k.slept \in Int
  BY DEF Kept, Sends, Stage, Limit, Pool!OutgoingAssumption
<1>2. PICK p \in Nat : p = 2 ^ (k.attempt - 1) /\ 2 ^ k.attempt = 2 * p
  <2>1. k.attempt - 1 \in Nat /\ (k.attempt - 1) + 1 = k.attempt
    BY <1>1
  <2> QED BY <2>1, Doubles
<1>3. DelayMs \in Nat /\ Pool!Delay(k.attempt) = DelayMs * p
  BY <1>2 DEF Pool!Delay, Pool!OutgoingAssumption
<1>4. /\ DelayMs * p \in Nat /\ DelayMs * (p - 1) = DelayMs * p - DelayMs
      /\ DelayMs * (2 * p - 1) = 2 * (DelayMs * p) - DelayMs
  BY <1>3
<1>5. k.slept + DelayMs * p = DelayMs * (2 * p - 1)
  <2>1. k.slept = DelayMs * p - DelayMs
    BY <1>2, <1>4 DEF Kept, Delays
  <2> QED BY <1>3, <1>4, <2>1
<1>6. k.slept + DelayMs * p \in Int
  BY <1>1, <1>4
<1>7. /\ r.phase = "sleeping" /\ r.attempt = k.attempt /\ r.answer = k.answer /\ r.sent = k.sent
      /\ r.served = k.served /\ r.slept = k.slept + DelayMs * p /\ r.outcome = k.outcome /\ r \in Stage(c)
  BY <1>1, <1>3, <1>6 DEF Stage, Asleep
<1> HIDE DEF r
<1>8. Delays(c, r)
  BY <1>2, <1>5, <1>7 DEF Delays
<1>9. Kept(c, r)
  BY <1>1, <1>7, <1>8 DEF Kept, Sends, Ends
<1> QED BY <1>7, <1>9 DEF r

LEMMA EndKept ==
  ASSUME Pool!OutgoingAssumption, NEW c, NEW k, Kept(c, k), k.phase = "answered", 
         Result(c, k).ok \/ ~(k.attempt < Limit(c))
  PROVE  Kept(c, Over(c, k)) /\ Over(c, k).phase = "over" /\ Over(c, k).outcome = Result(c, k)
<1> DEFINE o == Result(c, k)
           r == Over(c, k)
<1>1. k \in Stage(c) /\ k.attempt \in Nat \ {0} /\ Limit(c) \in Nat /\ k.attempt <= Limit(c)
      /\ k.served \in Nat /\ Len(k.sent) \in Nat /\ k.answer \in Statuses
  BY DEF Kept, Sends, Stage, Limit, Pool!OutgoingAssumption
<1>2. o \in [ok: BOOLEAN, status: Statuses]
  BY <1>1 DEF Result, Pool!Outcome, Pool!StatusOf, Pool!IsError, Statuses
<1>3. o.ok /\ c.by # "isAlive" => k.answer = 200
  <2>1. SUFFICES ASSUME o.ok, c.by # "isAlive" PROVE k.answer = 200
    OBVIOUS
  <2>2. ~Pool!IsError(Pool!StatusOf(k.answer))
    BY <2>1 DEF Result, Pool!Outcome
  <2>3. CASE k.answer = 0
    BY <2>2, <2>3 DEF Pool!StatusOf, Pool!IsError
  <2>4. CASE k.answer # 0
    <3>1. k.answer \in 200..299
      BY <2>2, <2>4 DEF Pool!StatusOf, Pool!IsError
    <3>2. k.answer \in {0, 200, 400, 503}
      BY <1>1 DEF Statuses
    <3> QED BY <3>1, <3>2
  <2> QED BY <2>3, <2>4
<1>4. /\ r.phase = "over" /\ r.attempt = k.attempt /\ r.answer = k.answer /\ r.sent = k.sent
      /\ r.served = k.served /\ r.slept = k.slept /\ r.outcome = o /\ r \in Stage(c)
  BY <1>1, <1>2 DEF Stage, Over
<1> HIDE DEF r, o
<1>5. Ends(c, r)
  BY <1>1, <1>3, <1>4 DEF Kept, Sends, Ends, o
<1>6. Kept(c, r)
  BY <1>1, <1>4, <1>5 DEF Kept, Sends, Delays
<1> QED BY <1>4, <1>6 DEF r, o

\* A batch is numbered, and there are as many workers as asked for, or as calls.
LEMMA BatchNumbered ==
  ASSUME Pool!OutgoingAssumption, batch \in Batches
  PROVE  /\ Len(batch) \in Nat /\ Pool!Tasks = 1..Len(batch)
         /\ \E m \in {Concurrency, Len(batch)} :
              m \in Nat /\ m <= Concurrency /\ m <= Len(batch) /\ Pool!Workers = 1..m
<1>1. Len(batch) \in Nat /\ Pool!Tasks = 1..Len(batch)
  BY DEF Pool!OutgoingAssumption, Pool!Tasks
<1>2. Concurrency \in Nat
  BY DEF Pool!OutgoingAssumption
<1>3. Pool!Min({Concurrency, Len(batch)}) \in {Concurrency, Len(batch)}
      /\ Pool!Min({Concurrency, Len(batch)}) <= Concurrency
      /\ Pool!Min({Concurrency, Len(batch)}) <= Len(batch)
  BY <1>1, <1>2, MinOfTwo
<1> QED BY <1>1, <1>2, <1>3 DEF Pool!Workers

\* The task t goes from one stage on the way to another.
LEMMA StageStep ==
  ASSUME Pool!OutgoingAssumption, PoolInv, NEW t \in Pool!Tasks, NEW k,
         task[t].phase \notin {"waiting", "over"}, k.phase \notin {"waiting", "over"},
         Kept(batch[t], k), task' = [task EXCEPT ![t] = k],
         UNCHANGED <<batch, index, worker, results, caller>>
  PROVE  PoolInv'
<1>0. /\ DOMAIN task' = DOMAIN task /\ task'[t] = k /\ t \in DOMAIN task
      /\ \A u \in Pool!Tasks \ {t} : task'[u] = task[u]
      /\ Pool!Tasks' = Pool!Tasks /\ Pool!Workers' = Pool!Workers
  BY DEF PoolInv, PoolTyped, Pool!Tasks, Pool!Workers
<1>1. PoolTyped'
  <2>1. \A u \in Pool!Tasks : Kept(batch'[u], task'[u])
    BY <1>0 DEF PoolInv, PoolTyped
  <2> QED BY <1>0, <2>1 DEF PoolInv, PoolTyped
<1>2. Attended'
  BY <1>0 DEF PoolInv, Attended
<1>3. Heard'
  <2>1. \A u \in Pool!Tasks : Well(u)' <=> Well(u)
    BY <1>0 DEF Well
  <2>2. \A u \in Pool!Tasks : Failed(u)' <=> Failed(u)
    BY <1>0 DEF Failed
  <2>3. \A u \in Pool!Tasks : Well(u)' => task'[u].outcome = task[u].outcome
    BY <1>0 DEF Well
  <2> QED BY <1>0, <2>1, <2>2, <2>3 DEF PoolInv, Heard
<1> QED BY <1>1, <1>2, <1>3 DEF PoolInv

\* A task ends, well, or badly with its worker and, for the caller, with the whole pool.
LEMMA EndStep ==
  ASSUME Pool!OutgoingAssumption, PoolInv, NEW t \in Pool!Tasks, NEW k,
         task[t].phase \notin {"waiting", "over"}, k.phase = "over",
         Kept(batch[t], k), task' = [task EXCEPT ![t] = k],
         UNCHANGED <<batch, index>>,
         IF k.outcome.ok
         THEN results' = [results EXCEPT ![t] = k.outcome] /\ UNCHANGED <<worker, caller>>
         ELSE /\ worker' = [w \in Pool!Workers |-> IF worker[w] = t THEN Pool!Gone ELSE worker[w]]
              /\ caller' = IF caller = "waiting" THEN "rejected" ELSE caller
              /\ UNCHANGED results
  PROVE  PoolInv'
<1>0. /\ DOMAIN task' = DOMAIN task /\ task'[t] = k /\ t \in DOMAIN task
      /\ \A u \in Pool!Tasks \ {t} : task'[u] = task[u]
      /\ Pool!Tasks' = Pool!Tasks /\ Pool!Workers' = Pool!Workers
      /\ Pool!Tasks = 1..Len(batch) /\ Len(batch) \in Nat /\ index \in Nat
  <2>1. batch \in Batches /\ DOMAIN task = Pool!Tasks /\ index \in 0..Len(batch)
    BY DEF PoolInv, PoolTyped
  <2>2. Pool!Tasks = 1..Len(batch) /\ Len(batch) \in Nat
    BY <2>1, BatchNumbered
  <2>3. Pool!Tasks' = Pool!Tasks /\ Pool!Workers' = Pool!Workers
    BY DEF Pool!Tasks, Pool!Workers
  <2> QED BY <2>1, <2>2, <2>3
<1>a. PoolTyped /\ Attended /\ Heard
  BY DEF PoolInv
<1>b. caller # "resolved" /\ t <= index
  BY <1>0, <1>a DEF Attended, Heard, Well
<1>1. PoolTyped'
  <2>1. \A u \in Pool!Tasks : Kept(batch'[u], task'[u])
    BY <1>0, <1>a DEF PoolTyped
  <2>2. worker' \in [Pool!Workers -> {Pool!Gone, 0} \cup 1..index]
    BY <1>a DEF PoolTyped
  <2>3. DOMAIN results' = DOMAIN results
    OBVIOUS
  <2> QED BY <1>0, <1>a, <2>1, <2>2, <2>3 DEF PoolTyped
<1>2. \A w \in Pool!Workers : worker'[w] = worker[w] \/ (worker[w] = t /\ worker'[w] = -1)
  <2>1. CASE k.outcome.ok
    BY <2>1
  <2>2. CASE ~k.outcome.ok
    BY <2>2
  <2> QED BY <2>1, <2>2
<1>3. Attended'
  <2>1. \A u \in Pool!Tasks : task'[u].phase = "waiting" <=> u > index
    BY <1>0, <1>a DEF Attended
  <2>2. ASSUME NEW u \in Pool!Tasks, task'[u].phase \notin {"waiting", "over"}
        PROVE  \E w \in Pool!Workers : worker'[w] = u
    <3>1. u # t /\ task[u].phase \notin {"waiting", "over"}
      BY <1>0, <2>2
    <3>2. PICK w \in Pool!Workers : worker[w] = u
      BY <1>a, <3>1 DEF Attended
    <3> QED BY <1>2, <3>1, <3>2
  <2>3. ASSUME NEW w \in Pool!Workers, NEW v \in Pool!Workers, worker'[w] = worker'[v]
        PROVE  w = v \/ worker'[w] \in {0, Pool!Gone}
    BY <1>2, <1>a, <2>3 DEF Attended
  <2> QED BY <1>0, <2>1, <2>2, <2>3 DEF Attended
<1>4. Heard'
  <2>1. CASE k.outcome.ok
    <3>1. Well(t)' /\ \A u \in Pool!Tasks \ {t} : Well(u)' <=> Well(u)
      BY <1>0, <2>1 DEF Well
    <3>2. \A u \in Pool!Tasks : Failed(u)' <=> Failed(u) /\ u # t
      BY <1>0, <2>1 DEF Failed
    <3>3. ~Failed(t)
      BY DEF Failed
    <3>4. \A u \in Pool!Tasks : Well(u)' => results'[u] = task'[u].outcome
      BY <1>0, <1>a, <2>1, <3>1 DEF PoolTyped, Heard
    <3> QED BY <1>0, <1>a, <1>b, <2>1, <3>1, <3>2, <3>3, <3>4 DEF Heard
  <2>2. CASE ~k.outcome.ok
    <3>1. Failed(t)' /\ ~Well(t)' /\ \A u \in Pool!Tasks \ {t} : Well(u)' <=> Well(u)
      BY <1>0, <2>2 DEF Well, Failed
    <3>2. \A u \in Pool!Tasks : Well(u)' => results'[u] = task'[u].outcome
      BY <1>0, <1>a, <2>2, <3>1 DEF Heard
    <3>3. caller' # "waiting" /\ caller' # "resolved"
      BY <1>b, <2>2
    <3> QED BY <1>0, <3>1, <3>2, <3>3 DEF Heard
  <2> QED BY <2>1, <2>2
<1> QED BY <1>1, <1>3, <1>4 DEF PoolInv

\* A worker that is free takes the next task.
LEMMA TakeStep ==
  ASSUME Pool!OutgoingAssumption, PoolInv, NEW w \in Pool!Workers, Pool!Take(w)
  PROVE  PoolInv'
<1> DEFINE n == index + 1
           k == Tried(batch[n], task[n], 1)
<1>a. PoolTyped /\ Attended /\ Heard
  BY DEF PoolInv
<1>0. /\ Pool!Tasks' = Pool!Tasks /\ Pool!Workers' = Pool!Workers
      /\ Pool!Tasks = 1..Len(batch) /\ Len(batch) \in Nat /\ index \in Nat
      /\ n \in 1..Len(batch) /\ n > index
  BY <1>a, BatchNumbered DEF PoolTyped, Pool!Tasks, Pool!Workers, Pool!Take
<1>1. task[n].phase = "waiting" /\ Kept(batch[n], task[n])
  BY <1>0, <1>a DEF PoolTyped, Attended
<1>2. Kept(batch[n], k) /\ k.phase \in {"answered", "calling"}
  BY <1>1, AttemptKept
<1>3. /\ task' = [task EXCEPT ![n] = k] /\ worker' = [worker EXCEPT ![w] = n]
      /\ index' = n /\ UNCHANGED <<batch, results, caller>>
  BY DEF Pool!Take, Pool!Attempted, Tried
<1> HIDE DEF k
<1>4. /\ task'[n] = k /\ DOMAIN task' = DOMAIN task
      /\ \A u \in Pool!Tasks \ {n} : task'[u] = task[u]
  BY <1>0, <1>3, <1>a DEF PoolTyped
<1>5. worker'[w] = n /\ \A v \in Pool!Workers \ {w} : worker'[v] = worker[v]
  BY <1>3, <1>a DEF PoolTyped
<1>6. PoolTyped'
  <2>1. \A u \in Pool!Tasks : Kept(batch'[u], task'[u])
    BY <1>0, <1>2, <1>3, <1>4, <1>a DEF PoolTyped
  <2>2. worker' \in [Pool!Workers -> {Pool!Gone, 0} \cup 1..n]
    <3>1. {Pool!Gone, 0} \cup 1..index \subseteq {Pool!Gone, 0} \cup 1..n /\ n \in 1..n
      BY <1>0
    <3>2. worker \in [Pool!Workers -> {Pool!Gone, 0} \cup 1..n]
      BY <1>a, <3>1 DEF PoolTyped
    <3> QED BY <1>3, <3>1, <3>2
  <2> QED BY <1>0, <1>3, <1>4, <1>a, <2>1, <2>2 DEF PoolTyped
<1>7. Attended'
  <2>1. \A u \in Pool!Tasks : task'[u].phase = "waiting" <=> u > n
    BY <1>0, <1>2, <1>4, <1>a DEF Attended
  <2>2. ASSUME NEW u \in Pool!Tasks, task'[u].phase \notin {"waiting", "over"}
        PROVE  \E v \in Pool!Workers : worker'[v] = u
    <3>1. CASE u = n
      BY <1>5, <3>1
    <3>2. CASE u # n
      <4>1. task[u].phase \notin {"waiting", "over"}
        BY <1>4, <2>2, <3>2
      <4>2. PICK v \in Pool!Workers : worker[v] = u
        BY <1>a, <4>1 DEF Attended
      <4>3. v # w
        BY <1>0, <4>1, <4>2 DEF Pool!Take, Pool!Free
      <4> QED BY <1>5, <4>2, <4>3
    <3> QED BY <3>1, <3>2
  <2>3. \A v \in Pool!Workers : worker[v] # n
    BY <1>0, <1>a DEF PoolTyped
  <2>4. ASSUME NEW v \in Pool!Workers, NEW x \in Pool!Workers, worker'[v] = worker'[x]
        PROVE  v = x \/ worker'[v] \in {0, Pool!Gone}
    BY <1>5, <1>a, <2>3, <2>4 DEF Attended
  <2> QED BY <1>0, <1>3, <2>1, <2>2, <2>4 DEF Attended
<1>8. Heard'
  <2>1. \A u \in Pool!Tasks : (Well(u)' <=> Well(u)) /\ (Failed(u)' <=> Failed(u))
    BY <1>1, <1>2, <1>4 DEF Well, Failed
  <2>2. \A u \in Pool!Tasks : Well(u) => task'[u].outcome = task[u].outcome
    BY <1>1, <1>4 DEF Well
  <2>3. caller = "waiting" => \A v \in Pool!Workers : worker'[v] # Pool!Gone
    <3>1. n # -1 /\ index # Len(batch)
      BY <1>0
    <3>2. caller = "waiting" => \A v \in Pool!Workers : worker[v] # -1
      BY <1>a, <3>1 DEF Heard
    <3> QED BY <1>5, <3>1, <3>2
  <2> QED BY <1>0, <1>3, <1>a, <2>1, <2>2, <2>3 DEF Heard
<1> QED BY <1>6, <1>7, <1>8 DEF PoolInv

LEMMA PoolStep ==
  ASSUME Pool!OutgoingAssumption, PoolInv, [Pool!Next]_(Pool!vars)
  PROVE  PoolInv'
<1>a. PoolTyped /\ Attended /\ Heard
  BY DEF PoolInv
<1>b. ASSUME NEW t \in Pool!Tasks PROVE Kept(batch[t], task[t]) /\ t \in DOMAIN task
  BY <1>a DEF PoolTyped
<1>c. ASSUME UNCHANGED batch
      PROVE  Pool!Tasks' = Pool!Tasks /\ Pool!Workers' = Pool!Workers
  BY <1>c DEF Pool!Tasks, Pool!Workers
<1>1. ASSUME NEW w \in Pool!Workers, Pool!Take(w) PROVE PoolInv'
  BY <1>1, TakeStep
<1>2. ASSUME NEW w \in Pool!Workers, Pool!Leave(w) PROVE PoolInv'
  <2>0. Pool!Tasks' = Pool!Tasks /\ Pool!Workers' = Pool!Workers
    BY <1>2, <1>c DEF Pool!Leave
  <2>1. worker' = [worker EXCEPT ![w] = -1] /\ UNCHANGED <<batch, index, task, results, caller>>
        /\ index = Len(batch)
    BY <1>2 DEF Pool!Leave
  <2>2. PoolTyped'
    BY <1>a, <2>0, <2>1 DEF PoolTyped
  <2>3. worker'[w] = -1 /\ \A v \in Pool!Workers \ {w} : worker'[v] = worker[v]
    BY <1>a, <2>1 DEF PoolTyped
  <2>4. ASSUME NEW u \in Pool!Tasks, task[u].phase \notin {"waiting", "over"}
        PROVE  \E v \in Pool!Workers : worker'[v] = u
    <3>1. PICK v \in Pool!Workers : worker[v] = u
      BY <1>a, <2>4 DEF Attended
    <3>2. v # w
      <4>1. u \in Nat \ {0}
        BY <1>a, BatchNumbered DEF PoolTyped
      <4> QED BY <1>2, <2>4, <3>1, <4>1 DEF Pool!Leave, Pool!Free
    <3> QED BY <2>3, <3>1, <3>2
  <2>5. Attended'
    BY <1>a, <2>0, <2>1, <2>3, <2>4 DEF Attended
  <2>6. Heard'
    BY <1>a, <2>0, <2>1 DEF Heard, Well, Failed
  <2> QED BY <2>2, <2>5, <2>6 DEF PoolInv
<1>3. ASSUME NEW t \in Pool!Tasks, Pool!Serve(t) PROVE PoolInv'
  <2>1. PICK code \in {200, 503} :
          task' = [task EXCEPT ![t].answer = code, ![t].served = IF code = 200 THEN @ + 1 ELSE @,
                               ![t].phase = "answered"]
    BY <1>3 DEF Pool!Serve
  <2> DEFINE served == IF code = 200 THEN task[t].served + 1 ELSE task[t].served
             k == Served(task[t], code)
  <2>2. Kept(batch[t], k) /\ k.phase = "answered"
    BY <1>3, <1>b, ServeKept DEF Pool!Serve
  <2>3. k = [task[t] EXCEPT !.answer = code, !.served = served, !.phase = "answered"]
    BY DEF Served
  <2>4. task' = [task EXCEPT ![t].answer = code, ![t].served = served, ![t].phase = "answered"]
    BY <2>1
  <2> HIDE DEF served, k
  <2>5. task' = [task EXCEPT ![t] = k]
    <3> DEFINE r == [task[t] EXCEPT !.answer = code]
               q == [r EXCEPT !.served = served]
               first == [task EXCEPT ![t] = r]
               second == [task EXCEPT ![t] = q]
    <3>1. [task EXCEPT ![t].answer = code] = first
      OBVIOUS
    <3>2. task' = [[first EXCEPT ![t].served = served] EXCEPT ![t].phase = "answered"]
      BY <2>4, <3>1
    <3>3. k = [q EXCEPT !.phase = "answered"]
      BY <2>3
    <3>4. q = [r EXCEPT !.served = served]
      OBVIOUS
    <3>5. t \in DOMAIN task
      BY <1>b
    <3> HIDE DEF r, q
    <3>6. first[t] = r /\ second[t] = q
      BY <3>5
    <3>7. [first EXCEPT ![t].served = served] = second
      BY <3>4, <3>6
    <3>8. task' = [second EXCEPT ![t] = k]
      BY <3>2, <3>3, <3>6, <3>7
    <3> QED BY <3>8
  <2> QED BY <1>3, <2>2, <2>5, StageStep DEF Pool!Serve
<1>4. ASSUME NEW t \in Pool!Tasks, Pool!Lose(t) PROVE PoolInv'
  <2> DEFINE k == Lost(task[t])
  <2>2. Kept(batch[t], k) /\ k.phase = "answered"
    BY <1>4, <1>b, LoseKept DEF Pool!Lose
  <2>3. task' = [task EXCEPT ![t] = k]
    BY <1>b, <1>4 DEF Pool!Lose, Lost
  <2> HIDE DEF k
  <2> QED BY <1>4, <2>2, <2>3, StageStep DEF Pool!Lose
<1>5. ASSUME NEW t \in Pool!Tasks, Pool!EndAttempt(t) PROVE PoolInv'
  <2> DEFINE o == Result(batch[t], task[t])
  <2>0. Pool!Attempts(t) = Limit(batch[t]) /\ task[t].phase = "answered"
    BY <1>5 DEF Pool!EndAttempt, Pool!Attempts, Limit
  <2>1. CASE ~o.ok /\ task[t].attempt < Limit(batch[t])
    <3> DEFINE k == Asleep(task[t])
    <3>1. Kept(batch[t], k) /\ k.phase = "sleeping"
      BY <1>b, <2>0, <2>1, SleepKept
    <3>2. task' = [task EXCEPT ![t] = k] /\ UNCHANGED <<batch, index, worker, results, caller>>
      BY <1>b, <1>5, <2>0, <2>1 DEF Pool!EndAttempt, Result, Asleep
    <3> HIDE DEF k
    <3> QED BY <2>0, <3>1, <3>2, StageStep
  <2>2. CASE ~(~o.ok /\ task[t].attempt < Limit(batch[t]))
    <3> DEFINE k == Over(batch[t], task[t])
    <3>1. Kept(batch[t], k) /\ k.phase = "over" /\ k.outcome = o
      BY <1>b, <2>0, <2>2, EndKept
    <3>2. task' = [task EXCEPT ![t] = k] /\ UNCHANGED <<batch, index>>
          /\ IF o.ok
             THEN results' = [results EXCEPT ![t] = o] /\ UNCHANGED <<worker, caller>>
             ELSE /\ worker' = [w \in Pool!Workers |-> IF worker[w] = t THEN Pool!Gone ELSE worker[w]]
                  /\ caller' = IF caller = "waiting" THEN "rejected" ELSE caller
                  /\ UNCHANGED results
      BY <1>b, <1>5, <2>0, <2>2 DEF Pool!EndAttempt, Result, Over
    <3> HIDE DEF k, o
    <3> QED BY <2>0, <3>1, <3>2, EndStep
  <2> QED BY <2>1, <2>2
<1>6. ASSUME NEW t \in Pool!Tasks, Pool!Retry(t) PROVE PoolInv'
  <2> DEFINE k == Tried(batch[t], task[t], task[t].attempt + 1)
  <2>1. Kept(batch[t], k) /\ k.phase \in {"answered", "calling"}
    BY <1>6, <1>b, AttemptKept DEF Pool!Retry
  <2>2. task' = [task EXCEPT ![t] = k]
    BY <1>6 DEF Pool!Retry, Pool!Attempted, Tried
  <2> HIDE DEF k
  <2> QED BY <1>6, <2>1, <2>2, StageStep DEF Pool!Retry
<1>7. CASE Pool!Resolve
  <2>0. Pool!Tasks' = Pool!Tasks /\ Pool!Workers' = Pool!Workers
    BY <1>7, <1>c DEF Pool!Resolve
  <2>1. caller = "waiting" /\ caller' = "resolved" /\ UNCHANGED <<batch, index, worker, task, results>>
        /\ \A w \in Pool!Workers : worker[w] = Pool!Gone
    BY <1>7 DEF Pool!Resolve
  <2>2. \A t \in Pool!Tasks : t <= index
    <3>1. Len(batch) \in Nat /\ Pool!Tasks = 1..Len(batch)
      BY <1>a, BatchNumbered DEF PoolTyped
    <3>2. PICK m \in {Concurrency, Len(batch)} : Pool!Workers = 1..m
      BY <1>a, BatchNumbered DEF PoolTyped
    <3>3. CASE Len(batch) = 0
      BY <3>1, <3>3
    <3>4. CASE Len(batch) # 0
      <4>1. 1 \in Pool!Workers
        BY <3>1, <3>2, <3>4 DEF Pool!OutgoingAssumption
      <4>2. index = Len(batch)
        BY <1>a, <2>1, <4>1 DEF Heard
      <4> QED BY <3>1, <4>2
    <3> QED BY <3>3, <3>4
  <2>3. ASSUME NEW t \in Pool!Tasks PROVE Well(t)
    <3>1. t \in Nat \ {0} /\ index \in Nat
      BY <1>a, BatchNumbered DEF PoolTyped
    <3>2. task[t].phase # "waiting"
      BY <1>a, <2>2, <3>1 DEF Attended
    <3>3. task[t].phase = "over"
      BY <1>a, <2>1, <3>1, <3>2 DEF Attended
    <3> QED BY <1>a, <2>1, <3>3 DEF Heard, Well, Failed
  <2>4. PoolTyped' /\ Attended'
    BY <1>a, <2>0, <2>1 DEF PoolTyped, Attended
  <2>5. Heard'
    BY <1>a, <2>0, <2>1, <2>3 DEF Heard, Well, Failed
  <2> QED BY <2>4, <2>5 DEF PoolInv
<1>8. CASE Pool!TimeOut
  <2>0. Pool!Tasks' = Pool!Tasks /\ Pool!Workers' = Pool!Workers
    BY <1>8, <1>c DEF Pool!TimeOut
  <2>1. PoolTyped' /\ Attended'
    BY <1>a, <1>8, <2>0 DEF PoolTyped, Attended, Pool!TimeOut
  <2>2. Heard'
    BY <1>a, <1>8, <2>0 DEF Heard, Well, Failed, Pool!TimeOut
  <2> QED BY <2>1, <2>2 DEF PoolInv
<1>9. CASE UNCHANGED Pool!vars
  <2>0. Pool!Tasks' = Pool!Tasks /\ Pool!Workers' = Pool!Workers
    BY <1>9, <1>c DEF Pool!vars
  <2>1. PoolTyped' /\ Attended'
    BY <1>a, <1>9, <2>0 DEF PoolTyped, Attended, Pool!vars
  <2>2. Heard'
    BY <1>a, <1>9, <2>0 DEF Heard, Well, Failed, Pool!vars
  <2> QED BY <2>1, <2>2 DEF PoolInv
<1>10. Pool!Finished => UNCHANGED Pool!vars
  BY DEF Pool!Finished
<1> QED BY <1>1, <1>2, <1>3, <1>4, <1>5, <1>6, <1>7, <1>8, <1>9, <1>10 DEF Pool!Next, Pool!Step

LEMMA PoolStarts == ASSUME Pool!OutgoingAssumption, Pool!Init PROVE PoolInv
<1>1. \A c : Kept(c, Pool!NotTaken)
  BY StartKept
<1>2. Pool!NotTaken.phase = "waiting"
  BY DEF Pool!NotTaken
<1>3. batch \in Batches /\ Len(batch) \in Nat /\ Pool!Tasks = 1..Len(batch) /\ index = 0
  BY BatchNumbered DEF Pool!Init
<1>4. \A t \in Pool!Tasks : task[t] = Pool!NotTaken
  BY DEF Pool!Init
<1>5. PoolTyped
  BY <1>1, <1>3, <1>4 DEF Pool!Init, PoolTyped
<1>6. Attended
  BY <1>2, <1>3, <1>4 DEF Pool!Init, Attended
<1>7. Heard
  BY <1>2, <1>4 DEF Pool!Init, Heard, Well, Failed
<1> QED BY <1>5, <1>6, <1>7 DEF PoolInv

\* What holds of every stage is what is promised of the retries.
LEMMA BoundedRetries == ASSUME Pool!OutgoingAssumption, PoolTyped PROVE Pool!RetriesBounded
<1>1. ASSUME NEW t \in Pool!Tasks
      PROVE  /\ task[t].attempt <= Pool!Attempts(t) /\ task[t].served <= Len(task[t].sent)
             /\ task[t].phase = "over" /\ task[t].outcome.ok /\ batch[t].by # "isAlive" =>
                  task[t].served \in 1..task[t].attempt
             /\ \A i \in DOMAIN task[t].sent : task[t].sent[i] = task[t].sent[1]
             /\ task[t].phase = "over" /\ ~task[t].outcome.ok => task[t].attempt = Pool!Attempts(t)
             /\ task[t].phase \in {"calling", "answered", "over"} /\ task[t].attempt > 0 =>
                  task[t].slept = DelayMs * (2 ^ (task[t].attempt - 1) - 1)
  <2> DEFINE k == task[t]
             c == batch[t]
             s == Pool!Sent(c)
  <2>1. Kept(c, k) /\ Pool!Attempts(t) = Limit(c)
    BY DEF PoolTyped, Pool!Attempts, Limit
  <2> HIDE DEF k, c, s
  <2>2. k.sent \in Seq({s}) /\ k.attempt \in 0..Limit(c) /\ Limit(c) \in Nat /\ k.served \in Nat
    BY <2>1 DEF Kept, Stage, Limit, Pool!OutgoingAssumption, s
  <2>3. k.attempt <= Limit(c) /\ k.served <= Len(k.sent)
    BY <2>1, <2>2 DEF Kept, Sends
  <2>4. k.phase = "over" /\ k.outcome.ok /\ c.by # "isAlive" => k.served \in 1..k.attempt
    BY <2>1, <2>2 DEF Kept, Sends, Ends
  <2>5. \A i \in DOMAIN k.sent : k.sent[i] = k.sent[1]
    <3>1. \A i \in 1..Len(k.sent) : k.sent[i] = s
      BY <2>2
    <3>2. DOMAIN k.sent = 1..Len(k.sent) /\ Len(k.sent) \in Nat
      BY <2>2
    <3>3. \A i \in 1..Len(k.sent) : 1 \in 1..Len(k.sent)
      BY <3>2
    <3> QED BY <3>1, <3>2, <3>3
  <2>6. k.phase = "over" /\ ~k.outcome.ok => k.attempt = Limit(c)
    BY <2>1 DEF Kept, Ends
  <2>7. k.phase \in {"calling", "answered", "over"} => k.slept = DelayMs * (2 ^ (k.attempt - 1) - 1)
    BY <2>1 DEF Kept, Delays
  <2> QED BY <2>1, <2>3, <2>4, <2>5, <2>6, <2>7 DEF k, c
<1> QED BY <1>1 DEF Pool!RetriesBounded

\* Every task that is under way has a worker of its own.
LEMMA FewAtOnce ==
  ASSUME Pool!OutgoingAssumption, PoolTyped, Attended
  PROVE  Cardinality({t \in Pool!Tasks : task[t].phase \notin {"waiting", "over"}}) <= Concurrency
<1> DEFINE busy == {t \in Pool!Tasks : task[t].phase \notin {"waiting", "over"}}
           held == [t \in busy |-> CHOOSE w \in Pool!Workers : worker[w] = t]
<1>1. ASSUME NEW t \in busy PROVE held[t] \in Pool!Workers /\ worker[held[t]] = t
  <2>1. \E w \in Pool!Workers : worker[w] = t
    BY DEF Attended
  <2> QED BY <2>1
<1>2. PICK m \in Nat : m <= Concurrency /\ Pool!Workers = 1..m
  BY BatchNumbered DEF PoolTyped
<1>3. IsFiniteSet(Pool!Workers) /\ Cardinality(Pool!Workers) = m
  BY <1>2, FS_Interval
<1>4. held \in [busy -> Pool!Workers]
  BY <1>1
<1> HIDE DEF busy, held
<1>5. held \in Injection(busy, Pool!Workers)
  BY <1>1, <1>4 DEF Injection, IsInjective
<1>6. IsFiniteSet(busy) /\ Cardinality(busy) <= Cardinality(Pool!Workers)
  BY <1>3, <1>5, FS_Injection DEF ExistsInjection
<1>7. Cardinality(busy) \in Nat /\ Concurrency \in Nat
  BY <1>6, FS_CardinalityType DEF Pool!OutgoingAssumption
<1> QED BY <1>2, <1>3, <1>6, <1>7 DEF busy

LEMMA PoolPromises ==
  ASSUME Pool!OutgoingAssumption, PoolInv PROVE Pool!PoolFaithful /\ Pool!RetriesBounded
<1>1. PoolTyped /\ Attended /\ Heard
  BY DEF PoolInv
<1>2. Pool!PoolFaithful
  <2>1. caller = "resolved" => \A t \in Pool!Tasks : results[t] = task[t].outcome /\ results[t].ok
    BY <1>1 DEF Heard, Well
  <2>2. caller = "rejected" => \E t \in Pool!Tasks : task[t].phase = "over" /\ ~task[t].outcome.ok
    BY <1>1 DEF Heard, Failed
  <2>3. \A t \in Pool!Tasks : (task[t].phase = "waiting") <=> (t > index)
    BY <1>1 DEF Attended
  <2>4. \A w, v \in Pool!Workers : worker[w] = worker[v] => w = v \/ worker[w] \in {0, Pool!Gone}
    BY <1>1 DEF Attended
  <2>5. Pool!Cardinality({t \in Pool!Tasks : task[t].phase \notin {"waiting", "over"}}) <= Concurrency
    <3>1. \A S : Pool!Cardinality(S) = Cardinality(S)
      BY DEF Pool!Cardinality, Cardinality
    <3> QED BY <1>1, <3>1, FewAtOnce
  <2> QED BY <2>1, <2>2, <2>3, <2>4, <2>5 DEF Pool!PoolFaithful
<1> QED BY <1>1, <1>2, BoundedRetries

\* parallelLimit and retry: never more calls at once than workers were asked for, no task
\* taken twice, every result in its place when the pool is resolved, a reason when it is
\* rejected; no more attempts than asked for, and delays that double.
THEOREM PoolBounded ==
  ASSUME Pool!OutgoingAssumption
  PROVE  Pool!Spec => [](Pool!PoolFaithful /\ Pool!RetriesBounded)
<1>1. Pool!Init => PoolInv
  BY PoolStarts
<1>2. PoolInv /\ [Pool!Next]_(Pool!vars) => PoolInv'
  BY PoolStep
<1>3. PoolInv => Pool!PoolFaithful /\ Pool!RetriesBounded
  BY PoolPromises
<1> QED BY <1>1, <1>2, <1>3, PTL DEF Pool!Spec

------------------------------------------------------------------------------
(* RedisCache: the cache *)


\* What programs ask for, and the commands this leads to.
AskedFor == UNION {UNION {{p[c][i] : i \in DOMAIN p[c]} : c \in Processes} : p \in CachePrograms}
Written == UNION {{r.commands[i] : i \in DOMAIN r.commands} : r \in AskedFor}
Sent == Written \cup [op : {"delAll"}, key : {x.key : x \in Written}, arg : SUBSET CacheKeys, ttl : {0}]
Texts == {"ok", "none", "error", "null", "number", "string"}
Told == Texts \cup {"element", "numeral"}
CacheReplies == [text : Told, n : Int, key : {x.key : x \in Written}]
Methods == {r.method : r \in AskedFor} \cup {"none"}

\* A call has nothing in hand before it is asked, a pipeline has an answer to each command that
\* was carried out, and any other call that is over has carried one out.
CallHeld(r) ==
  /\ r.method = "none" => r = Cache!Idle
  /\ r.method \in Cache!Pipelined =>
       r.carried = Len(r.answers) /\ \A i \in DOMAIN r.commands : r.commands[i].op \in Cache!OfOneKey
  /\ r.method \notin Cache!Pipelined \cup {"none"} /\ r.commands = <<>> => r.carried >= 1

CacheCalls ==
  /\ program \in [Processes -> Seq(AskedFor)]
  /\ asked \in [Processes -> [method : Methods, commands : Seq(Sent), answers : Seq(CacheReplies),
                              carried : Nat, mixed : BOOLEAN]]
  /\ outcomes \in [Processes -> Seq([method : Methods, outcome : {"done", "failed", "threw"}, answers : Seq(CacheReplies),
                                     carried : Nat, mixed : BOOLEAN])]
  /\ \A c \in Processes : CallHeld(asked[c])
  /\ Cache!Reported

\* A list is never empty; what the queue of a key is when there is none.
Queue(entry) == IF entry.kind = "list" THEN entry.content ELSE <<>>
In(n, list) == \E i \in DOMAIN list : list[i] = n
Unrepeated(list) == \A i, k \in DOMAIN list : list[i] = list[k] => i = k

EntryHeld(entry, n) ==
  /\ entry.kind = "string" => Cache!IsString(entry.content)
  /\ entry.kind = "none" => entry.content = <<>>
  /\ entry.kind = "list" => entry.content \in Seq(1..n)
  /\ Unrepeated(Queue(entry))

\* A counter never expires, and counts.
CounterHeld(k) ==
  /\ expires[k] = 0
  /\ keys[k].kind = "none" \/ (keys[k].kind = "string" /\ keys[k].content.text = "numeral")

CacheEntries ==
  /\ cacheTime \in Nat /\ pushed \in Nat /\ counters \subseteq CacheKeys
  /\ expires \in [CacheKeys -> Nat]
  /\ keys = [k \in CacheKeys |-> keys[k]]
  /\ \A k \in CacheKeys : EntryHeld(keys[k], pushed)
  /\ \A k, l \in CacheKeys : \A n \in Nat : In(n, Queue(keys[k])) /\ In(n, Queue(keys[l])) => k = l
  /\ \A k \in counters : CounterHeld(k)
  /\ Cache!Vanishes

\* The answers that calls were given, those in hand (0) and those returned.
Given(c, j) == IF j = 0 THEN asked[c].answers ELSE outcomes[c][j].answers
Place(c, j, i) == c \in Processes /\ j \in 0..Len(outcomes[c]) /\ i \in DOMAIN Given(c, j)
GivenAt(c, j, i) == Given(c, j)[i]

\* An element that was handed out is in no queue, and a number that was given is not to come.
Spent(a) ==
  /\ a.text = "element" => a.n \in 1..pushed /\ \A k \in CacheKeys : ~In(a.n, Queue(keys[k]))
  /\ a.text = "numeral" /\ a.key \in counters =>
       keys[a.key].kind = "string" /\ a.n <= keys[a.key].content.n
Apart(a, b) ==
  a.text = b.text =>
    /\ a.text = "element" => a.n # b.n
    /\ a.text = "numeral" /\ a.key = b.key /\ a.key \in counters => a.n # b.n

CacheAnswers ==
  /\ \A c, j, i : Place(c, j, i) => Spent(GivenAt(c, j, i))
  /\ \A c, j, i, d, l, m : Place(c, j, i) /\ Place(d, l, m) /\ <<c, j, i>> # <<d, l, m>> =>
       Apart(GivenAt(c, j, i), GivenAt(d, l, m))

\* Callbacks are on channels that the connection has subscribed to.
CacheChannels ==
  /\ subscribed \subseteq Channels
  /\ callbacks \in Seq([of : Processes, channels : SUBSET Channels, cut : BOOLEAN, missed : BOOLEAN])
  /\ \A i \in DOMAIN callbacks :
       ~callbacks[i].cut => callbacks[i].channels \subseteq subscribed /\ ~callbacks[i].missed

CacheInv == CacheCalls /\ CacheEntries /\ CacheAnswers /\ CacheChannels

LEMMA SequenceOf ==
  ASSUME NEW S, NEW s, Cache!IsSequence(s), \A i \in DOMAIN s : s[i] \in S PROVE s \in Seq(S)
<1>1. Len(s) \in Nat /\ s = [i \in 1..Len(s) |-> s[i]]
  BY DEF Cache!IsSequence
<1>2. DOMAIN s = 1..Len(s)
  BY <1>1
<1>3. s \in [1..Len(s) -> S]
  BY <1>1, <1>2
<1> QED BY <1>1, <1>3

LEMMA CacheMade ==
  ASSUME Cache!CacheAssumption
  PROVE  /\ CachePrograms \subseteq [Processes -> Seq(AskedFor)]
         /\ \A r \in AskedFor : Cache!CanBeAsked(r) /\ r.commands \in Seq(Written)
         /\ \A x \in Written : Cache!WellMade(x)
<1>1. ASSUME NEW r \in AskedFor PROVE Cache!CanBeAsked(r)
  <2>1. PICK p \in CachePrograms, c \in Processes : \E i \in DOMAIN p[c] : r = p[c][i]
    BY DEF AskedFor
  <2> QED BY <2>1 DEF Cache!CacheAssumption
<1>2. ASSUME NEW r \in AskedFor PROVE r.commands \in Seq(Written)
  <2>1. Cache!IsSequence(r.commands)
    BY <1>1 DEF Cache!CanBeAsked
  <2>2. \A i \in DOMAIN r.commands : r.commands[i] \in Written
    BY DEF Written
  <2> QED BY <2>1, <2>2, SequenceOf
<1>3. ASSUME NEW x \in Written PROVE Cache!WellMade(x)
  <2>1. PICK r \in AskedFor : \E i \in DOMAIN r.commands : x = r.commands[i]
    BY DEF Written
  <2> QED BY <1>1, <2>1 DEF Cache!CanBeAsked
<1>4. ASSUME NEW p \in CachePrograms PROVE p \in [Processes -> Seq(AskedFor)]
  <2>1. ASSUME NEW c \in Processes PROVE p[c] \in Seq(AskedFor)
    <3>1. Cache!IsSequence(p[c])
      BY DEF Cache!CacheAssumption
    <3>2. \A i \in DOMAIN p[c] : p[c][i] \in AskedFor
      BY DEF AskedFor
    <3> QED BY <3>1, <3>2, SequenceOf
  <2>2. p = [c \in Processes |-> p[c]]
    BY DEF Cache!CacheAssumption
  <2> QED BY <2>1, <2>2
<1> QED BY <1>1, <1>2, <1>3, <1>4

------------------------------------------------------------------------------
Pushes == {"lpush", "rpush"}
Elements(x) == IF x.op \in Pushes THEN pushed + 1 ELSE pushed

\* What a command x about one key makes of its entry e: nothing comes into a queue but what is
\* pushed, and what is handed out was in it and is no more; a number that is told is the
\* one that is left.
EffectRight(x, e, r) ==
  /\ EntryHeld(r.entry, Elements(x))
  /\ \A n \in Nat : In(n, Queue(r.entry)) => In(n, Queue(e)) \/ (n = pushed + 1 /\ x.op \in Pushes)
  /\ r.answer.text \in Told /\ r.answer.n \in Int
  /\ r.answer.text = "element" =>
       r.answer.n \in 1..pushed /\ In(r.answer.n, Queue(e)) /\ ~In(r.answer.n, Queue(r.entry))
  /\ r.answer.text = "numeral" =>
       /\ x.op = "incr" /\ r.entry = Cache!Holding("string", Cache!Numeral(r.answer.n))
       /\ \/ e.kind = "none"
          \/ e.kind = "string" /\ r.answer.n = e.content.n + x.arg

\* A list with fewer elements, or none.
LEMMA Fewer ==
  ASSUME NEW n \in Nat, NEW m \in Nat, n <= m, NEW list \in Seq(1..n) PROVE list \in Seq(1..m)
OBVIOUS

LEMMA EntryGrows ==
  ASSUME NEW e, NEW n \in Nat, NEW m \in Nat, n <= m, EntryHeld(e, n) PROVE EntryHeld(e, m)
BY Fewer DEF EntryHeld

LEMMA PlainEffect ==
  ASSUME NEW x, NEW e, pushed \in Nat, EntryHeld(e, pushed), NEW entry, NEW text \in Texts,
         \/ entry = e \/ entry = Cache!Missing
         \/ entry.kind \in {"hash", "set", "zset"}
  PROVE  EffectRight(x, e, Cache!Result(entry, text))
<1>1. Cache!Result(entry, text).entry = entry /\ Cache!Result(entry, text).answer = [text |-> text, n |-> 0]
  BY DEF Cache!Result, Cache!Str
<1>2. EntryHeld(entry, pushed)
  BY DEF EntryHeld, Cache!Missing, Cache!Holding, Queue, Unrepeated
<1>3. Elements(x) \in Nat /\ pushed <= Elements(x)
  BY DEF Elements
<1>4. Queue(entry) = Queue(e) \/ Queue(entry) = <<>>
  BY DEF Queue, Cache!Missing, Cache!Holding
<1>5. \A n \in Nat : In(n, Queue(entry)) => In(n, Queue(e))
  BY <1>4 DEF In
<1>6. text \in Told /\ text # "element" /\ text # "numeral"
  BY DEF Texts, Told
<1> QED BY <1>1, <1>2, <1>3, <1>5, <1>6, EntryGrows DEF EffectRight

LEMMA SetEffectRight ==
  ASSUME NEW x, NEW e, pushed \in Nat, EntryHeld(e, pushed), x.op = "set", Cache!IsString(x.arg.str)
  PROVE  EffectRight(x, e, Cache!Effect(x, e))
<1>1. Cache!Effect(x, e) = [entry |-> [kind |-> "string", content |-> x.arg.str],
                            answer |-> [text |-> "ok", n |-> 0]]
  BY DEF Cache!Effect, Cache!Result, Cache!Str, Cache!Holding, Cache!Serialize
<1> DEFINE r == Cache!Effect(x, e)
<1>2. Queue(r.entry) = <<>> /\ r.entry.kind = "string" /\ Cache!IsString(r.entry.content)
  BY <1>1 DEF Queue
<1>3. EntryHeld(r.entry, Elements(x))
  BY <1>2 DEF EntryHeld, Unrepeated
<1>4. r.answer.text \in Told /\ r.answer.n \in Int /\ r.answer.text = "ok"
  BY <1>1 DEF Told, Texts
<1> HIDE DEF r
<1> QED BY <1>2, <1>3, <1>4 DEF EffectRight, In, r

LEMMA CountingRight ==
  ASSUME NEW x, NEW e, pushed \in Nat, EntryHeld(e, pushed), x.op = "incr", x.arg \in Int
  PROVE  /\ EffectRight(x, e, Cache!Effect(x, e))
         /\ e.kind = "none" \/ (e.kind = "string" /\ e.content.text = "numeral") =>
              Cache!Effect(x, e).answer.text = "numeral"
<1> DEFINE r == Cache!Effect(x, e)
<1>1. Cache!KindOf("incr") = "string"
  BY DEF Cache!KindOf, Cache!Hashes, Cache!Lists, Cache!Sets, Cache!SortedSets
<1>2. r = IF e.kind \notin {"none", "string"} THEN Cache!WrongType(e) ELSE Cache!Added(e, x.arg)
  BY <1>1 DEF Cache!Effect
<1>3. ASSUME NEW n \in Int, r = Cache!Counted(e, n),
             e.kind = "none" \/ (e.kind = "string" /\ n = e.content.n + x.arg)
      PROVE  EffectRight(x, e, r) /\ r.answer.text = "numeral"
  <2>1. /\ r.entry = [kind |-> "string", content |-> [text |-> "numeral", n |-> n]]
        /\ r.answer = [text |-> "numeral", n |-> n]
    BY <1>3 DEF Cache!Counted, Cache!Holding, Cache!Numeral, Cache!Str
  <2>2. Queue(r.entry) = <<>> /\ r.entry.kind = "string" /\ Cache!IsString(r.entry.content)
    BY <2>1 DEF Queue, Cache!IsString, Cache!Str
  <2>3. EntryHeld(r.entry, Elements(x))
    BY <2>2 DEF EntryHeld, Unrepeated
  <2>4. r.answer.text \in Told /\ r.answer.n \in Int /\ r.answer.text = "numeral" /\ r.answer.n = n
    BY <2>1 DEF Told, Texts
  <2>5. r.entry = Cache!Holding("string", Cache!Numeral(r.answer.n))
    BY <2>1 DEF Cache!Holding, Cache!Numeral, Cache!Str
  <2> HIDE DEF r
  <2> QED BY <1>3, <2>2, <2>3, <2>4, <2>5 DEF EffectRight, In
<1>4. CASE e.kind = "none"
  <2>1. r = Cache!Counted(e, x.arg)
    BY <1>2, <1>4 DEF Cache!Added
  <2> QED BY <1>3, <1>4, <2>1
<1>5. CASE e.kind = "string" /\ e.content.text = "numeral"
  <2>1. r = Cache!Counted(e, e.content.n + x.arg)
    BY <1>2, <1>5 DEF Cache!Added
  <2>2. e.content.n \in Int
    BY <1>5 DEF EntryHeld, Cache!IsString
  <2> QED BY <1>3, <1>5, <2>1, <2>2
<1>6. CASE e.kind # "none" /\ ~(e.kind = "string" /\ e.content.text = "numeral")
  <2>1. r = Cache!Result(e, "error")
    BY <1>2, <1>6 DEF Cache!Added, Cache!WrongType
  <2>2. EffectRight(x, e, r)
    BY <2>1, PlainEffect DEF Texts
  <2> QED BY <1>6, <2>2
<1> QED BY <1>4, <1>5, <1>6

\* The operations of a queue: an element more, at one end or the other.
LEMMA OneMoreInFront ==
  ASSUME NEW n \in Nat, NEW f, NEW g, NEW v, DOMAIN f = 1..n, DOMAIN g = 1..(n + 1), g[1] = v,
         \A i \in 1..n : g[i + 1] = f[i]
  PROVE  /\ \A m : In(m, g) <=> In(m, f) \/ m = v
         /\ Unrepeated(g) <=> Unrepeated(f) /\ ~In(v, f)
<1>1. ASSUME NEW i \in 1..n PROVE i + 1 \in 1..(n + 1) /\ i + 1 # 1 /\ g[i + 1] = f[i] /\ i \in Int
  OBVIOUS
<1>2. ASSUME NEW i \in 1..(n + 1), i # 1 PROVE i - 1 \in 1..n /\ g[i] = f[i - 1] /\ i \in Int
  <2>1. i - 1 \in 1..n /\ (i - 1) + 1 = i
    BY <1>2
  <2> QED BY <2>1
<1>3. 1 \in DOMAIN g
  OBVIOUS
<1>4. ASSUME NEW m PROVE In(m, g) <=> In(m, f) \/ m = v
  <2>1. ASSUME In(m, g) PROVE In(m, f) \/ m = v
    <3>1. PICK i \in DOMAIN g : g[i] = m
      BY <2>1 DEF In
    <3> QED BY <1>2, <3>1 DEF In
  <2>2. ASSUME In(m, f) PROVE In(m, g)
    <3>1. PICK i \in DOMAIN f : f[i] = m
      BY <2>2 DEF In
    <3> QED BY <1>1, <3>1 DEF In
  <2> QED BY <1>3, <2>1, <2>2 DEF In
<1>5. ASSUME Unrepeated(g) PROVE Unrepeated(f) /\ ~In(v, f)
  <2>1. ASSUME NEW i \in DOMAIN f, NEW k \in DOMAIN f, f[i] = f[k] PROVE i = k
    <3>1. i + 1 = k + 1
      BY <1>1, <1>5, <2>1 DEF Unrepeated
    <3> QED BY <1>1, <3>1
  <2>2. ASSUME NEW i \in DOMAIN f PROVE f[i] # v
    BY <1>1, <1>3, <1>5 DEF Unrepeated
  <2> QED BY <2>1, <2>2 DEF Unrepeated, In
<1>6. ASSUME Unrepeated(f), ~In(v, f) PROVE Unrepeated(g)
  <2> SUFFICES ASSUME NEW i \in DOMAIN g, NEW k \in DOMAIN g, g[i] = g[k] PROVE i = k
    BY DEF Unrepeated
  <2>1. ASSUME NEW l \in DOMAIN g, l # 1 PROVE g[l] # v
    <3>1. l - 1 \in DOMAIN f /\ g[l] = f[l - 1]
      BY <1>2, <2>1
    <3> QED BY <1>6, <3>1 DEF In
  <2>2. CASE i = 1 \/ k = 1
    BY <2>1, <2>2
  <2>3. CASE i # 1 /\ k # 1
    <3>1. i - 1 \in DOMAIN f /\ k - 1 \in DOMAIN f /\ f[i - 1] = f[k - 1]
      BY <1>2, <2>3
    <3>2. i - 1 = k - 1
      BY <1>6, <3>1 DEF Unrepeated
    <3> QED BY <1>2, <2>3, <3>2
  <2> QED BY <2>2, <2>3
<1> QED BY <1>4, <1>5, <1>6

LEMMA OneMoreBehind ==
  ASSUME NEW n \in Nat, NEW f, NEW g, NEW v, DOMAIN f = 1..n, DOMAIN g = 1..(n + 1), g[n + 1] = v,
         \A i \in 1..n : g[i] = f[i]
  PROVE  /\ \A m : In(m, g) <=> In(m, f) \/ m = v
         /\ Unrepeated(g) <=> Unrepeated(f) /\ ~In(v, f)
<1>1. ASSUME NEW i \in 1..n PROVE i \in 1..(n + 1) /\ i # n + 1 /\ g[i] = f[i] /\ i \in Int
  OBVIOUS
<1>2. ASSUME NEW i \in 1..(n + 1), i # n + 1 PROVE i \in 1..n /\ g[i] = f[i] /\ i \in Int
  BY <1>2
<1>3. n + 1 \in DOMAIN g
  OBVIOUS
<1>4. ASSUME NEW m PROVE In(m, g) <=> In(m, f) \/ m = v
  <2>1. ASSUME In(m, g) PROVE In(m, f) \/ m = v
    <3>1. PICK i \in DOMAIN g : g[i] = m
      BY <2>1 DEF In
    <3> QED BY <1>2, <3>1 DEF In
  <2>2. ASSUME In(m, f) PROVE In(m, g)
    <3>1. PICK i \in DOMAIN f : f[i] = m
      BY <2>2 DEF In
    <3> QED BY <1>1, <3>1 DEF In
  <2> QED BY <1>3, <2>1, <2>2 DEF In
<1>5. ASSUME Unrepeated(g) PROVE Unrepeated(f) /\ ~In(v, f)
  <2>1. ASSUME NEW i \in DOMAIN f, NEW k \in DOMAIN f, f[i] = f[k] PROVE i = k
    <3>1. i = k
      BY <1>1, <1>5, <2>1 DEF Unrepeated
    <3> QED BY <1>1, <3>1
  <2>2. ASSUME NEW i \in DOMAIN f PROVE f[i] # v
    BY <1>1, <1>3, <1>5 DEF Unrepeated
  <2> QED BY <2>1, <2>2 DEF Unrepeated, In
<1>6. ASSUME Unrepeated(f), ~In(v, f) PROVE Unrepeated(g)
  <2> SUFFICES ASSUME NEW i \in DOMAIN g, NEW k \in DOMAIN g, g[i] = g[k] PROVE i = k
    BY DEF Unrepeated
  <2>1. ASSUME NEW l \in DOMAIN g, l # n + 1 PROVE g[l] # v
    BY <1>2, <1>6, <2>1 DEF In
  <2>2. CASE i = n + 1 \/ k = n + 1
    BY <2>1, <2>2
  <2>3. CASE i # n + 1 /\ k # n + 1
    <3>1. i \in DOMAIN f /\ k \in DOMAIN f /\ f[i] = f[k]
      BY <1>2, <2>3
    <3>2. i = k
      BY <1>6, <3>1 DEF Unrepeated
    <3> QED BY <1>2, <2>3, <3>2
  <2> QED BY <2>2, <2>3
<1> QED BY <1>4, <1>5, <1>6

LEMMA PushedInto ==
  ASSUME pushed \in Nat, NEW list \in Seq(1..pushed), Unrepeated(list), NEW more,
         more = <<pushed + 1>> \o list \/ more = Append(list, pushed + 1)
  PROVE  /\ more \in Seq(1..(pushed + 1)) /\ Unrepeated(more)
         /\ \A n \in Nat : In(n, more) => In(n, list) \/ n = pushed + 1
<1> DEFINE late == pushed + 1
<1>1. list \in Seq(1..late) /\ late \in 1..late /\ <<late>> \in Seq(1..late)
  BY Fewer
<1>2. ~In(late, list)
  BY DEF In
<1>3. CASE more = Append(list, late)
  <2>1. /\ more \in Seq(1..late) /\ DOMAIN more = 1..(Len(list) + 1) /\ DOMAIN list = 1..Len(list)
        /\ more[Len(list) + 1] = late /\ \A i \in 1..Len(list) : more[i] = list[i]
    BY <1>1, <1>3
  <2>2. Len(list) \in Nat
    OBVIOUS
  <2> HIDE DEF late
  <2> QED BY <1>2, <2>1, <2>2, OneMoreBehind DEF late
<1>4. CASE more = <<late>> \o list
  <2>1. /\ more \in Seq(1..late) /\ DOMAIN more = 1..(Len(list) + 1) /\ DOMAIN list = 1..Len(list)
        /\ more[1] = late /\ \A i \in 1..Len(list) : more[i + 1] = list[i]
    BY <1>1, <1>4
  <2>2. Len(list) \in Nat
    OBVIOUS
  <2> HIDE DEF late
  <2> QED BY <1>2, <2>1, <2>2, OneMoreInFront DEF late
<1> QED BY <1>3, <1>4

LEMMA PoppedFrom ==
  ASSUME pushed \in Nat, NEW list \in Seq(1..pushed), Unrepeated(list), list # <<>>, NEW rest, NEW n,
         (rest = Tail(list) /\ n = Head(list)) \/ (rest = SubSeq(list, 1, Len(list) - 1) /\ n = list[Len(list)])
  PROVE  /\ rest \in Seq(1..pushed) /\ Unrepeated(rest)
         /\ n \in 1..pushed /\ In(n, list) /\ ~In(n, rest)
         /\ \A m \in Nat : In(m, rest) => In(m, list)
<1> DEFINE l == Len(list) - 1
<1>1. l \in Nat /\ DOMAIN list = 1..(l + 1)
  OBVIOUS
<1>2. CASE rest = Tail(list) /\ n = Head(list)
  <2>1. /\ rest \in Seq(1..pushed) /\ DOMAIN rest = 1..l /\ list[1] = n /\ n \in 1..pushed
        /\ \A i \in 1..l : list[i + 1] = rest[i]
    BY <1>2
  <2> HIDE DEF l
  <2>2. /\ \A m : In(m, list) <=> In(m, rest) \/ m = n
        /\ Unrepeated(list) <=> Unrepeated(rest) /\ ~In(n, rest)
    <3>1. l \in Nat /\ DOMAIN rest = 1..l /\ DOMAIN list = 1..(l + 1) /\ list[1] = n
      BY <1>1, <2>1
    <3>2. \A i \in 1..l : list[i + 1] = rest[i]
      BY <2>1
    <3> QED BY ONLY <3>1, <3>2, OneMoreInFront
  <2> QED BY <2>1, <2>2
<1>3. CASE rest = SubSeq(list, 1, Len(list) - 1) /\ n = list[Len(list)]
  <2>1. /\ rest \in Seq(1..pushed) /\ DOMAIN rest = 1..l /\ list[l + 1] = n /\ n \in 1..pushed
        /\ \A i \in 1..l : list[i] = rest[i]
    BY <1>3
  <2> HIDE DEF l
  <2>2. /\ \A m : In(m, list) <=> In(m, rest) \/ m = n
        /\ Unrepeated(list) <=> Unrepeated(rest) /\ ~In(n, rest)
    BY <1>1, <2>1, OneMoreBehind
  <2> QED BY <2>1, <2>2
<1> QED BY <1>2, <1>3

LEMMA ListRight ==
  ASSUME NEW x, NEW e, pushed \in Nat, EntryHeld(e, pushed), e.kind \in {"none", "list"},
         x.op \in {"lpush", "rpush", "lpop", "rpop"}
  PROVE  EffectRight(x, e, Cache!ListEffect(x, e))
<1> DEFINE list == e.content
           r == Cache!ListEffect(x, e)
<1>1. list \in Seq(1..pushed) /\ Unrepeated(list) /\ Queue(e) = list
  <2>1. <<>> \in Seq(1..pushed) /\ Unrepeated(<<>>)
    BY DEF Unrepeated
  <2> QED BY <2>1 DEF EntryHeld, Queue
<1>2. CASE x.op \in Pushes
  <2>1. PICK more : /\ more = <<pushed + 1>> \o list \/ more = Append(list, pushed + 1)
                    /\ r = Cache!Result(Cache!Holding("list", more), "ok")
    BY <1>2 DEF Cache!ListEffect, Pushes
  <2>2. r.entry = [kind |-> "list", content |-> more] /\ r.answer = [text |-> "ok", n |-> 0]
    BY <2>1 DEF Cache!Result, Cache!Holding, Cache!Str
  <2>3. /\ more \in Seq(1..(pushed + 1)) /\ Unrepeated(more)
        /\ \A n \in Nat : In(n, more) => In(n, list) \/ n = pushed + 1
    BY <1>1, <2>1, PushedInto
  <2>4. Queue(r.entry) = more /\ EntryHeld(r.entry, pushed + 1) /\ Elements(x) = pushed + 1
    BY <1>2, <2>2, <2>3 DEF Queue, EntryHeld, Elements
  <2>5. r.answer.text = "ok" /\ r.answer.n = 0 /\ "ok" \in Told
    BY <2>2 DEF Told, Texts
  <2> HIDE DEF r, list
  <2>6. EffectRight(x, e, r)
    BY <1>1, <1>2, <2>3, <2>4, <2>5 DEF EffectRight
  <2> QED BY <2>6 DEF r
<1>3. CASE x.op \in {"lpop", "rpop"} /\ list = <<>>
  <2>1. r = Cache!Result(e, "none")
    BY <1>3 DEF Cache!ListEffect, Cache!Found
  <2> QED BY <2>1, PlainEffect DEF Texts
<1>4. CASE x.op \in {"lpop", "rpop"} /\ list # <<>>
  <2>1. PICK rest, n : /\ \/ rest = Tail(list) /\ n = Head(list)
                          \/ rest = SubSeq(list, 1, Len(list) - 1) /\ n = list[Len(list)]
                       /\ r = Cache!Popped(rest, n)
    BY <1>4 DEF Cache!ListEffect, Cache!Front, Cache!Last
  <2>2. /\ rest \in Seq(1..pushed) /\ Unrepeated(rest)
        /\ n \in 1..pushed /\ In(n, list) /\ ~In(n, rest)
        /\ \A m \in Nat : In(m, rest) => In(m, list)
    BY <1>1, <1>4, <2>1, PoppedFrom
  <2>3. r.entry = Cache!Rest("list", rest, <<>>) /\ r.answer = [text |-> "element", n |-> n]
    BY <2>1 DEF Cache!Popped, Cache!Str
  <2>4. Queue(r.entry) = rest
    BY <2>3 DEF Queue, Cache!Rest, Cache!Missing, Cache!Holding
  <2>5. EntryHeld(r.entry, pushed)
    BY <2>2, <2>3, <2>4 DEF EntryHeld, Cache!Rest, Cache!Missing, Cache!Holding
  <2>6. Elements(x) = pushed
    BY <1>4 DEF Elements, Pushes
  <2>7. r.answer.text = "element" /\ r.answer.n = n /\ n \in Int /\ "element" \in Told
    BY <2>2, <2>3 DEF Told
  <2> HIDE DEF r, list
  <2>8. EffectRight(x, e, r)
    BY <1>1, <2>2, <2>4, <2>5, <2>6, <2>7 DEF EffectRight
  <2> QED BY <2>8 DEF r
<1> QED BY <1>2, <1>3, <1>4 DEF Pushes

\* What is found of a key, or left of a hash or a set.
LEMMA FoundRight ==
  ASSUME NEW x, NEW e, pushed \in Nat, EntryHeld(e, pushed), NEW entry, NEW is,
         \/ entry = e \/ entry = Cache!Missing
         \/ entry.kind \in {"hash", "set", "zset"}
  PROVE  EffectRight(x, e, Cache!Found(entry, is))
<1>1. Cache!Found(entry, is) = Cache!Result(entry, IF is THEN "ok" ELSE "none")
  BY DEF Cache!Found
<1>2. (IF is THEN "ok" ELSE "none") \in Texts
  BY DEF Texts
<1> QED BY <1>1, <1>2, PlainEffect

LEMMA RestKind ==
  ASSUME NEW kind \in {"hash", "set", "zset"}, NEW v, NEW empty
  PROVE  /\ Cache!Rest(kind, v, empty) = Cache!Missing \/ Cache!Rest(kind, v, empty).kind \in {"hash", "set", "zset"}
         /\ Cache!Holding(kind, v).kind \in {"hash", "set", "zset"}
BY DEF Cache!Rest, Cache!Holding

LEMMA EffectsRight ==
  ASSUME NEW x, Cache!WellMade(x), x.op \in Cache!OfOneKey, NEW e, pushed \in Nat, EntryHeld(e, pushed)
  PROVE  EffectRight(x, e, Cache!Effect(x, e))
<1> DEFINE kind == Cache!KindOf(x.op)
           r == Cache!Effect(x, e)
<1>1. CASE x.op = "set"
  BY <1>1, SetEffectRight DEF Cache!WellMade
<1>2. CASE x.op = "incr"
  BY <1>2, CountingRight DEF Cache!WellMade
<1>3. CASE x.op = "del" \/ (x.op = "expire" /\ x.ttl <= 0)
  <2>1. r = Cache!Found(Cache!Missing, e.kind # "none")
    BY <1>3 DEF Cache!Effect
  <2> QED BY <2>1, FoundRight
<1>4. CASE x.op \in {"exists", "expire", "ttl"} /\ ~(x.op = "expire" /\ x.ttl <= 0)
  <2>1. r = Cache!Found(e, e.kind # "none")
    BY <1>4 DEF Cache!Effect
  <2> QED BY <2>1, FoundRight
<1>5. CASE x.op \notin {"set", "del", "exists", "expire", "ttl"} /\ e.kind \notin {"none", kind}
  <2>1. r = Cache!Result(e, "error")
    BY <1>5 DEF Cache!Effect, Cache!WrongType
  <2> QED BY <2>1, PlainEffect DEF Texts
<1>6. CASE x.op = "get" /\ e.kind \in {"none", kind}
  <2>1. r = Cache!Result(e, Cache!Read(e))
    BY <1>6 DEF Cache!Effect
  <2>2. Cache!Read(e) \in Texts
    BY DEF Cache!Read, Texts
  <2> QED BY <2>1, <2>2, PlainEffect
<1>7. CASE x.op \in Cache!Whole /\ e.kind \in {"none", kind}
  <2>1. r = Cache!Found(e, e.kind # "none")
    BY <1>7 DEF Cache!Effect, Cache!Whole
  <2> QED BY <2>1, FoundRight
<1>8. CASE x.op \in Cache!Hashes \ Cache!Whole /\ e.kind \in {"none", kind}
  <2>1. kind = "hash"
    BY <1>8 DEF Cache!KindOf
  <2>2. r = Cache!HashEffect(x, e)
    BY <1>8, <2>1 DEF Cache!Effect, Cache!Hashes
  <2>3. \/ \E v : r = Cache!Result(Cache!Holding("hash", v), "ok")
        \/ \E v, is : r = Cache!Found(Cache!Rest("hash", v, <<>>), is)
        \/ \E is : r = Cache!Found(e, is)
    BY <2>2 DEF Cache!HashEffect
  <2> QED BY <2>3, PlainEffect, FoundRight, RestKind DEF Texts
<1>9. CASE x.op \in Cache!Lists \ Cache!Whole /\ e.kind \in {"none", kind}
  <2>1. kind = "list" /\ x.op \in {"lpush", "rpush", "lpop", "rpop"}
    BY <1>9 DEF Cache!KindOf, Cache!Lists, Cache!Hashes, Cache!Whole
  <2>2. r = Cache!ListEffect(x, e)
    BY <1>9, <2>1 DEF Cache!Effect
  <2> QED BY <1>9, <2>1, <2>2, ListRight
<1>10. CASE x.op \in Cache!Sets \ Cache!Whole /\ e.kind \in {"none", kind}
  <2>1. kind = "set"
    BY <1>10 DEF Cache!KindOf, Cache!Lists, Cache!Hashes, Cache!Sets
  <2>2. r = Cache!SetEffect(x, e)
    BY <1>10, <2>1 DEF Cache!Effect, Cache!Sets
  <2>3. \/ \E v, is : r = Cache!Found(Cache!Holding("set", v), is)
        \/ \E v, is : r = Cache!Found(Cache!Rest("set", v, {}), is)
        \/ \E is : r = Cache!Found(e, is)
    BY <2>2 DEF Cache!SetEffect
  <2> QED BY <2>3, FoundRight, RestKind
<1>11. CASE x.op \in Cache!SortedSets \ Cache!Whole /\ e.kind \in {"none", kind}
  <2>1. kind = "zset"
    BY <1>11 DEF Cache!KindOf, Cache!Lists, Cache!Hashes, Cache!Sets, Cache!SortedSets
  <2>2. r = Cache!SortedEffect(x, e)
    BY <1>11, <2>1 DEF Cache!Effect, Cache!SortedSets
  <2>3. \/ \E v : r = Cache!Result(Cache!Holding("zset", v), "ok")
        \/ \E v, is : r = Cache!Found(Cache!Rest("zset", v, <<>>), is)
        \/ \E is : r = Cache!Found(e, is)
    BY <2>2 DEF Cache!SortedEffect
  <2> QED BY <2>3, PlainEffect, FoundRight, RestKind DEF Texts
<1> HIDE DEF kind, r
<1>12. x.op \in {"set", "get", "del", "exists", "expire", "ttl", "incr"} \cup Cache!Hashes \cup
                Cache!Lists \cup Cache!Sets \cup Cache!SortedSets
  BY DEF Cache!OfOneKey
<1>13. (kind = kind) /\ x.op \in Cache!Hashes \cup Cache!Lists \cup Cache!Sets \cup Cache!SortedSets =>
         x.op \notin {"set", "del", "exists", "expire", "ttl", "get"}
  BY DEF Cache!Hashes, Cache!Lists, Cache!Sets, Cache!SortedSets
<1> QED BY <1>1, <1>2, <1>3, <1>4, <1>5, <1>6, <1>7, <1>8, <1>9, <1>10, <1>11, <1>12, <1>13 DEF r

------------------------------------------------------------------------------
\* The answers that were given.
LEMMA GivenTyped ==
  ASSUME CacheCalls, NEW c, NEW j, NEW i, Place(c, j, i) PROVE GivenAt(c, j, i) \in CacheReplies
<1>1. ASSUME j = 0 PROVE Given(c, j) \in Seq(CacheReplies)
  BY <1>1 DEF CacheCalls, Place, Given
<1>2. ASSUME j # 0 PROVE Given(c, j) \in Seq(CacheReplies)
  <2>1. j \in 1..Len(outcomes[c]) /\ c \in Processes
    BY <1>2 DEF Place
  <2> DEFINE Endings == [method : Methods, outcome : {"done", "failed", "threw"}, answers : Seq(CacheReplies),
                      carried : Nat, mixed : BOOLEAN]
  <2>2. outcomes[c] \in Seq(Endings)
    BY <2>1 DEF CacheCalls
  <2> HIDE DEF Endings
  <2>3. outcomes[c][j] \in Endings
    BY <2>1, <2>2
  <2>4. outcomes[c][j].answers \in Seq(CacheReplies)
    BY <2>3 DEF Endings
  <2> QED BY <1>2, <2>4 DEF Given
<1> QED BY <1>1, <1>2 DEF Place, GivenAt

LEMMA PlainApart ==
  ASSUME NEW a, a.text \in Texts PROVE Spent(a) /\ \A b : Apart(a, b) /\ Apart(b, a)
BY DEF Apart, Spent, Texts

\* No call is given any more.
LEMMA SameGiven ==
  ASSUME CacheCalls, CacheAnswers, outcomes' = outcomes, counters' \subseteq counters,
         \A d \in Processes : asked'[d].answers = asked[d].answers,
         \A a \in CacheReplies : Spent(a) => Spent(a)'
  PROVE  CacheAnswers'
<1>1. \A d, j, i : (Place(d, j, i)' <=> Place(d, j, i)) /\ (Place(d, j, i) => GivenAt(d, j, i)' = GivenAt(d, j, i))
  BY DEF Place, GivenAt, Given
<1>2. ASSUME NEW d, NEW j, NEW i, Place(d, j, i)' PROVE Spent(GivenAt(d, j, i))'
  <2>1. PICK a \in CacheReplies : a = GivenAt(d, j, i) /\ Spent(a)
    BY <1>1, <1>2, GivenTyped DEF CacheAnswers
  <2>2. Spent(a)'
    BY <2>1
  <2> QED BY <1>1, <1>2, <2>1, <2>2 DEF Spent
<1>3. ASSUME NEW d, NEW j, NEW i, NEW e, NEW l, NEW m, Place(d, j, i)', Place(e, l, m)',
             <<d, j, i>> # <<e, l, m>>
      PROVE  Apart(GivenAt(d, j, i), GivenAt(e, l, m))'
  <2>1. Apart(GivenAt(d, j, i), GivenAt(e, l, m))
    BY <1>1, <1>3 DEF CacheAnswers
  <2> QED BY <1>1, <1>3, <2>1 DEF Apart
<1> QED BY <1>2, <1>3 DEF CacheAnswers

\* A call is given more: each new answer is apart from all that were spent, and a call is given
\* several at once only if none of them is a number or an element.
LEMMA MoreGiven ==
  ASSUME CacheCalls, CacheAnswers, outcomes' = outcomes, counters' \subseteq counters,
         NEW c \in Processes, NEW more \in Seq(CacheReplies),
         \A d \in Processes : asked'[d].answers = IF d = c THEN asked[c].answers \o more ELSE asked[d].answers,
         \A a \in CacheReplies : Spent(a) => Spent(a)',
         \A i \in DOMAIN more : Spent(more[i])',
         \A i \in DOMAIN more : \A a \in CacheReplies : Spent(a) => Apart(a, more[i])',
         Len(more) # 1 => \A i \in DOMAIN more : more[i].text \in Texts
  PROVE  CacheAnswers'
<1> DEFINE old == asked[c].answers
           n == Len(old)
           New(d, j, i) == d = c /\ j = 0 /\ i > n
<1>1. old \in Seq(CacheReplies) /\ n \in Nat
  BY DEF CacheCalls
<1>2. /\ DOMAIN (old \o more) = 1..(n + Len(more)) /\ DOMAIN old = 1..n /\ DOMAIN more = 1..Len(more)
      /\ \A i \in 1..n : (old \o more)[i] = old[i]
      /\ \A i \in (n + 1)..(n + Len(more)) : (old \o more)[i] = more[i - n]
      /\ Len(more) \in Nat
  BY <1>1
<1> HIDE DEF n
<1>3. ASSUME NEW d, NEW j, NEW i, Place(d, j, i)', ~New(d, j, i)
      PROVE  Place(d, j, i) /\ GivenAt(d, j, i)' = GivenAt(d, j, i)
  <2>1. CASE d = c /\ j = 0
    <3>1. Given(d, j)' = old \o more /\ Given(d, j) = old
      BY <2>1 DEF Given
    <3>2. i \in 1..n
      BY <1>1, <1>2, <1>3, <2>1, <3>1 DEF Place
    <3> QED BY <1>2, <1>3, <3>1, <3>2 DEF Place, GivenAt
  <2>2. CASE d # c \/ j # 0
    BY <1>3, <2>2 DEF Place, GivenAt, Given
  <2> QED BY <2>1, <2>2
<1>4. ASSUME NEW d, NEW j, NEW i, Place(d, j, i)', New(d, j, i)
      PROVE  i - n \in DOMAIN more /\ GivenAt(d, j, i)' = more[i - n] /\ i \in Int
  <2>1. Given(d, j)' = old \o more
    BY <1>4 DEF Given
  <2>2. i \in (n + 1)..(n + Len(more))
    BY <1>1, <1>2, <1>4, <2>1 DEF Place
  <2> QED BY <1>1, <1>2, <2>1, <2>2 DEF GivenAt
<1>5. ASSUME NEW d, NEW j, NEW i, Place(d, j, i)
      PROVE  Spent(GivenAt(d, j, i)) /\ GivenAt(d, j, i) \in CacheReplies
  BY <1>5, GivenTyped DEF CacheAnswers
<1> HIDE DEF New, old
<1>6. ASSUME NEW d, NEW j, NEW i, Place(d, j, i)'
      PROVE  Spent(GivenAt(d, j, i))'
  <2>1. CASE New(d, j, i)
    <3>1. PICK a : a = more[i - n] /\ Spent(a)'
      BY <1>4, <1>6, <2>1
    <3> QED BY <1>4, <1>6, <2>1, <3>1 DEF Spent
  <2>2. CASE ~New(d, j, i)
    <3>1. PICK a : a = GivenAt(d, j, i) /\ Spent(a)'
      BY <1>3, <1>5, <1>6, <2>2
    <3> QED BY <1>3, <1>6, <2>2, <3>1 DEF Spent
  <2> QED BY <2>1, <2>2
<1>7. ASSUME NEW d, NEW j, NEW i, NEW e, NEW l, NEW m, Place(d, j, i)', Place(e, l, m)',
             <<d, j, i>> # <<e, l, m>>
      PROVE  Apart(GivenAt(d, j, i), GivenAt(e, l, m))'
  <2>0. PICK a, b : a = GivenAt(d, j, i)' /\ b = GivenAt(e, l, m)'
    OBVIOUS
  <2>1. CASE ~New(d, j, i) /\ ~New(e, l, m)
    <3>1. Apart(GivenAt(d, j, i), GivenAt(e, l, m))
      BY <1>3, <1>7, <2>1 DEF CacheAnswers
    <3> QED BY <1>3, <1>7, <2>1, <3>1 DEF Apart
  <2>2. CASE New(d, j, i) /\ ~New(e, l, m)
    <3>1. Apart(b, a)'
      BY <1>3, <1>4, <1>5, <1>7, <2>0, <2>2
    <3> QED BY <2>0, <3>1 DEF Apart
  <2>3. CASE ~New(d, j, i) /\ New(e, l, m)
    <3>1. Apart(a, b)'
      BY <1>3, <1>4, <1>5, <1>7, <2>0, <2>3
    <3> QED BY <2>0, <3>1 DEF Apart
  <2>4. CASE New(d, j, i) /\ New(e, l, m)
    <3>1. i - n \in DOMAIN more /\ m - n \in DOMAIN more /\ i # m /\ i \in Int /\ m \in Int
      BY <1>4, <1>7, <2>4 DEF New
    <3>2. Len(more) # 1
      <4>1. i - n \in 1..Len(more) /\ m - n \in 1..Len(more) /\ n \in Int
        BY <1>1, <1>2, <3>1
      <4> QED BY ONLY <3>1, <4>1
    <3>3. a.text \in Texts
      BY <1>4, <1>7, <2>0, <2>4, <3>1, <3>2
    <3> QED BY <2>0, <3>3 DEF Apart, Texts
  <2> QED BY <2>1, <2>2, <2>3, <2>4
<1> QED BY <1>6, <1>7 DEF CacheAnswers

\* A call returns: its answers go from its hand to the outcomes.
LEMMA Returned ==
  ASSUME CacheCalls, CacheAnswers, NEW c \in Processes, NEW outcome, Cache!Return(c, outcome)
  PROVE  CacheAnswers'
<1> DEFINE n == Len(outcomes[c])
           From(d, j) == IF d = c /\ j = n + 1 THEN 0 ELSE j
<1>1. /\ UNCHANGED <<keys, counters, pushed>>
      /\ asked' = [asked EXCEPT ![c] = Cache!Idle]
      /\ \E r : r.answers = asked[c].answers /\ outcomes' = [outcomes EXCEPT ![c] = Append(@, r)]
  BY DEF Cache!Return
<1>2. PICK r : r.answers = asked[c].answers /\ outcomes' = [outcomes EXCEPT ![c] = Append(@, r)]
  BY <1>1
<1>3. PICK S : outcomes[c] \in Seq(S) /\ r \in S
  <2>1. PICK T : outcomes[c] \in Seq(T)
    BY DEF CacheCalls
  <2>2. outcomes[c] \in Seq(T \cup {r})
    BY <2>1
  <2> QED BY <2>2
<1>4. /\ \A d \in Processes : outcomes'[d] = IF d = c THEN Append(outcomes[c], r) ELSE outcomes[d]
      /\ \A d \in Processes : asked'[d] = IF d = c THEN Cache!Idle ELSE asked[d]
  <2>1. DOMAIN asked = Processes /\ DOMAIN outcomes = Processes
    BY DEF CacheCalls
  <2> QED BY <1>1, <1>2, <2>1
<1>5. /\ n \in Nat /\ Len(outcomes'[c]) = n + 1 /\ outcomes'[c][n + 1] = r
      /\ \A j \in 1..n : outcomes'[c][j] = outcomes[c][j]
  <2>1. outcomes'[c] = Append(outcomes[c], r)
    BY <1>4
  <2> QED BY ONLY <1>3, <2>1
<1> HIDE DEF n
<1>6. ASSUME NEW d, NEW j, NEW i, Place(d, j, i)'
      PROVE  /\ Place(d, From(d, j), i) /\ GivenAt(d, j, i)' = GivenAt(d, From(d, j), i)
             /\ j \in Int /\ (d = c => j # 0)
  <2>1. CASE d = c
    <3>1. j # 0
      BY <1>4, <1>6, <2>1 DEF Place, Given, Cache!Idle
    <3>2. j \in 1..(n + 1)
      BY <1>5, <1>6, <2>1, <3>1 DEF Place
    <3>3. Given(c, j)' = Given(c, From(c, j))
      BY <1>2, <1>5, <3>2 DEF Given
    <3>4. From(c, j) \in 0..n
      BY <1>5, <3>2
    <3> QED BY <1>6, <2>1, <3>1, <3>2, <3>3, <3>4 DEF Place, GivenAt, n
  <2>2. CASE d # c
    <3>1. d \in Processes /\ outcomes'[d] = outcomes[d] /\ asked'[d] = asked[d] /\ From(d, j) = j
      BY <1>4, <1>6, <2>2 DEF Place
    <3>2. Given(d, j)' = Given(d, j) /\ j \in Int
      BY <1>6, <3>1 DEF Given, Place
    <3> QED BY <1>6, <2>2, <3>1, <3>2 DEF Place, GivenAt
  <2> QED BY <2>1, <2>2
<1>7. ASSUME NEW d, NEW j, NEW i, Place(d, j, i)' PROVE Spent(GivenAt(d, j, i))'
  <2>1. Spent(GivenAt(d, From(d, j), i))
    BY <1>6, <1>7 DEF CacheAnswers
  <2> HIDE DEF From
  <2> QED BY <1>1, <1>6, <1>7, <2>1 DEF Spent
<1>8. ASSUME NEW d, NEW j, NEW i, NEW e, NEW l, NEW m, Place(d, j, i)', Place(e, l, m)',
             <<d, j, i>> # <<e, l, m>>
      PROVE  Apart(GivenAt(d, j, i), GivenAt(e, l, m))'
  <2>1. <<d, From(d, j), i>> # <<e, From(e, l), m>>
    BY <1>5, <1>6, <1>8
  <2>2. Apart(GivenAt(d, From(d, j), i), GivenAt(e, From(e, l), m))
    BY <1>6, <1>8, <2>1 DEF CacheAnswers
  <2> HIDE DEF From
  <2> QED BY <1>1, <1>6, <1>8, <2>2 DEF Apart
<1> QED BY <1>7, <1>8 DEF CacheAnswers
------------------------------------------------------------------------------
\* The command that is carried out next.
LEMMA CommandNext ==
  ASSUME Cache!CacheAssumption, CacheCalls, NEW c \in Processes, asked[c].commands # <<>>
  PROVE  /\ Head(asked[c].commands) \in Sent /\ Tail(asked[c].commands) \in Seq(Sent)
         /\ Head(asked[c].commands).key \in {x.key : x \in Written}
         /\ Head(asked[c].commands).op # "delAll" => Cache!WellMade(Head(asked[c].commands))
         /\ Head(asked[c].commands).op = "delAll" => Head(asked[c].commands).arg \subseteq CacheKeys
         /\ asked[c].method \in Cache!Pipelined => Head(asked[c].commands).op \in Cache!OfOneKey
         /\ asked[c].method # "none"
<1> DEFINE all == asked[c].commands
<1>1. all \in Seq(Sent) /\ CallHeld(asked[c])
  BY DEF CacheCalls
<1>2. asked[c].method # "none"
  BY <1>1 DEF CallHeld, Cache!Idle
<1>3. asked[c].method \in Cache!Pipelined => \A i \in DOMAIN all : all[i].op \in Cache!OfOneKey
  BY <1>1 DEF CallHeld
<1> HIDE DEF all
<1>4. Head(all) \in Sent /\ Tail(all) \in Seq(Sent) /\ Head(all) = all[1] /\ 1 \in DOMAIN all
  BY <1>1 DEF all
<1>5. ASSUME NEW x \in Sent
      PROVE  /\ x.key \in {y.key : y \in Written}
             /\ x.op # "delAll" => Cache!WellMade(x)
             /\ x.op = "delAll" => x.arg \subseteq CacheKeys
  <2>1. CASE x \in Written
    <3>1. Cache!WellMade(x)
      BY <2>1, CacheMade
    <3>2. x.op # "delAll"
      BY <3>1 DEF Cache!WellMade, Cache!OfOneKey, Cache!Hashes, Cache!Lists, Cache!Sets, Cache!SortedSets
    <3> QED BY <2>1, <3>1, <3>2
  <2>2. CASE x \notin Written
    BY <2>2 DEF Sent
  <2> QED BY <2>1, <2>2
<1> QED BY <1>2, <1>3, <1>4, <1>5 DEF all

LEMMA BothLong ==
  ASSUME NEW S, NEW a \in Seq(S), NEW b \in Seq(S) PROVE Len(a \o b) = Len(a) + Len(b)
<1>1. a \o b \in Seq(S) /\ Len(a) \in Nat /\ Len(b) \in Nat
  OBVIOUS
<1>2. DOMAIN (a \o b) = 1..(Len(a) + Len(b))
  OBVIOUS
<1>3. PICK c \in Seq(S) : c = a \o b
  BY <1>1
<1>4. DOMAIN c = 1..Len(c) /\ Len(c) \in Nat
  OBVIOUS
<1>5. Len(c) = Len(a) + Len(b)
  BY ONLY <1>1, <1>2, <1>3, <1>4
<1> QED BY <1>3, <1>5

\* What Carry makes of the calls.
LEMMA Carried ==
  ASSUME CacheCalls, NEW c \in Processes, asked[c].method # "none",
         NEW commands \in Seq(Sent), NEW more \in Seq(CacheReplies), Cache!Carry(c, commands, more),
         UNCHANGED <<program, outcomes>>,
         asked[c].method \in Cache!Pipelined => Len(more) = 1 /\ commands = Tail(asked[c].commands),
         asked[c].method \in Cache!Pipelined => asked[c].commands # <<>>
  PROVE  /\ CacheCalls'
         /\ \A d \in Processes :
              asked'[d].answers = IF d = c THEN asked[c].answers \o more ELSE asked[d].answers
<1> DEFINE Calls == [method : Methods, commands : Seq(Sent), answers : Seq(CacheReplies),
                     carried : Nat, mixed : BOOLEAN]
<1>1. asked \in [Processes -> Calls]
  BY DEF CacheCalls
<1>2. asked[c] \in Calls
  BY <1>1
<1>3. Cache!Mixed(c) \in [Processes -> Calls] /\ Cache!Mixed(c)[c] = asked[c]
  <2>1. ASSUME NEW d \in Processes PROVE [asked[d] EXCEPT !.mixed = TRUE] \in Calls /\ asked[d] \in Calls
    BY <1>1
  <2> HIDE DEF Calls
  <2> QED BY <2>1 DEF Cache!Mixed
<1>4. PICK mine \in Calls :
        /\ mine.method = asked[c].method /\ mine.commands = commands
        /\ mine.carried = asked[c].carried + 1 /\ mine.answers = asked[c].answers \o more
        /\ asked' = [Cache!Mixed(c) EXCEPT ![c] = mine]
  <2> DEFINE m == [asked[c] EXCEPT !.commands = commands, !.carried = @ + 1, !.answers = @ \o more]
  <2>1. asked' = [Cache!Mixed(c) EXCEPT ![c] = m]
    <3> HIDE DEF Calls
    <3> QED BY <1>3 DEF Cache!Carry
  <2>2. asked[c].answers \o more \in Seq(CacheReplies) /\ asked[c].carried + 1 \in Nat
    BY <1>2
  <2>3. m \in Calls
    BY <1>2, <2>2
  <2>4. /\ m.method = asked[c].method /\ m.commands = commands
        /\ m.carried = asked[c].carried + 1 /\ m.answers = asked[c].answers \o more
    BY <1>2
  <2> HIDE DEF m
  <2> QED BY <2>1, <2>3, <2>4
<1>5. asked' \in [Processes -> Calls]
  <2> HIDE DEF Calls
  <2> QED BY <1>3, <1>4
<1>6. ASSUME NEW d \in Processes, d # c
      PROVE  /\ asked'[d].method = asked[d].method /\ asked'[d].commands = asked[d].commands
             /\ asked'[d].answers = asked[d].answers /\ asked'[d].carried = asked[d].carried
             /\ asked'[d] = asked[d] \/ asked[d].carried > 0
  <2>1. asked'[d] = Cache!Mixed(c)[d]
    BY <1>3, <1>4, <1>6
  <2>2. asked[d] \in Calls
    BY <1>1
  <2> QED BY <1>6, <2>1, <2>2 DEF Cache!Mixed
<1>7. asked'[c] = mine
  <2> HIDE DEF Calls
  <2> QED BY <1>3, <1>4
<1>8. ASSUME NEW d \in Processes PROVE CallHeld(asked'[d])
  <2>0. CallHeld(asked[d]) /\ asked[d] \in Calls
    BY <1>1 DEF CacheCalls
  <2>1. CASE d # c
    <3>1. CASE asked'[d] = asked[d]
      BY <2>0, <3>1
    <3>2. CASE asked[d].carried > 0
      <4>1. asked[d].method # "none"
        BY <2>0, <3>2 DEF CallHeld, Cache!Idle
      <4> QED BY <1>6, <2>0, <2>1, <4>1 DEF CallHeld
    <3> QED BY <1>6, <2>1, <3>1, <3>2
  <2>2. CASE d = c
    <3>1. mine.method # "none" /\ mine.carried >= 1
      BY <1>2, <1>4
    <3>2. ASSUME mine.method \in Cache!Pipelined
          PROVE  /\ mine.carried = Len(mine.answers)
                 /\ \A i \in DOMAIN mine.commands : mine.commands[i].op \in Cache!OfOneKey
      <4>1. /\ asked[c].carried = Len(asked[c].answers)
            /\ \A i \in DOMAIN asked[c].commands : asked[c].commands[i].op \in Cache!OfOneKey
        BY <1>4, <2>0, <2>2, <3>2 DEF CallHeld
      <4>2. Len(asked[c].answers \o more) = Len(asked[c].answers) + 1
        <5>1. PICK old \in Seq(CacheReplies) : old = asked[c].answers
          BY <1>2
        <5>2. Len(more) = 1
          BY <1>4, <3>2
        <5>3. Len(old \o more) = Len(old) + Len(more)
          BY BothLong
        <5> QED BY <5>1, <5>2, <5>3
      <4>3. ASSUME NEW i \in DOMAIN mine.commands PROVE mine.commands[i].op \in Cache!OfOneKey
        <5>1. mine.commands = Tail(asked[c].commands) /\ asked[c].commands # <<>>
          BY <1>4, <3>2
        <5>2. asked[c].commands \in Seq(Sent)
          BY <1>2
        <5>3. i + 1 \in DOMAIN asked[c].commands /\ mine.commands[i] = asked[c].commands[i + 1]
          BY <5>1, <5>2
        <5> QED BY <4>1, <5>3
      <4> QED BY <1>4, <4>1, <4>2, <4>3
    <3> QED BY <1>7, <2>2, <3>1, <3>2 DEF CallHeld
  <2> QED BY <2>1, <2>2
<1>9. Cache!Reported'
  <2>1. Cache!Reported /\ outcomes' = outcomes
    BY DEF CacheCalls
  <2> QED BY <2>1 DEF Cache!Reported
<1>10. CacheCalls'
  BY <1>5, <1>8, <1>9 DEF CacheCalls
<1> QED BY <1>4, <1>6, <1>7, <1>10

------------------------------------------------------------------------------
\* Keys are removed, or expire.
LEMMA KeysRemoved ==
  ASSUME Cache!CacheAssumption, CacheEntries, NEW gone,
         keys' = [k \in CacheKeys |-> IF k \in gone THEN Cache!Missing ELSE keys[k]],
         expires' = [k \in CacheKeys |-> IF k \in gone THEN 0 ELSE expires[k]],
         counters' = counters \ gone, pushed' = pushed, cacheTime' \in Nat,
         \A k \in Cached \ gone : keys[k].kind # "none" => expires[k] > cacheTime' /\ cacheTime' >= cacheTime
  PROVE  CacheEntries' /\ \A a \in CacheReplies : Spent(a) => Spent(a)'
<1>1. Cached \subseteq CacheKeys /\ Default \in Nat
  BY DEF Cache!CacheAssumption
<1>2. \A k \in CacheKeys : keys'[k] = IF k \in gone THEN Cache!Missing ELSE keys[k]
  OBVIOUS
<1>3. ASSUME NEW k \in CacheKeys
      PROVE  /\ EntryHeld(keys'[k], pushed)
             /\ Queue(keys'[k]) = Queue(keys[k]) \/ Queue(keys'[k]) = <<>>
             /\ \A n \in Nat : In(n, Queue(keys'[k])) => In(n, Queue(keys[k]))
  <2>1. EntryHeld(Cache!Missing, pushed) /\ Queue(Cache!Missing) = <<>>
    BY DEF EntryHeld, Cache!Missing, Cache!Holding, Queue, Unrepeated
  <2>2. EntryHeld(keys[k], pushed)
    BY DEF CacheEntries
  <2>3. Queue(keys'[k]) = Queue(keys[k]) \/ Queue(keys'[k]) = <<>>
    BY <1>2, <2>1
  <2>4. \A n : ~In(n, <<>>)
    BY DEF In
  <2> QED BY <1>2, <2>1, <2>2, <2>3, <2>4
<1>4. Cache!Vanishes'
  <2> SUFFICES ASSUME NEW k \in Cached, keys'[k].kind # "none"
               PROVE  expires'[k] \in (cacheTime' + 1)..(cacheTime' + Default)
    BY DEF Cache!Vanishes
  <2>1. k \notin gone /\ keys[k].kind # "none" /\ expires'[k] = expires[k]
    BY <1>1, <1>2 DEF Cache!Missing, Cache!Holding
  <2>2. expires[k] \in (cacheTime + 1)..(cacheTime + Default)
    BY <2>1 DEF CacheEntries, Cache!Vanishes
  <2>3. expires[k] > cacheTime' /\ cacheTime' >= cacheTime
    BY <2>1
  <2>4. cacheTime \in Nat
    BY DEF CacheEntries
  <2> QED BY <1>1, <2>1, <2>2, <2>3, <2>4
<1>5. \A k \in counters' : CounterHeld(k)'
  BY <1>2 DEF CacheEntries, CounterHeld
<1>6. expires' \in [CacheKeys -> Nat] /\ counters' \subseteq CacheKeys /\ pushed' \in Nat
  BY DEF CacheEntries
<1>7. \A k, l \in CacheKeys : \A n \in Nat : In(n, Queue(keys'[k])) /\ In(n, Queue(keys'[l])) => k = l
  BY <1>3 DEF CacheEntries
<1>8. CacheEntries'
  <2>1. keys' = [k \in CacheKeys |-> keys'[k]]
    BY <1>2
  <2> QED BY <1>3, <1>4, <1>5, <1>6, <1>7, <2>1 DEF CacheEntries
<1>9. ASSUME NEW a \in CacheReplies, Spent(a) PROVE Spent(a)'
  <2>1. ASSUME a.text = "element" PROVE a.n \in 1..pushed' /\ \A k \in CacheKeys : ~In(a.n, Queue(keys'[k]))
    <3>1. a.n \in 1..pushed /\ a.n \in Nat
      BY <1>9, <2>1 DEF Spent, CacheEntries
    <3> QED BY <1>3, <1>9, <2>1, <3>1 DEF Spent
  <2>2. ASSUME a.text = "numeral", a.key \in counters'
        PROVE  keys'[a.key].kind = "string" /\ a.n <= keys'[a.key].content.n
    <3>1. a.key \in counters /\ a.key \notin gone /\ a.key \in CacheKeys
      BY <2>2 DEF CacheEntries
    <3> QED BY <1>2, <1>9, <2>2, <3>1 DEF Spent
  <2> QED BY <2>1, <2>2 DEF Spent
<1> QED BY <1>8, <1>9

\* What several commands of a call answer at once is no number and no element.
LEMMA SentClear ==
  ASSUME Cache!CacheAssumption, CacheInv, NEW c \in Processes, asked[c].commands # <<>>,
         NEW x, x = Head(asked[c].commands), Cache!Clear(c, x),
         UNCHANGED <<cacheTime, program, outcomes, subscribed, callbacks>>
  PROVE  CacheInv'
<1>1. /\ x \in Sent /\ Tail(asked[c].commands) \in Seq(Sent) /\ x.key \in {y.key : y \in Written}
      /\ asked[c].method \in Cache!Pipelined => x.op \in Cache!OfOneKey
      /\ asked[c].method # "none"
  BY CommandNext DEF CacheInv
<1>2. x.op \in {"delAll", "flushdb"}
  BY DEF Cache!Clear
<1>3. asked[c].method \notin Cache!Pipelined
  BY <1>1, <1>2 DEF Cache!OfOneKey, Cache!Hashes, Cache!Lists, Cache!Sets, Cache!SortedSets
<1>4. PICK more \in Seq(CacheReplies) :
        /\ Len(more) = 1 /\ more[1].text \in Texts
        /\ Cache!Carry(c, Tail(asked[c].commands), more)
  <2>1. Cache!Answer("ok", 0, x.key) \in CacheReplies /\ Cache!Answer("ok", 0, x.key).text \in Texts
    BY <1>1 DEF Cache!Answer, CacheReplies, Told, Texts
  <2>2. Cache!Carry(c, Tail(asked[c].commands), <<Cache!Answer("ok", 0, x.key)>>)
    BY DEF Cache!Clear
  <2> DEFINE one == <<Cache!Answer("ok", 0, x.key)>>
  <2>3. one \in Seq(CacheReplies) /\ Len(one) = 1 /\ one[1].text \in Texts
    BY <2>1
  <2> QED BY <2>2, <2>3
<1>5. PICK gone : gone = IF x.op = "delAll" THEN x.arg ELSE CacheKeys
  OBVIOUS
<1>6. /\ keys' = [k \in CacheKeys |-> IF k \in gone THEN Cache!Missing ELSE keys[k]]
      /\ expires' = [k \in CacheKeys |-> IF k \in gone THEN 0 ELSE expires[k]]
      /\ counters' = counters \ gone /\ pushed' = pushed
  BY <1>5 DEF Cache!Clear
<1>7. CacheEntries' /\ \A a \in CacheReplies : Spent(a) => Spent(a)'
  <2>1. cacheTime \in Nat /\ Default \in Nat /\ cacheTime' = cacheTime
    BY DEF CacheInv, CacheEntries, Cache!CacheAssumption
  <2>2. ASSUME NEW k \in Cached, keys[k].kind # "none" PROVE expires[k] > cacheTime
    <3>1. expires[k] \in (cacheTime + 1)..(cacheTime + Default)
      BY <2>2 DEF CacheInv, CacheEntries, Cache!Vanishes
    <3> QED BY ONLY <2>1, <3>1
  <2>3. /\ \A k \in Cached \ gone : keys[k].kind # "none" => expires[k] > cacheTime' /\ cacheTime' >= cacheTime
        /\ cacheTime' \in Nat /\ CacheEntries
    BY <2>1, <2>2 DEF CacheInv
  <2> QED BY ONLY Cache!CacheAssumption, <1>6, <2>3, KeysRemoved
<1>8. /\ CacheCalls'
      /\ \A d \in Processes :
           asked'[d].answers = IF d = c THEN asked[c].answers \o more ELSE asked[d].answers
  BY <1>1, <1>3, <1>4, Carried DEF CacheInv
<1>9. CacheAnswers'
  <2>1. \A i \in DOMAIN more : more[i].text \in Texts
    BY <1>4
  <2>2. \A i \in DOMAIN more : Spent(more[i])' /\ \A a \in CacheReplies : Spent(a) => Apart(a, more[i])'
    BY <2>1 DEF Spent, Apart, Texts
  <2> QED BY <1>4, <1>6, <1>7, <1>8, <2>1, <2>2, MoreGiven DEF CacheInv
<1>10. CacheChannels'
  BY DEF CacheInv, CacheChannels
<1> QED BY <1>7, <1>8, <1>9, <1>10 DEF CacheInv

\* A call gets answers, or goes on, and the keys are as they were.
LEMMA NothingChanged ==
  ASSUME CacheInv, NEW c \in Processes, asked[c].method \notin Cache!Pipelined \cup {"none"},
         NEW commands \in Seq(Sent), NEW more \in Seq(CacheReplies), Cache!Carry(c, commands, more),
         \A i \in DOMAIN more : more[i].text \in Texts,
         UNCHANGED <<cacheTime, keys, expires, program, outcomes, subscribed, callbacks, pushed, counters>>
  PROVE  CacheInv'
<1>1. /\ CacheCalls'
      /\ \A d \in Processes :
           asked'[d].answers = IF d = c THEN asked[c].answers \o more ELSE asked[d].answers
  BY Carried DEF CacheInv
<1>2. CacheEntries'
  BY DEF CacheInv, CacheEntries, CounterHeld, Cache!Vanishes
<1>3. \A a \in CacheReplies : Spent(a) => Spent(a)'
  BY DEF Spent
<1>4. \A i \in DOMAIN more : Spent(more[i])' /\ \A a \in CacheReplies : Spent(a) => Apart(a, more[i])'
  BY DEF Spent, Apart, Texts
<1>5. CacheAnswers'
  BY <1>1, <1>3, <1>4, MoreGiven DEF CacheInv
<1>6. CacheChannels'
  BY DEF CacheInv, CacheChannels
<1> QED BY <1>1, <1>2, <1>5, <1>6 DEF CacheInv

LEMMA SentFind ==
  ASSUME Cache!CacheAssumption, CacheInv, NEW c \in Processes, asked[c].commands # <<>>,
         NEW x, x = Head(asked[c].commands), Cache!Find(c, x),
         UNCHANGED <<cacheTime, program, outcomes, subscribed, callbacks>>
  PROVE  CacheInv'
<1>1. /\ x \in Sent /\ x.key \in {y.key : y \in Written} /\ x.op = "keys"
      /\ x.op # "delAll" => Cache!WellMade(x)
      /\ asked[c].method \in Cache!Pipelined => x.op \in Cache!OfOneKey
      /\ asked[c].method # "none"
  BY CommandNext DEF CacheInv, Cache!Find
<1>2. asked[c].method \notin Cache!Pipelined /\ x.arg \subseteq CacheKeys
  BY <1>1 DEF Cache!OfOneKey, Cache!Hashes, Cache!Lists, Cache!Sets, Cache!SortedSets, Cache!WellMade
<1>3. PICK commands \in Seq(Sent) : Cache!Carry(c, commands, <<>>)
  <2> DEFINE found == {k \in x.arg : keys[k].kind # "none"}
             next == IF found = {} THEN <<>> ELSE <<Cache!Command("delAll", x.key, found, 0)>>
  <2>1. Cache!Command("delAll", x.key, found, 0) \in Sent
    BY <1>1, <1>2 DEF Cache!Command, Sent
  <2>2. next \in Seq(Sent)
    BY <2>1
  <2>3. Cache!Carry(c, next, <<>>)
    BY DEF Cache!Find
  <2> HIDE DEF next
  <2> QED BY <2>2, <2>3
<1>4. PICK none \in Seq(CacheReplies) : none = <<>> /\ \A i \in DOMAIN none : none[i].text \in Texts
  <2>1. <<>> \in Seq(CacheReplies) /\ \A i : i \notin DOMAIN <<>>
    OBVIOUS
  <2> QED BY <2>1
<1>5. UNCHANGED <<keys, expires, pushed, counters>>
  BY DEF Cache!Find
<1> QED BY <1>1, <1>2, <1>3, <1>4, <1>5, NothingChanged

LEMMA SentReadMany ==
  ASSUME Cache!CacheAssumption, CacheInv, NEW c \in Processes, asked[c].commands # <<>>,
         NEW x, x = Head(asked[c].commands), Cache!ReadMany(c, x),
         UNCHANGED <<cacheTime, program, outcomes, subscribed, callbacks>>
  PROVE  CacheInv'
<1>1. /\ x \in Sent /\ x.key \in {y.key : y \in Written} /\ x.op = "mget"
      /\ Tail(asked[c].commands) \in Seq(Sent)
      /\ x.op # "delAll" => Cache!WellMade(x)
      /\ asked[c].method \in Cache!Pipelined => x.op \in Cache!OfOneKey
      /\ asked[c].method # "none"
  BY CommandNext DEF CacheInv, Cache!ReadMany
<1>2. asked[c].method \notin Cache!Pipelined /\ x.arg \in Seq(CacheKeys)
  BY <1>1 DEF Cache!OfOneKey, Cache!Hashes, Cache!Lists, Cache!Sets, Cache!SortedSets, Cache!WellMade
<1>3. PICK more \in Seq(CacheReplies) :
        /\ \A i \in DOMAIN more : more[i].text \in Texts
        /\ Cache!Carry(c, Tail(asked[c].commands), more)
  <2> DEFINE all == [i \in DOMAIN x.arg |-> Cache!Answer(Cache!Read(keys[x.arg[i]]), 0, x.key)]
  <2>1. ASSUME NEW text \in Texts
        PROVE  Cache!Answer(text, 0, x.key) \in CacheReplies /\ Cache!Answer(text, 0, x.key).text \in Texts
    BY <1>1 DEF Cache!Answer, CacheReplies, Told
  <2>2. \A e : Cache!Read(e) \in Texts
    BY DEF Cache!Read, Texts
  <2>3. DOMAIN x.arg = 1..Len(x.arg) /\ Len(x.arg) \in Nat
    BY <1>2
  <2>4. DOMAIN all = DOMAIN x.arg /\ \A i \in DOMAIN x.arg : all[i] \in CacheReplies /\ all[i].text \in Texts
    BY <2>1, <2>2
  <2>5. all \in Seq(CacheReplies)
    <3>1. all = [i \in 1..Len(x.arg) |-> all[i]]
      BY <2>3
    <3> HIDE DEF all
    <3>2. \A i \in 1..Len(x.arg) : all[i] \in CacheReplies
      BY <2>3, <2>4, <3>1
    <3> QED BY <2>3, <3>1, <3>2
  <2>6. Cache!Carry(c, Tail(asked[c].commands), all)
    BY DEF Cache!ReadMany
  <2> HIDE DEF all
  <2> QED BY <2>4, <2>5, <2>6
<1>4. UNCHANGED <<keys, expires, pushed, counters>>
  BY DEF Cache!ReadMany
<1> QED BY <1>1, <1>2, <1>3, <1>4, NothingChanged

------------------------------------------------------------------------------
\* What is in a queue was pushed.
LEMMA Queued ==
  ASSUME CacheEntries PROVE \A k \in CacheKeys, n \in Nat : In(n, Queue(keys[k])) => n \in 1..pushed
<1> SUFFICES ASSUME NEW k \in CacheKeys, NEW n \in Nat, In(n, Queue(keys[k])) PROVE n \in 1..pushed
  OBVIOUS
<1>1. EntryHeld(keys[k], pushed) /\ pushed \in Nat
  BY DEF CacheEntries
<1>2. keys[k].kind = "list" /\ Queue(keys[k]) = keys[k].content
  BY DEF Queue, In
<1>3. PICK list : list = Queue(keys[k]) /\ list \in Seq(1..pushed)
  BY <1>1, <1>2 DEF EntryHeld
<1>4. PICK i \in DOMAIN list : list[i] = n
  BY <1>3 DEF In
<1> QED BY ONLY <1>1, <1>3, <1>4

\* Commands about one key: the entries.
LEMMA SingleEntries ==
  ASSUME Cache!CacheAssumption, CacheEntries, NEW x, Cache!WellMade(x), x.op \in Cache!OfOneKey,
         NEW entry, NEW r, r = Cache!Effect(x, keys[x.key]), entry = r.entry,
         keys' = [keys EXCEPT ![x.key] = entry],
         expires' = [expires EXCEPT ![x.key] =
           IF entry.kind = "none" THEN 0
           ELSE IF x.op \in {"set", "expire"} THEN IF x.ttl > 0 THEN cacheTime + x.ttl ELSE 0
           ELSE @],
         pushed' = Elements(x), cacheTime' = cacheTime,
         counters' = IF x.op = "incr" /\ x.arg > 0 THEN counters ELSE counters \ {x.key}
  PROVE  CacheEntries'
<1> DEFINE k == x.key
<1>1. k \in CacheKeys /\ x.ttl \in Int /\ cacheTime \in Nat /\ pushed \in Nat /\ counters \subseteq CacheKeys
  BY DEF Cache!WellMade, CacheEntries
<1>2. EntryHeld(keys[k], pushed)
  BY <1>1 DEF CacheEntries
<1>3. EffectRight(x, keys[k], r)
  BY <1>1, <1>2, EffectsRight
<1>4. \A l \in CacheKeys : keys'[l] = IF l = k THEN entry ELSE keys[l]
  BY DEF CacheEntries
<1>5. expires \in [CacheKeys -> Nat]
  BY DEF CacheEntries
<1>6. \A l \in CacheKeys : l # k => expires'[l] = expires[l]
  BY <1>5
<1>7. expires'[k] = IF entry.kind = "none" THEN 0
                    ELSE IF x.op \in {"set", "expire"} THEN IF x.ttl > 0 THEN cacheTime + x.ttl ELSE 0
                    ELSE expires[k]
  BY <1>1, <1>5
<1>8. expires' \in [CacheKeys -> Nat]
  BY <1>1, <1>5
<1>9. Elements(x) \in Nat /\ pushed <= Elements(x) /\ pushed' = Elements(x)
  BY <1>1 DEF Elements
<1> HIDE DEF k
<1>10. ASSUME NEW l \in CacheKeys PROVE EntryHeld(keys'[l], pushed')
  <2>1. CASE l = k
    BY <1>3, <1>4, <1>9, <2>1 DEF EffectRight
  <2>2. CASE l # k
    <3>1. EntryHeld(keys[l], pushed)
      BY DEF CacheEntries
    <3> QED BY <1>1, <1>4, <1>9, <2>2, <3>1, EntryGrows
  <2> QED BY <2>1, <2>2
<1>11. \A l \in CacheKeys, n \in Nat : In(n, Queue(keys[l])) => n <= pushed
  BY <1>1, Queued
<1>12. ASSUME NEW l \in CacheKeys, NEW m \in CacheKeys, NEW n \in Nat,
              In(n, Queue(keys'[l])), In(n, Queue(keys'[m]))
       PROVE  l = m
  <2>1. ASSUME NEW o \in CacheKeys, In(n, Queue(keys'[o])), In(n, Queue(keys[o])) \/ o # k
        PROVE  In(n, Queue(keys[o]))
    BY <1>4, <2>1
  <2>2. In(n, Queue(entry)) => In(n, Queue(keys[k])) \/ n = pushed + 1
    BY <1>3 DEF EffectRight
  <2>3. CASE In(n, Queue(keys[l])) /\ In(n, Queue(keys[m]))
    BY <2>3 DEF CacheEntries
  <2>4. CASE l = k /\ m # k /\ ~In(n, Queue(keys[k]))
    <3>1. n = pushed + 1 /\ In(n, Queue(keys[m]))
      BY <1>4, <1>12, <2>2, <2>4
    <3>2. n <= pushed
      BY <1>11, <3>1
    <3> QED BY <1>1, <3>1, <3>2
  <2>5. CASE m = k /\ l # k /\ ~In(n, Queue(keys[k]))
    <3>1. n = pushed + 1 /\ In(n, Queue(keys[l]))
      BY <1>4, <1>12, <2>2, <2>5
    <3>2. n <= pushed
      BY <1>11, <3>1
    <3> QED BY <1>1, <3>1, <3>2
  <2> QED BY <1>12, <2>1, <2>3, <2>4, <2>5
<1>13. ASSUME NEW l \in counters' PROVE CounterHeld(l)'
  <2>1. l \in counters /\ CounterHeld(l) /\ l \in CacheKeys
    BY <1>1, <1>13 DEF CacheEntries
  <2>2. CASE l # k
    BY <1>4, <1>6, <2>1, <2>2 DEF CounterHeld
  <2>3. CASE l = k
    <3>1. x.op = "incr" /\ x.arg \in Int
      BY <1>13, <2>3 DEF k, Cache!WellMade
    <3>2. r.answer.text = "numeral"
      BY <1>1, <1>2, <2>1, <2>3, <3>1, CountingRight DEF CounterHeld, k
    <3>3. entry.kind = "string" /\ entry.content.text = "numeral"
      BY <1>3, <3>2 DEF EffectRight, Cache!Holding, Cache!Numeral, Cache!Str
    <3>4. expires'[k] = 0
      BY <1>7, <2>1, <2>3, <3>1, <3>3 DEF CounterHeld
    <3> QED BY <1>1, <1>4, <2>3, <3>3, <3>4 DEF CounterHeld
  <2> QED BY <2>2, <2>3
<1>14. ASSUME NEW l \in Cached, keys'[l].kind # "none"
       PROVE  expires'[l] \in (cacheTime + 1)..(cacheTime + Default)
  <2>0. l \in CacheKeys /\ Default \in Nat \ {0}
    BY DEF Cache!CacheAssumption
  <2>1. keys[l].kind # "none" => expires[l] \in (cacheTime + 1)..(cacheTime + Default)
    BY DEF CacheEntries, Cache!Vanishes
  <2>2. CASE l # k
    BY <1>4, <1>6, <1>14, <2>0, <2>1, <2>2
  <2>3. CASE l = k /\ x.op = "set" /\ x.ttl \in {Cache!Lifetime(ttl) : ttl \in 0..Default}
    <3>1. PICK ttl \in 0..Default : x.ttl = Cache!Lifetime(ttl)
      BY <2>3
    <3>2. x.ttl \in 1..Default
      BY <2>0, <3>1 DEF Cache!Lifetime
    <3>3. expires'[k] = cacheTime + x.ttl
      BY <1>4, <1>7, <1>14, <2>0, <2>3, <3>2
    <3> QED BY <1>1, <2>0, <2>3, <3>2, <3>3
  <2>4. CASE l = k /\ x.op \in Cache!Looks \cup {"del"}
    <3>1. entry.kind # "none"
      BY <1>4, <1>14, <2>0, <2>4
    <3>2. Cache!KindOf("get") = "string"
      BY DEF Cache!KindOf, Cache!Hashes, Cache!Lists, Cache!Sets, Cache!SortedSets
    <3>3. entry = keys[k]
      BY <2>4, <3>1, <3>2 DEF Cache!Effect, Cache!Looks, Cache!Found, Cache!Result, Cache!WrongType,
                              Cache!Missing, Cache!Holding, k
    <3>4. expires'[k] = expires[k]
      BY <1>7, <2>4, <3>1 DEF Cache!Looks
    <3> QED BY <2>1, <2>4, <3>1, <3>3, <3>4
  <2> QED BY <2>2, <2>3, <2>4 DEF Cache!WellMade, k
<1>15. keys' = [l \in CacheKeys |-> keys'[l]] /\ counters' \subseteq CacheKeys
  BY <1>1 DEF CacheEntries
<1>16. Cache!Vanishes'
  BY <1>14 DEF Cache!Vanishes
<1> QED BY <1>1, <1>8, <1>9, <1>10, <1>12, <1>13, <1>15, <1>16 DEF CacheEntries

\* Their answers.
LEMMA SingleAnswers ==
  ASSUME Cache!CacheAssumption, CacheEntries, NEW x, Cache!WellMade(x), x.op \in Cache!OfOneKey,
         NEW entry, NEW r, r = Cache!Effect(x, keys[x.key]), entry = r.entry,
         keys' = [keys EXCEPT ![x.key] = entry], pushed' = Elements(x),
         counters' = IF x.op = "incr" /\ x.arg > 0 THEN counters ELSE counters \ {x.key},
         NEW b, b.text = r.answer.text, b.n = r.answer.n, b.key = x.key
  PROVE  /\ \A a \in CacheReplies : Spent(a) => Spent(a)' /\ Apart(a, b)'
         /\ Spent(b)'
<1> DEFINE k == x.key
<1>1. k \in CacheKeys /\ pushed \in Nat /\ counters \subseteq CacheKeys
  BY DEF Cache!WellMade, CacheEntries
<1>2. EntryHeld(keys[k], pushed)
  BY <1>1 DEF CacheEntries
<1>3. EffectRight(x, keys[k], r)
  BY <1>1, <1>2, EffectsRight
<1>4. \A l \in CacheKeys : keys'[l] = IF l = k THEN entry ELSE keys[l]
  BY DEF CacheEntries
<1>5. pushed' \in Nat /\ pushed <= pushed'
  BY <1>1 DEF Elements
<1> HIDE DEF k
<1>6. ASSUME NEW n \in 1..pushed, \A l \in CacheKeys : ~In(n, Queue(keys[l])) \/ (l = k /\ ~In(n, Queue(entry)))
      PROVE  n \in 1..pushed' /\ \A l \in CacheKeys : ~In(n, Queue(keys'[l]))
  <2>1. n \in Nat /\ n # pushed + 1 /\ n \in 1..pushed'
    BY <1>1, <1>5
  <2>2. In(n, Queue(entry)) => In(n, Queue(keys[k]))
    BY <1>3, <2>1 DEF EffectRight
  <2>3. ASSUME NEW l \in CacheKeys PROVE ~In(n, Queue(keys'[l]))
    BY <1>1, <1>4, <1>6, <2>2
  <2> QED BY <2>1, <2>3
\* A key that still is a counter, and was this time added to.
<1>7. ASSUME k \in counters'
      PROVE  /\ r.answer.text = "numeral" /\ r.answer.n \in Int
             /\ entry.kind = "string" /\ entry.content.n = r.answer.n
             /\ keys[k].kind = "string" => keys[k].content.n \in Int /\ keys[k].content.n < r.answer.n
  <2>1. k \in counters /\ x.op = "incr" /\ x.arg \in Int /\ x.arg > 0 /\ CounterHeld(k)
    BY <1>7 DEF k, Cache!WellMade, CacheEntries
  <2>2. r.answer.text = "numeral"
    BY <1>1, <1>2, <2>1, CountingRight DEF CounterHeld, k
  <2>3. entry.kind = "string" /\ entry.content.n = r.answer.n
    BY <1>3, <2>2 DEF EffectRight, Cache!Holding, Cache!Numeral, Cache!Str
  <2>4. r.answer.n \in Int /\ (keys[k].kind = "string" => r.answer.n = keys[k].content.n + x.arg)
    BY <1>3, <2>2 DEF EffectRight
  <2>5. keys[k].kind = "string" => keys[k].content.n \in Int
    BY <1>2 DEF EntryHeld, Cache!IsString
  <2> QED BY <2>1, <2>2, <2>3, <2>4, <2>5
<1>8. ASSUME NEW a \in CacheReplies, Spent(a) PROVE Spent(a)' /\ Apart(a, b)'
  <2>1. ASSUME a.text = "element"
        PROVE  /\ a.n \in 1..pushed' /\ \A l \in CacheKeys : ~In(a.n, Queue(keys'[l]))
               /\ b.text = "element" => a.n # b.n
    <3>1. a.n \in 1..pushed /\ \A l \in CacheKeys : ~In(a.n, Queue(keys[l]))
      BY <1>8, <2>1 DEF Spent
    <3>2. b.text = "element" => In(b.n, Queue(keys[k]))
      BY <1>3 DEF EffectRight
    <3> QED BY <1>1, <1>6, <3>1, <3>2
  <2>2. ASSUME a.text = "numeral", a.key \in counters'
        PROVE  /\ keys'[a.key].kind = "string" /\ a.n <= keys'[a.key].content.n
               /\ a.key = b.key => a.n # b.n
    <3>1. a.key \in counters /\ a.key \in CacheKeys /\ a.n \in Int
      BY <1>1, <2>2 DEF CacheReplies
    <3>2. keys[a.key].kind = "string" /\ a.n <= keys[a.key].content.n
      BY <1>8, <2>2, <3>1 DEF Spent
    <3>3. CASE a.key # k
      BY <1>4, <3>1, <3>2, <3>3 DEF k
    <3>4. CASE a.key = k
      BY <1>4, <1>7, <2>2, <3>1, <3>2, <3>4
    <3> QED BY <3>3, <3>4
  <2> QED BY <2>1, <2>2 DEF Spent, Apart
<1>9. Spent(b)'
  <2>1. ASSUME b.text = "element" PROVE b.n \in 1..pushed' /\ \A l \in CacheKeys : ~In(b.n, Queue(keys'[l]))
    <3>1. b.n \in 1..pushed /\ In(b.n, Queue(keys[k])) /\ ~In(b.n, Queue(entry))
      BY <1>3, <2>1 DEF EffectRight
    <3>2. b.n \in Nat
      BY <1>1, <3>1
    <3>3. \A l \in CacheKeys : In(b.n, Queue(keys[l])) => l = k
      BY <1>1, <3>1, <3>2 DEF CacheEntries
    <3> QED BY <1>6, <3>1, <3>3
  <2>2. ASSUME b.text = "numeral", b.key \in counters'
        PROVE  keys'[b.key].kind = "string" /\ b.n <= keys'[b.key].content.n
    BY <1>1, <1>4, <1>7, <2>2 DEF k
  <2> QED BY <2>1, <2>2 DEF Spent
<1> QED BY <1>8, <1>9

LEMMA SentSingle ==
  ASSUME Cache!CacheAssumption, CacheInv, NEW c \in Processes, asked[c].commands # <<>>,
         NEW x, x = Head(asked[c].commands), Cache!Single(c, x),
         UNCHANGED <<cacheTime, program, outcomes, subscribed, callbacks>>
  PROVE  CacheInv'
<1>1. /\ x \in Sent /\ x.key \in {y.key : y \in Written} /\ x.op \in Cache!OfOneKey
      /\ Tail(asked[c].commands) \in Seq(Sent)
      /\ x.op # "delAll" => Cache!WellMade(x)
      /\ asked[c].method # "none"
  <2>1. x.op \in Cache!OfOneKey
    BY DEF Cache!Single
  <2> QED BY <2>1, CommandNext DEF CacheInv
<1>2. Cache!WellMade(x)
  BY <1>1 DEF Cache!OfOneKey, Cache!Hashes, Cache!Lists, Cache!Sets, Cache!SortedSets
<1>3. PICK r, entry : r = Cache!Effect(x, keys[x.key]) /\ entry = r.entry
  OBVIOUS
<1>4. /\ keys' = [keys EXCEPT ![x.key] = entry]
      /\ expires' = [expires EXCEPT ![x.key] =
           IF entry.kind = "none" THEN 0
           ELSE IF x.op \in {"set", "expire"} THEN IF x.ttl > 0 THEN cacheTime + x.ttl ELSE 0
           ELSE @]
      /\ pushed' = Elements(x) /\ cacheTime' = cacheTime
      /\ counters' = IF x.op = "incr" /\ x.arg > 0 THEN counters ELSE counters \ {x.key}
  <2>1. keys' = [keys EXCEPT ![x.key] = entry]
    BY <1>3 DEF Cache!Single
  <2>2. expires' = [expires EXCEPT ![x.key] =
           IF entry.kind = "none" THEN 0
           ELSE IF x.op \in {"set", "expire"} THEN IF x.ttl > 0 THEN cacheTime + x.ttl ELSE 0
           ELSE @]
    BY <1>3 DEF Cache!Single
  <2>3. pushed' = Elements(x)
    BY DEF Cache!Single, Elements, Pushes
  <2>4. counters' = IF x.op = "incr" /\ x.arg > 0 THEN counters ELSE counters \ {x.key}
    BY DEF Cache!Single
  <2> QED BY <2>1, <2>2, <2>3, <2>4
<1>5. CacheEntries'
  BY <1>1, <1>2, <1>3, <1>4, SingleEntries DEF CacheInv
<1>6. PICK b : b = Cache!Answer(r.answer.text, r.answer.n, x.key)
  OBVIOUS
<1>7. b = [text |-> r.answer.text, n |-> r.answer.n, key |-> x.key]
  BY <1>6 DEF Cache!Answer
<1>8. b \in CacheReplies
  <2>1. x.key \in CacheKeys
    BY <1>1, <1>2 DEF Cache!WellMade
  <2>2. EntryHeld(keys[x.key], pushed) /\ pushed \in Nat
    BY <2>1 DEF CacheInv, CacheEntries
  <2>3. EffectRight(x, keys[x.key], r)
    BY <1>1, <1>2, <1>3, <2>2, EffectsRight
  <2> QED BY <1>1, <1>7, <2>3 DEF EffectRight, CacheReplies
<1>9. /\ \A a \in CacheReplies : Spent(a) => Spent(a)' /\ Apart(a, b)'
      /\ Spent(b)'
  <2>1. CacheEntries
    BY DEF CacheInv
  <2>2. x.op \in Cache!OfOneKey /\ b.text = r.answer.text /\ b.n = r.answer.n /\ b.key = x.key
    BY <1>1, <1>7
  <2> QED BY ONLY Cache!CacheAssumption, <1>2, <1>3, <1>4, <2>1, <2>2, SingleAnswers
<1>10. PICK more \in Seq(CacheReplies) :
         Len(more) = 1 /\ more[1] = b /\ Cache!Carry(c, Tail(asked[c].commands), more)
  <2>1. Cache!Carry(c, Tail(asked[c].commands), <<b>>)
    BY <1>3, <1>6 DEF Cache!Single
  <2>2. <<b>> \in Seq(CacheReplies) /\ Len(<<b>>) = 1 /\ <<b>>[1] = b
    BY <1>8
  <2> QED BY <2>1, <2>2
<1>11. /\ CacheCalls'
       /\ \A d \in Processes :
            asked'[d].answers = IF d = c THEN asked[c].answers \o more ELSE asked[d].answers
  BY <1>1, <1>10, Carried DEF CacheInv
<1>12. CacheAnswers'
  <2>1. \A i \in DOMAIN more : more[i] = b
    BY <1>10
  <2>2. counters' \subseteq counters
    BY <1>4
  <2>3. \A i \in DOMAIN more : Spent(more[i])' /\ \A a \in CacheReplies : Spent(a) => Apart(a, more[i])'
    BY <1>9, <2>1
  <2> QED BY <1>9, <1>10, <1>11, <2>2, <2>3, MoreGiven DEF CacheInv
<1>13. CacheChannels'
  BY DEF CacheInv, CacheChannels
<1> QED BY <1>5, <1>11, <1>12, <1>13 DEF CacheInv
------------------------------------------------------------------------------
\* The steps of a call.
LEMMA CommandSent ==
  ASSUME Cache!CacheAssumption, CacheInv, NEW c \in Processes, Cache!Execute(c) PROVE CacheInv'
<1>1. PICK x : x = Head(asked[c].commands)
  OBVIOUS
<1>2. /\ asked[c].commands # <<>>
      /\ Cache!Find(c, x) \/ Cache!Clear(c, x) \/ Cache!ReadMany(c, x) \/ Cache!Single(c, x)
      /\ UNCHANGED <<cacheTime, program, outcomes, subscribed, callbacks>>
  BY <1>1 DEF Cache!Execute
<1> QED BY <1>1, <1>2, SentFind, SentClear, SentReadMany, SentSingle

\* What a process asks for next.
LEMMA RequestNext ==
  ASSUME Cache!CacheAssumption, CacheCalls, NEW c \in Processes, program[c] # <<>>
  PROVE  /\ Head(program[c]) \in AskedFor /\ Cache!CanBeAsked(Head(program[c]))
         /\ Head(program[c]).commands \in Seq(Sent)
         /\ [program EXCEPT ![c] = Tail(@)] \in [Processes -> Seq(AskedFor)]
<1>1. program \in [Processes -> Seq(AskedFor)] /\ program[c] \in Seq(AskedFor)
  BY DEF CacheCalls
<1>2. Head(program[c]) \in AskedFor /\ Tail(program[c]) \in Seq(AskedFor)
  BY <1>1
<1>3. Head(program[c]).commands \in Seq(Written) /\ Cache!CanBeAsked(Head(program[c]))
  BY <1>2, CacheMade
<1>4. Seq(Written) \subseteq Seq(Sent)
  BY DEF Sent
<1> QED BY <1>1, <1>2, <1>3, <1>4

LEMMA CallAsked ==
  ASSUME Cache!CacheAssumption, CacheInv, NEW c \in Processes, Cache!Ask(c) PROVE CacheInv'
<1>0. CacheCalls /\ CacheEntries /\ CacheAnswers /\ CacheChannels
  BY DEF CacheInv
<1> DEFINE Calls == [method : Methods, commands : Seq(Sent), answers : Seq(CacheReplies),
                     carried : Nat, mixed : BOOLEAN]
           r == Head(program[c])
<1>1. /\ asked[c].method = "none" /\ program[c] # <<>>
      /\ asked' = [asked EXCEPT ![c].method = r.method, ![c].commands = r.commands]
      /\ program' = [program EXCEPT ![c] = Tail(@)]
      /\ UNCHANGED <<cacheTime, keys, expires, outcomes, subscribed, callbacks, pushed, counters>>
  BY DEF Cache!Ask
<1>2. /\ r \in AskedFor /\ Cache!CanBeAsked(r) /\ r.commands \in Seq(Sent)
      /\ program' \in [Processes -> Seq(AskedFor)]
  BY <1>0, <1>1, RequestNext
<1>3. asked \in [Processes -> Calls] /\ asked[c] = Cache!Idle
  BY <1>0, <1>1 DEF CacheCalls, CallHeld
<1> HIDE DEF r
<1>4. PICK mine \in Calls :
        /\ mine.method = r.method /\ mine.commands = r.commands
        /\ mine.answers = <<>> /\ mine.carried = 0
        /\ asked' = [asked EXCEPT ![c] = mine]
  <2> DEFINE m == [asked[c] EXCEPT !.method = r.method, !.commands = r.commands]
  <2>1. asked' = [asked EXCEPT ![c] = m]
    <3> HIDE DEF Calls
    <3> QED BY <1>1, <1>3
  <2>2. r.method \in Methods
    BY <1>2 DEF Methods
  <2>3. asked[c] \in Calls
    <3> HIDE DEF Calls
    <3> QED BY <1>3
  <2>4. m \in Calls
    BY <1>2, <2>2, <2>3
  <2>5. m.method = r.method /\ m.commands = r.commands /\ m.answers = <<>> /\ m.carried = 0
    BY <1>3 DEF Cache!Idle
  <2> HIDE DEF m
  <2> QED BY <2>1, <2>4, <2>5
<1>5. asked' \in [Processes -> Calls] /\ \A d \in Processes : asked'[d] = IF d = c THEN mine ELSE asked[d]
  <2> HIDE DEF Calls
  <2> QED BY <1>3, <1>4
<1>6. ASSUME NEW d \in Processes PROVE CallHeld(asked'[d])
  <2>1. CASE d # c
    BY <1>0, <1>5, <2>1 DEF CacheCalls
  <2>2. CASE d = c
    <3>1. r.method # "none"
      BY <1>2 DEF Cache!CanBeAsked
    <3>2. r.method \in Cache!Pipelined => \A i \in DOMAIN r.commands : r.commands[i].op \in Cache!OfOneKey
      BY <1>2 DEF Cache!CanBeAsked
    <3>3. r.method \notin Cache!Pipelined => r.commands # <<>>
      BY <1>1, <1>2 DEF Cache!CanBeAsked, Cache!Ask, r
    <3> QED BY <1>4, <1>5, <2>2, <3>1, <3>2, <3>3 DEF CallHeld
  <2> QED BY <2>1, <2>2
<1>7. CacheCalls'
  <2>1. Cache!Reported'
    BY <1>0, <1>1 DEF CacheCalls, Cache!Reported
  <2>2. outcomes' = outcomes
    BY <1>1
  <2> QED BY <1>0, <1>2, <1>5, <1>6, <2>1, <2>2 DEF CacheCalls
<1>8. CacheEntries' /\ CacheChannels'
  BY <1>0, <1>1 DEF CacheEntries, CounterHeld, Cache!Vanishes, CacheChannels
<1>9. CacheAnswers'
  <2>1. \A d \in Processes : asked'[d].answers = asked[d].answers
    BY <1>3, <1>4, <1>5 DEF Cache!Idle
  <2>2. \A a \in CacheReplies : Spent(a) => Spent(a)'
    BY <1>1 DEF Spent
  <2> QED BY <1>0, <1>1, <2>1, <2>2, SameGiven
<1> QED BY <1>7, <1>8, <1>9 DEF CacheInv

LEMMA CallReturned ==
  ASSUME CacheInv, NEW c \in Processes, asked[c].method # "none", NEW outcome \in {"done", "failed", "threw"},
         outcome = "done" => asked[c].commands = <<>>, Cache!Return(c, outcome)
  PROVE  CacheInv'
<1>0. CacheCalls /\ CacheEntries /\ CacheAnswers /\ CacheChannels
  BY DEF CacheInv
<1> DEFINE Calls == [method : Methods, commands : Seq(Sent), answers : Seq(CacheReplies),
                     carried : Nat, mixed : BOOLEAN]
           Endings == [method : Methods, outcome : {"done", "failed", "threw"}, answers : Seq(CacheReplies),
                    carried : Nat, mixed : BOOLEAN]
<1>1. /\ asked' = [asked EXCEPT ![c] = Cache!Idle]
      /\ UNCHANGED <<cacheTime, keys, expires, program, subscribed, callbacks, pushed, counters>>
  BY DEF Cache!Return
<1>2. /\ asked \in [Processes -> Calls] /\ asked[c] \in Calls
      /\ outcomes \in [Processes -> Seq(Endings)]
  BY <1>0 DEF CacheCalls
<1>3. PICK r \in Endings :
        /\ r.method = asked[c].method /\ r.outcome = outcome /\ r.carried = asked[c].carried
        /\ r.answers = asked[c].answers
        /\ outcomes' = [outcomes EXCEPT ![c] = Append(@, r)]
  <2> DEFINE q == [method |-> asked[c].method, outcome |-> outcome, answers |-> asked[c].answers,
                   carried |-> asked[c].carried, mixed |-> asked[c].mixed]
  <2>1. q \in Endings
    BY <1>2
  <2>2. outcomes' = [outcomes EXCEPT ![c] = Append(@, q)]
    BY DEF Cache!Return
  <2> QED BY <2>1, <2>2
<1>4. Cache!Idle \in Calls /\ CallHeld(Cache!Idle)
  <2>1. "none" \in Methods
    BY DEF Methods
  <2>2. <<>> \in Seq(Sent) /\ <<>> \in Seq(CacheReplies)
    OBVIOUS
  <2>3. Cache!Idle \in Calls
    BY <2>1, <2>2 DEF Cache!Idle
  <2> QED BY <2>3 DEF Cache!Idle, CallHeld, Cache!Pipelined
<1>5. CallHeld(asked[c])
  BY <1>0 DEF CacheCalls
<1> HIDE DEF Calls, Endings
<1>6. /\ asked' \in [Processes -> Calls]
      /\ \A d \in Processes : asked'[d] = IF d = c THEN Cache!Idle ELSE asked[d]
      /\ outcomes' \in [Processes -> Seq(Endings)]
      /\ \A d \in Processes : outcomes'[d] = IF d = c THEN Append(outcomes[c], r) ELSE outcomes[d]
  BY <1>1, <1>2, <1>3, <1>4
<1>7. Cache!Reported'
  <2> DEFINE Right(s) == s.outcome = "done" =>
               IF s.method \in Cache!Pipelined THEN s.carried = Len(s.answers) ELSE s.carried >= 1
  <2>1. \A d \in Processes : \A j \in DOMAIN outcomes[d] : Right(outcomes[d][j])
    BY <1>0 DEF CacheCalls, Cache!Reported
  <2>2. Right(r)
    BY <1>3, <1>5 DEF CallHeld
  <2> HIDE DEF Right
  <2>3. ASSUME NEW d \in Processes, NEW j \in DOMAIN outcomes'[d] PROVE Right(outcomes'[d][j])
    <3>1. CASE d # c
      BY <1>6, <2>1, <2>3, <3>1
    <3>2. CASE d = c
      <4>1. PICK s \in Seq(Endings) : s = outcomes[c]
        BY <1>2
      <4>2. outcomes'[c] = Append(s, r)
        BY <1>6, <4>1
      <4>3. \/ j \in DOMAIN s /\ outcomes'[c][j] = s[j]
            \/ outcomes'[c][j] = r
        BY <2>3, <3>2, <4>2
      <4> QED BY <2>1, <2>2, <3>2, <4>1, <4>3
    <3> QED BY <3>1, <3>2
  <2> QED BY <2>3 DEF Cache!Reported, Right
<1>8. CacheCalls'
  <2>1. \A d \in Processes : CallHeld(asked'[d])
    BY <1>0, <1>4, <1>6 DEF CacheCalls
  <2>2. program' \in [Processes -> Seq(AskedFor)]
    BY <1>0, <1>1 DEF CacheCalls
  <2> QED BY <1>6, <1>7, <2>1, <2>2 DEF CacheCalls, Calls, Endings
<1>9. CacheEntries' /\ CacheChannels'
  BY <1>0, <1>1 DEF CacheEntries, CounterHeld, Cache!Vanishes, CacheChannels
<1>10. CacheAnswers'
  BY <1>0, Returned
<1> QED BY <1>8, <1>9, <1>10 DEF CacheInv
------------------------------------------------------------------------------
\* Steps that leave the keys and the answers alone.
LEMMA ChannelStep ==
  ASSUME Cache!CacheAssumption, CacheInv, NEW c \in Processes,
         program[c] # <<>>, program' = [program EXCEPT ![c] = Tail(@)],
         UNCHANGED <<cacheTime, keys, expires, asked, outcomes, pushed, counters>>
  PROVE  CacheCalls' /\ CacheEntries' /\ CacheAnswers' /\ Head(program[c]).channels \subseteq Channels
<1>0. CacheCalls /\ CacheEntries /\ CacheAnswers
  BY DEF CacheInv
<1>1. program' \in [Processes -> Seq(AskedFor)] /\ Cache!CanBeAsked(Head(program[c]))
  BY <1>0, RequestNext
<1>2. CacheCalls'
  <2>1. Cache!Reported' /\ \A d \in Processes : CallHeld(asked'[d])
    BY <1>0 DEF CacheCalls, Cache!Reported
  <2>2. asked' = asked /\ outcomes' = outcomes
    OBVIOUS
  <2> QED BY <1>0, <1>1, <2>1, <2>2 DEF CacheCalls
<1>3. CacheEntries'
  BY <1>0 DEF CacheEntries, CounterHeld, Cache!Vanishes
<1>4. CacheAnswers'
  BY <1>0, SameGiven DEF Spent
<1> QED BY <1>1, <1>2, <1>3, <1>4 DEF Cache!CanBeAsked

\* The callbacks of a connection.
LEMMA CallbacksHold ==
  ASSUME Cache!CacheAssumption, CacheInv, NEW c \in Processes,
         Cache!Subscribe(c) \/ Cache!Unsubscribe(c) \/ Cache!Publish(c)
  PROVE  CacheInv'
<1> DEFINE Callback == [of : Processes, channels : SUBSET Channels, cut : BOOLEAN, missed : BOOLEAN]
<1>0. /\ subscribed \subseteq Channels /\ callbacks \in Seq(Callback)
      /\ \A i \in DOMAIN callbacks :
           ~callbacks[i].cut => callbacks[i].channels \subseteq subscribed /\ ~callbacks[i].missed
  BY DEF CacheInv, CacheChannels
<1>1. /\ program[c] # <<>> /\ program' = [program EXCEPT ![c] = Tail(@)]
      /\ UNCHANGED <<cacheTime, keys, expires, asked, outcomes, pushed, counters>>
  BY DEF Cache!Subscribe, Cache!Unsubscribe, Cache!Publish, Cache!Asks
<1>2. CacheCalls' /\ CacheEntries' /\ CacheAnswers' /\ Head(program[c]).channels \subseteq Channels
  BY <1>1, ChannelStep
<1>3. DOMAIN callbacks = 1..Len(callbacks) /\ Len(callbacks) \in Nat
      /\ \A i \in DOMAIN callbacks : callbacks[i] \in Callback
  <2> HIDE DEF Callback
  <2> QED BY <1>0
<1>4. ASSUME Cache!Subscribe(c) PROVE CacheChannels'
  <2>1. PICK new : new = [of |-> c, channels |-> Head(program[c]).channels, cut |-> FALSE, missed |-> FALSE]
    OBVIOUS
  <2>2. new \in Callback /\ new.channels = Head(program[c]).channels /\ ~new.missed
    BY <1>2, <2>1
  <2>3. callbacks' = Append(callbacks, new) /\ subscribed' = subscribed \cup new.channels
    BY <1>4, <2>1, <2>2 DEF Cache!Subscribe
  <2> HIDE DEF Callback
  <2>4. callbacks' \in Seq(Callback)
    BY <1>0, <2>2, <2>3
  <2>5. ASSUME NEW i \in DOMAIN callbacks'
        PROVE  (i \in DOMAIN callbacks /\ callbacks'[i] = callbacks[i]) \/ callbacks'[i] = new
    BY <1>0, <2>3
  <2>6. \A i \in DOMAIN callbacks' :
          ~callbacks'[i].cut => callbacks'[i].channels \subseteq subscribed' /\ ~callbacks'[i].missed
    BY <1>0, <2>2, <2>3, <2>5
  <2> QED BY <1>0, <1>2, <2>2, <2>3, <2>4, <2>6 DEF CacheChannels, Callback
<1>5. ASSUME Cache!Unsubscribe(c) PROVE CacheChannels'
  <2>1. PICK gone :
          /\ subscribed' = subscribed \ gone
          /\ callbacks' = [i \in DOMAIN callbacks |->
               IF callbacks[i].of = c THEN [callbacks[i] EXCEPT !.channels = @ \ gone]
               ELSE [callbacks[i] EXCEPT !.cut = @ \/ callbacks[i].channels \cap gone # {}]]
    BY <1>5 DEF Cache!Unsubscribe
  <2>2. ASSUME NEW i \in DOMAIN callbacks
        PROVE  /\ callbacks'[i] \in Callback
               /\ ~callbacks'[i].cut => callbacks'[i].channels \subseteq subscribed' /\ ~callbacks'[i].missed
    <3>1. callbacks[i] \in Callback
      BY <1>3
    <3>2. CASE callbacks[i].of = c
      <4>1. callbacks'[i] = [callbacks[i] EXCEPT !.channels = @ \ gone]
        BY <2>1, <3>2
      <4> QED BY <1>0, <2>1, <3>1, <4>1
    <3>3. CASE callbacks[i].of # c
      <4>1. callbacks'[i] = [callbacks[i] EXCEPT !.cut = @ \/ callbacks[i].channels \cap gone # {}]
        BY <2>1, <3>3
      <4>2. PICK hurt \in BOOLEAN : hurt = (callbacks[i].channels \cap gone # {})
        OBVIOUS
      <4>3. /\ callbacks'[i].cut <=> callbacks[i].cut \/ hurt
            /\ callbacks'[i].channels = callbacks[i].channels /\ callbacks'[i].missed = callbacks[i].missed
            /\ callbacks'[i] \in Callback
        BY <3>1, <4>1, <4>2
      <4> QED BY <1>0, <2>1, <4>2, <4>3
    <3> QED BY <3>2, <3>3
  <2> HIDE DEF Callback
  <2>3. callbacks' \in Seq(Callback) /\ DOMAIN callbacks' = DOMAIN callbacks
    BY <1>3, <2>1, <2>2
  <2>4. subscribed' \subseteq Channels
    BY <1>0, <2>1
  <2> QED BY <2>2, <2>3, <2>4 DEF CacheChannels, Callback
<1>6. ASSUME Cache!Publish(c) PROVE CacheChannels'
  <2>1. PICK channel :
          callbacks' = [i \in DOMAIN callbacks |->
            [callbacks[i] EXCEPT
               !.missed = @ \/ (channel \in callbacks[i].channels /\ channel \notin subscribed)]]
    BY <1>6 DEF Cache!Publish
  <2>2. subscribed' = subscribed
    BY <1>6 DEF Cache!Publish
  <2>3. ASSUME NEW i \in DOMAIN callbacks
        PROVE  /\ callbacks'[i] \in Callback
               /\ ~callbacks'[i].cut => callbacks'[i].channels \subseteq subscribed' /\ ~callbacks'[i].missed
    <3>1. callbacks[i] \in Callback
      BY <1>3
    <3>2. callbacks'[i] = [callbacks[i] EXCEPT
               !.missed = @ \/ (channel \in callbacks[i].channels /\ channel \notin subscribed)]
      BY <2>1
    <3>3. PICK lost \in BOOLEAN : lost = (channel \in callbacks[i].channels /\ channel \notin subscribed)
      OBVIOUS
    <3>4. /\ callbacks'[i].missed <=> callbacks[i].missed \/ lost
          /\ callbacks'[i].channels = callbacks[i].channels /\ callbacks'[i].cut = callbacks[i].cut
          /\ callbacks'[i] \in Callback
      BY <3>1, <3>2, <3>3
    <3> QED BY <1>0, <2>2, <3>3, <3>4
  <2> HIDE DEF Callback
  <2>4. callbacks' \in Seq(Callback) /\ DOMAIN callbacks' = DOMAIN callbacks
    <3>1. DOMAIN callbacks' = DOMAIN callbacks /\ callbacks' = [i \in DOMAIN callbacks |-> callbacks'[i]]
      BY <2>1
    <3>2. callbacks' \in [1..Len(callbacks) -> Callback]
      BY <1>3, <2>3, <3>1
    <3> QED BY <1>3, <3>1, <3>2
  <2> QED BY <1>0, <2>2, <2>3, <2>4 DEF CacheChannels, Callback
<1> QED BY <1>2, <1>4, <1>5, <1>6 DEF CacheInv

\* Time passes: a counter has no time, and what is in a queue is in no other.
LEMMA KeysExpire ==
  ASSUME Cache!CacheAssumption, CacheInv, Cache!Tick PROVE CacheInv'
<1>0. CacheCalls /\ CacheEntries /\ CacheAnswers /\ CacheChannels
  BY DEF CacheInv
<1>1. PICK gone : gone = {k \in CacheKeys : expires[k] # 0 /\ expires[k] <= cacheTime + 1}
  OBVIOUS
<1>2. /\ cacheTime' = cacheTime + 1
      /\ keys' = [k \in CacheKeys |-> IF k \in gone THEN Cache!Missing ELSE keys[k]]
      /\ expires' = [k \in CacheKeys |-> IF k \in gone THEN 0 ELSE expires[k]]
      /\ UNCHANGED <<program, asked, outcomes, subscribed, callbacks, pushed, counters>>
  BY <1>1 DEF Cache!Tick
<1>3. counters' = counters \ gone
  BY <1>0, <1>1, <1>2 DEF CacheEntries, CounterHeld
<1>4. cacheTime' \in Nat /\ cacheTime' >= cacheTime
  BY <1>0, <1>2 DEF CacheEntries
<1>5. \A k \in Cached \ gone : keys[k].kind # "none" => expires[k] > cacheTime' /\ cacheTime' >= cacheTime
  <2> SUFFICES ASSUME NEW k \in Cached \ gone, keys[k].kind # "none" PROVE expires[k] > cacheTime + 1
    BY <1>2, <1>4
  <2>1. k \in CacheKeys /\ Default \in Nat
    BY DEF Cache!CacheAssumption
  <2>2. expires[k] \in (cacheTime + 1)..(cacheTime + Default) /\ cacheTime \in Nat
    BY <1>0 DEF CacheEntries, Cache!Vanishes
  <2>3. ~(expires[k] # 0 /\ expires[k] <= cacheTime + 1)
    BY <1>1, <2>1
  <2> QED BY <2>1, <2>2, <2>3
<1>6. CacheEntries' /\ \A a \in CacheReplies : Spent(a) => Spent(a)'
  BY <1>0, <1>2, <1>3, <1>4, <1>5, KeysRemoved
<1>7. CacheCalls' /\ CacheChannels'
  BY <1>0, <1>2 DEF CacheCalls, CacheChannels, Cache!Reported
<1>8. CacheAnswers'
  BY <1>0, <1>2, <1>6, SameGiven
<1> QED BY <1>6, <1>7, <1>8 DEF CacheInv

LEMMA CacheStep ==
  ASSUME Cache!CacheAssumption, CacheInv, [Cache!Next]_(Cache!vars) PROVE CacheInv'
<1>1. CASE \E c \in Processes : Cache!Step(c)
  <2>1. PICK c \in Processes : Cache!Step(c)
    BY <1>1
  <2>2. CASE Cache!Ask(c)
    BY <2>2, CallAsked
  <2>3. CASE Cache!Execute(c)
    BY <2>3, CommandSent
  <2>4. CASE Cache!Break(c)
    <3>1. PICK outcome \in {"failed", "threw"} : Cache!Return(c, outcome) /\ asked[c].method # "none"
      BY <2>4 DEF Cache!Break
    <3> QED BY <3>1, CallReturned
  <2>5. CASE Cache!Finish(c)
    <3>1. PICK outcome \in {"done", "failed", "threw"} :
            Cache!Return(c, outcome) /\ asked[c].method # "none" /\ asked[c].commands = <<>>
      BY <2>5 DEF Cache!Finish
    <3> QED BY <3>1, CallReturned
  <2>6. CASE Cache!Subscribe(c) \/ Cache!Unsubscribe(c) \/ Cache!Publish(c)
    BY <2>6, CallbacksHold
  <2> QED BY <2>1, <2>2, <2>3, <2>4, <2>5, <2>6 DEF Cache!Step
<1>2. CASE Cache!Tick
  BY <1>2, KeysExpire
<1>3. CASE UNCHANGED Cache!vars
  <2>1. UNCHANGED <<cacheTime, keys, expires, program, asked, outcomes, subscribed, callbacks, pushed, counters>>
    BY <1>3 DEF Cache!vars
  <2>2. CacheCalls' /\ CacheEntries' /\ CacheChannels'
    BY <2>1 DEF CacheInv, CacheCalls, CacheEntries, CacheChannels, CounterHeld, Cache!Vanishes, Cache!Reported
  <2>3. CacheAnswers'
    <3>1. CacheCalls /\ CacheAnswers
      BY DEF CacheInv
    <3> QED BY <2>1, <3>1, SameGiven DEF Spent
  <2> QED BY <2>2, <2>3 DEF CacheInv
<1> QED BY <1>1, <1>2, <1>3 DEF Cache!Next, Cache!Finished

LEMMA CacheStarts == ASSUME Cache!CacheAssumption, Cache!Init PROVE CacheInv
<1>1. program \in [Processes -> Seq(AskedFor)]
  BY CacheMade DEF Cache!Init
<1>2. asked = [c \in Processes |-> Cache!Idle] /\ outcomes = [c \in Processes |-> <<>>]
  BY DEF Cache!Init
<1>3. CacheCalls
  <2> DEFINE Calls == [method : Methods, commands : Seq(Sent), answers : Seq(CacheReplies),
                       carried : Nat, mixed : BOOLEAN]
  <2>1. "none" \in Methods /\ <<>> \in Seq(Sent) /\ <<>> \in Seq(CacheReplies)
    BY DEF Methods
  <2>2. Cache!Idle \in Calls
    BY <2>1 DEF Cache!Idle
  <2>3. CallHeld(Cache!Idle)
    BY DEF Cache!Idle, CallHeld, Cache!Pipelined
  <2>4. Cache!Reported
    BY <1>2 DEF Cache!Reported
  <2>5. \A S : <<>> \in Seq(S)
    OBVIOUS
  <2> HIDE DEF Calls
  <2>6. asked \in [Processes -> Calls] /\ \A c \in Processes : CallHeld(asked[c])
    BY <1>2, <2>2, <2>3
  <2>7. \A S : outcomes \in [Processes -> Seq(S)]
    BY <1>2, <2>5
  <2> QED BY <1>1, <2>4, <2>6, <2>7 DEF CacheCalls, Calls
<1>4. CacheEntries
  <2>1. EntryHeld(Cache!Missing, 0) /\ Queue(Cache!Missing) = <<>> /\ Cache!Missing.kind = "none"
    BY DEF EntryHeld, Cache!Missing, Cache!Holding, Queue, Unrepeated
  <2>2. \A n : ~In(n, <<>>)
    BY DEF In
  <2>3. \A k \in CacheKeys : keys[k] = Cache!Missing /\ expires[k] = 0
    BY DEF Cache!Init
  <2>4. Cached \subseteq CacheKeys
    BY DEF Cache!CacheAssumption
  <2> QED BY <2>1, <2>2, <2>3, <2>4 DEF Cache!Init, CacheEntries, CounterHeld, Cache!Vanishes
<1>5. CacheAnswers
  <2>1. \A c, j, i : ~Place(c, j, i)
    BY <1>2 DEF Place, Given, Cache!Idle
  <2> QED BY <2>1 DEF CacheAnswers
<1>6. CacheChannels
  BY DEF Cache!Init, CacheChannels
<1> QED BY <1>3, <1>4, <1>5, <1>6 DEF CacheInv

\* What was answered keeps apart what was counted and what was handed out.
LEMMA CachePromises ==
  ASSUME CacheInv PROVE Cache!CountsOnce /\ Cache!Reported /\ Cache!Vanishes /\ Cache!Heard
<1>1. Cache!Reported /\ Cache!Vanishes /\ Cache!Heard
  BY DEF CacheInv, CacheCalls, CacheEntries, CacheChannels, Cache!Heard
<1>2. ASSUME NEW p \in Cache!Answers
      PROVE  /\ p = <<p[1], p[2], p[3]>> /\ Place(p[1], p[2], p[3])
             /\ Cache!AnswerAt(p) = GivenAt(p[1], p[2], p[3])
  <2>1. PICK c, j, i :
          c \in Processes /\ j \in DOMAIN outcomes[c] /\ i \in DOMAIN outcomes[c][j].answers /\ p = <<c, j, i>>
    BY DEF Cache!Answers
  <2>2. \E S : outcomes[c] \in Seq(S)
    BY <2>1 DEF CacheInv, CacheCalls
  <2>3. j \in 1..Len(outcomes[c]) /\ j \in 0..Len(outcomes[c]) /\ j # 0
    BY <2>1, <2>2
  <2>4. Given(c, j) = outcomes[c][j].answers
    BY <2>3 DEF Given
  <2>5. Place(c, j, i) /\ GivenAt(c, j, i) = Cache!AnswerAt(<<c, j, i>>)
    BY <2>1, <2>3, <2>4 DEF Place, GivenAt, Cache!AnswerAt
  <2> QED BY <2>1, <2>5
<1>3. ASSUME NEW p \in Cache!Answers, NEW q \in Cache!Answers, p # q
      PROVE  Apart(Cache!AnswerAt(p), Cache!AnswerAt(q))
  <2>1. <<p[1], p[2], p[3]>> # <<q[1], q[2], q[3]>>
    BY <1>2, <1>3
  <2> QED BY <1>2, <2>1 DEF CacheInv, CacheAnswers
<1>4. Cache!CountsOnce
  BY <1>3 DEF Cache!CountsOnce, Apart
<1> QED BY <1>1, <1>4

\* RedisService: a counter counts for everybody, a queue hands out each element once, a call that
\* reports success was carried out, what set writes vanishes, and a subscriber misses nothing.
THEOREM CacheKept ==
  ASSUME Cache!CacheAssumption
  PROVE  Cache!Spec => [](Cache!CountsOnce /\ Cache!Reported /\ Cache!Vanishes /\ Cache!Heard)
<1>1. Cache!Init => CacheInv
  BY CacheStarts
<1>2. CacheInv /\ [Cache!Next]_(Cache!vars) => CacheInv'
  BY CacheStep
<1> QED BY <1>1, <1>2, CachePromises, PTL DEF Cache!Spec
=============================================================================
