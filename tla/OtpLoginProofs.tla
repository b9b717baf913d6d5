---------------------------- MODULE OtpLoginProofs ----------------------------
(***************************************************************************)
(* A code is taken for the purpose it was made for, and not for long after *)
(* the period it was made in, whatever the calls overlap with.  Where the  *)
(* calls that take codes back do not overlap, MaxAttempts failures lock    *)
(* the account and no code is taken until the lock passes; one call at a   *)
(* time, a request for a code is good for one login.                       *)
(***************************************************************************)
EXTENDS MCOtpLogin, TLAPS

AnyCode == [purpose: Purposes, period: Nat]

\* What a slot for a code holds: nothing, or a code that expires soon after its period.
Slot(s) ==
  s = None \/ /\ s \in [code: AnyCode, expires: Nat]
              /\ s.expires < (s.code.period + 1) * Period + Expiry

\* What a call holds, and what is decided once it takes the code.
CallOK(r) ==
  /\ r \in [pc: Places, purpose: Purposes \cup {None}, given: AnyCode \cup {None},
            seen: [code: AnyCode, expires: Nat] \cup {None},
            attempts: Nat, lock: Nat, setsLock: BOOLEAN]
  /\ Slot(r.seen)
  /\ r.pc # "idle" => r.purpose \in Purposes
  /\ r.pc \in {"store", "mail"} => r.seen # None
  /\ r.pc \in {"clear", "record"} => r.given.purpose = r.purpose

Shared == now \in Nat /\ Slot(otp) /\ attempts \in Nat /\ lockUntil \in Nat /\ inbox \subseteq AnyCode

IInv ==
  /\ Shared
  /\ DOMAIN req = Handlers /\ \A h \in Handlers : CallOK(req[h])

\* A moment lies within the period it is counted to.
LEMMA WithinPeriod == ASSUME NEW n \in Nat, NEW p \in Nat \ {0}
                      PROVE  n \div p \in Nat /\ n < (n \div p + 1) * p
  OBVIOUS

\* A call that is over, or about to start, holds nothing.
LEMMA IdleOK == CallOK(Idle)
  BY DEF CallOK, Idle, Started, Slot, Places

\* One call changes, and the others keep what they have.
LEMMA Put == ASSUME IInv, NEW h \in Handlers, NEW c, CallOK(c), req' = [req EXCEPT ![h] = c], Shared'
             PROVE  IInv'
<1>1. DOMAIN req' = Handlers /\ \A g \in Handlers : req'[g] = IF g = h THEN c ELSE req[g]
  BY DEF IInv
<1>2. \A g \in Handlers : CallOK(req[g])'
  BY <1>1 DEF IInv, CallOK, Slot
<1> QED BY <1>1, <1>2 DEF IInv

\* No call changes.
LEMMA Keep == ASSUME IInv, UNCHANGED req, Shared'
              PROVE  IInv'
<1>1. \A h \in Handlers : CallOK(req[h])'
  BY DEF IInv, CallOK, Slot
<1> QED BY <1>1 DEF IInv

\* What nobody writes stays as it is.
LEMMA Stays == ASSUME Shared, UNCHANGED <<now, otp, attempts, lockUntil, inbox>>
               PROVE  Shared'
BY DEF Shared, Slot

\* A call that returns leaves an idle handler.
LEMMA Returns == ASSUME IInv, NEW h \in Handlers, Return(h), Shared'
                 PROVE  IInv'
BY Put, IdleOK DEF Return

\* A call that moves on with what it has, to a place where nothing is asked of it.
LEMMA Goes == ASSUME IInv, NEW h \in Handlers, NEW pc \in Places, Goto(h, pc), Shared',
                     req[h].pc # "idle",
                     pc \in {"store", "mail"} => req[h].seen # None,
                     pc \in {"clear", "record"} => req[h].given.purpose = req[h].purpose
              PROVE  IInv'
<1> DEFINE c == [req[h] EXCEPT !.pc = pc]
<1>0. CallOK(req[h])  BY DEF IInv
<1>1. req' = [req EXCEPT ![h] = c]
  BY DEF Goto, IInv
<1>2. CallOK(c)
  BY <1>0 DEF CallOK
<1> HIDE DEF c
<1> QED BY <1>1, <1>2, Put

\* A call of a wrong or a mailed code starts with it, and a call for a code without.
LEMMA Begins == ASSUME NEW p \in Purposes, NEW g \in AnyCode \cup {None}, NEW pc \in {"find", "load"}
                PROVE  CallOK(Started(pc, p, g))
BY DEF CallOK, Started, Slot, Places

\* Sending a code: the slot gets one that expires in time.
LEMMA SendKeeps == ASSUME IInv, NEW h \in Handlers, Send(h)
                   PROVE  IInv'
<1> USE OtpAssumption
<1>0. Shared /\ CallOK(req[h])  BY DEF IInv
<1>1. CASE BeginSend(h)
  <2>1. PICK p \in Purposes :
          req' = [req EXCEPT ![h] = Started("find", p, None)]
    BY <1>1 DEF BeginSend
  <2>2. Shared'
    BY <1>0, <1>1, Stays DEF BeginSend, account
  <2> QED BY <2>1, <2>2, Begins, Put
<1>2. CASE MakeCode(h)
  <2>1. Shared'
    BY <1>0, <1>2, Stays DEF MakeCode, account
  <2>2. CASE IsLocked
    BY <1>2, <2>1, <2>2, Returns DEF MakeCode
  <2>3. CASE ~IsLocked
    <3> DEFINE made == [code |-> [purpose |-> req[h].purpose, period |-> now \div Period],
                        expires |-> now + Expiry]
               c == [req[h] EXCEPT !.pc = "store", !.seen = made]
    <3>1. req' = [req EXCEPT ![h] = c]
      BY <1>2, <2>3 DEF MakeCode, IInv
    <3>2. now \div Period \in Nat /\ now < (now \div Period + 1) * Period
      BY <1>0, WithinPeriod DEF Shared
    <3>3. req[h].purpose \in Purposes
      BY <1>0, <1>2 DEF MakeCode, CallOK
    <3>4. made \in [code: AnyCode, expires: Nat]
      BY <1>0, <3>2, <3>3 DEF Shared, AnyCode
    <3>5. made.expires < (made.code.period + 1) * Period + Expiry
      <4> DEFINE end == (now \div Period + 1) * Period
      <4>1. end \in Nat
        BY <3>2
      <4>2. now < end
        BY <3>2
      <4> HIDE DEF end
      <4>3. now + Expiry < end + Expiry
        BY <1>0, <4>1, <4>2 DEF Shared
      <4> QED BY <4>3 DEF end
    <3>6. Slot(made)
      BY <3>4, <3>5 DEF Slot
    <3>7. made # None
      BY <3>4 DEF AnyCode
    <3> HIDE DEF made
    <3>8. c.pc = "store" /\ c.seen = made /\ c.purpose = req[h].purpose
      BY <1>0 DEF CallOK
    <3>9. CallOK(c)
      <4>1. c \in [pc: Places, purpose: Purposes \cup {None}, given: AnyCode \cup {None},
                   seen: [code: AnyCode, expires: Nat] \cup {None},
                   attempts: Nat, lock: Nat, setsLock: BOOLEAN]
        BY <1>0, <3>4 DEF CallOK, Places
      <4> HIDE DEF c
      <4> QED BY <3>3, <3>6, <3>7, <3>8, <4>1 DEF CallOK
    <3> HIDE DEF c
    <3> QED BY <2>1, <3>1, <3>9, Put
  <2> QED BY <2>2, <2>3
<1>3. CASE StoreCode(h)
  <2>1. Shared'
    BY <1>0, <1>3 DEF StoreCode, Shared, Slot, account, CallOK
  <2> QED BY <1>0, <1>3, <2>1, Goes DEF StoreCode, CallOK, Places
<1>4. CASE MailCode(h)
  <2>1. req[h].seen.code \in AnyCode
    BY <1>0, <1>4 DEF MailCode, CallOK
  <2>2. Shared'
    BY <1>0, <1>4, <2>1 DEF MailCode, Shared, Slot, account
  <2> QED BY <1>4, <2>2, Returns DEF MailCode
<1> QED BY <1>1, <1>2, <1>3, <1>4 DEF Send

\* Taking a code back: what goes on to log in has passed IsValid, on the slot as
\* it was loaded.
LEMMA VerifyKeeps == ASSUME IInv, NEW h \in Handlers, Verify(h)
                     PROVE  IInv'
<1>0. Shared /\ CallOK(req[h])  BY DEF IInv
<1>1. CASE BeginVerify(h)
  <2>1. PICK p \in Purposes, g \in inbox \cup {None} : req' = [req EXCEPT ![h] = Started("load", p, g)]
    BY <1>1 DEF BeginVerify
  <2>2. g \in AnyCode \cup {None}
    BY <1>0 DEF Shared
  <2>3. Shared'
    BY <1>0, <1>1, Stays DEF BeginVerify, account
  <2> QED BY <2>1, <2>2, <2>3, Begins, Put
<1>2. CASE LoadUser(h)
  <2>1. Shared'
    BY <1>0, <1>2, Stays DEF LoadUser, account
  <2>2. CASE ~MayTry
    BY <1>2, <2>1, <2>2, Returns DEF LoadUser
  <2>3. CASE MayTry
    <3> DEFINE c == [req[h] EXCEPT !.pc = "check", !.seen = otp]
    <3>1. req' = [req EXCEPT ![h] = c]
      BY <1>2, <2>3 DEF LoadUser
    <3>2. otp \in [code: AnyCode, expires: Nat] \cup {None} /\ Slot(otp)
      BY <1>0 DEF Shared, Slot
    <3>3. c.pc = "check" /\ c.seen = otp /\ c.purpose = req[h].purpose
      BY <1>0 DEF CallOK
    <3>4. c \in [pc: Places, purpose: Purposes \cup {None}, given: AnyCode \cup {None},
                 seen: [code: AnyCode, expires: Nat] \cup {None},
                 attempts: Nat, lock: Nat, setsLock: BOOLEAN]
      BY <1>0, <3>2 DEF CallOK, Places
    <3>5. req[h].purpose \in Purposes
      BY <1>0, <1>2 DEF LoadUser, CallOK
    <3> HIDE DEF c
    <3>6. CallOK(c)
      BY <3>2, <3>3, <3>4, <3>5 DEF CallOK
    <3> QED BY <2>1, <3>1, <3>6, Put
  <2> QED BY <2>2, <2>3
<1>3. CASE CheckCode(h)
  <2>1. Shared'
    BY <1>0, <1>3, Stays DEF CheckCode, account
  <2>2. CASE IsValid(req[h])
    <3>1. req[h].given.purpose = req[h].purpose
      BY <2>2 DEF IsValid
    <3>2. Goto(h, "clear") /\ req[h].pc = "check"
      BY <1>3, <2>2 DEF CheckCode
    <3> QED BY <2>1, <3>1, <3>2, Goes DEF Places
  <2>3. CASE ~IsValid(req[h])
    <3>1. Goto(h, "readAttempts") /\ req[h].pc = "check"
      BY <1>3, <2>3 DEF CheckCode
    <3> QED BY <2>1, <3>1, Goes DEF Places
  <2> QED BY <2>2, <2>3
<1>4. CASE ClearCode(h)
  <2>1. Shared'
    BY <1>0, <1>4 DEF ClearCode, Shared, Slot, account
  <2>2. req[h].given.purpose = req[h].purpose
    BY <1>0, <1>4 DEF ClearCode, CallOK
  <2> QED BY <1>4, <2>1, <2>2, Goes DEF ClearCode, Places
<1>5. CASE RecordLogin(h)
  <2>1. Shared'
    BY <1>0, <1>5 DEF RecordLogin, Shared, Slot
  <2> QED BY <1>5, <2>1, Returns DEF RecordLogin
<1> QED BY <1>1, <1>2, <1>3, <1>4, <1>5 DEF Verify

\* Counting a failure touches no code.
LEMMA CountKeeps == ASSUME IInv, NEW h \in Handlers, CountFailure(h)
                    PROVE  IInv'
<1> USE OtpAssumption
<1>0. Shared /\ CallOK(req[h])  BY DEF IInv
<1>1. CASE ReadAttempts(h)
  <2> DEFINE lock == IF MustLock(Count) THEN now + LockTime ELSE 0
             sets == LockPassed \/ MustLock(Count)
             c == [req[h] EXCEPT !.pc = "saveAttempts", !.attempts = Count,
                                 !.setsLock = sets, !.lock = lock]
  <2>1. Shared'
    BY <1>0, <1>1, Stays DEF ReadAttempts, account
  <2>2. req' = [req EXCEPT ![h] = c]
    BY <1>1 DEF ReadAttempts
  <2>3. Count \in Nat /\ lock \in Nat /\ sets \in BOOLEAN
    BY <1>0 DEF Shared, Count, MustLock, LockPassed
  <2> HIDE DEF lock, sets
  <2>4. c \in [pc: Places, purpose: Purposes \cup {None}, given: AnyCode \cup {None},
               seen: [code: AnyCode, expires: Nat] \cup {None},
               attempts: Nat, lock: Nat, setsLock: BOOLEAN]
    BY <1>0, <2>3 DEF CallOK, Places
  <2>5. c.pc = "saveAttempts" /\ c.seen = req[h].seen /\ c.purpose = req[h].purpose
    BY <1>0 DEF CallOK
  <2>6. Slot(req[h].seen) /\ req[h].purpose \in Purposes
    BY <1>0, <1>1 DEF ReadAttempts, CallOK
  <2> HIDE DEF c
  <2>7. CallOK(c)
    BY <2>4, <2>5, <2>6 DEF CallOK
  <2> QED BY <2>1, <2>2, <2>7, Put
<1>2. CASE SaveAttempts(h)
  <2>1. req[h].attempts \in Nat /\ req[h].lock \in Nat
    BY <1>0 DEF CallOK
  <2>2. Shared'
    BY <1>0, <1>2, <2>1 DEF SaveAttempts, Shared, Slot
  <2> QED BY <1>2, <2>2, Returns DEF SaveAttempts
<1> QED BY <1>1, <1>2 DEF CountFailure

\* The other steps: a call cut short, a login without a code, a restart, the clock.
LEMMA RestKeeps == ASSUME IInv, \/ \E h \in Handlers : Fail(h)
                                \/ GoogleLogin \/ Restart \/ Tick \/ UNCHANGED vars
                   PROVE  IInv'
<1>0. Shared  BY DEF IInv
<1>1. ASSUME NEW h \in Handlers, Fail(h) PROVE IInv'
  <2>1. Shared'
    BY <1>0, <1>1, Stays DEF Fail, account
  <2> QED BY <1>1, <2>1, Returns DEF Fail
<1>2. CASE GoogleLogin
  <2>1. Shared'
    BY <1>0, <1>2 DEF GoogleLogin, Shared, Slot
  <2> QED BY <1>2, <2>1, Keep DEF GoogleLogin
<1>3. CASE Restart
  <2>1. Shared'
    BY <1>0, <1>3, Stays DEF Restart, account
  <2>2. \A h \in Handlers : req'[h] = Idle
    BY <1>3 DEF Restart
  <2>3. \A h \in Handlers : CallOK(req[h])'
    BY <2>2, IdleOK DEF CallOK, Slot
  <2>4. DOMAIN req' = Handlers
    BY <1>3 DEF Restart
  <2> QED BY <2>1, <2>3, <2>4 DEF IInv
<1>4. CASE Tick
  <2>1. Shared'
    BY <1>0, <1>4 DEF Tick, Shared, Slot, account
  <2> QED BY <1>4, <2>1, Keep DEF Tick
<1>5. CASE UNCHANGED vars
  <2>1. Shared'
    BY <1>0, <1>5, Stays DEF vars
  <2> QED BY <1>5, <2>1, Keep DEF vars
<1> QED BY <1>1, <1>2, <1>3, <1>4, <1>5

\* The invariant holds in every state.
LEMMA Initially == Init => IInv
  BY IdleOK DEF Init, IInv, Shared, Slot

LEMMA NextKeeps == ASSUME IInv, [Next]_vars PROVE IInv'
<1>1. CASE Next
  BY <1>1, SendKeeps, VerifyKeeps, CountKeeps, RestKeeps DEF Next
<1>2. CASE UNCHANGED vars
  BY <1>2, RestKeeps
<1> QED BY <1>1, <1>2

LEMMA Inductive == Spec => []IInv
  BY Initially, NextKeeps, PTL DEF Spec

\* A call leaves the others alone.
LEMMA Alone == ASSUME IInv, NEW g \in Handlers, NEW h \in Handlers, g # h,
                      Send(g) \/ Verify(g) \/ CountFailure(g) \/ Fail(g)
               PROVE  req'[h] = req[h]
<1>0. DOMAIN req = Handlers  BY DEF IInv
<1>1. CASE Send(g)
  BY <1>0, <1>1 DEF Send, BeginSend, MakeCode, StoreCode, MailCode, Goto, Return
<1>2. CASE Verify(g)
  BY <1>0, <1>2 DEF Verify, BeginVerify, LoadUser, CheckCode, ClearCode, RecordLogin, Goto, Return
<1>3. CASE CountFailure(g) \/ Fail(g)
  BY <1>0, <1>3 DEF CountFailure, ReadAttempts, SaveAttempts, Fail, Return
<1> QED BY <1>1, <1>2, <1>3

\* The one step that takes a code is CheckCode, and the code is valid there and then.
LEMMA Taken == ASSUME IInv, Next, NEW h \in Handlers, req[h].pc = "check", req'[h].pc = "clear"
               PROVE  IsValid(req[h])
<1>0. DOMAIN req = Handlers  BY DEF IInv
<1>1. ASSUME NEW g \in Handlers, Send(g) \/ Verify(g) \/ CountFailure(g) \/ Fail(g)
      PROVE  IsValid(req[h])
  <2>1. g = h
    BY <1>1, Alone
  <2>2. ~Send(h) /\ ~CountFailure(h)
    BY DEF Send, BeginSend, MakeCode, StoreCode, MailCode, CountFailure, ReadAttempts, SaveAttempts
  <2>3. ~Fail(h)
    BY <1>0 DEF Fail, Return, Idle, Started
  <2>4. CheckCode(h)
    BY <1>1, <2>1, <2>2, <2>3 DEF Verify, BeginVerify, LoadUser, ClearCode, RecordLogin, Return, Idle, Started
  <2>5. Goto(h, IF IsValid(req[h]) THEN "clear" ELSE "readAttempts")
    BY <2>4 DEF CheckCode
  <2> QED BY <1>0, <2>5 DEF Goto, IInv, CallOK
<1>2. ~GoogleLogin /\ ~Tick
  BY DEF GoogleLogin, Tick
<1>3. ~Restart
  BY DEF Restart, Idle, Started
<1> QED BY <1>1, <1>2, <1>3 DEF Next

\* A code logs in only the flow it was made for ("prevents cross-use between flows"),
\* with any number of calls in flight.
THEOREM NoCrossUse == Spec => []OwnPurpose
<1>1. IInv => OwnPurpose
  BY DEF IInv, CallOK, OwnPurpose
<1> QED BY <1>1, Inductive, PTL

\* A code is not taken longer than otpExpiryMs after the period of the generator that
\* it belongs to, with any number of calls in flight and of repeated requests.
THEOREM NoLateUse == Spec => CodesExpire
<1>1. IInv /\ [Next]_vars
        => [\A h \in Handlers : req[h].pc = "check" /\ req'[h].pc = "clear"
              => now < (req[h].given.period + 1) * Period + Expiry]_vars
  <2> SUFFICES ASSUME IInv, Next, NEW h \in Handlers, req[h].pc = "check", req'[h].pc = "clear"
               PROVE  now < (req[h].given.period + 1) * Period + Expiry
    OBVIOUS
  <2>1. IsValid(req[h])
    BY Taken
  <2>2. now \in Nat /\ CallOK(req[h])
    BY DEF IInv, Shared
  <2>3. req[h].given = req[h].seen.code /\ now <= req[h].seen.expires /\ Slot(req[h].seen)
    BY <2>1, <2>2 DEF IsValid, CallOK
  <2> DEFINE last == (req[h].seen.code.period + 1) * Period + Expiry
  <2>4. req[h].seen.expires < last /\ req[h].seen.expires \in Nat /\ req[h].seen.code.period \in Nat
    BY <2>1, <2>3 DEF IsValid, Slot, AnyCode
  <2>5. last \in Nat
    BY <2>4, OtpAssumption
  <2> HIDE DEF last
  <2>6. now < last
    BY <2>2, <2>3, <2>4, <2>5
  <2> QED BY <2>3, <2>6 DEF last
<1> QED BY <1>1, Inductive, PTL DEF Spec, CodesExpire

----------------------------------------------------------------------------
\* The calls that take a code back, and that they do not overlap each other.
Tries == {"load", "check", "clear", "record", "readAttempts", "saveAttempts"}
OneTry == \A g, h \in Handlers : req[g].pc \in Tries /\ req[h].pc \in Tries => g = h

\* What a call in flight knows of the lock: once it has looked it stays open, and
\* the save to come counts one failure more, locks, or counts from one again.
Counting(r) ==
  /\ r.pc \in {"check", "clear", "record", "readAttempts"} => lockUntil <= now
  /\ r.pc = "saveAttempts" =>
       \/ r.setsLock /\ r.lock # 0 /\ r.attempts >= MaxAttempts
       \/ r.setsLock /\ r.lock = 0 /\ r.attempts = 1 /\ 1 < MaxAttempts /\ guesses = 0
       \/ /\ ~r.setsLock /\ lockUntil = 0
          /\ guesses < r.attempts /\ r.attempts < MaxAttempts

\* The failures counted are at least the wrong codes answered, and a lock is set
\* when they are MaxAttempts.
Lockout ==
  /\ guesses \in Nat
  /\ lockUntil = 0 => guesses <= attempts /\ attempts < MaxAttempts
  /\ lockUntil # 0 => guesses = 0 /\ attempts >= MaxAttempts
  /\ \A h \in Handlers : Counting(req[h])

\* A request for a code opens one login: the code is gone before the login is
\* recorded.
OneLogin ==
  /\ logins \in {0, 1}
  /\ otp # None => logins = 0
  /\ \A h \in Handlers :
       /\ req[h].pc = "check" /\ req[h].seen # None => logins = 0
       /\ req[h].pc = "clear" => logins = 0
       /\ req[h].pc = "record" => logins = 0 /\ otp = None

\* What a call does to the others, and to the lock and the slot, by its place.
LEMMA OwnCall ==
  ASSUME IInv, NEW h \in Handlers, Send(h) \/ Verify(h) \/ CountFailure(h) \/ Fail(h)
  PROVE  UNCHANGED now /\ \A g \in Handlers \ {h} : req'[g] = req[g]
<1>1. \A g \in Handlers \ {h} : req'[g] = req[g]
  BY Alone
<1>2. UNCHANGED now
  BY DEF Send, BeginSend, MakeCode, StoreCode, MailCode, Verify, BeginVerify, LoadUser, CheckCode,
         ClearCode, RecordLogin, CountFailure, ReadAttempts, SaveAttempts, Fail
<1> QED BY <1>1, <1>2

\* The places a call comes to in a step, from those of the lock's concern.
LEMMA Placed ==
  ASSUME IInv, NEW h \in Handlers, Send(h) \/ Verify(h) \/ Fail(h)
  PROVE  /\ req'[h].pc \in {"idle", "find", "load", "store", "mail", "check", "clear",
                            "record", "readAttempts"}
         /\ req'[h].pc = "check" =>
              LoadUser(h) /\ req[h].pc = "load" /\ ~IsLocked /\ req'[h].seen = otp
         /\ req'[h].pc \in {"clear", "readAttempts"} =>
              CheckCode(h) /\ req[h].pc = "check"
         /\ req'[h].pc = "clear" => IsValid(req[h])
         /\ req'[h].pc = "record" => ClearCode(h) /\ req[h].pc = "clear"
<1>1. DOMAIN req = Handlers /\ CallOK(req[h])
  BY DEF IInv
<1>2. CASE Send(h)
  <2>1. CASE BeginSend(h) \/ MailCode(h) \/ (MakeCode(h) /\ IsLocked)
    BY <1>1, <2>1 DEF BeginSend, MailCode, MakeCode, Return, Idle, Started
  <2>2. CASE MakeCode(h) /\ ~IsLocked
    <3> DEFINE made == [code |-> [purpose |-> req[h].purpose, period |-> now \div Period],
                        expires |-> now + Expiry]
               c == [req[h] EXCEPT !.pc = "store", !.seen = made]
    <3>1. req' = [req EXCEPT ![h] = c]
      BY <1>1, <2>2 DEF MakeCode
    <3> HIDE DEF made
    <3>2. c.pc = "store"
      BY <1>1 DEF CallOK
    <3> HIDE DEF c
    <3> QED BY <1>1, <3>1, <3>2
  <2>3. CASE StoreCode(h)
    <3>1. [req[h] EXCEPT !.pc = "mail"].pc = "mail"
      BY <1>1 DEF CallOK
    <3> QED BY <1>1, <2>3, <3>1 DEF StoreCode, Goto
  <2> QED BY <1>2, <2>1, <2>2, <2>3 DEF Send
<1>3. CASE BeginVerify(h) \/ RecordLogin(h) \/ Fail(h) \/ (LoadUser(h) /\ ~MayTry)
  BY <1>1, <1>3 DEF BeginVerify, RecordLogin, Fail, LoadUser, Return, Idle, Started
<1>4. CASE LoadUser(h) /\ MayTry
  <2> DEFINE c == [req[h] EXCEPT !.pc = "check", !.seen = otp]
  <2>1. req' = [req EXCEPT ![h] = c]
    BY <1>4 DEF LoadUser
  <2>2. c.pc = "check" /\ c.seen = otp
    BY <1>1 DEF CallOK
  <2>3. req[h].pc = "load" /\ ~IsLocked
    BY <1>4 DEF LoadUser, MayTry
  <2> HIDE DEF c
  <2> QED BY <1>1, <1>4, <2>1, <2>2, <2>3
<1>5. CASE CheckCode(h)
  <2> DEFINE pc == IF IsValid(req[h]) THEN "clear" ELSE "readAttempts"
             c == [req[h] EXCEPT !.pc = pc]
  <2>1. req' = [req EXCEPT ![h] = c] /\ req[h].pc = "check"
    BY <1>5 DEF CheckCode, Goto
  <2>2. c.pc = pc
    BY <1>1 DEF CallOK
  <2> HIDE DEF c
  <2> QED BY <1>1, <1>5, <2>1, <2>2
<1>6. CASE ClearCode(h)
  <2>1. [req[h] EXCEPT !.pc = "record"].pc = "record"
    BY <1>1 DEF CallOK
  <2> QED BY <1>1, <1>6, <2>1 DEF ClearCode, Goto
<1> QED BY <1>2, <1>3, <1>4, <1>5, <1>6 DEF Verify

\* A failure is counted from what is read, and the count is what is saved.
LEMMA Counted ==
  ASSUME IInv, NEW h \in Handlers, ReadAttempts(h)
  PROVE  /\ req'[h].pc = "saveAttempts" /\ req'[h].attempts = Count
         /\ req'[h].setsLock = (LockPassed \/ MustLock(Count))
         /\ req'[h].lock = IF MustLock(Count) THEN now + LockTime ELSE 0
<1> DEFINE lock == IF MustLock(Count) THEN now + LockTime ELSE 0
           sets == LockPassed \/ MustLock(Count)
           c == [req[h] EXCEPT !.pc = "saveAttempts", !.attempts = Count,
                               !.setsLock = sets, !.lock = lock]
<1>1. req' = [req EXCEPT ![h] = c]
  BY DEF ReadAttempts
<1> HIDE DEF lock, sets
<1>2. c.pc = "saveAttempts" /\ c.attempts = Count /\ c.setsLock = sets /\ c.lock = lock
  BY DEF IInv, CallOK
<1>3. req'[h] = c
  BY <1>1 DEF IInv
<1> HIDE DEF c
<1> QED BY <1>2, <1>3 DEF lock, sets

LEMMA LockoutNext ==
  ASSUME IInv, Lockout, OneTry, [Next]_vars
  PROVE  Lockout'
<1> USE OtpAssumption
<1>1. now \in Nat /\ attempts \in Nat /\ lockUntil \in Nat
  BY DEF IInv, Shared
<1>2. ASSUME NEW h \in Handlers, Send(h) \/ Verify(h) \/ Fail(h), ~RecordLogin(h)
      PROVE  Lockout'
  <2>1. UNCHANGED <<now, attempts, lockUntil, guesses>>
    BY <1>2, OwnCall DEF Send, BeginSend, MakeCode, StoreCode, MailCode, Verify, BeginVerify,
                         LoadUser, CheckCode, ClearCode, Fail, account
  <2>2. Counting(req[h])' /\ \A g \in Handlers \ {h} : Counting(req[g])'
    BY <1>1, <1>2, <2>1, Placed, OwnCall DEF Counting, Lockout, IsLocked
  <2> QED BY <2>1, <2>2 DEF Lockout
<1>3. ASSUME NEW h \in Handlers, RecordLogin(h) PROVE Lockout'
  <2>1. attempts' = 0 /\ lockUntil' = 0 /\ guesses' = 0 /\ UNCHANGED now /\ req[h].pc = "record"
    BY <1>3 DEF RecordLogin
  <2>2. req'[h].pc = "idle" /\ \A g \in Handlers \ {h} : req'[g] = req[g]
    BY <1>3, Alone DEF RecordLogin, Return, Idle, Started, IInv, Verify
  <2>3. \A g \in Handlers \ {h} : req[g].pc \notin Tries
    BY <2>1 DEF OneTry, Tries
  <2> QED BY <2>1, <2>2, <2>3 DEF Lockout, Counting, Tries
<1>4. ASSUME NEW h \in Handlers, ReadAttempts(h) PROVE Lockout'
  <2>1. UNCHANGED <<now, attempts, lockUntil, guesses>> /\ lockUntil <= now
    BY <1>4 DEF ReadAttempts, account, Lockout, Counting
  <2>2. Counting(req[h])'
    <3> DEFINE r == req'[h]
    <3>1. /\ r.pc = "saveAttempts" /\ r.attempts = Count
          /\ r.setsLock = (LockPassed \/ MustLock(Count))
          /\ r.lock = IF MustLock(Count) THEN now + LockTime ELSE 0
      BY <1>4, Counted
    <3>2. CASE MustLock(Count)
      <4>1. r.setsLock = TRUE /\ r.lock = now + LockTime
        BY <3>1, <3>2
      <4>2. r.lock # 0 /\ Count >= MaxAttempts
        BY <1>1, <3>2, <4>1 DEF MustLock
      <4> QED BY <3>1, <4>1, <4>2 DEF Counting
    <3>3. CASE ~MustLock(Count) /\ lockUntil # 0
      <4>1. Count < MaxAttempts /\ guesses = 0
        BY <1>1, <2>1, <3>3 DEF MustLock, IsLocked, Lockout, Count
      <4>2. LockPassed
        BY <1>1, <2>1, <3>3, <4>1 DEF Lockout, Count, LockPassed
      <4> QED BY <2>1, <3>1, <3>3, <4>1, <4>2 DEF Counting, Count
    <3>4. CASE ~MustLock(Count) /\ lockUntil = 0
      <4>1. ~LockPassed /\ Count = attempts + 1 /\ Count < MaxAttempts /\ guesses <= attempts
        BY <1>1, <3>4 DEF LockPassed, Count, MustLock, IsLocked, Lockout
      <4>2. r.setsLock = FALSE
        BY <3>1, <3>4, <4>1
      <4>3. guesses < Count
        BY <1>1, <4>1 DEF Lockout
      <4> QED BY <2>1, <3>1, <3>4, <4>1, <4>2, <4>3 DEF Counting
    <3> QED BY <3>2, <3>3, <3>4
  <2>3. \A g \in Handlers \ {h} : req'[g] = req[g]
    BY <1>4, Alone DEF CountFailure
  <2> QED BY <2>1, <2>2, <2>3 DEF Lockout, Counting
<1>5. ASSUME NEW h \in Handlers, SaveAttempts(h) PROVE Lockout'
  <2>1. req[h].pc = "saveAttempts" /\ UNCHANGED now
    BY <1>5 DEF SaveAttempts
  <2>2. req'[h].pc = "idle" /\ \A g \in Handlers \ {h} : req'[g] = req[g]
    BY <1>5, Alone DEF SaveAttempts, Return, Idle, Started, IInv, CountFailure
  <2>3. \A g \in Handlers : req'[g].pc \notin Tries
    BY <2>1, <2>2 DEF OneTry, Tries
  <2>4. req[h].attempts \in Nat /\ req[h].lock \in Nat /\ req[h].setsLock \in BOOLEAN
    BY DEF IInv, CallOK
  <2>5. Counting(req[h]) /\ guesses \in Nat
    BY DEF Lockout
  <2>6. /\ guesses' \in Nat
        /\ lockUntil' = 0 => guesses' <= attempts' /\ attempts' < MaxAttempts
        /\ lockUntil' # 0 => guesses' = 0 /\ attempts' >= MaxAttempts
    BY <1>5, <2>1, <2>4, <2>5 DEF SaveAttempts, Counting
  <2> QED BY <2>3, <2>6 DEF Lockout, Counting, Tries
<1>6. CASE GoogleLogin
  <2>1. attempts' = 0 /\ lockUntil' = 0 /\ guesses' = 0 /\ UNCHANGED <<now, req>>
    BY <1>6 DEF GoogleLogin
  <2>2. \A h \in Handlers : Counting(req[h])'
    <3> SUFFICES ASSUME NEW h \in Handlers PROVE Counting(req[h])'
      OBVIOUS
    <3>1. Counting(req[h]) /\ req[h].attempts \in Nat /\ guesses \in Nat
      BY DEF Lockout, IInv, CallOK
    <3> QED BY <1>1, <2>1, <3>1 DEF Counting
  <2> QED BY <2>1, <2>2 DEF Lockout
<1>7. CASE Restart
  BY <1>1, <1>7 DEF Restart, Lockout, Counting, Idle, Started, account
<1>8. CASE Tick
  BY <1>1, <1>8 DEF Tick, Lockout, Counting, account
<1>9. CASE UNCHANGED vars
  BY <1>9 DEF vars, Lockout, Counting
<1> QED BY <1>2, <1>3, <1>4, <1>5, <1>6, <1>7, <1>8, <1>9 DEF Next, CountFailure

\* A code is taken where the account has been found unlocked.
LEMMA TakenNext ==
  ASSUME IInv, Lockout, [Next]_vars
  PROVE  [TakenUnlocked]_vars
<1> SUFFICES ASSUME Next, NEW h \in Handlers, req[h].pc = "check" PROVE ~IsLocked
  BY DEF TakenUnlocked
<1>1. lockUntil <= now
  BY DEF Lockout, Counting
<1> QED BY <1>1 DEF IsLocked, IInv, Shared

LEMMA OneLoginNext ==
  ASSUME IInv, OneLogin, OneAtATime, [Next]_vars
  PROVE  OneLogin'
<1>1. ASSUME NEW h \in Handlers, Send(h) \/ Verify(h) \/ CountFailure(h) \/ Fail(h)
      PROVE  OneLogin'
  <2>1. \A g \in Handlers \ {h} : req'[g] = req[g]
    BY <1>1, Alone
  <2>2. CASE req[h].pc = "idle"
    <3>1. BeginSend(h) \/ BeginVerify(h)
      BY <1>1, <2>2 DEF Send, MakeCode, StoreCode, MailCode, Verify, LoadUser, CheckCode,
             ClearCode, RecordLogin, CountFailure, ReadAttempts, SaveAttempts, Fail
    <3>2. UNCHANGED <<otp, logins>> /\ req'[h].pc \in {"find", "load"}
      BY <3>1 DEF BeginSend, BeginVerify, Started, IInv
    <3> QED BY <2>1, <3>2 DEF OneLogin
  <2>3. CASE req[h].pc # "idle"
    <3>1. \A g \in Handlers \ {h} : req'[g].pc = "idle"
      BY <2>1, <2>3 DEF OneAtATime
    <3>2. CASE StoreCode(h) \/ RecordLogin(h)
      <4>1. req'[h].pc \in {"idle", "mail"}
        <5> DEFINE c == [req[h] EXCEPT !.pc = "mail"]
        <5>1. c.pc = "mail"
          BY DEF IInv, CallOK
        <5>2. req' = [req EXCEPT ![h] = c] \/ req' = [req EXCEPT ![h] = Idle]
          BY <3>2 DEF StoreCode, RecordLogin, Goto, Return
        <5> HIDE DEF c
        <5> QED BY <5>1, <5>2 DEF Idle, Started, IInv
      <4>2. logins' \in {0, 1} /\ (otp' # None => logins' = 0)
        BY <3>2 DEF StoreCode, RecordLogin, OneLogin
      <4> QED BY <3>1, <4>1, <4>2 DEF OneLogin
    <3>3. CASE ClearCode(h)
      <4>1. otp' = None /\ UNCHANGED logins /\ req[h].pc = "clear"
        BY <3>3 DEF ClearCode
      <4>2. req'[h].pc = "record"
        <5>1. [req[h] EXCEPT !.pc = "record"].pc = "record"
          BY DEF IInv, CallOK
        <5> QED BY <3>3, <5>1 DEF ClearCode, Goto, IInv
      <4> QED BY <3>1, <4>1, <4>2 DEF OneLogin
    <3>4. CASE CountFailure(h)
      <4>1. req'[h].pc \in {"idle", "saveAttempts"}
        BY <3>4, Counted DEF CountFailure, SaveAttempts, Return, Idle, Started, IInv
      <4>2. UNCHANGED <<otp, logins>>
        BY <3>4 DEF CountFailure, ReadAttempts, SaveAttempts
      <4> QED BY <3>1, <4>1, <4>2 DEF OneLogin
    <3>5. CASE ~(StoreCode(h) \/ RecordLogin(h) \/ ClearCode(h) \/ CountFailure(h))
      <4>1. UNCHANGED <<otp, logins>>
        BY <1>1, <3>5 DEF Send, BeginSend, MakeCode, MailCode, Verify, BeginVerify, LoadUser,
                          CheckCode, Fail
      <4>2. /\ req'[h].pc \in {"idle", "find", "load", "store", "mail", "check", "clear",
                                 "readAttempts"}
            /\ req'[h].pc = "check" => req'[h].seen = otp
            /\ req'[h].pc = "clear" => req[h].pc = "check" /\ req[h].seen # None
        BY <1>1, <3>5, Placed DEF IsValid
      <4> QED BY <3>1, <4>1, <4>2 DEF OneLogin
    <3> QED BY <3>2, <3>3, <3>4, <3>5
  <2> QED BY <2>2, <2>3
<1>2. CASE Restart
  BY <1>2 DEF Restart, OneLogin, Idle, Started
<1>3. ASSUME UNCHANGED <<otp, req, logins>> PROVE OneLogin'
  BY <1>3 DEF OneLogin
<1>4. GoogleLogin \/ Tick => UNCHANGED <<otp, req, logins>>
  BY DEF GoogleLogin, Tick
<1> QED BY <1>1, <1>2, <1>3, <1>4 DEF Next, vars

LEMMA CountInit == Init => Lockout /\ OneLogin
  BY OtpAssumption DEF Init, Lockout, Counting, OneLogin, Idle, Started

----------------------------------------------------------------------------
\* "Lock after 5 failed attempts" (LockAfterFailures) and 'Account is temporarily
\* locked' (LockHolds): where the calls that take a code back do not overlap each
\* other, whatever else overlaps them, restarts or is cut short.
THEOREM LocksOut == Spec /\ []OneTry => []LockAfterFailures /\ LockHolds
<1>1. IInv /\ Lockout => LockAfterFailures
  BY OtpAssumption DEF Lockout, LockAfterFailures, IInv, Shared
<1>2. IInv /\ Lockout /\ OneTry /\ [Next]_vars => Lockout' /\ [TakenUnlocked]_vars
  BY LockoutNext, TakenNext
<1> QED BY <1>1, <1>2, CountInit, Inductive, PTL DEF Spec, LockHolds

\* "One-time password" (Once): one call at a time, a request for a code is good for
\* one login.
THEOREM LogsInOnce == Spec /\ []OneAtATime => []Once
<1>1. OneLogin => Once
  BY DEF OneLogin, Once
<1>2. IInv /\ OneLogin /\ OneAtATime /\ [Next]_vars => OneLogin'
  BY OneLoginNext
<1> QED BY <1>1, <1>2, CountInit, Inductive, PTL DEF Spec

----------------------------------------------------------------------------
\* The same of the runs' specification, in which some behaviours are serial.
LEMMA SerialRuns ==
  MCSpec => [](LockAfterFailuresSerially /\ OnceSerially) /\ LockHoldsSerially
<1> DEFINE Inv == IInv /\ (Serial => OneAtATime /\ Lockout /\ OneLogin)
<1>1. MCInit => Inv
  BY Initially, CountInit DEF MCInit, Init, OneAtATime, Idle, Started
<1>2. Inv /\ [MCNext]_<<vars, scenario>> => Inv' /\ [Serial => TakenUnlocked]_<<vars, scenario>>
  <2> SUFFICES ASSUME Inv, [MCNext]_<<vars, scenario>>
               PROVE  Inv' /\ (Serial => TakenUnlocked)
    OBVIOUS
  <2>1. [Next]_vars /\ Serial' = Serial /\ (Serial => OneAtATime')
    BY DEF MCNext, Serial, OneAtATime, vars
  <2>2. OneAtATime => OneTry
    BY DEF OneAtATime, OneTry, Tries
  <2>3. MCNext => Next
    BY DEF MCNext
  <2>4. IInv'
    BY <2>1, NextKeeps
  <2>5. Serial => Lockout' /\ OneLogin' /\ [TakenUnlocked]_vars
    BY <2>1, <2>2, LockoutNext, OneLoginNext, TakenNext
  <2> QED BY <2>1, <2>3, <2>4, <2>5 DEF vars, TakenUnlocked, IsLocked
<1>3. Inv => LockAfterFailuresSerially /\ OnceSerially
  BY OtpAssumption DEF Lockout, OneLogin, LockAfterFailuresSerially, OnceSerially, LockAfterFailures, Once,
     IInv, Shared
<1> HIDE DEF Inv
<1> QED BY <1>1, <1>2, <1>3, PTL DEF MCSpec, LockHoldsSerially

\* Of the runs: between a login or a lock and the next lock, fewer wrong codes than
\* MaxAttempts are answered (LockAfterFailuresSerially),
THEOREM LocksInTime == MCSpec => []LockAfterFailuresSerially
BY SerialRuns, PTL

\* while the account is locked no code is taken (LockHoldsSerially),
THEOREM LockKept == MCSpec => LockHoldsSerially
BY SerialRuns, PTL

\* and a request for a code is good for one login (OnceSerially).
THEOREM LogsInOnceSerially == MCSpec => []OnceSerially
BY SerialRuns, PTL
=============================================================================
