------------------------------- MODULE OtpLogin -------------------------------
(***************************************************************************)
(* Login by one-time password: the calls of AuthService that send a code   *)
(* to one e-mail address and that take it back, on the user document with  *)
(* its one slot for a code, its counter of failures and its lock.  A call  *)
(* is a handler that stops at each await.                                  *)
(*                                                                         *)
(* A code is what the TOTP generator makes of the purpose and the period   *)
(* (OTP_PERIOD) it is asked in: the same one if it is asked twice.         *)
(***************************************************************************)
EXTENDS Naturals, FiniteSets

CONSTANTS
  Handlers,     \* bound: calls in flight at a time
  Purposes,     \* the OtpPurposes a run uses
  Period,       \* OTP_PERIOD, in ticks of the clock (5 minutes in the code)
  Expiry,       \* otpExpiryMs, in ticks (10 minutes in the code)
  MaxAttempts,  \* failures that lock the account (5 in the code)
  LockTime,     \* how long it stays locked, in ticks (30 minutes in the code)
  Window,       \* otpSendWindowMs, in ticks (10 minutes in the code)
  SendLimit,    \* otpSendLimit (3 in the code)
  MaxTime,      \* bound: ticks of the clock
  None

ASSUME OtpAssumption ==
  /\ {Period, Expiry, MaxAttempts, LockTime, Window, SendLimit} \subseteq Nat \ {0}
  /\ MaxTime \in Nat
  /\ Purposes \subseteq {"login", "verify_email", "onboarding"}
  /\ None \notin [code: [purpose: Purposes, period: Nat], expires: Nat]

VARIABLES
  now,
  otp,        \* otpCode with its otpPurpose and otpExpires, or None
  attempts,   \* loginAttempts
  lockUntil,  \* 0 for null
  sends,      \* sends[t]: the codes this process was asked for at time t
  req,        \* req[h]: the call in handler h
  inbox,      \* the codes that were mailed
  guesses,    \* history: wrong codes answered since the last login or lock set
  logins      \* history: the logins by code since one was stored, at most 2

vars == <<now, otp, attempts, lockUntil, sends, req, inbox, guesses, logins>>
account == <<attempts, lockUntil, guesses>>

Time == 0..MaxTime
Codes == [purpose: Purposes, period: Time]  \* period: now \div Period
Stored == [code: Codes, expires: 0..(MaxTime + Expiry)]

\* Attempts stay below this, as long as each call adds one.
Counts == 0..(MaxAttempts + 2 * Cardinality(Handlers))
Locks == 0..(MaxTime + LockTime)

Places == {"idle", "find", "store", "mail", "load", "check", "readAttempts",
           "saveAttempts", "clear", "record"}

Call == [pc: Places,
         purpose: Purposes \cup {None},
         given: Codes \cup {None},        \* the code the client presents
         seen: Stored \cup {None},        \* the slot as loaded, or about to be stored
         attempts: Counts, lock: Locks,   \* the counter and lock about to be saved
         setsLock: BOOLEAN]               \* whether the save names lockUntil

Started(pc, p, c) == [pc |-> pc, purpose |-> p, given |-> c, seen |-> None,
                      attempts |-> 0, lock |-> 0, setsLock |-> FALSE]

Idle == Started("idle", None, None)

TypeOK ==
  /\ now \in Time /\ otp \in Stored \cup {None}
  /\ attempts \in Counts /\ lockUntil \in Locks
  /\ sends \in [Time -> 0..SendLimit]
  /\ req \in [Handlers -> Call]
  /\ inbox \subseteq Codes /\ guesses \in Nat /\ logins \in 0..2

Init ==
  /\ now = 0 /\ otp = None /\ attempts = 0 /\ lockUntil = 0
  /\ sends = [t \in Time |-> 0]
  /\ req = [h \in Handlers |-> Idle]
  /\ inbox = {} /\ guesses = 0 /\ logins = 0

\* user.isLocked
IsLocked == lockUntil > now

Goto(h, pc) == req' = [req EXCEPT ![h].pc = pc]
Return(h) == req' = [req EXCEPT ![h] = Idle]

----------------------------------------------------------------------------
\* enforceEmailOtpRateLimit
Recent == {t \in Time : now - t < Window /\ t <= now}
RecentSends == {s \in Recent \X (1..SendLimit) : s[2] <= sends[s[1]]}
MaySend == Cardinality(RecentSends) < SendLimit

\* sendOtp, sendInviteOtp, and handleGoogleAuth when it asks for a step-up: the
\* request counts before anything is sent.
BeginSend(h) ==
  /\ req[h].pc = "idle" /\ MaySend
  /\ sends' = [sends EXCEPT ![now] = @ + 1]
  /\ \E p \in Purposes : req' = [req EXCEPT ![h] = Started("find", p, None)]
  /\ UNCHANGED <<now, otp, account, inbox, logins>>

\* prepareOtp: a locked account gets no code.
MakeCode(h) ==
  /\ req[h].pc = "find"
  /\ IF IsLocked THEN Return(h)
     ELSE req' = [req EXCEPT ![h].pc = "store", ![h].seen =
            [code |-> [purpose |-> req[h].purpose, period |-> now \div Period],
             expires |-> now + Expiry]]
  /\ UNCHANGED <<now, otp, account, sends, inbox, logins>>

\* setOtp: over whatever code was there.
StoreCode(h) ==
  /\ req[h].pc = "store"
  /\ otp' = req[h].seen /\ logins' = 0
  /\ Goto(h, "mail")
  /\ UNCHANGED <<now, account, sends, inbox>>

MailCode(h) ==
  /\ req[h].pc = "mail"
  /\ inbox' = inbox \cup {req[h].seen.code}
  /\ Return(h)
  /\ UNCHANGED <<now, otp, account, sends, logins>>

----------------------------------------------------------------------------
\* verifyOtp, verifyStepUpOtp and acceptInvite, with a code that was mailed or a
\* wrong one.
BeginVerify(h) ==
  /\ req[h].pc = "idle"
  /\ \E p \in Purposes, c \in inbox \cup {None} :
       req' = [req EXCEPT ![h] = Started("load", p, c)]
  /\ UNCHANGED <<now, otp, account, sends, inbox, logins>>

\* A faulty variant: no look at the lock.
MayTryAlways == TRUE
\* ensureNotLocked
MayTry == ~IsLocked

LoadUser(h) ==
  /\ req[h].pc = "load"
  /\ IF MayTry THEN req' = [req EXCEPT ![h] = [@ EXCEPT !.pc = "check", !.seen = otp]]
     ELSE Return(h)
  /\ UNCHANGED <<now, otp, account, sends, inbox, logins>>

\* Two faulty variants of isStoredOtpValid: the purpose, the expiry not looked at.
IsValidAnyPurpose(r) ==
  /\ r.seen # None /\ r.seen.expires >= now /\ r.given = r.seen.code
IsValidForEver(r) ==
  /\ r.seen # None /\ r.seen.code.purpose = r.purpose /\ r.given = r.seen.code

\* isStoredOtpValid: the slot as it was loaded, and the time it is now.
IsValid(r) ==
  /\ r.seen # None
  /\ r.seen.code.purpose = r.purpose
  /\ r.seen.expires >= now
  /\ r.given = r.seen.code

CheckCode(h) ==
  /\ req[h].pc = "check"
  /\ Goto(h, IF IsValid(req[h]) THEN "clear" ELSE "readAttempts")
  /\ UNCHANGED <<now, otp, account, sends, inbox, logins>>

\* A faulty variant: the code stays.
ClearNothing(h) ==
  /\ req[h].pc = "clear"
  /\ Goto(h, "record")
  /\ UNCHANGED <<now, otp, account, sends, inbox, logins>>

ClearCode(h) ==
  /\ req[h].pc = "clear"
  /\ otp' = None
  /\ Goto(h, "record")
  /\ UNCHANGED <<now, account, sends, inbox, logins>>

\* recordLogin, and the tokens that go with it.
RecordLogin(h) ==
  /\ req[h].pc = "record"
  /\ attempts' = 0 /\ lockUntil' = 0 /\ guesses' = 0
  /\ logins' = IF logins = 0 THEN 1 ELSE 2
  /\ Return(h)
  /\ UNCHANGED <<now, otp, sends, inbox>>

\* handleGoogleAuth: no code, no look at the lock, and the lock is lifted.
GoogleLogin ==
  /\ attempts' = 0 /\ lockUntil' = 0 /\ guesses' = 0
  /\ UNCHANGED <<now, otp, sends, req, inbox, logins>>

\* incrementLoginAttempts: the document is read, counted up in memory and saved
\* with the fields that changed.
LockPassed == lockUntil # 0 /\ lockUntil < now
Count == IF LockPassed THEN 1 ELSE attempts + 1
\* A faulty variant: one failure later.
MustLockLater(n) == n > MaxAttempts /\ ~IsLocked
MustLock(n) == n >= MaxAttempts /\ ~IsLocked

ReadAttempts(h) ==
  /\ req[h].pc = "readAttempts" /\ Count \in Counts
  /\ req' = [req EXCEPT ![h] = [@ EXCEPT !.pc = "saveAttempts", !.attempts = Count,
       !.setsLock = LockPassed \/ MustLock(Count),
       !.lock = IF MustLock(Count) THEN now + LockTime ELSE 0]]
  /\ UNCHANGED <<now, otp, account, sends, inbox, logins>>

\* The client is told that the code is wrong.
SaveAttempts(h) ==
  LET r == req[h] IN
  /\ r.pc = "saveAttempts"
  /\ attempts' = r.attempts
  /\ lockUntil' = IF r.setsLock THEN r.lock ELSE lockUntil
  /\ guesses' = IF r.setsLock /\ r.lock # 0 THEN 0 ELSE guesses + 1
  /\ Return(h)
  /\ UNCHANGED <<now, otp, sends, inbox, logins>>

----------------------------------------------------------------------------
\* An exception (the mail server's, say): what the call has written stays.
Fail(h) ==
  /\ req[h].pc # "idle"
  /\ Return(h)
  /\ UNCHANGED <<now, otp, account, sends, inbox, logins>>

\* The process restarts: it forgets its calls and the history of requests.
Restart ==
  /\ req' = [h \in Handlers |-> Idle]
  /\ sends' = [t \in Time |-> 0]
  /\ UNCHANGED <<now, otp, account, inbox, logins>>

Tick ==
  /\ now < MaxTime
  /\ now' = now + 1
  /\ UNCHANGED <<otp, account, sends, req, inbox, logins>>

Send(h) == BeginSend(h) \/ MakeCode(h) \/ StoreCode(h) \/ MailCode(h)
Verify(h) == BeginVerify(h) \/ LoadUser(h) \/ CheckCode(h) \/ ClearCode(h) \/ RecordLogin(h)
CountFailure(h) == ReadAttempts(h) \/ SaveAttempts(h)

Next ==
  \/ \E h \in Handlers : Send(h) \/ Verify(h) \/ CountFailure(h) \/ Fail(h)
  \/ GoogleLogin \/ Restart \/ Tick

Spec == Init /\ [][Next]_vars

----------------------------------------------------------------------------
\* "prevents cross-use between flows": a call that gets as far as to log in has
\* presented a code that was made for its own purpose.
OwnPurpose == \A h \in Handlers :
  req[h].pc \in {"clear", "record"} => req[h].given.purpose = req[h].purpose

\* No code is taken later than Expiry after the last moment of the period it is of,
\* however often it is sent again and whatever the calls overlap with.
CodesExpire ==
  [][\A h \in Handlers : req[h].pc = "check" /\ req'[h].pc = "clear"
       => now < (req[h].given.period + 1) * Period + Expiry]_vars

\* "Lock after 5 failed attempts": between a login or a lock and the next lock,
\* fewer wrong codes than that are answered.
LockAfterFailures == guesses < MaxAttempts

\* 'Account is temporarily locked': while it is, no code is taken.
TakenUnlocked == \A h \in Handlers :
  req[h].pc = "check" /\ req'[h].pc = "clear" => ~IsLocked
LockHolds == [][TakenUnlocked]_vars

\* "One-time password": each request for a code is good for one login.
Once == logins <= 1
=============================================================================
