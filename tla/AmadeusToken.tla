----------------------------- MODULE AmadeusToken -----------------------------
(***************************************************************************)
(* The access token of AmadeusClient: kept until a minute before it        *)
(* expires, fetched again when a request finds none, by every request that *)
(* comes while a fetch is under way too.  A token is told by the time at   *)
(* which the server of Amadeus has issued it.                              *)
(***************************************************************************)
EXTENDS Integers

CONSTANTS
  Callers,   \* bound: requests under way at a time
  Lifetime,  \* expires_in
  Margin,    \* how much earlier a token is given up (60 seconds)
  Delay,     \* how long an answer of the server of tokens may take
  MaxTime,   \* bound: ticks of the clock
  None

\* No answer takes longer than the margin; the code sets no timeout of its own.
TokenAssumption ==
  /\ {Lifetime, Margin, Delay, MaxTime} \subseteq Nat
  /\ Delay <= Margin /\ Margin < Lifetime
  /\ None \notin Nat

VARIABLES
  now,
  accessToken, tokenExpiry,  \* what the client keeps
  call                       \* call[c]: the request c

tokenVars == <<now, accessToken, tokenExpiry, call>>

Time == 0..MaxTime

\* token: what the server has answered, or what the request is sent with.
Call == [pc: {"idle", "fetch", "answer", "sent"}, token: Time \cup {None}]
Idle == [pc |-> "idle", token |-> None]

TypeOK ==
  /\ now \in Time /\ accessToken \in Time \cup {None} /\ tokenExpiry \in Int
  /\ call \in [Callers -> Call]

Init ==
  /\ now = 0 /\ accessToken = None /\ tokenExpiry = 0
  /\ call = [c \in Callers |-> Idle]

----------------------------------------------------------------------------
Usable == accessToken # None /\ now < tokenExpiry

\* A request is sent with the token that is kept, or a token is fetched first.
SendCached(c) ==
  /\ call[c].pc = "idle" /\ Usable
  /\ call' = [call EXCEPT ![c] = [pc |-> "sent", token |-> accessToken]]
  /\ UNCHANGED <<now, accessToken, tokenExpiry>>

Fetch(c) ==
  /\ call[c].pc = "idle" /\ ~Usable
  /\ call' = [call EXCEPT ![c] = [pc |-> "fetch", token |-> None]]
  /\ UNCHANGED <<now, accessToken, tokenExpiry>>

\* The server makes a token...
Grant(c) ==
  /\ call[c].pc = "fetch"
  /\ call' = [call EXCEPT ![c] = [pc |-> "answer", token |-> now]]
  /\ UNCHANGED <<now, accessToken, tokenExpiry>>

\* A faulty variant: a token is kept to its very end.
ExpiryAtEnd == now + Lifetime
\* ... and its life is counted from the moment the answer arrives.
Expiry == now + Lifetime - Margin

SendFetched(c) ==
  /\ call[c].pc = "answer"
  /\ accessToken' = call[c].token /\ tokenExpiry' = Expiry
  /\ call' = [call EXCEPT ![c].pc = "sent"]
  /\ UNCHANGED now

\* The request ends, or fetching has failed.
End(c) ==
  /\ call[c].pc # "idle"
  /\ call' = [call EXCEPT ![c] = Idle]
  /\ UNCHANGED <<now, accessToken, tokenExpiry>>

\* No answer is under way for longer than Delay.
Tick ==
  /\ now < MaxTime
  /\ \A c \in Callers : call[c].pc = "answer" => now < call[c].token + Delay
  /\ now' = now + 1
  /\ UNCHANGED <<accessToken, tokenExpiry, call>>

Next ==
  \/ \E c \in Callers : SendCached(c) \/ Fetch(c) \/ Grant(c) \/ SendFetched(c) \/ End(c)
  \/ Tick

Spec == Init /\ [][Next]_tokenVars

----------------------------------------------------------------------------
\* "Using cached Amadeus access token": no request is sent with a token that has
\* expired, whatever fetches overlap and in whatever order they are answered.
SentValid == \A c \in Callers :
  call[c].pc # "sent" /\ call'[c].pc = "sent" => now < call'[c].token + Lifetime
NeverExpired == [][SentValid]_tokenVars
=============================================================================
