------------------------------ MODULE Sessions ------------------------------
(***************************************************************************)
(* Refresh-token sessions: the calls of AuthService that issue, rotate and *)
(* revoke refresh tokens, on one collection of token documents.  A call is *)
(* a handler that stops at each await; its pc names the database command   *)
(* it is about to issue.  What the calls only read for the access token    *)
(* they sign, or count for their answer, is left out.                      *)
(***************************************************************************)
EXTENDS Naturals

CONSTANTS
  Users,
  SystemUsers,  \* those of them that can be activated again
  Tokens,       \* bound: the refresh tokens that can ever be issued
  Handlers,     \* bound: calls in flight at a time
  Ops,          \* the operations the clients of a run call
  Eras,         \* bound: how often all sessions of a user are terminated
  None

ASSUME SessionsAssumption ==
  /\ None \notin Users /\ None \notin Tokens
  /\ SystemUsers \subseteq Users
  /\ Ops \subseteq {"login", "refresh", "logout", "logoutAll", "revokeSession"}
ASSUME ErasAssumption == 0 \in Eras /\ Eras \subseteq Nat

VARIABLES
  session,   \* session[t]: the document of refresh token t
  expired,   \* the tokens past their expiresAt
  active,    \* the users with isActive
  req,       \* req[h]: the call in handler h
  era        \* history: how often all sessions of a user were terminated

vars == <<session, expired, active, req, era>>

\* parent, era and whileActive are history: the token that was rotated into this
\* one, the era its login belongs to, whether its user was active at its birth.
Session == [status: {"unissued", "live", "revoked", "deleted"},
            user: Users \cup {None}, parent: Tokens \cup {None},
            era: Eras, whileActive: BOOLEAN]

PCs == {"idle", "find", "rotate", "user", "issue", "reuse", "revokeOne",
        "revokeAll", "check"}

Idle == [pc |-> "idle", user |-> None, token |-> None]

TypeOK ==
  /\ session \in [Tokens -> Session]
  /\ expired \subseteq Tokens
  /\ active \subseteq Users
  /\ req \in [Handlers -> [pc: PCs, user: Users \cup {None}, token: Tokens \cup {None}]]
  /\ era \in [Users -> Eras]
  /\ \A t \in Tokens : session[t].status # "unissued" => session[t].user \in Users
  /\ \A h \in Handlers :
       /\ req[h].pc # "idle" => req[h].user \in Users
       /\ req[h].pc \in {"find", "rotate", "user", "reuse", "revokeOne", "check"} =>
            req[h].token \in Tokens
       /\ req[h].token # None =>
            /\ session[req[h].token].status # "unissued"
            /\ session[req[h].token].user = req[h].user

Init ==
  /\ session = [t \in Tokens |-> [status |-> "unissued", user |-> None, parent |-> None,
                                  era |-> 0, whileActive |-> TRUE]]
  /\ expired = {}
  /\ active = Users
  /\ req = [h \in Handlers |-> Idle]
  /\ era = [u \in Users |-> 0]

Live(t) == session[t].status = "live"

Goto(h, pc) == req' = [req EXCEPT ![h].pc = pc]
Return(h) == req' = [req EXCEPT ![h] = Idle]

Revoke(T) == session' = [t \in Tokens |->
  IF t \in T /\ Live(t) THEN [session[t] EXCEPT !.status = "revoked"] ELSE session[t]]

----------------------------------------------------------------------------
Arrive(h, op, pc, u, t) ==
  /\ req[h].pc = "idle" /\ op \in Ops
  /\ req' = [req EXCEPT ![h] = [pc |-> pc, user |-> u, token |-> t]]
  /\ UNCHANGED <<session, expired, active, era>>

\* verifyOtp, verifyStepUpOtp, acceptInvite, handleGoogleAuth and
\* activateTravellerProfile end by issuing a token, whether or not the user is
\* active.
BeginLogin(h) == \E u \in Users : Arrive(h, "login", "issue", u, None)

Known(t) == session[t].status # "unissued"

\* The calls that name a token: clients know the ones that were issued to them.
BeginWithToken(h) ==
  \E t \in Tokens :
    /\ Known(t)
    /\ \/ Arrive(h, "refresh", "find", session[t].user, t)
       \/ Arrive(h, "logout", "revokeOne", session[t].user, t)
       \/ Arrive(h, "revokeSession", "check", session[t].user, t)

\* logout without a token, revokeAllSessions.
BeginLogoutAll(h) == \E u \in Users : Arrive(h, "logoutAll", "revokeAll", u, None)

\* refreshTokens: the token must be there, unrevoked and unexpired.  A revoked
\* one is taken for stolen.
FindToken(h) ==
  LET t == req[h].token IN
  /\ req[h].pc = "find"
  /\ \/ session[t].status = "revoked" /\ Goto(h, "reuse")
     \/ Live(t) /\ t \notin expired /\ Goto(h, "rotate")
     \/ (session[t].status = "deleted" \/ (Live(t) /\ t \in expired)) /\ Return(h)
  /\ UNCHANGED <<session, expired, active, era>>

\* A faulty variant: the old token is left valid.
RotateNothing(h) ==
  /\ req[h].pc = "rotate"
  /\ Goto(h, "user")
  /\ UNCHANGED <<session, expired, active, era>>

\* revoke by id, whatever happened to the token since it was found.
Rotate(h) ==
  /\ req[h].pc = "rotate"
  /\ Revoke({req[h].token})
  /\ Goto(h, "user")
  /\ UNCHANGED <<expired, active, era>>

\* A faulty variant: isActive not looked at.
MayRefreshAnyone(u) == TRUE
MayRefresh(u) == u \in active

\* The old token is gone for good when the user turns out to be inactive.
LoadUser(h) ==
  /\ req[h].pc = "user"
  /\ IF MayRefresh(req[h].user) THEN Goto(h, "issue") ELSE Return(h)
  /\ UNCHANGED <<session, expired, active, era>>

\* generateRefreshToken: the document of a token nobody has seen yet.
Issue(h) ==
  LET u == req[h].user  p == req[h].token IN
  /\ req[h].pc = "issue"
  /\ \E t \in Tokens :
       /\ session[t].status = "unissued"
       /\ session' = [session EXCEPT ![t] =
            [status |-> "live", user |-> u, parent |-> p,
             era |-> IF p = None THEN era[u] ELSE session[p].era,
             whileActive |-> u \in active]]
  /\ Return(h)
  /\ UNCHANGED <<expired, active, era>>

\* A faulty variant: only the sessions that no refresh has touched.
FirstTokensOf(u) == {t \in Tokens : session[t].user = u /\ session[t].parent = None}
TokensOf(u) == {t \in Tokens : session[t].user = u}

\* revokeAllForUser: one updateMany; after it the client is told that all
\* sessions are terminated, or revoked.
RevokeAll(h) ==
  LET u == req[h].user IN
  /\ req[h].pc \in {"reuse", "revokeAll"}
  /\ Revoke(TokensOf(u))
  /\ era[u] + 1 \in Eras
  /\ era' = [era EXCEPT ![u] = @ + 1]
  /\ Return(h)
  /\ UNCHANGED <<expired, active>>

\* revokeSession: nothing to do for a session that is not active.
CheckSession(h) ==
  /\ req[h].pc = "check"
  /\ IF Live(req[h].token) /\ req[h].token \notin expired THEN Goto(h, "revokeOne") ELSE Return(h)
  /\ UNCHANGED <<session, expired, active, era>>

RevokeOne(h) ==
  /\ req[h].pc = "revokeOne"
  /\ Revoke({req[h].token})
  /\ Return(h)
  /\ UNCHANGED <<expired, active, era>>

----------------------------------------------------------------------------
\* An exception, a crash: what the call has written stays.
Fail(h) ==
  /\ req[h].pc # "idle"
  /\ Return(h)
  /\ UNCHANGED <<session, expired, active, era>>

\* Seven days pass.
Expire(t) ==
  /\ Live(t) /\ t \notin expired
  /\ expired' = expired \cup {t}
  /\ UNCHANGED <<session, active, req, era>>

\* The TTL index removes an expired document some time later.
Purge(t) ==
  /\ t \in expired /\ session[t].status \in {"live", "revoked"}
  /\ session' = [session EXCEPT ![t].status = "deleted"]
  /\ UNCHANGED <<expired, active, req, era>>

\* deactivateUser: sessions are left alone.
Deactivate(u) ==
  /\ u \in active
  /\ active' = active \ {u}
  /\ UNCHANGED <<session, expired, req, era>>

\* updateSystemUser can set isActive again, for system users only.
Reactivate(u) ==
  /\ u \in SystemUsers \ active
  /\ active' = active \cup {u}
  /\ UNCHANGED <<session, expired, req, era>>

Refresh(h) == FindToken(h) \/ Rotate(h) \/ LoadUser(h) \/ Issue(h)
Terminate(h) == RevokeAll(h) \/ CheckSession(h) \/ RevokeOne(h)

Next ==
  \/ \E h \in Handlers :
       \/ BeginLogin(h) \/ BeginWithToken(h) \/ BeginLogoutAll(h)
       \/ Refresh(h) \/ Terminate(h) \/ Fail(h)
  \/ \E t \in Tokens : Expire(t) \/ Purge(t)
  \/ \E u \in Users : Deactivate(u) \/ Reactivate(u)

Spec == Init /\ [][Next]_vars

----------------------------------------------------------------------------
\* Rotation leaves no second key: a token that was exchanged for another is
\* not live, and neither is one about to be.
RotatedOut ==
  /\ \A t \in Tokens : session[t].parent # None => ~Live(session[t].parent)
  /\ \A h \in Handlers :
       req[h].pc \in {"user", "issue"} /\ req[h].token # None => ~Live(req[h].token)

\* The sessions of a deactivated account die out: the user is loaded once per
\* refresh, so a refresh in flight may still issue a token, but the next one
\* finds the user inactive.  (Not so for accounts that can be reactivated.)
DeadChains ==
  \A t \in Tokens :
    /\ session[t].user \notin SystemUsers
    /\ session[t].parent # None
    => session[t].whileActive \/ session[session[t].parent].whileActive

\* "Refresh token pair (strict rotation).": a token is exchanged once.
StrictRotation ==
  \A s, t \in Tokens :
    session[s].parent # None /\ session[s].parent = session[t].parent => s = t

\* 'Security violation detected. All sessions terminated.': no session that goes
\* back to a login before the termination is alive after it.
AllTerminated == \A t \in Tokens : Live(t) => session[t].era = era[session[t].user]

=============================================================================
