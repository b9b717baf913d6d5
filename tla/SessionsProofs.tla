--------------------------- MODULE SessionsProofs ---------------------------
(***************************************************************************)
(* Refresh-token sessions, for any number of users, tokens and handlers.   *)
(* That rotation leaves no second key (RotatedOut) needs Lineage: a token  *)
(* that was exchanged was issued once, so that it cannot become live.      *)
(* That the sessions of a deactivated account die out needs BornActive,    *)
(* and what holds when calls do not overlap needs Untouched.               *)
(***************************************************************************)
EXTENDS MCSessions, TLAPS

Lineage ==
  \A t \in Tokens : session[t].parent # None =>
    session[session[t].parent].status # "unissued"

IInv == TypeOK /\ Lineage /\ RotatedOut

\* The invariant holds at the start.
LEMMA StartsRotated == Init => IInv
  BY SessionsAssumption, ErasAssumption
     DEF Init, IInv, TypeOK, Lineage, RotatedOut, Session, PCs, Idle, Live

\* A call arrives.
LEMMA ArriveKeeps ==
  ASSUME IInv, NEW h \in Handlers, BeginLogin(h) \/ BeginWithToken(h) \/ BeginLogoutAll(h)
  PROVE  IInv'
<1>1. PICK pc \in {"issue", "find", "revokeOne", "check", "revokeAll"},
           u \in Users, t \in Tokens \cup {None} :
        /\ req' = [req EXCEPT ![h] = [pc |-> pc, user |-> u, token |-> t]]
        /\ t # None => session[t].status # "unissued" /\ session[t].user = u
        /\ pc = "issue" => t = None
        /\ pc \in {"find", "revokeOne", "check"} => t \in Tokens
        /\ UNCHANGED <<session, expired, active, era>>
  <2>1. CASE BeginLogin(h)
    BY <2>1 DEF BeginLogin, Arrive
  <2>2. CASE BeginWithToken(h)
    BY <2>2 DEF BeginWithToken, Known, Arrive, IInv, TypeOK
  <2>3. CASE BeginLogoutAll(h)
    BY <2>3 DEF BeginLogoutAll, Arrive
  <2>4. QED
    BY <2>1, <2>2, <2>3
<1>2. TypeOK'
  BY <1>1 DEF IInv, TypeOK, PCs
<1>3. Lineage'
  BY <1>1 DEF IInv, Lineage
<1>4. RotatedOut'
  BY <1>1 DEF IInv, TypeOK, RotatedOut, Live
<1>5. QED
  BY <1>2, <1>3, <1>4 DEF IInv

\* A call moves on or returns, and writes nothing.
LEMMA MoveKeeps ==
  ASSUME IInv, NEW h \in Handlers,
         FindToken(h) \/ LoadUser(h) \/ CheckSession(h) \/ Fail(h)
  PROVE  IInv'
<1>1. UNCHANGED <<session, expired, active, era>>
  BY DEF FindToken, LoadUser, CheckSession, Fail
<1>2. \/ req' = [req EXCEPT ![h] = Idle]
      \/ \E pc \in {"reuse", "rotate", "issue", "revokeOne"} :
           /\ req' = [req EXCEPT ![h].pc = pc]
           /\ req[h].token \in Tokens /\ req[h].user \in Users
           /\ pc = "issue" => req[h].pc = "user"
  BY DEF FindToken, LoadUser, CheckSession, Fail, Goto, Return, IInv, TypeOK
<1>3. TypeOK'
  BY <1>1, <1>2 DEF IInv, TypeOK, PCs, Idle
<1>4. Lineage'
  BY <1>1 DEF IInv, Lineage
<1>5. RotatedOut'
  BY <1>1, <1>2 DEF IInv, TypeOK, RotatedOut, Live, Idle
<1>6. QED
  BY <1>3, <1>4, <1>5 DEF IInv

\* Revoking tokens changes nothing but the status of live ones.
LEMMA RevokeTyped ==
  ASSUME TypeOK, NEW T, Revoke(T)
  PROVE  /\ session' \in [Tokens -> Session]
         /\ \A t \in Tokens :
              /\ session'[t].parent = session[t].parent /\ session'[t].user = session[t].user
              /\ session'[t].status = "unissued" <=> session[t].status = "unissued"
              /\ Live(t)' => Live(t) /\ t \notin T
<1>1. \A t \in Tokens : [session[t] EXCEPT !.status = "revoked"] \in Session
  BY DEF TypeOK, Session
<1>2. QED
  BY <1>1 DEF Revoke, TypeOK, Session, Live

LEMMA RevokeKeeps ==
  ASSUME IInv, NEW h \in Handlers, Rotate(h) \/ RevokeAll(h) \/ RevokeOne(h)
  PROVE  IInv'
<1>1. PICK T : Revoke(T) /\ (req[h].pc = "rotate" => req[h].token \in T)
  BY DEF Rotate, RevokeAll, RevokeOne
<1>2. /\ session' \in [Tokens -> Session]
      /\ \A t \in Tokens :
           /\ session'[t].parent = session[t].parent /\ session'[t].user = session[t].user
           /\ session'[t].status = "unissued" <=> session[t].status = "unissued"
           /\ Live(t)' => Live(t) /\ t \notin T
  BY <1>1, RevokeTyped DEF IInv
<1>3. /\ \/ req' = [req EXCEPT ![h] = Idle]
         \/ req[h].pc = "rotate" /\ req' = [req EXCEPT ![h].pc = "user"]
      /\ UNCHANGED <<expired, active>>
      /\ era' \in [Users -> Eras]
  <2>1. CASE Rotate(h)
    BY <2>1 DEF Rotate, Goto, IInv, TypeOK
  <2>2. CASE RevokeAll(h)
    BY <2>2 DEF RevokeAll, Return, IInv, TypeOK
  <2>3. CASE RevokeOne(h)
    BY <2>3 DEF RevokeOne, Return, IInv, TypeOK
  <2>4. QED
    BY <2>1, <2>2, <2>3
<1>4. /\ req' \in [Handlers -> [pc: PCs, user: Users \cup {None}, token: Tokens \cup {None}]]
      /\ \A g \in Handlers \ {h} : req'[g] = req[g]
      /\ \/ req'[h] = Idle
         \/ /\ req[h].pc = "rotate" /\ req'[h].pc = "user"
            /\ req'[h].token = req[h].token /\ req'[h].user = req[h].user
  BY <1>3 DEF IInv, TypeOK, PCs, Idle
<1>5. TypeOK'
  <2>2. \A t \in Tokens : session'[t].status # "unissued" => session'[t].user \in Users
    BY <1>2 DEF IInv, TypeOK
  <2>3. ASSUME NEW g \in Handlers
        PROVE  /\ req'[g].pc # "idle" => req'[g].user \in Users
               /\ req'[g].pc \in {"find", "rotate", "user", "reuse", "revokeOne", "check"} =>
                    req'[g].token \in Tokens
               /\ req'[g].token # None =>
                    /\ session'[req'[g].token].status # "unissued"
                    /\ session'[req'[g].token].user = req'[g].user
    BY <1>2, <1>4 DEF IInv, TypeOK, Idle
  <2>4. expired' \subseteq Tokens /\ active' \subseteq Users
    BY <1>3 DEF IInv, TypeOK
  <2>5. QED
    BY <1>2, <1>3, <1>4, <2>2, <2>3, <2>4 DEF TypeOK
<1>6. Lineage'
  BY <1>2 DEF IInv, Lineage, TypeOK, Session
<1>7. RotatedOut'
  <2>1. \A t \in Tokens : session'[t].parent # None => ~Live(session[t].parent)'
    BY <1>2 DEF IInv, RotatedOut, TypeOK, Session
  <2>2. ASSUME NEW g \in Handlers, req'[g].pc \in {"user", "issue"}, req'[g].token # None
        PROVE  ~Live(req[g].token)'
    <3>1. req'[g].token = req[g].token /\ req[g].token \in Tokens
      BY <1>4, <2>2 DEF IInv, TypeOK, Idle
    <3>2. CASE req'[g] = req[g]
      BY <1>2, <2>2, <3>1, <3>2 DEF IInv, RotatedOut
    <3>3. CASE req[g].pc = "rotate" /\ g = h
      BY <1>1, <1>2, <3>1, <3>3
    <3>4. QED
      BY <1>4, <2>2, <3>2, <3>3 DEF Idle
  <2>3. QED
    BY <2>1, <2>2 DEF RotatedOut
<1>8. QED
  BY <1>5, <1>6, <1>7 DEF IInv

\* A token is issued.
LEMMA IssueKeeps ==
  ASSUME IInv, NEW h \in Handlers, Issue(h)
  PROVE  IInv'
<1> DEFINE doc == [status |-> "live", user |-> req[h].user, parent |-> req[h].token,
                   era |-> IF req[h].token = None THEN era[req[h].user]
                           ELSE session[req[h].token].era,
                   whileActive |-> req[h].user \in active]
<1>1. PICK t \in Tokens :
        /\ session[t].status = "unissued"
        /\ session' = [session EXCEPT ![t] = doc]
        /\ req' = [req EXCEPT ![h] = Idle]
        /\ UNCHANGED <<expired, active, era>>
  BY DEF Issue, Return
<1>2. /\ req[h].pc = "issue" /\ req[h].user \in Users
      /\ req[h].token \in Tokens \cup {None}
      /\ req[h].token # None => /\ session[req[h].token].status # "unissued"
                                /\ ~Live(req[h].token)
  BY DEF Issue, IInv, TypeOK, RotatedOut
<1>3. doc \in Session
  <2>1. (IF req[h].token = None THEN era[req[h].user] ELSE session[req[h].token].era) \in Eras
    BY <1>2 DEF IInv, TypeOK, Session
  <2>2. (req[h].user \in active) \in BOOLEAN
    OBVIOUS
  <2>3. QED
    BY <1>2, <2>1, <2>2 DEF Session
<1>4. doc.status = "live" /\ doc.parent = req[h].token /\ doc.user = req[h].user
  OBVIOUS
<1> HIDE DEF doc
<1>5. /\ session' \in [Tokens -> Session]
      /\ \A s \in Tokens \ {t} : session'[s] = session[s]
      /\ session'[t] = doc
  BY <1>1, <1>3 DEF IInv, TypeOK
<1>6. TypeOK'
  BY <1>1, <1>2, <1>4, <1>5 DEF IInv, TypeOK, PCs, Idle
<1>7. Lineage'
  BY <1>1, <1>2, <1>4, <1>5 DEF IInv, Lineage, TypeOK, Session
<1>8. RotatedOut'
  <2>1. ASSUME NEW s \in Tokens, session'[s].parent # None PROVE ~Live(session[s].parent)'
    <3>1. CASE s = t
      BY <1>1, <1>2, <1>4, <1>5, <2>1, <3>1 DEF Live
    <3>2. CASE s # t
      <4>1. session'[s] = session[s] /\ session[s].parent \in Tokens
        BY <1>5, <2>1, <3>2 DEF IInv, TypeOK, Session
      <4>2. session[s].parent # t /\ ~Live(session[s].parent)
        BY <1>1, <2>1, <4>1 DEF IInv, Lineage, RotatedOut
      <4>3. QED
        BY <1>5, <4>1, <4>2 DEF Live
    <3>3. QED
      BY <3>1, <3>2
  <2>2. ASSUME NEW g \in Handlers, req'[g].pc \in {"user", "issue"}, req'[g].token # None
        PROVE  ~Live(req[g].token)'
    <3>1. req'[g] = req[g] /\ req[g].token \in Tokens
      BY <1>1, <2>2 DEF Idle, IInv, TypeOK
    <3>2. req[g].token # t /\ ~Live(req[g].token)
      BY <1>1, <2>2, <3>1 DEF IInv, TypeOK, RotatedOut
    <3>3. QED
      BY <1>5, <3>1, <3>2 DEF Live
  <2>3. QED
    BY <2>1, <2>2 DEF RotatedOut
<1>9. QED
  BY <1>6, <1>7, <1>8 DEF IInv

\* Time, the TTL index and the administrators.
LEMMA AroundKeeps ==
  ASSUME IInv, \/ \E t \in Tokens : Expire(t) \/ Purge(t)
               \/ \E u \in Users : Deactivate(u) \/ Reactivate(u)
               \/ UNCHANGED vars
  PROVE  IInv'
<1>1. CASE \E t \in Tokens : Purge(t)
  <2>1. PICK t \in Tokens : Purge(t)
    BY <1>1
  <2>2. /\ session' \in [Tokens -> Session]
        /\ \A s \in Tokens :
             /\ session'[s].parent = session[s].parent /\ session'[s].user = session[s].user
             /\ session'[s].status = "unissued" <=> session[s].status = "unissued"
             /\ Live(s)' => Live(s)
    BY <2>1 DEF Purge, IInv, TypeOK, Session, Live
  <2>3. UNCHANGED <<expired, active, req, era>>
    BY <2>1 DEF Purge
  <2>4. TypeOK'
    BY <2>2, <2>3 DEF IInv, TypeOK
  <2>5. Lineage'
    BY <2>2 DEF IInv, Lineage, TypeOK, Session
  <2>6. RotatedOut'
    BY <2>2, <2>3 DEF IInv, RotatedOut, TypeOK, Session, Live
  <2>7. QED
    BY <2>4, <2>5, <2>6 DEF IInv
<1>2. CASE ~\E t \in Tokens : Purge(t)
  <2>1. /\ UNCHANGED <<session, req, era>> /\ expired' \subseteq Tokens /\ active' \subseteq Users
    BY <1>2, SessionsAssumption DEF Expire, Deactivate, Reactivate, vars, IInv, TypeOK
  <2>2. QED
    BY <2>1 DEF IInv, TypeOK, Lineage, RotatedOut, Live
<1>3. QED
  BY <1>1, <1>2

LEMMA IInvNext == IInv /\ [Next]_vars => IInv'
<1> SUFFICES ASSUME IInv, [Next]_vars PROVE IInv'
  OBVIOUS
<1>1. ASSUME NEW h \in Handlers, Refresh(h) \/ Terminate(h) PROVE IInv'
  BY <1>1, MoveKeeps, RevokeKeeps, IssueKeeps DEF Refresh, Terminate
<1> QED BY <1>1, ArriveKeeps, MoveKeeps, AroundKeeps DEF Next

LEMMA Inductive == Spec => []IInv
  BY StartsRotated, IInvNext, PTL DEF Spec

\* RotatedOut: an exchanged token is never a second key, whatever the handlers
\* of refreshTokens interleave with.
THEOREM Rotation == Spec => [](TypeOK /\ RotatedOut)
<1>1. IInv => TypeOK /\ RotatedOut
  BY DEF IInv
<1> QED BY <1>1, Inductive, PTL

----------------------------------------------------------------------------
\* What a step may change of a token that was issued: its status.
Ages(t) ==
  /\ session'[t].parent = session[t].parent /\ session'[t].user = session[t].user
  /\ session'[t].era = session[t].era /\ session'[t].whileActive = session[t].whileActive
  /\ session'[t].status = "unissued" <=> session[t].status = "unissued"
  /\ Live(t)' => Live(t)

\* Tokens come from Issue; every other step ages those there are.
LEMMA TokensAge ==
  ASSUME TypeOK, [Next]_vars
  PROVE  (\A t \in Tokens : Ages(t)) \/ \E h \in Handlers : Issue(h)
<1>1. ASSUME NEW T, Revoke(T) PROVE \A t \in Tokens : Ages(t)
  BY <1>1 DEF Revoke, TypeOK, Session, Live, Ages
<1>2. ASSUME NEW t \in Tokens, Purge(t) PROVE \A s \in Tokens : Ages(s)
  BY <1>2 DEF Purge, TypeOK, Session, Live, Ages
<1>3. ASSUME UNCHANGED session PROVE \A t \in Tokens : Ages(t)
  BY <1>3 DEF Live, Ages
<1>4. ASSUME NEW h \in Handlers, Rotate(h) \/ RevokeAll(h) \/ RevokeOne(h)
      PROVE  \E T : Revoke(T)
  BY <1>4 DEF Rotate, RevokeAll, RevokeOne
<1>5. ASSUME NEW h \in Handlers,
             \/ BeginLogin(h) \/ BeginWithToken(h) \/ BeginLogoutAll(h)
             \/ FindToken(h) \/ LoadUser(h) \/ CheckSession(h) \/ Fail(h)
      PROVE  UNCHANGED session
  BY <1>5 DEF BeginLogin, BeginWithToken, BeginLogoutAll, Arrive, FindToken, LoadUser,
              CheckSession, Fail
<1>6. ASSUME \/ \E t \in Tokens : Expire(t)
             \/ \E u \in Users : Deactivate(u) \/ Reactivate(u)
             \/ UNCHANGED vars
      PROVE  UNCHANGED session
  BY <1>6 DEF Expire, Deactivate, Reactivate, vars
<1> QED BY <1>1, <1>2, <1>3, <1>4, <1>5, <1>6 DEF Next, Refresh, Terminate

\* The token that Issue makes, and the others.
LEMMA Issued ==
  ASSUME IInv, NEW h \in Handlers, Issue(h)
  PROVE  \E t \in Tokens :
           /\ ~Known(t)
           /\ session'[t].status = "live" /\ session'[t].user = req[h].user
           /\ session'[t].parent = req[h].token
           /\ session'[t].whileActive <=> req[h].user \in active
           /\ session'[t].era = IF req[h].token = None THEN era[req[h].user]
                                ELSE session[req[h].token].era
           /\ \A s \in Tokens \ {t} : session'[s] = session[s]
           /\ req' = [req EXCEPT ![h] = Idle] /\ req[h].pc = "issue"
           /\ UNCHANGED <<active, era>>
<1> DEFINE doc == [status |-> "live", user |-> req[h].user, parent |-> req[h].token,
                   era |-> IF req[h].token = None THEN era[req[h].user]
                           ELSE session[req[h].token].era,
                   whileActive |-> req[h].user \in active]
<1>1. PICK t \in Tokens :
        /\ session[t].status = "unissued" /\ session' = [session EXCEPT ![t] = doc]
        /\ req' = [req EXCEPT ![h] = Idle] /\ req[h].pc = "issue"
        /\ UNCHANGED <<active, era>>
  BY DEF Issue, Return
<1>2. /\ doc.status = "live" /\ doc.user = req[h].user /\ doc.parent = req[h].token
      /\ doc.whileActive <=> req[h].user \in active
      /\ doc.era = IF req[h].token = None THEN era[req[h].user] ELSE session[req[h].token].era
  OBVIOUS
<1> HIDE DEF doc
<1>3. session'[t] = doc /\ \A s \in Tokens \ {t} : session'[s] = session[s]
  BY <1>1 DEF IInv, TypeOK
<1> QED BY <1>1, <1>2, <1>3 DEF Known

\* A handler comes by a token it may exchange in the steps of a refresh.
LEMMA ReachesIssue ==
  ASSUME TypeOK, [Next]_vars, NEW h \in Handlers, req'[h] # req[h],
         req'[h].pc \in {"rotate", "user", "issue"}, req'[h].token # None
  PROVE  /\ FindToken(h) \/ Rotate(h) \/ LoadUser(h)
         /\ req'[h].token = req[h].token /\ req'[h].user = req[h].user
<1>0. req \in [Handlers -> [pc: PCs, user: Users \cup {None}, token: Tokens \cup {None}]]
  BY DEF TypeOK
<1>1. ASSUME NEW g \in Handlers, BeginLogin(g) \/ BeginWithToken(g) \/ BeginLogoutAll(g)
      PROVE  FALSE
  BY <1>0, <1>1 DEF BeginLogin, BeginWithToken, BeginLogoutAll, Arrive
<1>2. ASSUME NEW g \in Handlers,
             Issue(g) \/ RevokeAll(g) \/ CheckSession(g) \/ RevokeOne(g) \/ Fail(g)
      PROVE  FALSE
  BY <1>0, <1>2 DEF Issue, RevokeAll, CheckSession, RevokeOne, Fail, Goto, Return, Idle
<1>3. ASSUME NEW g \in Handlers, FindToken(g) \/ Rotate(g) \/ LoadUser(g)
      PROVE  g = h /\ req'[h].token = req[h].token /\ req'[h].user = req[h].user
  BY <1>0, <1>3 DEF FindToken, Rotate, LoadUser, Goto, Return, Idle
<1>4. ASSUME \/ \E t \in Tokens : Expire(t) \/ Purge(t)
             \/ \E u \in Users : Deactivate(u) \/ Reactivate(u)
             \/ UNCHANGED vars
      PROVE  FALSE
  BY <1>4 DEF Expire, Purge, Deactivate, Reactivate, vars
<1> QED BY <1>1, <1>2, <1>3, <1>4 DEF Next, Refresh, Terminate

\* Who is active: nobody becomes so again who is not a system user.
LEMMA ActiveShrinks ==
  ASSUME TypeOK, [Next]_vars
  PROVE  active' \ SystemUsers \subseteq active
<1>1. ASSUME NEW h \in Handlers,
             \/ BeginLogin(h) \/ BeginWithToken(h) \/ BeginLogoutAll(h)
             \/ Refresh(h) \/ Terminate(h) \/ Fail(h)
      PROVE  active' = active
  BY <1>1 DEF BeginLogin, BeginWithToken, BeginLogoutAll, Arrive, Refresh, FindToken, Rotate,
              LoadUser, Issue, Terminate, RevokeAll, CheckSession, RevokeOne, Fail
<1>2. ASSUME \/ \E t \in Tokens : Expire(t) \/ Purge(t)
             \/ \E u \in Users : Deactivate(u) \/ Reactivate(u)
             \/ UNCHANGED vars
      PROVE  active' \ SystemUsers \subseteq active
  BY <1>2 DEF Expire, Purge, Deactivate, Reactivate, vars
<1> QED BY <1>1, <1>2 DEF Next

----------------------------------------------------------------------------
\* Active users who cannot have been away hold tokens issued while they were
\* active, and so does who is about to exchange one.
BornActive ==
  /\ \A t \in Tokens :
       Known(t) /\ session[t].user \in active \ SystemUsers => session[t].whileActive
  /\ \A h \in Handlers :
       req[h].pc = "issue" /\ req[h].token # None /\ req[h].user \notin SystemUsers =>
         session[req[h].token].whileActive

LEMMA BornActiveInit == Init => BornActive /\ DeadChains
  BY DEF Init, BornActive, DeadChains, Known, Idle

LEMMA BornActiveNext == IInv /\ BornActive /\ [Next]_vars => BornActive'
<1> SUFFICES ASSUME IInv, BornActive, [Next]_vars PROVE BornActive'
  OBVIOUS
<1>0. active' \ SystemUsers \subseteq active
  BY ActiveShrinks DEF IInv
<1>1. ASSUME NEW t \in Tokens, Known(t)', session'[t].user \in active' \ SystemUsers
      PROVE  session'[t].whileActive
  <2>1. CASE \A s \in Tokens : Ages(s)
    BY <1>0, <1>1, <2>1 DEF Ages, BornActive, Known
  <2>2. CASE \E h \in Handlers : Issue(h)
    <3>1. PICK h \in Handlers : Issue(h)
      BY <2>2
    <3>2. PICK s \in Tokens :
            /\ session'[s].user = req[h].user
            /\ session'[s].whileActive <=> req[h].user \in active
            /\ \A r \in Tokens \ {s} : session'[r] = session[r]
      BY <3>1, Issued
    <3> QED BY <1>0, <1>1, <3>2 DEF BornActive, Known
  <2> QED BY <2>1, <2>2, TokensAge DEF IInv
<1>2. ASSUME NEW h \in Handlers, req'[h].pc = "issue", req'[h].token # None,
             req'[h].user \notin SystemUsers
      PROVE  session'[req'[h].token].whileActive
  <2> DEFINE p == req[h].token
  <2>1. /\ req'[h].token = p /\ req'[h].user = req[h].user
        /\ p \in Tokens /\ Known(p) /\ session[p].user = req[h].user
        /\ req[h].user \in Users
    <3>1. req'[h].token = p /\ req'[h].user = req[h].user /\ req[h].pc # "idle"
      BY <1>2, ReachesIssue DEF IInv, FindToken, Rotate, LoadUser
    <3> QED BY <1>2, <3>1 DEF IInv, TypeOK, Known
  <2>2. session[p].whileActive
    <3>1. CASE req'[h] = req[h]
      BY <1>2, <3>1 DEF BornActive
    <3>2. CASE req'[h] # req[h]
      <4>1. FindToken(h) \/ Rotate(h) \/ LoadUser(h)
        BY <1>2, <3>2, ReachesIssue DEF IInv
      <4>2. LoadUser(h) /\ req[h].user \in active
        BY <1>2, <4>1 DEF FindToken, Rotate, LoadUser, MayRefresh, Goto, Return, Idle, IInv, TypeOK
      <4> QED BY <1>2, <2>1, <4>2 DEF BornActive
    <3> QED BY <3>1, <3>2
  <2>3. session'[p].whileActive = session[p].whileActive
    <3>1. CASE \A s \in Tokens : Ages(s)
      BY <2>1, <3>1 DEF Ages
    <3>2. CASE \E g \in Handlers : Issue(g)
      BY <2>1, <3>2, Issued DEF Known
    <3> QED BY <3>1, <3>2, TokensAge DEF IInv
  <2> QED BY <2>1, <2>2, <2>3
<1> QED BY <1>1, <1>2 DEF BornActive

LEMMA DeadChainsNext == IInv /\ BornActive /\ DeadChains /\ [Next]_vars => DeadChains'
<1> SUFFICES ASSUME IInv, BornActive, DeadChains, [Next]_vars, NEW t \in Tokens,
                    session'[t].user \notin SystemUsers, session'[t].parent # None
             PROVE  session'[t].whileActive \/ session'[session'[t].parent].whileActive
  BY DEF DeadChains
<1>1. CASE \A s \in Tokens : Ages(s)
  BY <1>1 DEF Ages, DeadChains, IInv, TypeOK, Session
<1>2. CASE \E h \in Handlers : Issue(h)
  <2>1. PICK h \in Handlers : Issue(h)
    BY <1>2
  <2>2. PICK s \in Tokens :
          /\ ~Known(s) /\ req[h].pc = "issue"
          /\ session'[s].user = req[h].user /\ session'[s].parent = req[h].token
          /\ \A r \in Tokens \ {s} : session'[r] = session[r]
    BY <2>1, Issued
  <2>3. CASE t = s
    <3>1. req[h].token \in Tokens /\ Known(req[h].token)
      BY <2>2, <2>3 DEF IInv, TypeOK, Known
    <3>2. session[req[h].token].whileActive
      BY <2>2, <2>3 DEF BornActive
    <3> QED BY <2>2, <2>3, <3>1, <3>2
  <2>4. CASE t # s
    <3>1. /\ session'[t] = session[t] /\ session[t].parent \in Tokens
          /\ Known(session[t].parent)
      BY <2>2, <2>4 DEF IInv, TypeOK, Session, Lineage, Known
    <3> QED BY <2>2, <3>1 DEF DeadChains
  <2> QED BY <2>3, <2>4
<1> QED BY <1>1, <1>2, TokensAge DEF IInv

\* The sessions of a deactivated account die out (DeadChains), whatever its
\* refreshes in flight interleave with: of a token and the one it was exchanged
\* for, one at least was issued to an active user.
THEOREM ChainsDieOut == Spec => []DeadChains
  BY BornActiveInit, BornActiveNext, DeadChainsNext, Inductive, PTL DEF Spec

----------------------------------------------------------------------------
\* One call at a time, crashes included, the token in hand has not been
\* exchanged and no termination has come between.
Untouched == \A h \in Handlers :
  req[h].pc \in {"rotate", "user", "issue"} /\ req[h].token # None =>
    /\ \A t \in Tokens : session[t].parent # req[h].token
    /\ session[req[h].token].era = era[req[h].user]

SerialInv == Untouched /\ StrictRotation /\ AllTerminated

LEMMA SerialInit == Init => SerialInv
  BY DEF Init, SerialInv, Untouched, StrictRotation, AllTerminated, Idle, Live

\* The terminations of a user.
LEMMA WhoTerminates ==
  ASSUME [Next]_vars, era' # era
  PROVE  \E h \in Handlers : RevokeAll(h)
<1>1. ASSUME NEW h \in Handlers,
             \/ BeginLogin(h) \/ BeginWithToken(h) \/ BeginLogoutAll(h) \/ Refresh(h)
             \/ CheckSession(h) \/ RevokeOne(h) \/ Fail(h)
      PROVE  FALSE
  BY <1>1 DEF BeginLogin, BeginWithToken, BeginLogoutAll, Arrive, Refresh, FindToken, Rotate,
              LoadUser, Issue, CheckSession, RevokeOne, Fail
<1>2. ASSUME \/ \E t \in Tokens : Expire(t) \/ Purge(t)
             \/ \E u \in Users : Deactivate(u) \/ Reactivate(u)
             \/ UNCHANGED vars
      PROVE  FALSE
  BY <1>2 DEF Expire, Purge, Deactivate, Reactivate, vars
<1> QED BY <1>1, <1>2 DEF Next, Terminate

LEMMA UntouchedNext ==
  IInv /\ SerialInv /\ OneAtATime /\ [Next]_vars => Untouched'
<1> SUFFICES ASSUME IInv, SerialInv, OneAtATime, [Next]_vars, NEW h \in Handlers,
                    req'[h].pc \in {"rotate", "user", "issue"}, req'[h].token # None
             PROVE  /\ \A t \in Tokens : session'[t].parent # req'[h].token
                    /\ session'[req'[h].token].era = era'[req'[h].user]
  BY DEF Untouched
<1> DEFINE p == req[h].token
<1>1. /\ req'[h].token = p /\ req'[h].user = req[h].user /\ req[h].pc # "idle"
  BY ReachesIssue DEF IInv, FindToken, Rotate, LoadUser
<1>2. p \in Tokens /\ session[p].user = req[h].user /\ req[h].user \in Users
  BY <1>1 DEF IInv, TypeOK
<1>3. (\A t \in Tokens : session[t].parent # p) /\ session[p].era = era[req[h].user]
  <2>1. CASE req[h].pc \in {"rotate", "user", "issue"}
    BY <1>1, <2>1 DEF SerialInv, Untouched
  <2>2. CASE req[h].pc \notin {"rotate", "user", "issue"}
    <3>1. FindToken(h)
      BY <2>2, ReachesIssue DEF IInv, Rotate, LoadUser
    <3>2. Live(p)
      BY <3>1 DEF FindToken, Goto, Return, Idle, IInv, TypeOK
    <3> QED BY <1>1, <1>2, <3>2 DEF IInv, RotatedOut, SerialInv, AllTerminated
  <2> QED BY <2>1, <2>2
<1>4. ASSUME NEW g \in Handlers, req[g].pc # "idle" PROVE g = h
  BY <1>1, <1>4 DEF OneAtATime
<1>5. \A t \in Tokens : Ages(t)
  <2>1. ASSUME NEW g \in Handlers, Issue(g) PROVE FALSE
    BY <1>4, <2>1 DEF Issue, Return, Idle, IInv, TypeOK
  <2> QED BY <2>1, TokensAge DEF IInv
<1>6. era' = era
  <2>1. ASSUME NEW g \in Handlers, RevokeAll(g) PROVE FALSE
    BY <1>4, <2>1 DEF RevokeAll, Return, Idle, IInv, TypeOK
  <2> QED BY <2>1, WhoTerminates
<1> QED BY <1>1, <1>2, <1>3, <1>5, <1>6 DEF Ages

LEMMA StrictNext == IInv /\ SerialInv /\ [Next]_vars => StrictRotation'
<1> SUFFICES ASSUME IInv, SerialInv, [Next]_vars, NEW r \in Tokens, NEW t \in Tokens,
                    session'[r].parent # None, session'[r].parent = session'[t].parent
             PROVE  r = t
  BY DEF StrictRotation
<1>1. CASE \A s \in Tokens : Ages(s)
  BY <1>1 DEF Ages, SerialInv, StrictRotation
<1>2. CASE \E h \in Handlers : Issue(h)
  <2>1. PICK h \in Handlers : Issue(h)
    BY <1>2
  <2>2. PICK s \in Tokens :
          /\ session'[s].parent = req[h].token /\ req[h].pc = "issue"
          /\ \A q \in Tokens \ {s} : session'[q] = session[q]
    BY <2>1, Issued
  <2>3. req[h].token # None => \A q \in Tokens : session[q].parent # req[h].token
    BY <2>2 DEF SerialInv, Untouched
  <2> QED BY <2>2, <2>3 DEF SerialInv, StrictRotation
<1> QED BY <1>1, <1>2, TokensAge DEF IInv

LEMMA AllTerminatedNext == IInv /\ SerialInv /\ [Next]_vars => AllTerminated'
<1> SUFFICES ASSUME IInv, SerialInv, [Next]_vars, NEW t \in Tokens, Live(t)'
             PROVE  session'[t].era = era'[session'[t].user]
  BY DEF AllTerminated
<1>1. CASE era' # era
  <2>1. PICK h \in Handlers : RevokeAll(h)
    BY <1>1, WhoTerminates
  <2>2. Ages(t) /\ t \notin TokensOf(req[h].user)
    BY <2>1, <1>1 DEF RevokeAll, Revoke, Ages, Live, IInv, TypeOK, Session
  <2>3. session[t].user \in Users /\ session[t].user # req[h].user
    BY <2>2 DEF TokensOf, Ages, IInv, TypeOK, Live
  <2> QED BY <2>1, <2>2, <2>3 DEF RevokeAll, Ages, SerialInv, AllTerminated, IInv, TypeOK
<1>2. CASE era' = era
  <2>1. CASE \A s \in Tokens : Ages(s)
    BY <1>2, <2>1 DEF Ages, SerialInv, AllTerminated
  <2>2. CASE \E h \in Handlers : Issue(h)
    <3>1. PICK h \in Handlers : Issue(h)
      BY <2>2
    <3>2. PICK s \in Tokens :
            /\ session'[s].user = req[h].user /\ req[h].pc = "issue"
            /\ session'[s].era = IF req[h].token = None THEN era[req[h].user]
                                 ELSE session[req[h].token].era
            /\ \A q \in Tokens \ {s} : session'[q] = session[q]
      BY <3>1, Issued
    <3>3. session'[s].era = era[req[h].user]
      BY <3>2 DEF SerialInv, Untouched
    <3> QED BY <1>2, <3>2, <3>3 DEF SerialInv, AllTerminated, Live
  <2> QED BY <2>1, <2>2, TokensAge DEF IInv
<1> QED BY <1>1, <1>2

LEMMA SerialNext == IInv /\ SerialInv /\ OneAtATime /\ [Next]_vars => SerialInv'
  BY UntouchedNext, StrictNext, AllTerminatedNext DEF SerialInv

\* What refreshTokens and its "All sessions terminated" promise holds when no
\* two calls overlap, with crashes, expiry and the TTL index in between: a token
\* is exchanged once, and no session survives a termination.
THEOREM SerialSessions == Spec /\ []OneAtATime => [](StrictRotation /\ AllTerminated)
<1>1. SerialInv => StrictRotation /\ AllTerminated
  BY DEF SerialInv
<1> QED BY <1>1, SerialInit, SerialNext, Inductive, PTL DEF Spec

\* The same of the runs' specification, in which some behaviours are serial.
LEMMA SerialRuns == MCSpec => [](StrictRotationSerially /\ AllTerminatedSerially)
<1> DEFINE Inv == IInv /\ (Serial => OneAtATime /\ SerialInv)
<1>1. MCInit => Inv
  BY StartsRotated, SerialInit DEF MCInit, Init, OneAtATime, Idle
<1>2. Inv /\ [MCNext]_<<vars, scenario>> => Inv'
  <2> SUFFICES ASSUME Inv, [MCNext]_<<vars, scenario>> PROVE Inv'
    OBVIOUS
  <2>1. [Next]_vars /\ Serial' = Serial /\ (Serial => OneAtATime')
    BY DEF MCNext, Serial, OneAtATime, vars
  <2> QED BY <2>1, IInvNext, SerialNext
<1>3. Inv => StrictRotationSerially /\ AllTerminatedSerially
  BY DEF SerialInv, StrictRotationSerially, AllTerminatedSerially
<1> QED BY <1>1, <1>2, <1>3, PTL DEF MCSpec

\* Where calls come one at a time, a token is exchanged once (StrictRotationSerially),
THEOREM RotatesStrictly == MCSpec => []StrictRotationSerially
BY SerialRuns, PTL

\* and no session from before the call that terminates all is alive after it
\* (AllTerminatedSerially).
THEOREM TerminatesAll == MCSpec => []AllTerminatedSerially
BY SerialRuns, PTL
=============================================================================
