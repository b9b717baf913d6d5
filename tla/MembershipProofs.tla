--------------------------- MODULE MembershipProofs ---------------------------
(***************************************************************************)
(* Ownership only goes to users who have agreed to it, whatever overlaps;  *)
(* where the calls of a transfer overlap no other call, the owner keeps    *)
(* the seat and gives it away alone; one call at a time, no member who has *)
(* joined is invited again.                                                *)
(***************************************************************************)
EXTENDS MCMembership, TLAPS

\* What the calls carry between their steps: an acceptance comes from the user it
\* is for, and what is being confirmed was accepted.
Carried(r) ==
  /\ r.pc # "idle" => r.actor \in Users /\ r.target \in Users
  /\ r.pc = "upsert" => r.op \in {"invite", "resend"}
  /\ r.pc = "loadTarget" => r.op # "acceptTransfer"
  /\ r.op = "acceptTransfer" /\ r.pc = "write" => r.transfer.proposed = r.actor
  /\ r.op = "confirm" /\ r.pc \in {"loadTarget", "write"} => r.target \in agreed

Consent ==
  /\ OwnerAgreed
  /\ transfer.status = "accepted" => transfer.proposed \in agreed
  /\ \A h \in Handlers : Carried(req[h])

IInv == TypeOK /\ Consent

\* The idle call is a call.
LEMMA IdleTyped == Idle \in Call
  BY DEF Idle, Call, NoTransfer, Transfer, Roles, Overrides

\* A handler that goes on to a call which keeps its part of Consent leaves the
\* others theirs.
LEMMA Move ==
  ASSUME IInv, NEW h \in Handlers, NEW c \in Call, req' = [req EXCEPT ![h] = c],
         agreed \subseteq agreed',
         c.pc # "idle" => c.actor \in Users /\ c.target \in Users,
         c.pc = "upsert" => c.op \in {"invite", "resend"},
         c.pc = "loadTarget" => c.op # "acceptTransfer",
         c.op = "acceptTransfer" /\ c.pc = "write" => c.transfer.proposed = c.actor,
         c.op = "confirm" /\ c.pc \in {"loadTarget", "write"} => c.target \in agreed'
  PROVE  req' \in [Handlers -> Call] /\ (\A g \in Handlers : Carried(req[g]))'
<1>1. req \in [Handlers -> Call]
  BY DEF IInv, TypeOK
<1>2. req'[h] = c /\ \A g \in Handlers : g # h => req'[g] = req[g]
  BY <1>1
<1>3. \A g \in Handlers : Carried(req[g])
  BY DEF IInv, Consent
<1>4. ASSUME NEW g \in Handlers PROVE Carried(req[g])'
  <2>1. CASE g = h
    BY <1>2, <2>1 DEF Carried
  <2>2. CASE g # h
    BY <1>2, <1>3, <2>2 DEF Carried
  <2> QED BY <2>1, <2>2
<1> QED BY <1>1, <1>4

\* A handler that returns keeps everybody's part of Consent.
LEMMA Returns ==
  ASSUME IInv, NEW h \in Handlers, Return(h), agreed \subseteq agreed'
  PROVE  req' \in [Handlers -> Call] /\ (\A g \in Handlers : Carried(req[g]))'
<1>1. req' = [req EXCEPT ![h] = Idle]
  BY DEF Return
<1>2. Idle.op = "none" /\ Idle.pc = "idle"
  BY DEF Idle
<1> QED BY <1>1, <1>2, IdleTyped, Move

\* So does one whose program counter alone moves, to a place where the call
\* carries no more than it did.
LEMMA Goes ==
  ASSUME IInv, NEW h \in Handlers, NEW pc \in {"load", "loadTarget", "write"},
         Goto(h, pc), agreed = agreed', req[h].pc # "idle",
         req[h].op = "acceptTransfer" => pc = "load",
         req[h].op = "confirm" /\ pc \in {"loadTarget", "write"} => req[h].pc = "loadTarget"
  PROVE  req' \in [Handlers -> Call] /\ (\A g \in Handlers : Carried(req[g]))'
<1> DEFINE c == [req[h] EXCEPT !.pc = pc]
<1>1. req[h] \in Call /\ req \in [Handlers -> Call]
  BY DEF IInv, TypeOK
<1>2. /\ c \in Call /\ c.pc = pc /\ c.op = req[h].op
      /\ c.target = req[h].target /\ c.actor = req[h].actor
  BY <1>1 DEF Call
<1>3. req' = [req EXCEPT ![h] = c]
  BY <1>1 DEF Goto
<1>4. Carried(req[h])
  BY DEF IInv, Consent
<1>5. c.op = "confirm" /\ c.pc \in {"loadTarget", "write"} => c.target \in agreed'
  BY <1>2, <1>4 DEF Carried
<1>6. ~(c.op = "acceptTransfer" /\ c.pc = "write")
  BY <1>2
<1>7. c.actor \in Users /\ c.target \in Users
  BY <1>2, <1>4 DEF Carried
<1> HIDE DEF c
<1> QED BY <1>2, <1>3, <1>5, <1>6, <1>7, Move

\* And one that ticks off one of its two last writes.
LEMMA Ticks ==
  ASSUME IInv, NEW h \in Handlers, NEW w, Tick(h, w), agreed = agreed'
  PROVE  req' \in [Handlers -> Call] /\ (\A g \in Handlers : Carried(req[g]))'
<1> DEFINE c == [req[h] EXCEPT !.todo = @ \ {w}]
<1>1. req[h] \in Call /\ req \in [Handlers -> Call]
  BY DEF IInv, TypeOK
<1>2. CASE Return(h)
  BY <1>2, Returns
<1>3. CASE req' = [req EXCEPT ![h].todo = @ \ {w}]
  <2>1. /\ c \in Call /\ c.pc = "both"
        /\ c.target = req[h].target /\ c.actor = req[h].actor
    BY <1>1 DEF Call, Tick
  <2>2. req' = [req EXCEPT ![h] = c]
    BY <1>1, <1>3
  <2>3. c.actor \in Users /\ c.target \in Users
    BY <2>1 DEF IInv, Consent, Carried, Tick
  <2> HIDE DEF c
  <2> QED BY <2>1, <2>2, <2>3, Move
<1> QED BY <1>2, <1>3 DEF Tick

\* Of the steps, only four touch more than the memberships and the calls.
LEMMA Quiet ==
  ASSUME IInv, UNCHANGED <<business, agreed>>,
         member' \in [Users -> Membership],
         jwt' \in [Users -> {"none", "member", "manager"}], torn' \in BOOLEAN,
         req' \in [Handlers -> Call], (\A g \in Handlers : Carried(req[g]))'
  PROVE  IInv'
  BY DEF IInv, TypeOK, Consent, OwnerAgreed, business

\* The founder owns the business at first.
LEMMA Initially == Init => IInv
<1> SUFFICES ASSUME Init PROVE IInv
  OBVIOUS
<1>1. TypeOK
  <2>1. req \in [Handlers -> Call]
    BY IdleTyped DEF Init
  <2>2. member \in [Users -> Membership]
    BY DEF Init, Membership, Roles, Overrides
  <2>3. transfer \in Transfer
    BY DEF Init, NoTransfer, Transfer
  <2> QED BY <2>1, <2>2, <2>3, MembershipAssumption DEF Init, TypeOK
<1>2. Consent
  BY DEF Init, Consent, OwnerAgreed, NoTransfer, Carried, Idle
<1> QED BY <1>1, <1>2 DEF IInv

\* The calls on members leave the business alone.
LEMMA MemberCallKeeps ==
  ASSUME IInv, NEW h \in Handlers, MemberCall(h)
  PROVE  IInv'
<1>1. /\ req[h] \in Call /\ req \in [Handlers -> Call]
      /\ member \in [Users -> Membership]
      /\ jwt \in [Users -> {"none", "member", "manager"}] /\ torn \in BOOLEAN
  BY DEF IInv, TypeOK
<1>2. req[h].pc # "idle" => req[h].actor \in Users /\ req[h].target \in Users
  BY DEF IInv, Consent, Carried
<1>a. req[h].role \in Roles /\ req[h].override \in Overrides
  BY <1>1 DEF Call
<1>3. UNCHANGED <<business, agreed, jwt, torn>>
  BY DEF MemberCall, LoadMember, UpsertFind, UpsertWrite, SetStatus, SetRole,
         SetPermissions, ApplyTemplate
<1>4. CASE LoadMember(h)
  <2> DEFINE pc == NextPC(req[h].op)
             role == IF req[h].op = "resend" THEN member[req[h].target].role ELSE req[h].role
             todo == IF req[h].op = "template" THEN {"first", "second"} ELSE {}
             c == [req[h] EXCEPT !.pc = pc, !.role = role, !.todo = todo]
  <2>1. req[h].pc = "load" /\ req[h].op \notin {"initiate", "acceptTransfer", "confirm"}
    BY <1>4 DEF LoadMember
  <2>2. member' \in [Users -> Membership]
    BY <1>1, <1>4 DEF LoadMember
  <2>3. CASE Return(h)
    <3>1. req' \in [Handlers -> Call] /\ (\A g \in Handlers : Carried(req[g]))'
      BY <1>3, <2>3, Returns
    <3> QED BY <1>1, <1>3, <2>2, <3>1, Quiet
  <2>4. CASE req' = [req EXCEPT ![h] = c]
    <3>1. /\ pc \in {"upsert", "both", "write"}
          /\ pc = "upsert" => req[h].op \in {"invite", "resend"}
      BY DEF NextPC
    <3>2. role \in Roles
      BY <1>1, <1>2, <2>1 DEF Membership, Call
    <3>3. todo \in SUBSET {"first", "second"}
      OBVIOUS
    <3> HIDE DEF pc, role, todo
    <3>4. /\ c \in Call /\ c.pc = pc /\ c.op = req[h].op
          /\ c.target = req[h].target /\ c.actor = req[h].actor
      BY <1>1, <3>1, <3>2, <3>3 DEF Call
    <3> HIDE DEF c
    <3>5. req' \in [Handlers -> Call] /\ (\A g \in Handlers : Carried(req[g]))'
      BY <1>2, <1>3, <2>1, <2>4, <3>1, <3>4, Move
    <3> QED BY <1>1, <1>3, <2>2, <3>5, Quiet
  <2>5. Return(h) \/ req' = [req EXCEPT ![h] = c]
    BY <1>4 DEF LoadMember
  <2> QED BY <2>3, <2>4, <2>5
<1>5. CASE UpsertFind(h)
  <2>1. req[h].pc = "upsert" /\ UNCHANGED member
    BY <1>5 DEF UpsertFind
  <2>2. req[h].op \in {"invite", "resend"}
    BY <2>1 DEF IInv, Consent, Carried
  <2>3. Return(h) \/ Goto(h, "write")
    BY <1>5 DEF UpsertFind, GotoOrRefuse
  <2>4. req' \in [Handlers -> Call] /\ (\A g \in Handlers : Carried(req[g]))'
    BY <1>3, <2>1, <2>2, <2>3, Goes, Returns
  <2>5. member' \in [Users -> Membership]
    BY <1>1, <2>1
  <2> QED BY <1>1, <1>3, <2>4, <2>5, Quiet
<1>6. CASE UpsertWrite(h)
  <2>1. member' \in [Users -> Membership]
    BY <1>1, <1>a, <1>6 DEF UpsertWrite, Membership
  <2>2. Return(h)
    BY <1>6 DEF UpsertWrite
  <2> QED BY <1>1, <1>3, <2>1, <2>2, Returns, Quiet
<1>7. CASE SetStatus(h)
  <2>1. Outcome(req[h].op) \in {"left", "suspended", "active"}
    BY DEF Outcome
  <2>2. member' \in [Users -> Membership]
    BY <1>1, <1>7, <2>1 DEF SetStatus, Membership
  <2>3. Return(h)
    BY <1>7 DEF SetStatus
  <2> QED BY <1>1, <1>3, <2>2, <2>3, Returns, Quiet
<1>8. CASE SetRole(h)
  <2>1. member' \in [Users -> Membership]
    BY <1>1, <1>a, <1>8 DEF SetRole, Membership
  <2>2. Return(h)
    BY <1>8 DEF SetRole
  <2> QED BY <1>1, <1>3, <2>1, <2>2, Returns, Quiet
<1>9. CASE SetPermissions(h)
  <2>1. member' \in [Users -> Membership]
    BY <1>1, <1>a, <1>9 DEF SetPermissions, Membership
  <2>2. Return(h)
    BY <1>9 DEF SetPermissions
  <2> QED BY <1>1, <1>3, <2>1, <2>2, Returns, Quiet
<1>10. CASE ApplyTemplate(h)
  <2>1. member' \in [Users -> Membership]
    BY <1>1, <1>a, <1>10 DEF ApplyTemplate, Membership
  <2>2. Tick(h, "first") \/ Tick(h, "second")
    BY <1>10 DEF ApplyTemplate
  <2> QED BY <1>1, <1>3, <2>1, <2>2, Ticks, Quiet
<1> QED BY <1>4, <1>5, <1>6, <1>7, <1>8, <1>9, <1>10 DEF MemberCall

\* The calls of a transfer: an acceptance is agreed to, and only what was accepted
\* is handed over.
LEMMA TransferCallKeeps ==
  ASSUME IInv, NEW h \in Handlers, TransferCall(h)
  PROVE  IInv'
<1>1. /\ req[h] \in Call /\ req \in [Handlers -> Call]
      /\ member \in [Users -> Membership] /\ owner \in Users /\ transfer \in Transfer
      /\ jwt \in [Users -> {"none", "member", "manager"}] /\ torn \in BOOLEAN
      /\ agreed \subseteq Users
  BY DEF IInv, TypeOK
<1>2. Carried(req[h]) /\ OwnerAgreed
      /\ (transfer.status = "accepted" => transfer.proposed \in agreed)
  BY DEF IInv, Consent
<1>3. UNCHANGED <<jwt, torn>>
  BY DEF TransferCall, LoadForInitiate, LoadNewOwner, Initiate, LoadForAccept, Accept,
         LoadForConfirm, HandOver, SwapRoles
<1>4. CASE LoadForInitiate(h)
  <2>1. Return(h) \/ Goto(h, "loadTarget")
    BY <1>4 DEF LoadForInitiate, GotoOrRefuse
  <2>2. UNCHANGED <<business, agreed, member>> /\ req[h].op = "initiate" /\ req[h].pc = "load"
    BY <1>4 DEF LoadForInitiate
  <2>3. req' \in [Handlers -> Call] /\ (\A g \in Handlers : Carried(req[g]))'
    BY <2>1, <2>2, Returns, Goes
  <2> QED BY <1>1, <1>3, <2>2, <2>3, Quiet
<1>5. CASE LoadNewOwner(h)
  <2>1. Return(h) \/ Goto(h, "write")
    BY <1>5 DEF LoadNewOwner, GotoOrRefuse
  <2>2. UNCHANGED <<business, agreed, member>> /\ req[h].pc = "loadTarget"
    BY <1>5 DEF LoadNewOwner
  <2>3. req[h].op # "acceptTransfer"
    BY <1>2, <2>2 DEF Carried
  <2>4. req' \in [Handlers -> Call] /\ (\A g \in Handlers : Carried(req[g]))'
    BY <2>1, <2>2, <2>3, Returns, Goes
  <2> QED BY <1>1, <1>3, <2>2, <2>4, Quiet
<1>6. CASE Initiate(h)
  <2>1. Return(h) /\ UNCHANGED <<owner, agreed, member>>
    BY <1>6 DEF Initiate
  <2>2. req' \in [Handlers -> Call] /\ (\A g \in Handlers : Carried(req[g]))'
    BY <2>1, Returns
  <2>3. req[h].actor \in Users /\ req[h].target \in Users
    BY <1>2, <1>6 DEF Carried, Initiate
  <2>4. transfer' \in Transfer /\ transfer'.status = "pending"
    BY <1>6, <2>3 DEF Initiate, Transfer
  <2> QED BY <1>1, <1>2, <1>3, <2>1, <2>2, <2>4 DEF IInv, TypeOK, Consent, OwnerAgreed
<1>7. CASE LoadForAccept(h)
  <2> DEFINE c == [req[h] EXCEPT !.pc = "write", !.transfer = transfer]
  <2>1. UNCHANGED <<business, agreed, member>>
    BY <1>7 DEF LoadForAccept
  <2>2. req' \in [Handlers -> Call] /\ (\A g \in Handlers : Carried(req[g]))'
    <3>1. CASE Return(h)
      BY <2>1, <3>1, Returns
    <3>2. CASE transfer.proposed = req[h].actor /\ req' = [req EXCEPT ![h] = c]
      <4>1. /\ c \in Call /\ c.pc = "write" /\ c.op = req[h].op /\ c.transfer = transfer
            /\ c.target = req[h].target /\ c.actor = req[h].actor
        BY <1>1 DEF Call
      <4>2. req[h].op = "acceptTransfer" /\ req[h].pc = "load"
        BY <1>7 DEF LoadForAccept
      <4> HIDE DEF c
      <4> QED BY <1>2, <2>1, <3>2, <4>1, <4>2, Move DEF Carried
    <3> QED BY <1>7, <3>1, <3>2 DEF LoadForAccept, MayAccept
  <2> QED BY <1>1, <1>3, <2>1, <2>2, Quiet
<1>8. CASE Accept(h)
  <2>1. /\ Return(h) /\ UNCHANGED <<owner, member>> /\ agreed' = agreed \cup {req[h].actor}
        /\ transfer' = [req[h].transfer EXCEPT !.status = "accepted"]
        /\ req[h].pc = "write" /\ req[h].op = "acceptTransfer"
    BY <1>8 DEF Accept
  <2>2. req' \in [Handlers -> Call] /\ (\A g \in Handlers : Carried(req[g]))'
    BY <2>1, Returns
  <2>3. req[h].actor \in Users /\ req[h].transfer.proposed = req[h].actor
    BY <1>2, <2>1 DEF Carried
  <2>4. req[h].transfer \in Transfer
    BY <1>1 DEF Call
  <2>5. transfer' \in Transfer /\ transfer'.proposed = req[h].actor
    BY <2>1, <2>3, <2>4 DEF Transfer
  <2>6. TypeOK'
    BY <1>1, <1>3, <2>1, <2>2, <2>3, <2>5 DEF TypeOK
  <2>7. Consent'
    BY <1>2, <2>1, <2>2, <2>5 DEF Consent, OwnerAgreed
  <2> QED BY <2>6, <2>7 DEF IInv
<1>9. CASE LoadForConfirm(h)
  <2> DEFINE c == [req[h] EXCEPT !.pc = "loadTarget", !.target = transfer.proposed,
                                 !.owner = owner, !.transfer = transfer]
  <2>1. UNCHANGED <<business, agreed, member>>
    BY <1>9 DEF LoadForConfirm
  <2>2. req' \in [Handlers -> Call] /\ (\A g \in Handlers : Carried(req[g]))'
    <3>1. CASE Return(h)
      BY <2>1, <3>1, Returns
    <3>2. CASE transfer.status = "accepted" /\ req' = [req EXCEPT ![h] = c]
      <4>1. transfer.proposed \in agreed /\ transfer.proposed \in Users
        BY <1>1, <1>2, <3>2
      <4>2. /\ c \in Call /\ c.pc = "loadTarget" /\ c.op = req[h].op
            /\ c.target = transfer.proposed /\ c.actor = req[h].actor
        BY <1>1, <4>1 DEF Call
      <4>3. req[h].op = "confirm" /\ req[h].pc = "load"
        BY <1>9 DEF LoadForConfirm
      <4> HIDE DEF c
      <4> QED BY <1>2, <2>1, <3>2, <4>1, <4>2, <4>3, Move DEF Carried
    <3> QED BY <1>9, <3>1, <3>2 DEF LoadForConfirm, MayConfirm
  <2> QED BY <1>1, <1>3, <2>1, <2>2, Quiet
<1>10. CASE HandOver(h)
  <2> DEFINE c == [req[h] EXCEPT !.pc = "both", !.todo = {"first", "second"}]
  <2>1. /\ UNCHANGED <<agreed, member>> /\ owner' = req[h].target /\ transfer' = NoTransfer
        /\ req[h].pc = "write" /\ req[h].op = "confirm" /\ req' = [req EXCEPT ![h] = c]
    BY <1>10 DEF HandOver
  <2>2. req[h].target \in agreed /\ req[h].actor \in Users /\ req[h].target \in Users
    BY <1>2, <2>1 DEF Carried
  <2>3. /\ c \in Call /\ c.pc = "both" /\ c.op = req[h].op
        /\ c.target = req[h].target /\ c.actor = req[h].actor
    BY <1>1 DEF Call
  <2> HIDE DEF c
  <2>4. req' \in [Handlers -> Call] /\ (\A g \in Handlers : Carried(req[g]))'
    BY <2>1, <2>2, <2>3, Move
  <2>5. NoTransfer \in Transfer /\ NoTransfer.status = "none"
    BY DEF NoTransfer, Transfer
  <2>6. TypeOK'
    BY <1>1, <1>3, <2>1, <2>2, <2>4, <2>5 DEF TypeOK
  <2>7. Consent'
    BY <2>1, <2>2, <2>4, <2>5 DEF Consent, OwnerAgreed
  <2> QED BY <2>6, <2>7 DEF IInv
<1>11. CASE SwapRoles(h)
  <2>1. UNCHANGED <<business, agreed>>
    BY <1>11 DEF SwapRoles
  <2>2. member' \in [Users -> Membership]
    BY <1>1, <1>11 DEF SwapRoles, Membership, Roles
  <2>3. Tick(h, "first") \/ Tick(h, "second")
    BY <1>11 DEF SwapRoles
  <2>4. req' \in [Handlers -> Call] /\ (\A g \in Handlers : Carried(req[g]))'
    BY <2>1, <2>3, Ticks
  <2> QED BY <1>1, <1>3, <2>1, <2>2, <2>4, Quiet
<1> QED BY <1>4, <1>5, <1>6, <1>7, <1>8, <1>9, <1>10, <1>11 DEF TransferCall

\* Every step keeps the invariant.
LEMMA NextKeeps == IInv /\ [Next]_vars => IInv'
<1> SUFFICES ASSUME IInv, [Next]_vars PROVE IInv'
  OBVIOUS
<1>1. /\ req \in [Handlers -> Call] /\ member \in [Users -> Membership]
      /\ jwt \in [Users -> {"none", "member", "manager"}] /\ torn \in BOOLEAN
      /\ \A h \in Handlers : Carried(req[h])
  BY DEF IInv, TypeOK, Consent
<1>2. CASE UNCHANGED vars
  <2>1. (\A g \in Handlers : Carried(req[g]))'
    BY <1>1, <1>2 DEF vars, Carried
  <2> QED BY <1>1, <1>2, <2>1, Quiet DEF vars, business
<1>3. ASSUME NEW u \in Users, SignIn(u) \/ SignOut(u) PROVE IInv'
  <2>1. UNCHANGED <<business, agreed, member, req, torn>>
    BY <1>3 DEF SignIn, SignOut
  <2>2. jwt' \in [Users -> {"none", "member", "manager"}]
    BY <1>1, <1>3 DEF SignIn, SignOut
  <2>3. (\A g \in Handlers : Carried(req[g]))'
    BY <1>1, <2>1 DEF Carried
  <2> QED BY <1>1, <2>1, <2>2, <2>3, Quiet
<1>4. ASSUME NEW h \in Handlers, Begin(h) PROVE IInv'
  <2>1. PICK op \in Ops, a \in Users, t \in Users, r \in Roles, o \in Overrides :
          Ask(h, op, a, t, r, o)
    BY <1>4 DEF Begin
  <2> DEFINE c == Asked(op, a, t, r, o)
  <2>2. UNCHANGED <<business, agreed, member, jwt, torn>>
    BY <2>1 DEF Ask
  <2>3. req' = [req EXCEPT ![h] = c]
    BY <2>1 DEF Ask
  <2>4. c \in Call /\ c.pc \in {"load", "access"} /\ c.actor = a /\ c.target = t
    BY IdleTyped DEF Call, Asked
  <2> HIDE DEF c
  <2>5. req' \in [Handlers -> Call] /\ (\A g \in Handlers : Carried(req[g]))'
    <3>1. /\ ~(c.op = "confirm" /\ c.pc \in {"loadTarget", "write"})
          /\ c.pc \notin {"idle", "upsert", "write", "loadTarget"}
          /\ c.actor \in Users /\ c.target \in Users
      BY <2>4
    <3>2. agreed \subseteq agreed'
      BY <2>2
    <3> QED BY <2>3, <2>4, <3>1, <3>2, Move
  <2> QED BY <1>1, <2>2, <2>5, Quiet
<1>5. ASSUME NEW h \in Handlers, CheckAccess(h) PROVE IInv'
  <2>1. UNCHANGED <<business, agreed, member, jwt, torn>> /\ req[h].pc = "access"
    BY <1>5 DEF CheckAccess
  <2>2. Return(h) \/ Goto(h, "load")
    BY <1>5 DEF CheckAccess, GotoOrRefuse
  <2>3. req' \in [Handlers -> Call] /\ (\A g \in Handlers : Carried(req[g]))'
    BY <2>1, <2>2, Returns, Goes
  <2> QED BY <1>1, <2>1, <2>3, Quiet
<1>6. ASSUME NEW h \in Handlers, Fail(h) PROVE IInv'
  <2>1. UNCHANGED <<business, agreed, member, jwt>> /\ Return(h)
    BY <1>6 DEF Fail
  <2>2. torn' \in BOOLEAN
    BY <1>1, <1>6 DEF Fail
  <2>3. req' \in [Handlers -> Call] /\ (\A g \in Handlers : Carried(req[g]))'
    BY <2>1, Returns
  <2> QED BY <1>1, <2>1, <2>2, <2>3, Quiet
<1> QED BY <1>2, <1>3, <1>4, <1>5, <1>6, MemberCallKeeps, TransferCallKeeps DEF Next

\* In every reachable state the variables have their types, and the business is
\* owned by its founder or by a user who has accepted a transfer to himself.
THEOREM Consented == Spec => [](TypeOK /\ OwnerAgreed)
<1>1. IInv => TypeOK /\ OwnerAgreed
  BY DEF IInv, Consent
<1> QED BY <1>1, Initially, NextKeeps, PTL DEF Spec

LEMMA Inductive == Spec => []IInv
  BY Initially, NextKeeps, PTL DEF Spec

----------------------------------------------------------------------------
\* The calls of a transfer that overlap no other call.
TransferOps == {"initiate", "acceptTransfer", "confirm"}
TransfersAlone == \A g, h \in Handlers :
  req[g].pc # "idle" /\ req[g].op \in TransferOps /\ req[h].pc # "idle" => g = h

\* What a call of a transfer relies on: that the business is as it was loaded, and
\* that who is proposed is not the owner.
Proposal(r) ==
  /\ r.pc = "idle" => r.op = "none"
  /\ r.pc = "loadTarget" => r.op \in {"initiate", "confirm"}
  /\ r.op = "initiate" => r.target # r.actor
  /\ r.op = "initiate" /\ r.pc \in {"loadTarget", "write"} => r.actor = owner
  /\ r.op = "acceptTransfer" /\ r.pc = "write" =>
       r.transfer = transfer /\ transfer.status = "pending"
  /\ r.op = "confirm" /\ r.pc \in {"loadTarget", "write"} =>
       r.actor = owner /\ r.owner = owner /\ r.target # owner

Proposals ==
  /\ transfer.status # "none" => transfer.initiatedBy = owner /\ transfer.proposed # owner
  /\ \A h \in Handlers : Proposal(req[h])

\* The calls that could take the owner's seat away are about other members.
OffOwner == {"invite", "resend", "cancel", "expire", "role", "template", "suspend", "remove"}
Sat(u) == member[u].status = "active" /\ member[u].role = "owner"
Swapping(h) == req[h].op = "confirm" /\ req[h].pc = "both"

Seats(r) ==
  /\ r.op \in OffOwner /\ r.pc \in {"upsert", "write", "both"} => r.target # owner
  /\ r.op = "confirm" /\ r.pc = "write" => member[r.target].status = "active"
  /\ r.op = "confirm" /\ r.pc = "both" =>
       /\ owner = r.target /\ r.owner # owner /\ member[owner].status = "active"
       /\ "second" \notin r.todo => member[owner].role = "owner"

Seating ==
  ~torn => /\ \A h \in Handlers : Seats(req[h])
           /\ (\A h \in Handlers : ~Swapping(h)) => Sat(owner)

Handover == Proposals /\ Seating

LEMMA HandoverInit == Init => Handover
<1> SUFFICES ASSUME Init PROVE Handover
  OBVIOUS
<1>1. Proposals
  BY DEF Init, Proposals, Proposal, Idle, NoTransfer
<1>2. Seating
  BY MembershipAssumption DEF Init, Seating, Seats, Sat, Idle, OffOwner
<1> QED BY <1>1, <1>2 DEF Handover

\* A call on a member leaves the business alone, goes on about the same member,
\* and writes to nobody else; what it writes spares an active owner unless it is
\* one of OffOwner.
LEMMA MemberMoves ==
  ASSUME IInv, NEW h \in Handlers, MemberCall(h)
  PROVE  /\ req[h].op \notin TransferOps /\ req[h].pc # "idle"
         /\ \A g \in Handlers \ {h} : req'[g] = req[g]
         /\ UNCHANGED <<owner, transfer, torn>>
         /\ \/ req'[h] = Idle
            \/ /\ req'[h].op = req[h].op /\ req'[h].target = req[h].target
               /\ req'[h].pc \notin {"idle", "loadTarget"}
               /\ \/ req[h].pc \in {"upsert", "write", "both"}
                  \/ Admissible(req[h].op, member[req[h].target])
         /\ \A u \in Users :
              \/ /\ member'[u].status \in {member[u].status, "active"}
                 /\ member'[u].role = member[u].role
              \/ u = req[h].target /\ req[h].op \in OffOwner /\ req[h].pc \in {"write", "both"}
<1>1. /\ req[h] \in Call /\ req \in [Handlers -> Call]
      /\ member \in [Users -> Membership]
  BY DEF IInv, TypeOK
<1>2. UNCHANGED <<owner, transfer, torn>>
  BY DEF MemberCall, LoadMember, UpsertFind, UpsertWrite, SetStatus, SetRole,
         SetPermissions, ApplyTemplate, business
<1>3. CASE LoadMember(h)
  <2> DEFINE pc == NextPC(req[h].op)
             role == IF req[h].op = "resend" THEN member[req[h].target].role ELSE req[h].role
             todo == IF req[h].op = "template" THEN {"first", "second"} ELSE {}
             c == [req[h] EXCEPT !.pc = pc, !.role = role, !.todo = todo]
  <2>0. pc \notin {"idle", "loadTarget"}
    BY DEF NextPC
  <2> HIDE DEF pc
  <2>1. c.op = req[h].op /\ c.target = req[h].target /\ c.pc \notin {"idle", "loadTarget"}
    BY <1>1, <2>0 DEF Call
  <2>2. \/ Admissible(req[h].op, member[req[h].target]) /\ req' = [req EXCEPT ![h] = c]
        \/ req' = [req EXCEPT ![h] = Idle]
    BY <1>3 DEF LoadMember, Return, pc
  <2>3. /\ req[h].op \notin TransferOps /\ req[h].pc = "load" /\ UNCHANGED member
    BY <1>3 DEF LoadMember, TransferOps
  <2> HIDE DEF c
  <2> QED BY <1>1, <1>2, <2>1, <2>2, <2>3
<1>4. CASE UpsertFind(h)
  <2>1. req[h].op \in {"invite", "resend"} /\ req[h].pc = "upsert"
    BY <1>4 DEF UpsertFind, IInv, Consent, Carried
  <2>2. \/ req' = [req EXCEPT ![h] = Idle]
        \/ req' = [req EXCEPT ![h].pc = "write"]
    BY <1>4 DEF UpsertFind, GotoOrRefuse, Goto, Return
  <2>3. UNCHANGED member
    BY <1>4 DEF UpsertFind
  <2> QED BY <1>1, <1>2, <2>1, <2>2, <2>3 DEF Call, TransferOps
<1>5. CASE UpsertWrite(h) \/ SetRole(h)
  <2>1. /\ req[h].op \in {"invite", "resend", "role"} /\ req[h].pc = "write"
        /\ req' = [req EXCEPT ![h] = Idle]
    BY <1>5 DEF UpsertWrite, SetRole, Return
  <2>2. \A u \in Users \ {req[h].target} : member'[u] = member[u]
    BY <1>1, <1>5 DEF UpsertWrite, SetRole
  <2> QED BY <1>1, <1>2, <2>1, <2>2 DEF TransferOps, OffOwner
<1>6. CASE SetStatus(h)
  <2>1. /\ req[h].op \in {"cancel", "expire", "acceptInvite", "suspend", "activate", "remove"}
        /\ req[h].pc = "write" /\ req' = [req EXCEPT ![h] = Idle]
        /\ member' = [member EXCEPT ![req[h].target].status = Outcome(req[h].op)]
    BY <1>6 DEF SetStatus, Return
  <2>2. req[h].op \in {"acceptInvite", "activate"} => Outcome(req[h].op) = "active"
    BY DEF Outcome
  <2>3. \A u \in Users \ {req[h].target} : member'[u] = member[u]
    BY <1>1, <2>1
  <2>4. \A u \in Users : member'[u].role = member[u].role
    BY <1>1, <2>1 DEF Membership
  <2>5. req[h].op \in {"acceptInvite", "activate"} =>
          \A u \in Users : member'[u].status \in {member[u].status, "active"}
    BY <1>1, <2>1, <2>2 DEF Membership
  <2> QED BY <1>1, <1>2, <2>1, <2>3, <2>4, <2>5 DEF TransferOps, OffOwner
<1>7. CASE SetPermissions(h)
  <2>1. /\ req[h].op = "permissions" /\ req[h].pc = "write" /\ req' = [req EXCEPT ![h] = Idle]
    BY <1>7 DEF SetPermissions, Return
  <2>2. \A u \in Users : member'[u].role = member[u].role /\ member'[u].status = member[u].status
    BY <1>1, <1>7 DEF SetPermissions, Membership
  <2> QED BY <1>1, <1>2, <2>1, <2>2 DEF TransferOps
<1>8. CASE ApplyTemplate(h)
  <2>1. req[h].op = "template" /\ req[h].pc = "both"
    BY <1>8 DEF ApplyTemplate, Tick
  <2>2. PICK w : req' = [req EXCEPT ![h] = Idle] \/ req' = [req EXCEPT ![h].todo = @ \ {w}]
    BY <1>8 DEF ApplyTemplate, Tick, Return
  <2>3. \A u \in Users \ {req[h].target} : member'[u] = member[u]
    BY <1>1, <1>8 DEF ApplyTemplate
  <2> QED BY <1>1, <1>2, <2>1, <2>2, <2>3 DEF Call, TransferOps, OffOwner
<1> QED BY <1>3, <1>4, <1>5, <1>6, <1>7, <1>8 DEF MemberCall

\* A step of one handler that writes neither the business nor a membership.
LEMMA PlainKeeps ==
  ASSUME Handover, NEW h \in Handlers,
         \A g \in Handlers \ {h} : req'[g] = req[g],
         UNCHANGED <<owner, transfer, member>>, torn => torn',
         Proposal(req[h])', torn' \/ (Seats(req[h])' /\ ~Swapping(h))
  PROVE  Handover'
<1>1. ASSUME NEW g \in Handlers PROVE Proposal(req[g])'
  <2>1. CASE g # h
    BY <2>1 DEF Handover, Proposals, Proposal
  <2> QED BY <2>1
<1>2. Proposals'
  BY <1>1 DEF Handover, Proposals
<1>3. Seating'
  <2>1. SUFFICES ASSUME ~torn' PROVE Seating'
    BY DEF Seating
  <2>2. ASSUME NEW g \in Handlers PROVE Seats(req[g])'
    <3>1. CASE g # h
      BY <2>1, <3>1 DEF Handover, Seating, Seats
    <3> QED BY <2>1, <3>1
  <2>3. (\A g \in Handlers : ~Swapping(g))' => Sat(owner)'
    BY <2>1 DEF Handover, Seating, Swapping, Sat
  <2> QED BY <2>2, <2>3 DEF Seating
<1> QED BY <1>2, <1>3 DEF Handover

LEMMA MemberCallSeats ==
  ASSUME IInv, Handover, TransfersAlone, NEW h \in Handlers, MemberCall(h)
  PROVE  Handover'
<1>1. /\ req[h].op \notin TransferOps /\ req[h].pc # "idle"
      /\ \A g \in Handlers \ {h} : req'[g] = req[g]
      /\ UNCHANGED <<owner, transfer, torn>>
      /\ \/ req'[h] = Idle
         \/ /\ req'[h].op = req[h].op /\ req'[h].target = req[h].target
            /\ req'[h].pc \notin {"idle", "loadTarget"}
            /\ \/ req[h].pc \in {"upsert", "write", "both"}
               \/ Admissible(req[h].op, member[req[h].target])
  BY MemberMoves
<1>2. \A u \in Users :
        \/ /\ member'[u].status \in {member[u].status, "active"}
           /\ member'[u].role = member[u].role
        \/ u = req[h].target /\ req[h].op \in OffOwner /\ req[h].pc \in {"write", "both"}
  BY MemberMoves
<1>3. \A g \in Handlers : req[g].op \notin TransferOps
  BY <1>1 DEF TransfersAlone, Handover, Proposals, Proposal, TransferOps
<1>4. \A g \in Handlers : req'[g].op \notin TransferOps
  BY <1>1, <1>3 DEF Idle, TransferOps
<1>5. Proposals'
  <2>1. ASSUME NEW g \in Handlers PROVE Proposal(req[g])'
    <3>1. req'[g].pc # "loadTarget" /\ (req'[g].pc = "idle" => req'[g].op = "none")
      BY <1>1, <1>3 DEF Handover, Proposals, Proposal, TransferOps, Idle
    <3> QED BY <1>4, <3>1 DEF Proposal, TransferOps
  <2> QED BY <1>1, <2>1 DEF Handover, Proposals
<1>6. ASSUME ~torn' PROVE Seating'
  <2>1. /\ owner \in Users /\ ~torn
        /\ \A g \in Handlers : Seats(req[g])
        /\ Sat(owner)
    BY <1>1, <1>3, <1>6 DEF IInv, TypeOK, Handover, Seating, Swapping, TransferOps
  <2>2. Sat(owner)'
    BY <1>1, <1>2, <2>1 DEF Sat, Seats
  <2>3. ASSUME NEW g \in Handlers, req'[g].op \in OffOwner, req'[g].pc \in {"upsert", "write", "both"}
        PROVE  req'[g].target # owner'
    <3>1. CASE g # h
      BY <1>1, <2>1, <2>3, <3>1 DEF Seats
    <3>2. CASE g = h
      <4>1. /\ req'[h].op = req[h].op /\ req'[h].target = req[h].target
            /\ \/ req[h].pc \in {"upsert", "write", "both"}
               \/ Admissible(req[h].op, member[req[h].target])
        BY <1>1, <2>3, <3>2 DEF Idle
      <4>2. CASE req[h].pc \in {"upsert", "write", "both"}
        BY <1>1, <2>1, <2>3, <3>2, <4>1, <4>2 DEF Seats
      <4>3. CASE Admissible(req[h].op, member[req[h].target])
        BY <1>1, <2>1, <2>3, <3>2, <4>1, <4>3 DEF Admissible, OffOwner, Sat
      <4> QED BY <4>1, <4>2, <4>3
    <3> QED BY <3>1, <3>2
  <2>4. \A g \in Handlers : Seats(req[g])'
    BY <1>4, <2>3 DEF Seats, TransferOps
  <2> QED BY <2>2, <2>4 DEF Seating
<1>7. Seating'
  BY <1>6 DEF Seating
<1> QED BY <1>5, <1>7 DEF Handover

\* A call of a transfer is alone, so that only its own record matters.
LEMMA AloneKeeps ==
  ASSUME Handover, TransfersAlone, NEW h \in Handlers,
         req[h].pc # "idle", req[h].op \in TransferOps,
         \A g \in Handlers \ {h} : req'[g] = req[g],
         transfer'.status # "none" => transfer'.initiatedBy = owner' /\ transfer'.proposed # owner',
         Proposal(req[h])',
         torn' \/ (Seats(req[h])' /\ (Swapping(h)' \/ Sat(owner)'))
  PROVE  Handover'
<1>1. ASSUME NEW g \in Handlers, g # h PROVE Proposal(req[g])' /\ Seats(req[g])'
  <2>1. req'[g] = req[g] /\ req[g].pc = "idle" /\ Proposal(req[g])
    BY <1>1 DEF TransfersAlone, Handover, Proposals
  <2> QED BY <2>1 DEF Proposal, Seats
<1> QED BY <1>1 DEF Handover, Proposals, Seating

LEMMA TransferCallSeats ==
  ASSUME IInv, Handover, TransfersAlone, NEW h \in Handlers, TransferCall(h)
  PROVE  Handover'
<1> DEFINE r == req[h]
<1>1. /\ r \in Call /\ req \in [Handlers -> Call] /\ member \in [Users -> Membership]
      /\ owner \in Users /\ transfer \in Transfer
      /\ Proposal(r)
      /\ ~torn => Seats(r)
      /\ transfer.status # "none" => transfer.initiatedBy = owner /\ transfer.proposed # owner
  BY DEF IInv, TypeOK, Handover, Proposals, Seating
<1>2. UNCHANGED torn
  BY DEF TransferCall, LoadForInitiate, LoadNewOwner, Initiate, LoadForAccept, Accept,
         LoadForConfirm, HandOver, SwapRoles
<1>3. CASE LoadForInitiate(h)
  <2>1. /\ r.op = "initiate" /\ r.pc = "load" /\ UNCHANGED <<owner, transfer, member>>
        /\ \/ req' = [req EXCEPT ![h] = Idle]
           \/ owner = r.actor /\ req' = [req EXCEPT ![h].pc = "loadTarget"]
    BY <1>3 DEF LoadForInitiate, GotoOrRefuse, Goto, Return, business
  <2>2. /\ \A g \in Handlers \ {h} : req'[g] = req[g]
        /\ \/ req'[h] = Idle
           \/ /\ owner = r.actor /\ req'[h].pc = "loadTarget" /\ req'[h].op = r.op
              /\ req'[h].actor = r.actor /\ req'[h].target = r.target
    BY <1>1, <2>1 DEF Call
  <2>3. Proposal(req[h])' /\ Seats(req[h])' /\ ~Swapping(h)
    BY <1>1, <2>1, <2>2 DEF Proposal, Seats, Swapping, Idle, OffOwner
  <2> QED BY <1>2, <2>1, <2>2, <2>3, PlainKeeps
<1>4. CASE LoadNewOwner(h)
  <2>1. /\ r.pc = "loadTarget" /\ UNCHANGED <<owner, transfer, member>>
        /\ \/ req' = [req EXCEPT ![h] = Idle]
           \/ member[r.target].status = "active" /\ req' = [req EXCEPT ![h].pc = "write"]
    BY <1>4 DEF LoadNewOwner, GotoOrRefuse, Goto, Return, business
  <2>2. /\ \A g \in Handlers \ {h} : req'[g] = req[g]
        /\ \/ req'[h] = Idle
           \/ /\ member[r.target].status = "active" /\ req'[h].pc = "write" /\ req'[h].op = r.op
              /\ req'[h].actor = r.actor /\ req'[h].target = r.target
              /\ req'[h].owner = r.owner
    BY <1>1, <2>1 DEF Call
  <2>3. Proposal(req[h])' /\ Seats(req[h])' /\ ~Swapping(h)
    BY <1>1, <2>1, <2>2 DEF Proposal, Seats, Swapping, Idle, OffOwner
  <2> QED BY <1>2, <2>1, <2>2, <2>3, PlainKeeps
<1>5. CASE Initiate(h)
  <2>1. /\ r.op = "initiate" /\ r.pc = "write" /\ UNCHANGED <<owner, member>>
        /\ transfer' = [status |-> "pending", proposed |-> r.target, initiatedBy |-> r.actor]
        /\ req' = [req EXCEPT ![h] = Idle]
    BY <1>5 DEF Initiate, Return
  <2>2. (\A g \in Handlers \ {h} : req'[g] = req[g]) /\ req'[h] = Idle
    BY <1>1, <2>1
  <2>3. Proposal(req[h])' /\ Seats(req[h])'
    BY <2>2 DEF Proposal, Seats, Idle, OffOwner
  <2>4. ~torn => Sat(owner)'
    <3>1. \A g \in Handlers : ~Swapping(g)
      BY <2>1 DEF Swapping, TransfersAlone, TransferOps
    <3> QED BY <2>1, <3>1 DEF Handover, Seating, Sat
  <2>5. transfer'.initiatedBy = owner' /\ transfer'.proposed # owner'
    BY <1>1, <2>1 DEF Proposal
  <2> QED BY <1>2, <2>1, <2>2, <2>3, <2>4, <2>5, AloneKeeps DEF TransferOps
<1>6. CASE LoadForAccept(h)
  <2> DEFINE c == [r EXCEPT !.pc = "write", !.transfer = transfer]
  <2>1. /\ r.op = "acceptTransfer" /\ r.pc = "load" /\ UNCHANGED <<owner, transfer, member>>
        /\ \/ req' = [req EXCEPT ![h] = Idle]
           \/ transfer.status = "pending" /\ req' = [req EXCEPT ![h] = c]
    BY <1>6 DEF LoadForAccept, MayAccept, Return, business
  <2>2. c.pc = "write" /\ c.op = r.op /\ c.transfer = transfer
    BY <1>1 DEF Call
  <2> HIDE DEF c
  <2>3. /\ \A g \in Handlers \ {h} : req'[g] = req[g]
        /\ \/ req'[h] = Idle
           \/ transfer.status = "pending" /\ req'[h] = c
    BY <1>1, <2>1
  <2>4. Proposal(req[h])' /\ Seats(req[h])' /\ ~Swapping(h)
    BY <2>1, <2>2, <2>3 DEF Proposal, Seats, Swapping, Idle, OffOwner
  <2> QED BY <1>2, <2>1, <2>3, <2>4, PlainKeeps
<1>7. CASE Accept(h)
  <2>1. /\ r.op = "acceptTransfer" /\ r.pc = "write" /\ UNCHANGED <<owner, member>>
        /\ transfer' = [r.transfer EXCEPT !.status = "accepted"]
        /\ req' = [req EXCEPT ![h] = Idle]
    BY <1>7 DEF Accept, Return
  <2>2. (\A g \in Handlers \ {h} : req'[g] = req[g]) /\ req'[h] = Idle
    BY <1>1, <2>1
  <2>3. Proposal(req[h])' /\ Seats(req[h])'
    BY <2>2 DEF Proposal, Seats, Idle, OffOwner
  <2>4. ~torn => Sat(owner)'
    <3>1. \A g \in Handlers : ~Swapping(g)
      BY <2>1 DEF Swapping, TransfersAlone, TransferOps
    <3> QED BY <2>1, <3>1 DEF Handover, Seating, Sat
  <2>5. transfer'.initiatedBy = owner' /\ transfer'.proposed # owner'
    <3>1. r.transfer = transfer /\ transfer.status = "pending"
      BY <1>1, <2>1 DEF Proposal
    <3> QED BY <1>1, <2>1, <3>1 DEF Transfer
  <2> QED BY <1>2, <2>1, <2>2, <2>3, <2>4, <2>5, AloneKeeps DEF TransferOps
<1>8. CASE LoadForConfirm(h)
  <2> DEFINE c == [r EXCEPT !.pc = "loadTarget", !.target = transfer.proposed,
                            !.owner = owner, !.transfer = transfer]
  <2>1. /\ r.op = "confirm" /\ r.pc = "load" /\ UNCHANGED <<owner, transfer, member>>
        /\ \/ req' = [req EXCEPT ![h] = Idle]
           \/ /\ transfer.status = "accepted" /\ transfer.initiatedBy = r.actor
              /\ req' = [req EXCEPT ![h] = c]
    BY <1>8 DEF LoadForConfirm, MayConfirm, Return, business
  <2>2. /\ c.pc = "loadTarget" /\ c.op = r.op /\ c.owner = owner /\ c.actor = r.actor
        /\ c.target = transfer.proposed
    BY <1>1 DEF Call
  <2> HIDE DEF c
  <2>3. /\ \A g \in Handlers \ {h} : req'[g] = req[g]
        /\ \/ req'[h] = Idle
           \/ /\ transfer.status = "accepted" /\ transfer.initiatedBy = r.actor
              /\ req'[h] = c
    BY <1>1, <2>1
  <2>4. Proposal(req[h])' /\ Seats(req[h])' /\ ~Swapping(h)
    BY <1>1, <2>1, <2>2, <2>3 DEF Proposal, Seats, Swapping, Idle, OffOwner
  <2> QED BY <1>2, <2>1, <2>3, <2>4, PlainKeeps
<1>9. CASE HandOver(h)
  <2> DEFINE c == [r EXCEPT !.pc = "both", !.todo = {"first", "second"}]
  <2>1. /\ r.op = "confirm" /\ r.pc = "write" /\ UNCHANGED member
        /\ owner' = r.target /\ transfer' = NoTransfer /\ req' = [req EXCEPT ![h] = c]
    BY <1>9 DEF HandOver
  <2>2. /\ c.pc = "both" /\ c.op = r.op /\ c.owner = r.owner /\ c.target = r.target
        /\ c.todo = {"first", "second"}
    BY <1>1 DEF Call
  <2> HIDE DEF c
  <2>3. (\A g \in Handlers \ {h} : req'[g] = req[g]) /\ req'[h] = c
    BY <1>1, <2>1
  <2>4. Proposal(req[h])' /\ Swapping(h)'
    BY <2>1, <2>2, <2>3 DEF Proposal, Swapping
  <2>5. ~torn => Seats(req[h])'
    <3>1. r.owner = owner /\ r.target # owner
      BY <1>1, <2>1 DEF Proposal
    <3>2. ~torn => member[r.target].status = "active"
      BY <1>1, <2>1 DEF Seats
    <3> QED BY <2>1, <2>2, <2>3, <3>1, <3>2 DEF Seats, OffOwner
  <2>6. transfer'.status = "none"
    BY <2>1 DEF NoTransfer
  <2> QED BY <1>2, <2>1, <2>3, <2>4, <2>5, <2>6, AloneKeeps DEF TransferOps
<1>10. CASE SwapRoles(h)
  <2>1. /\ r.op = "confirm" /\ r.pc = "both" /\ UNCHANGED <<owner, transfer>>
    BY <1>10 DEF SwapRoles, Tick, business
  <2>2. PICK w \in {"first", "second"} :
          /\ w \in r.todo
          /\ IF r.todo = {w} THEN req' = [req EXCEPT ![h] = Idle]
             ELSE req' = [req EXCEPT ![h].todo = @ \ {w}]
          /\ member' = [member EXCEPT ![IF w = "first" THEN r.owner ELSE r.target].role =
                          IF w = "first" THEN "agent" ELSE "owner"]
    BY <1>10 DEF SwapRoles, Tick, Return
  <2>3. /\ \A g \in Handlers \ {h} : req'[g] = req[g]
        /\ \/ r.todo = {w} /\ req'[h] = Idle
           \/ /\ req'[h].op = r.op /\ req'[h].pc = r.pc /\ req'[h].target = r.target
              /\ req'[h].owner = r.owner /\ req'[h].todo = r.todo \ {w}
    BY <1>1, <2>2 DEF Call
  <2>4. Proposal(req[h])'
    BY <2>1, <2>3 DEF Proposal, Idle
  <2>5. ASSUME ~torn PROVE Seats(req[h])' /\ (Swapping(h)' \/ Sat(owner)')
    <3>1. /\ owner = r.target /\ r.owner # owner /\ member[owner].status = "active"
          /\ "second" \notin r.todo => member[owner].role = "owner"
      BY <1>1, <2>1, <2>5 DEF Seats
    <3>2. /\ member'[owner].status = "active"
          /\ w = "first" => member'[owner].role = member[owner].role
          /\ w = "second" => member'[owner].role = "owner"
      BY <1>1, <2>2, <3>1 DEF Membership
    <3>3. CASE r.todo = {w} /\ req'[h] = Idle
      BY <2>1, <3>1, <3>2, <3>3 DEF Seats, Sat, Idle, OffOwner
    <3>4. CASE /\ req'[h].op = r.op /\ req'[h].pc = r.pc /\ req'[h].target = r.target
               /\ req'[h].owner = r.owner /\ req'[h].todo = r.todo \ {w}
      BY <2>1, <3>1, <3>2, <3>4 DEF Seats, Swapping, OffOwner
    <3> QED BY <2>3, <3>3, <3>4
  <2> QED BY <1>1, <1>2, <2>1, <2>3, <2>4, <2>5, AloneKeeps DEF TransferOps
<1> QED BY <1>3, <1>4, <1>5, <1>6, <1>7, <1>8, <1>9, <1>10 DEF TransferCall

LEMMA HandoverNext == IInv /\ Handover /\ TransfersAlone /\ [Next]_vars => Handover'
<1> SUFFICES ASSUME IInv, Handover, TransfersAlone, [Next]_vars PROVE Handover'
  OBVIOUS
<1>0. req \in [Handlers -> Call] /\ torn \in BOOLEAN
  BY DEF IInv, TypeOK
<1>1. ASSUME UNCHANGED <<owner, transfer, member, req, torn>> PROVE Handover'
  BY <1>1 DEF Handover, Proposals, Proposal, Seating, Seats, Swapping, Sat
<1>2. ASSUME NEW h \in Handlers, Begin(h) PROVE Handover'
  <2>1. PICK op \in Ops, a \in Users, t \in Users, r \in Roles, o \in Overrides :
          Ask(h, op, a, t, r, o)
    BY <1>2 DEF Begin
  <2> DEFINE c == Asked(op, a, t, r, o)
  <2>2. /\ c.pc \in {"load", "access"} /\ c.op = op /\ c.actor = a /\ c.target = t
    BY IdleTyped DEF Call, Asked
  <2>3. /\ UNCHANGED <<owner, transfer, member, torn>> /\ req' = [req EXCEPT ![h] = c]
        /\ req[h].pc = "idle" /\ (op = "initiate" => t # a)
    BY <2>1 DEF Ask, business
  <2> HIDE DEF c
  <2>4. (\A g \in Handlers \ {h} : req'[g] = req[g]) /\ req'[h] = c
    BY <1>0, <2>3
  <2>5. Proposal(req[h])' /\ Seats(req[h])' /\ ~Swapping(h)
    BY <2>2, <2>3, <2>4 DEF Proposal, Seats, Swapping
  <2> QED BY <2>3, <2>4, <2>5, PlainKeeps
<1>3. ASSUME NEW h \in Handlers, CheckAccess(h) PROVE Handover'
  <2>1. /\ UNCHANGED <<owner, transfer, member, torn>> /\ req[h].pc = "access"
        /\ \/ req' = [req EXCEPT ![h] = Idle]
           \/ req' = [req EXCEPT ![h].pc = "load"]
    BY <1>3 DEF CheckAccess, GotoOrRefuse, Goto, Return, business
  <2>2. /\ \A g \in Handlers \ {h} : req'[g] = req[g]
        /\ \/ req'[h] = Idle
           \/ /\ req'[h].pc = "load" /\ req'[h].op = req[h].op
              /\ req'[h].actor = req[h].actor /\ req'[h].target = req[h].target
    BY <1>0, <2>1 DEF Call
  <2>3. Proposal(req[h])' /\ Seats(req[h])' /\ ~Swapping(h)
    BY <2>1, <2>2 DEF Handover, Proposals, Proposal, Seats, Swapping, Idle
  <2> QED BY <2>1, <2>2, <2>3, PlainKeeps
<1>4. ASSUME NEW h \in Handlers, Fail(h) PROVE Handover'
  <2>1. /\ UNCHANGED <<owner, transfer, member>> /\ req' = [req EXCEPT ![h] = Idle]
        /\ torn' = (torn \/ Swapping(h))
    BY <1>4 DEF Fail, Return, business, Swapping
  <2>2. (\A g \in Handlers \ {h} : req'[g] = req[g]) /\ req'[h] = Idle
    BY <1>0, <2>1
  <2>3. Proposal(req[h])' /\ Seats(req[h])'
    BY <2>2 DEF Proposal, Seats, Idle
  <2> QED BY <2>1, <2>2, <2>3, PlainKeeps
<1>5. ASSUME NEW u \in Users, SignIn(u) \/ SignOut(u) PROVE Handover'
  BY <1>1, <1>5 DEF SignIn, SignOut, business
<1> QED BY <1>1, <1>2, <1>3, <1>4, <1>5, MemberCallSeats, TransferCallSeats DEF Next, vars

----------------------------------------------------------------------------
\* A step of a call is a step of its record, and stays the same operation.
LEMMA OwnRecord ==
  ASSUME IInv, NEW h \in Handlers,
         CheckAccess(h) \/ MemberCall(h) \/ TransferCall(h) \/ Fail(h)
  PROVE  /\ req[h].pc # "idle"
         /\ \A g \in Handlers \ {h} : req'[g] = req[g]
         /\ req'[h] = Idle \/ req'[h].op = req[h].op
<1>1. req[h] \in Call /\ req \in [Handlers -> Call]
  BY DEF IInv, TypeOK
<1>2. CASE CheckAccess(h) \/ Fail(h)
  BY <1>1, <1>2 DEF CheckAccess, Fail, GotoOrRefuse, Goto, Return, Call
<1>3. CASE LoadForInitiate(h) \/ LoadNewOwner(h) \/ Initiate(h) \/ Accept(h)
  BY <1>1, <1>3 DEF LoadForInitiate, LoadNewOwner, Initiate, Accept, GotoOrRefuse, Goto, Return, Call
<1>4. CASE LoadForAccept(h)
  <2> DEFINE c == [req[h] EXCEPT !.pc = "write", !.transfer = transfer]
  <2>1. c.op = req[h].op
    BY <1>1 DEF Call
  <2>2. req[h].pc = "load" /\ (req' = [req EXCEPT ![h] = Idle] \/ req' = [req EXCEPT ![h] = c])
    BY <1>4 DEF LoadForAccept, Return
  <2> HIDE DEF c
  <2> QED BY <1>1, <2>1, <2>2
<1>5. CASE LoadForConfirm(h)
  <2> DEFINE c == [req[h] EXCEPT !.pc = "loadTarget", !.target = transfer.proposed,
                                 !.owner = owner, !.transfer = transfer]
  <2>1. c.op = req[h].op
    BY <1>1 DEF Call
  <2>2. req[h].pc = "load" /\ (req' = [req EXCEPT ![h] = Idle] \/ req' = [req EXCEPT ![h] = c])
    BY <1>5 DEF LoadForConfirm, Return
  <2> HIDE DEF c
  <2> QED BY <1>1, <2>1, <2>2
<1>6. CASE HandOver(h)
  <2> DEFINE c == [req[h] EXCEPT !.pc = "both", !.todo = {"first", "second"}]
  <2>1. c.op = req[h].op
    BY <1>1 DEF Call
  <2>2. req[h].pc = "write" /\ req' = [req EXCEPT ![h] = c]
    BY <1>6 DEF HandOver
  <2> HIDE DEF c
  <2> QED BY <1>1, <2>1, <2>2
<1>7. CASE SwapRoles(h)
  <2>1. PICK w : /\ req[h].pc = "both"
                 /\ req' = [req EXCEPT ![h] = Idle] \/ req' = [req EXCEPT ![h].todo = @ \ {w}]
    BY <1>7 DEF SwapRoles, Tick, Return
  <2> QED BY <1>1, <2>1 DEF Call
<1>8. CASE MemberCall(h)
  BY <1>8, MemberMoves
<1> QED BY <1>2, <1>3, <1>4, <1>5, <1>6, <1>7, <1>8 DEF TransferCall

\* The business passes to another owner by HandOver.
LEMMA ConfirmsNext == IInv /\ Handover /\ [Next]_vars => ConfirmedByOwner
<1> SUFFICES ASSUME IInv, Handover, [Next]_vars, owner' # owner PROVE ConfirmedByOwner
  BY DEF ConfirmedByOwner
<1>1. ASSUME NEW h \in Handlers, MemberCall(h) PROVE FALSE
  BY <1>1, MemberMoves
<1>2. ASSUME NEW h \in Handlers, Begin(h) \/ CheckAccess(h) \/ Fail(h) PROVE FALSE
  BY <1>2 DEF Begin, Ask, CheckAccess, Fail, business
<1>3. ASSUME NEW u \in Users, SignIn(u) \/ SignOut(u) PROVE FALSE
  BY <1>3 DEF SignIn, SignOut, business
<1>4. ASSUME UNCHANGED vars PROVE FALSE
  BY <1>4 DEF vars
<1>5. ASSUME NEW h \in Handlers, TransferCall(h) PROVE HandOver(h)
  BY <1>5 DEF TransferCall, LoadForInitiate, LoadNewOwner, Initiate, LoadForAccept, Accept,
              LoadForConfirm, SwapRoles, business
<1>6. PICK h \in Handlers : HandOver(h)
  BY <1>1, <1>2, <1>3, <1>4, <1>5 DEF Next
<1>7. req[h].actor = owner
  BY <1>6 DEF HandOver, Handover, Proposals, Proposal
<1>8. req'[h] # req[h]
  <2> DEFINE c == [req[h] EXCEPT !.pc = "both", !.todo = {"first", "second"}]
  <2>1. c.pc = "both"
    BY DEF IInv, TypeOK, Call
  <2>2. req[h].pc = "write" /\ req' = [req EXCEPT ![h] = c]
    BY <1>6 DEF HandOver
  <2> HIDE DEF c
  <2> QED BY <2>1, <2>2 DEF IInv, TypeOK
<1> QED BY <1>7, <1>8 DEF ConfirmedByOwner

----------------------------------------------------------------------------
\* One call at a time, an invitation about to be written is not for a member.
OneAtATime == \A g, h \in Handlers : req[g].pc # "idle" /\ req[h].pc # "idle" => g = h

NotJoined == \A h \in Handlers :
  req[h].op \in {"invite", "resend"} /\ req[h].pc = "write" =>
    member[req[h].target].status # "active"

\* Where a call comes to write an invitation, and who writes one.
LEMMA ReachesInvite ==
  ASSUME IInv, Proposals, NEW h \in Handlers,
         CheckAccess(h) \/ MemberCall(h) \/ TransferCall(h) \/ Fail(h),
         req'[h].op \in {"invite", "resend"}, req'[h].pc = "write"
  PROVE  UNCHANGED member /\ member[req'[h].target].status # "active"
<1>1. req[h] \in Call /\ req \in [Handlers -> Call] /\ Proposal(req[h])
  BY DEF IInv, TypeOK, Proposals
<1>2. req[h].op = req'[h].op
  BY OwnRecord DEF Idle
<1>3. UpsertFind(h)
  <2>1. CASE CheckAccess(h) \/ Fail(h)
    <3> DEFINE c == [req[h] EXCEPT !.pc = "load"]
    <3>1. c.pc = "load"
      BY <1>1 DEF Call
    <3>2. req' = [req EXCEPT ![h] = c] \/ req' = [req EXCEPT ![h] = Idle]
      BY <1>1, <2>1 DEF CheckAccess, Fail, GotoOrRefuse, Goto, Return
    <3> HIDE DEF c
    <3> QED BY <1>1, <3>1, <3>2 DEF Idle
  <2>2. CASE TransferCall(h)
    <3>1. LoadNewOwner(h)
      BY <1>2, <2>2 DEF TransferCall, LoadForInitiate, Initiate, LoadForAccept, Accept,
                        LoadForConfirm, HandOver, SwapRoles
    <3> QED BY <1>1, <1>2, <3>1 DEF LoadNewOwner, Proposal
  <2>3. CASE LoadMember(h)
    <3> DEFINE pc == NextPC(req[h].op)
               role == IF req[h].op = "resend" THEN member[req[h].target].role ELSE req[h].role
               todo == IF req[h].op = "template" THEN {"first", "second"} ELSE {}
               c == [req[h] EXCEPT !.pc = pc, !.role = role, !.todo = todo]
    <3>1. pc = "upsert"
      BY <1>2 DEF NextPC
    <3>2. req' = [req EXCEPT ![h] = c] \/ req' = [req EXCEPT ![h] = Idle]
      BY <2>3 DEF LoadMember, Return
    <3> HIDE DEF pc, role, todo
    <3>3. c.pc = "upsert"
      BY <1>1, <3>1 DEF Call
    <3> HIDE DEF c
    <3> QED BY <1>1, <3>2, <3>3 DEF Idle
  <2>4. CASE UpsertWrite(h) \/ SetStatus(h) \/ SetRole(h) \/ SetPermissions(h)
    BY <1>1, <2>4 DEF UpsertWrite, SetStatus, SetRole, SetPermissions, Return, Idle
  <2>5. CASE ApplyTemplate(h)
    BY <1>2, <2>5 DEF ApplyTemplate
  <2> QED BY <2>1, <2>2, <2>3, <2>4, <2>5 DEF MemberCall
<1>4. UNCHANGED member /\ member[req[h].target].status # "active" /\ req'[h].target = req[h].target
  BY <1>1, <1>3 DEF UpsertFind, GotoOrRefuse, Goto, Return, Call, Idle
<1> QED BY <1>4

LEMMA WhoInvites ==
  ASSUME IInv, NEW h \in Handlers, MemberCall(h) \/ TransferCall(h), NEW u \in Users,
         member'[u].status = "invited", member[u].status # "invited"
  PROVE  req[h].op \in {"invite", "resend"} /\ req[h].pc = "write" /\ u = req[h].target
<1>1. member \in [Users -> Membership]
  BY DEF IInv, TypeOK
<1>2. CASE UpsertWrite(h)
  BY <1>1, <1>2 DEF UpsertWrite
<1>3. CASE SetStatus(h)
  <2>1. Outcome(req[h].op) # "invited"
    BY DEF Outcome
  <2> QED BY <1>1, <1>3, <2>1 DEF SetStatus, Membership
<1>4. CASE SetRole(h) \/ SetPermissions(h) \/ ApplyTemplate(h) \/ SwapRoles(h)
  BY <1>1, <1>4 DEF SetRole, SetPermissions, ApplyTemplate, SwapRoles, Membership
<1>5. CASE LoadMember(h) \/ UpsertFind(h)
  BY <1>5 DEF LoadMember, UpsertFind
<1>6. CASE TransferCall(h) /\ ~SwapRoles(h)
  BY <1>6 DEF TransferCall, LoadForInitiate, LoadNewOwner, Initiate, LoadForAccept, Accept,
              LoadForConfirm, HandOver
<1> QED BY <1>2, <1>3, <1>4, <1>5, <1>6 DEF MemberCall

LEMMA NotJoinedNext ==
  IInv /\ Proposals /\ NotJoined /\ OneAtATime /\ [Next]_vars => NotJoined' /\ StaysJoined
<1> SUFFICES ASSUME IInv, Proposals, NotJoined, OneAtATime, [Next]_vars
             PROVE  NotJoined' /\ StaysJoined
  OBVIOUS
<1>1. ASSUME NEW h \in Handlers, MemberCall(h) \/ TransferCall(h) \/ CheckAccess(h) \/ Fail(h)
      PROVE  NotJoined' /\ StaysJoined
  <2>1. req[h].pc # "idle" /\ \A g \in Handlers \ {h} : req'[g] = req[g] /\ req[g].pc = "idle"
    BY <1>1, OwnRecord DEF OneAtATime
  <2>2. NotJoined'
    BY <1>1, <2>1, ReachesInvite DEF NotJoined
  <2>3. CASE CheckAccess(h) \/ Fail(h)
    BY <2>2, <2>3 DEF CheckAccess, Fail, StaysJoined
  <2>4. CASE MemberCall(h) \/ TransferCall(h)
    BY <2>2, <2>4, WhoInvites DEF NotJoined, StaysJoined
  <2> QED BY <1>1, <2>3, <2>4
<1>2. ASSUME NEW h \in Handlers, Begin(h) PROVE NotJoined' /\ StaysJoined
  <2>1. PICK op \in Ops, a \in Users, t \in Users, r \in Roles, o \in Overrides :
          Ask(h, op, a, t, r, o)
    BY <1>2 DEF Begin
  <2> DEFINE c == Asked(op, a, t, r, o)
  <2>2. c.pc \in {"load", "access"}
    BY IdleTyped DEF Call, Asked
  <2>3. UNCHANGED member /\ req' = [req EXCEPT ![h] = c]
    BY <2>1 DEF Ask
  <2> HIDE DEF c
  <2> QED BY <2>2, <2>3 DEF NotJoined, StaysJoined, IInv, TypeOK
<1>3. ASSUME UNCHANGED <<member, req>> PROVE NotJoined' /\ StaysJoined
  BY <1>3 DEF NotJoined, StaysJoined
<1>4. ASSUME NEW u \in Users, SignIn(u) \/ SignOut(u) PROVE UNCHANGED <<member, req>>
  BY <1>4 DEF SignIn, SignOut
<1> QED BY <1>1, <1>2, <1>3, <1>4 DEF Next, vars

----------------------------------------------------------------------------
\* The owner keeps the seat (OwnerSeated) and only the owner gives the business
\* away (OwnerConfirms) if no call of a transfer overlaps another call, whatever
\* the other calls interleave with and wherever calls are cut short.
THEOREM TransferredByOwner == Spec /\ []TransfersAlone => []OwnerSeated /\ OwnerConfirms
<1>1. Handover => OwnerSeated
  BY DEF Handover, Seating, Swapping, Sat, OwnerSeated
<1>2. IInv /\ Handover /\ [Next]_vars => [ConfirmedByOwner]_vars
  BY ConfirmsNext
<1> QED BY <1>1, <1>2, HandoverInit, HandoverNext, Inductive, PTL DEF Spec, OwnerConfirms

\* One call at a time, no active member becomes an invited one (ActiveStaysJoined).
THEOREM JoinedOnce == Spec /\ []OneAtATime => ActiveStaysJoined
<1>1. Init => NotJoined
  BY DEF Init, NotJoined, Idle
<1>2. OneAtATime => TransfersAlone
  BY DEF OneAtATime, TransfersAlone
<1>3. Handover => Proposals
  BY DEF Handover
<1>4. IInv /\ Proposals /\ NotJoined /\ OneAtATime /\ [Next]_vars => NotJoined' /\ [StaysJoined]_vars
  BY NotJoinedNext
<1> QED BY <1>1, <1>2, <1>3, <1>4, HandoverInit, HandoverNext, Inductive, PTL
        DEF Spec, ActiveStaysJoined

----------------------------------------------------------------------------
\* The scenarios of the runs: serially, or among the staff, whose calls are not
\* those of a transfer.
Scene ==
  /\ Serial => OneAtATime
  /\ scenario = "staff" => \A h \in Handlers : req[h].op \notin TransferOps

LEMMA SceneNext ==
  ASSUME IInv, Scene, [MCNext]_<<vars, scenario>>
  PROVE  Scene' /\ [Next]_vars /\ UNCHANGED scenario
<1>1. [Next]_vars /\ UNCHANGED scenario
  BY DEF MCNext, Next, BeginScene, Begin, vars
<1>2. ASSUME NEW h \in Handlers, Turn(h), BeginScene(h) PROVE Scene'
  <2>1. PICK op \in Ops \cap Scenarios[scenario], a \in Users, t \in Users, r \in Roles,
             o \in Overrides : Ask(h, op, a, t, r, o)
    BY <1>2 DEF BeginScene
  <2> DEFINE c == Asked(op, a, t, r, o)
  <2>2. c.op = op
    BY IdleTyped DEF Call, Asked
  <2>3. req' = [req EXCEPT ![h] = c]
    BY <2>1 DEF Ask
  <2>4. scenario = "staff" => op \notin TransferOps
    BY <2>1 DEF Scenarios, TransferOps
  <2> HIDE DEF c
  <2> QED BY <1>1, <1>2, <2>2, <2>3, <2>4 DEF Scene, Turn, OneAtATime, Serial, IInv, TypeOK
<1>3. ASSUME NEW h \in Handlers,
             CheckAccess(h) \/ MemberCall(h) \/ TransferCall(h) \/ Fail(h)
      PROVE  Scene'
  <2>1. /\ req[h].pc # "idle"
        /\ \A g \in Handlers \ {h} : req'[g] = req[g]
        /\ req'[h] = Idle \/ req'[h].op = req[h].op
    BY <1>3, OwnRecord
  <2> QED BY <1>1, <2>1 DEF Scene, OneAtATime, Serial, Idle, TransferOps
<1>4. ASSUME UNCHANGED req PROVE Scene'
  BY <1>1, <1>4 DEF Scene, OneAtATime, Serial
<1>5. ASSUME NEW u \in Users, SignIn(u) \/ SignOut(u) PROVE UNCHANGED req
  BY <1>5 DEF SignIn, SignOut
<1> QED BY <1>1, <1>2, <1>3, <1>4, <1>5 DEF MCNext, vars

\* The same of the runs' specification.
LEMMA SceneRules ==
  MCSpec => []OwnerSeatedUntorn /\ OwnerConfirmsSerially /\ ActiveStaysJoinedSerially
<1> DEFINE Inv == /\ IInv /\ Scene /\ scenario \in {"serial", "staff", "transfers"}
                  /\ scenario # "transfers" => Handover
                  /\ Serial => NotJoined
<1>1. MCInit => Inv
  <2>1. DOMAIN Scenarios = {"serial", "staff", "transfers"}
    BY DEF Scenarios
  <2>2. MCInit => \A h \in Handlers : req[h] = Idle
    BY DEF MCInit, Init
  <2>3. MCInit => Scene /\ NotJoined
    BY <2>2 DEF Scene, OneAtATime, NotJoined, Idle, TransferOps
  <2> QED BY <2>1, <2>3, Initially, HandoverInit DEF MCInit
<1>2. Inv /\ [MCNext]_<<vars, scenario>> =>
        Inv' /\ [Serial => ConfirmedByOwner]_<<vars, scenario>> /\ [Serial => StaysJoined]_<<vars, scenario>>
  <2> SUFFICES ASSUME Inv, [MCNext]_<<vars, scenario>>
               PROVE  Inv' /\ (Serial => ConfirmedByOwner /\ StaysJoined)
    OBVIOUS
  <2>1. Scene' /\ [Next]_vars /\ UNCHANGED scenario
    BY SceneNext
  <2>2. scenario # "transfers" => TransfersAlone
    BY DEF Scene, Serial, OneAtATime, TransfersAlone
  <2>3. IInv' /\ (scenario # "transfers" => Handover')
    BY <2>1, <2>2, NextKeeps, HandoverNext
  <2>4. Serial => NotJoined' /\ StaysJoined /\ ConfirmedByOwner
    <3>1. SUFFICES ASSUME Serial PROVE NotJoined' /\ StaysJoined /\ ConfirmedByOwner
      OBVIOUS
    <3>2. Handover /\ OneAtATime /\ NotJoined
      BY <3>1 DEF Serial, Scene
    <3> QED BY <2>1, <3>2, NotJoinedNext, ConfirmsNext DEF Handover
  <2> QED BY <2>1, <2>3, <2>4 DEF Serial
<1>3. Inv => OwnerSeatedUntorn
  BY DEF Handover, Seating, Swapping, Sat, OwnerSeated, OwnerSeatedUntorn
<1> HIDE DEF Inv
<1> QED BY <1>1, <1>2, <1>3, PTL DEF MCSpec, OwnerConfirmsSerially, ActiveStaysJoinedSerially

\* Of the runs: the owner keeps the seat where no calls of a transfer overlap
\* (OwnerSeatedUntorn),
THEOREM OwnerKeepsSeat == MCSpec => []OwnerSeatedUntorn
BY SceneRules, PTL

\* one call at a time, only the owner gives the business away (OwnerConfirmsSerially)
THEOREM OnlyOwnerConfirms == MCSpec => OwnerConfirmsSerially
BY SceneRules, PTL

\* and no active member becomes an invited one (ActiveStaysJoinedSerially).
THEOREM ActiveKeptActive == MCSpec => ActiveStaysJoinedSerially
BY SceneRules, PTL
=============================================================================
