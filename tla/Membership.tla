------------------------------ MODULE Membership ------------------------------
(***************************************************************************)
(* The members of one business and the transfer of its ownership: the      *)
(* calls of BusinessService and AuthService.acceptInvite on the business   *)
(* document and on one membership document per user.  A call is a handler  *)
(* that stops at each await: it checks what it has read, and then writes   *)
(* without looking again.                                                  *)
(*                                                                         *)
(* The permissions MEMBER_INVITE, MEMBER_UPDATE, MEMBER_REMOVE and         *)
(* BUSINESS_UPDATE, which an owner has and the other roles have not, are   *)
(* one; the roles that do not have it are one, "agent".                    *)
(***************************************************************************)
CONSTANTS
  Users,
  Founder,   \* the user who created the business
  Staff,     \* the users who have already joined it
  Handlers,  \* bound: calls in flight at a time
  Ops,       \* the operations the clients of a run call
  None

ASSUME MembershipAssumption ==
  /\ Founder \in Users /\ None \notin Users
  /\ Staff \subseteq Users \ {Founder}
  /\ Ops \subseteq {"invite", "resend", "cancel", "expire", "acceptInvite",
                    "role", "template", "permissions", "suspend", "activate", "remove",
                    "initiate", "acceptTransfer", "confirm"}

VARIABLES
  owner,     \* business.ownerId
  transfer,  \* business.ownershipTransfer
  member,    \* member[u]: the membership document of user u
  jwt,       \* jwt[u]: what the access token of u says; it may be stale
  req,       \* req[h]: the call in handler h
  agreed,    \* history: the users who have accepted a transfer to them
  torn       \* history: a confirmation stopped before its last write

business == <<owner, transfer>>
vars == <<owner, transfer, member, jwt, req, agreed, torn>>

Roles == {"owner", "agent"}
Overrides == {"none", "grant", "deny"}
Membership == [status: {"none", "invited", "active", "suspended", "left"},
               role: Roles, override: Overrides]
Transfer == [status: {"none", "pending", "accepted"},
             proposed: Users \cup {None}, initiatedBy: Users \cup {None}]
NoTransfer == [status |-> "none", proposed |-> None, initiatedBy |-> None]

Call == [pc: {"idle", "access", "load", "loadTarget", "upsert", "write", "both"},
         op: Ops \cup {"none"}, actor: Users \cup {None}, target: Users \cup {None},
         role: Roles, override: Overrides,
         owner: Users \cup {None}, transfer: Transfer,  \* the business as loaded
         todo: SUBSET {"first", "second"}]              \* writes of a Promise.all

Idle == [pc |-> "idle", op |-> "none", actor |-> None, target |-> None,
         role |-> "agent", override |-> "none", owner |-> None,
         transfer |-> NoTransfer, todo |-> {}]

TypeOK ==
  /\ owner \in Users /\ transfer \in Transfer
  /\ member \in [Users -> Membership]
  /\ jwt \in [Users -> {"none", "member", "manager"}]
  /\ req \in [Handlers -> Call]
  /\ agreed \subseteq Users /\ torn \in BOOLEAN

\* initBusiness: the business and the membership of its owner.  The memberships of
\* Staff come from earlier invitations.
Init ==
  /\ owner = Founder /\ transfer = NoTransfer
  /\ member = [u \in Users |->
       [status |-> IF u \in Staff \cup {Founder} THEN "active" ELSE "none",
        role |-> IF u = Founder THEN "owner" ELSE "agent", override |-> "none"]]
  /\ jwt = [u \in Users |-> "none"]
  /\ req = [h \in Handlers |-> Idle]
  /\ agreed = {} /\ torn = FALSE

Known(m) == m.status \notin {"none", "left"}

\* computePermissions: grants are added to those of the role, denials taken away.
Manages(m) == m.override = "grant" \/ (m.role = "owner" /\ m.override # "deny")

Goto(h, pc) == req' = [req EXCEPT ![h].pc = pc]
Return(h) == req' = [req EXCEPT ![h] = Idle]
GotoOrRefuse(h, ok, pc) == IF ok THEN Goto(h, pc) ELSE Return(h)

----------------------------------------------------------------------------
\* switchContext: an access token for this business, with the permissions of
\* the moment.
SignIn(u) ==
  /\ member[u].status = "active"
  /\ jwt' = [jwt EXCEPT ![u] = IF Manages(member[u]) THEN "manager" ELSE "member"]
  /\ UNCHANGED <<business, member, req, agreed, torn>>

\* The access token expires.
SignOut(u) ==
  /\ jwt' = [jwt EXCEPT ![u] = "none"]
  /\ UNCHANGED <<business, member, req, agreed, torn>>

NotOnOneself == {"role", "template", "suspend", "remove"}

\* assertBusinessScopedAccess, what it reads in the token; acceptInvite asks for a
\* code instead (see OtpLogin), acceptOwnershipTransfer for no permission.
MayCall(op, a) ==
  \/ op = "acceptInvite"
  \/ op = "acceptTransfer" /\ jwt[a] # "none"
  \/ jwt[a] = "manager"

Asked(op, a, t, r, o) ==
  [Idle EXCEPT !.pc = IF op = "acceptInvite" THEN "load" ELSE "access",
               !.op = op, !.actor = a, !.target = t, !.role = r, !.override = o]

Ask(h, op, a, t, r, o) ==
  /\ req[h].pc = "idle"
  /\ MayCall(op, a)
  /\ op \in {"acceptInvite", "acceptTransfer", "confirm"} => t = a
  /\ op \in NotOnOneself \cup {"initiate"} => t # a
  /\ op \in {"invite", "role", "template"} \/ r = "agent"
  /\ op \in {"permissions", "template"} \/ o = "none"
  /\ req' = [req EXCEPT ![h] = Asked(op, a, t, r, o)]
  /\ UNCHANGED <<business, member, jwt, agreed, torn>>

Begin(h) == \E op \in Ops, a \in Users, t \in Users, r \in Roles, o \in Overrides :
  Ask(h, op, a, t, r, o)

\* assertBusinessScopedAccess, what it reads in the database.
CheckAccess(h) ==
  /\ req[h].pc = "access"
  /\ GotoOrRefuse(h, member[req[h].actor].status = "active", "load")
  /\ UNCHANGED <<business, member, jwt, agreed, torn>>

\* A faulty variant: the owner is a member like any other.
AdmissibleOwner(op, m) ==
  \/ op = "invite" /\ m.status # "active"
  \/ op \in {"resend", "cancel", "expire", "acceptInvite"} /\ m.status = "invited"
  \/ op \in {"permissions", "activate", "role", "template", "suspend", "remove"} /\ Known(m)

\* What each call on a member requires of the membership it has loaded.
Admissible(op, m) ==
  \/ op = "invite" /\ m.status # "active"
  \/ op \in {"resend", "cancel", "expire", "acceptInvite"} /\ m.status = "invited"
  \/ op \in {"permissions", "activate"} /\ Known(m)
  \/ op \in {"role", "template", "suspend", "remove"} /\ Known(m) /\ m.role # "owner"

NextPC(op) ==
  IF op \in {"invite", "resend"} THEN "upsert"
  ELSE IF op = "template" THEN "both" ELSE "write"

\* findByUserAndBusiness; resendInvite keeps the role it finds.
LoadMember(h) ==
  LET r == req[h]  m == member[r.target] IN
  /\ r.pc = "load" /\ r.op \notin {"initiate", "acceptTransfer", "confirm"}
  /\ IF Admissible(r.op, m)
     THEN req' = [req EXCEPT ![h] = [r EXCEPT
            !.pc = NextPC(r.op),
            !.role = IF r.op = "resend" THEN m.role ELSE @,
            !.todo = IF r.op = "template" THEN {"first", "second"} ELSE {}]]
     ELSE Return(h)
  /\ UNCHANGED <<business, member, jwt, agreed, torn>>

\* upsertInvitation: an active membership is left alone...
UpsertFind(h) ==
  /\ req[h].pc = "upsert"
  /\ GotoOrRefuse(h, member[req[h].target].status # "active", "write")
  /\ UNCHANGED <<business, member, jwt, agreed, torn>>

\* A faulty variant: inviter and invited swapped.
UpsertInviter(h) ==
  LET t == req[h].actor IN
  /\ req[h].pc = "write" /\ req[h].op \in {"invite", "resend"}
  /\ member' = [member EXCEPT ![t].status = "invited", ![t].role = req[h].role]
  /\ Return(h)
  /\ UNCHANGED <<business, jwt, agreed, torn>>

\* ... and any other becomes an invitation.
UpsertWrite(h) ==
  LET t == req[h].target IN
  /\ req[h].pc = "write" /\ req[h].op \in {"invite", "resend"}
  /\ member' = [member EXCEPT ![t].status = "invited", ![t].role = req[h].role]
  /\ Return(h)
  /\ UNCHANGED <<business, jwt, agreed, torn>>

\* The status that a call on a member leaves it with.
Outcome(op) ==
  IF op \in {"cancel", "expire", "remove"} THEN "left"
  ELSE IF op = "suspend" THEN "suspended" ELSE "active"

\* removeMember, suspendMember, activateMember, acceptInvite: one
\* findOneAndUpdate that looks at nothing but the key.
SetStatus(h) ==
  /\ req[h].pc = "write"
  /\ req[h].op \in {"cancel", "expire", "acceptInvite", "suspend", "activate", "remove"}
  /\ member' = [member EXCEPT ![req[h].target].status = Outcome(req[h].op)]
  /\ Return(h)
  /\ UNCHANGED <<business, jwt, agreed, torn>>

SetRole(h) ==
  /\ req[h].pc = "write" /\ req[h].op = "role"
  /\ member' = [member EXCEPT ![req[h].target].role = req[h].role]
  /\ Return(h)
  /\ UNCHANGED <<business, jwt, agreed, torn>>

SetPermissions(h) ==
  /\ req[h].pc = "write" /\ req[h].op = "permissions"
  /\ member' = [member EXCEPT ![req[h].target].override = req[h].override]
  /\ Return(h)
  /\ UNCHANGED <<business, jwt, agreed, torn>>

\* One of two writes that are sent together; the call ends with the other.
Tick(h, w) ==
  /\ req[h].pc = "both" /\ w \in req[h].todo
  /\ IF req[h].todo = {w} THEN Return(h)
     ELSE req' = [req EXCEPT ![h].todo = @ \ {w}]

\* applyRoleTemplateToMember: role and permissions, by two updates.
ApplyTemplate(h) ==
  LET r == req[h] IN
  /\ r.op = "template"
  /\ \/ Tick(h, "first") /\ member' = [member EXCEPT ![r.target].role = r.role]
     \/ Tick(h, "second") /\ member' = [member EXCEPT ![r.target].override = r.override]
  /\ UNCHANGED <<business, jwt, agreed, torn>>

----------------------------------------------------------------------------
\* initiateOwnershipTransfer: only a pending transfer is in the way.
LoadForInitiate(h) ==
  /\ req[h].pc = "load" /\ req[h].op = "initiate"
  /\ GotoOrRefuse(h, owner = req[h].actor /\ transfer.status # "pending", "loadTarget")
  /\ UNCHANGED <<business, member, jwt, agreed, torn>>

LoadNewOwner(h) ==
  /\ req[h].pc = "loadTarget"
  /\ GotoOrRefuse(h, member[req[h].target].status = "active", "write")
  /\ UNCHANGED <<business, member, jwt, agreed, torn>>

Initiate(h) ==
  /\ req[h].pc = "write" /\ req[h].op = "initiate"
  /\ transfer' = [status |-> "pending", proposed |-> req[h].target,
                  initiatedBy |-> req[h].actor]
  /\ Return(h)
  /\ UNCHANGED <<owner, member, jwt, agreed, torn>>

\* A faulty variant: any member may answer for the proposed owner.
MayAcceptAnyone(u) == transfer.status = "pending"
MayAccept(u) == transfer.status = "pending" /\ transfer.proposed = u

LoadForAccept(h) ==
  /\ req[h].pc = "load" /\ req[h].op = "acceptTransfer"
  /\ IF MayAccept(req[h].actor)
     THEN req' = [req EXCEPT ![h] = [@ EXCEPT !.pc = "write", !.transfer = transfer]]
     ELSE Return(h)
  /\ UNCHANGED <<business, member, jwt, agreed, torn>>

\* acceptOwnershipTransfer writes back the whole transfer it has read.
Accept(h) ==
  /\ req[h].pc = "write" /\ req[h].op = "acceptTransfer"
  /\ transfer' = [req[h].transfer EXCEPT !.status = "accepted"]
  /\ agreed' = agreed \cup {req[h].actor}
  /\ Return(h)
  /\ UNCHANGED <<owner, member, jwt, torn>>

\* A faulty variant: any manager may confirm.
MayConfirmAnyone(u) == transfer.status = "accepted"
MayConfirm(u) == transfer.status = "accepted" /\ transfer.initiatedBy = u

\* confirmOwnershipTransfer
LoadForConfirm(h) ==
  /\ req[h].pc = "load" /\ req[h].op = "confirm"
  /\ IF MayConfirm(req[h].actor)
     THEN req' = [req EXCEPT ![h] = [@ EXCEPT
            !.pc = "loadTarget", !.target = transfer.proposed,
            !.owner = owner, !.transfer = transfer]]
     ELSE Return(h)
  /\ UNCHANGED <<business, member, jwt, agreed, torn>>

HandOver(h) ==
  /\ req[h].pc = "write" /\ req[h].op = "confirm"
  /\ owner' = req[h].target /\ transfer' = NoTransfer
  /\ req' = [req EXCEPT ![h] = [@ EXCEPT !.pc = "both", !.todo = {"first", "second"}]]
  /\ UNCHANGED <<member, jwt, agreed, torn>>

\* The old owner becomes an agent and the new one the owner.
SwapRoles(h) ==
  LET r == req[h] IN
  /\ r.op = "confirm"
  /\ \/ Tick(h, "first") /\ member' = [member EXCEPT ![r.owner].role = "agent"]
     \/ Tick(h, "second") /\ member' = [member EXCEPT ![r.target].role = "owner"]
  /\ UNCHANGED <<business, jwt, agreed, torn>>

----------------------------------------------------------------------------
\* An exception, a crash: what the call has written stays.
Fail(h) ==
  /\ req[h].pc # "idle"
  /\ torn' = (torn \/ (req[h].pc = "both" /\ req[h].op = "confirm"))
  /\ Return(h)
  /\ UNCHANGED <<business, member, jwt, agreed>>

MemberCall(h) ==
  \/ LoadMember(h) \/ UpsertFind(h) \/ UpsertWrite(h)
  \/ SetStatus(h) \/ SetRole(h) \/ SetPermissions(h) \/ ApplyTemplate(h)
TransferCall(h) ==
  \/ LoadForInitiate(h) \/ LoadNewOwner(h) \/ Initiate(h)
  \/ LoadForAccept(h) \/ Accept(h)
  \/ LoadForConfirm(h) \/ HandOver(h) \/ SwapRoles(h)

Next ==
  \/ \E h \in Handlers :
       Begin(h) \/ CheckAccess(h) \/ MemberCall(h) \/ TransferCall(h) \/ Fail(h)
  \/ \E u \in Users : SignIn(u) \/ SignOut(u)

Spec == Init /\ [][Next]_vars

----------------------------------------------------------------------------
\* Nobody is made the owner of a business without having agreed to it, however
\* the calls of a transfer overlap: 'Only the proposed owner can accept transfer'.
OwnerAgreed == owner \in {Founder} \cup agreed

\* 'Owner cannot be removed', 'Owner cannot be suspended': between calls the owner
\* is an active member with the owner's role, unless a confirmation stopped
\* half-way through its three writes.
OwnerSeated ==
  (~torn /\ \A h \in Handlers : req[h].pc = "idle") =>
    member[owner].status = "active" /\ member[owner].role = "owner"

\* 'Only the current owner can transfer ownership': a business passes to another
\* owner by a confirmation of the one who owns it.
ConfirmedByOwner == owner' # owner =>
  \E h \in Handlers : req'[h] # req[h] /\ req[h].actor = owner
OwnerConfirms == [][ConfirmedByOwner]_vars

\* "If membership exists and is already active, it is returned unchanged.": no
\* active member becomes an invited one.
StaysJoined == \A u \in Users :
  member[u].status = "active" => member'[u].status # "invited"
ActiveStaysJoined == [][StaysJoined]_vars

=============================================================================
