----------------------------- MODULE Approvals -----------------------------
(***************************************************************************)
(* The high-risk action workflow: AdminService (scope SYSTEM) and          *)
(* BusinessService (scope BUSINESS) on one collection of approvals and one *)
(* collection of policies.                                                 *)
(*                                                                         *)
(* Every API call runs in a handler.  A handler is a process that stops at *)
(* each await; pc names the database command it is about to issue, and the *)
(* code between two awaits belongs to the step before it.  A check that    *)
(* fails throws and leaves the database alone, exactly like a crash of the *)
(* process or an error of the driver: Fail stands for all of them.         *)
(***************************************************************************)
EXTENDS ApprovalStore, FiniteSets

CONSTANTS
  Admins,        \* the users with isSystemUser in their token
  Staff,         \* the other users
  SystemRoles, BusinessRoles,
  Keys,          \* action keys
  Handlers,      \* bound: API calls in flight at a time
  Ops,           \* the operations the clients of a run call
  InitialPolicy, \* the default policies
  InitialRole    \* the role of each member at the start

ASSUME UsersAssumption ==
  Users = Admins \cup Staff /\ Admins \cap Staff = {}
ASSUME RolesAssumption ==
  Roles = SystemRoles \cup BusinessRoles /\ None \notin Roles
ASSUME JobsAssumption == \A j \in Jobs : j.key \in Keys
ASSUME OpsAssumption == Ops \subseteq {"execute", "approve", "reject", "configure"}

VARIABLES
  policy,        \* policy[s][k]: the policy of action key k in scope s
  member,        \* member[b][u]: the membership record of u in business b
  req,           \* req[h]: the call in handler h
  ledger,        \* history: the approved actions carried out
  runs           \* history: how often each approval was used, "many" from 2

vars == <<approvals, now, policy, member, req, ledger, runs>>

Policy == [mode: {"auto_approve", "second_approval"},
           roles: SUBSET Roles, isEnabled: BOOLEAN]

ASSUME PolicyAssumption ==
  /\ InitialPolicy \in [Scopes -> [Keys -> Policy]]
  /\ \A s \in Scopes : \A k \in Keys :
       /\ InitialPolicy[s][k].mode = "second_approval" => InitialPolicy[s][k].roles # {}
       /\ InitialPolicy[s][k].roles \subseteq
            IF s = System THEN SystemRoles ELSE BusinessRoles
  /\ InitialRole \in [Businesses -> [Staff -> BusinessRoles]]

Membership == [role: BusinessRoles, active: BOOLEAN]

Idle == [pc |-> "idle", op |-> None, scope |-> None, actor |-> None,
         job |-> None, id |-> None, role |-> None, policy |-> None]

PCs == {"idle", "access", "expire", "policy", "create", "find", "vet",
        "decide", "act", "mark", "merge", "upsert"}

Ledger == [id: ApprovalIds, scope: Scopes, job: Jobs, actor: Users]

Types ==
  /\ StoreTypeOK
  /\ policy \in [Scopes -> [Keys -> Policy]]
  /\ member \in [Businesses -> [Staff -> Membership]]
  /\ req \in [Handlers -> [pc: PCs, op: Ops \cup {None}, scope: Scopes \cup {None},
                           actor: Users \cup {None}, job: Jobs \cup {None},
                           id: ApprovalIds \cup {None}, role: Roles \cup {None},
                           policy: Policy \cup {None}]]
  /\ ledger \subseteq Ledger
  /\ runs \in [ApprovalIds -> {"none", "one", "many"}]

\* The arguments a call carries at each await.
Shape(h) ==
  /\ req[h].pc # "idle" =>
       /\ req[h].scope \in Scopes /\ req[h].actor \in Users /\ req[h].op \in Ops
       /\ req[h].op \in {"execute", "configure"} => req[h].job \in Jobs
  /\ req[h].pc \in {"policy", "create", "act", "mark"} => req[h].op = "execute"
  /\ req[h].pc \in {"merge", "upsert"} => req[h].op = "configure"
  /\ req[h].pc = "expire" => req[h].op # "configure"
  /\ req[h].pc \in {"find", "vet", "decide", "mark"} => req[h].id \in ApprovalIds
  /\ req[h].pc \in {"create", "upsert"} => req[h].policy \in Policy
  /\ req[h].pc \in {"access", "expire"} /\ req[h].op \in {"approve", "reject"} =>
       req[h].id \in ApprovalIds
  /\ req[h].pc \in {"access", "vet"} => req[h].scope # System
  /\ req[h].pc # "idle" /\ req[h].scope # System =>
       req[h].scope \in Businesses /\ req[h].actor \in Staff

CallShape == \A h \in Handlers : Shape(h)

TypeOK == Types /\ CallShape

Init ==
  /\ StoreInit
  /\ policy = InitialPolicy
  /\ member = [b \in Businesses |-> [u \in Staff |->
                 [role |-> InitialRole[b][u], active |-> TRUE]]]
  /\ req = [h \in Handlers |-> Idle]
  /\ ledger = {}
  /\ runs = [a \in ApprovalIds |-> "none"]

----------------------------------------------------------------------------
\* The scope's own user population: assertSystemUser, and the first test of
\* assertBusinessScopedAccess, read the token only.
Actors(s) == IF s = System THEN Admins ELSE Staff

RolesOf(s) == IF s = System THEN SystemRoles ELSE BusinessRoles

Goto(h, pc) == req' = [req EXCEPT ![h].pc = pc]
Return(h) == req' = [req EXCEPT ![h] = Idle]

\* A call arrives in an idle handler.
Arrive(h, pc, op, s, u, job, id, role) ==
  /\ req[h].pc = "idle" /\ op \in Ops /\ u \in Actors(s)
  /\ req' = [req EXCEPT ![h] =
       [pc |-> IF s = System THEN pc ELSE "access", op |-> op, scope |-> s,
        actor |-> u, job |-> job, id |-> id, role |-> role, policy |-> None]]
  /\ UNCHANGED <<approvals, now, policy, member, ledger, runs>>

\* suspendBusiness, createSystemUser, executeHighRiskAction: with or without
\* the id of an approval.
BeginExecute(h) ==
  \E s \in Scopes, u \in Users, job \in Jobs, id \in ApprovalIds \cup {None} :
    Arrive(h, "expire", "execute", s, u, job, id, None)

\* A system user's role is the activeRole of the token, which may be older than
\* the role on record, so any system role is possible.
BeginDecide(h) ==
  \E op \in {"approve", "reject"}, s \in Scopes, u \in Users,
     id \in ApprovalIds, role \in SystemRoles \cup {None} :
    /\ role = None <=> s # System
    /\ Arrive(h, "expire", op, s, u, None, id, role)

BeginConfigure(h) ==
  \E s \in Scopes, u \in Users, job \in Jobs :
    Arrive(h, "merge", "configure", s, u, job, None, None)

ActiveMember(b, u) == member[b][u].active

\* What each operation awaits after its access check.
AfterAccess ==
  [execute |-> "policy", configure |-> "merge", approve |-> "expire", reject |-> "expire"]

\* assertBusinessScopedAccess: the membership is read from the database.
CheckAccess(h) ==
  /\ req[h].pc = "access"
  /\ ActiveMember(req[h].scope, req[h].actor)
  /\ Goto(h, AfterAccess[req[h].op])
  /\ UNCHANGED <<approvals, now, policy, member, ledger, runs>>

\* AdminService expires stale requests on every call, BusinessService when it
\* decides on one but not when it executes.
ExpirePending(h) ==
  /\ req[h].pc = "expire"
  /\ StoreExpirePending
  /\ Goto(h, IF req[h].op = "execute" THEN "policy" ELSE "find")
  /\ UNCHANGED <<policy, member, ledger, runs>>

Presented(h) == req[h].id # None

Gated(p) == p.mode = "second_approval" /\ p.isEnabled

\* resolveSystemActionPolicy, resolveBusinessActionPolicy and the branch on
\* the result: carry out at once, ask for an approval, or look one up.
ReadPolicy(h) ==
  LET p == policy[req[h].scope][req[h].job.key] IN
  /\ req[h].pc = "policy"
  /\ req' = [req EXCEPT ![h] =
       IF ~Gated(p) THEN [@ EXCEPT !.pc = "act", !.id = None]
       ELSE IF Presented(h) THEN [@ EXCEPT !.pc = "find"]
       ELSE [@ EXCEPT !.pc = "create", !.policy = p]]
  /\ UNCHANGED <<approvals, now, policy, member, ledger, runs>>

CreateRequest(h) ==
  /\ req[h].pc = "create"
  /\ \E a \in ApprovalIds :
       Create(a, req[h].scope, req[h].job, req[h].actor, req[h].policy.roles)
  /\ Return(h)
  /\ UNCHANGED <<policy, member, ledger, runs>>

----------------------------------------------------------------------------
\* Faulty variants: the status, the requester, the payload not compared; the
\* approval marked first in a system action, the action first in a business.
UsableWhilePending(a) ==
  approvals[a].status \in {"PENDING", "APPROVED"} /\ approvals[a].expiresAt > now
RequestedByAnyone(h, a) == TRUE
SameScopeOnly(h, a) == approvals[a].scope = req[h].scope
MarkFirst(s) == "mark"
ActFirst(s) == "act"

\* The checks of resolveHighRiskApproval and executeHighRiskAction on the
\* approval presented with the call.  Scope, action type, action key and
\* payload must be those of the call.
Usable(a) == approvals[a].status = "APPROVED" /\ approvals[a].expiresAt > now

RequestedByActor(h, a) == approvals[a].requestedBy = req[h].actor

SameJob(h, a) == approvals[a].scope = req[h].scope /\ approvals[a].job = req[h].job

\* AdminService carries the action out and marks the approval afterwards,
\* BusinessService marks it first.
AfterChecks(s) == IF s = System THEN "act" ELSE "mark"

FindForUse(h) ==
  LET a == req[h].id IN
  /\ req[h].pc = "find" /\ req[h].op = "execute"
  /\ Usable(a)
  /\ RequestedByActor(h, a)
  /\ SameJob(h, a)
  /\ Goto(h, AfterChecks(req[h].scope))
  /\ UNCHANGED <<approvals, now, policy, member, ledger, runs>>

\* The action itself: suspend the business, provision the user, or report the
\* business action as executed.  id is None when no approval was required.
Act(h) ==
  LET a == req[h].id IN
  /\ req[h].pc = "act"
  /\ IF a = None
     THEN UNCHANGED <<ledger, runs>>
     ELSE /\ ledger' = ledger \cup {[id |-> a, scope |-> req[h].scope,
                                     job |-> req[h].job, actor |-> req[h].actor]}
          /\ runs' = [runs EXCEPT ![a] = IF @ = "none" THEN "one" ELSE "many"]
  /\ IF a # None /\ req[h].scope = System THEN Goto(h, "mark") ELSE Return(h)
  /\ UNCHANGED <<approvals, now, policy, member>>

\* markExecuted: its result is ignored, so a handler that comes second goes on.
MarkExecuted(h) ==
  /\ req[h].pc = "mark"
  /\ StoreMarkExecuted(req[h].id)
  /\ IF req[h].scope = System THEN Return(h) ELSE Goto(h, "act")
  /\ UNCHANGED <<policy, member, ledger, runs>>

----------------------------------------------------------------------------
\* Faulty variants: self-approval, any role.
NotRequesterUnchecked(h, a) == TRUE
RoleUnchecked(role, required) == TRUE

NotRequester(h, a) == approvals[a].requestedBy # req[h].actor

\* An empty list of required roles admits everyone.
RoleAdmitted(role, required) == required = {} \/ role \in required

\* AdminService looks at the required system roles, of which a request of a
\* business has none, and does not look at the scope of the request.
RequiredSystemRoles(a) ==
  IF approvals[a].scope = System THEN approvals[a].required ELSE {}

\* findById and the checks of approve/reject HighRiskAction (AdminService) and
\* approve/reject ApprovalRequest (BusinessService) up to the next await.
FindForDecision(h) ==
  LET a == req[h].id IN
  /\ req[h].pc = "find" /\ req[h].op \in {"approve", "reject"}
  /\ approvals[a].status = "PENDING"
  /\ NotRequester(h, a)
  /\ IF req[h].scope = System
     THEN RoleAdmitted(req[h].role, RequiredSystemRoles(a)) /\ Goto(h, "decide")
     ELSE approvals[a].scope = req[h].scope /\ Goto(h, "vet")
  /\ UNCHANGED <<approvals, now, policy, member, ledger, runs>>

\* BusinessService reads the approver's membership once more, for the role.
\* The list of required roles never changes after the request is created, so
\* the copy of the document the handler holds is as good as the document.
VetApprover(h) ==
  LET m == member[req[h].scope][req[h].actor] IN
  /\ req[h].pc = "vet"
  /\ m.active
  /\ RoleAdmitted(m.role, approvals[req[h].id].required)
  /\ req' = [req EXCEPT ![h] = [@ EXCEPT !.pc = "decide", !.role = m.role]]
  /\ UNCHANGED <<approvals, now, policy, member, ledger, runs>>

Approve(h) ==
  /\ req[h].pc = "decide" /\ req[h].op = "approve"
  /\ StoreApprove(req[h].id, req[h].actor)
  /\ Return(h)
  /\ UNCHANGED <<policy, member, ledger, runs>>

Reject(h) ==
  /\ req[h].pc = "decide" /\ req[h].op = "reject"
  /\ StoreReject(req[h].id, req[h].actor)
  /\ Return(h)
  /\ UNCHANGED <<policy, member, ledger, runs>>

----------------------------------------------------------------------------
\* A faulty variant: the input is checked, not what it makes of the policy.
InputNamesApprovers(input, new) == input.mode = "second_approval" => input.roles # {}

\* upsert(System)ApprovalPolicy: fields of the input win over those of the
\* policy that was read; the result is checked, then written as a whole.
NamesApprovers(input, new) == new.mode = "second_approval" => new.roles # {}

PolicyInput(s) == [mode: {"auto_approve", "second_approval", None},
                   roles: (SUBSET RolesOf(s)) \cup {None},
                   isEnabled: {TRUE, FALSE, None}]

Merge(input, old) ==
  [mode |-> IF input.mode = None THEN old.mode ELSE input.mode,
   roles |-> IF input.roles = None THEN old.roles ELSE input.roles,
   isEnabled |-> IF input.isEnabled = None THEN old.isEnabled ELSE input.isEnabled]

MergePolicy(h) ==
  LET s == req[h].scope IN
  /\ req[h].pc = "merge"
  /\ \E input \in PolicyInput(s) :
       LET new == Merge(input, policy[s][req[h].job.key]) IN
       /\ NamesApprovers(input, new)
       /\ req' = [req EXCEPT ![h] = [@ EXCEPT !.pc = "upsert", !.policy = new]]
  /\ UNCHANGED <<approvals, now, policy, member, ledger, runs>>

UpsertPolicy(h) ==
  /\ req[h].pc = "upsert"
  /\ policy' = [policy EXCEPT ![req[h].scope][req[h].job.key] = req[h].policy]
  /\ Return(h)
  /\ UNCHANGED <<approvals, now, member, ledger, runs>>

----------------------------------------------------------------------------
\* A failed check, an exception, a crash, a business that is suspended already: the
\* rest of the call does not happen.
Fail(h) ==
  /\ req[h].pc # "idle"
  /\ Return(h)
  /\ UNCHANGED <<approvals, now, policy, member, ledger, runs>>

\* Memberships change under the handlers' feet (module Membership has the
\* operations that do it): suspension, reactivation, a new role.
ChangeMembership(b, u) ==
  /\ \E m \in Membership :
       /\ m # member[b][u]
       /\ member' = [member EXCEPT ![b][u] = m]
  /\ UNCHANGED <<approvals, now, policy, req, ledger, runs>>

Clock == Tick /\ UNCHANGED <<policy, member, req, ledger, runs>>

Execute(h) == ReadPolicy(h) \/ CreateRequest(h) \/ FindForUse(h) \/ Act(h) \/ MarkExecuted(h)
Decide(h) == FindForDecision(h) \/ VetApprover(h) \/ Approve(h) \/ Reject(h)
Configure(h) == MergePolicy(h) \/ UpsertPolicy(h)

Next ==
  \/ \E h \in Handlers :
       \/ BeginExecute(h) \/ BeginDecide(h) \/ BeginConfigure(h)
       \/ CheckAccess(h) \/ ExpirePending(h)
       \/ Execute(h) \/ Decide(h) \/ Configure(h)
       \/ Fail(h)
  \/ \E b \in Businesses, u \in Staff : ChangeMembership(b, u)
  \/ Clock

Spec == Init /\ [][Next]_vars

----------------------------------------------------------------------------
\* No request is decided by its requester, whoever decides and through
\* whichever service, and a decided request names who decided it.
SeparationOfDuties ==
  \A a \in ApprovalIds :
    /\ approvals[a].status \in {"APPROVED", "EXECUTED"} =>
         approvals[a].approvedBy \in Users \ {approvals[a].requestedBy}
    /\ approvals[a].status = "REJECTED" =>
         approvals[a].rejectedBy \in Users \ {approvals[a].requestedBy}

\* e names an approval, and the scope, job and actor of an action under it.
Authorised(e) ==
  /\ approvals[e.id].status \in {"APPROVED", "EXECUTED"}
  /\ approvals[e.id].scope = e.scope
  /\ approvals[e.id].job = e.job
  /\ approvals[e.id].requestedBy = e.actor

\* What was carried out under an approval is what was asked for and approved:
\* same scope, same action and payload, on behalf of the requester, and the
\* approval is (still) granted.  The grant was read awaits before the action.
ActionsAuthorised == \A e \in ledger : Authorised(e)

\* What a handler checked before an await still holds when it goes on: a grant
\* is not withdrawn between the check and the action, and a decision is about
\* to be taken by somebody else than the requester.
SnapshotsHold ==
  \A h \in Handlers :
    /\ req[h].pc \in {"act", "mark"} /\ req[h].id # None => Authorised(req[h])
    /\ req[h].pc \in {"vet", "decide"} =>
         approvals[req[h].id].requestedBy \in Users \ {req[h].actor}

\* The order of action and mark, under crashes: a system action may be carried
\* out and not marked, never marked and not carried out; a business action may
\* be marked and lost, never carried out and not marked.
ExecutionRecorded ==
  \A a \in ApprovalIds :
    IF approvals[a].scope = System
    THEN approvals[a].status = "EXECUTED" => runs[a] # "none"
    ELSE runs[a] # "none" => approvals[a].status = "EXECUTED"

\* No approval is granted at or after the expiry of its request, and nothing
\* is expired before it, although the handler's own checks ran earlier.
DecidedInTime ==
  \A a \in ApprovalIds :
    /\ approvals[a].approvedBy # None => approvals[a].approvedAt < approvals[a].expiresAt
    /\ approvals[a].status = "EXPIRED" => approvals[a].expiresAt <= now

\* An empty list of approver roles admits everyone, so it must never reach a
\* request: policies that require a second approval name its roles, across
\* concurrent read-merge-write updates, and requests copy them.
ApproversNamed ==
  /\ \A s \in Scopes, k \in Keys :
       policy[s][k].mode = "second_approval" => policy[s][k].roles # {}
  /\ \A a \in ApprovalIds : approvals[a].status # "absent" => approvals[a].required # {}

\* A handler about to write a decision through a service holds a role that
\* the request admits; only an administrator deciding on a business request
\* (AdminService does not look at the scope) is not held to a role.
QualifiedDecision ==
  \A h \in Handlers :
    LET a == approvals[req[h].id] IN
    req[h].pc = "decide" =>
      \/ req[h].role \in a.required
      \/ req[h].actor \in Admins /\ a.scope \in Businesses

\* One approval, one action: 'Approval request is not approved' is what a
\* second use is told.
AtMostOnce == \A a \in ApprovalIds : runs[a] # "many"

\* What is asked for never changes: a step creates a request or leaves its
\* scope, job, requester, approver roles and expiry alone.
RequestImmutable ==
  [][\A a \in ApprovalIds : approvals[a].status # "absent" =>
       \A f \in {"scope", "job", "requestedBy", "required", "expiresAt"} :
         approvals'[a][f] = approvals[a][f]]_approvals

----------------------------------------------------------------------------
\* The workflow implements dual control: statuses are the abstract stages, and
\* an action is performed when some handler carried it out under an approval.
StageOf(status) ==
  CASE status = "absent" -> "none"
    [] status = "PENDING" -> "open"
    [] status = "APPROVED" -> "granted"
    [] status = "REJECTED" -> "refused"
    [] status = "EXPIRED" -> "lapsed"
    [] OTHER -> "closed"

Promise == INSTANCE DualControl WITH
  stage <- [a \in ApprovalIds |-> StageOf(approvals[a].status)],
  requester <- [a \in ApprovalIds |-> approvals[a].requestedBy],
  granter <- [a \in ApprovalIds |-> approvals[a].approvedBy],
  performed <- {a \in ApprovalIds : runs[a] # "none"}

\* Every handler step, whatever it interleaves with, is an allowed step of
\* dual control or changes nothing in it.
ImplementsDualControl == Promise!Spec

=============================================================================
