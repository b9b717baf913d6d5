--------------------------- MODULE ApprovalStore ---------------------------
(***************************************************************************)
(* The collection of approval requests and the operations of               *)
(* AdminApprovalRepository on it.  Each operation is one MongoDB command   *)
(* on the collection, hence one atomic step here; the services that call   *)
(* the repository (module Approvals) interleave between these steps.       *)
(*                                                                         *)
(* Time is a bounded counter: only the order of "now" and of the expiry    *)
(* times matters, so 24 hours is Lifetime ticks.                           *)
(***************************************************************************)
EXTENDS Naturals

CONSTANTS
  Users,        \* accounts that call the API
  Roles,        \* system roles and business roles
  System,       \* the scope SYSTEM
  Businesses,   \* the businesses, each of them a scope BUSINESS
  Jobs,         \* records [key, payload]: what is to be done
  ApprovalIds,  \* bound: the requests that can ever be created
  None,         \* null
  Lifetime,     \* ticks between the creation of a request and its expiry
  MaxTime       \* bound on the clock

Scopes == {System} \cup Businesses

ASSUME ScopesAssumption == System \notin Businesses
ASSUME NoneAssumption ==
  /\ None \notin Users
  /\ None \notin Scopes
  /\ None \notin Jobs
  /\ None \notin ApprovalIds
ASSUME TimeAssumption == Lifetime \in Nat \ {0} /\ MaxTime \in Nat

VARIABLES
  approvals,    \* the collection: a document for each id, absent ones too
  now           \* the clock of the service processes and of the database

storeVars == <<approvals, now>>

Statuses == {"PENDING", "APPROVED", "REJECTED", "EXECUTED", "EXPIRED"}

Approval ==
  [status: Statuses \cup {"absent"}, scope: Scopes \cup {None},
   job: Jobs \cup {None}, requestedBy: Users \cup {None},
   required: SUBSET Roles, expiresAt: Nat,
   approvedBy: Users \cup {None}, approvedAt: Nat,
   rejectedBy: Users \cup {None}]

Absent ==
  [status |-> "absent", scope |-> None, job |-> None, requestedBy |-> None,
   required |-> {}, expiresAt |-> 0, approvedBy |-> None, approvedAt |-> 0,
   rejectedBy |-> None]

StoreTypeOK ==
  /\ approvals \in [ApprovalIds -> Approval]
  /\ now \in Nat

StoreInit ==
  /\ approvals = [a \in ApprovalIds |-> Absent]
  /\ now = 0

----------------------------------------------------------------------------
\* createRequest: a new document, PENDING, that expires Lifetime from now.
Create(a, scope, job, u, roles) ==
  /\ approvals[a].status = "absent"
  /\ approvals' = [approvals EXCEPT ![a] =
       [status |-> "PENDING", scope |-> scope, job |-> job, requestedBy |-> u,
        required |-> roles, expiresAt |-> now + Lifetime, approvedBy |-> None,
        approvedAt |-> 0, rejectedBy |-> None]]
  /\ UNCHANGED now

\* A faulty variant: the filter of approve without the expiry.
ApprovableAtAnyTime(a) == approvals[a].status = "PENDING"

\* The filter of approve: still pending and not past its expiry.
Approvable(a) ==
  /\ approvals[a].status = "PENDING"
  /\ approvals[a].expiresAt > now

\* approve: findOneAndUpdate that matches.
StoreApprove(a, u) ==
  /\ Approvable(a)
  /\ approvals' = [approvals EXCEPT ![a] =
       [@ EXCEPT !.status = "APPROVED", !.approvedBy = u, !.approvedAt = now]]
  /\ UNCHANGED now

\* A faulty variant: reject by id alone.
RejectableAlways(a) == approvals[a].status # "absent"

\* The filter of reject looks at the status only.
Rejectable(a) == approvals[a].status = "PENDING"

StoreReject(a, u) ==
  /\ Rejectable(a)
  /\ approvals' = [approvals EXCEPT ![a] =
       [@ EXCEPT !.status = "REJECTED", !.rejectedBy = u]]
  /\ UNCHANGED now

\* markExecuted: no effect, and no error, when the filter does not match.
StoreMarkExecuted(a) ==
  /\ approvals' = IF approvals[a].status = "APPROVED"
                  THEN [approvals EXCEPT ![a].status = "EXECUTED"]
                  ELSE approvals
  /\ UNCHANGED now

\* expirePending: one updateMany over the whole collection.
Stale(a) == approvals[a].status = "PENDING" /\ approvals[a].expiresAt <= now

StoreExpirePending ==
  /\ approvals' = [a \in ApprovalIds |->
       IF Stale(a) THEN [approvals[a] EXCEPT !.status = "EXPIRED"]
                   ELSE approvals[a]]
  /\ UNCHANGED now

Tick ==
  /\ now < MaxTime
  /\ now' = now + 1
  /\ UNCHANGED approvals

=============================================================================
