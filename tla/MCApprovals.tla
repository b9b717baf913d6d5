---------------------------- MODULE MCApprovals ----------------------------
(***************************************************************************)
(* Small instances of Approvals in one run.  The cast, chosen in the        *)
(* initial state, says who takes part and in what: two administrators with *)
(* two payloads, so that an approval can be presented for the wrong        *)
(* action; two members of a business whose memberships change meanwhile;   *)
(* one of each on the one collection; an administrator who updates a       *)
(* policy twice at a time.  Two approver roles in a scope, so that a role  *)
(* can be the wrong one.  Without administrators the members of the        *)
(* business are the only cast.                                             *)
(***************************************************************************)
EXTENDS Approvals, TLC

CONSTANTS k1, p1, p2, superUser, support, finance, agent

VARIABLE cast

MCUsers == Admins \cup Staff
MCRoles == SystemRoles \cup BusinessRoles
MCScopes == {System} \cup Businesses
MCKeys == {k1}
OneJob == {[key |-> k1, payload |-> p1]}
TwoJobs == {[key |-> k1, payload |-> p] : p \in {p1, p2}}

\* SYSTEM_APPROVAL_POLICY_DEFAULTS and BUSINESS_APPROVAL_POLICY_DEFAULTS, with
\* the roles cut down to one that may approve and one that may not.
MCInitialPolicy ==
  [s \in MCScopes |-> [k \in MCKeys |->
     [mode |-> "second_approval",
      roles |-> IF s = System THEN {superUser} ELSE {finance},
      isEnabled |-> TRUE]]]

MCInitialRole == [b \in Businesses |-> [u \in Staff |-> finance]]

Decisions == {"execute", "approve", "reject"}
Casts ==
  {[actors |-> Admins, jobs |-> TwoJobs, ops |-> Decisions] : s \in Admins}
  \cup {[actors |-> Staff, jobs |-> OneJob, ops |-> Decisions]}
  \cup {[actors |-> {s, u}, jobs |-> OneJob, ops |-> Decisions] : s \in Admins, u \in Staff}
  \cup {[actors |-> {s}, jobs |-> OneJob, ops |-> {"execute", "configure"}] : s \in Admins}

\* bounds: the cast, and the time of the one that updates policies
Plays(r) ==
  r.pc # "idle" => /\ r.actor \in cast.actors /\ r.op \in cast.ops
                   /\ r.job \in cast.jobs \cup {None}

MCInit == Init /\ cast \in Casts
MCNext ==
  /\ Next
  /\ \A h \in Handlers : Plays(req'[h])
  /\ \A b \in Businesses, u \in Staff \ cast.actors : member'[b][u] = member[b][u]
  /\ "configure" \in cast.ops => now' <= 1
  /\ UNCHANGED cast
MCSpec == MCInit /\ [][MCNext]_<<vars, cast>>

Symmetry == Permutations(Admins) \cup Permutations(Staff)
            \cup Permutations(ApprovalIds) \cup Permutations(Handlers)
=============================================================================
