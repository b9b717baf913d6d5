---------------------------- MODULE MCMembership ----------------------------
(***************************************************************************)
(* Small instances of Membership in one run, by a scenario chosen in the   *)
(* initial state: every operation but the two that override permissions,   *)
(* one call at a time; calls that overlap and change roles, permissions    *)
(* and memberships; calls that overlap and transfer the business.          *)
(* Users are told apart by Founder, so only the others and the handlers    *)
(* are interchangeable.                                                    *)
(***************************************************************************)
EXTENDS Membership, TLC

VARIABLE scenario

Serial == scenario = "serial"
Scenarios ==
  [serial |-> {"invite", "resend", "cancel", "expire", "acceptInvite", "role",
               "suspend", "activate", "remove",
               "initiate", "acceptTransfer", "confirm"},
   staff |-> {"role", "template", "permissions", "remove"},
   transfers |-> {"initiate", "acceptTransfer", "confirm"}]

MCInit == Init /\ scenario \in DOMAIN Scenarios

\* Begin, of the calls of the scenario; bound: no permission is denied
BeginScene(h) ==
  \E op \in Ops \cap Scenarios[scenario], a \in Users, t \in Users,
     r \in Roles, o \in Overrides \ {"deny"} : Ask(h, op, a, t, r, o)
Turn(h) == Serial => \A g \in Handlers \ {h} : req[g].pc = "idle"

MCNext ==
  /\ \/ \E h \in Handlers :
          /\ Turn(h)
          /\ BeginScene(h) \/ CheckAccess(h) \/ MemberCall(h) \/ TransferCall(h) \/ Fail(h)
     \/ \E u \in Users : SignIn(u) \/ SignOut(u)
  /\ UNCHANGED scenario
MCSpec == MCInit /\ [][MCNext]_<<vars, scenario>>

\* 'Owner cannot be removed', 'Owner cannot be suspended': the owner keeps the seat as
\* long as no calls of a transfer overlap.
OwnerSeatedUntorn == scenario # "transfers" => OwnerSeated

\* One call at a time, cut short anywhere, two rules of steps hold: 'Only the
\* current owner can transfer ownership',
OwnerConfirmsSerially == [][Serial => ConfirmedByOwner]_<<vars, scenario>>

\* "If membership exists and is already active, it is returned unchanged."
ActiveStaysJoinedSerially == [][Serial => StaysJoined]_<<vars, scenario>>

Symmetry == Permutations(Users \ {Founder}) \cup Permutations(Handlers)
=============================================================================
