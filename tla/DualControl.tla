---------------------------- MODULE DualControl ----------------------------
(***************************************************************************)
(* What the approval workflow promises, with no services, no clock and no  *)
(* database: an action that needs a second person is asked for by one      *)
(* user, granted or refused by another, once, and only a granted action is *)
(* performed.  Nothing is ever decided twice and nothing comes back.       *)
(* admin.controller.ts calls the requests "dual-control approval requests".*)
(***************************************************************************)
CONSTANTS ApprovalIds, Users, None

VARIABLES
  stage,      \* where each request is
  requester,  \* who asked
  granter,    \* who granted it
  performed   \* the requests whose action was carried out

dcVars == <<stage, requester, granter, performed>>

Stages == {"none", "open", "granted", "refused", "lapsed", "closed"}

Init ==
  /\ stage = [a \in ApprovalIds |-> "none"]
  /\ requester = [a \in ApprovalIds |-> None]
  /\ granter = [a \in ApprovalIds |-> None]
  /\ performed = {}

Ask(a, u) ==
  /\ stage[a] = "none"
  /\ stage' = [stage EXCEPT ![a] = "open"]
  /\ requester' = [requester EXCEPT ![a] = u]
  /\ UNCHANGED <<granter, performed>>

Grant(a, v) ==
  /\ stage[a] = "open"
  /\ v # requester[a]
  /\ stage' = [stage EXCEPT ![a] = "granted"]
  /\ granter' = [granter EXCEPT ![a] = v]
  /\ UNCHANGED <<requester, performed>>

Refuse(a) ==
  /\ stage[a] = "open"
  /\ stage' = [stage EXCEPT ![a] = "refused"]
  /\ UNCHANGED <<requester, granter, performed>>

\* Any number of open requests lapse at once.
Lapse(S) ==
  /\ \A a \in S : stage[a] = "open"
  /\ stage' = [a \in ApprovalIds |-> IF a \in S THEN "lapsed" ELSE stage[a]]
  /\ UNCHANGED <<requester, granter, performed>>

Perform(a) ==
  /\ stage[a] \in {"granted", "closed"}
  /\ performed' = performed \cup {a}
  /\ UNCHANGED <<stage, requester, granter>>

Close(a) ==
  /\ stage[a] = "granted"
  /\ stage' = [stage EXCEPT ![a] = "closed"]
  /\ UNCHANGED <<requester, granter, performed>>

Next ==
  \/ \E a \in ApprovalIds, u \in Users : Ask(a, u) \/ Grant(a, u)
  \/ \E a \in ApprovalIds : Refuse(a) \/ Perform(a) \/ Close(a)
  \/ \E S \in SUBSET ApprovalIds : Lapse(S)

Spec == Init /\ [][Next]_dcVars

=============================================================================
