-------------------------- MODULE ApprovalsProofs --------------------------
(***************************************************************************)
(* Proofs about the approval workflow, for any number of users, handlers,  *)
(* businesses, requests and any clock bound.  None of the invariants the   *)
(* runs check is inductive alone: a handler acts on what it read awaits    *)
(* ago.  The types need the shape of a call at each await (CallShape);     *)
(* every other invariant needs that what was read still holds              *)
(* (SnapshotsHold), and the order of action and mark how far a handler has *)
(* got (ActBeforeMark).  Deadlines, named approvers and qualified          *)
(* decisions need Rules besides, and the last part shows that every step   *)
(* is a step of DualControl.                                               *)
(***************************************************************************)
EXTENDS Approvals, TLAPS

\* The collection stays well typed under every repository operation.
LEMMA StoreTyped ==
  ASSUME StoreTypeOK, NEW a \in ApprovalIds
  PROVE  /\ \A s \in Scopes, j \in Jobs, u \in Users, R \in SUBSET Roles :
              Create(a, s, j, u, R) => StoreTypeOK'
         /\ \A u \in Users : StoreApprove(a, u) \/ StoreReject(a, u) => StoreTypeOK'
         /\ StoreMarkExecuted(a) => StoreTypeOK'
<1>1. ASSUME NEW s \in Scopes, NEW j \in Jobs, NEW u \in Users,
             NEW R \in SUBSET Roles, Create(a, s, j, u, R)
      PROVE  StoreTypeOK'
  <2>1. now + Lifetime \in Nat
    BY TimeAssumption DEF StoreTypeOK
  <2>2. [status |-> "PENDING", scope |-> s, job |-> j, requestedBy |-> u,
         required |-> R, expiresAt |-> now + Lifetime, approvedBy |-> None,
         approvedAt |-> 0, rejectedBy |-> None] \in Approval
    BY <2>1 DEF Approval, Statuses
  <2>3. QED
    BY <1>1, <2>2 DEF Create, StoreTypeOK
<1>2. ASSUME NEW u \in Users, StoreApprove(a, u) PROVE StoreTypeOK'
  <2>1. [approvals[a] EXCEPT !.status = "APPROVED", !.approvedBy = u,
                             !.approvedAt = now] \in Approval
    BY DEF StoreTypeOK, Approval, Statuses
  <2>2. QED
    BY <1>2, <2>1 DEF StoreApprove, StoreTypeOK
<1>3. ASSUME NEW u \in Users, StoreReject(a, u) PROVE StoreTypeOK'
  <2>1. [approvals[a] EXCEPT !.status = "REJECTED", !.rejectedBy = u] \in Approval
    BY DEF StoreTypeOK, Approval, Statuses
  <2>2. QED
    BY <1>3, <2>1 DEF StoreReject, Rejectable, StoreTypeOK
<1>4. StoreMarkExecuted(a) => StoreTypeOK'
  BY DEF StoreMarkExecuted, StoreTypeOK, Approval, Statuses
<1>5. QED
  BY <1>1, <1>2, <1>3, <1>4

LEMMA TypedInit == Init => TypeOK
<1> SUFFICES ASSUME Init PROVE TypeOK
  OBVIOUS
<1>1. StoreTypeOK
  BY DEF Init, StoreInit, StoreTypeOK, Approval, Absent
<1>2. policy \in [Scopes -> [Keys -> Policy]] /\ member \in [Businesses -> [Staff -> Membership]]
  BY PolicyAssumption DEF Init, Membership
<1>3. Types
  BY <1>1, <1>2 DEF Init, Types, Idle, PCs, Ledger
<1>4. CallShape
  BY DEF Init, CallShape, Shape, Idle
<1>5. QED
  BY <1>3, <1>4 DEF TypeOK

\* Calls: what a step of handler h may do to its own record, the rest of the
\* state being well typed already.
CallTyped ==
  req \in [Handlers -> [pc: PCs, op: Ops \cup {None}, scope: Scopes \cup {None},
                        actor: Users \cup {None}, job: Jobs \cup {None},
                        id: ApprovalIds \cup {None}, role: Roles \cup {None},
                        policy: Policy \cup {None}]]

LEMMA ReturnTyped ==
  ASSUME CallTyped, CallShape, NEW h \in Handlers, Return(h)
  PROVE  CallTyped' /\ CallShape'
  BY DEF CallTyped, CallShape, Shape, Return, Idle, PCs

LEMMA ArriveTyped ==
  ASSUME CallTyped, CallShape, NEW h \in Handlers,
         NEW pc \in {"expire", "merge"}, NEW op \in Ops, NEW s \in Scopes,
         NEW u \in Users, NEW job \in Jobs \cup {None},
         NEW id \in ApprovalIds \cup {None}, NEW role \in Roles \cup {None},
         op \in {"execute", "configure"} => job \in Jobs,
         op \in {"approve", "reject"} => id \in ApprovalIds,
         pc = "merge" <=> op = "configure",
         Arrive(h, pc, op, s, u, job, id, role)
  PROVE  CallTyped' /\ CallShape'
<1>1. s # System => u \in Staff /\ s \in Businesses
  BY DEF Actors, Scopes, Arrive
<1>2. CallTyped'
  BY <1>1 DEF CallTyped, Arrive, PCs
<1>3. /\ \A g \in Handlers \ {h} : req'[g] = req[g]
      /\ req'[h] = [pc |-> IF s = System THEN pc ELSE "access", op |-> op,
                    scope |-> s, actor |-> u, job |-> job, id |-> id,
                    role |-> role, policy |-> None]
  BY DEF CallTyped, Arrive
<1>4. CallShape'
  BY <1>1, <1>3 DEF CallShape, Shape
<1>5. QED
  BY <1>2, <1>4

LEMMA BeginTyped ==
  ASSUME CallTyped, CallShape, NEW h \in Handlers,
         BeginExecute(h) \/ BeginDecide(h) \/ BeginConfigure(h)
  PROVE  CallTyped' /\ CallShape'
<1>1. CASE BeginExecute(h)
  <2>1. PICK s \in Scopes, job \in Jobs, id \in ApprovalIds \cup {None}, u \in Users :
          Arrive(h, "expire", "execute", s, u, job, id, None)
    BY <1>1 DEF BeginExecute
  <2>2. "execute" \in Ops
    BY <2>1 DEF Arrive
  <2>3. QED
    BY <2>1, <2>2, ArriveTyped
<1>2. CASE BeginDecide(h)
  <2>1. PICK op \in {"approve", "reject"}, s \in Scopes, id \in ApprovalIds,
             u \in Users, role \in Roles \cup {None} :
          Arrive(h, "expire", op, s, u, None, id, role)
    BY <1>2, RolesAssumption DEF BeginDecide
  <2>2. op \in Ops
    BY <2>1 DEF Arrive
  <2>3. QED
    BY <2>1, <2>2, ArriveTyped
<1>3. CASE BeginConfigure(h)
  <2>1. PICK s \in Scopes, job \in Jobs, u \in Users :
          Arrive(h, "merge", "configure", s, u, job, None, None)
    BY <1>3 DEF BeginConfigure
  <2>2. "configure" \in Ops
    BY <2>1 DEF Arrive
  <2>3. QED
    BY <2>1, <2>2, ArriveTyped
<1>4. QED
  BY <1>1, <1>2, <1>3

\* Steps that move the program counter only.
LEMMA GotoTyped ==
  ASSUME CallTyped, CallShape, NEW h \in Handlers, req[h].pc # "idle",
         NEW pc \in {"policy", "merge", "expire", "find", "vet", "decide", "act", "mark"},
         Goto(h, pc),
         pc \in {"policy", "act", "mark"} => req[h].op = "execute",
         pc = "merge" => req[h].op = "configure",
         pc = "expire" => req[h].op # "configure",
         pc \in {"find", "vet", "decide", "mark"} => req[h].id \in ApprovalIds,
         pc = "expire" /\ req[h].op \in {"approve", "reject"} => req[h].id \in ApprovalIds,
         pc = "vet" => req[h].scope # System
  PROVE  CallTyped' /\ CallShape'
<1>1. CallTyped'
  BY DEF CallTyped, Goto, PCs
<1>2. /\ \A g \in Handlers \ {h} : req'[g] = req[g]
      /\ req'[h] = [req[h] EXCEPT !.pc = pc]
  BY DEF CallTyped, Goto
<1>3. /\ req'[h].pc = pc /\ req'[h].op = req[h].op
      /\ req'[h].scope = req[h].scope /\ req'[h].actor = req[h].actor
      /\ req'[h].job = req[h].job /\ req'[h].id = req[h].id
  BY <1>2 DEF CallTyped
<1>4. /\ req[h].scope \in Scopes /\ req[h].actor \in Users /\ req[h].op \in Ops
      /\ req[h].op \in {"execute", "configure"} => req[h].job \in Jobs
      /\ req[h].scope # System => req[h].scope \in Businesses /\ req[h].actor \in Staff
  BY DEF CallShape, Shape
<1>5. SUFFICES ASSUME NEW g \in Handlers PROVE Shape(g)'
  BY <1>1 DEF CallShape
<1>6. CASE g = h
  BY <1>3, <1>4, <1>6 DEF Shape
<1>7. CASE g # h
  BY <1>2, <1>7 DEF CallShape, Shape
<1>8. QED
  BY <1>6, <1>7

LEMMA MergeTyped ==
  ASSUME Types, CallShape, NEW h \in Handlers, MergePolicy(h)
  PROVE  CallTyped' /\ CallShape'
<1> DEFINE s == req[h].scope
           old == policy[s][req[h].job.key]
<1>1. s \in Scopes /\ req[h].job \in Jobs /\ req[h].op = "configure"
  BY DEF MergePolicy, CallShape, Shape
<1>2. old \in Policy
  BY <1>1, JobsAssumption DEF Types
<1>3. PICK input \in PolicyInput(s) :
        req' = [req EXCEPT ![h] = [@ EXCEPT !.pc = "upsert", !.policy = Merge(input, old)]]
  BY DEF MergePolicy
<1>4. RolesOf(s) \subseteq Roles
  BY RolesAssumption DEF RolesOf
<1>5. Merge(input, old) \in Policy
  BY <1>2, <1>3, <1>4 DEF PolicyInput, Merge, Policy
<1> DEFINE new == [req[h] EXCEPT !.pc = "upsert", !.policy = Merge(input, old)]
<1>6. /\ \A g \in Handlers \ {h} : req'[g] = req[g]
      /\ req'[h] = new
      /\ req' = [req EXCEPT ![h] = new]
  BY <1>3 DEF Types
<1>7. /\ new \in [pc: PCs, op: Ops \cup {None}, scope: Scopes \cup {None},
                    actor: Users \cup {None}, job: Jobs \cup {None},
                    id: ApprovalIds \cup {None}, role: Roles \cup {None},
                    policy: Policy \cup {None}]
      /\ new.pc = "upsert" /\ new.policy \in Policy /\ new.op = "configure"
      /\ new.scope = req[h].scope /\ new.actor = req[h].actor /\ new.job = req[h].job
  BY <1>1, <1>5 DEF Types, PCs
<1>8. CallTyped'
  BY <1>6, <1>7 DEF CallTyped, Types
<1>9. req[h].pc # "idle"
  BY DEF MergePolicy
<1>10. CallShape'
  BY <1>1, <1>6, <1>7, <1>9 DEF CallShape, Shape
<1>11. QED
  BY <1>8, <1>10

\* The part of Types about other state than the calls.
DataTyped ==
  /\ StoreTypeOK
  /\ policy \in [Scopes -> [Keys -> Policy]]
  /\ member \in [Businesses -> [Staff -> Membership]]
  /\ ledger \subseteq Ledger
  /\ runs \in [ApprovalIds -> {"none", "one", "many"}]

LEMMA TypedSplit == Types <=> DataTyped /\ CallTyped
  BY DEF Types, DataTyped, CallTyped

LEMMA ExecuteTyped ==
  ASSUME TypeOK, NEW h \in Handlers, Execute(h)
  PROVE  TypeOK'
<1> USE DEF TypeOK
<1>0. DataTyped /\ CallTyped /\ CallShape
  BY TypedSplit
<1>1. CASE ReadPolicy(h)
  <2> DEFINE p == policy[req[h].scope][req[h].job.key]
             new == IF ~Gated(p) THEN [req[h] EXCEPT !.pc = "act", !.id = None]
                    ELSE IF Presented(h) THEN [req[h] EXCEPT !.pc = "find"]
                    ELSE [req[h] EXCEPT !.pc = "create", !.policy = p]
  <2>1. req[h].scope \in Scopes /\ req[h].actor \in Users /\ req[h].op \in Ops
        /\ req[h].op = "execute" /\ req[h].job \in Jobs
    BY <1>1, <1>0 DEF ReadPolicy, CallShape, Shape
  <2>2. p \in Policy
    BY <2>1, <1>0, JobsAssumption DEF DataTyped
  <2>3. /\ \A g \in Handlers \ {h} : req'[g] = req[g]
        /\ req'[h] = new
        /\ req' = [req EXCEPT ![h] = new]
    BY <1>1, <1>0 DEF ReadPolicy, CallTyped
  <2>4. /\ new \in [pc: PCs, op: Ops \cup {None}, scope: Scopes \cup {None},
                      actor: Users \cup {None}, job: Jobs \cup {None},
                      id: ApprovalIds \cup {None}, role: Roles \cup {None},
                      policy: Policy \cup {None}]
        /\ new.pc \in {"act", "create", "find"}
        /\ new.pc = "create" => new.policy \in Policy
        /\ new.pc = "find" => new.id \in ApprovalIds
        /\ new.op = "execute" /\ new.scope = req[h].scope
        /\ new.actor = req[h].actor /\ new.job = req[h].job
    BY <2>1, <2>2, <1>0 DEF CallTyped, PCs, Presented
  <2>5. CallTyped'
    BY <2>3, <2>4, <1>0 DEF CallTyped
  <2>6. CallShape'
    <3>1. req[h].scope # System => req[h].scope \in Businesses /\ req[h].actor \in Staff
      BY <1>1, <1>0 DEF ReadPolicy, CallShape, Shape
    <3>2. Shape(h)'
      BY <2>1, <2>3, <2>4, <3>1 DEF Shape
    <3>3. \A g \in Handlers \ {h} : Shape(g)'
      BY <2>3, <1>0 DEF CallShape, Shape
    <3>4. QED
      BY <3>2, <3>3 DEF CallShape
  <2>7. DataTyped'
    BY <1>1, <1>0 DEF ReadPolicy, DataTyped, StoreTypeOK
  <2>8. QED
    BY <2>5, <2>6, <2>7, TypedSplit, PTL
<1>2. CASE CreateRequest(h)
  <2>1. /\ req[h].scope \in Scopes /\ req[h].job \in Jobs /\ req[h].actor \in Users
        /\ req[h].policy \in Policy
    BY <1>2, <1>0 DEF CreateRequest, CallShape, Shape
  <2>2. PICK a \in ApprovalIds :
          Create(a, req[h].scope, req[h].job, req[h].actor, req[h].policy.roles)
    BY <1>2 DEF CreateRequest
  <2>3. req[h].policy.roles \in SUBSET Roles
    BY <2>1 DEF Policy
  <2>4. StoreTypeOK'
    BY <2>1, <2>2, <2>3, <1>0, StoreTyped DEF DataTyped
  <2>5. CallTyped' /\ CallShape'
    BY <1>0, <1>2, ReturnTyped DEF CreateRequest
  <2>6. DataTyped'
    BY <1>2, <1>0, <2>4 DEF CreateRequest, DataTyped
  <2>7. QED
    BY <2>5, <2>6, TypedSplit, PTL
<1>3. CASE FindForUse(h)
  <2>1. req[h].id \in ApprovalIds
    BY <1>3, <1>0 DEF FindForUse, CallShape, Shape
  <2>2. CallTyped' /\ CallShape'
    BY <1>3, <1>0, <2>1, GotoTyped DEF FindForUse, AfterChecks
  <2>3. DataTyped'
    BY <1>3, <1>0 DEF FindForUse, DataTyped, StoreTypeOK
  <2>4. QED
    BY <2>2, <2>3, TypedSplit, PTL
<1>4. CASE Act(h)
  <2>1. /\ req[h].scope \in Scopes /\ req[h].job \in Jobs /\ req[h].actor \in Users
        /\ req[h].op = "execute" /\ req[h].id \in ApprovalIds \cup {None}
    BY <1>4, <1>0 DEF Act, CallShape, Shape, CallTyped
  <2>2. CallTyped' /\ CallShape'
    BY <1>4, <1>0, <2>1, GotoTyped, ReturnTyped DEF Act
  <2>3. ledger' \subseteq Ledger /\ runs' \in [ApprovalIds -> {"none", "one", "many"}]
    BY <1>4, <1>0, <2>1 DEF Act, DataTyped, Ledger
  <2>4. DataTyped'
    BY <1>4, <1>0, <2>3 DEF Act, DataTyped, StoreTypeOK
  <2>5. QED
    BY <2>2, <2>4, TypedSplit, PTL
<1>5. CASE MarkExecuted(h)
  <2>1. req[h].id \in ApprovalIds /\ req[h].op = "execute"
    BY <1>5, <1>0 DEF MarkExecuted, CallShape, Shape
  <2>2. CallTyped' /\ CallShape'
    BY <1>5, <1>0, <2>1, GotoTyped, ReturnTyped DEF MarkExecuted
  <2>3. StoreTypeOK'
    BY <1>5, <1>0, <2>1, StoreTyped DEF MarkExecuted, DataTyped
  <2>4. DataTyped'
    BY <1>5, <1>0, <2>3 DEF MarkExecuted, DataTyped
  <2>5. QED
    BY <2>2, <2>4, TypedSplit, PTL
<1>6. QED
  BY <1>1, <1>2, <1>3, <1>4, <1>5 DEF Execute

LEMMA DecideTyped ==
  ASSUME TypeOK, NEW h \in Handlers, Decide(h)
  PROVE  TypeOK'
<1> USE DEF TypeOK
<1>0. DataTyped /\ CallTyped /\ CallShape
  BY TypedSplit
<1>1. CASE FindForDecision(h)
  <2>1. /\ req[h].id \in ApprovalIds /\ req[h].scope \in Scopes
        /\ req[h].actor \in Users
    BY <1>1, <1>0 DEF FindForDecision, CallShape, Shape
  <2>2. CASE req[h].scope = System
    <3>1. CallTyped' /\ CallShape'
      BY <1>1, <1>0, <2>1, <2>2, GotoTyped DEF FindForDecision
    <3>2. DataTyped'
      BY <1>1, <1>0 DEF FindForDecision, DataTyped, StoreTypeOK
    <3>3. QED
      BY <3>1, <3>2, TypedSplit, PTL
  <2>3. CASE req[h].scope # System
    <3>1. req[h].scope \in Businesses /\ req[h].actor \in Staff
      BY <2>3, <1>0, <1>1 DEF FindForDecision, CallShape, Shape
    <3>2. CallTyped' /\ CallShape'
      BY <1>1, <1>0, <2>1, <2>3, <3>1, GotoTyped DEF FindForDecision
    <3>3. DataTyped'
      BY <1>1, <1>0 DEF FindForDecision, DataTyped, StoreTypeOK
    <3>4. QED
      BY <3>2, <3>3, TypedSplit, PTL
  <2>4. QED
    BY <2>2, <2>3
<1>2. CASE VetApprover(h)
  <2> DEFINE m == member[req[h].scope][req[h].actor]
             new == [req[h] EXCEPT !.pc = "decide", !.role = m.role]
  <2>1. /\ req[h].scope \in Businesses /\ req[h].actor \in Staff
        /\ req[h].id \in ApprovalIds
        /\ req[h].scope \in Scopes /\ req[h].actor \in Users /\ req[h].op \in Ops
        /\ req[h].op \in {"execute", "configure"} => req[h].job \in Jobs
    BY <1>2, <1>0 DEF VetApprover, CallShape, Shape
  <2>2. m.role \in Roles
    BY <2>1, <1>0, RolesAssumption DEF DataTyped, Membership
  <2>3. /\ \A g \in Handlers \ {h} : req'[g] = req[g]
        /\ req'[h] = new
        /\ req' = [req EXCEPT ![h] = new]
    BY <1>2, <1>0 DEF VetApprover, CallTyped
  <2>4. /\ new \in [pc: PCs, op: Ops \cup {None}, scope: Scopes \cup {None},
                      actor: Users \cup {None}, job: Jobs \cup {None},
                      id: ApprovalIds \cup {None}, role: Roles \cup {None},
                      policy: Policy \cup {None}]
        /\ new.pc = "decide" /\ new.id = req[h].id
        /\ new.op = req[h].op /\ new.scope = req[h].scope
        /\ new.actor = req[h].actor /\ new.job = req[h].job
    BY <2>1, <2>2, <1>0 DEF CallTyped, PCs
  <2>5. CallTyped'
    BY <2>3, <2>4, <1>0 DEF CallTyped
  <2>6. CallShape'
    <3>1. Shape(h)'
      BY <2>1, <2>3, <2>4 DEF Shape
    <3>2. \A g \in Handlers \ {h} : Shape(g)'
      BY <2>3, <1>0 DEF CallShape, Shape
    <3>3. QED
      BY <3>1, <3>2 DEF CallShape
  <2>7. DataTyped'
    BY <1>2, <1>0 DEF VetApprover, DataTyped, StoreTypeOK
  <2>8. QED
    BY <2>5, <2>6, <2>7, TypedSplit, PTL
<1>3. CASE Approve(h) \/ Reject(h)
  <2>1. req[h].id \in ApprovalIds /\ req[h].actor \in Users
    BY <1>3, <1>0 DEF Approve, Reject, CallShape, Shape
  <2>2. CallTyped' /\ CallShape'
    BY <1>3, <1>0, ReturnTyped DEF Approve, Reject
  <2>3. StoreTypeOK'
    BY <1>3, <1>0, <2>1, StoreTyped DEF Approve, Reject, DataTyped
  <2>4. DataTyped'
    BY <1>3, <1>0, <2>3 DEF Approve, Reject, DataTyped
  <2>5. QED
    BY <2>2, <2>4, TypedSplit, PTL
<1>4. QED
  BY <1>1, <1>2, <1>3 DEF Decide

LEMMA ConfigureTyped ==
  ASSUME TypeOK, NEW h \in Handlers, Configure(h)
  PROVE  TypeOK'
<1> USE DEF TypeOK
<1>0. DataTyped /\ CallTyped /\ CallShape
  BY TypedSplit
<1>1. CASE MergePolicy(h)
  <2>1. CallTyped' /\ CallShape'
    BY <1>1, MergeTyped
  <2>2. DataTyped'
    BY <1>1, <1>0 DEF MergePolicy, DataTyped, StoreTypeOK
  <2>3. QED
    BY <2>1, <2>2, TypedSplit, PTL
<1>2. CASE UpsertPolicy(h)
  <2>1. req[h].scope \in Scopes /\ req[h].policy \in Policy
    BY <1>2, <1>0 DEF UpsertPolicy, CallShape, Shape
  <2>2. CallTyped' /\ CallShape'
    BY <1>2, <1>0, ReturnTyped DEF UpsertPolicy
  <2>3. policy' \in [Scopes -> [Keys -> Policy]]
    BY <1>2, <1>0, <2>1 DEF UpsertPolicy, DataTyped
  <2>4. DataTyped'
    BY <1>2, <1>0, <2>3 DEF UpsertPolicy, DataTyped, StoreTypeOK
  <2>5. QED
    BY <2>2, <2>4, TypedSplit, PTL
<1>3. QED
  BY <1>1, <1>2 DEF Configure

LEMMA TypeOKNext == TypeOK /\ [Next]_vars => TypeOK'
<1> SUFFICES ASSUME TypeOK, [Next]_vars PROVE TypeOK'
  OBVIOUS
<1> USE DEF TypeOK
<1>0. DataTyped /\ CallTyped /\ CallShape
  BY TypedSplit
<1>1. ASSUME NEW h \in Handlers, BeginExecute(h) \/ BeginDecide(h) \/ BeginConfigure(h)
      PROVE  TypeOK'
  <2>1. CallTyped' /\ CallShape'
    BY <1>1, <1>0, BeginTyped
  <2>2. DataTyped'
    BY <1>1, <1>0 DEF BeginExecute, BeginDecide, BeginConfigure, Arrive, DataTyped, StoreTypeOK
  <2>3. QED
    BY <2>1, <2>2, TypedSplit, PTL
<1>2. ASSUME NEW h \in Handlers, CheckAccess(h) PROVE TypeOK'
  <2>1. /\ req[h].op \in {"approve", "reject"} => req[h].id \in ApprovalIds
        /\ req[h].op \in {"execute", "approve", "reject", "configure"}
    BY <1>2, <1>0, OpsAssumption DEF CheckAccess, CallShape, Shape
  <2>2. CallTyped' /\ CallShape'
    BY <1>2, <1>0, <2>1, GotoTyped DEF CheckAccess, AfterAccess
  <2>3. DataTyped'
    BY <1>2, <1>0 DEF CheckAccess, DataTyped, StoreTypeOK
  <2>4. QED
    BY <2>2, <2>3, TypedSplit, PTL
<1>3. ASSUME NEW h \in Handlers, ExpirePending(h) PROVE TypeOK'
  <2>1. /\ req[h].op # "execute" => req[h].id \in ApprovalIds
        /\ req[h].op = "execute" \/ req[h].op \in {"approve", "reject"}
    BY <1>3, <1>0, OpsAssumption DEF ExpirePending, CallShape, Shape
  <2>2. CallTyped' /\ CallShape'
    BY <1>3, <1>0, <2>1, GotoTyped DEF ExpirePending
  <2>3. StoreTypeOK'
    <3>1. now' \in Nat
      BY <1>3, <1>0 DEF ExpirePending, StoreExpirePending, DataTyped, StoreTypeOK
    <3>2. \A a \in ApprovalIds : [approvals[a] EXCEPT !.status = "EXPIRED"] \in Approval
      BY <1>0 DEF DataTyped, StoreTypeOK, Approval, Statuses
    <3>3. approvals' \in [ApprovalIds -> Approval]
      BY <1>3, <1>0, <3>2 DEF ExpirePending, StoreExpirePending, DataTyped, StoreTypeOK
    <3>4. QED
      BY <3>1, <3>3 DEF StoreTypeOK
  <2>4. DataTyped'
    BY <1>3, <1>0, <2>3 DEF ExpirePending, DataTyped
  <2>5. QED
    BY <2>2, <2>4, TypedSplit, PTL
<1>4. ASSUME NEW h \in Handlers, Fail(h) PROVE TypeOK'
  <2>1. CallTyped' /\ CallShape'
    BY <1>4, <1>0, ReturnTyped DEF Fail
  <2>2. DataTyped'
    BY <1>4, <1>0 DEF Fail, DataTyped, StoreTypeOK
  <2>3. QED
    BY <2>1, <2>2, TypedSplit, PTL
<1>5. ASSUME NEW b \in Businesses, NEW u \in Staff, ChangeMembership(b, u) PROVE TypeOK'
  BY <1>5, <1>0, TypedSplit DEF ChangeMembership, DataTyped, StoreTypeOK, CallTyped, CallShape, Shape, Types
<1>6. ASSUME Clock PROVE TypeOK'
  BY <1>6, <1>0 DEF Clock, Tick, StoreTypeOK, Types, CallShape, Shape
<1>7. CASE UNCHANGED vars
  BY <1>7, <1>0 DEF vars, StoreTypeOK, Types, CallShape, Shape
<1>8. QED
  BY <1>1, <1>2, <1>3, <1>4, <1>5, <1>6, <1>7, ExecuteTyped, DecideTyped, ConfigureTyped DEF Next

\* The type invariant, for every instance.
THEOREM TypeCorrect == Spec => []TypeOK
<1>1. TypeOK /\ [Next]_vars => TypeOK'
  BY TypeOKNext
<1>2. QED
  BY TypedInit, <1>1, PTL DEF Spec

----------------------------------------------------------------------------
\* What no step takes back.
Stable(a) ==
  LET old == approvals[a]
      new == approvals'[a]
  IN /\ old.status # "absent" =>
          /\ new.scope = old.scope /\ new.job = old.job
          /\ new.requestedBy = old.requestedBy /\ new.required = old.required
          /\ new.expiresAt = old.expiresAt
     /\ new.status = "absent" => new = old
     /\ old.status = "absent" /\ new.status # "absent" =>
          new.status = "PENDING" /\ new.requestedBy \in Users
     /\ old.status \in {"APPROVED", "EXECUTED"} =>
          new.status \in {"APPROVED", "EXECUTED"} /\ new.approvedBy = old.approvedBy
     /\ old.status = "EXECUTED" => new.status = "EXECUTED"
     /\ old.status = "REJECTED" => new.status = "REJECTED" /\ new.rejectedBy = old.rejectedBy
     /\ new.status = "EXECUTED" => old.status \in {"APPROVED", "EXECUTED"}

LEMMA StoreStable ==
  ASSUME StoreTypeOK, NEW a \in ApprovalIds, NEW c \in ApprovalIds
  PROVE  /\ \A s, j, R : \A u \in Users : Create(c, s, j, u, R) => Stable(a)
         /\ \A u : StoreApprove(c, u) \/ StoreReject(c, u) => Stable(a)
         /\ StoreMarkExecuted(c) => Stable(a)
         /\ StoreExpirePending => Stable(a)
         /\ UNCHANGED approvals => Stable(a)
<1> USE DEF Stable
<1>1. ASSUME NEW s, NEW j, NEW R, NEW u \in Users, Create(c, s, j, u, R) PROVE Stable(a)
  BY <1>1 DEF Create, StoreTypeOK, Approval
<1>2. ASSUME NEW u, StoreApprove(c, u) PROVE Stable(a)
  BY <1>2 DEF StoreApprove, Approvable, StoreTypeOK, Approval
<1>3. ASSUME NEW u, StoreReject(c, u) PROVE Stable(a)
  BY <1>3 DEF StoreReject, Rejectable, StoreTypeOK, Approval
<1>4. StoreMarkExecuted(c) => Stable(a)
  BY DEF StoreMarkExecuted, StoreTypeOK, Approval
<1>5. StoreExpirePending => Stable(a)
  BY DEF StoreExpirePending, Stale, StoreTypeOK, Approval
<1>6. UNCHANGED approvals => Stable(a)
  OBVIOUS
<1>7. QED
  BY <1>1, <1>2, <1>3, <1>4, <1>5, <1>6

\* The collection is written by five of the handlers' steps.
LEMMA WhoWrites ==
  ASSUME [Next]_vars, approvals' # approvals
  PROVE  \E h \in Handlers :
           Approve(h) \/ Reject(h) \/ MarkExecuted(h) \/ CreateRequest(h) \/ ExpirePending(h)
<1>5. ASSUME NEW h \in Handlers,
             BeginExecute(h) \/ BeginDecide(h) \/ BeginConfigure(h)
      PROVE  UNCHANGED approvals
  BY <1>5 DEF BeginExecute, BeginDecide, BeginConfigure, Arrive
<1>6. ASSUME NEW h \in Handlers,
             \/ CheckAccess(h) \/ ReadPolicy(h) \/ FindForUse(h) \/ Act(h) \/ FindForDecision(h)
             \/ VetApprover(h) \/ MergePolicy(h) \/ UpsertPolicy(h) \/ Fail(h)
      PROVE  UNCHANGED approvals
  BY <1>6 DEF CheckAccess, ReadPolicy, FindForUse, Act, FindForDecision, VetApprover,
              MergePolicy, UpsertPolicy, Fail
<1>7. ASSUME \/ \E b \in Businesses, u \in Staff : ChangeMembership(b, u)
             \/ Clock
             \/ UNCHANGED vars
      PROVE  UNCHANGED approvals
  BY <1>7 DEF ChangeMembership, Clock, Tick, vars
<1>8. QED
  BY <1>5, <1>6, <1>7 DEF Next, Execute, Decide, Configure

LEMMA NextStable ==
  ASSUME TypeOK, [Next]_vars, NEW a \in ApprovalIds
  PROVE  Stable(a)
<1>0. StoreTypeOK /\ CallShape
  BY DEF TypeOK, Types
<1>1. CASE UNCHANGED approvals
  BY <1>1, <1>0, StoreStable
<1>2. CASE approvals' # approvals
  <2>1. PICK h \in Handlers :
          Approve(h) \/ Reject(h) \/ MarkExecuted(h) \/ CreateRequest(h) \/ ExpirePending(h)
    BY <1>2, WhoWrites
  <2>2. CASE Approve(h) \/ Reject(h) \/ MarkExecuted(h)
    <3>1. req[h].id \in ApprovalIds
      BY <2>2, <1>0 DEF Approve, Reject, MarkExecuted, CallShape, Shape
    <3>2. QED
      BY <2>2, <3>1, <1>0, StoreStable DEF Approve, Reject, MarkExecuted
  <2>3. CASE CreateRequest(h)
    <3>1. req[h].actor \in Users
      BY <2>3, <1>0 DEF CreateRequest, CallShape, Shape
    <3>2. QED
      BY <2>3, <3>1, <1>0, StoreStable DEF CreateRequest
  <2>4. CASE ExpirePending(h)
    BY <2>4, <1>0, StoreStable DEF ExpirePending
  <2>5. QED
    BY <2>1, <2>2, <2>3, <2>4
<1>3. QED
  BY <1>1, <1>2

\* Once an action is authorised it stays so.
LEMMA AuthorisedStable ==
  ASSUME NEW e, Authorised(e), Stable(e.id)
  PROVE  /\ approvals'[e.id].status \in {"APPROVED", "EXECUTED"}
         /\ approvals'[e.id].scope = e.scope
         /\ approvals'[e.id].job = e.job
         /\ approvals'[e.id].requestedBy = e.actor
  BY DEF Authorised, Stable

\* RequestImmutable: what is asked for never changes.
THEOREM RequestsImmutable == Spec => RequestImmutable
<1>1. TypeOK /\ [Next]_vars =>
        [\A a \in ApprovalIds : approvals[a].status # "absent" =>
           \A f \in {"scope", "job", "requestedBy", "required", "expiresAt"} :
             approvals'[a][f] = approvals[a][f]]_approvals
  <2> SUFFICES ASSUME TypeOK, [Next]_vars, NEW a \in ApprovalIds,
                      approvals[a].status # "absent",
                      NEW f \in {"scope", "job", "requestedBy", "required", "expiresAt"}
               PROVE  approvals'[a][f] = approvals[a][f]
    OBVIOUS
  <2>1. Stable(a)
    BY NextStable
  <2>2. QED
    BY <2>1 DEF Stable
<1>2. QED
  BY <1>1, TypeCorrect, PTL DEF Spec, RequestImmutable

------------------------------------------------------------------------------
(* Safety *)


\* A request that was never created has no scope, the others have a requester.
Blank ==
  \A a \in ApprovalIds :
    IF approvals[a].status = "absent" THEN approvals[a].scope = None
                                      ELSE approvals[a].requestedBy \in Users

\* How far the handlers of each service have got before their last step.
ActBeforeMark ==
  \A h \in Handlers : req[h].id # None =>
    /\ req[h].pc = "mark" /\ req[h].scope = System => runs[req[h].id] # "none"
    /\ req[h].pc = "act" /\ req[h].scope # System =>
         approvals[req[h].id].status = "EXECUTED"

\* A handler decides on a request that exists.
DecidedOnExisting ==
  \A h \in Handlers : req[h].pc \in {"vet", "decide"} =>
    approvals[req[h].id].status # "absent"

IInv ==
  /\ TypeOK
  /\ Blank
  /\ DecidedOnExisting
  /\ SnapshotsHold
  /\ SeparationOfDuties
  /\ ActionsAuthorised
  /\ ActBeforeMark
  /\ ExecutionRecorded

LEMMA SafeInit == Init => IInv
<1> SUFFICES ASSUME Init PROVE IInv
  OBVIOUS
<1>1. Blank
  BY DEF Blank, Init, StoreInit, Absent
<1>2. SnapshotsHold /\ ActBeforeMark /\ DecidedOnExisting
  BY DEF SnapshotsHold, ActBeforeMark, DecidedOnExisting, Init, Idle
<1>3. SeparationOfDuties /\ ActionsAuthorised /\ ExecutionRecorded
  BY DEF SeparationOfDuties, ActionsAuthorised, ExecutionRecorded, Init, StoreInit, Absent
<1>4. QED
  BY <1>1, <1>2, <1>3, TypedInit DEF IInv

----------------------------------------------------------------------------
\* Who changed what.  Each lemma reads one variable's writers off Next.

\* The calls: a handler's record changes by its own steps only.
LEMMA OwnRecord ==
  ASSUME TypeOK, [Next]_vars
  PROVE  \/ req' = req
         \/ \E h \in Handlers : \A g \in Handlers \ {h} : req'[g] = req[g]
<1>0. CallTyped /\ CallShape
  BY DEF TypeOK, Types, CallTyped
<1>1. ASSUME NEW h \in Handlers,
             \/ BeginExecute(h) \/ BeginDecide(h) \/ BeginConfigure(h)
             \/ CheckAccess(h) \/ ExpirePending(h) \/ Fail(h)
      PROVE  \A g \in Handlers \ {h} : req'[g] = req[g]
  BY <1>0, <1>1 DEF CallTyped, BeginExecute, BeginDecide, BeginConfigure, Arrive, CheckAccess,
                    ExpirePending, Fail, Goto, Return
<1>2. ASSUME NEW h \in Handlers, Execute(h)
      PROVE  \A g \in Handlers \ {h} : req'[g] = req[g]
  BY <1>0, <1>2 DEF CallTyped, Execute, ReadPolicy, CreateRequest, FindForUse, Act, MarkExecuted, Goto, Return
<1>3. ASSUME NEW h \in Handlers, Decide(h) \/ Configure(h)
      PROVE  \A g \in Handlers \ {h} : req'[g] = req[g]
  BY <1>0, <1>3 DEF CallTyped, Decide, Configure, FindForDecision, VetApprover, Approve, Reject,
                    MergePolicy, UpsertPolicy, Goto, Return
<1>4. ASSUME \/ \E b \in Businesses, u \in Staff : ChangeMembership(b, u)
             \/ Clock
             \/ UNCHANGED vars
      PROVE  req' = req
  BY <1>4 DEF ChangeMembership, Clock, vars
<1>5. QED
  BY <1>1, <1>2, <1>3, <1>4 DEF Next

\* Where the steps that also fill in a field of the call leave it.
LEMMA Moves ==
  ASSUME TypeOK, NEW h \in Handlers
  PROVE  /\ ReadPolicy(h) => /\ \A g \in Handlers \ {h} : req'[g] = req[g]
                             /\ req'[h].pc \in {"act", "find", "create"}
                             /\ req'[h].pc = "act" => req'[h].id = None
         /\ VetApprover(h) => /\ \A g \in Handlers \ {h} : req'[g] = req[g]
                              /\ req'[h].pc = "decide"
                              /\ req'[h].id = req[h].id /\ req'[h].actor = req[h].actor
         /\ MergePolicy(h) => /\ \A g \in Handlers \ {h} : req'[g] = req[g]
                              /\ req'[h].pc = "upsert"
<1>0. req \in [Handlers -> [pc: PCs, op: Ops \cup {None}, scope: Scopes \cup {None},
                            actor: Users \cup {None}, job: Jobs \cup {None},
                            id: ApprovalIds \cup {None}, role: Roles \cup {None},
                            policy: Policy \cup {None}]]
  BY DEF TypeOK, Types
<1>1. ASSUME ReadPolicy(h)
      PROVE  /\ \A g \in Handlers \ {h} : req'[g] = req[g]
             /\ req'[h].pc \in {"act", "find", "create"}
             /\ req'[h].pc = "act" => req'[h].id = None
  <2> DEFINE p == policy[req[h].scope][req[h].job.key]
             new == IF ~Gated(p) THEN [req[h] EXCEPT !.pc = "act", !.id = None]
                    ELSE IF Presented(h) THEN [req[h] EXCEPT !.pc = "find"]
                    ELSE [req[h] EXCEPT !.pc = "create", !.policy = p]
  <2>1. req' = [req EXCEPT ![h] = new]
    BY <1>1 DEF ReadPolicy
  <2>2. new.pc \in {"act", "find", "create"} /\ (new.pc = "act" => new.id = None)
    BY <1>0
  <2>3. QED
    BY <1>0, <2>1, <2>2
<1>2. ASSUME VetApprover(h)
      PROVE  /\ \A g \in Handlers \ {h} : req'[g] = req[g]
             /\ req'[h].pc = "decide"
             /\ req'[h].id = req[h].id /\ req'[h].actor = req[h].actor
  <2> DEFINE new == [req[h] EXCEPT !.pc = "decide", !.role = member[req[h].scope][req[h].actor].role]
  <2>1. req' = [req EXCEPT ![h] = new]
    BY <1>2 DEF VetApprover
  <2>2. new.pc = "decide" /\ new.id = req[h].id /\ new.actor = req[h].actor
    BY <1>0
  <2>3. QED
    BY <1>0, <2>1, <2>2
<1>3. ASSUME MergePolicy(h)
      PROVE  /\ \A g \in Handlers \ {h} : req'[g] = req[g]
             /\ req'[h].pc = "upsert"
  <2>1. PICK p : req' = [req EXCEPT ![h] = [req[h] EXCEPT !.pc = "upsert", !.policy = p]]
    BY <1>3 DEF MergePolicy
  <2>2. [req[h] EXCEPT !.pc = "upsert", !.policy = p].pc = "upsert"
    BY <1>0
  <2>3. QED
    BY <1>0, <2>1, <2>2
<1>4. QED
  BY <1>1, <1>2, <1>3

\* A handler comes to "act" or "mark" with an approval in hand only by
\* FindForUse, or by going on from the other of the two.
LEMMA ReachesUse ==
  ASSUME TypeOK, [Next]_vars, NEW h \in Handlers,
         req'[h] # req[h], req'[h].pc \in {"act", "mark"}, req'[h].id # None
  PROVE  FindForUse(h) \/ Act(h) \/ MarkExecuted(h)
<1>0. CallTyped /\ CallShape
  BY DEF TypeOK, Types, CallTyped
<1>1. ASSUME NEW g \in Handlers, BeginExecute(g) \/ BeginDecide(g) \/ BeginConfigure(g) PROVE FALSE
  BY <1>0, <1>1 DEF CallTyped, BeginExecute, BeginDecide, BeginConfigure, Arrive
<1>2. ASSUME NEW g \in Handlers, CheckAccess(g) PROVE FALSE
  <2>1. req[g].op \in {"execute", "approve", "reject", "configure"}
    BY <1>0, <1>2, OpsAssumption DEF CheckAccess, CallShape, Shape
  <2>2. QED
    BY <1>0, <1>2, <2>1 DEF CallTyped, CheckAccess, Goto, AfterAccess
<1>7. ASSUME NEW g \in Handlers, ReadPolicy(g) PROVE FALSE
  BY <1>0, <1>7, Moves DEF CallTyped
<1>8. ASSUME NEW g \in Handlers, ExpirePending(g) \/ Fail(g) \/ CreateRequest(g) PROVE FALSE
  BY <1>0, <1>8 DEF CallTyped, ExpirePending, Fail, CreateRequest, Goto, Return, Idle
<1>3. ASSUME NEW g \in Handlers, FindForDecision(g) \/ Approve(g) \/ Reject(g) PROVE FALSE
  BY <1>0, <1>3 DEF CallTyped, FindForDecision, Approve, Reject, Goto, Return, Idle
<1>11. ASSUME NEW g \in Handlers, VetApprover(g) PROVE FALSE
  BY <1>0, <1>11, Moves DEF CallTyped
<1>9. ASSUME NEW g \in Handlers, MergePolicy(g) PROVE FALSE
  BY <1>0, <1>9, Moves DEF CallTyped
<1>10. ASSUME NEW g \in Handlers, UpsertPolicy(g) PROVE FALSE
  BY <1>0, <1>10 DEF CallTyped, UpsertPolicy, Return, Idle
<1>4. ASSUME NEW g \in Handlers, FindForUse(g) \/ Act(g) \/ MarkExecuted(g) PROVE g = h
  BY <1>0, <1>4 DEF CallTyped, FindForUse, Act, MarkExecuted, Goto, Return
<1>5. ASSUME \/ \E b \in Businesses, u \in Staff : ChangeMembership(b, u)
             \/ Clock
             \/ UNCHANGED vars
      PROVE  FALSE
  BY <1>5 DEF ChangeMembership, Clock, vars
<1>6. QED
  BY <1>1, <1>2, <1>3, <1>4, <1>5, <1>7, <1>8, <1>9, <1>10, <1>11
     DEF Next, Execute, Decide, Configure

\* A handler comes to "vet" or "decide" only by the checks on the request.
LEMMA ReachesDecision ==
  ASSUME TypeOK, [Next]_vars, NEW h \in Handlers,
         req'[h] # req[h], req'[h].pc \in {"vet", "decide"}
  PROVE  FindForDecision(h) \/ VetApprover(h)
<1>0. CallTyped /\ CallShape
  BY DEF TypeOK, Types, CallTyped
<1>1. ASSUME NEW g \in Handlers, BeginExecute(g) \/ BeginDecide(g) \/ BeginConfigure(g) PROVE FALSE
  BY <1>0, <1>1 DEF CallTyped, BeginExecute, BeginDecide, BeginConfigure, Arrive
<1>2. ASSUME NEW g \in Handlers, CheckAccess(g) PROVE FALSE
  <2>1. req[g].op \in {"execute", "approve", "reject", "configure"}
    BY <1>0, <1>2, OpsAssumption DEF CheckAccess, CallShape, Shape
  <2>2. QED
    BY <1>0, <1>2, <2>1 DEF CallTyped, CheckAccess, Goto, AfterAccess
<1>8. ASSUME NEW g \in Handlers, ExpirePending(g) \/ Fail(g) PROVE FALSE
  BY <1>0, <1>8 DEF CallTyped, ExpirePending, Fail, Goto, Return, Idle
<1>3. ASSUME NEW g \in Handlers, CreateRequest(g) \/ FindForUse(g) \/ Act(g) \/ MarkExecuted(g)
      PROVE  FALSE
  BY <1>0, <1>3 DEF CallTyped, CreateRequest, FindForUse, Act, MarkExecuted,
                    AfterChecks, Goto, Return, Idle
<1>11. ASSUME NEW g \in Handlers, ReadPolicy(g) PROVE FALSE
  BY <1>0, <1>11, Moves DEF CallTyped
<1>4. ASSUME NEW g \in Handlers, Approve(g) \/ Reject(g) PROVE FALSE
  BY <1>0, <1>4 DEF CallTyped, Approve, Reject, Return, Idle
<1>9. ASSUME NEW g \in Handlers, MergePolicy(g) PROVE FALSE
  BY <1>0, <1>9, Moves DEF CallTyped
<1>10. ASSUME NEW g \in Handlers, UpsertPolicy(g) PROVE FALSE
  BY <1>0, <1>10 DEF CallTyped, UpsertPolicy, Return, Idle
<1>5. ASSUME NEW g \in Handlers, FindForDecision(g) \/ VetApprover(g) PROVE g = h
  BY <1>0, <1>5 DEF CallTyped, FindForDecision, VetApprover, Goto
<1>6. ASSUME \/ \E b \in Businesses, u \in Staff : ChangeMembership(b, u)
             \/ Clock
             \/ UNCHANGED vars
      PROVE  FALSE
  BY <1>6 DEF ChangeMembership, Clock, vars
<1>7. QED
  BY <1>1, <1>2, <1>3, <1>4, <1>5, <1>6, <1>8, <1>9, <1>10, <1>11
     DEF Next, Execute, Decide, Configure

\* A decision is written by a handler that has passed the checks for it.
LEMMA WhoDecides ==
  ASSUME TypeOK, [Next]_vars, NEW a \in ApprovalIds,
         approvals'[a].status # approvals[a].status,
         approvals'[a].status \in {"APPROVED", "REJECTED"}
  PROVE  \E h \in Handlers :
           /\ req[h].pc = "decide" /\ req[h].id = a
           /\ approvals'[a].status = "APPROVED" => approvals'[a].approvedBy = req[h].actor
           /\ approvals'[a].status = "REJECTED" => approvals'[a].rejectedBy = req[h].actor
<1>0. StoreTypeOK
  BY DEF TypeOK, Types
<1>1. PICK h \in Handlers :
        Approve(h) \/ Reject(h) \/ MarkExecuted(h) \/ CreateRequest(h) \/ ExpirePending(h)
  BY WhoWrites
<1>2. CASE Approve(h)
  BY <1>0, <1>2 DEF Approve, StoreApprove, StoreTypeOK, Approval
<1>3. CASE Reject(h)
  BY <1>0, <1>3 DEF Reject, StoreReject, StoreTypeOK, Approval
<1>4. CASE MarkExecuted(h)
  BY <1>0, <1>4 DEF MarkExecuted, StoreMarkExecuted, StoreTypeOK, Approval
<1>5. CASE CreateRequest(h)
  BY <1>0, <1>5 DEF CreateRequest, Create, StoreTypeOK, Approval
<1>6. CASE ExpirePending(h)
  BY <1>0, <1>6 DEF ExpirePending, StoreExpirePending, StoreTypeOK, Approval
<1>7. QED
  BY <1>1, <1>2, <1>3, <1>4, <1>5, <1>6

\* An approval is marked by a handler that is at that step with it.
LEMMA WhoMarks ==
  ASSUME TypeOK, [Next]_vars, NEW a \in ApprovalIds,
         approvals[a].status # "EXECUTED", approvals'[a].status = "EXECUTED"
  PROVE  \E h \in Handlers : req[h].pc = "mark" /\ req[h].id = a /\ UNCHANGED runs
<1>0. StoreTypeOK
  BY DEF TypeOK, Types
<1>1. PICK h \in Handlers :
        Approve(h) \/ Reject(h) \/ MarkExecuted(h) \/ CreateRequest(h) \/ ExpirePending(h)
  BY WhoWrites
<1>2. CASE Approve(h) \/ Reject(h)
  BY <1>0, <1>2 DEF Approve, StoreApprove, Reject, StoreReject, StoreTypeOK, Approval
<1>4. CASE MarkExecuted(h)
  BY <1>0, <1>4 DEF MarkExecuted, StoreMarkExecuted, StoreTypeOK, Approval
<1>5. CASE CreateRequest(h)
  BY <1>0, <1>5 DEF CreateRequest, Create, StoreTypeOK, Approval
<1>6. CASE ExpirePending(h)
  BY <1>0, <1>6 DEF ExpirePending, StoreExpirePending, StoreTypeOK, Approval
<1>7. QED
  BY <1>1, <1>2, <1>4, <1>5, <1>6

\* The history variables are written by Act alone.
LEMMA WhoActs ==
  ASSUME [Next]_vars
  PROVE  UNCHANGED <<ledger, runs>> \/ \E h \in Handlers : Act(h)
<1>1. ASSUME NEW h \in Handlers,
             \/ BeginExecute(h) \/ BeginDecide(h) \/ BeginConfigure(h)
             \/ CheckAccess(h) \/ ExpirePending(h) \/ Fail(h)
      PROVE  UNCHANGED <<ledger, runs>>
  BY <1>1 DEF BeginExecute, BeginDecide, BeginConfigure, Arrive, CheckAccess, ExpirePending, Fail
<1>2. ASSUME NEW h \in Handlers, Execute(h) PROVE Act(h) \/ UNCHANGED <<ledger, runs>>
  BY <1>2 DEF Execute, ReadPolicy, CreateRequest, FindForUse, MarkExecuted
<1>3. ASSUME NEW h \in Handlers, Decide(h) \/ Configure(h) PROVE UNCHANGED <<ledger, runs>>
  BY <1>3 DEF Decide, Configure, FindForDecision, VetApprover, Approve, Reject,
              MergePolicy, UpsertPolicy
<1>4. ASSUME \/ \E b \in Businesses, u \in Staff : ChangeMembership(b, u)
             \/ Clock
             \/ UNCHANGED vars
      PROVE  UNCHANGED <<ledger, runs>>
  BY <1>4 DEF ChangeMembership, Clock, vars
<1>5. QED
  BY <1>1, <1>2, <1>3, <1>4 DEF Next

----------------------------------------------------------------------------
\* Each part of the inductive invariant, one step later.
LEMMA BlankNext == IInv /\ [Next]_vars => Blank'
<1> SUFFICES ASSUME IInv, [Next]_vars, NEW a \in ApprovalIds
             PROVE  IF approvals'[a].status = "absent" THEN approvals'[a].scope = None
                    ELSE approvals'[a].requestedBy \in Users
  BY DEF Blank
<1>1. Stable(a)
  BY NextStable DEF IInv
<1>2. QED
  BY <1>1 DEF IInv, Blank, Stable

LEMMA SnapshotsNext == IInv /\ [Next]_vars => SnapshotsHold'
<1> SUFFICES ASSUME IInv, [Next]_vars, NEW h \in Handlers
             PROVE  /\ req'[h].pc \in {"act", "mark"} /\ req'[h].id # None =>
                         Authorised(req[h])'
                    /\ req'[h].pc \in {"vet", "decide"} =>
                         approvals'[req'[h].id].requestedBy \in Users \ {req'[h].actor}
  BY DEF SnapshotsHold
<1>0. CallTyped /\ CallShape /\ StoreTypeOK
  BY DEF IInv, TypeOK, Types, CallTyped
<1>1. \A a \in ApprovalIds : Stable(a)
  BY NextStable DEF IInv
<1>2. CASE req'[h] = req[h]
  <2>1. CASE req[h].pc \in {"act", "mark"} /\ req[h].id # None
    <3>1. req[h].id \in ApprovalIds /\ Authorised(req[h])
      BY <2>1, <1>0 DEF CallTyped, IInv, SnapshotsHold
    <3>2. Authorised(req[h])'
      BY <3>1, <1>1, <1>2 DEF Authorised, Stable
    <3>3. QED
      BY <2>1, <3>2, <1>2
  <2>2. CASE req[h].pc \in {"vet", "decide"}
    <3>1. /\ req[h].id \in ApprovalIds
          /\ approvals[req[h].id].requestedBy \in Users \ {req[h].actor}
      BY <2>2, <1>0 DEF IInv, SnapshotsHold, CallShape, Shape
    <3>2. approvals[req[h].id].status # "absent"
      BY <2>2, <1>0, <3>1 DEF IInv, DecidedOnExisting
    <3>3. QED
      BY <2>2, <1>1, <1>2, <3>1, <3>2 DEF Stable
  <2>3. QED
    BY <2>1, <2>2, <1>2
<1>3. CASE req'[h] # req[h] /\ req'[h].pc \in {"act", "mark"} /\ req'[h].id # None
  <2>1. FindForUse(h) \/ Act(h) \/ MarkExecuted(h)
    BY <1>3, ReachesUse DEF IInv
  <2>2. CASE FindForUse(h)
    <3>1. /\ req'[h].id = req[h].id /\ req'[h].scope = req[h].scope
          /\ req'[h].job = req[h].job /\ req'[h].actor = req[h].actor
          /\ UNCHANGED approvals
      BY <2>2, <1>0 DEF FindForUse, Goto, CallTyped
    <3>2. Authorised(req[h])
      BY <2>2 DEF FindForUse, Usable, RequestedByActor, SameJob, Authorised
    <3>3. QED
      BY <1>3, <3>1, <3>2 DEF Authorised
  <2>3. CASE Act(h)
    <3>1. /\ req'[h].id = req[h].id /\ req'[h].scope = req[h].scope
          /\ req'[h].job = req[h].job /\ req'[h].actor = req[h].actor
          /\ UNCHANGED approvals
      BY <2>3, <1>3, <1>0 DEF Act, Goto, Return, Idle, CallTyped
    <3>2. Authorised(req[h])
      BY <2>3, <3>1, <1>3 DEF IInv, SnapshotsHold, Act
    <3>3. QED
      BY <1>3, <3>1, <3>2 DEF Authorised
  <2>4. CASE MarkExecuted(h)
    <3>1. /\ req'[h].id = req[h].id /\ req'[h].scope = req[h].scope
          /\ req'[h].job = req[h].job /\ req'[h].actor = req[h].actor
          /\ req[h].id \in ApprovalIds
      BY <2>4, <1>3, <1>0 DEF MarkExecuted, Goto, Return, Idle, CallTyped, CallShape, Shape
    <3>2. Authorised(req[h])
      BY <2>4, <3>1, <1>3 DEF IInv, SnapshotsHold, MarkExecuted
    <3>3. QED
      BY <1>1, <1>3, <3>1, <3>2 DEF Authorised, Stable
  <2>5. QED
    BY <2>1, <2>2, <2>3, <2>4
<1>4. CASE req'[h] # req[h] /\ req'[h].pc \in {"vet", "decide"}
  <2>1. FindForDecision(h) \/ VetApprover(h)
    BY <1>4, ReachesDecision DEF IInv
  <2>2. CASE FindForDecision(h)
    <3>1. /\ req'[h].id = req[h].id /\ req'[h].actor = req[h].actor
          /\ UNCHANGED approvals /\ req[h].id \in ApprovalIds
      BY <2>2, <1>0 DEF FindForDecision, Goto, CallTyped, CallShape, Shape
    <3>2. approvals[req[h].id].requestedBy \in Users \ {req[h].actor}
      BY <2>2, <3>1 DEF FindForDecision, NotRequester, IInv, Blank
    <3>3. QED
      BY <1>4, <3>1, <3>2
  <2>3. CASE VetApprover(h)
    <3>1. /\ req'[h].id = req[h].id /\ req'[h].actor = req[h].actor
          /\ UNCHANGED approvals
      BY <2>3, Moves DEF VetApprover, IInv
    <3>2. approvals[req[h].id].requestedBy \in Users \ {req[h].actor}
      BY <2>3 DEF VetApprover, IInv, SnapshotsHold
    <3>3. QED
      BY <1>4, <3>1, <3>2
  <2>4. QED
    BY <2>1, <2>2, <2>3
<1>5. QED
  BY <1>2, <1>3, <1>4

LEMMA DecidedOnExistingNext == IInv /\ [Next]_vars => DecidedOnExisting'
<1> SUFFICES ASSUME IInv, [Next]_vars, NEW h \in Handlers, req'[h].pc \in {"vet", "decide"}
             PROVE  approvals'[req'[h].id].status # "absent"
  BY DEF DecidedOnExisting
<1>0. CallTyped /\ CallShape
  BY DEF IInv, TypeOK, Types, CallTyped
<1>1. \A a \in ApprovalIds : Stable(a)
  BY NextStable DEF IInv
<1>2. CASE req'[h] = req[h]
  <2>1. req[h].id \in ApprovalIds /\ approvals[req[h].id].status # "absent"
    BY <1>2, <1>0 DEF IInv, DecidedOnExisting, CallShape, Shape
  <2>2. QED
    BY <1>1, <1>2, <2>1 DEF Stable
<1>3. CASE req'[h] # req[h]
  <2>1. FindForDecision(h) \/ VetApprover(h)
    BY <1>3, ReachesDecision DEF IInv
  <2>2. CASE FindForDecision(h)
    BY <2>2, <1>0 DEF FindForDecision, Goto, CallTyped
  <2>3. CASE VetApprover(h)
    BY <2>3, Moves DEF VetApprover, IInv, DecidedOnExisting
  <2>4. QED
    BY <2>1, <2>2, <2>3
<1>4. QED
  BY <1>2, <1>3

LEMMA SeparationNext == IInv /\ [Next]_vars => SeparationOfDuties'
<1> SUFFICES ASSUME IInv, [Next]_vars, NEW a \in ApprovalIds
             PROVE  /\ approvals'[a].status \in {"APPROVED", "EXECUTED"} =>
                         approvals'[a].approvedBy \in Users \ {approvals'[a].requestedBy}
                    /\ approvals'[a].status = "REJECTED" =>
                         approvals'[a].rejectedBy \in Users \ {approvals'[a].requestedBy}
  BY DEF SeparationOfDuties
<1>1. Stable(a)
  BY NextStable DEF IInv
<1>2. CASE approvals'[a].status = approvals[a].status
  BY <1>1, <1>2 DEF Stable, IInv, SeparationOfDuties
<1>3. CASE approvals'[a].status # approvals[a].status /\ approvals'[a].status \in {"APPROVED", "REJECTED"}
  <2>1. PICK h \in Handlers :
          /\ req[h].pc = "decide" /\ req[h].id = a
          /\ approvals'[a].status = "APPROVED" => approvals'[a].approvedBy = req[h].actor
          /\ approvals'[a].status = "REJECTED" => approvals'[a].rejectedBy = req[h].actor
    BY <1>3, WhoDecides DEF IInv
  <2>2. approvals[a].requestedBy \in Users \ {req[h].actor} /\ req[h].actor \in Users
    BY <2>1 DEF IInv, SnapshotsHold, TypeOK, CallShape, Shape
  <2>3. approvals'[a].requestedBy = approvals[a].requestedBy
    BY <1>1, <1>3 DEF Stable
  <2>4. QED
    BY <1>3, <2>1, <2>2, <2>3
<1>4. CASE approvals'[a].status # approvals[a].status /\ approvals'[a].status = "EXECUTED"
  BY <1>1, <1>4 DEF Stable, IInv, SeparationOfDuties
<1>5. QED
  BY <1>2, <1>3, <1>4

LEMMA ActionsAuthorisedNext == IInv /\ [Next]_vars => ActionsAuthorised'
<1> SUFFICES ASSUME IInv, [Next]_vars, NEW e \in ledger' PROVE Authorised(e)'
  BY DEF ActionsAuthorised
<1>0. /\ ledger \subseteq Ledger /\ CallTyped
      /\ \A a \in ApprovalIds : Stable(a)
  BY NextStable DEF IInv, TypeOK, Types, CallTyped
<1>1. CASE e \in ledger
  <2>1. Authorised(e) /\ e.id \in ApprovalIds
    BY <1>0, <1>1 DEF IInv, ActionsAuthorised, Ledger
  <2>2. QED
    BY <2>1, <1>0 DEF Authorised, Stable
<1>2. CASE e \notin ledger
  <2>1. PICK h \in Handlers : Act(h)
    BY <1>2, WhoActs
  <2>2. /\ req[h].pc = "act" /\ req[h].id # None /\ UNCHANGED approvals
        /\ e = [id |-> req[h].id, scope |-> req[h].scope,
                job |-> req[h].job, actor |-> req[h].actor]
    BY <1>2, <2>1 DEF Act
  <2>3. Authorised(req[h])
    BY <2>2 DEF IInv, SnapshotsHold
  <2>4. QED
    BY <2>2, <2>3 DEF Authorised
<1>3. QED
  BY <1>1, <1>2

\* An approval that was used once stays used.
LEMMA UsedStaysUsed ==
  ASSUME TypeOK, [Next]_vars, NEW a \in ApprovalIds, runs[a] # "none"
  PROVE  runs'[a] # "none"
<1>1. runs \in [ApprovalIds -> {"none", "one", "many"}]
  BY DEF TypeOK, Types
<1>2. ASSUME NEW h \in Handlers, Act(h) PROVE runs'[a] # "none"
  BY <1>1, <1>2 DEF Act
<1>3. QED
  BY <1>2, WhoActs

LEMMA ActBeforeMarkNext == IInv /\ [Next]_vars => ActBeforeMark'
<1> SUFFICES ASSUME IInv, [Next]_vars, NEW h \in Handlers, req'[h].id # None
             PROVE  /\ req'[h].pc = "mark" /\ req'[h].scope = System => runs'[req'[h].id] # "none"
                    /\ req'[h].pc = "act" /\ req'[h].scope # System =>
                         approvals'[req'[h].id].status = "EXECUTED"
  BY DEF ActBeforeMark
<1>0. /\ CallTyped /\ StoreTypeOK /\ runs \in [ApprovalIds -> {"none", "one", "many"}]
      /\ \A a \in ApprovalIds : Stable(a)
  BY NextStable DEF IInv, TypeOK, Types, CallTyped
<1>1. CASE req'[h] = req[h]
  <2>1. req[h].id \in ApprovalIds
    BY <1>0, <1>1 DEF CallTyped
  <2>2. runs[req[h].id] # "none" => runs'[req[h].id] # "none"
    BY <2>1, UsedStaysUsed DEF IInv
  <2>3. approvals[req[h].id].status = "EXECUTED" => approvals'[req[h].id].status = "EXECUTED"
    BY <2>1, <1>0 DEF Stable
  <2>4. QED
    BY <1>1, <2>2, <2>3 DEF IInv, ActBeforeMark
<1>2. CASE req'[h] # req[h] /\ req'[h].pc \in {"act", "mark"}
  <2>1. FindForUse(h) \/ Act(h) \/ MarkExecuted(h)
    BY <1>2, ReachesUse DEF IInv
  <2>2. CASE FindForUse(h)
    BY <2>2, <1>0 DEF FindForUse, AfterChecks, Goto, CallTyped
  <2>3. CASE Act(h)
    <3>1. /\ req'[h].pc = "mark" /\ req'[h].id = req[h].id
          /\ runs' = [runs EXCEPT ![req[h].id] = IF @ = "none" THEN "one" ELSE "many"]
      BY <2>3, <1>2, <1>0 DEF Act, Goto, Return, Idle, CallTyped
    <3>2. req[h].id \in ApprovalIds
      BY <3>1, <1>0 DEF CallTyped
    <3>3. QED
      BY <3>1, <3>2, <1>0
  <2>4. CASE MarkExecuted(h)
    <3>1. /\ req'[h].pc = "act" /\ req'[h].id = req[h].id /\ req[h].pc = "mark"
          /\ StoreMarkExecuted(req[h].id)
      BY <2>4, <1>2, <1>0 DEF MarkExecuted, Goto, Return, Idle, CallTyped
    <3>2. req[h].id \in ApprovalIds
      BY <3>1, <1>0 DEF CallTyped
    <3>3. approvals[req[h].id].status \in {"APPROVED", "EXECUTED"}
      BY <3>1 DEF IInv, SnapshotsHold, Authorised
    <3>4. QED
      BY <3>1, <3>2, <3>3, <1>0 DEF StoreMarkExecuted, StoreTypeOK, Approval
  <2>5. QED
    BY <2>1, <2>2, <2>3, <2>4
<1>3. QED
  BY <1>1, <1>2

LEMMA ExecutionRecordedNext == IInv /\ [Next]_vars => ExecutionRecorded'
<1> SUFFICES ASSUME IInv, [Next]_vars, NEW a \in ApprovalIds
             PROVE  IF approvals'[a].scope = System
                    THEN approvals'[a].status = "EXECUTED" => runs'[a] # "none"
                    ELSE runs'[a] # "none" => approvals'[a].status = "EXECUTED"
  BY DEF ExecutionRecorded
<1>0. Stable(a) /\ runs \in [ApprovalIds -> {"none", "one", "many"}]
  BY NextStable DEF IInv, TypeOK, Types
<1>1. CASE approvals'[a].scope = System
  <2>1. SUFFICES ASSUME approvals'[a].status = "EXECUTED" PROVE runs'[a] # "none"
    BY <1>1
  <2>2. approvals[a].scope = System /\ approvals[a].status # "absent"
    BY <1>0, <1>1, <2>1 DEF Stable
  <2>3. CASE approvals[a].status = "EXECUTED"
    BY <2>2, <2>3, UsedStaysUsed DEF IInv, ExecutionRecorded
  <2>4. CASE approvals[a].status # "EXECUTED"
    <3>1. PICK h \in Handlers : req[h].pc = "mark" /\ req[h].id = a /\ UNCHANGED runs
      BY <2>1, <2>4, WhoMarks DEF IInv
    <3>2. Authorised(req[h]) /\ a # None
      BY <3>1, NoneAssumption DEF IInv, SnapshotsHold
    <3>3. req[h].scope = System
      BY <3>1, <3>2, <2>2 DEF Authorised
    <3>4. QED
      BY <3>1, <3>2, <3>3 DEF IInv, ActBeforeMark
  <2>5. QED
    BY <2>3, <2>4
<1>2. CASE approvals'[a].scope # System
  <2>1. SUFFICES ASSUME runs'[a] # "none" PROVE approvals'[a].status = "EXECUTED"
    BY <1>2
  <2>2. approvals[a].scope # System
    BY <1>0, <1>2, NoneAssumption DEF Stable, IInv, Blank, Scopes
  <2>3. CASE runs[a] # "none"
    BY <1>0, <2>2, <2>3 DEF IInv, ExecutionRecorded, Stable
  <2>4. CASE runs[a] = "none"
    <3>1. PICK h \in Handlers : Act(h)
      BY <2>1, <2>4, WhoActs
    <3>2. req[h].pc = "act" /\ req[h].id = a /\ a # None /\ UNCHANGED approvals
      BY <1>0, <2>1, <2>4, <3>1, NoneAssumption DEF Act
    <3>3. Authorised(req[h])
      BY <3>2 DEF IInv, SnapshotsHold
    <3>4. req[h].scope # System
      BY <3>2, <3>3, <2>2 DEF Authorised
    <3>5. QED
      BY <3>2, <3>4 DEF IInv, ActBeforeMark
  <2>5. QED
    BY <2>3, <2>4
<1>3. QED
  BY <1>1, <1>2

LEMMA IInvNext == IInv /\ [Next]_vars => IInv'
<1> SUFFICES ASSUME IInv, [Next]_vars PROVE IInv'
  OBVIOUS
<1>1. TypeOK'
  BY TypeOKNext DEF IInv
<1>2. QED
  BY <1>1, BlankNext, DecidedOnExistingNext, SnapshotsNext, SeparationNext,
     ActionsAuthorisedNext, ActBeforeMarkNext, ExecutionRecordedNext DEF IInv

LEMMA Inductive == Spec => []IInv
  BY SafeInit, IInvNext, PTL DEF Spec

----------------------------------------------------------------------------
\* No request is decided by its requester, through either service and under
\* any interleaving of their handlers (SeparationOfDuties).
THEOREM DecidedByAnother == Spec => []SeparationOfDuties
<1>1. IInv => SeparationOfDuties
  BY DEF IInv
<1>2. QED
  BY <1>1, Inductive, PTL

\* What is carried out under an approval is what its requester asked for and
\* somebody granted (ActionsAuthorised), and a handler's earlier checks still
\* hold when it acts (SnapshotsHold).
THEOREM OnlyAuthorisedActions == Spec => [](ActionsAuthorised /\ SnapshotsHold)
<1>1. IInv => ActionsAuthorised /\ SnapshotsHold
  BY DEF IInv
<1>2. QED
  BY <1>1, Inductive, PTL

\* The order of action and mark under crashes (ExecutionRecorded).
THEOREM ActionsRecorded == Spec => []ExecutionRecorded
<1>1. IInv => ExecutionRecorded
  BY DEF IInv
<1>2. QED
  BY <1>1, Inductive, PTL

----------------------------------------------------------------------------
(***************************************************************************)
(* Who may decide, and when.  These invariants rest on IInv and on what a  *)
(* handler carries from its arrival (AdminsAct) or from the policy it read *)
(* (PoliciesHeld).                                                         *)
(***************************************************************************)
\* Requests that exist have a scope, those that do not have not been granted.
Filled ==
  \A a \in ApprovalIds :
    IF approvals[a].status = "absent" THEN approvals[a].approvedBy = None
                                      ELSE approvals[a].scope \in Scopes

\* Calls of the scope SYSTEM are those of administrators.
AdminsAct == \A h \in Handlers :
  req[h].pc # "idle" /\ req[h].scope = System => req[h].actor \in Admins

\* A policy on its way to the database, or to a request, names its approvers.
PoliciesHeld == \A h \in Handlers :
  /\ req[h].pc = "upsert" => NamesApprovers(req[h].policy, req[h].policy)
  /\ req[h].pc = "create" => req[h].policy.roles # {}

Rules == Filled /\ AdminsAct /\ PoliciesHeld /\ ApproversNamed /\ QualifiedDecision /\ DecidedInTime

LEMMA RulesInit == Init => Rules
<1> SUFFICES ASSUME Init PROVE Rules
  OBVIOUS
<1>1. Filled /\ DecidedInTime
  BY DEF Init, StoreInit, Absent, Filled, DecidedInTime
<1>2. AdminsAct /\ PoliciesHeld /\ QualifiedDecision
  BY DEF Init, Idle, AdminsAct, PoliciesHeld, QualifiedDecision
<1>3. ApproversNamed
  BY PolicyAssumption DEF Init, StoreInit, Absent, ApproversNamed
<1> QED BY <1>1, <1>2, <1>3 DEF Rules

\* The document of a request, one step later.
Wrote(a) ==
  LET old == approvals[a]
      new == approvals'[a]
  IN \/ new = old
     \/ /\ old.status = "absent" /\ new.status = "PENDING" /\ new.approvedBy = None
        /\ \E h \in Handlers :
             /\ req[h].pc = "create" /\ new.scope = req[h].scope /\ new.requestedBy = req[h].actor
             /\ new.required = req[h].policy.roles
     \/ /\ old.status = "PENDING" /\ new.status = "APPROVED" /\ old.expiresAt > now
        /\ new.approvedAt = now /\ new.expiresAt = old.expiresAt
     \/ /\ old.status \in {"PENDING", "APPROVED"} /\ new.status \in {"REJECTED", "EXECUTED"}
        /\ new.approvedBy = old.approvedBy
        /\ new.approvedAt = old.approvedAt /\ new.expiresAt = old.expiresAt
     \/ /\ old.status = "PENDING" /\ new.status = "EXPIRED" /\ old.expiresAt <= now
        /\ new.approvedBy = old.approvedBy
        /\ new.approvedAt = old.approvedAt /\ new.expiresAt = old.expiresAt

LEMMA NextWrote == ASSUME TypeOK, [Next]_vars, NEW a \in ApprovalIds PROVE Wrote(a)
<1>0. StoreTypeOK
  BY DEF TypeOK, Types
<1>1. CASE approvals' = approvals
  BY <1>1 DEF Wrote
<1>2. CASE approvals' # approvals
  <2>1. PICK h \in Handlers :
          Approve(h) \/ Reject(h) \/ MarkExecuted(h) \/ CreateRequest(h) \/ ExpirePending(h)
    BY <1>2, WhoWrites
  <2>2. CASE Approve(h)
    BY <1>0, <2>2 DEF Approve, StoreApprove, Approvable, StoreTypeOK, Approval, Wrote
  <2>3. CASE Reject(h)
    BY <1>0, <2>3 DEF Reject, StoreReject, Rejectable, StoreTypeOK, Approval, Wrote
  <2>4. CASE MarkExecuted(h)
    BY <1>0, <2>4 DEF MarkExecuted, StoreMarkExecuted, StoreTypeOK, Approval, Wrote
  <2>5. CASE CreateRequest(h)
    BY <1>0, <2>5 DEF CreateRequest, Create, StoreTypeOK, Approval, Wrote
  <2>6. CASE ExpirePending(h)
    BY <1>0, <2>6 DEF ExpirePending, StoreExpirePending, Stale, StoreTypeOK, Approval, Wrote
  <2> QED BY <2>1, <2>2, <2>3, <2>4, <2>5, <2>6
<1> QED BY <1>1, <1>2

LEMMA FilledNext == IInv /\ Rules /\ [Next]_vars => Filled'
<1> SUFFICES ASSUME IInv, Rules, [Next]_vars, NEW a \in ApprovalIds
             PROVE  IF approvals'[a].status = "absent" THEN approvals'[a].approvedBy = None
                    ELSE approvals'[a].scope \in Scopes
  BY DEF Filled
<1>1. Stable(a) /\ Wrote(a)
  BY NextStable, NextWrote DEF IInv
<1>2. \A h \in Handlers : req[h].pc = "create" => req[h].scope \in Scopes
  BY DEF IInv, TypeOK, CallShape, Shape
<1> QED BY <1>1, <1>2 DEF Stable, Wrote, Rules, Filled

\* The clock never runs back.
LEMMA TimeMoves == ASSUME TypeOK, [Next]_vars PROVE now <= now'
<1>0. now \in Nat
  BY DEF TypeOK, Types, StoreTypeOK
<1>1. ASSUME NEW h \in Handlers,
             \/ BeginExecute(h) \/ BeginDecide(h) \/ BeginConfigure(h)
             \/ CheckAccess(h) \/ ExpirePending(h) \/ Fail(h)
      PROVE  now' = now
  BY <1>1 DEF BeginExecute, BeginDecide, BeginConfigure, Arrive, CheckAccess, ExpirePending,
              StoreExpirePending, Fail
<1>2. ASSUME NEW h \in Handlers, Execute(h) PROVE now' = now
  BY <1>2 DEF Execute, ReadPolicy, CreateRequest, Create, FindForUse, Act, MarkExecuted, StoreMarkExecuted
<1>3. ASSUME NEW h \in Handlers, Decide(h) \/ Configure(h) PROVE now' = now
  BY <1>3 DEF Decide, Configure, FindForDecision, VetApprover, Approve, StoreApprove, Reject,
              StoreReject, MergePolicy, UpsertPolicy
<1>4. ASSUME \/ \E b \in Businesses, u \in Staff : ChangeMembership(b, u)
             \/ UNCHANGED vars
      PROVE  now' = now
  BY <1>4 DEF ChangeMembership, vars
<1>5. ASSUME Clock PROVE now' = now + 1
  BY <1>5 DEF Clock, Tick
<1> QED BY <1>0, <1>1, <1>2, <1>3, <1>4, <1>5 DEF Next

LEMMA DecidedInTimeNext == IInv /\ Rules /\ [Next]_vars => DecidedInTime'
<1> SUFFICES ASSUME IInv, Rules, [Next]_vars, NEW a \in ApprovalIds
             PROVE  /\ approvals'[a].approvedBy # None => approvals'[a].approvedAt < approvals'[a].expiresAt
                    /\ approvals'[a].status = "EXPIRED" => approvals'[a].expiresAt <= now'
  BY DEF DecidedInTime
<1>1. Wrote(a)
  BY NextWrote DEF IInv
<1>2. now \in Nat /\ now' \in Nat /\ approvals[a].expiresAt \in Nat
  BY TypeOKNext DEF IInv, TypeOK, Types, StoreTypeOK, Approval
<1>3. now <= now'
  BY TimeMoves DEF IInv
<1>4. approvals[a].approvedBy # None => approvals[a].approvedAt < approvals[a].expiresAt
  BY DEF Rules, DecidedInTime
<1>5. approvals[a].status = "EXPIRED" => approvals[a].expiresAt <= now
  BY DEF Rules, DecidedInTime
<1>6. approvals[a].status = "absent" => approvals[a].approvedBy = None
  BY DEF Rules, Filled
<1>7. Stable(a)
  BY NextStable DEF IInv
<1> QED BY <1>1, <1>2, <1>3, <1>4, <1>5, <1>6, <1>7 DEF Wrote, Stable

----------------------------------------------------------------------------
\* A call keeps its scope and actor from its arrival until it returns.
LEMMA NextKeeps ==
  ASSUME TypeOK, [Next]_vars, NEW h \in Handlers
  PROVE  \/ req'[h].pc = "idle"
         \/ req[h].pc = "idle" /\ (req'[h].scope = System => req'[h].actor \in Admins)
         \/ req[h].pc # "idle" /\ req'[h].scope = req[h].scope /\ req'[h].actor = req[h].actor
<1> DEFINE Kept(g) == /\ req[g].pc # "idle"
                      /\ req'[g].scope = req[g].scope /\ req'[g].actor = req[g].actor
<1>0. CallTyped
  BY DEF TypeOK, Types, CallTyped
<1>1. CASE req'[h] = req[h]
  BY <1>1
<1>2. CASE req'[h] # req[h]
  <2>1. ASSUME NEW g \in Handlers, BeginExecute(g) \/ BeginDecide(g) \/ BeginConfigure(g)
        PROVE  req[h].pc = "idle" /\ (req'[h].scope = System => req'[h].actor \in Admins)
    BY <1>0, <1>2, <2>1 DEF CallTyped, BeginExecute, BeginDecide, BeginConfigure, Arrive, Actors
  <2>2. ASSUME NEW g \in Handlers,
               \/ CheckAccess(g) \/ ExpirePending(g) \/ FindForUse(g) \/ FindForDecision(g)
        PROVE  Kept(h)
    BY <1>0, <1>2, <2>2 DEF CallTyped, CheckAccess, ExpirePending, FindForUse, FindForDecision, Goto
  <2>3. ASSUME NEW g \in Handlers, Act(g) \/ MarkExecuted(g) PROVE Kept(h) \/ req'[h].pc = "idle"
    BY <1>0, <1>2, <2>3 DEF CallTyped, Act, MarkExecuted, Goto, Return, Idle
  <2>4. ASSUME NEW g \in Handlers,
               Fail(g) \/ CreateRequest(g) \/ Approve(g) \/ Reject(g) \/ UpsertPolicy(g)
        PROVE  req'[h].pc = "idle"
    BY <1>0, <1>2, <2>4 DEF CallTyped, Fail, CreateRequest, Approve, Reject, UpsertPolicy, Return, Idle
  <2>5. ASSUME NEW g \in Handlers, ReadPolicy(g) \/ VetApprover(g) \/ MergePolicy(g) PROVE Kept(h)
    <3>1. g = h /\ req[h].pc # "idle"
      BY <1>2, <2>5, Moves DEF ReadPolicy, VetApprover, MergePolicy
    <3>2. CASE ReadPolicy(h)
      <4> DEFINE p == policy[req[h].scope][req[h].job.key]
                 new == IF ~Gated(p) THEN [req[h] EXCEPT !.pc = "act", !.id = None]
                        ELSE IF Presented(h) THEN [req[h] EXCEPT !.pc = "find"]
                        ELSE [req[h] EXCEPT !.pc = "create", !.policy = p]
      <4>1. req' = [req EXCEPT ![h] = new]
        BY <3>2 DEF ReadPolicy
      <4>2. new.scope = req[h].scope /\ new.actor = req[h].actor
        BY <1>0 DEF CallTyped
      <4> QED BY <1>0, <3>1, <4>1, <4>2 DEF CallTyped
    <3>3. CASE VetApprover(h)
      <4> DEFINE new == [req[h] EXCEPT !.pc = "decide", !.role = member[req[h].scope][req[h].actor].role]
      <4>1. req' = [req EXCEPT ![h] = new]
        BY <3>3 DEF VetApprover
      <4>2. new.scope = req[h].scope /\ new.actor = req[h].actor
        BY <1>0 DEF CallTyped
      <4> QED BY <1>0, <3>1, <4>1, <4>2 DEF CallTyped
    <3>4. CASE MergePolicy(h)
      <4>1. PICK p : req' = [req EXCEPT ![h] = [req[h] EXCEPT !.pc = "upsert", !.policy = p]]
        BY <3>4 DEF MergePolicy
      <4> DEFINE new == [req[h] EXCEPT !.pc = "upsert", !.policy = p]
      <4>2. new.scope = req[h].scope /\ new.actor = req[h].actor
        BY <1>0 DEF CallTyped
      <4> QED BY <1>0, <3>1, <4>1, <4>2 DEF CallTyped
    <3> QED BY <2>5, <3>1, <3>2, <3>3, <3>4
  <2>6. ASSUME \/ \E b \in Businesses, u \in Staff : ChangeMembership(b, u)
               \/ Clock
               \/ UNCHANGED vars
        PROVE  FALSE
    BY <1>2, <2>6 DEF ChangeMembership, Clock, vars
  <2> HIDE DEF Kept
  <2>7. \/ req'[h].pc = "idle" \/ Kept(h)
        \/ req[h].pc = "idle" /\ (req'[h].scope = System => req'[h].actor \in Admins)
    BY <2>1, <2>2, <2>3, <2>4, <2>5, <2>6 DEF Next, Execute, Decide, Configure
  <2> QED BY <2>7 DEF Kept
<1> QED BY <1>1, <1>2

LEMMA AdminsActNext == IInv /\ Rules /\ [Next]_vars => AdminsAct'
<1> SUFFICES ASSUME IInv, Rules, [Next]_vars, NEW h \in Handlers,
                    req'[h].pc # "idle", req'[h].scope = System
             PROVE  req'[h].actor \in Admins
  BY DEF AdminsAct
<1> QED BY NextKeeps DEF IInv, Rules, AdminsAct

\* A policy is taken along by the two steps that read one.
LEMMA ReachesPolicy ==
  ASSUME TypeOK, [Next]_vars, NEW h \in Handlers,
         req'[h] # req[h], req'[h].pc \in {"create", "upsert"}
  PROVE  ReadPolicy(h) \/ MergePolicy(h)
<1>0. CallTyped /\ CallShape
  BY DEF TypeOK, Types, CallTyped
<1>1. ASSUME NEW g \in Handlers, BeginExecute(g) \/ BeginDecide(g) \/ BeginConfigure(g) PROVE FALSE
  BY <1>0, <1>1 DEF CallTyped, BeginExecute, BeginDecide, BeginConfigure, Arrive
<1>2. ASSUME NEW g \in Handlers, CheckAccess(g) PROVE FALSE
  <2>1. req[g].op \in {"execute", "approve", "reject", "configure"}
    BY <1>0, <1>2, OpsAssumption DEF CheckAccess, CallShape, Shape
  <2> QED BY <1>0, <1>2, <2>1 DEF CallTyped, CheckAccess, Goto, AfterAccess
<1>3. ASSUME NEW g \in Handlers, ExpirePending(g) \/ Fail(g) PROVE FALSE
  BY <1>0, <1>3 DEF CallTyped, ExpirePending, Fail, Goto, Return, Idle
<1>4. ASSUME NEW g \in Handlers, CreateRequest(g) \/ FindForUse(g) \/ Act(g) \/ MarkExecuted(g)
      PROVE  FALSE
  BY <1>0, <1>4 DEF CallTyped, CreateRequest, FindForUse, Act, MarkExecuted,
                    AfterChecks, Goto, Return, Idle
<1>5. ASSUME NEW g \in Handlers, FindForDecision(g) \/ Approve(g) \/ Reject(g) \/ UpsertPolicy(g)
      PROVE  FALSE
  BY <1>0, <1>5 DEF CallTyped, FindForDecision, Approve, Reject, UpsertPolicy, Goto, Return, Idle
<1>6. ASSUME NEW g \in Handlers, VetApprover(g) PROVE FALSE
  BY <1>6, Moves
<1>7. ASSUME NEW g \in Handlers, ReadPolicy(g) \/ MergePolicy(g) PROVE g = h
  BY <1>7, Moves
<1>8. ASSUME \/ \E b \in Businesses, u \in Staff : ChangeMembership(b, u)
             \/ Clock
             \/ UNCHANGED vars
      PROVE  FALSE
  BY <1>8 DEF ChangeMembership, Clock, vars
<1> QED
  BY <1>1, <1>2, <1>3, <1>4, <1>5, <1>6, <1>7, <1>8 DEF Next, Execute, Decide, Configure

LEMMA PoliciesHeldNext == IInv /\ Rules /\ [Next]_vars => PoliciesHeld'
<1> SUFFICES ASSUME IInv, Rules, [Next]_vars, NEW h \in Handlers
             PROVE  /\ req'[h].pc = "upsert" => NamesApprovers(req'[h].policy, req'[h].policy)
                    /\ req'[h].pc = "create" => req'[h].policy.roles # {}
  BY DEF PoliciesHeld, NamesApprovers
<1>0. CallTyped /\ CallShape /\ policy \in [Scopes -> [Keys -> Policy]]
  BY DEF IInv, TypeOK, Types, CallTyped
<1>1. CASE req'[h] = req[h]
  BY <1>1 DEF Rules, PoliciesHeld, NamesApprovers
<1>2. CASE req'[h] # req[h] /\ req'[h].pc \in {"create", "upsert"}
  <2>1. ReadPolicy(h) \/ MergePolicy(h)
    BY <1>2, ReachesPolicy DEF IInv
  <2>2. CASE ReadPolicy(h)
    <3> DEFINE p == policy[req[h].scope][req[h].job.key]
               new == IF ~Gated(p) THEN [req[h] EXCEPT !.pc = "act", !.id = None]
                      ELSE IF Presented(h) THEN [req[h] EXCEPT !.pc = "find"]
                      ELSE [req[h] EXCEPT !.pc = "create", !.policy = p]
    <3>1. req' = [req EXCEPT ![h] = new]
      BY <2>2 DEF ReadPolicy
    <3>2. new.pc # "upsert" /\ (new.pc = "create" => new.policy = p /\ Gated(p))
      BY <1>0 DEF CallTyped
    <3>3. req[h].scope \in Scopes /\ req[h].job \in Jobs
      BY <2>2, <1>0 DEF ReadPolicy, CallShape, Shape
    <3>4. Gated(p) => p.roles # {}
      BY <3>3, JobsAssumption DEF Rules, ApproversNamed, Gated
    <3> QED BY <1>0, <3>1, <3>2, <3>4 DEF CallTyped
  <2>3. CASE MergePolicy(h)
    <3>1. PICK p : /\ req' = [req EXCEPT ![h] = [req[h] EXCEPT !.pc = "upsert", !.policy = p]]
                   /\ NamesApprovers(p, p)
      BY <2>3 DEF MergePolicy, NamesApprovers
    <3> DEFINE new == [req[h] EXCEPT !.pc = "upsert", !.policy = p]
    <3>2. new.pc = "upsert" /\ new.policy = p
      BY <1>0 DEF CallTyped
    <3> QED BY <1>0, <3>1, <3>2 DEF CallTyped
  <2> QED BY <2>1, <2>2, <2>3
<1> QED BY <1>1, <1>2

\* The policies are written by the last step of a configuration.
LEMMA WhoConfigures ==
  ASSUME [Next]_vars, policy' # policy
  PROVE  \E h \in Handlers : UpsertPolicy(h)
<1>1. ASSUME NEW h \in Handlers,
             \/ BeginExecute(h) \/ BeginDecide(h) \/ BeginConfigure(h)
             \/ CheckAccess(h) \/ ExpirePending(h) \/ Fail(h)
      PROVE  FALSE
  BY <1>1 DEF BeginExecute, BeginDecide, BeginConfigure, Arrive, CheckAccess, ExpirePending, Fail
<1>2. ASSUME NEW h \in Handlers, Execute(h) PROVE FALSE
  BY <1>2 DEF Execute, ReadPolicy, CreateRequest, FindForUse, Act, MarkExecuted
<1>3. ASSUME NEW h \in Handlers, Decide(h) PROVE FALSE
  BY <1>3 DEF Decide, FindForDecision, VetApprover, Approve, Reject
<1>4. ASSUME NEW h \in Handlers, MergePolicy(h) PROVE FALSE
  BY <1>4 DEF MergePolicy
<1>5. ASSUME \/ \E b \in Businesses, u \in Staff : ChangeMembership(b, u)
             \/ Clock
             \/ UNCHANGED vars
      PROVE  FALSE
  BY <1>5 DEF ChangeMembership, Clock, vars
<1> QED BY <1>1, <1>2, <1>3, <1>4, <1>5 DEF Next, Configure

LEMMA ApproversNamedNext == IInv /\ Rules /\ [Next]_vars => ApproversNamed'
<1> SUFFICES ASSUME IInv, Rules, [Next]_vars PROVE ApproversNamed'
  OBVIOUS
<1>1. ASSUME NEW s \in Scopes, NEW k \in Keys, policy'[s][k].mode = "second_approval"
      PROVE  policy'[s][k].roles # {}
  <2>1. CASE policy' = policy
    BY <1>1, <2>1 DEF Rules, ApproversNamed
  <2>2. CASE policy' # policy
    <3>1. PICK h \in Handlers : UpsertPolicy(h)
      BY <2>2, WhoConfigures
    <3>2. NamesApprovers(req[h].policy, req[h].policy)
      BY <3>1 DEF UpsertPolicy, Rules, PoliciesHeld
    <3>3. policy \in [Scopes -> [Keys -> Policy]]
      BY DEF IInv, TypeOK, Types
    <3>4. policy'[s][k] = req[h].policy \/ policy'[s][k] = policy[s][k]
      BY <3>1, <3>3 DEF UpsertPolicy
    <3> QED BY <1>1, <3>2, <3>4 DEF NamesApprovers, Rules, ApproversNamed
  <2> QED BY <2>1, <2>2
<1>2. ASSUME NEW a \in ApprovalIds, approvals'[a].status # "absent"
      PROVE  approvals'[a].required # {}
  <2>1. Stable(a) /\ Wrote(a)
    BY NextStable, NextWrote DEF IInv
  <2>2. CASE approvals[a].status # "absent"
    BY <2>1, <2>2 DEF Stable, Rules, ApproversNamed
  <2>3. CASE approvals[a].status = "absent"
    BY <1>2, <2>1, <2>3 DEF Wrote, Rules, PoliciesHeld
  <2> QED BY <2>2, <2>3
<1> QED BY <1>1, <1>2 DEF ApproversNamed

LEMMA QualifiedDecisionNext == IInv /\ Rules /\ [Next]_vars => QualifiedDecision'
<1> SUFFICES ASSUME IInv, Rules, [Next]_vars, NEW h \in Handlers, req'[h].pc = "decide"
             PROVE  \/ req'[h].role \in approvals'[req'[h].id].required
                    \/ req'[h].actor \in Admins /\ approvals'[req'[h].id].scope \in Businesses
  BY DEF QualifiedDecision
<1>0. /\ CallTyped /\ CallShape
      /\ \A a \in ApprovalIds : Stable(a)
  BY NextStable DEF IInv, TypeOK, Types, CallTyped
<1>1. CASE req'[h] = req[h]
  <2>1. req[h].id \in ApprovalIds /\ approvals[req[h].id].status # "absent"
    BY <1>1, <1>0 DEF IInv, DecidedOnExisting, CallShape, Shape
  <2> QED BY <1>0, <1>1, <2>1 DEF Stable, Rules, QualifiedDecision
<1>2. CASE req'[h] # req[h]
  <2>1. FindForDecision(h) \/ VetApprover(h)
    BY <1>2, ReachesDecision DEF IInv
  <2>2. CASE FindForDecision(h)
    <3> DEFINE a == req[h].id
    <3>1. /\ req'[h].id = a /\ req'[h].actor = req[h].actor /\ req'[h].role = req[h].role
          /\ UNCHANGED approvals /\ a \in ApprovalIds
          /\ req[h].scope = System /\ approvals[a].status = "PENDING"
          /\ RoleAdmitted(req[h].role, RequiredSystemRoles(a))
          /\ req[h].pc = "find"
      BY <2>2, <1>0 DEF FindForDecision, Goto, CallTyped, CallShape, Shape
    <3>2. req[h].actor \in Admins /\ approvals[a].required # {} /\ approvals[a].scope \in Scopes
      BY <3>1 DEF Rules, AdminsAct, ApproversNamed, Filled
    <3> QED BY <3>1, <3>2 DEF RoleAdmitted, RequiredSystemRoles, Scopes
  <2>3. CASE VetApprover(h)
    <3> DEFINE r == member[req[h].scope][req[h].actor].role
               new == [req[h] EXCEPT !.pc = "decide", !.role = r]
    <3>1. /\ req' = [req EXCEPT ![h] = new] /\ UNCHANGED approvals /\ req[h].pc = "vet"
          /\ RoleAdmitted(r, approvals[req[h].id].required)
      BY <2>3 DEF VetApprover
    <3>2. new.role = r /\ new.id = req[h].id
      BY <1>0 DEF CallTyped
    <3>3. req[h].id \in ApprovalIds /\ approvals[req[h].id].status # "absent"
      BY <3>1, <1>0 DEF IInv, DecidedOnExisting, CallShape, Shape
    <3>4. approvals[req[h].id].required # {}
      BY <3>3 DEF Rules, ApproversNamed
    <3> QED BY <1>0, <3>1, <3>2, <3>4 DEF RoleAdmitted, CallTyped
  <2> QED BY <2>1, <2>2, <2>3
<1> QED BY <1>1, <1>2

LEMMA RulesNext == IInv /\ Rules /\ [Next]_vars => Rules'
  BY FilledNext, AdminsActNext, PoliciesHeldNext, ApproversNamedNext, QualifiedDecisionNext,
     DecidedInTimeNext DEF Rules

LEMMA RulesKept == Spec => []Rules
  BY RulesInit, RulesNext, Inductive, PTL DEF Spec

\* Nothing is granted at or after its expiry, nothing expires before it
\* (DecidedInTime), whatever time passes between a handler's checks and its write.
THEOREM GrantedInTime == Spec => []DecidedInTime
<1>1. Rules => DecidedInTime
  BY DEF Rules
<1> QED BY <1>1, RulesKept, PTL

\* A policy in force names its approvers, across read-merge-write updates that
\* overlap, and so does every request (ApproversNamed).
THEOREM ApproversAlwaysNamed == Spec => []ApproversNamed
<1>1. Rules => ApproversNamed
  BY DEF Rules
<1> QED BY <1>1, RulesKept, PTL

\* Who writes a decision holds a role the request admits, administrators on the
\* requests of businesses excepted (QualifiedDecision).
THEOREM DecidersQualified == Spec => []QualifiedDecision
<1>1. Rules => QualifiedDecision
  BY DEF Rules
<1> QED BY <1>1, RulesKept, PTL

----------------------------------------------------------------------------
\* The abstract stage of each status.
LEMMA Stages ==
  /\ StageOf("absent") = "none" /\ StageOf("PENDING") = "open"
  /\ StageOf("APPROVED") = "granted" /\ StageOf("REJECTED") = "refused"
  /\ StageOf("EXPIRED") = "lapsed" /\ StageOf("EXECUTED") = "closed"
<1>1. StageOf("absent") = "none" /\ StageOf("PENDING") = "open"
  BY Zenon DEF StageOf
<1>2. StageOf("APPROVED") = "granted" /\ StageOf("REJECTED") = "refused"
  BY Zenon DEF StageOf
<1>3. StageOf("EXPIRED") = "lapsed" /\ StageOf("EXECUTED") = "closed"
  BY Zenon DEF StageOf
<1> QED BY <1>1, <1>2, <1>3

\* A step that leaves the documents and the histories alone is a stutter of the promise.
LEMMA PromiseStutters ==
  ASSUME UNCHANGED <<approvals, runs>>
  PROVE  UNCHANGED Promise!dcVars
  BY DEF Promise!dcVars

LEMMA PromiseCreates ==
  ASSUME IInv, Rules, NEW h \in Handlers, CreateRequest(h)
  PROVE  Promise!Next
<1>1. PICK a \in ApprovalIds :
        Create(a, req[h].scope, req[h].job, req[h].actor, req[h].policy.roles)
  BY DEF CreateRequest
<1>2. approvals \in [ApprovalIds -> Approval]
  BY DEF IInv, TypeOK, Types, StoreTypeOK
<1>3. req[h].actor \in Users /\ UNCHANGED runs
  BY DEF CreateRequest, IInv, TypeOK, CallShape, Shape
<1>4. /\ approvals[a].status = "absent" /\ approvals'[a].status = "PENDING"
      /\ approvals'[a].requestedBy = req[h].actor
      /\ approvals'[a].approvedBy = approvals[a].approvedBy
      /\ \A b \in ApprovalIds \ {a} : approvals'[b] = approvals[b]
  BY <1>1, <1>2 DEF Create, Rules, Filled
<1>5. Promise!Ask(a, req[h].actor)
  BY <1>3, <1>4, Stages DEF Promise!Ask
<1> QED BY <1>1, <1>3, <1>5 DEF Promise!Next, Promise!Ask

LEMMA PromiseApproves ==
  ASSUME IInv, NEW h \in Handlers, Approve(h)
  PROVE  Promise!Next
<1> DEFINE a == req[h].id
           u == req[h].actor
<1>1. approvals \in [ApprovalIds -> Approval]
  BY DEF IInv, TypeOK, Types, StoreTypeOK
<1>2. u \in Users /\ a \in ApprovalIds /\ UNCHANGED runs /\ u # approvals[a].requestedBy
  BY DEF Approve, IInv, TypeOK, CallShape, Shape, SnapshotsHold
<1>3. /\ approvals[a].status = "PENDING" /\ approvals'[a].status = "APPROVED"
      /\ approvals'[a].requestedBy = approvals[a].requestedBy
      /\ approvals'[a].approvedBy = u
      /\ \A b \in ApprovalIds \ {a} : approvals'[b] = approvals[b]
  BY <1>1, <1>2 DEF Approve, StoreApprove, Approvable, Approval
<1> HIDE DEF a, u
<1>4. Promise!Grant(a, u)
  BY <1>2, <1>3, Stages DEF Promise!Grant
<1> QED BY <1>2, <1>4 DEF Promise!Next, Promise!Grant

LEMMA PromiseRejects ==
  ASSUME IInv, NEW h \in Handlers, Reject(h)
  PROVE  Promise!Next
<1> DEFINE a == req[h].id
<1>1. approvals \in [ApprovalIds -> Approval]
  BY DEF IInv, TypeOK, Types, StoreTypeOK
<1>2. a \in ApprovalIds /\ UNCHANGED runs
  BY DEF Reject, IInv, TypeOK, CallShape, Shape
<1>3. /\ approvals[a].status = "PENDING" /\ approvals'[a].status = "REJECTED"
      /\ approvals'[a].requestedBy = approvals[a].requestedBy
      /\ approvals'[a].approvedBy = approvals[a].approvedBy
      /\ \A b \in ApprovalIds \ {a} : approvals'[b] = approvals[b]
  BY <1>1, <1>2 DEF Reject, StoreReject, Rejectable, Approval
<1> HIDE DEF a
<1>4. Promise!Refuse(a)
  BY <1>2, <1>3, Stages DEF Promise!Refuse
<1> QED BY <1>2, <1>4 DEF Promise!Next

LEMMA PromiseExpires ==
  ASSUME IInv, NEW h \in Handlers, ExpirePending(h)
  PROVE  Promise!Next
<1> DEFINE S == {a \in ApprovalIds : Stale(a)}
<1>1. approvals \in [ApprovalIds -> Approval] /\ UNCHANGED runs
  BY DEF ExpirePending, IInv, TypeOK, Types, StoreTypeOK
<1>2. \A a \in S : approvals[a].status = "PENDING" /\ approvals'[a].status = "EXPIRED"
  BY <1>1 DEF ExpirePending, StoreExpirePending, Stale, Approval
<1>3. \A a \in ApprovalIds \ S : approvals'[a] = approvals[a]
  BY DEF ExpirePending, StoreExpirePending
<1>4. \A a \in ApprovalIds : /\ approvals'[a].requestedBy = approvals[a].requestedBy
                             /\ approvals'[a].approvedBy = approvals[a].approvedBy
  BY <1>1 DEF ExpirePending, StoreExpirePending, Approval
<1>5. S \in SUBSET ApprovalIds
  OBVIOUS
<1> HIDE DEF S
<1>6. Promise!Lapse(S)
  BY <1>1, <1>2, <1>3, <1>4, <1>5, Stages DEF Promise!Lapse
<1> QED BY <1>5, <1>6 DEF Promise!Next

LEMMA PromiseMarks ==
  ASSUME IInv, NEW h \in Handlers, MarkExecuted(h), approvals' # approvals
  PROVE  Promise!Next
<1> DEFINE a == req[h].id
<1>1. approvals \in [ApprovalIds -> Approval]
  BY DEF IInv, TypeOK, Types, StoreTypeOK
<1>2. a \in ApprovalIds /\ UNCHANGED runs
  BY DEF MarkExecuted, IInv, TypeOK, CallShape, Shape
<1>3. /\ approvals[a].status = "APPROVED" /\ approvals'[a].status = "EXECUTED"
      /\ approvals'[a].requestedBy = approvals[a].requestedBy
      /\ approvals'[a].approvedBy = approvals[a].approvedBy
      /\ \A b \in ApprovalIds \ {a} : approvals'[b] = approvals[b]
  BY <1>1, <1>2 DEF MarkExecuted, StoreMarkExecuted, Approval
<1> HIDE DEF a
<1>4. Promise!Close(a)
  BY <1>2, <1>3, Stages DEF Promise!Close
<1> QED BY <1>2, <1>4 DEF Promise!Next

LEMMA PromiseActs ==
  ASSUME IInv, NEW h \in Handlers, Act(h)
  PROVE  Promise!Next \/ UNCHANGED Promise!dcVars
<1> DEFINE a == req[h].id
<1>1. CASE a = None
  BY <1>1, PromiseStutters DEF Act
<1>2. CASE a # None
  <2>1. /\ a \in ApprovalIds /\ UNCHANGED approvals
        /\ runs \in [ApprovalIds -> {"none", "one", "many"}]
    BY <1>2 DEF Act, IInv, TypeOK, Types
  <2>2. runs'[a] # "none" /\ \A b \in ApprovalIds \ {a} : runs'[b] = runs[b]
    BY <1>2, <2>1 DEF Act
  <2>3. approvals[a].status \in {"APPROVED", "EXECUTED"}
    BY <1>2 DEF Act, IInv, SnapshotsHold, Authorised
  <2> HIDE DEF a
  <2>4. Promise!Perform(a)
    BY <2>1, <2>2, <2>3, Stages DEF Promise!Perform
  <2>5. Promise!Next
    BY <2>1, <2>4 DEF Promise!Next, Promise!Perform
  <2> QED BY <2>5
<1> QED BY <1>1, <1>2

LEMMA PromiseNext == IInv /\ Rules /\ [Next]_vars => [Promise!Next]_(Promise!dcVars)
<1> SUFFICES ASSUME IInv, Rules, [Next]_vars
             PROVE  Promise!Next \/ UNCHANGED Promise!dcVars
  OBVIOUS
<1>1. CASE approvals' # approvals
  <2>1. PICK h \in Handlers :
          Approve(h) \/ Reject(h) \/ MarkExecuted(h) \/ CreateRequest(h) \/ ExpirePending(h)
    BY <1>1, WhoWrites
  <2> QED
    BY <1>1, <2>1, PromiseApproves, PromiseRejects, PromiseMarks, PromiseCreates, PromiseExpires
<1>2. CASE approvals' = approvals
  BY <1>2, WhoActs, PromiseActs, PromiseStutters
<1> QED BY <1>1, <1>2

LEMMA PromiseInit == Init => Promise!Init
  BY Stages DEF Init, StoreInit, Absent, Promise!Init

\* The workflow of the two services is dual control (ImplementsDualControl): a
\* request is granted or refused once, by somebody else than its requester, and
\* only what was granted is performed.
THEOREM DualControlImplemented == Spec => ImplementsDualControl
  BY PromiseInit, PromiseNext, Inductive, RulesKept, PTL DEF Spec, ImplementsDualControl, Promise!Spec

=============================================================================
