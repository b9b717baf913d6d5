------------------------------ MODULE Onboarding ------------------------------
(***************************************************************************)
(* The life of a business: OnboardingService registers it and takes its    *)
(* KYC documents, AdminService reviews, suspends and reactivates it.  Every *)
(* call loads the business, decides, and writes by a command that names    *)
(* the business only.                                                      *)
(*                                                                         *)
(* The applicants all register one company, the interesting case for the   *)
(* unique registration number.                                             *)
(***************************************************************************)
EXTENDS Naturals, FiniteSets

CONSTANTS
  Handlers,    \* bound: calls in flight at a time
  Applicants,  \* bound: users who register the company
  Required,    \* the document types that submitKyc asks for
  StaffOps,    \* the calls of AdminService that a run allows
  None

\* No call sets kyc_under_review.
Statuses == {"pending_kyc", "kyc_submitted", "active", "rejected", "suspended"}

VARIABLES
  biz,   \* biz[u]: the business that u has created, or None
  seat,  \* the applicants with an active membership as owner of their business
  req    \* req[h]: the call in handler h

vars == <<biz, seat, req>>

Business == [status: Statuses, documents: SUBSET Required,
             submittedAt: BOOLEAN, rejectionReason: BOOLEAN,
             decisions: SUBSET {"approve", "reject"}]  \* history: of reviewKyc

ASSUME OnboardingAssumption ==
  /\ StaffOps \subseteq {"approve", "reject", "suspend", "reactivate"}
  /\ None \notin Applicants /\ None \notin Business

Call == [pc: {"idle", "exists", "create", "seat", "owner", "find", "write"},
         op: {"init", "document", "submit", None} \cup StaffOps,
         of: Applicants \cup {None},       \* whose business it is
         document: Required \cup {None},   \* the document that is uploaded
         seen: Statuses \cup {None}]       \* the status when it was loaded

Idle == [pc |-> "idle", op |-> None, of |-> None, document |-> None, seen |-> None]

TypeOK ==
  /\ biz \in [Applicants -> Business \cup {None}]
  /\ seat \subseteq Applicants
  /\ req \in [Handlers -> Call]

Init ==
  /\ biz = [u \in Applicants |-> None] /\ seat = {}
  /\ req = [h \in Handlers |-> Idle]

Created == {u \in Applicants : biz[u] # None}

Goto(h, pc) == req' = [req EXCEPT ![h].pc = pc]
Return(h) == req' = [req EXCEPT ![h] = Idle]
\* An update of some fields of the business of the call.
Update(h, b) == biz' = [biz EXCEPT ![req[h].of] = b]

----------------------------------------------------------------------------
\* initBusiness: the registration number is looked up, the business created, and
\* then the membership of its owner.
BeginInit(h) ==
  /\ req[h].pc = "idle"
  /\ \E u \in Applicants \ Created :
       req' = [req EXCEPT ![h] = [Idle EXCEPT !.pc = "exists", !.op = "init", !.of = u]]
  /\ UNCHANGED <<biz, seat>>

Exists(h) ==
  /\ req[h].pc = "exists"
  /\ IF Created # {} THEN Return(h) ELSE Goto(h, "create")
  /\ UNCHANGED <<biz, seat>>

\* A faulty variant: an index that is not unique.
NumberFreeAlways == TRUE
\* The unique index on registrationNumber.
NumberFree == Created = {}

Create(h) ==
  /\ req[h].pc = "create"
  /\ IF NumberFree
     THEN /\ Update(h, [status |-> "pending_kyc", documents |-> {}, submittedAt |-> FALSE,
                        rejectionReason |-> FALSE, decisions |-> {}])
          /\ Goto(h, "seat")
     ELSE Return(h) /\ UNCHANGED biz
  /\ UNCHANGED seat

Seat(h) ==
  /\ req[h].pc = "seat"
  /\ seat' = seat \cup {req[h].of}
  /\ Return(h)
  /\ UNCHANGED biz

----------------------------------------------------------------------------
\* uploadKycDocuments, uploadKycDocumentFile and submitKyc start with a look at the
\* membership, the calls of AdminService with the business.
BeginOwner(h) ==
  /\ req[h].pc = "idle"
  /\ \E u \in Created, d \in Required, op \in {"document", "submit"} :
       req' = [req EXCEPT ![h] = [Idle EXCEPT !.pc = "owner", !.op = op, !.of = u,
                 !.document = IF op = "document" THEN d ELSE None]]
  /\ UNCHANGED <<biz, seat>>

BeginStaff(h) ==
  /\ req[h].pc = "idle"
  /\ \E u \in Created, op \in StaffOps :
       req' = [req EXCEPT ![h] = [Idle EXCEPT !.pc = "find", !.op = op, !.of = u]]
  /\ UNCHANGED <<biz, seat>>

\* assertBusinessOwner
CheckOwner(h) ==
  /\ req[h].pc = "owner"
  /\ IF req[h].of \in seat THEN Goto(h, "find") ELSE Return(h)
  /\ UNCHANGED <<biz, seat>>

\* A faulty variant: any document will do.
AdmissibleSome(op, b) ==
  /\ op = "submit" => b.documents # {}
  /\ op = "suspend" => b.status # "suspended"

\* What a call asks of the business it has loaded; reviewKyc and reactivateBusiness
\* ask nothing.
Admissible(op, b) ==
  /\ op = "submit" => Required \subseteq b.documents
  /\ op = "suspend" => b.status # "suspended"

FindBusiness(h) ==
  LET b == biz[req[h].of] IN
  /\ req[h].pc = "find"
  /\ IF Admissible(req[h].op, b)
     THEN req' = [req EXCEPT ![h] = [@ EXCEPT !.pc = "write", !.seen = b.status]]
     ELSE Return(h)
  /\ UNCHANGED <<biz, seat>>

\* addKycDocument: $push.
AddDocument(h) ==
  LET b == biz[req[h].of] IN
  /\ req[h].op = "document"
  /\ Update(h, [b EXCEPT !.documents = @ \cup {req[h].document}])

SubmitKyc(h) ==
  LET b == biz[req[h].of] IN
  /\ req[h].op = "submit"
  /\ Update(h, [b EXCEPT !.status = "kyc_submitted", !.submittedAt = TRUE])

\* A faulty variant: the decision is written for the status.
ApproveKycDecision(h) ==
  LET b == biz[req[h].of] IN
  /\ req[h].op = "approve"
  /\ Update(h, [b EXCEPT !.status = "approve", !.rejectionReason = FALSE,
                         !.decisions = @ \cup {"approve"}])

ApproveKyc(h) ==
  LET b == biz[req[h].of] IN
  /\ req[h].op = "approve"
  /\ Update(h, [b EXCEPT !.status = "active", !.rejectionReason = FALSE,
                         !.decisions = @ \cup {"approve"}])

\* reviewKyc asks for a reason before it rejects.
RejectKyc(h) ==
  LET b == biz[req[h].of] IN
  /\ req[h].op = "reject"
  /\ Update(h, [b EXCEPT !.status = "rejected", !.rejectionReason = TRUE,
                         !.decisions = @ \cup {"reject"}])

\* suspendBusiness, past the approval that Approvals models.
Suspend(h) ==
  LET b == biz[req[h].of] IN
  /\ req[h].op = "suspend"
  /\ Update(h, [b EXCEPT !.status = "suspended"])

Reactivate(h) ==
  LET b == biz[req[h].of] IN
  /\ req[h].op = "reactivate"
  /\ Update(h, [b EXCEPT !.status = "active"])

Write(h) ==
  /\ req[h].pc = "write"
  /\ \/ AddDocument(h) \/ SubmitKyc(h) \/ ApproveKyc(h) \/ RejectKyc(h)
     \/ Suspend(h) \/ Reactivate(h)
  /\ Return(h)
  /\ UNCHANGED seat

\* An exception or a crash: what the call has written stays.
Fail(h) ==
  /\ req[h].pc # "idle"
  /\ Return(h)
  /\ UNCHANGED <<biz, seat>>

Next == \E h \in Handlers :
  \/ BeginInit(h) \/ Exists(h) \/ Create(h) \/ Seat(h)
  \/ BeginOwner(h) \/ BeginStaff(h) \/ CheckOwner(h) \/ FindBusiness(h) \/ Write(h)
  \/ Fail(h)

Spec == Init /\ [][Next]_vars

----------------------------------------------------------------------------
\* initBusiness, "Business registration number already exists": applicants who race
\* for one company get one business, and nobody else a seat as its owner.
OneRegistration == Cardinality(Created) <= 1 /\ seat \subseteq Created

\* submitKyc, "Missing required KYC documents": a business whose KYC was ever submitted
\* has them all, whatever was uploaded, reviewed or submitted at the same time.
SubmittedComplete == \A u \in Created : biz[u].submittedAt => Required \subseteq biz[u].documents

\* reviewKyc, 'rejectionReason is required when rejecting KYC': a rejected business
\* has a reason, however decisions, submissions and suspensions overlap.
RejectedForReason == \A u \in Created : biz[u].status = "rejected" => biz[u].rejectionReason

\* "Review submitted KYC": what is decided on has been submitted.
ReviewsSubmitted == \A u \in Created : biz[u].decisions # {} => biz[u].submittedAt
=============================================================================
