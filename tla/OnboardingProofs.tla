--------------------------- MODULE OnboardingProofs ---------------------------
(***************************************************************************)
(* Theorems about Onboarding: one business per registration number, only   *)
(* complete submissions, and no rejection without a reason, for any number *)
(* of applicants, documents and calls in flight.                           *)
(*                                                                         *)
(* A call acts on the business it has loaded.  It may, because a business  *)
(* that was created stays, and its documents are only added to: what a     *)
(* submission has counted is there when it is written.                     *)
(*                                                                         *)
(* And theorems about Identity, of the specification of the runs: flags    *)
(* and profiles agree whatever overlaps; system users stay apart from      *)
(* travellers and members where calls follow one another.                  *)
(***************************************************************************)
EXTENDS MCAccounts, FiniteSetTheorems, TLAPS

\* The calls that have a business at hand name one that exists.
Refers == \A h \in Handlers :
  req[h].pc \in {"seat", "owner", "find", "write"} => req[h].of \in Created

\* A call that registers knows its applicant.
Registers == \A h \in Handlers :
  req[h].pc \in {"exists", "create"} => req[h].of \in Applicants

\* A submission that was admitted has all its documents.
Counted == \A h \in Handlers :
  req[h].pc = "write" /\ req[h].op = "submit" => Required \subseteq biz[req[h].of].documents

\* An upload has a document.
Uploads == \A h \in Handlers :
  req[h].pc # "idle" /\ req[h].op = "document" => req[h].document \in Required

\* At most one applicant has a business.
Single == \A u, v \in Created : u = v

IInv ==
  /\ TypeOK /\ Refers /\ Registers /\ Counted /\ Uploads
  /\ Single /\ seat \subseteq Created
  /\ SubmittedComplete /\ RejectedForReason

\* What a call may become without touching the business.
Fit(r) ==
  /\ r \in Call
  /\ r.pc \in {"seat", "owner", "find", "write"} => r.of \in Created
  /\ r.pc \in {"exists", "create"} => r.of \in Applicants
  /\ r.pc = "write" /\ r.op = "submit" => Required \subseteq biz[r.of].documents
  /\ r.pc # "idle" /\ r.op = "document" => r.document \in Required

\* A call that has ended fits.
LEMMA IdleFits == Fit(Idle)
<1>1. Idle \in Call
  BY DEF Idle, Call
<1> QED BY <1>1 DEF Fit, Idle

\* A call that takes a step of its own leaves the others as they are.
LEMMA OnlyMoves ==
  ASSUME IInv, NEW h \in Handlers, NEW r, Fit(r),
         req' = [req EXCEPT ![h] = r], biz' = biz,
         seat' \subseteq Created
  PROVE  IInv'
<1>1. Created' = Created
  BY DEF Created
<1>2. \A g \in Handlers : req'[g] = IF g = h THEN r ELSE req[g]
  BY DEF IInv, TypeOK
<1>3. TypeOK'
  <2>1. req' \in [Handlers -> Call]
    BY DEF IInv, TypeOK, Fit
  <2>2. Created \subseteq Applicants
    BY DEF Created
  <2> QED BY <2>1, <2>2 DEF IInv, TypeOK
<1>4. Refers' /\ Registers'
  BY <1>1, <1>2 DEF IInv, Refers, Registers, Fit
<1>5. Counted'
  BY <1>2 DEF IInv, Counted, Fit
<1>6. Uploads'
  BY <1>2 DEF IInv, Uploads, Fit
<1>7. Single' /\ SubmittedComplete' /\ RejectedForReason'
  BY <1>1 DEF IInv, Single, SubmittedComplete, RejectedForReason
<1> QED BY <1>1, <1>3, <1>4, <1>5, <1>6, <1>7 DEF IInv

\* A write to the business of a call that has ended, which takes no document away.
LEMMA OnlyWrites ==
  ASSUME IInv, NEW h \in Handlers, NEW c \in Business, req[h].of \in Created,
         biz' = [biz EXCEPT ![req[h].of] = c],
         biz[req[h].of].documents \subseteq c.documents,
         c.submittedAt => Required \subseteq c.documents,
         c.status = "rejected" => c.rejectionReason,
         req' = [req EXCEPT ![h] = Idle], seat' = seat
  PROVE  IInv'
<1> DEFINE o == req[h].of
<1>1. o \in Applicants
  BY DEF Created
<1>2. biz \in [Applicants -> Business \cup {None}] /\ req \in [Handlers -> Call]
  BY DEF IInv, TypeOK
<1>3. \A u \in Applicants : biz'[u] = IF u = o THEN c ELSE biz[u]
  BY <1>1, <1>2
<1>4. c # None
  BY OnboardingAssumption DEF OnboardingAssumption
<1>5. Created' = Created
  BY <1>1, <1>3, <1>4 DEF Created
<1>6. \A g \in Handlers : req'[g] = IF g = h THEN Idle ELSE req[g]
  BY <1>2
<1>7. TypeOK'
  <2>1. biz' \in [Applicants -> Business \cup {None}]
    BY <1>1, <1>2
  <2>2. req' \in [Handlers -> Call]
    BY <1>2, IdleFits DEF Fit
  <2> QED BY <2>1, <2>2 DEF IInv, TypeOK
<1>8. Refers' /\ Registers'
  BY <1>5, <1>6 DEF IInv, Refers, Registers, Idle
<1>9. Counted'
  <2> SUFFICES ASSUME NEW g \in Handlers, req'[g].pc = "write", req'[g].op = "submit"
               PROVE  Required \subseteq biz'[req'[g].of].documents
    BY DEF Counted
  <2>1. g # h /\ req'[g] = req[g]
    BY <1>6 DEF Idle
  <2>2. req[g].of \in Created /\ Required \subseteq biz[req[g].of].documents
    BY <2>1 DEF IInv, Refers, Counted
  <2>3. req[g].of \in Applicants
    BY <2>2 DEF Created
  <2> QED BY <1>3, <2>1, <2>2, <2>3
<1>10. Uploads'
  BY <1>6 DEF IInv, Uploads, Idle
<1>11. Single' /\ seat' \subseteq Created'
  BY <1>5 DEF IInv, Single
<1>12. SubmittedComplete' /\ RejectedForReason'
  <2>1. \A u \in Created : u \in Applicants
    BY DEF Created
  <2> QED BY <1>3, <1>5, <2>1 DEF IInv, SubmittedComplete, RejectedForReason
<1> QED BY <1>7, <1>8, <1>9, <1>10, <1>11, <1>12 DEF IInv

\* A call that ends without a write.
LEMMA OnlyReturns ==
  ASSUME IInv, NEW h \in Handlers, Return(h), biz' = biz, seat' = seat
  PROVE  IInv'
BY OnlyMoves, IdleFits DEF Return, IInv

\* A call that goes on without a write.
LEMMA OnlyGoes ==
  ASSUME IInv, NEW h \in Handlers, NEW pc \in {"create", "find"},
         req[h].pc # "idle", Goto(h, pc), biz' = biz, seat' = seat,
         pc = "create" => req[h].of \in Applicants,
         pc = "find" => req[h].of \in Created
  PROVE  IInv'
<1> DEFINE r == [req[h] EXCEPT !.pc = pc]
<1>1. req[h] \in Call
  BY DEF IInv, TypeOK
<1>2. req' = [req EXCEPT ![h] = r]
  BY <1>1 DEF Goto
<1>3. r \in Call /\ r.pc = pc /\ r.of = req[h].of
      /\ r.op = req[h].op /\ r.document = req[h].document
  BY <1>1 DEF Call
<1>4. Fit(r)
  BY <1>3 DEF Fit, IInv, Uploads
<1> HIDE DEF r
<1> QED BY <1>2, <1>4, OnlyMoves DEF IInv

\* A call that starts.
LEMMA OnlyBegins ==
  ASSUME IInv, NEW h \in Handlers, BeginInit(h) \/ BeginOwner(h) \/ BeginStaff(h)
  PROVE  IInv'
<1>0. Created \subseteq Applicants /\ seat \subseteq Created
  BY DEF Created, IInv
<1>1. CASE BeginInit(h)
  <2>1. PICK u \in Applicants \ Created :
          req' = [req EXCEPT ![h] = [Idle EXCEPT !.pc = "exists", !.op = "init", !.of = u]]
    BY <1>1 DEF BeginInit
  <2> DEFINE r == [Idle EXCEPT !.pc = "exists", !.op = "init", !.of = u]
  <2>2. Fit(r)
    BY DEF Fit, Idle, Call
  <2> HIDE DEF r
  <2> QED BY <1>0, <1>1, <2>1, <2>2, OnlyMoves DEF BeginInit, r
<1>2. CASE BeginOwner(h)
  <2>1. PICK u \in Created, d \in Required, op \in {"document", "submit"} :
          req' = [req EXCEPT ![h] = [Idle EXCEPT !.pc = "owner", !.op = op, !.of = u,
                    !.document = IF op = "document" THEN d ELSE None]]
    BY <1>2 DEF BeginOwner
  <2> DEFINE r == [Idle EXCEPT !.pc = "owner", !.op = op, !.of = u,
                    !.document = IF op = "document" THEN d ELSE None]
  <2>2. Fit(r)
    BY <1>0 DEF Fit, Idle, Call
  <2> HIDE DEF r
  <2> QED BY <1>0, <1>2, <2>1, <2>2, OnlyMoves DEF BeginOwner, r
<1>3. CASE BeginStaff(h)
  <2>1. PICK u \in Created, op \in StaffOps :
          req' = [req EXCEPT ![h] = [Idle EXCEPT !.pc = "find", !.op = op, !.of = u]]
    BY <1>3 DEF BeginStaff
  <2> DEFINE r == [Idle EXCEPT !.pc = "find", !.op = op, !.of = u]
  <2>2. Fit(r)
    BY <1>0, OnboardingAssumption DEF OnboardingAssumption, Fit, Idle, Call
  <2> HIDE DEF r
  <2> QED BY <1>0, <1>3, <2>1, <2>2, OnlyMoves DEF BeginStaff, r
<1> QED BY <1>1, <1>2, <1>3

\* The business is looked up by its number, and the owner by the membership.
LEMMA LooksUp ==
  ASSUME IInv, NEW h \in Handlers, Exists(h) \/ CheckOwner(h)
  PROVE  IInv'
<1>1. CASE Exists(h)
  <2>1. req[h].pc # "idle" /\ req[h].of \in Applicants /\ biz' = biz /\ seat' = seat
    BY <1>1 DEF Exists, IInv, Registers
  <2> QED BY <1>1, <2>1, OnlyReturns, OnlyGoes DEF Exists
<1>2. CASE CheckOwner(h)
  <2>1. req[h].pc # "idle" /\ req[h].of \in Created /\ biz' = biz /\ seat' = seat
    BY <1>2 DEF CheckOwner, IInv, Refers
  <2> QED BY <1>2, <2>1, OnlyReturns, OnlyGoes DEF CheckOwner
<1> QED BY <1>1, <1>2

\* The business is created, the only one.
LEMMA Creates ==
  ASSUME IInv, NEW h \in Handlers, Create(h)
  PROVE  IInv'
<1> DEFINE o == req[h].of
           b == [status |-> "pending_kyc", documents |-> {}, submittedAt |-> FALSE,
                 rejectionReason |-> FALSE, decisions |-> {}]
           r == [req[h] EXCEPT !.pc = "seat"]
<1>1. CASE Created # {}
  BY <1>1, OnlyReturns DEF Create, NumberFree
<1>2. CASE Created = {}
  <2>1. o \in Applicants /\ req[h] \in Call
    BY DEF Create, IInv, Registers, TypeOK
  <2>2. b \in Business
    BY DEF Business, Statuses
  <2>3. biz' = [biz EXCEPT ![o] = b] /\ seat' = seat /\ req' = [req EXCEPT ![h] = r]
    BY <1>2, <2>1 DEF Create, NumberFree, Update, Goto
  <2>4. r \in Call /\ r.pc = "seat" /\ r.of = o
        /\ (r.op = "document" => r.document \in Required)
    BY <2>1 DEF Call, Create, IInv, Uploads
  <2>5. b.documents = {} /\ b.submittedAt = FALSE /\ b.status # "rejected"
    OBVIOUS
  <2>6. b # None
    BY <2>2, OnboardingAssumption DEF OnboardingAssumption
  <2> HIDE DEF b, r
  <2>7. biz \in [Applicants -> Business \cup {None}] /\ req \in [Handlers -> Call]
    BY DEF IInv, TypeOK
  <2>8. \A u \in Applicants : biz[u] = None
    BY <1>2 DEF Created
  <2>9. \A u \in Applicants : biz'[u] = IF u = o THEN b ELSE None
    BY <2>1, <2>3, <2>7, <2>8
  <2>10. Created' = {o}
    BY <2>1, <2>6, <2>9 DEF Created
  <2>11. \A g \in Handlers : req'[g] = IF g = h THEN r ELSE req[g]
    BY <2>3, <2>7
  <2>12. seat = {}
    BY <1>2 DEF IInv
  <2>13. \A g \in Handlers : req[g].pc \notin {"seat", "owner", "find", "write"}
    BY <1>2 DEF IInv, Refers
  <2>14. TypeOK'
    <3>1. biz' \in [Applicants -> Business \cup {None}]
      BY <2>2, <2>3, <2>7
    <3>2. req' \in [Handlers -> Call]
      BY <2>3, <2>4, <2>7
    <3> QED BY <2>3, <2>12, <3>1, <3>2 DEF TypeOK
  <2>15. Refers' /\ Registers' /\ Counted' /\ Uploads'
    BY <2>4, <2>10, <2>11, <2>13 DEF IInv, Refers, Registers, Counted, Uploads
  <2>16. Single' /\ seat' \subseteq Created' /\ SubmittedComplete' /\ RejectedForReason'
    BY <2>1, <2>3, <2>5, <2>9, <2>10, <2>12 DEF Single, SubmittedComplete, RejectedForReason
  <2> QED BY <2>14, <2>15, <2>16 DEF IInv
<1> QED BY <1>1, <1>2

\* The owner takes the seat.
LEMMA Seats ==
  ASSUME IInv, NEW h \in Handlers, Seat(h)
  PROVE  IInv'
<1>1. seat' \subseteq Created
  BY DEF Seat, IInv, Refers
<1> QED BY <1>1, OnlyMoves, IdleFits DEF Seat, Return

\* A call that has loaded its business may write to it.
LEMMA Loads ==
  ASSUME IInv, NEW h \in Handlers, FindBusiness(h)
  PROVE  IInv'
<1> DEFINE b == biz[req[h].of]
           r == [req[h] EXCEPT !.pc = "write", !.seen = b.status]
<1>1. req[h].of \in Created /\ req[h] \in Call
  BY DEF FindBusiness, IInv, Refers, TypeOK
<1>2. CASE Admissible(req[h].op, b)
  <2>1. b \in Business
    BY <1>1 DEF IInv, TypeOK, Created
  <2>2. req' = [req EXCEPT ![h] = r] /\ biz' = biz /\ seat' = seat
    BY <1>2 DEF FindBusiness
  <2>3. r \in Call /\ r.pc = "write" /\ r.op = req[h].op /\ r.of = req[h].of
        /\ (r.op = "document" => r.document \in Required)
    BY <1>1, <2>1 DEF Call, Business, FindBusiness, IInv, Uploads
  <2> HIDE DEF r
  <2>4. Fit(r)
    BY <1>1, <1>2, <2>3 DEF Fit, Admissible
  <2> QED BY <2>2, <2>4, OnlyMoves DEF IInv
<1>3. CASE ~Admissible(req[h].op, b)
  BY <1>3, OnlyReturns DEF FindBusiness
<1> QED BY <1>2, <1>3

\* A call writes what it has decided to the business as it is now.
LEMMA Writes ==
  ASSUME IInv, NEW h \in Handlers, Write(h)
  PROVE  IInv'
<1> DEFINE b == biz[req[h].of]
<1>1. /\ req[h].of \in Created /\ b \in Business
      /\ req[h].pc = "write" /\ req' = [req EXCEPT ![h] = Idle] /\ seat' = seat
  BY DEF Write, Return, IInv, Refers, TypeOK, Created
<1>2. (b.submittedAt => Required \subseteq b.documents) /\ (b.status = "rejected" => b.rejectionReason)
  BY <1>1 DEF IInv, SubmittedComplete, RejectedForReason
<1>3. CASE AddDocument(h)
  <2> DEFINE c == [b EXCEPT !.documents = @ \cup {req[h].document}]
  <2>1. req[h].document \in Required
    BY <1>1, <1>3 DEF AddDocument, IInv, Uploads
  <2>2. /\ c \in Business /\ b.documents \subseteq c.documents
        /\ c.status = b.status /\ c.submittedAt = b.submittedAt
        /\ c.rejectionReason = b.rejectionReason
    BY <1>1, <2>1 DEF Business
  <2>3. biz' = [biz EXCEPT ![req[h].of] = c]
    BY <1>3 DEF AddDocument, Update
  <2> HIDE DEF c
  <2> QED BY <1>1, <1>2, <2>2, <2>3, OnlyWrites
<1>4. CASE SubmitKyc(h)
  <2> DEFINE c == [b EXCEPT !.status = "kyc_submitted", !.submittedAt = TRUE]
  <2>1. Required \subseteq b.documents
    BY <1>1, <1>4 DEF SubmitKyc, IInv, Counted
  <2>2. /\ c \in Business /\ c.documents = b.documents /\ c.status = "kyc_submitted"
    BY <1>1 DEF Business, Statuses
  <2>3. biz' = [biz EXCEPT ![req[h].of] = c]
    BY <1>4 DEF SubmitKyc, Update
  <2> HIDE DEF c
  <2> QED BY <1>1, <2>1, <2>2, <2>3, OnlyWrites
<1>5. CASE ApproveKyc(h)
  <2> DEFINE c == [b EXCEPT !.status = "active", !.rejectionReason = FALSE,
                            !.decisions = @ \cup {"approve"}]
  <2>1. /\ c \in Business /\ c.documents = b.documents /\ c.status = "active"
        /\ c.submittedAt = b.submittedAt
    BY <1>1 DEF Business, Statuses
  <2>2. biz' = [biz EXCEPT ![req[h].of] = c]
    BY <1>5 DEF ApproveKyc, Update
  <2> HIDE DEF c
  <2> QED BY <1>1, <1>2, <2>1, <2>2, OnlyWrites
<1>6. CASE RejectKyc(h)
  <2> DEFINE c == [b EXCEPT !.status = "rejected", !.rejectionReason = TRUE,
                            !.decisions = @ \cup {"reject"}]
  <2>1. /\ c \in Business /\ c.documents = b.documents /\ c.rejectionReason
        /\ c.submittedAt = b.submittedAt
    BY <1>1 DEF Business, Statuses
  <2>2. biz' = [biz EXCEPT ![req[h].of] = c]
    BY <1>6 DEF RejectKyc, Update
  <2> HIDE DEF c
  <2> QED BY <1>1, <1>2, <2>1, <2>2, OnlyWrites
<1>7. CASE Suspend(h) \/ Reactivate(h)
  <2>1. PICK s \in {"suspended", "active"} :
          biz' = [biz EXCEPT ![req[h].of] = [b EXCEPT !.status = s]]
    BY <1>7 DEF Suspend, Reactivate, Update
  <2> DEFINE c == [b EXCEPT !.status = s]
  <2>2. /\ c \in Business /\ c.documents = b.documents /\ c.status = s
        /\ c.submittedAt = b.submittedAt
    BY <1>1 DEF Business, Statuses
  <2>3. biz' = [biz EXCEPT ![req[h].of] = c]
    BY <2>1
  <2> HIDE DEF c
  <2> QED BY <1>1, <1>2, <2>2, <2>3, OnlyWrites
<1> QED BY <1>3, <1>4, <1>5, <1>6, <1>7 DEF Write

----------------------------------------------------------------------------
\* At the start there is no business, and no call.
LEMMA Initially == Init => IInv
<1> SUFFICES ASSUME Init PROVE IInv
  OBVIOUS
<1>1. Created = {}
  BY DEF Init, Created
<1>2. TypeOK
  BY IdleFits DEF Init, TypeOK, Fit
<1>3. \A h \in Handlers : req[h].pc = "idle"
  BY DEF Init, Idle
<1> QED BY <1>1, <1>2, <1>3
  DEF Init, IInv, Refers, Registers, Counted, Uploads, Single, SubmittedComplete, RejectedForReason

\* Every step keeps the invariant.
LEMMA NextKeeps == IInv /\ [Next]_vars => IInv'
<1> SUFFICES ASSUME IInv, [Next]_vars PROVE IInv'
  OBVIOUS
<1>1. CASE UNCHANGED vars
  BY <1>1 DEF vars, IInv, TypeOK, Refers, Registers, Counted, Uploads, Single, Created,
              SubmittedComplete, RejectedForReason
<1>2. ASSUME NEW h \in Handlers, Fail(h) PROVE IInv'
  BY <1>2, OnlyReturns DEF Fail
<1>3. CASE Next
  BY <1>2, <1>3, OnlyBegins, LooksUp, Creates, Seats, Loads, Writes DEF Next
<1> QED BY <1>1, <1>3

\* What the invariant says of the businesses.
LEMMA Implied == IInv => TypeOK /\ OneRegistration /\ SubmittedComplete /\ RejectedForReason
<1> SUFFICES ASSUME IInv PROVE OneRegistration
  BY DEF IInv
<1>1. CASE Created = {}
  BY <1>1, FS_EmptySet DEF OneRegistration, IInv
<1>2. CASE Created # {}
  <2>1. PICK u \in Created : Created = {u}
    BY <1>2 DEF IInv, Single
  <2>2. Cardinality({u}) = 1
    BY FS_Singleton
  <2> QED BY <2>1, <2>2 DEF OneRegistration, IInv
<1> QED BY <1>1, <1>2

\* initBusiness: with any number of applicants and calls in flight the company is
\* registered once, and only its applicant has the seat of its owner.
THEOREM RegisteredOnce == Spec => []OneRegistration
BY Initially, NextKeeps, Implied, PTL DEF Spec

\* submitKyc: with any number of calls in flight no business was ever submitted without
\* the documents that are required.
THEOREM CompleteSubmissions == Spec => []SubmittedComplete
BY Initially, NextKeeps, Implied, PTL DEF Spec

\* reviewKyc: with any number of calls in flight no business is rejected without a reason.
THEOREM ReasonedRejections == Spec => []RejectedForReason
BY Initially, NextKeeps, Implied, PTL DEF Spec

----------------------------------------------------------------------------
\* Identity: what a call that is about to write a flag or a profile leaves behind.
Written(r) ==
  /\ r.pc = "addSystem" => user.system
  /\ r.pc = "setTraveller" => travellerProfile

WhoInv == Who!TypeOK /\ FlagsMatchProfiles /\ \A h \in Handlers : Written(call[h])

\* One call at a time, a call knows what the address stands for until it writes; only
\* sign-ins and members who leave come between.
Looked(r) ==
  /\ r.op \in {"traveller", "invite", "accept"}
       /\ r.pc \in {"findTraveller", "addTraveller", "setTraveller", "memberships",
                    "invite", "activate"} => user.exists /\ ~user.system
  /\ r.op = "system" /\ r.pc \in {"memberships", "findTraveller", "findSystem", "setSystem"} =>
       ~user.traveller
  /\ r.op = "system" /\ r.pc \in {"findTraveller", "findSystem", "setSystem"} =>
       membership \in {"none", "left"}
  /\ r.op = "system" /\ r.pc \in {"findSystem", "setSystem"} => ~travellerProfile

\* Nobody is a member or a traveller before being a user.
Alone ==
  /\ Isolated
  /\ ~user.exists =>
       ~user.system /\ ~user.traveller /\ ~travellerProfile /\ membership = "none"
  /\ \A h \in Handlers : Looked(call[h])


\* The calls of Identity in the runs.
WhoOps == {"system", "traveller", "invite", "accept", "business"}
WhoCall == [op: WhoOps \cup {"none"}, pc: Who!Places]

\* A call that goes on keeps its operation.
LEMMA WhoGoes ==
  ASSUME Who!TypeOK, NEW h \in Handlers, NEW pc \in Who!Places, Who!Goto(h, pc)
  PROVE  /\ call' \in [Handlers -> WhoCall]
         /\ call'[h].op = call[h].op /\ call'[h].pc = pc
         /\ \A g \in Handlers \ {h} : call'[g] = call[g]
<1> DEFINE c == [call[h] EXCEPT !.pc = pc]
<1>1. call \in [Handlers -> WhoCall]
  BY DEF Who!TypeOK, WhoCall, WhoOps
<1>2. c \in WhoCall /\ c.op = call[h].op /\ c.pc = pc
  BY <1>1 DEF WhoCall
<1>3. call' = [call EXCEPT ![h] = c]
  BY DEF Who!Goto
<1> HIDE DEF c
<1> QED BY <1>1, <1>2, <1>3

\* A call that is over leaves an idle handler.
LEMMA WhoReturns ==
  ASSUME Who!TypeOK, NEW h \in Handlers, Who!Return(h)
  PROVE  /\ call' \in [Handlers -> WhoCall]
         /\ call'[h].op = "none" /\ call'[h].pc = "idle"
         /\ \A g \in Handlers \ {h} : call'[g] = call[g]
<1>1. call \in [Handlers -> WhoCall] /\ Who!Idle \in WhoCall
  BY DEF Who!TypeOK, WhoCall, WhoOps, Who!Idle, Who!Places
<1> QED BY <1>1 DEF Who!Return, Who!Idle

\* What a step of a call must leave behind for the invariants to hold.
WhoStep(h) ==
  /\ user' \in Who!Flags /\ membership' \in {"none", "invited", "active", "left"}
  /\ travellerProfile' \in BOOLEAN /\ systemProfile' \in BOOLEAN
  /\ token' \in {"none", "user", "system"}
  /\ user.system => user'.system
  /\ travellerProfile => travellerProfile'
  /\ FlagsMatchProfiles' /\ Written(call[h])'

AloneStep(h) ==
  /\ Isolated' /\ Looked(call[h])'
  /\ ~user'.exists =>
       ~user'.system /\ ~user'.traveller /\ ~travellerProfile' /\ membership' = "none"

\* createSystemUser
LEMMA SystemKeeps ==
  ASSUME WhoInv, NEW h \in Handlers, Who!System(h)
  PROVE  /\ \A g \in Handlers \ {h} : call'[g] = call[g]
         /\ call' \in [Handlers -> WhoCall] /\ call[h].pc # "idle"
         /\ WhoStep(h) /\ (Alone /\ call[h].op # "business" => AloneStep(h))
<1> USE DEF Who!Places
<1>0. Who!TypeOK /\ Written(call[h]) /\ (Alone => Looked(call[h]))
  BY DEF WhoInv, Alone
<1>1. CASE Who!SystemFindUser(h)
  <2>1. call[h].op = "system" /\ call[h].pc = "findUser"
    BY <1>1 DEF Who!SystemFindUser, Who!At
  <2>2. /\ user.exists /\ ~user.traveller => call'[h].op = "system" /\ call'[h].pc = "memberships"
        /\ user.exists /\ user.traveller => call'[h].op = "none" /\ call'[h].pc = "idle"
        /\ ~user.exists => call'[h].op = "system" /\ call'[h].pc = "createUser"
        /\ call' \in [Handlers -> WhoCall]
        /\ \A g \in Handlers \ {h} : call'[g] = call[g]
    BY <1>0, <1>1, <2>1, WhoGoes, WhoReturns DEF Who!SystemFindUser, Who!Require
  <2>3. WhoStep(h)
    BY <1>0, <1>1, <2>1, <2>2 DEF Who!SystemFindUser, Who!Reads, WhoStep, Written, WhoInv,
       FlagsMatchProfiles, Who!FlagsMatchProfiles, Who!TypeOK, Who!Flags
  <2>4. Alone /\ call[h].op # "business" => AloneStep(h)
    BY <1>0, <1>1, <2>1, <2>2 DEF Who!SystemFindUser, Who!Reads, AloneStep, Alone, Looked, WhoInv,
       FlagsMatchProfiles, Who!FlagsMatchProfiles, Written, Isolated, Who!Isolated, Who!TypeOK, Who!Flags
  <2> QED BY <2>1, <2>2, <2>3, <2>4
<1>2. CASE Who!SystemMemberships(h)
  <2>1. call[h].op = "system" /\ call[h].pc = "memberships"
    BY <1>2 DEF Who!SystemMemberships, Who!At
  <2>2. /\ membership \in {"none", "left"} => call'[h].op = "system" /\ call'[h].pc = "findTraveller"
        /\ membership \notin {"none", "left"} => call'[h].op = "none" /\ call'[h].pc = "idle"
        /\ call' \in [Handlers -> WhoCall]
        /\ \A g \in Handlers \ {h} : call'[g] = call[g]
    BY <1>0, <1>2, <2>1, WhoGoes, WhoReturns DEF Who!SystemMemberships, Who!Require
  <2>3. WhoStep(h)
    BY <1>0, <1>2, <2>1, <2>2 DEF Who!SystemMemberships, Who!Reads, WhoStep, Written, WhoInv,
       FlagsMatchProfiles, Who!FlagsMatchProfiles, Who!TypeOK, Who!Flags
  <2>4. Alone /\ call[h].op # "business" => AloneStep(h)
    BY <1>0, <1>2, <2>1, <2>2 DEF Who!SystemMemberships, Who!Reads, AloneStep, Alone, Looked, WhoInv,
       FlagsMatchProfiles, Who!FlagsMatchProfiles, Written, Isolated, Who!Isolated, Who!TypeOK, Who!Flags
  <2> QED BY <2>1, <2>2, <2>3, <2>4
<1>3. CASE Who!SystemFindTraveller(h)
  <2>1. call[h].op = "system" /\ call[h].pc = "findTraveller"
    BY <1>3 DEF Who!SystemFindTraveller, Who!At
  <2>2. /\ ~travellerProfile => call'[h].op = "system" /\ call'[h].pc = "findSystem"
        /\ travellerProfile => call'[h].op = "none" /\ call'[h].pc = "idle"
        /\ call' \in [Handlers -> WhoCall]
        /\ \A g \in Handlers \ {h} : call'[g] = call[g]
    BY <1>0, <1>3, <2>1, WhoGoes, WhoReturns DEF Who!SystemFindTraveller, Who!Require, Who!NoTraveller
  <2>3. WhoStep(h)
    BY <1>0, <1>3, <2>1, <2>2 DEF Who!SystemFindTraveller, Who!Reads, WhoStep, Written, WhoInv,
       FlagsMatchProfiles, Who!FlagsMatchProfiles, Who!TypeOK, Who!Flags
  <2>4. Alone /\ call[h].op # "business" => AloneStep(h)
    BY <1>0, <1>3, <2>1, <2>2 DEF Who!SystemFindTraveller, Who!Reads, AloneStep, Alone, Looked, WhoInv,
       FlagsMatchProfiles, Who!FlagsMatchProfiles, Written, Isolated, Who!Isolated, Who!TypeOK, Who!Flags
  <2> QED BY <2>1, <2>2, <2>3, <2>4
<1>4. CASE Who!SystemFindSystem(h)
  <2>1. call[h].op = "system" /\ call[h].pc = "findSystem"
    BY <1>4 DEF Who!SystemFindSystem, Who!At
  <2>2. /\ ~systemProfile => call'[h].op = "system" /\ call'[h].pc = "setSystem"
        /\ systemProfile => call'[h].op = "none" /\ call'[h].pc = "idle"
        /\ call' \in [Handlers -> WhoCall]
        /\ \A g \in Handlers \ {h} : call'[g] = call[g]
    BY <1>0, <1>4, <2>1, WhoGoes, WhoReturns DEF Who!SystemFindSystem, Who!Require
  <2>3. WhoStep(h)
    BY <1>0, <1>4, <2>1, <2>2 DEF Who!SystemFindSystem, Who!Reads, WhoStep, Written, WhoInv,
       FlagsMatchProfiles, Who!FlagsMatchProfiles, Who!TypeOK, Who!Flags
  <2>4. Alone /\ call[h].op # "business" => AloneStep(h)
    BY <1>0, <1>4, <2>1, <2>2 DEF Who!SystemFindSystem, Who!Reads, AloneStep, Alone, Looked, WhoInv,
       FlagsMatchProfiles, Who!FlagsMatchProfiles, Written, Isolated, Who!Isolated, Who!TypeOK, Who!Flags
  <2> QED BY <2>1, <2>2, <2>3, <2>4
<1>5. CASE Who!SetSystem(h)
  <2>1. call[h].op = "system" /\ call[h].pc = "setSystem"
    BY <1>5 DEF Who!SetSystem, Who!At
  <2>2. /\ call'[h].op = "system" /\ call'[h].pc = "addSystem"
        /\ call' \in [Handlers -> WhoCall]
        /\ \A g \in Handlers \ {h} : call'[g] = call[g]
    BY <1>0, <1>5, <2>1, WhoGoes DEF Who!SetSystem
  <2>3. WhoStep(h)
    BY <1>0, <1>5, <2>1, <2>2 DEF Who!SetSystem, Who!Reads, WhoStep, Written, WhoInv,
       FlagsMatchProfiles, Who!FlagsMatchProfiles, Who!TypeOK, Who!Flags
  <2>4. Alone /\ call[h].op # "business" => AloneStep(h)
    BY <1>0, <1>5, <2>1, <2>2 DEF Who!SetSystem, Who!Reads, AloneStep, Alone, Looked, WhoInv,
       FlagsMatchProfiles, Who!FlagsMatchProfiles, Written, Isolated, Who!Isolated, Who!TypeOK, Who!Flags
  <2> QED BY <2>1, <2>2, <2>3, <2>4
<1>6. CASE Who!CreateSystemUser(h)
  <2>1. call[h].op = "system" /\ call[h].pc = "createUser"
    BY <1>6 DEF Who!CreateSystemUser, Who!At
  <2>2. /\ ~user.exists => call'[h].op = "system" /\ call'[h].pc = "addSystem"
        /\ user.exists => call'[h].op = "none" /\ call'[h].pc = "idle"
        /\ call' \in [Handlers -> WhoCall]
        /\ \A g \in Handlers \ {h} : call'[g] = call[g]
    BY <1>0, <1>6, <2>1, WhoGoes, WhoReturns DEF Who!CreateSystemUser, Who!Require
  <2>3. WhoStep(h)
    <3>1. CASE user.exists
      BY <1>0, <1>6, <2>1, <2>2, <3>1 DEF Who!CreateSystemUser, WhoStep, Written, WhoInv,
         FlagsMatchProfiles, Who!FlagsMatchProfiles, Who!TypeOK
    <3>2. CASE ~user.exists
      <4>1. user' = [exists |-> TRUE, system |-> TRUE, traveller |-> FALSE]
        BY <1>6, <3>2 DEF Who!CreateSystemUser
      <4> QED BY <1>0, <1>6, <2>2, <3>2, <4>1 DEF Who!CreateSystemUser, WhoStep, Written, WhoInv,
         FlagsMatchProfiles, Who!FlagsMatchProfiles, Who!TypeOK, Who!Flags
    <3> QED BY <3>1, <3>2
  <2>4. Alone /\ call[h].op # "business" => AloneStep(h)
    BY <1>0, <1>6, <2>1, <2>2 DEF Who!CreateSystemUser, Who!Reads, AloneStep, Alone, Looked, WhoInv,
       FlagsMatchProfiles, Who!FlagsMatchProfiles, Written, Isolated, Who!Isolated, Who!TypeOK, Who!Flags
  <2> QED BY <2>1, <2>2, <2>3, <2>4
<1>7. CASE Who!AddSystemProfile(h)
  <2>1. call[h].op = "system" /\ call[h].pc = "addSystem"
    BY <1>7 DEF Who!AddSystemProfile, Who!At
  <2>2. /\ call'[h].op = "none" /\ call'[h].pc = "idle"
        /\ call' \in [Handlers -> WhoCall]
        /\ \A g \in Handlers \ {h} : call'[g] = call[g]
    BY <1>0, <1>7, <2>1, WhoReturns DEF Who!AddSystemProfile
  <2>3. WhoStep(h)
    BY <1>0, <1>7, <2>1, <2>2 DEF Who!AddSystemProfile, Who!Reads, WhoStep, Written, WhoInv,
       FlagsMatchProfiles, Who!FlagsMatchProfiles, Who!TypeOK, Who!Flags
  <2>4. Alone /\ call[h].op # "business" => AloneStep(h)
    BY <1>0, <1>7, <2>1, <2>2 DEF Who!AddSystemProfile, Who!Reads, AloneStep, Alone, Looked, WhoInv,
       FlagsMatchProfiles, Who!FlagsMatchProfiles, Written, Isolated, Who!Isolated, Who!TypeOK, Who!Flags
  <2> QED BY <2>1, <2>2, <2>3, <2>4
<1> QED BY <1>1, <1>2, <1>3, <1>4, <1>5, <1>6, <1>7 DEF Who!System

\* activateTravellerProfile
LEMMA TravellerKeeps ==
  ASSUME WhoInv, NEW h \in Handlers, Who!Traveller(h)
  PROVE  /\ \A g \in Handlers \ {h} : call'[g] = call[g]
         /\ call' \in [Handlers -> WhoCall] /\ call[h].pc # "idle"
         /\ WhoStep(h) /\ (Alone /\ call[h].op # "business" => AloneStep(h))
<1> USE DEF Who!Places
<1>0. Who!TypeOK /\ Written(call[h]) /\ (Alone => Looked(call[h]))
  BY DEF WhoInv, Alone
<1>1. CASE Who!TravellerFindUser(h)
  <2>1. call[h].op = "traveller" /\ call[h].pc = "findUser"
    BY <1>1 DEF Who!TravellerFindUser, Who!At
  <2>2. /\ user.exists /\ ~user.system => call'[h].op = "traveller" /\ call'[h].pc = "findTraveller"
        /\ ~(user.exists /\ ~user.system) => call'[h].op = "none" /\ call'[h].pc = "idle"
        /\ call' \in [Handlers -> WhoCall]
        /\ \A g \in Handlers \ {h} : call'[g] = call[g]
    BY <1>0, <1>1, <2>1, WhoGoes, WhoReturns DEF Who!TravellerFindUser, Who!Require
  <2>3. WhoStep(h)
    BY <1>0, <1>1, <2>1, <2>2 DEF Who!TravellerFindUser, Who!Reads, WhoStep, Written, WhoInv,
       FlagsMatchProfiles, Who!FlagsMatchProfiles, Who!TypeOK, Who!Flags
  <2>4. Alone /\ call[h].op # "business" => AloneStep(h)
    BY <1>0, <1>1, <2>1, <2>2 DEF Who!TravellerFindUser, Who!Reads, AloneStep, Alone, Looked, WhoInv,
       FlagsMatchProfiles, Who!FlagsMatchProfiles, Written, Isolated, Who!Isolated, Who!TypeOK, Who!Flags
  <2> QED BY <2>1, <2>2, <2>3, <2>4
<1>2. CASE Who!TravellerFindProfile(h)
  <2>1. call[h].op = "traveller" /\ call[h].pc = "findTraveller"
    BY <1>2 DEF Who!TravellerFindProfile, Who!At
  <2>2. /\ ~travellerProfile => call'[h].op = "traveller" /\ call'[h].pc = "addTraveller"
        /\ travellerProfile => call'[h].op = "none" /\ call'[h].pc = "idle"
        /\ call' \in [Handlers -> WhoCall]
        /\ \A g \in Handlers \ {h} : call'[g] = call[g]
    BY <1>0, <1>2, <2>1, WhoGoes, WhoReturns DEF Who!TravellerFindProfile, Who!Require
  <2>3. WhoStep(h)
    BY <1>0, <1>2, <2>1, <2>2 DEF Who!TravellerFindProfile, Who!Reads, WhoStep, Written, WhoInv,
       FlagsMatchProfiles, Who!FlagsMatchProfiles, Who!TypeOK, Who!Flags
  <2>4. Alone /\ call[h].op # "business" => AloneStep(h)
    BY <1>0, <1>2, <2>1, <2>2 DEF Who!TravellerFindProfile, Who!Reads, AloneStep, Alone, Looked, WhoInv,
       FlagsMatchProfiles, Who!FlagsMatchProfiles, Written, Isolated, Who!Isolated, Who!TypeOK, Who!Flags
  <2> QED BY <2>1, <2>2, <2>3, <2>4
<1>3. CASE Who!AddTravellerProfile(h)
  <2>1. call[h].op = "traveller" /\ call[h].pc = "addTraveller"
    BY <1>3 DEF Who!AddTravellerProfile, Who!At
  <2>2. /\ ~travellerProfile => call'[h].op = "traveller" /\ call'[h].pc = "setTraveller"
        /\ travellerProfile => call'[h].op = "none" /\ call'[h].pc = "idle"
        /\ call' \in [Handlers -> WhoCall]
        /\ \A g \in Handlers \ {h} : call'[g] = call[g]
    BY <1>0, <1>3, <2>1, WhoGoes, WhoReturns DEF Who!AddTravellerProfile, Who!Require
  <2>3. WhoStep(h)
    BY <1>0, <1>3, <2>1, <2>2 DEF Who!AddTravellerProfile, Who!Reads, WhoStep, Written, WhoInv,
       FlagsMatchProfiles, Who!FlagsMatchProfiles, Who!TypeOK, Who!Flags
  <2>4. Alone /\ call[h].op # "business" => AloneStep(h)
    BY <1>0, <1>3, <2>1, <2>2 DEF Who!AddTravellerProfile, Who!Reads, AloneStep, Alone, Looked, WhoInv,
       FlagsMatchProfiles, Who!FlagsMatchProfiles, Written, Isolated, Who!Isolated, Who!TypeOK, Who!Flags
  <2> QED BY <2>1, <2>2, <2>3, <2>4
<1>4. CASE Who!SetTraveller(h)
  <2>1. call[h].op = "traveller" /\ call[h].pc = "setTraveller"
    BY <1>4 DEF Who!SetTraveller, Who!At
  <2>2. /\ call'[h].op = "none" /\ call'[h].pc = "idle"
        /\ call' \in [Handlers -> WhoCall]
        /\ \A g \in Handlers \ {h} : call'[g] = call[g]
    BY <1>0, <1>4, <2>1, WhoReturns DEF Who!SetTraveller
  <2>3. WhoStep(h)
    BY <1>0, <1>4, <2>1, <2>2 DEF Who!SetTraveller, Who!Reads, WhoStep, Written, WhoInv,
       FlagsMatchProfiles, Who!FlagsMatchProfiles, Who!TypeOK, Who!Flags
  <2>4. Alone /\ call[h].op # "business" => AloneStep(h)
    BY <1>0, <1>4, <2>1, <2>2 DEF Who!SetTraveller, Who!Reads, AloneStep, Alone, Looked, WhoInv,
       FlagsMatchProfiles, Who!FlagsMatchProfiles, Written, Isolated, Who!Isolated, Who!TypeOK, Who!Flags
  <2> QED BY <2>1, <2>2, <2>3, <2>4
<1> QED BY <1>1, <1>2, <1>3, <1>4 DEF Who!Traveller

\* inviteMember, acceptInvite and initBusiness
LEMMA MemberKeeps ==
  ASSUME WhoInv, NEW h \in Handlers, Who!Member(h)
  PROVE  /\ \A g \in Handlers \ {h} : call'[g] = call[g]
         /\ call' \in [Handlers -> WhoCall] /\ call[h].pc # "idle"
         /\ WhoStep(h) /\ (Alone /\ call[h].op # "business" => AloneStep(h))
<1> USE DEF Who!Places
<1>0. Who!TypeOK /\ Written(call[h]) /\ (Alone => Looked(call[h]))
  BY DEF WhoInv, Alone
<1>1. CASE Who!InviteFindUser(h)
  <2>1. call[h].op = "invite" /\ call[h].pc = "findUser"
    BY <1>1 DEF Who!InviteFindUser, Who!At
  <2>2. /\ user.exists /\ ~user.system => call'[h].op = "invite" /\ call'[h].pc = "memberships"
        /\ user.exists /\ user.system => call'[h].op = "none" /\ call'[h].pc = "idle"
        /\ ~user.exists => call'[h].op = "invite" /\ call'[h].pc = "createUser"
        /\ call' \in [Handlers -> WhoCall]
        /\ \A g \in Handlers \ {h} : call'[g] = call[g]
    BY <1>0, <1>1, <2>1, WhoGoes, WhoReturns DEF Who!InviteFindUser, Who!Require
  <2>3. WhoStep(h)
    BY <1>0, <1>1, <2>1, <2>2 DEF Who!InviteFindUser, Who!Reads, WhoStep, Written, WhoInv,
       FlagsMatchProfiles, Who!FlagsMatchProfiles, Who!TypeOK, Who!Flags
  <2>4. Alone /\ call[h].op # "business" => AloneStep(h)
    BY <1>0, <1>1, <2>1, <2>2 DEF Who!InviteFindUser, Who!Reads, AloneStep, Alone, Looked, WhoInv,
       FlagsMatchProfiles, Who!FlagsMatchProfiles, Written, Isolated, Who!Isolated, Who!TypeOK, Who!Flags
  <2> QED BY <2>1, <2>2, <2>3, <2>4
<1>2. CASE Who!InviteCreateUser(h)
  <2>1. call[h].op = "invite" /\ call[h].pc = "createUser"
    BY <1>2 DEF Who!InviteCreateUser, Who!At
  <2>2. /\ ~user.exists => call'[h].op = "invite" /\ call'[h].pc = "memberships"
        /\ user.exists => call'[h].op = "none" /\ call'[h].pc = "idle"
        /\ call' \in [Handlers -> WhoCall]
        /\ \A g \in Handlers \ {h} : call'[g] = call[g]
    BY <1>0, <1>2, <2>1, WhoGoes, WhoReturns DEF Who!InviteCreateUser, Who!Require
  <2>3. WhoStep(h)
    BY <1>0, <1>2, <2>1, <2>2 DEF Who!InviteCreateUser, Who!Reads, WhoStep, Written, WhoInv,
       FlagsMatchProfiles, Who!FlagsMatchProfiles, Who!TypeOK, Who!Flags
  <2>4. Alone /\ call[h].op # "business" => AloneStep(h)
    BY <1>0, <1>2, <2>1, <2>2 DEF Who!InviteCreateUser, Who!Reads, AloneStep, Alone, Looked, WhoInv,
       FlagsMatchProfiles, Who!FlagsMatchProfiles, Written, Isolated, Who!Isolated, Who!TypeOK, Who!Flags
  <2> QED BY <2>1, <2>2, <2>3, <2>4
<1>3. CASE Who!InviteMemberships(h)
  <2>1. call[h].op = "invite" /\ call[h].pc = "memberships"
    BY <1>3 DEF Who!InviteMemberships, Who!At
  <2>2. /\ membership # "active" => call'[h].op = "invite" /\ call'[h].pc = "invite"
        /\ membership = "active" => call'[h].op = "none" /\ call'[h].pc = "idle"
        /\ call' \in [Handlers -> WhoCall]
        /\ \A g \in Handlers \ {h} : call'[g] = call[g]
    BY <1>0, <1>3, <2>1, WhoGoes, WhoReturns DEF Who!InviteMemberships, Who!Require
  <2>3. WhoStep(h)
    BY <1>0, <1>3, <2>1, <2>2 DEF Who!InviteMemberships, Who!Reads, WhoStep, Written, WhoInv,
       FlagsMatchProfiles, Who!FlagsMatchProfiles, Who!TypeOK, Who!Flags
  <2>4. Alone /\ call[h].op # "business" => AloneStep(h)
    BY <1>0, <1>3, <2>1, <2>2 DEF Who!InviteMemberships, Who!Reads, AloneStep, Alone, Looked, WhoInv,
       FlagsMatchProfiles, Who!FlagsMatchProfiles, Written, Isolated, Who!Isolated, Who!TypeOK, Who!Flags
  <2> QED BY <2>1, <2>2, <2>3, <2>4
<1>4. CASE Who!Invite(h)
  <2>1. call[h].op = "invite" /\ call[h].pc = "invite"
    BY <1>4 DEF Who!Invite, Who!At
  <2>2. /\ call'[h].op = "none" /\ call'[h].pc = "idle"
        /\ call' \in [Handlers -> WhoCall]
        /\ \A g \in Handlers \ {h} : call'[g] = call[g]
    BY <1>0, <1>4, <2>1, WhoReturns DEF Who!Invite
  <2>3. WhoStep(h)
    BY <1>0, <1>4, <2>1, <2>2 DEF Who!Invite, Who!Reads, WhoStep, Written, WhoInv,
       FlagsMatchProfiles, Who!FlagsMatchProfiles, Who!TypeOK, Who!Flags
  <2>4. Alone /\ call[h].op # "business" => AloneStep(h)
    BY <1>0, <1>4, <2>1, <2>2 DEF Who!Invite, Who!Reads, AloneStep, Alone, Looked, WhoInv,
       FlagsMatchProfiles, Who!FlagsMatchProfiles, Written, Isolated, Who!Isolated, Who!TypeOK, Who!Flags
  <2> QED BY <2>1, <2>2, <2>3, <2>4
<1>5. CASE Who!AcceptFindInvitation(h)
  <2>1. call[h].op = "accept" /\ call[h].pc = "findUser"
    BY <1>5 DEF Who!AcceptFindInvitation, Who!At
  <2>2. /\ user.exists /\ membership = "invited" => call'[h].op = "accept" /\ call'[h].pc = "activate"
        /\ ~(user.exists /\ membership = "invited") => call'[h].op = "none" /\ call'[h].pc = "idle"
        /\ call' \in [Handlers -> WhoCall]
        /\ \A g \in Handlers \ {h} : call'[g] = call[g]
    BY <1>0, <1>5, <2>1, WhoGoes, WhoReturns DEF Who!AcceptFindInvitation, Who!Require
  <2>3. WhoStep(h)
    BY <1>0, <1>5, <2>1, <2>2 DEF Who!AcceptFindInvitation, Who!Reads, WhoStep, Written, WhoInv,
       FlagsMatchProfiles, Who!FlagsMatchProfiles, Who!TypeOK, Who!Flags
  <2>4. Alone /\ call[h].op # "business" => AloneStep(h)
    BY <1>0, <1>5, <2>1, <2>2 DEF Who!AcceptFindInvitation, Who!Reads, AloneStep, Alone, Looked, WhoInv,
       FlagsMatchProfiles, Who!FlagsMatchProfiles, Written, Isolated, Who!Isolated, Who!TypeOK, Who!Flags
  <2> QED BY <2>1, <2>2, <2>3, <2>4
<1>6. CASE Who!Activate(h)
  <2>1. call[h].op = "accept" /\ call[h].pc = "activate"
    BY <1>6 DEF Who!Activate, Who!At
  <2>2. /\ call'[h].op = "none" /\ call'[h].pc = "idle"
        /\ call' \in [Handlers -> WhoCall]
        /\ \A g \in Handlers \ {h} : call'[g] = call[g]
    BY <1>0, <1>6, <2>1, WhoReturns DEF Who!Activate
  <2>3. WhoStep(h)
    BY <1>0, <1>6, <2>1, <2>2 DEF Who!Activate, Who!Reads, WhoStep, Written, WhoInv,
       FlagsMatchProfiles, Who!FlagsMatchProfiles, Who!TypeOK, Who!Flags
  <2>4. Alone /\ call[h].op # "business" => AloneStep(h)
    BY <1>0, <1>6, <2>1, <2>2 DEF Who!Activate, Who!Reads, AloneStep, Alone, Looked, WhoInv,
       FlagsMatchProfiles, Who!FlagsMatchProfiles, Written, Isolated, Who!Isolated, Who!TypeOK, Who!Flags
  <2> QED BY <2>1, <2>2, <2>3, <2>4
<1>7. CASE Who!Own(h)
  <2>1. call[h].op = "business" /\ call[h].pc = "own"
    BY <1>7 DEF Who!Own, Who!At
  <2>2. /\ call'[h].op = "none" /\ call'[h].pc = "idle"
        /\ call' \in [Handlers -> WhoCall]
        /\ \A g \in Handlers \ {h} : call'[g] = call[g]
    BY <1>0, <1>7, <2>1, WhoReturns DEF Who!Own
  <2>3. WhoStep(h)
    BY <1>0, <1>7, <2>1, <2>2 DEF Who!Own, Who!Reads, WhoStep, Written, WhoInv,
       FlagsMatchProfiles, Who!FlagsMatchProfiles, Who!TypeOK, Who!Flags
  <2>4. Alone /\ call[h].op # "business" => AloneStep(h)
    BY <1>0, <1>7, <2>1, <2>2 DEF Who!Own, Who!Reads, AloneStep, Alone, Looked, WhoInv,
       FlagsMatchProfiles, Who!FlagsMatchProfiles, Written, Isolated, Who!Isolated, Who!TypeOK, Who!Flags
  <2> QED BY <2>1, <2>2, <2>3, <2>4
<1> QED BY <1>1, <1>2, <1>3, <1>4, <1>5, <1>6, <1>7 DEF Who!Member
\* A call that starts has not looked yet.
LEMMA WhoBegins ==
  ASSUME WhoInv, NEW h \in Handlers, Who!Begin(h)
  PROVE  /\ \A g \in Handlers \ {h} : call'[g] = call[g]
         /\ call' \in [Handlers -> WhoCall]
         /\ WhoStep(h) /\ (Alone => AloneStep(h))
<1>1. PICK op \in WhoOps, pc \in {"findUser", "own"} :
        call' = [call EXCEPT ![h] = [op |-> op, pc |-> pc]]
  BY DEF Who!Begin, WhoOps
<1>2. call \in [Handlers -> WhoCall] /\ [op |-> op, pc |-> pc] \in WhoCall
  BY DEF WhoInv, Who!TypeOK, WhoCall, WhoOps, Who!Places
<1>3. call'[h].pc = pc
  BY <1>1, <1>2
<1>4. /\ \A g \in Handlers \ {h} : call'[g] = call[g]
      /\ call' \in [Handlers -> WhoCall]
  BY <1>1, <1>2
<1> QED BY <1>3, <1>4 DEF Who!Begin, Who!Reads, WhoStep, WhoInv, Written, AloneStep, Alone, Looked,
        FlagsMatchProfiles, Who!FlagsMatchProfiles, Isolated, Who!Isolated, Who!TypeOK

\* A call that is cut short leaves what it has written.
LEMMA WhoFails ==
  ASSUME WhoInv, NEW h \in Handlers, Who!Fail(h)
  PROVE  /\ \A g \in Handlers \ {h} : call'[g] = call[g]
         /\ call' \in [Handlers -> WhoCall]
         /\ WhoStep(h) /\ (Alone => AloneStep(h))
<1>1. /\ \A g \in Handlers \ {h} : call'[g] = call[g]
      /\ call' \in [Handlers -> WhoCall] /\ call'[h].op = "none" /\ call'[h].pc = "idle"
  BY WhoReturns DEF Who!Fail, WhoInv
<1> QED BY <1>1 DEF Who!Fail, Who!Reads, WhoStep, WhoInv, Written, AloneStep, Alone, Looked,
        FlagsMatchProfiles, Who!FlagsMatchProfiles, Isolated, Who!Isolated, Who!TypeOK

\* What happens between the calls: a sign-in, and a member who leaves.
LEMMA BetweenCalls ==
  ASSUME WhoInv, Who!SignIn \/ Who!Leave
  PROVE  WhoInv' /\ (Alone => Alone')
<1>1. CASE Who!SignIn
  <2>1. /\ user' \in Who!Flags /\ user'.exists
        /\ user'.system = user.system /\ user'.traveller = user.traveller
    BY <1>1 DEF Who!SignIn, WhoInv, Who!TypeOK, Who!Flags
  <2>2. token' \in {"user", "system"}
        /\ UNCHANGED <<membership, travellerProfile, systemProfile, call>>
    BY <1>1 DEF Who!SignIn
  <2> QED BY <2>1, <2>2 DEF WhoInv, Who!TypeOK, Written, FlagsMatchProfiles, Who!FlagsMatchProfiles,
          Alone, Looked, Isolated, Who!Isolated
<1>2. CASE Who!Leave
  <2>1. /\ UNCHANGED <<user, travellerProfile, systemProfile, token, call>>
        /\ membership # "none" /\ membership' = "left"
    BY <1>2 DEF Who!Leave
  <2> QED BY <2>1 DEF WhoInv, Who!TypeOK, Written, FlagsMatchProfiles, Who!FlagsMatchProfiles,
          Alone, Looked, Isolated, Who!Isolated
<1> QED BY <1>1, <1>2

LEMMA WhoNext ==
  ASSUME WhoInv, Who!Next \/ UNCHANGED whoState
  PROVE  WhoInv' /\ (Alone /\ Serial => Alone')
<1>1. ASSUME NEW h \in Handlers,
             Who!Begin(h) \/ Who!System(h) \/ Who!Traveller(h) \/ Who!Member(h) \/ Who!Fail(h)
      PROVE  WhoInv' /\ (Alone /\ Serial => Alone')
  <2>1. /\ \A g \in Handlers \ {h} : call'[g] = call[g]
        /\ call' \in [Handlers -> WhoCall] /\ WhoStep(h)
        /\ Alone /\ call[h].op # "business" => AloneStep(h)
    BY <1>1, WhoBegins, WhoFails, SystemKeeps, TravellerKeeps, MemberKeeps
  <2>2. WhoInv'
    BY <2>1 DEF WhoInv, WhoStep, Who!TypeOK, Written, WhoCall, WhoOps
  <2>3. ASSUME Alone, Serial PROVE Alone'
    <3>1. \A g \in Handlers \ {h} : Looked(call[g])'
      <4>1. CASE call[h].pc = "idle"
        <5>1. Who!Begin(h) \/ Who!Fail(h)
          BY <1>1, <4>1, SystemKeeps, TravellerKeeps, MemberKeeps
        <5>2. Who!Reads
          BY <5>1 DEF Who!Begin, Who!Fail
        <5> QED BY <2>1, <2>3, <5>2 DEF Who!Reads, Alone, Looked
      <4>2. CASE call[h].pc # "idle"
        <5>1. \A g \in Handlers \ {h} : call'[g].pc = "idle"
          BY <2>1, <2>3, <4>2 DEF Serial
        <5> QED BY <5>1 DEF Looked
      <4> QED BY <4>1, <4>2
    <3> QED BY <2>1, <2>3, <3>1 DEF AloneStep, Alone, Serial
  <2> QED BY <2>2, <2>3
<1>2. CASE UNCHANGED whoState
  BY <1>2 DEF whoState, WhoInv, Who!TypeOK, Written, FlagsMatchProfiles, Who!FlagsMatchProfiles,
     Alone, Looked, Isolated, Who!Isolated
<1> QED BY <1>1, <1>2, BetweenCalls DEF Who!Next

LEMMA WhoInit == Who!Init => WhoInv /\ Alone
<1> SUFFICES ASSUME Who!Init PROVE WhoInv /\ Alone
  OBVIOUS
<1>1. \A h \in Handlers : call[h].op = "none" /\ call[h].pc = "idle"
  BY DEF Who!Init, Who!Idle
<1>2. call \in [Handlers -> WhoCall]
  BY DEF Who!Init, Who!Idle, WhoCall, WhoOps, Who!Places
<1> QED BY <1>1, <1>2 DEF Who!Init, WhoInv, Who!TypeOK, Who!Flags, WhoCall, WhoOps, Written,
        FlagsMatchProfiles, Who!FlagsMatchProfiles, Alone, Looked, Isolated, Who!Isolated

----------------------------------------------------------------------------
\* The invariant of the runs' specification, in which one of the two components moves.
AccountsInv == IInv /\ WhoInv /\ (focus = "serial" => Serial /\ Alone)

LEMMA AccountsKept == MCSpec => []AccountsInv
<1>1. MCInit => AccountsInv
  BY Initially, WhoInit DEF MCInit, AccountsInv, Serial, Who!Init, Who!Idle
<1>2. AccountsInv /\ [MCNext]_<<focus, vars, whoState>> => AccountsInv'
  <2> SUFFICES ASSUME AccountsInv, [MCNext]_<<focus, vars, whoState>> PROVE AccountsInv'
    OBVIOUS
  <2>1. [Next]_vars /\ (Who!Next \/ UNCHANGED whoState) /\ UNCHANGED focus
        /\ (focus = "serial" => Serial' \/ UNCHANGED whoState)
    BY DEF MCNext
  <2>2. IInv'
    BY <2>1, NextKeeps DEF AccountsInv
  <2>3. WhoInv' /\ (Alone /\ Serial => Alone')
    BY <2>1, WhoNext DEF AccountsInv
  <2>4. focus = "serial" => Serial'
    BY <2>1 DEF AccountsInv, Serial, whoState
  <2> QED BY <2>1, <2>2, <2>3, <2>4 DEF AccountsInv
<1> QED BY <1>1, <1>2, PTL DEF MCSpec

\* The state of both components is of its type (BothTypesOK).
THEOREM AccountsTyped == MCSpec => []BothTypesOK
<1>1. AccountsInv => BothTypesOK
  BY DEF AccountsInv, IInv, WhoInv, BothTypesOK
<1> QED BY <1>1, AccountsKept, PTL

\* createSystemUser and activateTravellerProfile: a system profile belongs to a system
\* user and a traveller has a profile, with any number of calls in flight and wherever
\* they stop (FlagsMatchProfiles).
THEOREM FlagsAgree == MCSpec => []FlagsMatchProfiles
<1>1. AccountsInv => FlagsMatchProfiles
  BY DEF AccountsInv, WhoInv
<1> QED BY <1>1, AccountsKept, PTL

\* "System users are isolated from traveller/business identities": where calls follow
\* one another and no old token is relied on, no system user is a traveller or a member
\* (IsolatedSerially).
THEOREM SystemUsersApart == MCSpec => []IsolatedSerially
<1>1. AccountsInv => IsolatedSerially
  BY DEF AccountsInv, Alone, Isolated, IsolatedSerially
<1> QED BY <1>1, AccountsKept, PTL
=============================================================================
