---------------------------- MODULE DistributedTx ----------------------------
(***************************************************************************)
(* One distributed transaction of ConnectionManagerService: branches in    *)
(* several databases are enlisted, then committed or rolled back together  *)
(* by requests sent side by side.  The requests end one by one, and a call *)
(* goes on when all of its own have ended or one commit has failed.        *)
(***************************************************************************)
EXTENDS FiniteSets

CONSTANTS
  Branches,  \* the PostgreSQL and MongoDB connections that take part
  Callers,   \* bound: the calls that end the transaction
  Faulty     \* the branches whose requests may fail

ASSUME TxAssumption == Faulty \subseteq Branches

VARIABLES
  status,      \* of the transaction
  registered,  \* whether distributedTransactions holds it
  timer,       \* whether a setTimeout is going to delete it
  connections, \* the enlisted branches
  branch,      \* branch[b]: the state of the work in that database
  call         \* call[c]: the call c

vars == <<status, registered, timer, connections, branch, call>>

Call == [pc: {"idle", "commit", "catch", "rollback", "done"},
         asked: SUBSET Branches,      \* the branches it has told to commit
         committing: SUBSET Branches, \* its commits that are on their way
         aborting: SUBSET Branches]   \* its rollbacks that are on their way

TypeOK ==
  /\ status \in {"pending", "committed", "rolled_back"}
  /\ registered \in BOOLEAN /\ timer \in BOOLEAN
  /\ connections \subseteq Branches
  /\ branch \in [Branches -> {"open", "committed", "aborted"}]
  /\ call \in [Callers -> Call]

Idle == [pc |-> "idle", asked |-> {}, committing |-> {}, aborting |-> {}]

\* beginDistributedTransaction
Init ==
  /\ status = "pending" /\ registered = TRUE /\ timer = FALSE
  /\ connections = {}
  /\ branch = [b \in Branches |-> "open"]
  /\ call = [c \in Callers |-> Idle]

\* addToDistributedTransaction
Enlist(b) ==
  /\ registered /\ status = "pending" /\ b \notin connections
  /\ connections' = connections \cup {b}
  /\ UNCHANGED <<status, registered, timer, branch, call>>

----------------------------------------------------------------------------
\* commitDistributedTransaction: the status stays pending while the commits are on
\* their way.
Commit(c) ==
  /\ call[c].pc = "idle" /\ registered /\ status = "pending"
  /\ call' = [call EXCEPT ![c] = [pc |-> "commit", asked |-> connections,
                                  committing |-> connections, aborting |-> {}]]
  /\ UNCHANGED <<status, registered, timer, connections, branch>>

\* A database has committed.
CommitSucceeds(c, b) ==
  /\ b \in call[c].committing /\ branch[b] # "aborted"
  /\ branch' = [branch EXCEPT ![b] = "committed"]
  /\ call' = [call EXCEPT ![c].committing = @ \ {b}]
  /\ UNCHANGED <<status, registered, timer, connections>>

\* A database has not, or had ended the branch before, or has and its answer is lost.
\* The first failure ends the wait of Promise.all, and the other commits go on.
CommitFails(c, b) ==
  /\ b \in call[c].committing /\ (b \in Faulty \/ branch[b] # "open")
  /\ \/ UNCHANGED branch
     \/ /\ branch[b] = "open"
        /\ \E end \in {"aborted", "committed"} : branch' = [branch EXCEPT ![b] = end]
  /\ call' = [call EXCEPT ![c].committing = @ \ {b},
                          ![c].pc = IF @ = "commit" THEN "catch" ELSE @]
  /\ UNCHANGED <<status, registered, timer, connections>>

\* Two faulty variants: Promise.race, and no setTimeout.
CommittedEarly(c) ==
  /\ call[c].pc = "commit"
  /\ call[c].asked # {} => call[c].committing # call[c].asked
  /\ status' = "committed" /\ timer' = TRUE
  /\ call' = [call EXCEPT ![c].pc = "done"]
  /\ UNCHANGED <<registered, connections, branch>>
CommittedForEver(c) ==
  /\ call[c].pc = "commit" /\ call[c].committing = {}
  /\ status' = "committed"
  /\ call' = [call EXCEPT ![c].pc = "done"]
  /\ UNCHANGED <<registered, timer, connections, branch>>

\* Promise.all has resolved.
Committed(c) ==
  /\ call[c].pc = "commit" /\ call[c].committing = {}
  /\ status' = "committed" /\ timer' = TRUE
  /\ call' = [call EXCEPT ![c].pc = "done"]
  /\ UNCHANGED <<registered, connections, branch>>

----------------------------------------------------------------------------
\* rollbackDistributedTransaction, called from outside, by cleanupOldTransactions or
\* in the catch of a commit.
Rollback(c) ==
  /\ call[c].pc \in {"idle", "catch"} /\ registered /\ status # "rolled_back"
  /\ call' = [call EXCEPT ![c].pc = "rollback", ![c].aborting = connections]
  /\ UNCHANGED <<status, registered, timer, connections, branch>>

\* A faulty variant: that the transaction may be forgotten is not thought of.
NoRollbackKnown(c) ==
  /\ call[c].pc = "catch" /\ registered /\ status = "rolled_back"
  /\ timer' = TRUE
  /\ call' = [call EXCEPT ![c].pc = "done"]
  /\ UNCHANGED <<status, registered, connections, branch>>

\* In the catch it may find the transaction rolled back, or forgotten.
NoRollback(c) ==
  /\ call[c].pc = "catch" /\ ~(registered /\ status # "rolled_back")
  /\ timer' = TRUE
  /\ call' = [call EXCEPT ![c].pc = "done"]
  /\ UNCHANGED <<status, registered, connections, branch>>

\* A database answers; no answer stops the others.  It does nothing to a branch that
\* has ended or is about to commit.
EndRollback(c, b) ==
  LET ends == branch[b] = "open" /\ \A d \in Callers : b \notin call[d].committing IN
  /\ b \in call[c].aborting
  /\ \/ ends /\ branch' = [branch EXCEPT ![b] = "aborted"]
     \/ (~ends \/ b \in Faulty) /\ UNCHANGED branch
  /\ call' = [call EXCEPT ![c].aborting = @ \ {b}]
  /\ UNCHANGED <<status, registered, timer, connections>>

RolledBack(c) ==
  /\ call[c].pc = "rollback" /\ call[c].aborting = {}
  /\ status' = "rolled_back" /\ timer' = TRUE
  /\ call' = [call EXCEPT ![c].pc = "done"]
  /\ UNCHANGED <<registered, connections, branch>>

\* The timer of a minute.
Delete ==
  /\ timer
  /\ registered' = FALSE /\ timer' = FALSE
  /\ UNCHANGED <<status, connections, branch, call>>

\* cleanupOldTransactions, when the transaction has ended.
Sweep ==
  /\ registered /\ status # "pending"
  /\ registered' = FALSE
  /\ UNCHANGED <<status, timer, connections, branch, call>>

----------------------------------------------------------------------------
CallStep(c) ==
  \/ Committed(c) \/ (call[c].pc = "catch" /\ Rollback(c)) \/ NoRollback(c) \/ RolledBack(c)
  \/ \E b \in Branches :
       CommitSucceeds(c, b) \/ CommitFails(c, b) \/ EndRollback(c, b)

Next ==
  \/ \E b \in Branches : Enlist(b)
  \/ \E c \in Callers : Commit(c) \/ (call[c].pc = "idle" /\ Rollback(c)) \/ CallStep(c)
  \/ Delete \/ Sweep

Spec == Init /\ [][Next]_vars

\* Every request to a database is answered, an error included, and the event loop runs
\* what has become ready.
FairSpec == Spec /\ (\A c \in Callers : WF_vars(CallStep(c))) /\ WF_vars(Delete)

----------------------------------------------------------------------------
\* A transaction that is declared committed by a call has been committed by all the
\* databases that the call asked, whatever else commits or rolls it back meanwhile.
CommitTruthful ==
  [][\A c \in Callers : call[c].pc = "commit" /\ call'[c].pc = "done"
       => \A b \in call[c].asked : branch[b] = "committed"]_vars

\* Every call that was started comes to its end, and, "The transaction record is cleaned up
\* after 60 seconds", once one has ended the transaction is not kept, however the calls
\* overlap or fail.
Waiting ==
  \E c \in Callers : call[c].pc \notin {"idle", "done"} \/ (call[c].pc = "done" /\ registered)
Answered == Waiting ~> ~Waiting
=============================================================================
