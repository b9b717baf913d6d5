------------------------------ MODULE MCOtpLogin ------------------------------
(***************************************************************************)
(* Small instances of OtpLogin in one run, by a scenario chosen in the     *)
(* initial state: one call at a time for some ticks of the clock, or calls *)
(* that overlap while the clock stands still.                              *)
(***************************************************************************)
EXTENDS OtpLogin, TLC

VARIABLE scenario

Serial == scenario = "serial"

\* One call at a time
OneAtATime == \A g, h \in Handlers : req[g].pc # "idle" /\ req[h].pc # "idle" => g = h

\* bounds of the overlapping calls: the time, the wrong codes and the locks
MCInit == Init /\ scenario \in {"serial", "shared"}
MCNext ==
  /\ Next
  /\ IF Serial THEN OneAtATime'
     ELSE now' = 0 /\ guesses' <= 1 /\ lockUntil' = 0
  /\ UNCHANGED scenario
MCSpec == MCInit /\ [][MCNext]_<<vars, scenario>>

\* "Lock after 5 failed attempts": one call at a time, no more wrong codes than that
\* are answered between a login or a lock and the next lock.
LockAfterFailuresSerially == Serial => LockAfterFailures

\* 'Account is temporarily locked': one call at a time, while it is, no code is taken.
LockHoldsSerially == [][Serial => TakenUnlocked]_<<vars, scenario>>

\* "One-time password": one call at a time, a request for a code is good for one login.
OnceSerially == Serial => Once

Symmetry == Permutations(Handlers)
=============================================================================
