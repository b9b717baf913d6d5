----------------------------- MODULE MCSessions -----------------------------
(***************************************************************************)
(* Small instances of Sessions in one run: calls that overlap on the        *)
(* sessions of a user who is not activated again, or calls one at a time on *)
(* those of a system user, who may be.  The scenario is chosen in the      *)
(* initial state; one at a time, sessions are terminated twice.            *)
(***************************************************************************)
EXTENDS Sessions, TLC

VARIABLE scenario

Serial == scenario = "serial"
OneAtATime == \A g, h \in Handlers : req[g].pc # "idle" /\ req[h].pc # "idle" => g = h
Cast == IF Serial THEN SystemUsers ELSE Users \ SystemUsers

MCInit == Init /\ scenario \in {"serial", "shared"}
MCNext ==
  /\ Next
  /\ Serial => OneAtATime'
  /\ \A h \in Handlers : req'[h].user \in Cast \cup {None}
  /\ Users \ active' \subseteq Cast
  /\ ~Serial => \A u \in Users : era'[u] <= 1
  /\ UNCHANGED scenario
MCSpec == MCInit /\ [][MCNext]_<<vars, scenario>>

\* "Refresh token pair (strict rotation).": one call at a time, crashes between its
\* steps included, a token is exchanged once.
StrictRotationSerially == Serial => StrictRotation

\* 'Security violation detected. All sessions terminated.': one call at a time, no
\* session that goes back to a login before the termination is alive after it.
AllTerminatedSerially == Serial => AllTerminated

Symmetry == Permutations(Tokens) \cup Permutations(Handlers)
=============================================================================
