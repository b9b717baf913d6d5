------------------------------ MODULE MCAccounts ------------------------------
(***************************************************************************)
(* Small instances of the two components that make accounts what they are: *)
(* Onboarding and Identity.  They share no state in the models, so the     *)
(* initial state chooses the one that runs, and the other stands still.    *)
(***************************************************************************)
EXTENDS Onboarding, TLC

VARIABLES
  focus,
  user, membership, travellerProfile, systemProfile, token, call  \* of Identity

Who == INSTANCE Identity WITH
  Ops <- {"system", "traveller", "invite", "accept", "business"}, req <- call

\* The assumptions of the components hold of these values.
ASSUME WhoAssumption == Who!IdentityAssumption

whoState == <<user, membership, travellerProfile, systemProfile, token, call>>

\* "serial": one identity call at a time, and none that relies on an old token.
Focuses == {"onboarding", "identity", "serial"}
Serial ==
  /\ \A h \in Handlers : call[h].op # "business"
  /\ \A g, h \in Handlers : call[g].pc # "idle" /\ call[h].pc # "idle" => g = h

MCInit == Init /\ Who!Init /\ focus \in Focuses

MCNext ==
  /\ UNCHANGED focus
  /\ \/ focus = "onboarding" /\ Next /\ UNCHANGED whoState
     \/ focus = "identity" /\ Who!Next /\ UNCHANGED vars
     \/ focus = "serial" /\ Who!Next /\ Serial' /\ UNCHANGED vars

MCSpec == MCInit /\ [][MCNext]_<<focus, vars, whoState>>

Symmetry == Permutations(Handlers) \cup Permutations(Applicants) \cup Permutations(Required)

\* The types of both.
BothTypesOK == TypeOK /\ Who!TypeOK

\* createSystemUser and activateTravellerProfile: the flags of a user and the profiles
\* never contradict each other, whatever calls overlap and wherever they stop.
FlagsMatchProfiles == Who!FlagsMatchProfiles

\* createSystemUser, "System users are isolated from traveller/business identities".
Isolated == Who!Isolated

\* The same of calls that follow one another, cut short anywhere.
IsolatedSerially == focus = "serial" => Who!Isolated
=============================================================================
