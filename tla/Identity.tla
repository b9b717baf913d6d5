------------------------------- MODULE Identity -------------------------------
(***************************************************************************)
(* What one e-mail address stands for: nobody, a user, a traveller, a      *)
(* member of a business, a system user.  Four services make it one or the  *)
(* other, each after looking whether it is something else, in other        *)
(* collections and with an await before and after every look.              *)
(***************************************************************************)
CONSTANTS
  Handlers,  \* bound: calls in flight at a time
  Ops        \* the calls a run allows

IdentityAssumption == Ops \subseteq {"system", "traveller", "invite", "accept", "business"}

VARIABLES
  user,              \* the user document: whether it exists, and its flags
  membership,        \* its membership in the one business
  travellerProfile,  \* whether a TravellerProfile refers to it
  systemProfile,     \* whether a SystemUserProfile refers to it
  token,             \* what a token that it holds says of isSystemUser, if it has one
  req                \* req[h]: the call in handler h

vars == <<user, membership, travellerProfile, systemProfile, token, req>>

Flags == [exists: BOOLEAN, system: BOOLEAN, traveller: BOOLEAN]

Places == {"idle", "findUser", "memberships", "findTraveller", "findSystem", "createUser",
           "setSystem", "addSystem", "addTraveller", "setTraveller", "invite",
           "activate", "own"}

TypeOK ==
  /\ user \in Flags
  /\ membership \in {"none", "invited", "active", "left"}
  /\ travellerProfile \in BOOLEAN /\ systemProfile \in BOOLEAN
  /\ token \in {"none", "user", "system"}
  /\ req \in [Handlers -> [op: Ops \cup {"none"}, pc: Places]]

Idle == [op |-> "none", pc |-> "idle"]

Init ==
  /\ user = [exists |-> FALSE, system |-> FALSE, traveller |-> FALSE]
  /\ membership = "none" /\ travellerProfile = FALSE /\ systemProfile = FALSE
  /\ token = "none"
  /\ req = [h \in Handlers |-> Idle]

At(h, op, pc) == req[h] = [op |-> op, pc |-> pc]
Goto(h, pc) == req' = [req EXCEPT ![h].pc = pc]
Return(h) == req' = [req EXCEPT ![h] = Idle]
\* The call goes on if what it asks for holds, and is refused otherwise.
Require(h, condition, pc) == IF condition THEN Goto(h, pc) ELSE Return(h)
Reads == UNCHANGED <<user, membership, travellerProfile, systemProfile, token>>

----------------------------------------------------------------------------
\* The user signs in or refreshes, with an e-mail nobody knew too.
SignIn ==
  /\ user' = [user EXCEPT !.exists = TRUE]
  /\ token' = IF user.system THEN "system" ELSE "user"
  /\ UNCHANGED <<membership, travellerProfile, systemProfile, req>>

\* A call starts; a traveller or an owner comes with a token, which need not be new.
Begin(h) ==
  /\ req[h] = Idle
  /\ \/ \E op \in Ops \ {"traveller", "business"} :
          req' = [req EXCEPT ![h] = [op |-> op, pc |-> "findUser"]]
     \/ /\ "traveller" \in Ops /\ token # "none"
        /\ req' = [req EXCEPT ![h] = [op |-> "traveller", pc |-> "findUser"]]
     \/ /\ "business" \in Ops /\ token = "user"
        /\ req' = [req EXCEPT ![h] = [op |-> "business", pc |-> "own"]]
  /\ Reads

----------------------------------------------------------------------------
\* createSystemUser
SystemFindUser(h) ==
  /\ At(h, "system", "findUser")
  /\ IF ~user.exists THEN Goto(h, "createUser") ELSE Require(h, ~user.traveller, "memberships")
  /\ Reads

SystemMemberships(h) ==
  /\ At(h, "system", "memberships")
  /\ Require(h, membership \in {"none", "left"}, "findTraveller")
  /\ Reads

\* A faulty variant: the flag isTraveller is trusted.
NoTravellerFlag == TRUE
NoTraveller == ~travellerProfile

SystemFindTraveller(h) ==
  /\ At(h, "system", "findTraveller")
  /\ Require(h, NoTraveller, "findSystem")
  /\ Reads

SystemFindSystem(h) ==
  /\ At(h, "system", "findSystem")
  /\ Require(h, ~systemProfile, "setSystem")
  /\ Reads

SetSystem(h) ==
  /\ At(h, "system", "setSystem")
  /\ user' = [exists |-> TRUE, system |-> TRUE, traveller |-> FALSE]
  /\ Goto(h, "addSystem")
  /\ UNCHANGED <<membership, travellerProfile, systemProfile, token>>

\* A faulty variant: the roles of a new user are left for later.
CreateSystemUserPlain(h) ==
  /\ At(h, "system", "createUser")
  /\ IF user.exists THEN Return(h) /\ UNCHANGED user
     ELSE /\ user' = [exists |-> TRUE, system |-> FALSE, traveller |-> FALSE]
          /\ Goto(h, "addSystem")
  /\ UNCHANGED <<membership, travellerProfile, systemProfile, token>>

\* The e-mail is unique: a user that has appeared meanwhile is an error.
CreateSystemUser(h) ==
  /\ At(h, "system", "createUser")
  /\ IF user.exists THEN Return(h) /\ UNCHANGED user
     ELSE /\ user' = [exists |-> TRUE, system |-> TRUE, traveller |-> FALSE]
          /\ Goto(h, "addSystem")
  /\ UNCHANGED <<membership, travellerProfile, systemProfile, token>>

\* One profile per user, by a unique index.
AddSystemProfile(h) ==
  /\ At(h, "system", "addSystem")
  /\ systemProfile' = TRUE
  /\ Return(h)
  /\ UNCHANGED <<user, membership, travellerProfile, token>>

----------------------------------------------------------------------------
\* activateTravellerProfile
TravellerFindUser(h) ==
  /\ At(h, "traveller", "findUser")
  /\ Require(h, user.exists /\ ~user.system, "findTraveller")
  /\ Reads

TravellerFindProfile(h) ==
  /\ At(h, "traveller", "findTraveller")
  /\ Require(h, ~travellerProfile, "addTraveller")
  /\ Reads

AddTravellerProfile(h) ==
  /\ At(h, "traveller", "addTraveller")
  /\ IF travellerProfile THEN Return(h) ELSE Goto(h, "setTraveller")
  /\ travellerProfile' = TRUE
  /\ UNCHANGED <<user, membership, systemProfile, token>>

\* activateTraveller
SetTraveller(h) ==
  /\ At(h, "traveller", "setTraveller")
  /\ user' = [user EXCEPT !.traveller = TRUE]
  /\ token' = IF user.system THEN "system" ELSE "user"
  /\ Return(h)
  /\ UNCHANGED <<membership, travellerProfile, systemProfile>>

----------------------------------------------------------------------------
\* inviteMember
InviteFindUser(h) ==
  /\ At(h, "invite", "findUser")
  /\ IF user.exists THEN Require(h, ~user.system, "memberships") ELSE Goto(h, "createUser")
  /\ Reads

InviteCreateUser(h) ==
  /\ At(h, "invite", "createUser")
  /\ IF user.exists THEN Return(h) ELSE Goto(h, "memberships")
  /\ user' = [user EXCEPT !.exists = TRUE]
  /\ UNCHANGED <<membership, travellerProfile, systemProfile, token>>

InviteMemberships(h) ==
  /\ At(h, "invite", "memberships")
  /\ Require(h, membership # "active", "invite")
  /\ Reads

\* A faulty variant: a status that no other call knows.
InvitePending(h) ==
  /\ At(h, "invite", "invite")
  /\ membership' = "pending"
  /\ Return(h)
  /\ UNCHANGED <<user, travellerProfile, systemProfile, token>>

\* upsertInvitation
Invite(h) ==
  /\ At(h, "invite", "invite")
  /\ membership' = "invited"
  /\ Return(h)
  /\ UNCHANGED <<user, travellerProfile, systemProfile, token>>

\* acceptInvite, past the code that OtpLogin models.
AcceptFindInvitation(h) ==
  /\ At(h, "accept", "findUser")
  /\ Require(h, user.exists /\ membership = "invited", "activate")
  /\ Reads

\* activateMembership, and the tokens.
Activate(h) ==
  /\ At(h, "accept", "activate")
  /\ membership' = "active"
  /\ token' = IF user.system THEN "system" ELSE "user"
  /\ Return(h)
  /\ UNCHANGED <<user, travellerProfile, systemProfile>>

\* removeMember
Leave ==
  /\ membership # "none"
  /\ membership' = "left"
  /\ UNCHANGED <<user, travellerProfile, systemProfile, token, req>>

\* initBusiness: the token has said that this is no system user.
Own(h) ==
  /\ At(h, "business", "own")
  /\ membership' = "active"
  /\ Return(h)
  /\ UNCHANGED <<user, travellerProfile, systemProfile, token>>

\* An exception or a crash: what the call has written stays.
Fail(h) ==
  /\ req[h] # Idle
  /\ Return(h)
  /\ Reads

System(h) ==
  \/ SystemFindUser(h) \/ SystemMemberships(h) \/ SystemFindTraveller(h)
  \/ SystemFindSystem(h) \/ SetSystem(h) \/ CreateSystemUser(h) \/ AddSystemProfile(h)
Traveller(h) ==
  TravellerFindUser(h) \/ TravellerFindProfile(h) \/ AddTravellerProfile(h) \/ SetTraveller(h)
Member(h) ==
  \/ InviteFindUser(h) \/ InviteCreateUser(h) \/ InviteMemberships(h) \/ Invite(h)
  \/ AcceptFindInvitation(h) \/ Activate(h) \/ Own(h)

Next ==
  \/ \E h \in Handlers : Begin(h) \/ System(h) \/ Traveller(h) \/ Member(h) \/ Fail(h)
  \/ SignIn \/ Leave

Spec == Init /\ [][Next]_vars

----------------------------------------------------------------------------
\* "System users are isolated from traveller/business identities".
Isolated ==
  user.system => /\ ~user.traveller /\ ~travellerProfile
                 /\ membership \in {"none", "left"}

\* createSystemUser and activateTravellerProfile write a flag and a profile, one after
\* the other and each in its own order: a system profile always belongs to a system
\* user, and a traveller always has a profile, whatever overlaps and wherever it stops.
FlagsMatchProfiles ==
  /\ systemProfile => user.system
  /\ user.traveller => travellerProfile
=============================================================================
