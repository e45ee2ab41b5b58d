---------------------------- MODULE WorldSafety ----------------------------
(***************************************************************************)
(* Cities, residents and the sanctions of the world                        *)
(* (apps/lobster-waku-gateway/src/city_runtime.rs,                         *)
(* governance_mutation_runtime.rs and the administrator's part of          *)
(* core_runtime.rs).                                                       *)
(*                                                                         *)
(* Every handler runs under the runtime mutex.  Memberships, sanctions and *)
(* the blacklist are saved in one file, registrations in another, each as  *)
(* a whole; a write may fail, and only some handlers undo their change     *)
(* when it does.  Isolating a city sanctions its members one after the     *)
(* other with a save for each, then saves both files once more: it is the  *)
(* one handler that takes several steps here, a restart or a failed write  *)
(* ends it anywhere, and it may be asked for again.                        *)
(*                                                                         *)
(* A resident has an email and devices; a mobile number is on the          *)
(* registration it signed in with.  There are two ways to sign in: a code  *)
(* sent to the email, which asks the blacklist for every handle named and  *)
(* keeps to the resident's email, and a code sent to a mobile number,      *)
(* which asks it for that number only and goes by the number's             *)
(* registration or else by the resident named.  The email that the second  *)
(* makes up for a new registration is nobody's handle.                     *)
(* World stewards and administrators are allowed what they ask for; the    *)
(* lord of a city is a membership.  The cities of the model are those      *)
(* created after the first start; the seeded ones are like them.  No code  *)
(* sets the membership states Muted, Suspended and Removed.                *)
(***************************************************************************)
EXTENDS Naturals, Sequences, FiniteSets

CONSTANTS
  Resident,
  City,
  Approval,      \* cities that approve who joins
  Device,        \* the devices that each resident has
  Mobile,        \* mobile numbers
  MaxSanctions,  \* bound: sanctions on record
  MaxFaults      \* bound: failed writes and restarts

ASSUME WorldSafetyConstants ==
  /\ Approval \subseteq City
  /\ Mobile \cap (Resident \X ({"email"} \cup Device)) = {}
  /\ {MaxSanctions, MaxFaults} \subseteq Nat

VARIABLES
  member,        \* GatewayRuntime::memberships: the standing in each city
  sanctions,     \* resident_sanctions
  blacklist,     \* registration_blacklist
  registration,  \* registrations
  savedGovernance,  \* the governance file
  savedAuth,     \* the registrations in the authentication file
  cascade,       \* the isolation of a city in progress
  banned,        \* history: residents whose ban was confirmed and not lifted
  burnt,         \* history: handles that isolations that were confirmed blacklisted
  sentenced,     \* history: residents whose handles those were, until they sign in
                 \* with a mobile number that is not burnt
  faults         \* failed writes and restarts, for the bound

governance == <<member, sanctions, blacklist>>
files == <<savedGovernance, savedAuth>>
history == <<banned, burnt, sentenced>>
vars == <<governance, registration, files, cascade, history, faults>>

\* What a steward may do more than other residents (freeze a room, announce) is
\* outside this module: both are members.
Standing == {"none", "pending", "member", "lord"}
Handle == (Resident \X ({"email"} \cup Device)) \cup Mobile
Sanction ==
  [resident : Resident, revoking : BOOLEAN, cascaded : BOOLEAN, active : BOOLEAN]

\* The state of a registration and the email, mobile and devices on it.
Registration == [state : {"none", "Active", "Suspended"}, handles : SUBSET Handle]
Unregistered == [state |-> "none", handles |-> {}]

\* No isolation in progress.
Idle ==
  [stage |-> "idle", blacklists |-> FALSE, members |-> {}, todo |-> {}, done |-> {}]

\* governance_snapshot: what the governance file holds.
Governance == [member |-> member, sanctions |-> sanctions, blacklist |-> blacklist]

Init ==
  /\ member = [c \in City |-> [r \in Resident |-> "none"]]
  /\ sanctions = <<>>
  /\ blacklist = {}
  /\ registration = [r \in Resident |-> Unregistered]
  /\ savedGovernance = Governance
  /\ savedAuth = registration
  /\ cascade = Idle
  /\ banned = {}
  /\ burnt = {}
  /\ sentenced = {}
  /\ faults = 0

----------------------------------------------------------------------------
(* The operators of the runtime. *)

Exists(c) == \E r \in Resident : member[c][r] # "none"

Active(c) == {r \in Resident : member[c][r] \in {"member", "lord"}}

IsRegistered(r) == registration[r].state # "none"

\* The handles of a registration, as the blacklist has them.
Handles(r) == registration[r].handles

\* Residents with an active sanction of any kind.
SanctionedIn(book) ==
  {r \in Resident : \E i \in DOMAIN book : book[i].resident = r /\ book[i].active}

\* resident_portability_revoked.
RevokedIn(book) ==
  {r \in Resident : \E i \in DOMAIN book :
     book[i].resident = r /\ book[i].active /\ book[i].revoking}

Revoked == RevokedIn(sanctions)

Issued(r, revoking, cascaded) ==
  Append(sanctions, [resident |-> r, revoking |-> revoking, cascaded |-> cascaded,
                     active |-> TRUE])

Lifted(indices) ==
  [i \in DOMAIN sanctions |->
     IF i \in indices THEN [sanctions[i] EXCEPT !.active = FALSE] ELSE sanctions[i]]

SaveGovernance ==
  /\ savedGovernance' = Governance'
  /\ UNCHANGED <<savedAuth, faults>>

SaveAuth ==
  /\ savedAuth' = registration'
  /\ UNCHANGED <<savedGovernance, faults>>

\* A file cannot be written.
WriteFails ==
  /\ faults < MaxFaults
  /\ faults' = faults + 1
  /\ UNCHANGED files

----------------------------------------------------------------------------
(* Cities and their members.  None of these undoes a change it cannot save. *)

CreateCity(c, lord) ==
  /\ cascade = Idle
  /\ ~Exists(c)
  /\ member' = [member EXCEPT ![c][lord] = "lord"]
  /\ UNCHANGED <<sanctions, blacklist, registration, cascade, history>>
  /\ SaveGovernance \/ WriteFails

JoinCity(c, r) ==
  /\ cascade = Idle
  /\ Exists(c)
  /\ r \notin Revoked
  /\ registration[r].state = "Active"
  /\ member[c][r] = "none"
  /\ member' = [member EXCEPT ![c][r] =
                  IF c \in Approval THEN "pending" ELSE "member"]
  /\ UNCHANGED <<sanctions, blacklist, registration, cascade, history>>
  /\ SaveGovernance \/ WriteFails

\* The one who approves is a lord of the city; whoever is a member already is
\* saved once more as before.
ApproveCityJoin(c, lord, r) ==
  /\ cascade = Idle
  /\ member[c][lord] = "lord"
  /\ member[c][r] # "none"
  /\ member' = [member EXCEPT ![c][r] = IF @ = "pending" THEN "member" ELSE @]
  /\ UNCHANGED <<sanctions, blacklist, registration, cascade, history>>
  /\ SaveGovernance \/ WriteFails

\* Any active member is made a steward or a plain resident, and the lord is one
\* of them.
UpdateSteward(c, lord, r) ==
  /\ cascade = Idle
  /\ member[c][lord] = "lord"
  /\ r \in Active(c)
  /\ member' = [member EXCEPT ![c][r] = "member"]
  /\ UNCHANGED <<sanctions, blacklist, registration, cascade, history>>
  /\ SaveGovernance \/ WriteFails

\* Every other handler that saves the governance state: rooms, notices, reports,
\* the trust in a city.
SaveOther ==
  /\ cascade = Idle
  /\ UNCHANGED <<governance, registration, cascade, history>>
  /\ SaveGovernance

\* The handles of a registration after a sign-in: the number is replaced, devices
\* add up.
SignedIn(r, used) == [state |-> "Active", handles |-> (Handles(r) \ Mobile) \cup used]

\* verify_email_otp (see EmailOtp): a blacklisted handle is refused, and so is a
\* registration of another email; a suspended one is active again.
SignIn(r, mobile, devices) ==
  LET used == ({r} \X ({"email"} \cup devices)) \cup mobile
  IN /\ cascade = Idle
     /\ used \cap blacklist = {}
     /\ IsRegistered(r) => <<r, "email">> \in Handles(r)
     /\ registration' = [registration EXCEPT ![r] = SignedIn(r, used)]
     /\ UNCHANGED <<governance, cascade, history>>
     /\ SaveAuth \/ WriteFails

\* The registration a mobile number signs in to: one that has the number, or else
\* that of the resident named.
Bearers(n, named) ==
  LET holders == {r \in Resident : n \in Handles(r)}
  IN IF holders = {} THEN {named} ELSE holders

\* Faulty variant: does not look the number up.
MobileNotAsked(n) == TRUE

MobileAllowed(n) == n \notin blacklist

\* verify_mobile_otp: no other handle is looked up, and a suspended registration
\* is active again.
MobileSignIn(n, r, devices) ==
  /\ cascade = Idle
  /\ MobileAllowed(n)
  /\ registration' = [registration EXCEPT ![r] =
                        SignedIn(r, {n} \cup ({r} \X devices))]
  /\ sentenced' = IF n \in burnt THEN sentenced ELSE sentenced \ {r}
  /\ UNCHANGED <<governance, cascade, banned, burnt>>
  /\ SaveAuth \/ WriteFails

\* No handle is looked up, and a failed save is undone.
AdminCreateResident(r) ==
  /\ cascade = Idle
  /\ ~IsRegistered(r)
  /\ registration' = [registration EXCEPT ![r] = [state |-> "Active", handles |-> {<<r, "email">>}]]
  /\ UNCHANGED <<governance, cascade, history>>
  /\ SaveAuth

----------------------------------------------------------------------------
(* Sanctions on one resident. *)

\* What a steward may name: nothing, the resident's own handles, a number.
Named(r) == {{}, {r} \X ({"email"} \cup Device)} \cup {{n} : n \in Mobile}

\* sanction_resident: the steward names the handles to blacklist.  A failed save
\* is not undone.
SanctionResident(r, revoking, handles) ==
  /\ cascade = Idle
  /\ Len(sanctions) < MaxSanctions
  /\ sanctions' = Issued(r, revoking, FALSE)
  /\ blacklist' = blacklist \cup handles
  /\ UNCHANGED <<member, registration, cascade, burnt, sentenced>>
  /\ \/ SaveGovernance /\ banned' = IF revoking THEN banned \cup {r} ELSE banned
     \/ WriteFails /\ UNCHANGED banned

\* admin_ban_resident.  A failed save is undone, which is no step at all.
AdminBan(r) ==
  /\ cascade = Idle
  /\ Len(sanctions) < MaxSanctions
  /\ sanctions' = Issued(r, TRUE, FALSE)
  /\ banned' = banned \cup {r}
  /\ UNCHANGED <<member, blacklist, registration, cascade, burnt, sentenced>>
  /\ SaveGovernance

\* What admin_unban_resident lifts.
ActiveOf(r) ==
  {i \in DOMAIN sanctions : sanctions[i].resident = r /\ sanctions[i].active}

\* What admin_unban_resident and revoke_sanction may lift.
Liftable == {ActiveOf(r) : r \in Resident} \cup
            {{i} : i \in {j \in DOMAIN sanctions : sanctions[j].active}}

LiftSaved(indices) ==
  /\ cascade = Idle
  /\ indices # {}
  /\ sanctions' = Lifted(indices)
  /\ banned' = banned \cap RevokedIn(sanctions')
  /\ UNCHANGED <<member, blacklist, registration, cascade, burnt, sentenced>>
  /\ SaveGovernance

\* Faulty variant: does not put the sanctions back.
LiftKept(indices) == sanctions' = Lifted(indices)

LiftUndone(indices) == UNCHANGED sanctions

LiftUnsaved(indices) ==
  /\ cascade = Idle
  /\ indices # {}
  /\ LiftUndone(indices)
  /\ WriteFails
  /\ UNCHANGED <<member, blacklist, registration, cascade, history>>

----------------------------------------------------------------------------
(* The isolation of a city: review_safety_report with a cascade. *)

\* Faulty variant: sanctions again whoever an earlier attempt has sanctioned.
CascadeTargetsAll(c) == Active(c)

CascadeTargets(c) == Active(c) \ SanctionedIn(sanctions)

\* The report, the trust in the city and the advisory are saved one after the
\* other; nobody is sanctioned when one of these saves fails.
Isolate(c, blacklists) ==
  /\ cascade = Idle
  /\ Exists(c)
  /\ Len(sanctions) + Cardinality(CascadeTargets(c)) <= MaxSanctions
  /\ cascade' = [stage |-> "residents", blacklists |-> blacklists,
                 members |-> Active(c), todo |-> CascadeTargets(c), done |-> {}]
  /\ UNCHANGED <<governance, registration, history>>
  /\ SaveGovernance

\* Faulty variant: never gets past a resident.
RemainingAll(r) == cascade.todo

Remaining(r) == cascade.todo \ {r}

Burns(r) == cascade.blacklists /\ IsRegistered(r)
EmailOf(r) == IF Burns(r) THEN Handles(r) \cap {<<r, "email">>} ELSE {}
OthersOf(r) == IF Burns(r) THEN Handles(r) \ {<<r, "email">>} ELSE {}

CascadeSuspend(r) ==
  /\ cascade.stage = "residents"
  /\ r \in cascade.todo
  /\ registration' = IF Burns(r) THEN [registration EXCEPT ![r].state = "Suspended"]
                                 ELSE registration
  /\ UNCHANGED <<member, history>>

\* A blank resolution is found out when the first member is suspended already.
CascadeRefused(r) ==
  /\ CascadeSuspend(r)
  /\ cascade.done = {}
  /\ cascade' = Idle
  /\ UNCHANGED <<sanctions, blacklist, files, faults>>

CascadeResident(r) ==
  /\ CascadeSuspend(r)
  /\ sanctions' = Issued(r, TRUE, TRUE)

\* The save comes before the mobile and the devices are blacklisted.
CascadeResidentSaved(r) ==
  /\ CascadeResident(r)
  /\ blacklist' = blacklist \cup EmailOf(r) \cup OthersOf(r)
  /\ savedGovernance' = [Governance' EXCEPT !.blacklist = blacklist \cup EmailOf(r)]
  /\ cascade' = [cascade EXCEPT !.todo = Remaining(r), !.done = @ \cup {r}]
  /\ UNCHANGED <<savedAuth, faults>>

CascadeResidentUnsaved(r) ==
  /\ CascadeResident(r)
  /\ blacklist' = blacklist \cup EmailOf(r)
  /\ WriteFails
  /\ cascade' = Idle

Finished == cascade.stage = "residents" /\ cascade.todo = {}

Confirm ==
  /\ banned' = banned \cup cascade.done
  /\ burnt' = burnt \cup UNION {Handles(r) : r \in {q \in cascade.done : Burns(q)}}
  /\ sentenced' = sentenced \cup {r \in cascade.done : Burns(r)}
  /\ cascade' = Idle
  /\ UNCHANGED <<governance, registration>>

CascadeDone ==
  /\ Finished
  /\ ~cascade.blacklists
  /\ Confirm
  /\ UNCHANGED <<files, faults>>

CascadeAuthSaved ==
  /\ Finished
  /\ cascade.blacklists
  /\ cascade' = [cascade EXCEPT !.stage = "governance"]
  /\ UNCHANGED <<governance, registration, history>>
  /\ SaveAuth

CascadeAuthUnsaved ==
  /\ Finished
  /\ cascade.blacklists
  /\ WriteFails
  /\ cascade' = Idle
  /\ UNCHANGED <<governance, registration, history>>

\* Faulty variant: leaves out the last save.
CascadeGovernanceSkipped ==
  /\ cascade.stage = "governance"
  /\ Confirm
  /\ UNCHANGED <<files, faults>>

CascadeGovernanceSaved ==
  /\ cascade.stage = "governance"
  /\ Confirm
  /\ SaveGovernance

CascadeGovernanceUnsaved ==
  /\ cascade.stage = "governance"
  /\ WriteFails
  /\ cascade' = Idle
  /\ UNCHANGED <<governance, registration, history>>

----------------------------------------------------------------------------

\* A stop, in the middle of an isolation too, and a start.
Restart ==
  /\ faults < MaxFaults
  /\ faults' = faults + 1
  /\ member' = savedGovernance.member
  /\ sanctions' = savedGovernance.sanctions
  /\ blacklist' = savedGovernance.blacklist
  /\ registration' = savedAuth
  /\ cascade' = Idle
  /\ UNCHANGED <<files, history>>

Next ==
  \/ \E c \in City, r \in Resident :
       \/ CreateCity(c, r)
       \/ JoinCity(c, r)
       \/ \E lord \in Resident :
            \/ ApproveCityJoin(c, lord, r)
            \/ UpdateSteward(c, lord, r)
  \/ SaveOther
  \/ \E r \in Resident :
       \/ \E devices \in SUBSET Device :
            \/ \E mobile \in {{}} \cup {{n} : n \in Mobile} : SignIn(r, mobile, devices)
            \/ \E n \in Mobile : \E bearer \in Bearers(n, r) : MobileSignIn(n, bearer, devices)
       \/ \E revoking \in BOOLEAN, handles \in Named(r) :
            SanctionResident(r, revoking, handles)
       \/ AdminCreateResident(r)
       \/ AdminBan(r)
       \/ CascadeRefused(r)
       \/ CascadeResidentSaved(r)
       \/ CascadeResidentUnsaved(r)
  \/ \E indices \in Liftable : LiftSaved(indices) \/ LiftUnsaved(indices)
  \/ \E c \in City, blacklists \in BOOLEAN : Isolate(c, blacklists)
  \/ CascadeDone
  \/ CascadeAuthSaved
  \/ CascadeAuthUnsaved
  \/ CascadeGovernanceSaved
  \/ CascadeGovernanceUnsaved
  \/ Restart

Spec == Init /\ [][Next]_vars

----------------------------------------------------------------------------
(* Properties *)

Books == {sanctions, savedGovernance.sanctions}
Blacklists == {blacklist, savedGovernance.blacklist}

\* Every variable holds a value of its kind, and an isolation works off the
\* members of the city one by one.
TypeOK ==
  /\ member \in [City -> [Resident -> Standing]]
  /\ sanctions \in Seq(Sanction)
  /\ blacklist \subseteq Handle
  /\ registration \in [Resident -> Registration]
  /\ savedGovernance \in [member : [City -> [Resident -> Standing]],
                          sanctions : Seq(Sanction), blacklist : SUBSET Handle]
  /\ savedAuth \in [Resident -> Registration]
  /\ cascade \in [stage : {"idle", "residents", "governance"}, blacklists : BOOLEAN,
                  members : SUBSET Resident, todo : SUBSET Resident,
                  done : SUBSET Resident]
  /\ cascade.todo \cap cascade.done = {}
  /\ cascade.todo \cup cascade.done \subseteq cascade.members
  /\ banned \subseteq Resident
  /\ burnt \subseteq Handle
  /\ sentenced \subseteq Resident
  /\ faults \in Nat

\* A ban that was confirmed holds, now and after a restart, until every sanction
\* behind it is confirmed to be lifted: a lifting that could not be saved leaves
\* it, and so do an isolation that stopped half way and a restart.
BanHolds == \A book \in Books : banned \subseteq RevokedIn(book)

\* What an isolation that was confirmed burnt stays burnt: the handles are on the
\* blacklist in memory and in the file, and whoever held them is suspended, in
\* memory and in the file, with no handle that is not burnt, whatever is lifted,
\* recreated or restarted later.  There is one way back, which the blacklist does
\* not bar: a sign-in with a mobile number that is not burnt makes the old
\* registration active.
BurntForGood ==
  /\ \A list \in Blacklists : burnt \subseteq list
  /\ \A r \in sentenced :
       /\ registration[r].state = "Suspended"
       /\ Handles(r) \subseteq burnt
       /\ savedAuth[r] = registration[r]

\* Repeating an isolation after a failure or a restart sanctions nobody twice:
\* a resident has at most one active sanction from isolations, in memory and on
\* disk, so that lifting it is enough.
OneCascadeSanction ==
  \A book \in Books : \A i, j \in DOMAIN book :
    /\ book[i].cascaded /\ book[i].active
    /\ book[j].cascaded /\ book[j].active
    /\ book[i].resident = book[j].resident
    => i = j

\* When an isolation that blacklists is confirmed, no member of the city whose
\* registration it left suspended has a handle that still works.
HandlesBurnt ==
  [][CascadeGovernanceSaved =>
       \A r \in cascade.members :
         registration[r].state = "Suspended" => Handles(r) \subseteq blacklist']_vars

\* A resident whose portability is revoked does not become a member of a city.
BannedStayOut ==
  [][\A c \in City, r \in Resident :
       Exists(c) /\ r \in Revoked \ Active(c) => r \notin Active(c)']_vars
=============================================================================
