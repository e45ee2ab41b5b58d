------------------------------ MODULE Gateway ------------------------------
(***************************************************************************)
(* Parts of the gateway that share no state, and two of its clients, side  *)
(* by side: a behaviour takes the steps of one of them while the others    *)
(* stand still.  Their variables are disjoint, so that interleaving them   *)
(* would reach no state that violates a property of one part.              *)
(***************************************************************************)
EXTENDS Conversations, Sequences

CONSTANTS
  Person,       \* residents by name
  NoOne,        \* no resident
  Bearers,      \* sessions with their owners
  Sidecars,     \* agents with a token of their own
  NoBearer,     \* no token
  Catalogue,    \* capabilities that a route asks for
  Granted,      \* permission groups with their capabilities
  Ungrouped,    \* no permission group
  SuperAdmins,  \* residents listed in LOBSTER_SUPER_ADMINS
  CodeSpace,    \* how many invite codes there are
  Privilege,    \* capabilities that administrators put in groups
  Setting, Value,
  Moderated,    \* messages that are moderated
  LogEntry,
  Device,
  Channel,      \* conversations with keys
  Private,      \* those that are direct sessions
  Keyed,        \* identities that come with a public key
  Place,        \* rooms of a shell
  Said,         \* what messages say
  Withdrawn,    \* what is shown of a recalled one
  Window, History, MaxAge,
  Published,    \* messages relayed from here
  Foreign,      \* messages published at the upstream by others
  End,          \* the last time of all
  Stamp,        \* the times of both
  Limit,        \* frames that one node recovers at a time
  Launch,       \* conversations a terminal starts with
  Listed,       \* all of them, those of the launch first, each by title
  World, Governance,
  Operator,     \* residents at a command line
  Process,      \* commands that run at the same time
  TailWindow,   \* messages that one tail request returns
  MaxTime, MaxChanges, MaxEpoch, MaxSealed, LastId, MaxShown, MaxAmended, MaxFrames,
  MaxWritten, MaxSessions, MaxPosts, MaxFailures   \* bounds

ASSUME GatewayConstants ==
  /\ {CodeSpace, Window, History, MaxTime, MaxEpoch, LastId} \subseteq Nat \ {0}
  /\ {MaxAge, MaxChanges, MaxSessions, MaxPosts, MaxFailures, MaxShown, MaxAmended, MaxFrames,
      MaxWritten} \subseteq Nat
  /\ IsFiniteSet(Process)
  /\ Private \subseteq Channel
  /\ End \in Nat /\ Stamp \in [Published \cup Foreign -> 1..End]
  /\ Listed \in Seq(Launch \cup Private)

\* Every session has its resident, no token is none of them, a permission group
\* has what the catalogue has, and no capability (all have a colon in their
\* keys) is called like a check or an effect of module Requests.
ASSUME CatalogueNames ==
  /\ Bearers \in [DOMAIN Bearers -> Person]
  /\ NoBearer \notin DOMAIN Bearers
  /\ Granted \in [DOMAIN Granted -> SUBSET Catalogue]
  /\ Catalogue \cap {"anyone", "session", "speaker", "given", "named", "resolved", "viewer",
                     "sender", "holder", "bearer", "bearer_if_token",
                     "live", "read", "write", "login", "logout", "assign"} = {}

VARIABLES
  scenario,
  live, ended, group, bypass, poisoned, phase, request, entitled, audited,
  invites, groups, assignments, settings, moderation, devices, bindings, files,
  now, changes, adminFaults,
  mlsGroups, mlsSaved, sealed, random, mlsFaults,
  timeline, visible, frozen, shellNow, counter, shellChanges, twice, held,
  local, remote, relayTimeline, upstream, relaySaved, cursor, answer, acked,
  relayFaults,
  running, focus, active, selected, draft, known, subscribed, store, sessions,
  relay, spoken, written, termFaults,
  cliLive, opened, cache, tmp, body, step, hand, seen, posts, cliRequest, overlap,
  cliFaults

requestVars == <<live, ended, group, bypass, poisoned, phase, request, entitled, audited>>
adminVars == <<invites, groups, assignments, settings, moderation, devices, bindings,
               files, now, changes, adminFaults>>
mlsVars == <<mlsGroups, mlsSaved, sealed, random, mlsFaults>>
shellVars == <<timeline, visible, frozen, shellNow, counter, shellChanges, twice, held>>
relayVars == <<local, remote, relayTimeline, upstream, relaySaved, cursor, answer, acked,
               relayFaults>>
termVars == <<running, focus, active, selected, draft, known, subscribed, store, sessions,
              relay, spoken, written, termFaults>>
cliVars == <<cliLive, opened, cache, tmp, body, step, hand, seen, posts, cliRequest, overlap,
             cliFaults>>
gatewayVars == <<scenario, vars, requestVars, adminVars, mlsVars, shellVars, relayVars,
                 termVars, cliVars>>

Rq == INSTANCE Requests WITH
  Resident <- Person, Session <- DOMAIN Bearers, Owner <- Bearers, Agent <- Sidecars,
  Nobody <- NoOne, NoToken <- NoBearer, Capability <- Catalogue,
  Group <- DOMAIN Granted, Grants <- Granted, NoGroup <- Ungrouped, SuperAdmin <- SuperAdmins

Ad == INSTANCE Administration WITH
  Resident <- Person, Capability <- Privilege, Message <- Moderated, Log <- LogEntry,
  Unbound <- NoOne, faults <- adminFaults

Se == INSTANCE SecureSessions WITH
  Conversation <- Channel, Direct <- Private, Identity <- Person, MaxRandom <- MaxEpoch,
  MaxFaults <- MaxFailures, groups <- mlsGroups, saved <- mlsSaved, faults <- mlsFaults

Sh == INSTANCE ShellView WITH
  Room <- Place, Text <- Said, MaxMessages <- MaxShown, MaxChanges <- MaxAmended,
  now <- shellNow, changes <- shellChanges

Re == INSTANCE Relay WITH
  Message <- Published, timeline <- relayTimeline, saved <- relaySaved, faults <- relayFaults

Te == INSTANCE Terminal WITH
  Direct <- Private, MaxFaults <- MaxFailures, faults <- termFaults

Cl == INSTANCE CommandLine WITH
  Resident <- Operator, Nobody <- NoOne, MaxFaults <- MaxFailures,
  live <- cliLive, request <- cliRequest, faults <- cliFaults

Scenario ==
  {"requests", "administration", "sessions", "conversations", "shell", "relay",
   "terminal", "commands"}

GatewayInit ==
  /\ scenario \in Scenario
  /\ Init /\ Rq!Init /\ Ad!Init /\ Se!Init /\ Sh!Init /\ Re!Init /\ Te!Init /\ Cl!Init
  /\ scenario # "requests" => ~bypass /\ group = [r \in Person |-> Ungrouped]
  /\ scenario # "terminal" => active = CHOOSE c \in Launch : TRUE

GatewayNext ==
  /\ UNCHANGED scenario
  /\ \/ /\ scenario = "conversations"
        /\ UNCHANGED <<requestVars, adminVars, mlsVars, shellVars, relayVars,
                       termVars, cliVars>>
        /\ Next
     \/ /\ scenario = "administration"
        /\ UNCHANGED <<vars, requestVars, mlsVars, shellVars, relayVars,
                       termVars, cliVars>>
        /\ Ad!Next
     \/ /\ scenario = "sessions"
        /\ UNCHANGED <<vars, requestVars, adminVars, shellVars, relayVars,
                       termVars, cliVars>>
        /\ Se!Next
     \/ /\ scenario = "requests"
        /\ UNCHANGED <<vars, adminVars, mlsVars, shellVars, relayVars,
                       termVars, cliVars>>
        /\ Rq!Next
     \/ /\ scenario = "shell"
        /\ UNCHANGED <<vars, requestVars, adminVars, mlsVars, relayVars,
                       termVars, cliVars>>
        /\ Sh!Next
     \/ /\ scenario = "relay"
        /\ UNCHANGED <<vars, requestVars, adminVars, mlsVars, shellVars,
                       termVars, cliVars>>
        /\ Re!Next
     \/ /\ scenario = "terminal"
        /\ UNCHANGED <<vars, requestVars, adminVars, mlsVars, shellVars, relayVars, cliVars>>
        /\ Te!Next
     \/ /\ scenario = "commands"
        /\ UNCHANGED <<vars, requestVars, adminVars, mlsVars, shellVars, relayVars, termVars>>
        /\ Cl!Next

GatewaySpec == GatewayInit /\ [][GatewayNext]_gatewayVars

----------------------------------------------------------------------------
(* The properties of the other parts, under the names they have there. *)

\* The variables of every part keep their types: an invite's code has six
\* digits, a frame is a message, an epoch stays within its bound.
TypesOK ==
  /\ TypeOK /\ Rq!TypeOK /\ Ad!TypeOK /\ Se!TypeOK
  /\ Sh!TypeOK /\ Re!TypeOK /\ Te!TypeOK /\ Cl!TypeOK

\* Nothing is done for a token that did not stand for a live session and for
\* what the catalogue asks, each at some moment since the request came.
OnlyTheEntitledAct == Rq!OnlyTheEntitledAct

\* An audit event names the bearer of the token and not whom the body names.
AuditNamesTheBearer == Rq!AuditNamesTheBearer

\* Administrators' changes: memory never runs ahead of its file, and a device
\* is in the list of its resident exactly if it is bound to that resident,
\* whichever of the two files could not be written.
RecordsAgree == Ad!RecordsAgree

\* No epoch of a sealed conversation opens what another one sealed.
OnlyItsEpochOpens == Se!OnlyItsEpochOpens

\* A client that has the current version shows the current messages.
VersionTellsChanges == Sh!VersionTellsChanges

\* A message whose publish was answered is with the upstream and on disk.
AckedReachesBoth == Re!AckedReachesBoth

\* A terminal's notices and commands do not reach the gateway as messages.
NoticesStayLocal == Te!NoticesStayLocal

\* The session that the command line client has cached can be read.
CacheIsWhole == Cl!CacheIsWhole

============================================================================
