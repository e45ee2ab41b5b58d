--------------------------- MODULE Conversations ---------------------------
(***************************************************************************)
(* Friends, personal rooms, direct sessions and unread counters, and who   *)
(* may read what (conversation_runtime, message_runtime, cli_runtime,      *)
(* shell_runtime, export_runtime and core_runtime of                       *)
(* apps/lobster-waku-gateway/src).                                         *)
(*                                                                         *)
(* A conversation has the id "room:world:lobby", "home:<resident>" or      *)
(* "dm:<a>:<b>"; identities are numbered in the order of their names.      *)
(* Writes of the timeline succeed here, module Timeline has their          *)
(* failures; those of relationships, policies and counters may fail.       *)
(* Cities' rooms, replies and sanctions are left out.                      *)
(***************************************************************************)
EXTENDS Naturals, FiniteSets

CONSTANTS
  Resident,      \* a set of numbers
  Guide,         \* the number of the identity "guide"
  Rsaga,         \* the number of the identity "rsaga"
  MaxMessages,   \* bound: messages posted
  MaxRooms,      \* bound: conversations made
  MaxFaults      \* bound: failed writes and restarts

ASSUME ConversationsConstants == {MaxMessages, MaxFaults} \subseteq Nat

VARIABLES
  registered,   \* residents with an authenticated profile
  relations,    \* pair -> ResidentRelationshipRecord
  policies,     \* personal_room_access_policies
  rooms,        \* id -> the conversation in the timeline store
  posted,       \* how many messages were posted
  unread,       \* <<resident, id>> -> counter
  saved,        \* the files of relations, policies and unread
  said,         \* history: <<"ask" | "accept", actor, peer>> carried out
  wanted,       \* history: policies the owner asked for, from the last one acknowledged on
  since,        \* history: <<resident, id>> -> messages of others since it was read
  managed,      \* history: <<identity, id, "guest" | "out">> by an administrator
  lost,         \* history: a restart found counters older than those in memory
  faults        \* for the bound

vars == <<registered, relations, policies, rooms, posted, unread, saved, said,
          wanted, since, managed, lost, faults>>

Identity == Resident \cup {Guide, Rsaga}
Policy == {"registered_all", "friends_only"}
Pairs == {p \in SUBSET Resident : Cardinality(p) = 2}

Lobby == <<"room", 0, 0>>
Home(r) == <<"home", r, r>>
Dm(a, b) == <<"dm", a, b>>
Ids == {Lobby} \cup {Home(r) : r \in Resident}
         \cup {Dm(a, b) : a, b \in Resident \cup {Guide}}

\* HashMap::insert
With(f, k, v) == [x \in DOMAIN f \cup {k} |-> IF x = k THEN v ELSE f[x]]

ConversationOf(kind, participants) == [kind |-> kind, participants |-> participants]

Init ==
  /\ registered = {}
  /\ relations = [p \in {} |-> {}]
  /\ policies = [r \in Resident |-> "friends_only"]
  /\ rooms = [i \in {} |-> {}]
  /\ posted = 0
  /\ unread = [k \in Identity \X Ids |-> 0]
  /\ saved = [relations |-> relations, policies |-> policies, unread |-> unread]
  /\ said = {}
  /\ wanted = [r \in Resident |-> {"friends_only"}]
  /\ since = [k \in Resident \X Ids |-> 0]
  /\ managed = {}
  /\ lost = FALSE
  /\ faults = 0

----------------------------------------------------------------------------
(* Who is who, and what the store knows. *)

Friends(a, b) ==
  \/ a = b
  \/ {a, b} \in DOMAIN relations /\ relations[{a, b}].state = "friends"

\* personal_room_owner: the only participant of a direct conversation whose id
\* is that of its home.
IsPersonal(i) ==
  /\ i \in DOMAIN rooms
  /\ rooms[i].kind = "direct"
  /\ \E r \in Resident : i = Home(r) /\ rooms[i].participants = {r}
OwnerOf(i) == i[2]
Parties(i) == {i[2], i[3]}

Canonical(a, b) == IF a <= b THEN Dm(a, b) ELSE Dm(b, a)

\* resolve_direct_conversation_id: the canonical id if it is known, a legacy one
\* if only that is, or else the canonical one.
Resolved(a, b) ==
  LET known == DOMAIN rooms \cap {Dm(a, b), Dm(b, a)}
  IN IF Canonical(a, b) \in known \/ known = {} THEN Canonical(a, b)
     ELSE CHOOSE i \in known : TRUE

\* conversation_blueprint: what a first message makes of an id.
Blueprint(i, sender) ==
  IF i[1] = "dm" THEN ConversationOf("direct", Parties(i))
  ELSE ConversationOf("room", {sender, Rsaga})

\* Faulty variant: puts it in the place of one that is there.
EnsuredAfresh(i, conversation) == With(rooms, i, conversation)

\* ensure_direct_conversation, ensure_conversation_for: what is there stays.
Ensured(i, conversation) ==
  IF i \in DOMAIN rooms THEN rooms ELSE With(rooms, i, conversation)

----------------------------------------------------------------------------
(* Who reads what. *)

\* personal_room_visible_to_viewer
PersonalVisible(i, v) ==
  /\ v \in registered
  /\ \/ v = OwnerOf(i)
     \/ policies[OwnerOf(i)] = "registered_all"
     \/ Friends(OwnerOf(i), v)

\* personal_room_messages_visible_to_viewer
MessagesVisible(i, v) == ~IsPersonal(i) \/ (v = OwnerOf(i) /\ v \in registered)

\* cli_room_visible_to, of the only room that is not a city's.
RoomVisible(i) == i = Lobby

\* shell_visible_conversations_for_viewer
ShellVisible(v) ==
  {i \in DOMAIN rooms :
     IF IsPersonal(i) THEN PersonalVisible(i, v)
     ELSE v \in rooms[i].participants \/ (rooms[i].kind = "room" /\ RoomVisible(i))}

\* shell_state_for_viewer shows the rooms, and the messages of these.
ShellMessages(v) == {i \in ShellVisible(v) : MessagesVisible(i, v)}

\* Faulty variant: finds messages wherever the room may be visited.
SearchVisited(v) == ShellVisible(v)

\* search_messages_for_viewer
SearchMessages(v) == {i \in ShellVisible(v) : MessagesVisible(i, v)}

\* cli_visible_conversations_for: inbox, rooms, tail and search of the client.
CliMessages(v) ==
  {i \in DOMAIN rooms :
     v \in rooms[i].participants \/ (rooms[i].kind = "room" /\ RoomVisible(i))}

\* resident_can_export_conversation; public rooms are a city's.
ExportMessages(v) == {i \in DOMAIN rooms : v \in rooms[i].participants}

\* Who reads the messages as one who takes part or may come in.  Four reads ask
\* for neither: the shell's state without a viewer gives all conversations but
\* the personal rooms, and any may be had by a live session through GET
\* /v1/admin/messages and by anybody through Recover and Poll of POST /v1/waku.
ReadsAsMember(v, i) ==
  i \in ShellMessages(v) \cup SearchMessages(v) \cup CliMessages(v) \cup ExportMessages(v)

----------------------------------------------------------------------------
(* Friends and policies.  A write that fails is answered with an error and *)
(* leaves the change in memory.                                            *)

AdminCreateResident(r) ==
  /\ registered' = registered \cup {r}
  /\ UNCHANGED <<relations, policies, rooms, posted, unread, saved, said, wanted, since,
                 managed, lost, faults>>

WriteFails ==
  /\ faults < MaxFaults
  /\ faults' = faults + 1
  /\ UNCHANGED saved

SaveRelations ==
  \/ saved' = [saved EXCEPT !.relations = relations'] /\ UNCHANGED faults
  \/ WriteFails

\* A request for a pair on record changes nothing; nor does an answer of friends.
RequestFriendship(actor, peer) ==
  /\ actor # peer
  /\ {actor, peer} \subseteq registered
  /\ {actor, peer} \notin DOMAIN relations
  /\ relations' = With(relations, {actor, peer}, [state |-> "pending", by |-> actor])
  /\ said' = said \cup {<<"ask", actor, peer>>}
  /\ SaveRelations
  /\ UNCHANGED <<registered, policies, rooms, posted, unread, wanted, since, managed, lost>>

MayAccept(actor, peer) ==
  /\ {actor, peer} \in DOMAIN relations
  /\ relations[{actor, peer}].by # actor

AcceptFriendship(actor, peer) ==
  /\ actor # peer
  /\ {actor, peer} \subseteq registered
  /\ ~Friends(actor, peer)
  /\ MayAccept(actor, peer)
  /\ relations' = [relations EXCEPT ![{actor, peer}].state = "friends"]
  /\ said' = said \cup {<<"accept", actor, peer>>}
  /\ SaveRelations
  /\ UNCHANGED <<registered, policies, rooms, posted, unread, wanted, since, managed, lost>>

\* Faulty variant: answers success whether the policy was written or not.
AcknowledgedUnsaved(r, p) ==
  /\ wanted' = [wanted EXCEPT ![r] = {p}]
  /\ \/ saved' = [saved EXCEPT !.policies = policies'] /\ UNCHANGED faults
     \/ WriteFails

SavePolicy(r, p) ==
  \/ /\ saved' = [saved EXCEPT !.policies = policies']
     /\ wanted' = [wanted EXCEPT ![r] = {p}]
     /\ UNCHANGED faults
  \/ /\ WriteFails
     /\ wanted' = [wanted EXCEPT ![r] = @ \cup {p}]

SetAccessPolicy(r, p) ==
  /\ r \in registered
  /\ policies' = [policies EXCEPT ![r] = p]
  /\ SavePolicy(r, p)
  /\ UNCHANGED <<registered, relations, rooms, posted, unread, said, since, managed,
                 lost>>

----------------------------------------------------------------------------
(* Conversations and messages. *)

Make(i, conversation) ==
  /\ rooms' = Ensured(i, conversation)
  /\ Cardinality(DOMAIN rooms') <= MaxRooms

RoomsOnly == UNCHANGED <<registered, relations, policies, posted, unread, saved, said, wanted,
                         since, lost, faults>>
Opened == RoomsOnly /\ UNCHANGED managed

OpenPersonalRoom(r) ==
  /\ r \in registered
  /\ Make(Home(r), ConversationOf("direct", {r}))
  /\ Opened

OpenDirectSession(a, b) ==
  /\ a # b
  /\ Make(Resolved(a, b), ConversationOf("direct", {a, b}))
  /\ Opened

\* After a verified sign-in; legacy ids are not looked for.
EnsureGuide(r) ==
  /\ r \in registered
  /\ Make(Canonical(r, Guide), ConversationOf("direct", {r, Guide}))
  /\ Opened

\* admin_manage_room_member
ManageMember(i, members) ==
  /\ i \in DOMAIN rooms
  /\ rooms' = [rooms EXCEPT ![i].participants = members]
  /\ managed' =
       LET in == members \ rooms[i].participants
           out == rooms[i].participants \ members
       IN {m \in managed : m[2] # i \/ m[1] \notin in \cup out}
            \cup {<<v, i, "guest">> : v \in in \ Parties(i)} \cup {<<v, i, "out">> : v \in out}
  /\ RoomsOnly

AppendMessage(i, sender) ==
  /\ posted < MaxMessages
  /\ posted' = posted + 1
  /\ since' = [k \in DOMAIN since |->
                 IF k[2] = i /\ k[1] # sender THEN since[k] + 1 ELSE since[k]]

\* A save that fails is ignored.
SaveUnread ==
  \/ saved' = [saved EXCEPT !.unread = unread'] /\ UNCHANGED faults
  \/ WriteFails

\* Faulty variant: the sender's own counter too.
CountedForAll(i, sender) == rooms'[i].participants

CountsFor(i, sender) == rooms'[i].participants \ {sender}

IncrementUnread(i, sender) ==
  /\ unread' = [k \in DOMAIN unread |-> IF k[1] \in CountsFor(i, sender) /\ k[2] = i
                                    THEN unread[k] + 1 ELSE unread[k]]
  /\ SaveUnread

Posted(i, sender) ==
  /\ AppendMessage(i, sender)
  /\ IncrementUnread(i, sender)
  /\ UNCHANGED <<registered, relations, policies, said, wanted, managed, lost>>

\* append_shell_message: a direct conversation must be there and be the sender's.
AppendShellMessage(i, sender) ==
  /\ i[1] = "dm" => i \in DOMAIN rooms /\ sender \in rooms[i].participants
  /\ Make(i, Blueprint(i, sender))
  /\ Posted(i, sender)

\* send_cli_message to a resident
SendCliMessage(sender, peer) ==
  /\ sender # peer
  /\ Make(Resolved(sender, peer), ConversationOf("direct", {sender, peer}))
  /\ Posted(Resolved(sender, peer), sender)

\* A frame over the relay: any conversation, any sender, and no counter.
PublishFrame(i, sender) ==
  /\ Make(i, Blueprint(i, sender))
  /\ AppendMessage(i, sender)
  /\ UNCHANGED <<registered, relations, policies, unread, saved, said, wanted, managed, lost,
                 faults>>

MarkRead(r, i) ==
  /\ unread' = [unread EXCEPT ![<<r, i>>] = 0]
  /\ SaveUnread
  /\ since' = [since EXCEPT ![<<r, i>>] = 0]
  /\ UNCHANGED <<registered, relations, policies, rooms, posted, said, wanted, managed, lost>>

Restart ==
  /\ faults < MaxFaults
  /\ faults' = faults + 1
  /\ relations' = saved.relations
  /\ policies' = saved.policies
  /\ unread' = saved.unread
  /\ lost' = (lost \/ unread # saved.unread)
  /\ UNCHANGED <<registered, rooms, posted, saved, said, wanted, since, managed>>

Next ==
  \/ \E r \in Resident :
       \/ AdminCreateResident(r)
       \/ \E p \in Policy : SetAccessPolicy(r, p)
       \/ OpenPersonalRoom(r)
       \/ EnsureGuide(r)
       \/ \E i \in DOMAIN rooms :
            MarkRead(r, i) \/ ManageMember(i, rooms[i].participants \cup {r})
              \/ ManageMember(i, rooms[i].participants \ {r})
  \/ \E a, b \in Resident :
       \/ RequestFriendship(a, b)
       \/ AcceptFriendship(a, b)
       \/ OpenDirectSession(a, b)
       \/ SendCliMessage(a, b)
  \/ \E i \in Ids, sender \in Resident :
       AppendShellMessage(i, sender) \/ PublishFrame(i, sender)
  \/ Restart

Spec == Init /\ [][Next]_vars

----------------------------------------------------------------------------
(* Properties. *)

TypeOK ==
  /\ registered \subseteq Resident
  /\ DOMAIN relations \subseteq Pairs
  /\ \A p \in DOMAIN relations :
       relations[p].state \in {"pending", "friends"} /\ relations[p].by \in p
  /\ policies \in [Resident -> Policy]
  /\ DOMAIN rooms \subseteq Ids
  /\ \A i \in DOMAIN rooms :
       rooms[i].kind \in {"room", "direct"} /\ rooms[i].participants \subseteq Identity
  /\ DOMAIN unread = Identity \X Ids
  /\ managed \subseteq Identity \X Ids \X {"guest", "out"}
  /\ wanted \in [Resident -> SUBSET Policy]
  /\ posted \in 0..MaxMessages /\ lost \in BOOLEAN /\ faults \in 0..MaxFaults

Agreed(a, b) ==
  \/ <<"ask", a, b>> \in said /\ <<"accept", b, a>> \in said
  \/ <<"ask", b, a>> \in said /\ <<"accept", a, b>> \in said

\* A personal room is shown to somebody else only if its owner opened it to all
\* residents and was not told since that it is for friends again, or if one of
\* the two asked for the other's friendship and that other accepted it; through
\* failed writes and restarts, which bring back older files.
VisitorsWereLetIn ==
  \A v \in Resident : \A i \in ShellVisible(v) :
    IsPersonal(i) /\ v # OwnerOf(i) =>
      "registered_all" \in wanted[OwnerOf(i)] \/ Agreed(OwnerOf(i), v)

\* Through the shell, the search, the command line client and the export, the
\* messages of a direct conversation or a personal room reach the two it is
\* between, or its owner, and those an administrator added; and whom one removed
\* from any conversation but the lobby reads it no more until added again:
\* visits, sessions opened anew and messages under either form of the id, some
\* of which would make the conversation, let nobody in.
OnlyMembersRead ==
  \A v \in Identity, i \in DOMAIN rooms \ {Lobby} : ReadsAsMember(v, i) =>
    /\ <<v, i, "out">> \notin managed
    /\ rooms[i].kind = "direct" => v \in Parties(i) \/ <<v, i, "guest">> \in managed

\* A counter never counts more than the messages others posted since the
\* resident read the conversation, unless a restart found an older file.
NoPhantomUnread ==
  ~lost => \A r \in Resident, i \in Ids : unread[<<r, i>>] <= since[<<r, i>>]

============================================================================
