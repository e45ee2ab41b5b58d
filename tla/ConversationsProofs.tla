------------------------ MODULE ConversationsProofs ------------------------
(***************************************************************************)
(* Who is let into a personal room, who reads what is said in one, and     *)
(* what a counter counts, for any residents and any number of failed       *)
(* writes and restarts.                                                    *)
(*                                                                         *)
(* Each invariant speaks of memory and of the file alike, for a restart    *)
(* puts the one in the place of the other.                                 *)
(***************************************************************************)
EXTENDS Conversations, FiniteSetTheorems, TLAPS

IsFile == saved = [relations |-> saved.relations, policies |-> saved.policies,
                   unread |-> saved.unread]

\* Every record is of what the two of them said.
Recorded(rel) ==
  \A a, b \in Resident : a # b /\ {a, b} \in DOMAIN rel =>
    /\ rel[{a, b}] \in [state : {"pending", "friends"}, by : {a, b}]
    /\ rel[{a, b}].by = a => <<"ask", a, b>> \in said
    /\ rel[{a, b}].by = a /\ rel[{a, b}].state = "friends" => <<"accept", b, a>> \in said

\* Every policy in force, or about to be after a restart, is a wanted one.
Wished(pol) == pol \in [Resident -> Policy] /\ \A r \in Resident : pol[r] \in wanted[r]

InvRelations == IsFile /\ Recorded(relations) /\ Recorded(saved.relations)
InvPolicies ==
  /\ IsFile
  /\ wanted \in [Resident -> SUBSET Policy]
  /\ Wished(policies) /\ Wished(saved.policies)

Counters == [Identity \X Ids -> Nat]
InvUnread ==
  /\ IsFile
  /\ unread \in Counters /\ saved.unread \in Counters
  /\ since \in [Resident \X Ids -> Nat]
  /\ lost \in BOOLEAN
  /\ NoPhantomUnread

----------------------------------------------------------------------------
(* Writes. *)

LEMMA WriteOfRelations ==
  ASSUME IsFile, SaveRelations
  PROVE  /\ IsFile' /\ saved'.policies = saved.policies /\ saved'.unread = saved.unread
         /\ saved'.relations \in {saved.relations, relations'}
BY DEF IsFile, SaveRelations, WriteFails

LEMMA WriteOfUnread ==
  ASSUME IsFile, SaveUnread
  PROVE  /\ IsFile' /\ saved'.policies = saved.policies
         /\ saved'.relations = saved.relations
         /\ saved'.unread \in {saved.unread, unread'}
BY DEF IsFile, SaveUnread, WriteFails

LEMMA WriteOfPolicy ==
  ASSUME IsFile, NEW r, NEW p, SavePolicy(r, p)
  PROVE  /\ IsFile' /\ saved'.relations = saved.relations
         /\ saved'.unread = saved.unread
BY DEF IsFile, SavePolicy, WriteFails

----------------------------------------------------------------------------
(* Friends. *)

LEMMA RequestRecorded ==
  ASSUME InvRelations, NEW actor \in Resident, NEW peer \in Resident,
         RequestFriendship(actor, peer)
  PROVE  InvRelations'
<1> DEFINE record == [state |-> "pending", by |-> actor]
<1>1. /\ actor # peer /\ {actor, peer} \notin DOMAIN relations
      /\ relations' = With(relations, {actor, peer}, record)
      /\ said' = said \cup {<<"ask", actor, peer>>}
      /\ SaveRelations
  BY DEF RequestFriendship
<1>2. IsFile' /\ saved'.relations \in {saved.relations, relations'}
  BY <1>1, WriteOfRelations DEF InvRelations
<1>3. ASSUME NEW rel, Recorded(rel) PROVE Recorded(rel)'
  BY <1>1, <1>3 DEF Recorded
<1>4. /\ DOMAIN relations' = DOMAIN relations \cup {{actor, peer}}
      /\ relations'[{actor, peer}] = record
      /\ \A q \in DOMAIN relations : relations'[q] = relations[q]
  BY <1>1 DEF With
<1>5. Recorded(relations)'
  <2> SUFFICES ASSUME NEW a \in Resident, NEW b \in Resident, a # b,
                      {a, b} \in DOMAIN relations'
               PROVE  /\ relations'[{a, b}] \in [state : {"pending", "friends"}, by : {a, b}]
                      /\ relations'[{a, b}].by = a => <<"ask", a, b>> \in said'
                      /\ relations'[{a, b}].by = a /\ relations'[{a, b}].state = "friends"
                           => <<"accept", b, a>> \in said'
    BY DEF Recorded
  <2>1. CASE {a, b} = {actor, peer}
    <3>1. relations'[{a, b}] = record
      BY <1>4, <2>1, Zenon
    <3>2. (a = actor /\ b = peer) \/ (a = peer /\ b = actor)
      BY <1>1, <2>1
    <3>3. QED
      BY <1>1, <3>1, <3>2
  <2>2. CASE {a, b} \in DOMAIN relations
    <3>1. relations'[{a, b}] = relations[{a, b}]
      BY <1>4, <2>2
    <3>2. said \subseteq said'
      BY <1>1
    <3>3. QED
      BY <2>2, <3>1, <3>2 DEF InvRelations, Recorded
  <2>3. QED
    BY <1>4, <2>1, <2>2
<1>6. QED
  BY <1>2, <1>3, <1>5 DEF InvRelations

LEMMA AcceptRecorded ==
  ASSUME InvRelations, NEW actor \in Resident, NEW peer \in Resident,
         AcceptFriendship(actor, peer)
  PROVE  InvRelations'
<1> DEFINE pair == {actor, peer}
<1>1. /\ actor # peer /\ pair \in DOMAIN relations /\ relations[pair].by # actor
      /\ relations' = [relations EXCEPT ![pair].state = "friends"]
      /\ said' = said \cup {<<"accept", actor, peer>>}
      /\ SaveRelations
  BY DEF AcceptFriendship, MayAccept
<1>2. IsFile' /\ saved'.relations \in {saved.relations, relations'}
  BY <1>1, WriteOfRelations DEF InvRelations
<1>3. ASSUME NEW rel, Recorded(rel) PROVE Recorded(rel)'
  BY <1>1, <1>3 DEF Recorded
<1>4. /\ DOMAIN relations' = DOMAIN relations
      /\ relations'[pair] = [relations[pair] EXCEPT !.state = "friends"]
      /\ \A q \in DOMAIN relations \ {pair} : relations'[q] = relations[q]
  <2> HIDE DEF pair
  <2>1. QED
    BY <1>1
<1>5. /\ relations[pair] \in [state : {"pending", "friends"}, by : {actor, peer}]
      /\ relations[pair].by = peer /\ <<"ask", peer, actor>> \in said
  <2>1. pair = {peer, actor}
    OBVIOUS
  <2>2. QED
    BY <1>1, <2>1 DEF InvRelations, Recorded
<1>6. Recorded(relations)'
  <2> SUFFICES ASSUME NEW a \in Resident, NEW b \in Resident, a # b,
                      {a, b} \in DOMAIN relations'
               PROVE  /\ relations'[{a, b}] \in [state : {"pending", "friends"}, by : {a, b}]
                      /\ relations'[{a, b}].by = a => <<"ask", a, b>> \in said'
                      /\ relations'[{a, b}].by = a /\ relations'[{a, b}].state = "friends"
                           => <<"accept", b, a>> \in said'
    BY DEF Recorded
  <2>1. CASE {a, b} = pair
    <3>1. relations'[{a, b}] = [state |-> "friends", by |-> peer]
      <4> HIDE DEF pair
      <4>1. QED
        BY <1>4, <1>5, <2>1
    <3>2. (a = actor /\ b = peer) \/ (a = peer /\ b = actor)
      BY <1>1, <2>1
    <3>3. QED
      BY <1>1, <1>5, <3>1, <3>2
  <2>2. CASE {a, b} # pair
    <3>1. {a, b} \in DOMAIN relations /\ relations'[{a, b}] = relations[{a, b}]
      BY <1>4, <2>2
    <3>2. said \subseteq said'
      BY <1>1
    <3>3. QED
      BY <3>1, <3>2 DEF InvRelations, Recorded
  <2>3. QED
    BY <2>1, <2>2
<1>7. QED
  BY <1>2, <1>3, <1>6 DEF InvRelations

LEMMA RelationsStand ==
  ASSUME InvRelations, IsFile', relations' = relations, said' = said,
         saved'.relations = saved.relations
  PROVE  InvRelations'
BY DEF InvRelations, Recorded

----------------------------------------------------------------------------
(* Policies. *)

LEMMA PolicyWished ==
  ASSUME InvPolicies, NEW r \in Resident, NEW p \in Policy, SetAccessPolicy(r, p)
  PROVE  InvPolicies'
<1>1. policies' = [policies EXCEPT ![r] = p] /\ SavePolicy(r, p)
  BY DEF SetAccessPolicy
<1>2. IsFile'
  BY <1>1, WriteOfPolicy DEF InvPolicies
<1>3. policies' \in [Resident -> Policy]
  BY <1>1 DEF InvPolicies, Wished
<1>4. ASSUME saved' = [saved EXCEPT !.policies = policies'],
             wanted' = [wanted EXCEPT ![r] = {p}]
      PROVE  InvPolicies'
  <2>1. saved'.policies = policies'
    BY <1>4 DEF InvPolicies, IsFile
  <2>2. wanted' \in [Resident -> SUBSET Policy]
    BY <1>4 DEF InvPolicies
  <2>3. \A q \in Resident : policies'[q] \in wanted'[q]
    BY <1>1, <1>4 DEF InvPolicies, Wished
  <2>4. QED
    BY <1>2, <1>3, <2>1, <2>2, <2>3 DEF InvPolicies, Wished
<1>5. ASSUME saved' = saved, wanted' = [wanted EXCEPT ![r] = wanted[r] \cup {p}]
      PROVE  InvPolicies'
  <2>1. wanted' \in [Resident -> SUBSET Policy]
    BY <1>5 DEF InvPolicies
  <2>2. \A q \in Resident : policies'[q] \in wanted'[q]
    BY <1>1, <1>5 DEF InvPolicies, Wished
  <2>3. \A q \in Resident : saved'.policies[q] \in wanted'[q]
    BY <1>5 DEF InvPolicies, Wished
  <2>4. QED
    BY <1>2, <1>3, <1>5, <2>1, <2>2, <2>3 DEF InvPolicies, Wished
<1>6. QED
  BY <1>1, <1>4, <1>5 DEF SavePolicy, WriteFails

LEMMA PoliciesStand ==
  ASSUME InvPolicies, IsFile', policies' = policies, wanted' = wanted,
         saved'.policies = saved.policies
  PROVE  InvPolicies'
BY DEF InvPolicies, Wished

----------------------------------------------------------------------------
(* Counters. *)

LEMMA Appended ==
  ASSUME since \in [Resident \X Ids -> Nat], NEW i, NEW sender, AppendMessage(i, sender)
  PROVE  /\ since' \in [Resident \X Ids -> Nat]
         /\ \A k \in Resident \X Ids :
              since'[k] = IF k[2] = i /\ k[1] # sender THEN since[k] + 1 ELSE since[k]
BY DEF AppendMessage

LEMMA Incremented ==
  ASSUME unread \in Counters, NEW i, NEW sender, IncrementUnread(i, sender)
  PROVE  /\ unread' \in Counters
         /\ \A k \in Identity \X Ids :
              unread'[k] = IF k[1] \in CountsFor(i, sender) /\ k[2] = i
                             THEN unread[k] + 1 ELSE unread[k]
<1>1. unread' = [k \in Identity \X Ids |-> IF k[1] \in CountsFor(i, sender) /\ k[2] = i
                                            THEN unread[k] + 1 ELSE unread[k]]
  BY DEF IncrementUnread, Counters
<1> HIDE DEF CountsFor
<1>2. QED
  BY <1>1 DEF Counters

\* Whom a message is counted for is somebody other than its sender.
LEMMA PostedCounted ==
  ASSUME InvUnread, NEW i, NEW sender, Posted(i, sender)
  PROVE  InvUnread'
<1>1. AppendMessage(i, sender) /\ IncrementUnread(i, sender) /\ lost' = lost
  BY DEF Posted
<1>2. SaveUnread
  BY <1>1 DEF IncrementUnread
<1>3. IsFile' /\ saved'.unread \in {saved.unread, unread'}
  BY <1>2, WriteOfUnread DEF InvUnread
<1>4. /\ unread' \in Counters
      /\ \A k \in Identity \X Ids :
           unread'[k] = IF k[1] \in CountsFor(i, sender) /\ k[2] = i
                          THEN unread[k] + 1 ELSE unread[k]
  BY <1>1, Incremented DEF InvUnread
<1>5. /\ since' \in [Resident \X Ids -> Nat]
      /\ \A k \in Resident \X Ids :
           since'[k] = IF k[2] = i /\ k[1] # sender THEN since[k] + 1 ELSE since[k]
  BY <1>1, Appended DEF InvUnread
<1>6. NoPhantomUnread'
  <2> SUFFICES ASSUME ~lost, NEW r \in Resident, NEW j \in Ids
               PROVE  unread'[<<r, j>>] <= since'[<<r, j>>]
    BY <1>1 DEF NoPhantomUnread
  <2>1. <<r, j>> \in Identity \X Ids /\ <<r, j>> \in Resident \X Ids
    BY DEF Identity
  <2>2. /\ unread[<<r, j>>] \in Nat /\ since[<<r, j>>] \in Nat
        /\ unread[<<r, j>>] <= since[<<r, j>>]
    BY <2>1 DEF InvUnread, Counters, NoPhantomUnread
  <2>3. unread'[<<r, j>>] = IF r \in CountsFor(i, sender) /\ j = i
                              THEN unread[<<r, j>>] + 1 ELSE unread[<<r, j>>]
    BY <1>4, <2>1
  <2>4. since'[<<r, j>>] = IF j = i /\ r # sender
                             THEN since[<<r, j>>] + 1 ELSE since[<<r, j>>]
    BY <1>5, <2>1
  <2>5. r \in CountsFor(i, sender) => r # sender
    BY DEF CountsFor
  <2>6. QED
    BY <2>2, <2>3, <2>4, <2>5
<1>7. QED
  BY <1>1, <1>3, <1>4, <1>5, <1>6 DEF InvUnread

LEMMA FrameCounted ==
  ASSUME InvUnread, NEW i, NEW sender, PublishFrame(i, sender)
  PROVE  InvUnread'
<1>1. AppendMessage(i, sender) /\ UNCHANGED <<unread, saved, lost>>
  BY DEF PublishFrame
<1>2. /\ since' \in [Resident \X Ids -> Nat]
      /\ \A k \in Resident \X Ids :
           since'[k] = IF k[2] = i /\ k[1] # sender THEN since[k] + 1 ELSE since[k]
  BY <1>1, Appended DEF InvUnread
<1>3. NoPhantomUnread'
  <2> SUFFICES ASSUME ~lost, NEW r \in Resident, NEW j \in Ids
               PROVE  unread[<<r, j>>] <= since'[<<r, j>>]
    BY <1>1 DEF NoPhantomUnread
  <2>1. <<r, j>> \in Identity \X Ids /\ <<r, j>> \in Resident \X Ids
    BY DEF Identity
  <2>2. /\ unread[<<r, j>>] \in Nat /\ since[<<r, j>>] \in Nat
        /\ unread[<<r, j>>] <= since[<<r, j>>]
    BY <2>1 DEF InvUnread, Counters, NoPhantomUnread
  <2>3. since'[<<r, j>>] \in {since[<<r, j>>], since[<<r, j>>] + 1}
    BY <1>2, <2>1
  <2>4. QED
    BY <2>2, <2>3
<1>4. QED
  BY <1>1, <1>2, <1>3 DEF InvUnread, IsFile

LEMMA ReadCounted ==
  ASSUME InvUnread, NEW r \in Resident, NEW i, MarkRead(r, i)
  PROVE  InvUnread'
<1>1. /\ unread' = [unread EXCEPT ![<<r, i>>] = 0]
      /\ since' = [since EXCEPT ![<<r, i>>] = 0]
      /\ SaveUnread /\ lost' = lost
  BY DEF MarkRead
<1>2. IsFile' /\ saved'.unread \in {saved.unread, unread'}
  BY <1>1, WriteOfUnread DEF InvUnread
<1>3. unread' \in Counters /\ since' \in [Resident \X Ids -> Nat]
  BY <1>1 DEF InvUnread, Counters
<1>4. NoPhantomUnread'
  <2> SUFFICES ASSUME ~lost, NEW q \in Resident, NEW j \in Ids
               PROVE  unread'[<<q, j>>] <= since'[<<q, j>>]
    BY <1>1 DEF NoPhantomUnread
  <2>1. <<q, j>> \in Identity \X Ids /\ <<q, j>> \in Resident \X Ids
    BY DEF Identity
  <2>2. unread[<<q, j>>] <= since[<<q, j>>]
    BY DEF InvUnread, NoPhantomUnread
  <2>3. CASE <<q, j>> = <<r, i>>
    BY <1>1, <2>1, <2>3 DEF InvUnread, Counters
  <2>4. CASE <<q, j>> # <<r, i>>
    BY <1>1, <2>1, <2>2, <2>4 DEF InvUnread, Counters
  <2>5. QED
    BY <2>3, <2>4
<1>5. QED
  BY <1>1, <1>2, <1>3, <1>4 DEF InvUnread

\* A restart that finds other counters than those in memory says so.
LEMMA RestartCounted == ASSUME InvUnread, Restart PROVE InvUnread'
<1>1. /\ unread' = saved.unread /\ saved' = saved /\ since' = since
      /\ lost' = (lost \/ unread # saved.unread)
  BY DEF Restart
<1>2. ~lost' => ~lost /\ unread' = unread
  BY <1>1
<1>3. NoPhantomUnread'
  BY <1>1, <1>2 DEF InvUnread, NoPhantomUnread
<1>4. QED
  BY <1>1, <1>3 DEF InvUnread, IsFile

LEMMA UnreadStands ==
  ASSUME InvUnread, IsFile', unread' = unread, since' = since, lost' = lost,
         saved'.unread = saved.unread
  PROVE  InvUnread'
BY DEF InvUnread, NoPhantomUnread

----------------------------------------------------------------------------
(* The invariant. *)

Inv == InvRelations /\ InvPolicies /\ InvUnread

LEMMA Starts == ASSUME Init PROVE Inv
<1>1. DOMAIN relations = {} /\ said = {}
  BY DEF Init
<1>2. saved = [relations |-> relations, policies |-> policies, unread |-> unread]
  BY DEF Init
<1>3. InvRelations
  BY <1>1, <1>2 DEF InvRelations, IsFile, Recorded
<1>4. InvPolicies
  BY <1>2 DEF Init, InvPolicies, IsFile, Wished, Policy
<1>5. /\ unread = [k \in Identity \X Ids |-> 0]
      /\ since = [k \in Resident \X Ids |-> 0] /\ lost = FALSE
  BY DEF Init
<1>6. NoPhantomUnread
  BY <1>5 DEF NoPhantomUnread, Identity
<1>7. InvUnread
  BY <1>2, <1>5, <1>6 DEF InvUnread, IsFile, Counters
<1>8. QED
  BY <1>3, <1>4, <1>7 DEF Inv

LEMMA RoomsKeep ==
  ASSUME Inv, UNCHANGED <<relations, policies, unread, saved, said, wanted, since, lost>>
  PROVE  Inv'
BY RelationsStand, PoliciesStand, UnreadStands DEF Inv, InvRelations, IsFile

LEMMA FriendsKeep ==
  ASSUME Inv, NEW a \in Resident, NEW b \in Resident,
         RequestFriendship(a, b) \/ AcceptFriendship(a, b)
  PROVE  Inv'
<1>1. SaveRelations /\ UNCHANGED <<policies, unread, wanted, since, lost>>
  BY DEF RequestFriendship, AcceptFriendship
<1>2. IsFile' /\ saved'.policies = saved.policies /\ saved'.unread = saved.unread
  BY <1>1, WriteOfRelations DEF Inv, InvRelations
<1>3. InvRelations'
  BY RequestRecorded, AcceptRecorded DEF Inv
<1>4. QED
  BY <1>1, <1>2, <1>3, PoliciesStand, UnreadStands DEF Inv

LEMMA PolicyKeeps ==
  ASSUME Inv, NEW r \in Resident, NEW p \in Policy, SetAccessPolicy(r, p) PROVE Inv'
<1>1. SavePolicy(r, p) /\ UNCHANGED <<relations, said, unread, since, lost>>
  BY DEF SetAccessPolicy
<1>2. IsFile' /\ saved'.relations = saved.relations /\ saved'.unread = saved.unread
  BY <1>1, WriteOfPolicy DEF Inv, InvRelations
<1>3. QED
  BY <1>1, <1>2, PolicyWished, RelationsStand, UnreadStands DEF Inv

LEMMA CountersKeep ==
  ASSUME Inv, UNCHANGED <<relations, policies, said, wanted>>, SaveUnread, InvUnread'
  PROVE  Inv'
<1>1. IsFile' /\ saved'.policies = saved.policies /\ saved'.relations = saved.relations
  BY WriteOfUnread DEF Inv, InvRelations
<1>2. QED
  BY <1>1, RelationsStand, PoliciesStand DEF Inv

LEMMA FrameKeeps ==
  ASSUME Inv, NEW i, NEW sender, PublishFrame(i, sender) PROVE Inv'
<1>1. UNCHANGED <<relations, policies, saved, said, wanted>>
  BY DEF PublishFrame
<1>2. InvUnread'
  BY FrameCounted DEF Inv
<1>3. QED
  BY <1>1, <1>2, RelationsStand, PoliciesStand DEF Inv, InvRelations, IsFile

LEMMA RestartKeeps == ASSUME Inv, Restart PROVE Inv'
<1>1. /\ relations' = saved.relations /\ policies' = saved.policies
      /\ UNCHANGED <<saved, said, wanted>>
  BY DEF Restart
<1>2. IsFile'
  BY <1>1 DEF Inv, InvRelations, IsFile
<1>3. InvRelations'
  BY <1>1, <1>2 DEF Inv, InvRelations, Recorded
<1>4. InvPolicies'
  BY <1>1, <1>2 DEF Inv, InvPolicies, Wished
<1>5. QED
  BY <1>3, <1>4, RestartCounted DEF Inv

LEMMA StepKeeps == ASSUME Inv, [Next]_vars PROVE Inv'
<1>1. ASSUME NEW r \in Resident, AdminCreateResident(r) PROVE Inv'
  BY <1>1, RoomsKeep DEF AdminCreateResident
<1>2. ASSUME NEW r \in Resident, NEW p \in Policy, SetAccessPolicy(r, p) PROVE Inv'
  BY <1>2, PolicyKeeps
<1>3. ASSUME NEW r \in Resident, OpenPersonalRoom(r) \/ EnsureGuide(r) PROVE Inv'
  <2>1. Opened
    BY <1>3 DEF OpenPersonalRoom, EnsureGuide
  <2>2. QED
    BY <2>1, RoomsKeep DEF Opened, RoomsOnly
<1>4. ASSUME NEW r \in Resident, NEW i, MarkRead(r, i) PROVE Inv'
  <2>1. SaveUnread /\ UNCHANGED <<relations, policies, said, wanted>>
    BY <1>4 DEF MarkRead
  <2>2. InvUnread'
    BY <1>4, ReadCounted DEF Inv
  <2>3. QED
    BY <2>1, <2>2, CountersKeep
<1>5. ASSUME NEW i, NEW members, ManageMember(i, members) PROVE Inv'
  BY <1>5, RoomsKeep DEF ManageMember, RoomsOnly
<1>6. ASSUME NEW a \in Resident, NEW b \in Resident,
             RequestFriendship(a, b) \/ AcceptFriendship(a, b)
      PROVE  Inv'
  BY <1>6, FriendsKeep
<1>7. ASSUME NEW a \in Resident, NEW b \in Resident, OpenDirectSession(a, b) PROVE Inv'
  BY <1>7, RoomsKeep DEF OpenDirectSession, Opened, RoomsOnly
<1>8. ASSUME NEW i, NEW sender, Posted(i, sender) PROVE Inv'
  <2>1. SaveUnread /\ UNCHANGED <<relations, policies, said, wanted>>
    BY <1>8 DEF Posted, IncrementUnread
  <2>2. InvUnread'
    BY <1>8, PostedCounted DEF Inv
  <2>3. QED
    BY <2>1, <2>2, CountersKeep
<1>9. ASSUME NEW a \in Resident, NEW b \in Resident, SendCliMessage(a, b) PROVE Inv'
  BY <1>9, <1>8 DEF SendCliMessage
<1>10. ASSUME NEW i \in Ids, NEW sender \in Resident, AppendShellMessage(i, sender) PROVE Inv'
  BY <1>10, <1>8 DEF AppendShellMessage
<1>11. ASSUME NEW i \in Ids, NEW sender \in Resident, PublishFrame(i, sender) PROVE Inv'
  BY <1>11, FrameKeeps
<1>12. CASE Restart
  BY <1>12, RestartKeeps
<1>13. CASE UNCHANGED vars
  BY <1>13, RoomsKeep DEF vars
<1>14. QED
  BY <1>1, <1>2, <1>3, <1>4, <1>5, <1>6, <1>7, <1>9, <1>10, <1>11, <1>12, <1>13 DEF Next

LEMMA Invariance == Spec => []Inv
<1>1. Init => Inv
  BY Starts
<1>2. Inv /\ [Next]_vars => Inv'
  BY StepKeeps
<1>3. QED
  BY <1>1, <1>2, PTL DEF Spec

----------------------------------------------------------------------------
(* The theorems. *)

LEMMA LetIn == ASSUME Inv PROVE VisitorsWereLetIn
<1> SUFFICES ASSUME NEW v \in Resident, NEW i \in ShellVisible(v), IsPersonal(i),
                    v # OwnerOf(i), "registered_all" \notin wanted[OwnerOf(i)]
             PROVE  Agreed(OwnerOf(i), v)
  BY DEF VisitorsWereLetIn
<1> DEFINE o == OwnerOf(i)
<1>1. o \in Resident
  BY DEF IsPersonal, Home, OwnerOf
<1>2. policies[o] # "registered_all"
  BY <1>1 DEF Inv, InvPolicies, Wished
<1>3. Friends(o, v)
  BY <1>2 DEF ShellVisible, PersonalVisible
<1> HIDE DEF o
<1>4. o # v
  BY DEF o
<1>5. {o, v} \in DOMAIN relations /\ relations[{o, v}].state = "friends"
  BY <1>3, <1>4 DEF Friends
<1>6. {v, o} = {o, v}
  OBVIOUS
<1>7. CASE relations[{o, v}].by = o
  BY <1>1, <1>4, <1>5, <1>7 DEF Inv, InvRelations, Recorded, Agreed, o
<1>8. CASE relations[{o, v}].by = v
  BY <1>1, <1>4, <1>5, <1>6, <1>8 DEF Inv, InvRelations, Recorded, Agreed, o
<1>9. relations[{o, v}].by \in {o, v}
  BY <1>1, <1>4, <1>5 DEF Inv, InvRelations, Recorded
<1>10. QED
  BY <1>7, <1>8, <1>9

\* Whoever is shown a personal room that is not theirs is a friend by their own
\* word and the owner's, or was let in by a policy the owner asked for.
THEOREM VisitorsLetIn == Spec => []VisitorsWereLetIn
<1>1. Inv => VisitorsWereLetIn
  BY LetIn
<1>2. QED
  BY <1>1, Invariance, PTL

\* A counter never runs ahead of what others posted since it was read, unless a
\* restart found an older file.
THEOREM CountersCountMessages == Spec => []NoPhantomUnread
<1>1. Inv => NoPhantomUnread
  BY DEF Inv, InvUnread
<1>2. QED
  BY <1>1, Invariance, PTL

----------------------------------------------------------------------------
(* Types.  Every conversation has an id and participants that the gateway   *)
(* can make, whichever way it comes about.                                  *)

RelationsTyped(rel) ==
  /\ DOMAIN rel \subseteq Pairs
  /\ \A p \in DOMAIN rel : rel[p] \in [state : {"pending", "friends"}, by : p]

Room == [kind : {"room", "direct"}, participants : SUBSET Identity]

RoomsTyped == DOMAIN rooms \subseteq Ids /\ \A i \in DOMAIN rooms : rooms[i] \in Room

Counts == posted \in 0..MaxMessages /\ faults \in 0..MaxFaults

RecordsTyped ==
  /\ Inv
  /\ registered \subseteq Resident
  /\ RelationsTyped(relations) /\ RelationsTyped(saved.relations)
  /\ RoomsTyped /\ Counts

LEMMA RecordsStart == ASSUME Init PROVE RecordsTyped
<1>1. DOMAIN relations = {} /\ saved.relations = relations /\ DOMAIN rooms = {}
  BY DEF Init
<1>2. Counts
  BY ConversationsConstants DEF Init, Counts
<1> QED BY <1>1, <1>2, Starts DEF Init, RecordsTyped, RelationsTyped, RoomsTyped

\* A failed write is counted, one that succeeds is not.
LEMMA WritesTyped ==
  ASSUME RecordsTyped, WriteFails \/ UNCHANGED faults
  PROVE  faults' \in 0..MaxFaults
BY ConversationsConstants DEF RecordsTyped, Counts, WriteFails

\* A conversation of a known id is put in place, or is there.
LEMMA MakeTyped ==
  ASSUME RoomsTyped, NEW i \in Ids, NEW conversation \in Room, Make(i, conversation)
  PROVE  RoomsTyped'
<1>1. rooms' = IF i \in DOMAIN rooms THEN rooms ELSE With(rooms, i, conversation)
  BY DEF Make, Ensured
<1>2. CASE i \in DOMAIN rooms
  BY <1>1, <1>2 DEF RoomsTyped
<1>3. CASE i \notin DOMAIN rooms
  <2>1. rooms' = [x \in DOMAIN rooms \cup {i} |-> IF x = i THEN conversation ELSE rooms[x]]
    BY <1>1, <1>3 DEF With
  <2> QED BY <2>1 DEF RoomsTyped
<1> QED BY <1>2, <1>3

LEMMA DirectIds ==
  ASSUME NEW a \in Resident \cup {Guide}, NEW b \in Resident \cup {Guide}
  PROVE  /\ Canonical(a, b) \in Ids /\ Resolved(a, b) \in Ids
         /\ ConversationOf("direct", {a, b}) \in Room
<1>1. Dm(a, b) \in Ids /\ Dm(b, a) \in Ids
  BY DEF Ids
<1>2. Canonical(a, b) \in Ids
  BY <1>1 DEF Canonical
<1>3. Resolved(a, b) \in Ids
  BY <1>1, <1>2 DEF Resolved
<1>4. ConversationOf("direct", {a, b}) \in Room
  BY DEF ConversationOf, Room, Identity
<1> QED BY <1>2, <1>3, <1>4

LEMMA BlueprintTyped ==
  ASSUME NEW i \in Ids, NEW sender \in Resident PROVE Blueprint(i, sender) \in Room
<1>1. CASE i[1] = "dm"
  <2>1. i[2] \in Resident \cup {Guide} /\ i[3] \in Resident \cup {Guide}
    BY <1>1 DEF Ids, Lobby, Home, Dm
  <2> QED BY <1>1, <2>1 DEF Blueprint, ConversationOf, Room, Identity, Parties
<1>2. CASE i[1] # "dm"
  BY <1>2 DEF Blueprint, ConversationOf, Room, Identity
<1> QED BY <1>1, <1>2

\* Friendship: the pair is of two residents, and one of them asked.
LEMMA FriendsTyped ==
  ASSUME RecordsTyped, NEW a \in Resident, NEW b \in Resident,
         RequestFriendship(a, b) \/ AcceptFriendship(a, b)
  PROVE  RecordsTyped'
<1> DEFINE pair == {a, b}
<1>1. Inv'
  BY FriendsKeep DEF RecordsTyped
<1>2. /\ SaveRelations /\ a # b
      /\ UNCHANGED <<registered, rooms, posted>>
  BY DEF RequestFriendship, AcceptFriendship
<1>3. pair \in Pairs
  <2>1. Cardinality(pair) = 2
    <3>1. IsFiniteSet({a}) /\ Cardinality({a}) = 1
      BY FS_Singleton
    <3>2. Cardinality({a} \cup {b}) = 2
      BY <1>2, <3>1, FS_AddElement
    <3>3. pair = {a} \cup {b}
      OBVIOUS
    <3> QED BY <3>2, <3>3
  <2> QED BY <2>1 DEF Pairs
<1>4. RelationsTyped(relations')
  <2>1. CASE RequestFriendship(a, b)
    <3> DEFINE record == [state |-> "pending", by |-> a]
    <3>1. relations' = [x \in DOMAIN relations \cup {pair} |->
                          IF x = pair THEN record ELSE relations[x]]
      BY <2>1 DEF RequestFriendship, With
    <3>2. record \in [state : {"pending", "friends"}, by : pair]
      OBVIOUS
    <3> HIDE DEF pair, record
    <3>3. /\ DOMAIN relations' = DOMAIN relations \cup {pair} /\ relations'[pair] = record
          /\ \A p \in DOMAIN relations : p # pair => relations'[p] = relations[p]
      BY <3>1
    <3> QED BY <1>3, <3>2, <3>3 DEF RecordsTyped, RelationsTyped
  <2>2. CASE AcceptFriendship(a, b)
    <3>1. relations' = [relations EXCEPT ![pair].state = "friends"] /\ pair \in DOMAIN relations
      BY <2>2 DEF AcceptFriendship, MayAccept
    <3> HIDE DEF pair
    <3>2. /\ DOMAIN relations' = DOMAIN relations
          /\ relations'[pair] = [relations[pair] EXCEPT !.state = "friends"]
          /\ \A p \in DOMAIN relations : p # pair => relations'[p] = relations[p]
      BY <3>1
    <3>3. relations[pair] \in [state : {"pending", "friends"}, by : pair]
      BY <3>1 DEF RecordsTyped, RelationsTyped
    <3>4. relations'[pair] \in [state : {"pending", "friends"}, by : pair]
      BY <3>2, <3>3
    <3> QED BY <1>3, <3>2, <3>4 DEF RecordsTyped, RelationsTyped
  <2> QED BY <2>1, <2>2
<1>5. saved'.relations \in {saved.relations, relations'}
  BY <1>2, WriteOfRelations DEF RecordsTyped, Inv, InvRelations
<1>6. faults' \in 0..MaxFaults
  BY <1>2, WritesTyped DEF SaveRelations
<1>7. Counts' /\ RoomsTyped' /\ registered' \subseteq Resident
  BY <1>2, <1>6 DEF RecordsTyped, Counts, RoomsTyped
<1>8. RelationsTyped(saved'.relations)
  BY <1>4, <1>5 DEF RecordsTyped
<1> QED BY <1>1, <1>4, <1>7, <1>8 DEF RecordsTyped

\* A message: the conversation it makes, its number and the counters' file.
LEMMA PostedTyped ==
  ASSUME RecordsTyped, Inv', NEW i, NEW sender, Posted(i, sender), RoomsTyped'
  PROVE  RecordsTyped'
<1>1. /\ posted < MaxMessages /\ posted' = posted + 1 /\ SaveUnread
      /\ UNCHANGED <<registered, relations>>
  BY DEF Posted, AppendMessage, IncrementUnread
<1>2. saved'.relations = saved.relations
  BY <1>1, WriteOfUnread DEF RecordsTyped, Inv, InvRelations
<1>3. faults' \in 0..MaxFaults
  BY <1>1, WritesTyped DEF SaveUnread
<1>4. Counts'
  BY <1>1, <1>3, ConversationsConstants DEF RecordsTyped, Counts
<1> QED BY <1>1, <1>2, <1>4 DEF RecordsTyped

\* A conversation is made or gets other members, and nothing else happens.
LEMMA OpenedTyped ==
  ASSUME RecordsTyped, Inv', RoomsOnly, RoomsTyped' PROVE RecordsTyped'
BY DEF RoomsOnly, RecordsTyped, Counts

LEMMA StepStores == ASSUME RecordsTyped, [Next]_vars PROVE RecordsTyped'
<1>1. Inv' /\ Inv /\ RoomsTyped
  BY StepKeeps DEF RecordsTyped
<1>2. ASSUME NEW r \in Resident, AdminCreateResident(r) PROVE RecordsTyped'
  BY <1>1, <1>2 DEF AdminCreateResident, RecordsTyped, RoomsTyped, Counts
<1>3. ASSUME NEW r \in Resident, NEW p \in Policy, SetAccessPolicy(r, p) PROVE RecordsTyped'
  <2>1. SavePolicy(r, p) /\ UNCHANGED <<registered, relations, rooms, posted>>
    BY <1>3 DEF SetAccessPolicy
  <2>2. saved'.relations = saved.relations
    BY <1>1, <2>1, WriteOfPolicy DEF Inv, InvRelations
  <2>3. faults' \in 0..MaxFaults
    BY <2>1, WritesTyped DEF SavePolicy
  <2> QED BY <1>1, <2>1, <2>2, <2>3 DEF RecordsTyped, RoomsTyped, Counts
<1>4. ASSUME NEW r \in Resident, OpenPersonalRoom(r) PROVE RecordsTyped'
  <2>1. Home(r) \in Ids /\ ConversationOf("direct", {r}) \in Room
    BY DEF Ids, ConversationOf, Room, Identity
  <2>2. RoomsTyped'
    BY <1>1, <1>4, <2>1, MakeTyped DEF OpenPersonalRoom
  <2> QED BY <1>1, <1>4, <2>2, OpenedTyped DEF OpenPersonalRoom, Opened
<1>5. ASSUME NEW r \in Resident, EnsureGuide(r) PROVE RecordsTyped'
  <2>1. Canonical(r, Guide) \in Ids /\ ConversationOf("direct", {r, Guide}) \in Room
    BY DirectIds
  <2>2. RoomsTyped'
    BY <1>1, <1>5, <2>1, MakeTyped DEF EnsureGuide
  <2> QED BY <1>1, <1>5, <2>2, OpenedTyped DEF EnsureGuide, Opened
<1>6. ASSUME NEW r \in Resident, NEW i \in DOMAIN rooms, MarkRead(r, i) PROVE RecordsTyped'
  <2>1. SaveUnread /\ UNCHANGED <<registered, relations, rooms, posted>>
    BY <1>6 DEF MarkRead
  <2>2. saved'.relations = saved.relations
    BY <1>1, <2>1, WriteOfUnread DEF Inv, InvRelations
  <2>3. faults' \in 0..MaxFaults
    BY <2>1, WritesTyped DEF SaveUnread
  <2> QED BY <1>1, <2>1, <2>2, <2>3 DEF RecordsTyped, RoomsTyped, Counts
<1>7. ASSUME NEW r \in Resident, NEW i \in DOMAIN rooms, NEW members \in SUBSET Identity,
             ManageMember(i, members)
      PROVE  RecordsTyped'
  <2>1. rooms' = [rooms EXCEPT ![i].participants = members] /\ RoomsOnly
    BY <1>7 DEF ManageMember
  <2>2. /\ DOMAIN rooms' = DOMAIN rooms
        /\ rooms'[i] = [rooms[i] EXCEPT !.participants = members]
        /\ \A j \in DOMAIN rooms : j # i => rooms'[j] = rooms[j]
    BY <2>1
  <2>3. rooms'[i] \in Room
    BY <1>1, <2>2 DEF RoomsTyped, Room
  <2>4. RoomsTyped'
    BY <1>1, <2>2, <2>3 DEF RoomsTyped
  <2> QED BY <1>1, <2>1, <2>4, OpenedTyped
<1>8. ASSUME NEW r \in Resident, NEW i \in DOMAIN rooms
      PROVE  /\ rooms[i].participants \cup {r} \in SUBSET Identity
             /\ rooms[i].participants \ {r} \in SUBSET Identity
  <2>1. rooms[i] \in Room
    BY <1>1 DEF RoomsTyped
  <2> QED BY <2>1 DEF Room, Identity
<1>9. ASSUME NEW a \in Resident, NEW b \in Resident, OpenDirectSession(a, b)
      PROVE  RecordsTyped'
  <2>1. Resolved(a, b) \in Ids /\ ConversationOf("direct", {a, b}) \in Room
    BY DirectIds
  <2>2. RoomsTyped'
    BY <1>1, <1>9, <2>1, MakeTyped DEF OpenDirectSession
  <2> QED BY <1>1, <1>9, <2>2, OpenedTyped DEF OpenDirectSession, Opened
<1>10. ASSUME NEW a \in Resident, NEW b \in Resident, SendCliMessage(a, b)
       PROVE  RecordsTyped'
  <2>1. Resolved(a, b) \in Ids /\ ConversationOf("direct", {a, b}) \in Room
    BY DirectIds
  <2>2. RoomsTyped'
    BY <1>1, <1>10, <2>1, MakeTyped DEF SendCliMessage
  <2> QED BY <1>1, <1>10, <2>2, PostedTyped DEF SendCliMessage
<1>11. ASSUME NEW i \in Ids, NEW sender \in Resident, AppendShellMessage(i, sender)
       PROVE  RecordsTyped'
  <2>1. RoomsTyped'
    BY <1>1, <1>11, MakeTyped, BlueprintTyped DEF AppendShellMessage
  <2> QED BY <1>1, <1>11, <2>1, PostedTyped DEF AppendShellMessage
<1>12. ASSUME NEW i \in Ids, NEW sender \in Resident, PublishFrame(i, sender)
       PROVE  RecordsTyped'
  <2>1. RoomsTyped'
    BY <1>1, <1>12, MakeTyped, BlueprintTyped DEF PublishFrame
  <2>2. /\ posted < MaxMessages /\ posted' = posted + 1
        /\ UNCHANGED <<registered, relations, saved, faults>>
    BY <1>12 DEF PublishFrame, AppendMessage
  <2>3. Counts'
    BY <2>2, ConversationsConstants DEF RecordsTyped, Counts
  <2> QED BY <1>1, <2>1, <2>2, <2>3 DEF RecordsTyped
<1>13. CASE Restart
  <2>1. /\ relations' = saved.relations /\ UNCHANGED <<registered, rooms, posted, saved>>
        /\ faults < MaxFaults /\ faults' = faults + 1
    BY <1>13 DEF Restart
  <2>2. Counts'
    BY <2>1, ConversationsConstants DEF RecordsTyped, Counts
  <2> QED BY <1>1, <2>1, <2>2 DEF RecordsTyped, RoomsTyped
<1>14. CASE UNCHANGED vars
  BY <1>1, <1>14 DEF vars, RecordsTyped, RoomsTyped, Counts
<1> QED
  BY <1>2, <1>3, <1>4, <1>5, <1>6, <1>7, <1>8, <1>9, <1>10, <1>11, <1>12, <1>13, <1>14,
     FriendsTyped DEF Next

----------------------------------------------------------------------------
(* Members.  A conversation that is made has no member but the parties of   *)
(* its id and nobody was removed from it before; one that is there keeps    *)
(* its members until an administrator changes them.                         *)

Managed == managed \subseteq Identity \X Ids \X {"guest", "out"}

May(v, i, kind) ==
  /\ <<v, i, "out">> \notin managed
  /\ kind = "direct" => v \in Parties(i) \/ <<v, i, "guest">> \in managed

InvMembers ==
  /\ Managed
  /\ \A i \in DOMAIN rooms : \A v \in rooms[i].participants : May(v, i, rooms[i].kind)
  /\ \A v \in Identity, i \in Ids \ DOMAIN rooms : <<v, i, "out">> \notin managed

ConversationsTyped == RecordsTyped /\ InvMembers

LEMMA ConversationsTypeOK == ConversationsTyped => TypeOK
<1> SUFFICES ASSUME ConversationsTyped PROVE TypeOK
  OBVIOUS
<1>1. /\ policies \in [Resident -> Policy] /\ wanted \in [Resident -> SUBSET Policy]
      /\ DOMAIN unread = Identity \X Ids /\ lost \in BOOLEAN
  BY DEF ConversationsTyped, RecordsTyped, Inv, InvPolicies, Wished, InvUnread, Counters
<1>2. \A p \in DOMAIN relations :
        relations[p].state \in {"pending", "friends"} /\ relations[p].by \in p
  BY DEF ConversationsTyped, RecordsTyped, RelationsTyped
<1>3. \A i \in DOMAIN rooms :
        rooms[i].kind \in {"room", "direct"} /\ rooms[i].participants \subseteq Identity
  BY DEF ConversationsTyped, RecordsTyped, RoomsTyped, Room
<1>4. managed \subseteq Identity \X Ids \X {"guest", "out"}
  BY DEF ConversationsTyped, InvMembers, Managed
<1> QED
  BY <1>1, <1>2, <1>3, <1>4
     DEF ConversationsTyped, RecordsTyped, RelationsTyped, RoomsTyped, Counts, TypeOK

LEMMA ConversationsStart == ASSUME Init PROVE ConversationsTyped
<1>1. RecordsTyped
  BY RecordsStart
<1>2. DOMAIN rooms = {} /\ managed = {}
  BY DEF Init
<1>3. InvMembers
  BY <1>2 DEF InvMembers, Managed
<1> QED BY <1>1, <1>3 DEF ConversationsTyped

LEMMA MembersStand ==
  ASSUME InvMembers, UNCHANGED <<rooms, managed>> PROVE InvMembers'
BY DEF InvMembers, Managed, May

\* A conversation of an id nobody was removed from, with the parties of that id.
LEMMA MakeMembers ==
  ASSUME InvMembers, NEW i \in Ids, NEW conversation, Make(i, conversation), managed' = managed,
         conversation.participants \subseteq Identity,
         conversation.kind = "direct" => conversation.participants \subseteq Parties(i)
  PROVE  InvMembers'
<1>1. rooms' = IF i \in DOMAIN rooms THEN rooms ELSE With(rooms, i, conversation)
  BY DEF Make, Ensured
<1>2. CASE i \in DOMAIN rooms
  BY <1>1, <1>2, MembersStand
<1>3. CASE i \notin DOMAIN rooms
  <2>1. /\ DOMAIN rooms' = DOMAIN rooms \cup {i} /\ rooms'[i] = conversation
        /\ \A j \in DOMAIN rooms : rooms'[j] = rooms[j]
    BY <1>1, <1>3 DEF With
  <2>2. \A v \in conversation.participants : May(v, i, conversation.kind)
    BY <1>3 DEF InvMembers, May
  <2>3. ASSUME NEW j \in DOMAIN rooms', NEW v \in rooms'[j].participants
        PROVE  May(v, j, rooms[j].kind)'
    <3>1. May(v, j, rooms'[j].kind)
      BY <2>1, <2>2 DEF InvMembers
    <3> QED BY <3>1 DEF May
  <2>4. (\A j \in DOMAIN rooms : \A v \in rooms[j].participants : May(v, j, rooms[j].kind))'
    BY <2>3
  <2>5. (\A v \in Identity, j \in Ids \ DOMAIN rooms : <<v, j, "out">> \notin managed)'
    BY <2>1 DEF InvMembers
  <2> QED BY <2>4, <2>5 DEF InvMembers, Managed
<1> QED BY <1>2, <1>3

\* The canonical id or the legacy one: both are between the two.
LEMMA DirectMembers ==
  ASSUME NEW a \in Resident \cup {Guide}, NEW b \in Resident \cup {Guide},
         NEW i \in {Canonical(a, b), Resolved(a, b)}
  PROVE  /\ i \in Ids
         /\ ConversationOf("direct", {a, b}).participants \subseteq Identity
         /\ ConversationOf("direct", {a, b}).participants \subseteq Parties(i)
<1>1. i \in {Dm(a, b), Dm(b, a)}
  <2>1. Canonical(a, b) \in {Dm(a, b), Dm(b, a)}
    BY DEF Canonical
  <2>2. Resolved(a, b) \in {Dm(a, b), Dm(b, a)}
    BY <2>1 DEF Resolved
  <2> QED BY <2>1, <2>2
<1>2. i[2] \in {a, b} /\ i[3] \in {a, b} /\ {a, b} = Parties(i)
  BY <1>1 DEF Dm, Parties
<1>3. i \in Ids
  BY DirectIds
<1> QED BY <1>2, <1>3 DEF ConversationOf, Identity

LEMMA BlueprintMembers ==
  ASSUME NEW i \in Ids, NEW sender \in Resident
  PROVE  /\ Blueprint(i, sender).participants \subseteq Identity
         /\ Blueprint(i, sender).kind = "direct"
              => Blueprint(i, sender).participants \subseteq Parties(i)
<1>1. Blueprint(i, sender).participants \subseteq Identity
  BY BlueprintTyped DEF Room
<1> QED BY <1>1 DEF Blueprint, ConversationOf, Parties

LEMMA ManageMembers ==
  ASSUME InvMembers, RoomsTyped, NEW i \in DOMAIN rooms, NEW members \in SUBSET Identity,
         ManageMember(i, members)
  PROVE  InvMembers'
<1> DEFINE before  == rooms[i].participants
           changed == (members \ before) \cup (before \ members)
<1>1. /\ i \in Ids /\ before \subseteq Identity /\ DOMAIN rooms \subseteq Ids
      /\ \A j \in DOMAIN rooms : rooms[j].participants \subseteq Identity /\ rooms[j] \in Room
  BY DEF RoomsTyped, Room
<1>2. /\ DOMAIN rooms' = DOMAIN rooms
      /\ rooms'[i].participants = members /\ rooms'[i].kind = rooms[i].kind
      /\ \A j \in DOMAIN rooms : j # i => rooms'[j] = rooms[j]
  <2>1. rooms' = [rooms EXCEPT ![i].participants = members] /\ rooms[i] \in Room
    BY <1>1 DEF ManageMember
  <2> QED BY <2>1 DEF Room
<1> HIDE DEF before, changed
<1>3. managed' = {m \in managed : m[2] # i \/ m[1] \notin changed}
                    \cup {<<v, i, "guest">> : v \in (members \ before) \ Parties(i)}
                    \cup {<<v, i, "out">> : v \in before \ members}
  BY DEF ManageMember, before, changed
<1>4. /\ Managed'
      /\ \A v \in Identity, j \in Ids :
           /\ j # i => \A how \in {"guest", "out"} :
                         <<v, j, how>> \in managed' <=> <<v, j, how>> \in managed
           /\ j = i /\ v \in members \ before =>
                <<v, j, "out">> \notin managed'
                /\ (v \in Parties(i) \/ <<v, j, "guest">> \in managed')
           /\ j = i /\ v \in members \cap before =>
                \A how \in {"guest", "out"} :
                  <<v, j, how>> \in managed' <=> <<v, j, how>> \in managed
  <2>1. \A v, j, how :
          <<v, j, how>> \in managed' <=>
            \/ <<v, j, how>> \in managed
                 /\ (j # i \/ v \notin changed)
            \/ j = i /\ how = "guest" /\ v \in (members \ before) \ Parties(i)
            \/ j = i /\ how = "out" /\ v \in before \ members
    BY <1>3, Zenon
  <2>2. Managed'
    <3>1. {m \in managed : m[2] # i \/ m[1] \notin changed}
            \subseteq Identity \X Ids \X {"guest", "out"}
      BY DEF InvMembers, Managed
    <3>2. {<<v, i, "guest">> : v \in (members \ before) \ Parties(i)}
            \subseteq Identity \X Ids \X {"guest", "out"}
      BY <1>1
    <3>3. {<<v, i, "out">> : v \in before \ members} \subseteq Identity \X Ids \X {"guest", "out"}
      BY <1>1 DEF before
    <3> QED BY <1>3, <3>1, <3>2, <3>3 DEF Managed
  <2> QED BY <2>1, <2>2 DEF changed
<1>5. ASSUME NEW j \in DOMAIN rooms, NEW v \in rooms'[j].participants
      PROVE  May(v, j, rooms[j].kind)'
  <2>1. CASE j # i
    <3>1. v \in Identity /\ May(v, j, rooms[j].kind) /\ rooms'[j] = rooms[j] /\ j \in Ids
      BY <1>1, <1>2, <1>5, <2>1 DEF InvMembers
    <3> QED BY <1>4, <2>1, <3>1 DEF May
  <2>2. CASE j = i /\ v \in before
    <3>1. v \in Identity /\ v \in members /\ May(v, i, rooms[i].kind)
      BY <1>1, <1>2, <1>5, <2>2 DEF InvMembers, before
    <3> QED BY <1>1, <1>2, <1>4, <2>2, <3>1 DEF May
  <2>3. CASE j = i /\ v \notin before
    <3>1. v \in Identity /\ v \in members
      BY <1>2, <1>5, <2>3
    <3> QED BY <1>1, <1>4, <2>3, <3>1 DEF May
  <2> QED BY <2>1, <2>2, <2>3
<1>6. \A v \in Identity, j \in Ids \ DOMAIN rooms' : <<v, j, "out">> \notin managed'
  BY <1>2, <1>4 DEF InvMembers
<1> QED BY <1>2, <1>4, <1>5, <1>6 DEF InvMembers

LEMMA StepMembers ==
  ASSUME RecordsTyped, InvMembers, [Next]_vars PROVE InvMembers'
<1>1. RoomsTyped
  BY DEF RecordsTyped
<1>2. ASSUME NEW r \in Resident,
             AdminCreateResident(r) \/ (\E p \in Policy : SetAccessPolicy(r, p))
             \/ (\E i \in DOMAIN rooms : MarkRead(r, i))
      PROVE  InvMembers'
  BY <1>2, MembersStand DEF AdminCreateResident, SetAccessPolicy, MarkRead
<1>3. ASSUME NEW r \in Resident, OpenPersonalRoom(r) PROVE InvMembers'
  <2>1. /\ Home(r) \in Ids /\ Parties(Home(r)) = {r}
        /\ ConversationOf("direct", {r}).participants = {r}
        /\ r \in Identity
    BY DEF Ids, Home, ConversationOf, Identity, Parties
  <2>2. Make(Home(r), ConversationOf("direct", {r})) /\ managed' = managed
    BY <1>3 DEF OpenPersonalRoom, Opened
  <2> QED BY <2>1, <2>2, MakeMembers
<1>4. ASSUME NEW r \in Resident, EnsureGuide(r) PROVE InvMembers'
  <2>1. /\ Make(Canonical(r, Guide), ConversationOf("direct", {r, Guide}))
        /\ managed' = managed
    BY <1>4 DEF EnsureGuide, Opened
  <2> QED BY <2>1, MakeMembers, DirectMembers
<1>5. ASSUME NEW r \in Resident, NEW i \in DOMAIN rooms, NEW members,
             members = rooms[i].participants \cup {r} \/ members = rooms[i].participants \ {r},
             ManageMember(i, members)
      PROVE  InvMembers'
  <2>1. rooms[i].participants \subseteq Identity
    BY <1>1 DEF RoomsTyped, Room
  <2>2. members \in SUBSET Identity
    BY <1>5, <2>1 DEF Identity
  <2> QED BY <1>1, <1>5, <2>2, ManageMembers
<1>6. ASSUME NEW a \in Resident, NEW b \in Resident,
             RequestFriendship(a, b) \/ AcceptFriendship(a, b)
      PROVE  InvMembers'
  BY <1>6, MembersStand DEF RequestFriendship, AcceptFriendship
<1>7. ASSUME NEW a \in Resident, NEW b \in Resident,
             OpenDirectSession(a, b) \/ SendCliMessage(a, b)
      PROVE  InvMembers'
  <2>1. Make(Resolved(a, b), ConversationOf("direct", {a, b})) /\ managed' = managed
    BY <1>7 DEF OpenDirectSession, SendCliMessage, Opened, Posted
  <2> QED BY <2>1, MakeMembers, DirectMembers
<1>8. ASSUME NEW i \in Ids, NEW sender \in Resident,
             AppendShellMessage(i, sender) \/ PublishFrame(i, sender)
      PROVE  InvMembers'
  <2>1. Make(i, Blueprint(i, sender)) /\ managed' = managed
    BY <1>8 DEF AppendShellMessage, PublishFrame, Posted
  <2> QED BY <2>1, MakeMembers, BlueprintMembers
<1>9. CASE Restart \/ UNCHANGED vars
  BY <1>9, MembersStand DEF Restart, vars
<1> QED
  BY <1>2, <1>3, <1>4, <1>5, <1>6, <1>7, <1>8, <1>9 DEF Next

LEMMA StepTyped == ASSUME ConversationsTyped, [Next]_vars PROVE ConversationsTyped'
BY StepStores, StepMembers DEF ConversationsTyped

\* However conversations come about, by whatever id and with whichever legacy
\* names, memory and files hold what their types say.
THEOREM ConversationsKeepTypes == Spec => []TypeOK
<1>1. Init => ConversationsTyped
  BY ConversationsStart
<1>2. ConversationsTyped /\ [Next]_vars => ConversationsTyped'
  BY StepTyped
<1>3. QED
  BY <1>1, <1>2, ConversationsTypeOK, PTL DEF Spec

LEMMA MembersRead ==
  ASSUME ConversationsTyped, NEW v \in Identity, NEW i \in DOMAIN rooms \ {Lobby},
         ReadsAsMember(v, i)
  PROVE  v \in rooms[i].participants
<1>1. CASE i \in ShellMessages(v) \cup SearchMessages(v)
  <2>1. i \in ShellVisible(v) /\ MessagesVisible(i, v)
    BY <1>1 DEF ShellMessages, SearchMessages
  <2>2. CASE IsPersonal(i)
    <3>1. PICK r \in Resident : i = Home(r) /\ rooms[i].participants = {r}
      BY <2>2 DEF IsPersonal
    <3> QED BY <2>1, <2>2, <3>1 DEF MessagesVisible, OwnerOf, Home
  <2>3. CASE ~IsPersonal(i)
    BY <2>1, <2>3 DEF ShellVisible, RoomVisible
  <2> QED BY <2>2, <2>3
<1>2. CASE i \in CliMessages(v) \cup ExportMessages(v)
  BY <1>2 DEF CliMessages, ExportMessages, RoomVisible
<1> QED BY <1>1, <1>2 DEF ReadsAsMember

\* However often sessions are opened, sign-ins ensure the guide's conversation
\* and messages arrive under whichever id, nobody reads a conversation as a
\* member but the parties of its id and those an administrator added, and nobody
\* one removed.
THEOREM MembersReadAlone == Spec => []OnlyMembersRead
<1>1. Init => ConversationsTyped
  BY ConversationsStart
<1>2. ConversationsTyped /\ [Next]_vars => ConversationsTyped'
  BY StepTyped
<1>3. ConversationsTyped => OnlyMembersRead
  BY MembersRead DEF ConversationsTyped, InvMembers, May, OnlyMembersRead
<1>4. QED
  BY <1>1, <1>2, <1>3, PTL DEF Spec

============================================================================
