--------------------------- MODULE GatewayProofs ---------------------------
(***************************************************************************)
(* Proofs about the parts of the gateway that module Gateway sets side by  *)
(* side, for any residents, capabilities, messages and bounds.  Each part  *)
(* has an inductive invariant of its own; a step of another part leaves    *)
(* its variables alone.                                                    *)
(***************************************************************************)
EXTENDS Gateway, Sequences, TLAPS

\* Every part starts as it would alone.
LEMMA PartsStart ==
  ASSUME GatewayInit
  PROVE  Init /\ Rq!Init /\ Ad!Init /\ Se!Init /\ Sh!Init /\ Re!Init /\ Te!Init /\ Cl!Init
BY DEF GatewayInit

\* Of the gateway's step every part sees a step of its own or none.
LEMMA OneAtATime ==
  ASSUME [GatewayNext]_gatewayVars
  PROVE  /\ [Next]_vars
         /\ [Rq!Next]_requestVars /\ [Ad!Next]_adminVars /\ [Se!Next]_mlsVars
         /\ [Sh!Next]_shellVars /\ [Re!Next]_relayVars /\ [Te!Next]_termVars
         /\ [Cl!Next]_cliVars
<1>1. CASE UNCHANGED gatewayVars
  BY <1>1 DEF gatewayVars
<1>2. CASE GatewayNext
  BY <1>2 DEF GatewayNext
<1> QED
  BY <1>1, <1>2

----------------------------------------------------------------------------
(* The relay: what was acknowledged.  Nodes only grow while they run, so    *)
(* what was pushed to one stays there; the acknowledgement remembers        *)
(* whether the gateway was restarted since.                                 *)

RelayTyped ==
  /\ local \in Seq(Published)
  /\ remote \in Seq(Published \cup Foreign)
  /\ upstream \in BOOLEAN /\ relaySaved \in BOOLEAN
  /\ acked \subseteq [message : Published, upstream : BOOLEAN, here : BOOLEAN]

RelayInv == RelayTyped /\ Re!AckedReachesBoth

\* What a node holds it holds after one more frame, and it holds that one.
LEMMA NodeGrows ==
  ASSUME NEW S, NEW s \in Seq(S), NEW m \in S
  PROVE  /\ Re!Pushed(s, m) \in Seq(S)
         /\ Re!Contains(Re!Pushed(s, m), m)
         /\ \A e : Re!Contains(s, e) => Re!Contains(Re!Pushed(s, m), e)
<1> DEFINE t == Append(s, m)
<1>1. t \in Seq(S) /\ Len(t) = Len(s) + 1 /\ t[Len(s) + 1] = m
  OBVIOUS
<1>2. \A i \in 1..Len(s) : t[i] = s[i] /\ i \in 1..Len(t)
  OBVIOUS
<1>3. Len(s) + 1 \in 1..Len(t)
  BY <1>1
<1>4. QED
  BY <1>1, <1>2, <1>3 DEF Re!Pushed, Re!Contains

LEMMA RelayStarts == ASSUME Re!Init PROVE RelayInv
<1>1. /\ local = <<>> /\ remote = <<>> /\ upstream = FALSE /\ relaySaved = FALSE /\ acked = {}
  BY DEF Re!Init
<1>2. local \in Seq(Published) /\ remote \in Seq(Published \cup Foreign)
  BY <1>1
<1>3. QED
  BY <1>1, <1>2 DEF RelayInv, RelayTyped, Re!AckedReachesBoth

\* A step that lets the nodes grow or stand still and acknowledges nothing new.
LEMMA RelayKept ==
  ASSUME RelayInv,
         local' \in Seq(Published), remote' \in Seq(Published \cup Foreign), upstream' \in BOOLEAN,
         relaySaved' \in BOOLEAN,
         \A e : Re!Contains(local, e) => Re!Contains(local', e),
         \A e : Re!Contains(remote, e) => Re!Contains(remote', e),
         relayTimeline \subseteq relayTimeline', acked' = acked
  PROVE  RelayInv'
BY DEF RelayInv, RelayTyped, Re!AckedReachesBoth

LEMMA PublishKeeps == ASSUME RelayInv, NEW m \in Published, Re!Publish(m) PROVE RelayInv'
<1>1. /\ local' = Re!Pushed(local, m)
      /\ relayTimeline' = relayTimeline \cup {m}
      /\ acked' = {a \in acked : a.message # m}
                    \cup {[message |-> m, upstream |-> upstream, here |-> TRUE]}
      /\ upstream' = upstream /\ relaySaved' = relaySaved
      /\ IF upstream THEN remote' = Re!Pushed(remote, m) ELSE remote' = remote
  BY DEF Re!Publish, Re!ReachesUpstream
<1>2. /\ local' \in Seq(Published) /\ Re!Contains(local', m)
      /\ \A e : Re!Contains(local, e) => Re!Contains(local', e)
  BY <1>1, NodeGrows DEF RelayInv, RelayTyped
<1>3. /\ remote' \in Seq(Published \cup Foreign)
      /\ upstream => Re!Contains(remote', m)
      /\ \A e : Re!Contains(remote, e) => Re!Contains(remote', e)
  <2>1. CASE upstream
    <3>1. remote' = Re!Pushed(remote, m) /\ m \in Published \cup Foreign
      BY <1>1, <2>1
    <3>2. remote \in Seq(Published \cup Foreign)
      BY DEF RelayInv, RelayTyped
    <3>3. QED
      BY <3>1, <3>2, NodeGrows
  <2>2. CASE ~upstream
    BY <1>1, <2>2 DEF RelayInv, RelayTyped
  <2>3. QED
    BY <2>1, <2>2
<1>4. RelayTyped'
  <2>1. acked' \subseteq [message : Published, upstream : BOOLEAN, here : BOOLEAN]
    <3>1. acked \subseteq [message : Published, upstream : BOOLEAN, here : BOOLEAN]
      BY DEF RelayInv, RelayTyped
    <3>2. [message |-> m, upstream |-> upstream, here |-> TRUE]
            \in [message : Published, upstream : BOOLEAN, here : BOOLEAN]
      BY DEF RelayInv, RelayTyped
    <3>3. QED
      BY <1>1, <3>1, <3>2, Zenon
  <2>2. QED
    BY <1>1, <1>2, <1>3, <2>1 DEF RelayInv, RelayTyped
<1>5. ASSUME NEW a \in acked'
      PROVE  /\ a.message \in relayTimeline'
             /\ a.upstream => Re!Contains(remote', a.message)
             /\ a.here => Re!Contains(local', a.message)
  <2>1. CASE a \in acked
    BY <1>1, <1>2, <1>3, <2>1 DEF RelayInv, Re!AckedReachesBoth
  <2>2. CASE a = [message |-> m, upstream |-> upstream, here |-> TRUE]
    BY <1>1, <1>2, <1>3, <2>2
  <2>3. QED
    BY <1>1, <1>5, <2>1, <2>2
<1>6. QED
  BY <1>4, <1>5 DEF RelayInv, Re!AckedReachesBoth

LEMMA UpstreamFailsKeeps == ASSUME RelayInv, NEW m \in Published, Re!UpstreamFails(m) PROVE RelayInv'
<1>1. local' = Re!Pushed(local, m) /\ remote' \in {remote, Re!Pushed(remote, m)}
  BY DEF Re!UpstreamFails
<1>2. /\ local' \in Seq(Published) /\ \A e : Re!Contains(local, e) => Re!Contains(local', e)
  BY <1>1, NodeGrows DEF RelayInv, RelayTyped
<1>3. /\ remote' \in Seq(Published \cup Foreign)
      /\ \A e : Re!Contains(remote, e) => Re!Contains(remote', e)
  BY <1>1, NodeGrows DEF RelayInv, RelayTyped
<1>4. UNCHANGED <<relayTimeline, upstream, relaySaved, acked>>
  BY DEF Re!UpstreamFails
<1>5. QED
  BY <1>2, <1>3, <1>4, RelayKept DEF RelayInv, RelayTyped

LEMMA IngestFailsKeeps == ASSUME RelayInv, NEW m \in Published, Re!IngestFails(m) PROVE RelayInv'
<1>1. /\ local' = Re!Pushed(local, m)
      /\ remote' = Re!Pushed(remote, m) \/ remote' = remote
  BY DEF Re!IngestFails
<1>2. /\ local' \in Seq(Published) /\ \A e : Re!Contains(local, e) => Re!Contains(local', e)
  BY <1>1, NodeGrows DEF RelayInv, RelayTyped
<1>3. /\ remote' \in Seq(Published \cup Foreign)
      /\ \A e : Re!Contains(remote, e) => Re!Contains(remote', e)
  BY <1>1, NodeGrows DEF RelayInv, RelayTyped
<1>4. UNCHANGED <<relayTimeline, upstream, relaySaved, acked>>
  BY DEF Re!IngestFails
<1>5. QED
  BY <1>2, <1>3, <1>4, RelayKept DEF RelayInv, RelayTyped

LEMMA PublishElsewhereKeeps ==
  ASSUME RelayInv, NEW m \in Foreign, Re!PublishElsewhere(m) PROVE RelayInv'
<1>1. /\ remote' = Re!Pushed(remote, m)
      /\ UNCHANGED <<local, relayTimeline, upstream, relaySaved, acked>>
  BY DEF Re!PublishElsewhere
<1>2. /\ remote' \in Seq(Published \cup Foreign)
      /\ \A e : Re!Contains(remote, e) => Re!Contains(remote', e)
  BY <1>1, NodeGrows DEF RelayInv, RelayTyped
<1>3. QED
  BY <1>1, <1>2, RelayKept DEF RelayInv, RelayTyped

\* A restart empties the gateway's node and says so in what it acknowledged.
LEMMA RelayRestarts == ASSUME RelayInv, Re!Restart PROVE RelayInv'
<1>1. /\ local' = <<>> /\ upstream' = relaySaved /\ relaySaved' = relaySaved /\ remote' = remote /\ relayTimeline' = relayTimeline
      /\ acked' = {[a EXCEPT !.here = FALSE] : a \in acked}
  BY DEF Re!Restart
<1>2. ASSUME NEW a \in acked'
      PROVE  /\ a \in [message : Published, upstream : BOOLEAN, here : BOOLEAN]
             /\ a.here = FALSE
             /\ a.message \in relayTimeline'
             /\ a.upstream => Re!Contains(remote', a.message)
  <2>1. PICK b \in acked : a = [b EXCEPT !.here = FALSE]
    BY <1>1, <1>2
  <2>2. b \in [message : Published, upstream : BOOLEAN, here : BOOLEAN]
    BY DEF RelayInv, RelayTyped
  <2>3. a.message = b.message /\ a.upstream = b.upstream /\ a.here = FALSE
    BY <2>1, <2>2
  <2>4. QED
    BY <1>1, <2>1, <2>2, <2>3 DEF RelayInv, Re!AckedReachesBoth
<1>3. RelayTyped'
  <2>1. local' \in Seq(Published)
    BY <1>1
  <2>2. acked' \subseteq [message : Published, upstream : BOOLEAN, here : BOOLEAN]
    BY <1>2
  <2>3. QED
    BY <1>1, <2>1, <2>2 DEF RelayInv, RelayTyped
<1>4. QED
  BY <1>2, <1>3 DEF RelayInv, Re!AckedReachesBoth

LEMMA SetUpstreamKeeps == ASSUME RelayInv, NEW connected \in BOOLEAN, Re!SetUpstream(connected)
                          PROVE  RelayInv'
<1>1. UNCHANGED <<local, remote, relayTimeline, acked>> /\ upstream' = connected
  BY DEF Re!SetUpstream
<1>2. relaySaved' \in BOOLEAN
  BY DEF Re!SetUpstream, RelayInv, RelayTyped
<1>3. QED
  BY <1>1, <1>2, RelayKept DEF RelayInv, RelayTyped

\* Reading moves cursors and fills the answer, and touches no node.
LEMMA ReadingKeeps ==
  ASSUME RelayInv, UNCHANGED <<local, remote, relayTimeline, upstream, relaySaved, acked>> PROVE RelayInv'
BY DEF RelayInv, RelayTyped, Re!AckedReachesBoth

LEMMA RelayStep == ASSUME RelayInv, [Re!Next]_relayVars PROVE RelayInv'
<1>1. ASSUME NEW m \in Published, Re!Publish(m) \/ Re!UpstreamFails(m) \/ Re!IngestFails(m) PROVE RelayInv'
  BY <1>1, PublishKeeps, UpstreamFailsKeeps, IngestFailsKeeps
<1>2. ASSUME NEW m \in Foreign, Re!PublishElsewhere(m) PROVE RelayInv'
  BY <1>2, PublishElsewhereKeeps
<1>3. ASSUME NEW c, Re!Recover(c) PROVE RelayInv'
  BY <1>3, ReadingKeeps DEF Re!Recover
<1>4. ASSUME NEW history \in BOOLEAN, Re!Subscribe(history) PROVE RelayInv'
  BY <1>4, ReadingKeeps DEF Re!Subscribe
<1>5. CASE Re!Poll
  BY <1>5, ReadingKeeps DEF Re!Poll
<1>6. ASSUME NEW connected \in BOOLEAN, Re!SetUpstream(connected) PROVE RelayInv'
  BY <1>6, SetUpstreamKeeps
<1>7. CASE Re!Restart
  BY <1>7, RelayRestarts
<1>8. CASE UNCHANGED relayVars
  BY <1>8, ReadingKeeps DEF relayVars
<1>9. QED
  BY <1>1, <1>2, <1>3, <1>4, <1>5, <1>6, <1>7, <1>8 DEF Re!Next

\* Whatever fails and however often a frame is published again, an acknowledged
\* message is in the timeline, at the upstream that was connected when it was
\* acknowledged, and in the gateway's own node until a restart.
THEOREM AcknowledgedIsHeld == GatewaySpec => []AckedReachesBoth
<1>1. GatewayInit => RelayInv
  BY PartsStart, RelayStarts
<1>2. RelayInv /\ [GatewayNext]_gatewayVars => RelayInv'
  BY OneAtATime, RelayStep
<1>3. RelayInv => AckedReachesBoth
  BY DEF RelayInv, AckedReachesBoth
<1>4. QED
  BY <1>1, <1>2, <1>3, PTL DEF GatewaySpec

----------------------------------------------------------------------------
(* Group keys.  A key is as long as its epoch's number: it begins with one  *)
(* entry and every rotation appends one.  So equal keys are of equal        *)
(* epochs, wherever the group came from: made, made again or read from the  *)
(* file.                                                                    *)

\* What keys are made of.
Material == [public : SUBSET Person, random : Nat] \cup Nat

Fits(key, epoch) == epoch \in Nat /\ key \in Seq(Material) /\ Len(key) = epoch

KeysFit(g) == \A c \in DOMAIN g : Fits(g[c].key, g[c].epoch)

KeysInv ==
  /\ random \in Nat
  /\ KeysFit(mlsGroups)
  /\ KeysFit(mlsSaved)
  /\ \A e \in sealed : Fits(e.key, e.epoch)

LEMMA KeysStart == ASSUME Se!Init PROVE KeysInv
<1>1. DOMAIN mlsGroups = {} /\ mlsSaved = mlsGroups /\ sealed = {} /\ random = 0
  BY DEF Se!Init
<1>2. QED
  BY <1>1 DEF KeysInv, KeysFit

LEMMA FirstKeyFits ==
  ASSUME random \in Nat, NEW members \in SUBSET Person
  PROVE  Fits(Se!FirstKey(members), 1)
<1> DEFINE entry == [public |-> members \cap Keyed,
                     random |-> IF members \cap Keyed = {} THEN random + 1 ELSE 0]
<1>1. entry \in Material
  BY DEF Material
<1>2. <<entry>> \in Seq(Material) /\ Len(<<entry>>) = 1
  BY <1>1
<1>3. QED
  BY <1>2 DEF Se!FirstKey, Fits

LEMMA BootstrapKeeps ==
  ASSUME KeysInv, NEW c, NEW members \in SUBSET Person, Se!Bootstrap(c, members)
  PROVE  KeysFit(mlsGroups') /\ random' \in Nat
<1>1. mlsGroups' = Se!Inserted(c, Se!Group(members, Se!FirstKey(members)))
  BY DEF Se!Bootstrap
<1>2. /\ DOMAIN mlsGroups' = DOMAIN mlsGroups \cup {c}
      /\ mlsGroups'[c] = Se!Group(members, Se!FirstKey(members))
      /\ \A d \in DOMAIN mlsGroups \ {c} : mlsGroups'[d] = mlsGroups[d]
  BY <1>1 DEF Se!Inserted
<1>3. mlsGroups'[c].key = Se!FirstKey(members) /\ mlsGroups'[c].epoch = 1
  BY <1>2 DEF Se!Group
<1>4. Fits(mlsGroups'[c].key, mlsGroups'[c].epoch)
  BY <1>3, FirstKeyFits DEF KeysInv
<1>5. KeysFit(mlsGroups')
  BY <1>2, <1>4 DEF KeysFit, KeysInv
<1>6. random' \in Nat
  BY DEF Se!Bootstrap, KeysInv
<1>7. QED
  BY <1>5, <1>6

LEMMA RotateKeeps == ASSUME KeysInv, NEW c \in DOMAIN mlsGroups, Se!RotateEpoch(c) PROVE KeysInv'
<1> DEFINE next == mlsGroups[c].epoch + 1
           key  == Se!EpochKey(mlsGroups[c].key, next)
<1>1. /\ mlsGroups' = [mlsGroups EXCEPT ![c].epoch = next, ![c].pending = FALSE, ![c].key = key]
      /\ UNCHANGED <<mlsSaved, sealed, random>>
  BY DEF Se!RotateEpoch
<1>2. Fits(mlsGroups[c].key, mlsGroups[c].epoch)
  BY DEF KeysInv, KeysFit
<1>3. Fits(key, next)
  <2>1. next \in Nat /\ next \in Material
    BY <1>2 DEF Fits, Material
  <2>2. Append(mlsGroups[c].key, next) \in Seq(Material)
        /\ Len(Append(mlsGroups[c].key, next)) = Len(mlsGroups[c].key) + 1
    BY <1>2, <2>1 DEF Fits
  <2>3. QED
    BY <1>2, <2>1, <2>2 DEF Fits, Se!EpochKey
<1> HIDE DEF next, key
<1>4. DOMAIN mlsGroups' = DOMAIN mlsGroups /\ \A d \in DOMAIN mlsGroups \ {c} : mlsGroups'[d] = mlsGroups[d]
  BY <1>1
<1>5. mlsGroups'[c] = [mlsGroups[c] EXCEPT !.epoch = next, !.pending = FALSE, !.key = key]
  BY <1>1
<1>6. Fits(mlsGroups'[c].key, mlsGroups'[c].epoch)
  BY <1>3, <1>5
<1>7. QED
  BY <1>1, <1>4, <1>6 DEF KeysInv, KeysFit

\* Members come and go without a change of key.
LEMMA MembersKeep ==
  ASSUME KeysInv, NEW c \in DOMAIN mlsGroups, NEW i, Se!AddMember(c, i) \/ Se!RemoveMember(c, i)
  PROVE  KeysInv'
<1>1. UNCHANGED <<mlsSaved, sealed, random>>
  BY DEF Se!AddMember, Se!RemoveMember
<1>2. PICK m : mlsGroups' = [mlsGroups EXCEPT ![c].members = m, ![c].pending = TRUE]
  BY DEF Se!AddMember, Se!RemoveMember
<1>3. DOMAIN mlsGroups' = DOMAIN mlsGroups
  BY <1>2
<1>4. ASSUME NEW d \in DOMAIN mlsGroups
      PROVE  mlsGroups'[d].key = mlsGroups[d].key /\ mlsGroups'[d].epoch = mlsGroups[d].epoch
  BY <1>2
<1>5. QED
  BY <1>1, <1>3, <1>4 DEF KeysInv, KeysFit

LEMMA SealKeeps == ASSUME KeysInv, NEW c \in DOMAIN mlsGroups, NEW i, Se!Seal(c, i) PROVE KeysInv'
<1>1. /\ sealed' = sealed \cup {[conversation |-> c, epoch |-> mlsGroups[c].epoch,
                                 key |-> mlsGroups[c].key]}
      /\ UNCHANGED <<mlsGroups, mlsSaved, random>>
  BY DEF Se!Seal
<1>2. ASSUME NEW e \in sealed' PROVE Fits(e.key, e.epoch)
  BY <1>1 DEF KeysInv, KeysFit
<1>3. QED
  BY <1>1, <1>2 DEF KeysInv

LEMMA KeysStep == ASSUME KeysInv, [Se!Next]_mlsVars PROVE KeysInv'
<1>1. ASSUME NEW c \in Channel, NEW m \in SUBSET Person, Se!BootstrapGroup(c, m)
      PROVE  KeysInv'
  <2>1. Se!Bootstrap(c, m) /\ mlsSaved' = mlsSaved
    BY <1>1 DEF Se!BootstrapGroup
  <2>2. sealed' = sealed
    BY <2>1 DEF Se!Bootstrap
  <2>3. QED
    BY <2>1, <2>2, BootstrapKeeps DEF KeysInv
<1>2. ASSUME NEW c \in Private, NEW a \in Person, NEW b \in Person,
             Se!OpenDirectSession(c, {a, b})
      PROVE  KeysInv'
  <2>1. Se!Bootstrap(c, {a, b}) /\ (mlsSaved' = mlsGroups' \/ mlsSaved' = mlsSaved)
    BY <1>2 DEF Se!OpenDirectSession
  <2>2. sealed' = sealed
    BY <2>1 DEF Se!Bootstrap
  <2>3. KeysFit(mlsGroups') /\ random' \in Nat
    BY <2>1, BootstrapKeeps
  <2>4. QED
    BY <2>1, <2>2, <2>3 DEF KeysInv
<1>3. ASSUME NEW c \in DOMAIN mlsGroups, Se!RotateEpoch(c) PROVE KeysInv'
  BY <1>3, RotateKeeps
<1>4. ASSUME NEW c \in DOMAIN mlsGroups, NEW i \in Person,
             Se!AddMember(c, i) \/ Se!RemoveMember(c, i) \/ Se!Seal(c, i)
      PROVE  KeysInv'
  BY <1>4, MembersKeep, SealKeeps
<1>5. CASE Se!Restart
  BY <1>5 DEF Se!Restart, KeysInv
<1>6. CASE UNCHANGED mlsVars
  BY <1>6 DEF mlsVars, KeysInv
<1>7. QED
  BY <1>1, <1>2, <1>3, <1>4, <1>5, <1>6 DEF Se!Next

\* Keys of different epochs differ, so what was sealed in one epoch opens in no
\* other, in spite of open, which compares the keys and not the epochs.
THEOREM EpochsAreApart == GatewaySpec => []OnlyItsEpochOpens
<1>1. GatewayInit => KeysInv
  BY PartsStart, KeysStart
<1>2. KeysInv /\ [GatewayNext]_gatewayVars => KeysInv'
  BY OneAtATime, KeysStep
<1>3. KeysInv => OnlyItsEpochOpens
  BY DEF KeysInv, KeysFit, Fits, OnlyItsEpochOpens, Se!OnlyItsEpochOpens, Se!Opens
<1>4. QED
  BY <1>1, <1>2, <1>3, PTL DEF GatewaySpec

\* Groups in memory and on disk are of known members, and of an epoch within
\* the bound.
GroupRecord ==
  [members : SUBSET Person, epoch : 1..MaxEpoch, pending : BOOLEAN, key : Seq(Material)]

GroupsTyped(g) == DOMAIN g \subseteq Channel /\ \A c \in DOMAIN g : g[c] \in GroupRecord

SessionsTyped ==
  /\ KeysInv
  /\ GroupsTyped(mlsGroups) /\ GroupsTyped(mlsSaved)
  /\ random \in 0..MaxEpoch /\ mlsFaults \in 0..MaxFailures

LEMMA SessionsTypeOK == SessionsTyped => Se!TypeOK
<1> SUFFICES ASSUME SessionsTyped PROVE Se!TypeOK
  OBVIOUS
<1>1. ASSUME NEW c \in DOMAIN mlsGroups
      PROVE  /\ mlsGroups[c].members \subseteq Person /\ mlsGroups[c].epoch \in 1..MaxEpoch
             /\ mlsGroups[c].pending \in BOOLEAN /\ Len(mlsGroups[c].key) \in 1..MaxEpoch
  <2>1. mlsGroups[c] \in GroupRecord /\ Fits(mlsGroups[c].key, mlsGroups[c].epoch)
    BY DEF SessionsTyped, GroupsTyped, KeysInv, KeysFit
  <2> QED BY <2>1 DEF GroupRecord, Fits
<1> QED BY <1>1 DEF SessionsTyped, GroupsTyped, Se!TypeOK

LEMMA SessionsStart == ASSUME Se!Init PROVE SessionsTyped
<1>1. DOMAIN mlsGroups = {} /\ mlsSaved = mlsGroups /\ random = 0 /\ mlsFaults = 0
  BY DEF Se!Init
<1>2. 0 \in 0..MaxEpoch /\ 0 \in 0..MaxFailures
  BY GatewayConstants
<1> QED BY <1>1, <1>2, KeysStart DEF SessionsTyped, GroupsTyped

LEMMA BootstrapTyped ==
  ASSUME SessionsTyped, NEW c \in Channel, NEW members \in SUBSET Person,
         Se!Bootstrap(c, members)
  PROVE  GroupsTyped(mlsGroups') /\ random' \in 0..MaxEpoch
<1>1. /\ mlsGroups' = Se!Inserted(c, Se!Group(members, Se!FirstKey(members)))
      /\ random < MaxEpoch /\ random' \in {random, random + 1}
  BY DEF Se!Bootstrap
<1>2. /\ DOMAIN mlsGroups' = DOMAIN mlsGroups \cup {c}
      /\ mlsGroups'[c] = Se!Group(members, Se!FirstKey(members))
      /\ \A d \in DOMAIN mlsGroups \ {c} : mlsGroups'[d] = mlsGroups[d]
  BY <1>1 DEF Se!Inserted
<1>3. Se!FirstKey(members) \in Seq(Material) /\ 1 \in 1..MaxEpoch
  BY FirstKeyFits, GatewayConstants DEF SessionsTyped, KeysInv, Fits
<1>4. mlsGroups'[c] \in GroupRecord
  BY <1>2, <1>3 DEF Se!Group, GroupRecord
<1>5. random' \in 0..MaxEpoch
  BY <1>1, GatewayConstants DEF SessionsTyped
<1> QED BY <1>2, <1>4, <1>5 DEF SessionsTyped, GroupsTyped

LEMMA SessionsStep == ASSUME SessionsTyped, [Se!Next]_mlsVars PROVE SessionsTyped'
<1>1. KeysInv'
  BY KeysStep DEF SessionsTyped
<1>2. MaxFailures \in Nat /\ MaxEpoch \in Nat
  BY GatewayConstants
<1>3. ASSUME NEW c \in Channel, NEW m \in SUBSET Person, Se!BootstrapGroup(c, m)
      PROVE  SessionsTyped'
  <2>1. Se!Bootstrap(c, m) /\ UNCHANGED <<mlsSaved, mlsFaults>>
    BY <1>3 DEF Se!BootstrapGroup
  <2> QED BY <1>1, <2>1, BootstrapTyped DEF SessionsTyped
<1>4. ASSUME NEW c \in Private, NEW a \in Person, NEW b \in Person,
             Se!OpenDirectSession(c, {a, b})
      PROVE  SessionsTyped'
  <2>1. /\ Se!Bootstrap(c, {a, b}) /\ c \in Channel
        /\ mlsSaved' \in {mlsGroups', mlsSaved}
        /\ mlsFaults' = mlsFaults \/ (mlsFaults < MaxFailures /\ mlsFaults' = mlsFaults + 1)
    BY <1>4, GatewayConstants DEF Se!OpenDirectSession
  <2>2. mlsFaults' \in 0..MaxFailures
    BY <1>2, <2>1 DEF SessionsTyped
  <2>3. GroupsTyped(mlsGroups') /\ random' \in 0..MaxEpoch
    BY <2>1, BootstrapTyped
  <2> QED BY <1>1, <2>1, <2>2, <2>3 DEF SessionsTyped
<1>5. ASSUME NEW c \in DOMAIN mlsGroups, Se!RotateEpoch(c) PROVE SessionsTyped'
  <2> DEFINE next == mlsGroups[c].epoch + 1
             key  == Se!EpochKey(mlsGroups[c].key, next)
  <2>1. /\ mlsGroups' = [mlsGroups EXCEPT ![c].epoch = next, ![c].pending = FALSE, ![c].key = key]
        /\ UNCHANGED <<mlsSaved, random, mlsFaults>> /\ mlsGroups[c].epoch < MaxEpoch
    BY <1>5 DEF Se!RotateEpoch
  <2>2. mlsGroups[c] \in GroupRecord
    BY DEF SessionsTyped, GroupsTyped
  <2>3. next \in 1..MaxEpoch /\ next \in Material
    BY <1>2, <2>1, <2>2 DEF GroupRecord, Material
  <2>4. key \in Seq(Material)
    <3>1. mlsGroups[c].key \in Seq(Material)
      BY <2>2 DEF GroupRecord
    <3> HIDE DEF next
    <3> QED BY <2>3, <3>1 DEF Se!EpochKey
  <2> HIDE DEF next, key
  <2>5. DOMAIN mlsGroups' = DOMAIN mlsGroups /\ \A d \in DOMAIN mlsGroups \ {c} : mlsGroups'[d] = mlsGroups[d]
    BY <2>1
  <2>6. mlsGroups'[c] = [mlsGroups[c] EXCEPT !.epoch = next, !.pending = FALSE, !.key = key]
    BY <2>1
  <2>7. mlsGroups'[c] \in GroupRecord
    BY <2>2, <2>3, <2>4, <2>6 DEF GroupRecord
  <2>8. GroupsTyped(mlsGroups')
    BY <2>5, <2>7 DEF SessionsTyped, GroupsTyped
  <2> QED BY <1>1, <2>1, <2>8 DEF SessionsTyped
<1>6. ASSUME NEW c \in DOMAIN mlsGroups, NEW i \in Person,
             Se!AddMember(c, i) \/ Se!RemoveMember(c, i)
      PROVE  SessionsTyped'
  <2>1. mlsGroups[c] \in GroupRecord
    BY DEF SessionsTyped, GroupsTyped
  <2>2. PICK m \in SUBSET Person :
          mlsGroups' = [mlsGroups EXCEPT ![c].members = m, ![c].pending = TRUE]
    <3>1. mlsGroups[c].members \cup {i} \in SUBSET Person /\ mlsGroups[c].members \ {i} \in SUBSET Person
      BY <2>1 DEF GroupRecord
    <3> QED BY <1>6, <3>1 DEF Se!AddMember, Se!RemoveMember
  <2>3. UNCHANGED <<mlsSaved, random, mlsFaults>>
    BY <1>6 DEF Se!AddMember, Se!RemoveMember
  <2>4. DOMAIN mlsGroups' = DOMAIN mlsGroups /\ \A d \in DOMAIN mlsGroups \ {c} : mlsGroups'[d] = mlsGroups[d]
    BY <2>2
  <2>5. mlsGroups'[c] = [mlsGroups[c] EXCEPT !.members = m, !.pending = TRUE]
    BY <2>2
  <2>6. mlsGroups'[c] \in GroupRecord
    BY <2>1, <2>5 DEF GroupRecord
  <2>7. GroupsTyped(mlsGroups')
    BY <2>4, <2>6 DEF SessionsTyped, GroupsTyped
  <2> QED BY <1>1, <2>3, <2>7 DEF SessionsTyped
<1>7. ASSUME NEW c \in DOMAIN mlsGroups, NEW i \in Person, Se!Seal(c, i) PROVE SessionsTyped'
  BY <1>1, <1>7 DEF Se!Seal, SessionsTyped
<1>8. CASE Se!Restart
  <2>1. mlsFaults' \in 0..MaxFailures
    BY <1>2, <1>8 DEF Se!Restart, SessionsTyped
  <2> QED BY <1>1, <1>8, <2>1 DEF Se!Restart, SessionsTyped
<1>9. CASE UNCHANGED mlsVars
  BY <1>1, <1>9 DEF mlsVars, SessionsTyped
<1> QED
  BY <1>3, <1>4, <1>5, <1>6, <1>7, <1>8, <1>9 DEF Se!Next

----------------------------------------------------------------------------
(* Administrators' records.  A change that cannot be saved is put back      *)
(* entry by entry; that this leaves the map as it was is what everything    *)
(* else rests on.                                                           *)

IsMap(f) == f = [x \in DOMAIN f |-> f[x]]

\* Partial functions, without naming their domains.
LEMMA PartialFunction ==
  ASSUME NEW S, NEW T, NEW f
  PROVE  f \in Ad!PartialFunctions(S, T) <=>
           IsMap(f) /\ DOMAIN f \subseteq S /\ \A x \in DOMAIN f : f[x] \in T
<1>1. ASSUME f \in Ad!PartialFunctions(S, T)
      PROVE  IsMap(f) /\ DOMAIN f \subseteq S /\ \A x \in DOMAIN f : f[x] \in T
  <2>1. PICK D \in SUBSET S : f \in [D -> T]
    BY <1>1 DEF Ad!PartialFunctions
  <2> QED
    BY <2>1 DEF IsMap
<1>2. ASSUME IsMap(f), DOMAIN f \subseteq S, \A x \in DOMAIN f : f[x] \in T
      PROVE  f \in Ad!PartialFunctions(S, T)
  <2>1. f \in [DOMAIN f -> T]
    BY <1>2 DEF IsMap
  <2> QED
    BY <1>2, <2>1 DEF Ad!PartialFunctions
<1> QED
  BY <1>1, <1>2

\* Two maps of one domain with the same values are the same.
LEMMA SameMap ==
  ASSUME NEW f, NEW g, IsMap(f), IsMap(g), DOMAIN f = DOMAIN g,
         \A x \in DOMAIN f : f[x] = g[x]
  PROVE  f = g
<1>1. [x \in DOMAIN f |-> f[x]] = [x \in DOMAIN g |-> g[x]]
  OBVIOUS
<1> QED
  BY <1>1 DEF IsMap

LEMMA WithPut ==
  ASSUME NEW f, NEW k, NEW v
  PROVE  /\ IsMap(Ad!With(f, k, v))
         /\ DOMAIN Ad!With(f, k, v) = DOMAIN f \cup {k}
         /\ Ad!With(f, k, v)[k] = v
         /\ \A x \in DOMAIN f \ {k} : Ad!With(f, k, v)[x] = f[x]
BY DEF Ad!With, IsMap

LEMMA WithoutTaken ==
  ASSUME NEW f, NEW k
  PROVE  /\ IsMap(Ad!Without(f, k))
         /\ DOMAIN Ad!Without(f, k) = DOMAIN f \ {k}
         /\ \A x \in DOMAIN f \ {k} : Ad!Without(f, k)[x] = f[x]
BY DEF Ad!Without, Ad!Restrict, IsMap

\* Entry k of a map that differs from f nowhere else is put back as in f.
LEMMA RestoredIsBefore ==
  ASSUME NEW f, NEW g, NEW k, IsMap(f),
         DOMAIN g \cup {k} = DOMAIN f \cup {k},
         \A x \in DOMAIN f \ {k} : g[x] = f[x]
  PROVE  Ad!Restored(g, f, k) = f
<1>1. CASE k \in DOMAIN f
  <2>1. Ad!Restored(g, f, k) = Ad!With(g, k, f[k])
    BY <1>1 DEF Ad!Restored
  <2>2. IsMap(Ad!With(g, k, f[k])) /\ DOMAIN Ad!With(g, k, f[k]) = DOMAIN f
    BY <1>1, WithPut
  <2>3. \A x \in DOMAIN f : Ad!With(g, k, f[k])[x] = f[x]
    BY <1>1 DEF Ad!With
  <2> QED
    BY <2>1, <2>2, <2>3, SameMap
<1>2. CASE k \notin DOMAIN f
  <2>1. Ad!Restored(g, f, k) = Ad!Without(g, k)
    BY <1>2 DEF Ad!Restored
  <2>2. IsMap(Ad!Without(g, k)) /\ DOMAIN Ad!Without(g, k) = DOMAIN f
    BY <1>2, WithoutTaken
  <2>3. \A x \in DOMAIN f : Ad!Without(g, k)[x] = f[x]
    BY <1>2, WithoutTaken
  <2> QED
    BY <2>1, <2>2, <2>3, SameMap
<1> QED
  BY <1>1, <1>2

Codes == Ad!PartialFunctions(0..(CodeSpace - 1), BOOLEAN)
GroupMaps == Ad!PartialFunctions(0..MaxTime, SUBSET Privilege)
AssignmentMaps == Ad!PartialFunctions(Person, 0..MaxTime)
SettingMaps == Ad!PartialFunctions(Setting, Value)
DecisionMaps == Ad!PartialFunctions(Moderated \cup LogEntry, Ad!Decision)
DeviceMaps == Ad!PartialFunctions(Device, Ad!DeviceRecord)
BindingMaps == Ad!PartialFunctions(Device, Person)

\* A file holds what its map may be.
FilesTyped ==
  files \in [invites : Codes, groups : GroupMaps \X AssignmentMaps, settings : SettingMaps,
             moderation : DecisionMaps, devices : DeviceMaps \X BindingMaps]

StoresTyped ==
  /\ invites \in Codes /\ groups \in GroupMaps /\ assignments \in AssignmentMaps
  /\ settings \in SettingMaps /\ moderation \in DecisionMaps
  /\ devices \in DeviceMaps /\ bindings \in BindingMaps

LEMMA Bounds == MaxTime \in Nat \ {0} /\ MaxChanges \in Nat /\ MaxFaults \in Nat
BY GatewayConstants, ConversationsConstants

Counted == now \in 0..MaxTime /\ changes \in 0..MaxChanges /\ adminFaults \in 0..MaxFaults

AdminInv == StoresTyped /\ FilesTyped /\ Counted /\ Ad!RecordsAgree

LEMMA AdminTyped == AdminInv => Ad!TypeOK
BY DEF AdminInv, StoresTyped, Counted, Ad!TypeOK, Codes, GroupMaps, AssignmentMaps,
       SettingMaps, DecisionMaps, DeviceMaps, BindingMaps

\* A map with one entry more, changed, or fewer is a map of the same kind.
LEMMA WithTyped ==
  ASSUME NEW S, NEW T, NEW f \in Ad!PartialFunctions(S, T), NEW k \in S, NEW v \in T
  PROVE  Ad!With(f, k, v) \in Ad!PartialFunctions(S, T)
<1>1. IsMap(f) /\ DOMAIN f \subseteq S /\ \A x \in DOMAIN f : f[x] \in T
  BY PartialFunction
<1> DEFINE g == Ad!With(f, k, v)
<1>2. IsMap(g) /\ DOMAIN g = DOMAIN f \cup {k} /\ g[k] = v
      /\ \A x \in DOMAIN f \ {k} : g[x] = f[x]
  BY DEF Ad!With, IsMap
<1> HIDE DEF g
<1>3. \A x \in DOMAIN g : g[x] \in T
  BY <1>1, <1>2
<1>4. g \in Ad!PartialFunctions(S, T)
  BY <1>1, <1>2, <1>3, PartialFunction
<1> QED
  BY <1>4 DEF g

LEMMA RestrictTyped ==
  ASSUME NEW S, NEW T, NEW f \in Ad!PartialFunctions(S, T), NEW D, D \subseteq DOMAIN f
  PROVE  Ad!Restrict(f, D) \in Ad!PartialFunctions(S, T)
<1>1. IsMap(f) /\ DOMAIN f \subseteq S /\ \A x \in DOMAIN f : f[x] \in T
  BY PartialFunction
<1>2. /\ IsMap(Ad!Restrict(f, D)) /\ DOMAIN Ad!Restrict(f, D) = D
      /\ \A x \in D : Ad!Restrict(f, D)[x] = f[x]
  BY DEF Ad!Restrict, IsMap
<1> QED
  BY <1>1, <1>2, PartialFunction

LEMMA WithoutTyped ==
  ASSUME NEW S, NEW T, NEW f \in Ad!PartialFunctions(S, T), NEW k
  PROVE  Ad!Without(f, k) \in Ad!PartialFunctions(S, T)
BY RestrictTyped DEF Ad!Without

\* EXCEPT on an entry that is there, as With.
LEMMA ExceptIsWith ==
  ASSUME NEW f, NEW k \in DOMAIN f, NEW v, IsMap(f)
  PROVE  [f EXCEPT ![k] = v] = Ad!With(f, k, v)
<1> DEFINE g == [f EXCEPT ![k] = v]
           h == Ad!With(f, k, v)
<1>1. IsMap(g) /\ DOMAIN g = DOMAIN f
  BY DEF IsMap
<1>2. IsMap(h) /\ DOMAIN h = DOMAIN f
  BY DEF Ad!With, IsMap
<1>3. \A x \in DOMAIN f : g[x] = h[x]
  BY DEF Ad!With
<1> HIDE DEF g, h
<1>4. g = h
  BY <1>1, <1>2, <1>3, SameMap
<1> QED
  BY <1>4 DEF g, h

LEMMA AdminStarts == ASSUME Ad!Init PROVE AdminInv
<1>1. \A S, T : Ad!Empty \in Ad!PartialFunctions(S, T)
  <2> SUFFICES ASSUME NEW S, NEW T PROVE Ad!Empty \in Ad!PartialFunctions(S, T)
    OBVIOUS
  <2>1. IsMap(Ad!Empty) /\ DOMAIN Ad!Empty = {}
    BY DEF Ad!Empty, IsMap
  <2> QED
    BY <2>1, PartialFunction
<1>2. StoresTyped /\ FilesTyped
  BY <1>1 DEF Ad!Init, StoresTyped, FilesTyped, Codes, GroupMaps, AssignmentMaps,
     SettingMaps, DecisionMaps, DeviceMaps, BindingMaps
<1>3. Counted
  BY Bounds DEF Ad!Init, Counted
<1>4. DOMAIN Ad!Empty = {}
  BY DEF Ad!Empty
<1>5. Ad!RecordsAgree
  BY <1>4 DEF Ad!Init, Ad!RecordsAgree, Ad!ServedIsSaved, Ad!Within, Ad!BindingsAgree
<1> QED
  BY <1>2, <1>3, <1>5 DEF AdminInv

LEMMA InvitesKeep ==
  ASSUME AdminInv, NEW new \in Codes, NEW undone \in Codes, Ad!Within(undone, invites),
         Ad!SaveInvites(new, undone)
  PROVE  AdminInv'
<1>1. CASE Ad!Saved("invites", new) /\ invites' = new
  <2>1. FilesTyped' /\ files'.invites = new /\ files'.groups = files.groups
        /\ files'.settings = files.settings /\ files'.moderation = files.moderation
        /\ files'.devices = files.devices
    BY <1>1 DEF Ad!Saved, AdminInv, FilesTyped
  <2>2. StoresTyped' /\ Counted'
    BY <1>1, Bounds DEF Ad!SaveInvites, Ad!Saved, AdminInv, StoresTyped, Counted
  <2>3. Ad!RecordsAgree'
    BY <1>1, <2>1 DEF Ad!SaveInvites, AdminInv, Ad!RecordsAgree, Ad!ServedIsSaved,
       Ad!Within, Ad!BindingsAgree, Ad!BoundTo
  <2> QED
    BY <2>1, <2>2, <2>3 DEF AdminInv
<1>2. CASE Ad!NotSaved /\ invites' = undone
  <2>1. FilesTyped'
    BY <1>2 DEF Ad!NotSaved, AdminInv, FilesTyped
  <2>2. StoresTyped' /\ Counted'
    BY <1>2, Bounds DEF Ad!SaveInvites, Ad!NotSaved, AdminInv, StoresTyped, Counted
  <2>3. Ad!RecordsAgree'
    BY <1>2 DEF Ad!SaveInvites, Ad!NotSaved, AdminInv, Ad!RecordsAgree,
       Ad!ServedIsSaved, Ad!Within, Ad!BindingsAgree, Ad!BoundTo
  <2> QED
    BY <2>1, <2>2, <2>3 DEF AdminInv
<1> QED
  BY <1>1, <1>2 DEF Ad!SaveInvites

LEMMA GroupsKeep ==
  ASSUME AdminInv, NEW newGroups \in GroupMaps, NEW new \in AssignmentMaps,
         NEW undoneGroups \in GroupMaps, Ad!Within(undoneGroups, groups),
         Ad!SaveGroups(newGroups, new, undoneGroups, assignments)
  PROVE  AdminInv'
<1>1. CASE Ad!Saved("groups", <<newGroups, new>>) /\ groups' = newGroups /\ assignments' = new
  <2>1. /\ FilesTyped' /\ files'.groups = <<newGroups, new>>
        /\ files'.invites = files.invites /\ files'.settings = files.settings
        /\ files'.moderation = files.moderation /\ files'.devices = files.devices
    BY <1>1 DEF Ad!Saved, AdminInv, FilesTyped
  <2>2. StoresTyped' /\ Counted'
    BY <1>1, Bounds DEF Ad!SaveGroups, Ad!Saved, AdminInv, StoresTyped, Counted
  <2>3. Ad!RecordsAgree'
    BY <1>1, <2>1 DEF Ad!SaveGroups, AdminInv, Ad!RecordsAgree, Ad!ServedIsSaved,
       Ad!Within, Ad!BindingsAgree, Ad!BoundTo
  <2> QED
    BY <2>1, <2>2, <2>3 DEF AdminInv
<1>2. CASE Ad!NotSaved /\ groups' = undoneGroups /\ assignments' = assignments
  <2>1. FilesTyped'
    BY <1>2 DEF Ad!NotSaved, AdminInv, FilesTyped
  <2>2. StoresTyped' /\ Counted'
    BY <1>2, Bounds DEF Ad!SaveGroups, Ad!NotSaved, AdminInv, StoresTyped, Counted
  <2>3. Ad!RecordsAgree'
    BY <1>2 DEF Ad!SaveGroups, Ad!NotSaved, AdminInv, Ad!RecordsAgree,
       Ad!ServedIsSaved, Ad!Within, Ad!BindingsAgree, Ad!BoundTo
  <2> QED
    BY <2>1, <2>2, <2>3 DEF AdminInv
<1> QED
  BY <1>1, <1>2 DEF Ad!SaveGroups

LEMMA ModerationKeeps ==
  ASSUME AdminInv, NEW new \in DecisionMaps, Ad!SaveModeration(new, moderation)
  PROVE  AdminInv'
<1>1. CASE Ad!Saved("moderation", new) /\ moderation' = new
  <2>1. /\ FilesTyped' /\ files'.moderation = new
        /\ files'.invites = files.invites /\ files'.groups = files.groups
        /\ files'.settings = files.settings /\ files'.devices = files.devices
    BY <1>1 DEF Ad!Saved, AdminInv, FilesTyped
  <2>2. StoresTyped' /\ Counted'
    BY <1>1, Bounds DEF Ad!SaveModeration, Ad!Saved, AdminInv, StoresTyped, Counted
  <2>3. Ad!RecordsAgree'
    BY <1>1, <2>1 DEF Ad!SaveModeration, AdminInv, Ad!RecordsAgree, Ad!ServedIsSaved,
       Ad!Within, Ad!BindingsAgree, Ad!BoundTo
  <2> QED
    BY <2>1, <2>2, <2>3 DEF AdminInv
<1>2. CASE Ad!NotSaved /\ moderation' = moderation
  <2>1. FilesTyped'
    BY <1>2 DEF Ad!NotSaved, AdminInv, FilesTyped
  <2>2. StoresTyped' /\ Counted'
    BY <1>2, Bounds DEF Ad!SaveModeration, Ad!NotSaved, AdminInv, StoresTyped, Counted
  <2>3. Ad!RecordsAgree'
    BY <1>2 DEF Ad!SaveModeration, Ad!NotSaved, AdminInv, Ad!RecordsAgree,
       Ad!ServedIsSaved, Ad!Within, Ad!BindingsAgree, Ad!BoundTo
  <2> QED
    BY <2>1, <2>2, <2>3 DEF AdminInv
<1> QED
  BY <1>1, <1>2 DEF Ad!SaveModeration

LEMMA DevicesKeep ==
  ASSUME AdminInv, NEW newDevices \in DeviceMaps, NEW new \in BindingMaps,
         \A d \in DOMAIN newDevices :
           newDevices[d].bound = IF d \in DOMAIN new THEN new[d] ELSE NoOne,
         Ad!SaveDevices(newDevices, new, devices, bindings)
  PROVE  AdminInv'
<1>1. CASE Ad!Saved("devices", <<newDevices, new>>) /\ devices' = newDevices /\ bindings' = new
  <2>1. /\ FilesTyped' /\ files'.devices = <<newDevices, new>>
        /\ files'.invites = files.invites /\ files'.groups = files.groups
        /\ files'.settings = files.settings /\ files'.moderation = files.moderation
    BY <1>1 DEF Ad!Saved, AdminInv, FilesTyped
  <2>2. StoresTyped' /\ Counted'
    BY <1>1, Bounds DEF Ad!SaveDevices, Ad!Saved, AdminInv, StoresTyped, Counted
  <2>3. Ad!RecordsAgree'
    BY <1>1, <2>1 DEF Ad!SaveDevices, AdminInv, Ad!RecordsAgree, Ad!ServedIsSaved,
       Ad!Within, Ad!BindingsAgree, Ad!BoundTo
  <2> QED
    BY <2>1, <2>2, <2>3 DEF AdminInv
<1>2. CASE Ad!NotSaved /\ devices' = devices /\ bindings' = bindings
  <2>1. FilesTyped'
    BY <1>2 DEF Ad!NotSaved, AdminInv, FilesTyped
  <2>2. StoresTyped' /\ Counted'
    BY <1>2, Bounds DEF Ad!SaveDevices, Ad!NotSaved, AdminInv, StoresTyped, Counted
  <2>3. Ad!RecordsAgree'
    BY <1>2 DEF Ad!SaveDevices, Ad!NotSaved, AdminInv, Ad!RecordsAgree,
       Ad!ServedIsSaved, Ad!Within, Ad!BindingsAgree, Ad!BoundTo
  <2> QED
    BY <2>1, <2>2, <2>3 DEF AdminInv
<1> QED
  BY <1>1, <1>2 DEF Ad!SaveDevices

LEMMA SettingsKeep ==
  ASSUME AdminInv, NEW key \in Setting, NEW value \in Value, Ad!AdminSetConfig(key, value),
         Ad!With(settings, key, value) \in SettingMaps
  PROVE  AdminInv'
<1>1. CASE Ad!Saved("settings", Ad!With(settings, key, value)) /\ settings' = Ad!With(settings, key, value)
  <2>1. /\ FilesTyped' /\ files'.settings = Ad!With(settings, key, value)
        /\ files'.invites = files.invites /\ files'.groups = files.groups
        /\ files'.moderation = files.moderation /\ files'.devices = files.devices
    BY <1>1 DEF Ad!Saved, AdminInv, FilesTyped
  <2>2. StoresTyped' /\ Counted'
    BY <1>1, Bounds DEF Ad!AdminSetConfig, Ad!Saved, AdminInv, StoresTyped, Counted
  <2>3. Ad!RecordsAgree'
    BY <1>1, <2>1 DEF Ad!AdminSetConfig, AdminInv, Ad!RecordsAgree, Ad!ServedIsSaved,
       Ad!Within, Ad!BindingsAgree, Ad!BoundTo
  <2> QED
    BY <2>1, <2>2, <2>3 DEF AdminInv
<1>2. CASE Ad!NotSaved /\ settings' = settings
  <2>1. FilesTyped'
    BY <1>2 DEF Ad!NotSaved, AdminInv, FilesTyped
  <2>2. StoresTyped' /\ Counted'
    BY <1>2, Bounds DEF Ad!AdminSetConfig, Ad!NotSaved, AdminInv, StoresTyped, Counted
  <2>3. Ad!RecordsAgree'
    BY <1>2 DEF Ad!AdminSetConfig, Ad!NotSaved, AdminInv, Ad!RecordsAgree,
       Ad!ServedIsSaved, Ad!Within, Ad!BindingsAgree, Ad!BoundTo
  <2> QED
    BY <2>1, <2>2, <2>3 DEF AdminInv
<1> QED
  BY <1>1, <1>2 DEF Ad!AdminSetConfig

\* Which maps have only what they should: from the types.
LEMMA StoresAreMaps ==
  ASSUME AdminInv
  PROVE  /\ IsMap(invites) /\ IsMap(groups) /\ IsMap(assignments) /\ IsMap(moderation)
         /\ IsMap(devices) /\ IsMap(bindings)
         /\ \A d \in DOMAIN devices : devices[d] \in Ad!DeviceRecord
         /\ \A d \in DOMAIN bindings : bindings[d] \in Person
BY PartialFunction DEF AdminInv, StoresTyped, Codes, GroupMaps, AssignmentMaps, DecisionMaps,
   DeviceMaps, BindingMaps

LEMMA CreateInviteKeeps == ASSUME AdminInv, Ad!AdminCreateInvite PROVE AdminInv'
<1> DEFINE code == Ad!InviteCode(now)
           new == Ad!With(invites, code, FALSE)
           undone == Ad!Without(new, code)
<1>1. code \in 0..(CodeSpace - 1)
  BY GatewayConstants, Bounds DEF Ad!InviteCode, AdminInv, Counted
<1> HIDE DEF code
<1>2. new \in Codes /\ undone \in Codes
  BY <1>1, WithTyped, WithoutTyped DEF Codes, AdminInv, StoresTyped
<1>3. Ad!Within(undone, invites)
  BY DEF Ad!Within, Ad!Without, Ad!With, Ad!Restrict
<1>4. Ad!SaveInvites(new, undone)
  BY DEF Ad!AdminCreateInvite, code
<1> HIDE DEF new, undone
<1> QED
  BY <1>2, <1>3, <1>4, InvitesKeep

LEMMA RevokeInviteKeeps ==
  ASSUME AdminInv, NEW code \in DOMAIN invites, Ad!AdminRevokeInvite(code)
  PROVE  AdminInv'
<1> DEFINE new == [invites EXCEPT ![code] = TRUE]
           undone == [new EXCEPT ![code] = invites[code]]
<1>1. invites \in Codes /\ IsMap(invites) /\ DOMAIN invites \subseteq 0..(CodeSpace - 1)
      /\ \A x \in DOMAIN invites : invites[x] \in BOOLEAN
  BY PartialFunction DEF Codes, AdminInv, StoresTyped
<1>2. IsMap(new) /\ DOMAIN new = DOMAIN invites /\ \A x \in DOMAIN new : new[x] \in BOOLEAN
  BY <1>1 DEF IsMap
<1>3. IsMap(undone) /\ DOMAIN undone = DOMAIN invites
      /\ \A x \in DOMAIN invites : undone[x] = invites[x]
  BY <1>1 DEF IsMap
<1>4. Ad!SaveInvites(new, undone)
  BY DEF Ad!AdminRevokeInvite
<1> HIDE DEF new, undone
<1>5. new \in Codes
  BY <1>1, <1>2, PartialFunction DEF Codes
<1>6. undone = invites
  BY <1>1, <1>3, SameMap
<1>7. Ad!Within(undone, invites)
  BY <1>6 DEF Ad!Within
<1> QED
  BY <1>1, <1>4, <1>5, <1>6, <1>7, InvitesKeep

LEMMA CreateGroupKeeps ==
  ASSUME AdminInv, NEW capabilities \in SUBSET Privilege,
         Ad!AdminCreatePermissionGroup(capabilities)
  PROVE  AdminInv'
<1> DEFINE new == Ad!With(groups, now, capabilities)
           undone == Ad!Without(new, now)
<1>1. new \in GroupMaps /\ undone \in GroupMaps /\ assignments \in AssignmentMaps
  BY WithTyped, WithoutTyped DEF GroupMaps, AdminInv, StoresTyped, Counted
<1>2. Ad!Within(undone, groups)
  BY DEF Ad!Within, Ad!Without, Ad!With, Ad!Restrict
<1>3. Ad!SaveGroups(new, assignments, undone, assignments)
  BY DEF Ad!AdminCreatePermissionGroup
<1> HIDE DEF new, undone
<1> QED
  BY <1>1, <1>2, <1>3, GroupsKeep

LEMMA AssignGroupKeeps ==
  ASSUME AdminInv, NEW r \in Person, NEW id \in 0..MaxTime,
         Ad!AdminAssignPermissionGroup(r, id)
  PROVE  AdminInv'
<1> DEFINE new == Ad!With(assignments, r, id)
<1>1. new \in AssignmentMaps /\ groups \in GroupMaps
  BY WithTyped DEF AssignmentMaps, AdminInv, StoresTyped
<1>2. DOMAIN new = DOMAIN assignments \cup {r}
      /\ \A x \in DOMAIN assignments \ {r} : new[x] = assignments[x]
  BY DEF Ad!With
<1>3. Ad!SaveGroups(groups, new, groups, Ad!Restored(new, assignments, r))
  BY DEF Ad!AdminAssignPermissionGroup
<1> HIDE DEF new
<1>4. Ad!Restored(new, assignments, r) = assignments
  BY <1>2, StoresAreMaps, RestoredIsBefore
<1>5. Ad!Within(groups, groups)
  BY DEF Ad!Within
<1>6. Ad!SaveGroups(groups, new, groups, assignments)
  BY <1>3, <1>4
<1> QED
  BY <1>1, <1>5, <1>6, GroupsKeep

LEMMA SetConfigKeeps ==
  ASSUME AdminInv, NEW key \in Setting, NEW value \in Value, Ad!AdminSetConfig(key, value)
  PROVE  AdminInv'
<1>1. Ad!With(settings, key, value) \in SettingMaps
  BY WithTyped DEF SettingMaps, AdminInv, StoresTyped
<1> QED
  BY <1>1, SettingsKeep

\* A decision on a message and the handling of a log entry alike.
LEMMA DecideKeeps ==
  ASSUME AdminInv, NEW m \in Moderated \cup LogEntry, NEW d \in Ad!Decision,
         Ad!SaveModeration(Ad!With(moderation, m, d),
                           Ad!Restored(Ad!With(moderation, m, d), moderation, m))
  PROVE  AdminInv'
<1> DEFINE new == Ad!With(moderation, m, d)
<1>1. new \in DecisionMaps
  BY WithTyped DEF DecisionMaps, AdminInv, StoresTyped
<1>2. DOMAIN new = DOMAIN moderation \cup {m}
      /\ \A x \in DOMAIN moderation \ {m} : new[x] = moderation[x]
  BY DEF Ad!With
<1>3. Ad!SaveModeration(new, Ad!Restored(new, moderation, m))
  OBVIOUS
<1> HIDE DEF new
<1>4. Ad!Restored(new, moderation, m) = moderation
  BY <1>2, StoresAreMaps, RestoredIsBefore
<1>5. Ad!SaveModeration(new, moderation)
  BY <1>3, <1>4
<1> QED
  BY <1>1, <1>5, ModerationKeeps

LEMMA ClearLogsKeeps == ASSUME AdminInv, Ad!AdminClearProcessedLogs PROVE AdminInv'
<1>1. PICK kept : /\ kept \subseteq DOMAIN moderation
                  /\ Ad!SaveModeration(Ad!Restrict(moderation, kept), moderation)
  BY DEF Ad!AdminClearProcessedLogs
<1>2. Ad!Restrict(moderation, kept) \in DecisionMaps
  BY <1>1, RestrictTyped DEF DecisionMaps, AdminInv, StoresTyped
<1> QED
  BY <1>1, <1>2, ModerationKeeps

LEMMA AddDeviceKeeps ==
  ASSUME AdminInv, NEW d \in Device, Ad!AdminAddDevice(d)
  PROVE  AdminInv'
<1> DEFINE record == [blocked |-> FALSE, bound |-> Ad!BoundTo(d)]
           new == Ad!With(devices, d, record)
<1>1. record \in Ad!DeviceRecord
  BY StoresAreMaps DEF Ad!DeviceRecord, Ad!BoundTo
<1>2. record.bound = Ad!BoundTo(d)
  OBVIOUS
<1> HIDE DEF record
<1>3. new \in DeviceMaps /\ bindings \in BindingMaps
  BY <1>1, WithTyped DEF DeviceMaps, AdminInv, StoresTyped
<1>4. /\ DOMAIN new = DOMAIN devices \cup {d} /\ new[d] = record
      /\ \A x \in DOMAIN devices \ {d} : new[x] = devices[x]
  BY DEF Ad!With
<1>5. Ad!SaveDevices(new, bindings, Ad!Restored(new, devices, d), bindings)
  BY DEF Ad!AdminAddDevice, record
<1> HIDE DEF new
<1>6. Ad!Restored(new, devices, d) = devices
  BY <1>4, StoresAreMaps, RestoredIsBefore
<1>7. \A x \in DOMAIN new : new[x].bound = IF x \in DOMAIN bindings THEN bindings[x] ELSE NoOne
  BY <1>2, <1>4 DEF AdminInv, Ad!RecordsAgree, Ad!BindingsAgree, Ad!BoundTo
<1>8. Ad!SaveDevices(new, bindings, devices, bindings)
  BY <1>5, <1>6
<1> QED
  BY <1>3, <1>7, <1>8, DevicesKeep

LEMMA RemoveDeviceKeeps ==
  ASSUME AdminInv, NEW d \in Device, Ad!AdminRemoveDevice(d)
  PROVE  AdminInv'
<1> DEFINE new == Ad!Without(devices, d)
           unbound == Ad!Without(bindings, d)
<1>1. new \in DeviceMaps /\ unbound \in BindingMaps
  BY WithoutTyped DEF DeviceMaps, BindingMaps, AdminInv, StoresTyped
<1>2. /\ DOMAIN new = DOMAIN devices \ {d}
      /\ \A x \in DOMAIN devices \ {d} : new[x] = devices[x]
      /\ DOMAIN unbound = DOMAIN bindings \ {d}
      /\ \A x \in DOMAIN bindings \ {d} : unbound[x] = bindings[x]
  BY DEF Ad!Without, Ad!Restrict
<1>3. Ad!SaveDevices(new, unbound, Ad!Restored(new, devices, d), Ad!Restored(unbound, bindings, d))
  BY DEF Ad!AdminRemoveDevice
<1> HIDE DEF new, unbound
<1>4. DOMAIN new \cup {d} = DOMAIN devices \cup {d} /\ DOMAIN unbound \cup {d} = DOMAIN bindings \cup {d}
  BY <1>2
<1>5. Ad!Restored(new, devices, d) = devices
  BY <1>2, <1>4, StoresAreMaps, RestoredIsBefore
<1>6. Ad!Restored(unbound, bindings, d) = bindings
  BY <1>2, <1>4, StoresAreMaps, RestoredIsBefore
<1>7. \A x \in DOMAIN new : new[x].bound = IF x \in DOMAIN unbound THEN unbound[x] ELSE NoOne
  BY <1>2 DEF AdminInv, Ad!RecordsAgree, Ad!BindingsAgree, Ad!BoundTo
<1>8. Ad!SaveDevices(new, unbound, devices, bindings)
  BY <1>3, <1>5, <1>6
<1> QED
  BY <1>1, <1>7, <1>8, DevicesKeep

\* What a record becomes, where there is one.
Edited(d, record) == IF d \in DOMAIN devices THEN [devices EXCEPT ![d] = record] ELSE devices

LEMMA EditedTyped ==
  ASSUME AdminInv, NEW d, NEW record \in Ad!DeviceRecord
  PROVE  /\ Edited(d, record) \in DeviceMaps
         /\ DOMAIN Edited(d, record) = DOMAIN devices
         /\ \A x \in DOMAIN devices : Edited(d, record)[x] = IF x = d THEN record ELSE devices[x]
         /\ Ad!Restored(Edited(d, record), devices, d) = devices
<1> DEFINE new == Edited(d, record)
<1>1. /\ IsMap(devices) /\ DOMAIN devices \subseteq Device
      /\ \A x \in DOMAIN devices : devices[x] \in Ad!DeviceRecord
  BY PartialFunction DEF AdminInv, StoresTyped, DeviceMaps
<1>2. IsMap(new) /\ DOMAIN new = DOMAIN devices
      /\ \A x \in DOMAIN devices : new[x] = IF x = d THEN record ELSE devices[x]
  BY <1>1 DEF IsMap, Edited
<1> HIDE DEF new
<1>3. \A x \in DOMAIN new : new[x] \in Ad!DeviceRecord
  BY <1>1, <1>2
<1>4. new \in DeviceMaps
  BY <1>1, <1>2, <1>3, PartialFunction DEF DeviceMaps
<1>5. DOMAIN new \cup {d} = DOMAIN devices \cup {d} /\ \A x \in DOMAIN devices \ {d} : new[x] = devices[x]
  BY <1>2
<1>6. Ad!Restored(new, devices, d) = devices
  BY <1>1, <1>5, RestoredIsBefore
<1> QED
  BY <1>2, <1>4, <1>6 DEF new

LEMMA SetBlockedKeeps ==
  ASSUME AdminInv, NEW d \in Device, NEW b \in BOOLEAN, Ad!SetBlocked(d, b)
  PROVE  AdminInv'
<1> DEFINE record == IF d \in DOMAIN devices THEN [devices[d] EXCEPT !.blocked = b]
                     ELSE [blocked |-> b, bound |-> NoOne]
           new == Edited(d, record)
<1>1. record \in Ad!DeviceRecord /\ (d \in DOMAIN devices => record.bound = devices[d].bound)
  BY StoresAreMaps DEF Ad!DeviceRecord
<1>2. Ad!SaveDevices(new, bindings, Ad!Restored(new, devices, d), bindings)
  BY DEF Ad!SetBlocked, Edited
<1> HIDE DEF record
<1>3. /\ new \in DeviceMaps /\ DOMAIN new = DOMAIN devices
      /\ \A x \in DOMAIN devices : new[x] = IF x = d THEN record ELSE devices[x]
      /\ Ad!Restored(new, devices, d) = devices
  BY <1>1, EditedTyped
<1> HIDE DEF new
<1>4. \A x \in DOMAIN new : new[x].bound = IF x \in DOMAIN bindings THEN bindings[x] ELSE NoOne
  BY <1>1, <1>3 DEF AdminInv, Ad!RecordsAgree, Ad!BindingsAgree, Ad!BoundTo
<1>5. Ad!SaveDevices(new, bindings, devices, bindings) /\ bindings \in BindingMaps
  BY <1>2, <1>3 DEF AdminInv, StoresTyped
<1> QED
  BY <1>3, <1>4, <1>5, DevicesKeep

LEMMA BindKeeps ==
  ASSUME AdminInv, NEW d \in Device, NEW r \in Person, Ad!BindDeviceToResident(d, r)
  PROVE  AdminInv'
<1> DEFINE record == IF d \in DOMAIN devices THEN [devices[d] EXCEPT !.bound = r]
                     ELSE [blocked |-> FALSE, bound |-> r]
           new == Edited(d, record)
           bound == Ad!With(bindings, d, r)
<1>1. record \in Ad!DeviceRecord /\ record.bound = r
  BY StoresAreMaps DEF Ad!DeviceRecord
<1>2. Ad!SaveDevices(new, bound, Ad!Restored(new, devices, d), Ad!Restored(bound, bindings, d))
  BY DEF Ad!BindDeviceToResident, Edited
<1>3. bound \in BindingMaps
  BY WithTyped DEF BindingMaps, AdminInv, StoresTyped
<1>4. /\ DOMAIN bound = DOMAIN bindings \cup {d} /\ bound[d] = r
      /\ \A x \in DOMAIN bindings \ {d} : bound[x] = bindings[x]
  BY DEF Ad!With
<1> HIDE DEF record, bound
<1>5. /\ new \in DeviceMaps /\ DOMAIN new = DOMAIN devices
      /\ \A x \in DOMAIN devices : new[x] = IF x = d THEN record ELSE devices[x]
      /\ Ad!Restored(new, devices, d) = devices
  BY <1>1, EditedTyped
<1> HIDE DEF new
<1>6. Ad!Restored(bound, bindings, d) = bindings
  BY <1>4, StoresAreMaps, RestoredIsBefore
<1>7. \A x \in DOMAIN new : new[x].bound = IF x \in DOMAIN bound THEN bound[x] ELSE NoOne
  BY <1>1, <1>4, <1>5 DEF AdminInv, Ad!RecordsAgree, Ad!BindingsAgree, Ad!BoundTo
<1>8. Ad!SaveDevices(new, bound, devices, bindings)
  BY <1>2, <1>5, <1>6
<1> QED
  BY <1>3, <1>5, <1>7, <1>8, DevicesKeep

\* The clock moves, or the files are read.
LEMMA QuietKeeps == ASSUME AdminInv, Ad!Tick \/ Ad!Restart PROVE AdminInv'
<1>1. CASE Ad!Tick
  BY <1>1, Bounds DEF Ad!Tick, Ad!stores, AdminInv, StoresTyped, FilesTyped, Counted,
     Ad!RecordsAgree, Ad!ServedIsSaved, Ad!Within, Ad!BindingsAgree, Ad!BoundTo
<1>2. CASE Ad!Restart
  <2>1. StoresTyped' /\ FilesTyped' /\ Counted'
    BY <1>2, Bounds DEF Ad!Restart, AdminInv, StoresTyped, FilesTyped, Counted
  <2>2. files.devices = <<devices, bindings>> /\ files.devices[1] = devices
        /\ files.devices[2] = bindings
    BY DEF AdminInv, Ad!RecordsAgree, Ad!ServedIsSaved
  <2>3. files.groups \in GroupMaps \X AssignmentMaps
    BY DEF AdminInv, FilesTyped
  <2>4. Ad!RecordsAgree'
    BY <1>2, <2>2, <2>3 DEF Ad!Restart, AdminInv, Ad!RecordsAgree, Ad!ServedIsSaved, Ad!Within,
       Ad!BindingsAgree, Ad!BoundTo
  <2> QED
    BY <2>1, <2>4 DEF AdminInv
<1> QED
  BY <1>1, <1>2

LEMMA AdminStep == ASSUME AdminInv, [Ad!Next]_adminVars PROVE AdminInv'
<1>1. CASE Ad!AdminCreateInvite
  BY <1>1, CreateInviteKeeps
<1>2. ASSUME NEW code \in DOMAIN invites, Ad!AdminRevokeInvite(code) PROVE AdminInv'
  BY <1>2, RevokeInviteKeeps
<1>3. ASSUME NEW capabilities \in SUBSET Privilege,
             Ad!AdminCreatePermissionGroup(capabilities)
      PROVE  AdminInv'
  BY <1>3, CreateGroupKeeps
<1>4. ASSUME NEW r \in Person, NEW id \in 0..MaxTime, Ad!AdminAssignPermissionGroup(r, id)
      PROVE  AdminInv'
  BY <1>4, AssignGroupKeeps
<1>5. ASSUME NEW key \in Setting, NEW value \in Value, Ad!AdminSetConfig(key, value)
      PROVE  AdminInv'
  BY <1>5, SetConfigKeeps
<1>6. ASSUME NEW m \in Moderated, NEW d \in Ad!Decision, Ad!AdminModerateMessage(m, d)
      PROVE  AdminInv'
  BY <1>6, DecideKeeps DEF Ad!AdminModerateMessage
<1>7. ASSUME NEW l \in LogEntry, Ad!AdminHandleLog(l) PROVE AdminInv'
  <2>1. "handled" \in Ad!Decision
    BY DEF Ad!Decision
  <2> QED
    BY <1>7, <2>1, DecideKeeps DEF Ad!AdminHandleLog
<1>8. CASE Ad!AdminClearProcessedLogs
  BY <1>8, ClearLogsKeeps
<1>9. ASSUME NEW d \in Device, Ad!AdminAddDevice(d) \/ Ad!AdminRemoveDevice(d) PROVE AdminInv'
  BY <1>9, AddDeviceKeeps, RemoveDeviceKeeps
<1>10. ASSUME NEW d \in Device, NEW b \in BOOLEAN, Ad!SetBlocked(d, b) PROVE AdminInv'
  BY <1>10, SetBlockedKeeps
<1>11. ASSUME NEW d \in Device, NEW r \in Person, Ad!BindDeviceToResident(d, r)
       PROVE  AdminInv'
  BY <1>11, BindKeeps
<1>12. CASE Ad!Tick \/ Ad!Restart
  BY <1>12, QuietKeeps
<1>13. CASE UNCHANGED adminVars
  BY <1>13 DEF adminVars, AdminInv, StoresTyped, FilesTyped, Counted,
     Ad!RecordsAgree, Ad!ServedIsSaved, Ad!Within, Ad!BindingsAgree, Ad!BoundTo
<1> QED
  BY <1>1, <1>2, <1>3, <1>4, <1>5, <1>6, <1>7, <1>8, <1>9, <1>10, <1>11, <1>12, <1>13
     DEF Ad!Next

\* What administrators changed is served exactly as it is saved, save for an
\* invite or a group that a failed write took the place of, and devices agree
\* with their bindings; after any changes, failed writes and restarts.
THEOREM RecordsStayInAgreement == GatewaySpec => []RecordsAgree
<1>1. GatewayInit => AdminInv
  BY PartsStart, AdminStarts
<1>2. AdminInv /\ [GatewayNext]_gatewayVars => AdminInv'
  BY OneAtATime, AdminStep
<1>3. AdminInv => RecordsAgree
  BY DEF AdminInv, RecordsAgree
<1>4. QED
  BY <1>1, <1>2, <1>3, PTL DEF GatewaySpec
----------------------------------------------------------------------------
(* Requests.  What a route still has to check it owes: an act that needs a  *)
(* capability has been checked for it, or will be before it is carried out. *)
(* Every route of the tables starts with the checks it owes.                *)

Has(s, x) == \E i \in DOMAIN s : s[i] = x

Keys ==
  {"ban:resident", "manage:resident", "freeze:room", "admin:config", "moderate:message",
   "invite:resident", "admin:diagnostics", "manage:permissions", "admin:scene"}
Checks == {"session", "speaker", "given", "named", "resolved", "viewer", "sender"} \cup Keys
Acts ==
  [effect : {"read", "write", "login", "logout", "assign"} \cup Keys,
   check : {"anyone", "holder", "bearer", "bearer_if_token"},
   audit : {"nobody", "actor", "owner"}]
PlanType == [checks : Seq(Checks), act : Acts]

Guarded(plan) ==
  /\ plan \in PlanType
  /\ plan.act.effect \in Catalogue =>
       Has(plan.checks, "session") /\ Has(plan.checks, plan.act.effect)
  /\ plan.act.effect = "assign" =>
       Has(plan.checks, "session") /\ Has(plan.checks, "manage:permissions")
  /\ plan.act.audit = "actor" \/ plan.act.effect = "assign" =>
       \/ Has(plan.checks, "speaker") \/ Has(plan.checks, "given")
       \/ plan.act.check = "bearer_if_token" /\ Has(plan.checks, "session")

LEMMA HasConcat ==
  ASSUME NEW s \in Seq(Checks), NEW t \in Seq(Checks), NEW x, Has(s, x) \/ Has(t, x)
  PROVE  Has(s \o t, x)
<1>1. Len(s \o t) = Len(s) + Len(t) /\ DOMAIN (s \o t) = 1..Len(s \o t)
      /\ DOMAIN s = 1..Len(s) /\ DOMAIN t = 1..Len(t)
  OBVIOUS
<1>2. CASE Has(s, x)
  <2>1. PICK i \in DOMAIN s : s[i] = x
    BY <1>2 DEF Has
  <2>2. i \in DOMAIN (s \o t) /\ (s \o t)[i] = x
    BY <1>1, <2>1
  <2> QED
    BY <2>2 DEF Has
<1>3. CASE Has(t, x)
  <2>1. PICK i \in DOMAIN t : t[i] = x
    BY <1>3 DEF Has
  <2>2. Len(s) + i \in DOMAIN (s \o t) /\ (s \o t)[Len(s) + i] = x
    BY <1>1, <2>1
  <2> QED
    BY <2>2 DEF Has
<1> QED
  BY <1>2, <1>3

LEMMA HeadOrTail ==
  ASSUME NEW s \in Seq(Checks), s # <<>>
  PROVE  /\ Head(s) \in Checks /\ Tail(s) \in Seq(Checks)
         /\ \A x : Has(s, x) => x = Head(s) \/ Has(Tail(s), x)
<1>1. /\ Head(s) = s[1] /\ Head(s) \in Checks /\ Tail(s) \in Seq(Checks) /\ Len(s) >= 1
      /\ Len(Tail(s)) = Len(s) - 1 /\ DOMAIN s = 1..Len(s) /\ DOMAIN Tail(s) = 1..Len(Tail(s))
      /\ \A i \in 1..Len(Tail(s)) : Tail(s)[i] = s[i + 1]
  OBVIOUS
<1>2. ASSUME NEW i \in DOMAIN s, i # 1 PROVE Has(Tail(s), s[i])
  <2>1. i - 1 \in DOMAIN Tail(s) /\ Tail(s)[i - 1] = s[i]
    BY <1>1, <1>2
  <2> QED
    BY <2>1 DEF Has
<1> QED
  BY <1>1, <1>2 DEF Has

\* The checks that routes are made of.
LEMMA ChecksMade ==
  /\ Rq!AdminAuth \in Seq(Checks) /\ Has(Rq!AdminAuth, "session")
  /\ Rq!AuthenticatedActor \in Seq(Checks) /\ Rq!ResolvedActor \in Seq(Checks)
  /\ Rq!CliSenderAuth \in Seq(Checks) /\ Rq!ShellActorAuth \in Seq(Checks)
  /\ <<"named">> \in Seq(Checks) /\ <<"viewer">> \in Seq(Checks) /\ <<>> \in Seq(Checks)
  /\ \A c \in Keys :
       /\ Rq!AdminCapability(c) \in Seq(Checks)
       /\ Has(Rq!AdminCapability(c), "session") /\ Has(Rq!AdminCapability(c), c)
       /\ Rq!AdminActorCapability(c) \in Seq(Checks)
       /\ Has(Rq!AdminActorCapability(c), "speaker") /\ Has(Rq!AdminActorCapability(c), c)
       /\ Rq!AdminActorOrCapability(c) \in Seq(Checks)
       /\ Has(Rq!AdminActorOrCapability(c), "given") /\ Has(Rq!AdminActorOrCapability(c), c)
<1>1. ASSUME NEW a \in Checks PROVE <<a>> \in Seq(Checks) /\ Has(<<a>>, a)
  <2>1. <<a>> \in Seq(Checks)
    OBVIOUS
  <2>2. 1 \in DOMAIN <<a>> /\ <<a>>[1] = a
    OBVIOUS
  <2> QED
    BY <2>1, <2>2 DEF Has
<1>2. ASSUME NEW a \in Checks, NEW b \in Checks
      PROVE  <<a, b>> \in Seq(Checks) /\ Has(<<a, b>>, a) /\ Has(<<a, b>>, b)
  <2>1. <<a, b>> \in Seq(Checks)
    OBVIOUS
  <2>2. 1 \in DOMAIN <<a, b>> /\ <<a, b>>[1] = a /\ 2 \in DOMAIN <<a, b>> /\ <<a, b>>[2] = b
    OBVIOUS
  <2> QED
    BY <2>1, <2>2 DEF Has
<1>3. <<>> \in Seq(Checks)
  OBVIOUS
<1>4. /\ "session" \in Checks /\ "speaker" \in Checks /\ "given" \in Checks
      /\ "named" \in Checks /\ "resolved" \in Checks /\ "viewer" \in Checks
      /\ "sender" \in Checks /\ Keys \subseteq Checks
  BY DEF Checks
<1> QED
  BY <1>1, <1>2, <1>3, <1>4 DEF Rq!AdminAuth, Rq!AuthenticatedActor, Rq!ResolvedActor,
     Rq!CliSenderAuth, Rq!ShellActorAuth, Rq!AdminCapability, Rq!AdminActorCapability,
     Rq!AdminActorOrCapability

\* A route of no capability; one of a capability; one of a city's governors.
LEMMA PlainRoute ==
  ASSUME NEW s \in Seq(Checks), NEW act \in Acts,
         act.effect \in {"read", "write", "login", "logout"}, act.audit # "actor"
  PROVE  Guarded(Rq!Route(s, act))
<1>1. act.effect \notin Catalogue
  BY CatalogueNames
<1> QED
  BY <1>1 DEF Guarded, PlanType, Rq!Route

LEMMA KeyRoute ==
  ASSUME NEW s \in Seq(Checks), NEW c \in Keys, NEW audit \in {"nobody", "actor"},
         Has(s, "session"), Has(s, c), audit = "actor" => Has(s, "speaker") \/ Has(s, "given")
  PROVE  Guarded(Rq!Route(s, Rq!Act(c, "anyone", audit)))
<1>1. Rq!Act(c, "anyone", audit) \in Acts /\ c # "assign"
  BY DEF Rq!Act, Acts, Keys
<1> QED
  BY <1>1 DEF Guarded, PlanType, Rq!Route, Rq!Act

LEMMA GovernedRoute ==
  ASSUME NEW audit \in {"nobody", "actor"}
  PROVE  Guarded(Rq!Governed(audit))
<1>1. Rq!Act("write", "bearer_if_token", audit) \in Acts
  BY DEF Rq!Act, Acts
<1>2. "write" \notin Catalogue
  BY CatalogueNames
<1> QED
  BY <1>1, <1>2, ChecksMade DEF Guarded, PlanType, Rq!Governed, Rq!Route, Rq!Act

\* The ways in which routes of a capability are guarded.
LEMMA KeyRoutes ==
  ASSUME NEW c \in Keys, NEW audit \in {"nobody", "actor"}
  PROVE  LET act == Rq!Act(c, "anyone", audit)
             ask == Rq!AdminActorCapability(c)
             either == Rq!AdminActorOrCapability(c)
         IN /\ Guarded(Rq!Route(Rq!AdminAuth \o ask, act))
            /\ Guarded(Rq!Route(Rq!AdminAuth \o <<"named">> \o ask, act))
            /\ Guarded(Rq!Route(Rq!AdminAuth \o either, act))
            /\ Guarded(Rq!Route(Rq!AdminAuth \o Rq!ResolvedActor \o either, act))
            /\ Guarded(Rq!Route(Rq!AdminAuth \o either \o Rq!ResolvedActor, act))
            /\ audit = "nobody" => Guarded(Rq!Route(Rq!AdminCapability(c), act))
            /\ audit = "nobody" => Guarded(Rq!Route(Rq!AdminAuth \o Rq!AdminCapability(c), act))
<1> DEFINE ask == Rq!AdminActorCapability(c)
           either == Rq!AdminActorOrCapability(c)
           own == Rq!AdminCapability(c)
           auth == Rq!AdminAuth
           resolved == Rq!ResolvedActor
           named == <<"named">>
<1>1. /\ auth \in Seq(Checks) /\ ask \in Seq(Checks) /\ either \in Seq(Checks)
      /\ own \in Seq(Checks) /\ resolved \in Seq(Checks) /\ named \in Seq(Checks)
      /\ Has(auth, "session") /\ Has(ask, "speaker") /\ Has(ask, c)
      /\ Has(either, "given") /\ Has(either, c) /\ Has(own, "session") /\ Has(own, c)
  BY ChecksMade
<1> HIDE DEF ask, either, own, auth, resolved, named
<1>2. \A s, t \in Seq(Checks) : s \o t \in Seq(Checks)
  OBVIOUS
<1>3. \A s, t \in Seq(Checks) : \A x : Has(s, x) \/ Has(t, x) => Has(s \o t, x)
  BY HasConcat
<1>4. auth \o named \in Seq(Checks) /\ Has(auth \o named, "session")
  BY <1>1, <1>2, <1>3
<1>5. auth \o resolved \in Seq(Checks) /\ Has(auth \o resolved, "session")
  BY <1>1, <1>2, <1>3
<1>6. auth \o either \in Seq(Checks) /\ Has(auth \o either, "session")
      /\ Has(auth \o either, "given") /\ Has(auth \o either, c)
  BY <1>1, <1>2, <1>3
<1>7. Guarded(Rq!Route(auth \o ask, Rq!Act(c, "anyone", audit)))
  <2>1. auth \o ask \in Seq(Checks) /\ Has(auth \o ask, "session") /\ Has(auth \o ask, c)
        /\ Has(auth \o ask, "speaker")
    BY <1>1, <1>2, <1>3
  <2> QED
    BY <2>1, KeyRoute
<1>8. Guarded(Rq!Route(auth \o named \o ask, Rq!Act(c, "anyone", audit)))
  <2>1. auth \o named \o ask \in Seq(Checks) /\ Has(auth \o named \o ask, "session") /\ Has(auth \o named \o ask, c)
        /\ Has(auth \o named \o ask, "speaker")
    BY <1>1, <1>2, <1>3, <1>4
  <2> QED
    BY <2>1, KeyRoute
<1>9. Guarded(Rq!Route(auth \o either, Rq!Act(c, "anyone", audit)))
  <2>1. auth \o either \in Seq(Checks) /\ Has(auth \o either, "session") /\ Has(auth \o either, c)
        /\ Has(auth \o either, "given")
    BY <1>1, <1>2, <1>3
  <2> QED
    BY <2>1, KeyRoute
<1>10. Guarded(Rq!Route(auth \o resolved \o either, Rq!Act(c, "anyone", audit)))
  <2>1. auth \o resolved \o either \in Seq(Checks) /\ Has(auth \o resolved \o either, "session") /\ Has(auth \o resolved \o either, c)
        /\ Has(auth \o resolved \o either, "given")
    BY <1>1, <1>2, <1>3, <1>5
  <2> QED
    BY <2>1, KeyRoute
<1>11. Guarded(Rq!Route(auth \o either \o resolved, Rq!Act(c, "anyone", audit)))
  <2>1. auth \o either \o resolved \in Seq(Checks) /\ Has(auth \o either \o resolved, "session") /\ Has(auth \o either \o resolved, c)
        /\ Has(auth \o either \o resolved, "given")
    BY <1>1, <1>2, <1>3, <1>6
  <2> QED
    BY <2>1, KeyRoute
<1>12. ASSUME audit = "nobody" PROVE Guarded(Rq!Route(own, Rq!Act(c, "anyone", audit)))
  <2>1. own \in Seq(Checks) /\ Has(own, "session") /\ Has(own, c)
    BY <1>1, <1>2, <1>3
  <2> QED
    BY <2>1, <1>12, KeyRoute
<1>13. ASSUME audit = "nobody" PROVE Guarded(Rq!Route(auth \o own, Rq!Act(c, "anyone", audit)))
  <2>1. auth \o own \in Seq(Checks) /\ Has(auth \o own, "session") /\ Has(auth \o own, c)
    BY <1>1, <1>2, <1>3
  <2> QED
    BY <2>1, <1>13, KeyRoute
<1> QED
  BY <1>7, <1>8, <1>9, <1>10, <1>11, <1>12, <1>13 DEF ask, either, own, auth, resolved, named

\* Every route of the router's tables.
LEMMA RoutesGuarded == \A plan \in Rq!Plans : Guarded(plan)
<1>1. /\ Rq!Read \in Acts /\ Rq!Read.effect = "read" /\ Rq!Read.audit = "nobody"
      /\ Rq!Write \in Acts /\ Rq!Write.effect = "write" /\ Rq!Write.audit = "nobody"
  BY DEF Rq!Read, Rq!Write, Rq!Act, Acts
<1>2. \A s \in Seq(Checks) : Guarded(Rq!Route(s, Rq!Read)) /\ Guarded(Rq!Route(s, Rq!Write))
  BY <1>1, PlainRoute
<1>3. \A e \in {"write", "login", "logout"}, c \in {"bearer", "holder", "anyone"},
        a \in {"nobody", "owner"} :
        /\ Rq!Act(e, c, a) \in Acts /\ Rq!Act(e, c, a).effect = e /\ Rq!Act(e, c, a).audit = a
  BY DEF Rq!Act, Acts
<1>4. Rq!AdminAuth \o Rq!AuthenticatedActor \in Seq(Checks)
  BY ChecksMade
<1>5. /\ Guarded(Rq!Route(<<>>, Rq!Read)) /\ Guarded(Rq!Route(<<>>, Rq!Write))
      /\ Guarded(Rq!Route(Rq!AdminAuth, Rq!Read)) /\ Guarded(Rq!Route(Rq!AdminAuth, Rq!Write))
      /\ Guarded(Rq!Route(Rq!AuthenticatedActor, Rq!Read))
      /\ Guarded(Rq!Route(Rq!AuthenticatedActor, Rq!Write))
      /\ Guarded(Rq!Route(Rq!AdminAuth \o Rq!AuthenticatedActor, Rq!Write))
      /\ Guarded(Rq!Route(Rq!ShellActorAuth, Rq!Write))
      /\ Guarded(Rq!Route(Rq!CliSenderAuth, Rq!Read))
      /\ Guarded(Rq!Route(Rq!CliSenderAuth, Rq!Write))
      /\ Guarded(Rq!Route(<<"viewer">>, Rq!Read))
  BY <1>2, <1>4, ChecksMade
<1>6. /\ Guarded(Rq!Route(<<>>, Rq!Act("write", "bearer", "nobody")))
      /\ Guarded(Rq!Route(<<>>, Rq!Act("write", "holder", "nobody")))
      /\ Guarded(Rq!Route(<<>>, Rq!Act("login", "anyone", "owner")))
      /\ Guarded(Rq!Route(<<>>, Rq!Act("logout", "holder", "owner")))
  BY <1>3, PlainRoute, ChecksMade
<1>7. \A r \in DOMAIN Rq!ProviderRoutes : Guarded(Rq!ProviderRoutes[r])
  BY <1>5 DEF Rq!ProviderRoutes
<1>8. \A r \in DOMAIN Rq!DirectRoutes : Guarded(Rq!DirectRoutes[r])
  BY <1>5 DEF Rq!DirectRoutes
<1>9. \A r \in DOMAIN Rq!PersonalRoomRoutes : Guarded(Rq!PersonalRoomRoutes[r])
  BY <1>6 DEF Rq!PersonalRoomRoutes
<1>10. \A r \in DOMAIN Rq!RelationshipRoutes : Guarded(Rq!RelationshipRoutes[r])
  BY <1>6 DEF Rq!RelationshipRoutes
<1>11. \A r \in DOMAIN Rq!WakuRoutes : Guarded(Rq!WakuRoutes[r])
  BY <1>5 DEF Rq!WakuRoutes
<1>12. \A r \in DOMAIN Rq!ShellMessageRoutes : Guarded(Rq!ShellMessageRoutes[r])
  BY <1>5 DEF Rq!ShellMessageRoutes
<1>13. \A r \in DOMAIN Rq!MessageEditRoutes : Guarded(Rq!MessageEditRoutes[r])
  BY <1>5 DEF Rq!MessageEditRoutes
<1>14. \A r \in DOMAIN Rq!CliSendRoutes : Guarded(Rq!CliSendRoutes[r])
  BY <1>5 DEF Rq!CliSendRoutes
<1>15. \A r \in DOMAIN Rq!PresenceRoutes : Guarded(Rq!PresenceRoutes[r])
  BY <1>5 DEF Rq!PresenceRoutes
<1>16. \A r \in DOMAIN Rq!BanRoutes : Guarded(Rq!BanRoutes[r])
  BY KeyRoutes DEF Rq!BanRoutes, Keys
<1>17. \A r \in DOMAIN Rq!NicknameRoutes : Guarded(Rq!NicknameRoutes[r])
  BY <1>6, KeyRoutes DEF Rq!NicknameRoutes, Keys
<1>18. \A r \in DOMAIN Rq!FreezeRoutes : Guarded(Rq!FreezeRoutes[r])
  BY KeyRoutes DEF Rq!FreezeRoutes, Keys
<1>19. \A r \in DOMAIN Rq!ConfigRoutes : Guarded(Rq!ConfigRoutes[r])
  BY KeyRoutes DEF Rq!ConfigRoutes, Keys
<1>20. \A r \in DOMAIN Rq!InviteRoutes : Guarded(Rq!InviteRoutes[r])
  BY KeyRoutes DEF Rq!InviteRoutes, Keys
<1>21. \A r \in DOMAIN Rq!MemberRoutes : Guarded(Rq!MemberRoutes[r])
  BY KeyRoutes DEF Rq!MemberRoutes, Keys
<1>22. \A r \in DOMAIN Rq!LogRoutes : Guarded(Rq!LogRoutes[r])
  BY KeyRoutes DEF Rq!LogRoutes, Keys
<1>23. Guarded(Rq!Route(Rq!AdminAuth \o Rq!AdminActorCapability("manage:permissions"),
                       Rq!Act("assign", "anyone", "actor")))
  <2> DEFINE s == Rq!AdminAuth \o Rq!AdminActorCapability("manage:permissions")
  <2>1. "manage:permissions" \in Keys
    BY DEF Keys
  <2>2. s \in Seq(Checks) /\ Has(s, "session") /\ Has(s, "speaker")
        /\ Has(s, "manage:permissions")
    BY <2>1, ChecksMade, HasConcat
  <2>3. Rq!Act("assign", "anyone", "actor") \in Acts /\ "assign" \notin Catalogue
    BY CatalogueNames DEF Rq!Act, Acts
  <2> HIDE DEF s
  <2>4. Guarded(Rq!Route(s, Rq!Act("assign", "anyone", "actor")))
    BY <2>2, <2>3 DEF Guarded, PlanType, Rq!Route, Rq!Act
  <2> QED
    BY <2>4 DEF s
<1>24. \A r \in DOMAIN Rq!PermissionRoutes : Guarded(Rq!PermissionRoutes[r])
  BY KeyRoutes, <1>23 DEF Rq!PermissionRoutes, Keys
<1>25. \A r \in DOMAIN Rq!SceneRoutes : Guarded(Rq!SceneRoutes[r])
  BY <1>5, KeyRoutes DEF Rq!SceneRoutes, Keys
<1>26. \A r \in DOMAIN Rq!CityFounding : Guarded(Rq!CityFounding[r])
  BY <1>5 DEF Rq!CityFounding
<1>27. \A r \in DOMAIN Rq!CityOffices : Guarded(Rq!CityOffices[r])
  BY <1>5 DEF Rq!CityOffices
<1>28. \A r \in DOMAIN Rq!CityRooms : Guarded(Rq!CityRooms[r])
  BY <1>5 DEF Rq!CityRooms
<1>29. \A r \in DOMAIN Rq!NoticeRoutes : Guarded(Rq!NoticeRoutes[r])
  BY GovernedRoute DEF Rq!NoticeRoutes
<1>30. \A r \in DOMAIN Rq!ReportRoutes : Guarded(Rq!ReportRoutes[r])
  BY GovernedRoute DEF Rq!ReportRoutes
<1>31. \A r \in DOMAIN Rq!SanctionRoutes : Guarded(Rq!SanctionRoutes[r])
  BY GovernedRoute DEF Rq!SanctionRoutes
<1>32. \A r \in DOMAIN Rq!UnsanctionRoutes : Guarded(Rq!UnsanctionRoutes[r])
  BY GovernedRoute DEF Rq!UnsanctionRoutes
<1>33. \A r \in DOMAIN Rq!DeviceAddRoutes : Guarded(Rq!DeviceAddRoutes[r])
  BY KeyRoutes DEF Rq!DeviceAddRoutes, Keys
<1>34. \A r \in DOMAIN Rq!DeviceRoutes : Guarded(Rq!DeviceRoutes[r])
  BY KeyRoutes DEF Rq!DeviceRoutes, Keys
<1>35. \A r \in DOMAIN Rq!PreflightRoutes : Guarded(Rq!PreflightRoutes[r])
  BY <1>5 DEF Rq!PreflightRoutes
<1>36. \A r \in DOMAIN Rq!OtpRequestRoutes : Guarded(Rq!OtpRequestRoutes[r])
  BY <1>5 DEF Rq!OtpRequestRoutes
<1>37. \A r \in DOMAIN Rq!OtpVerifyRoutes : Guarded(Rq!OtpVerifyRoutes[r])
  BY <1>6 DEF Rq!OtpVerifyRoutes
<1>38. \A r \in DOMAIN Rq!MobileRoutes : Guarded(Rq!MobileRoutes[r])
  BY <1>5, <1>6 DEF Rq!MobileRoutes
<1>39. \A r \in DOMAIN Rq!LogoutRoutes : Guarded(Rq!LogoutRoutes[r])
  BY <1>6 DEF Rq!LogoutRoutes
<1>40. \A r \in DOMAIN Rq!ShellReads : Guarded(Rq!ShellReads[r])
  BY <1>5 DEF Rq!ShellReads
<1>41. \A r \in DOMAIN Rq!WorldReads : Guarded(Rq!WorldReads[r])
  BY <1>5 DEF Rq!WorldReads
<1>42. \A r \in DOMAIN Rq!FederationReads : Guarded(Rq!FederationReads[r])
  BY <1>5 DEF Rq!FederationReads
<1>43. \A r \in DOMAIN Rq!ViewerReads : Guarded(Rq!ViewerReads[r])
  BY <1>5 DEF Rq!ViewerReads
<1>44. \A r \in DOMAIN Rq!AdminReads : Guarded(Rq!AdminReads[r])
  BY <1>5 DEF Rq!AdminReads
<1>45. \A r \in DOMAIN Rq!CapabilityReads : Guarded(Rq!CapabilityReads[r])
  BY <1>5 DEF Rq!CapabilityReads
<1>46. \A r \in DOMAIN Rq!CliReads : Guarded(Rq!CliReads[r])
  BY <1>5 DEF Rq!CliReads
<1>47. ASSUME NEW routes \in Rq!RouteTables, NEW r \in DOMAIN routes PROVE Guarded(routes[r])
    BY <1>7, <1>8, <1>9, <1>10, <1>11, <1>12, <1>13, <1>14, <1>15, <1>16, <1>17, <1>18,
       <1>19, <1>20, <1>21, <1>22, <1>24, <1>25, <1>26, <1>27, <1>28, <1>29, <1>30, <1>31,
       <1>32, <1>33, <1>34, <1>35, <1>36, <1>37, <1>38, <1>39, <1>40, <1>41, <1>42, <1>43,
       <1>44, <1>45, <1>46 DEF Rq!RouteTables
<1> QED
  BY <1>47 DEF Rq!Plans, Rq!Range

\* What the followed request still owes, unless it passes without a token.
Bears(q) == q.token \in DOMAIN Bearers /\ q.actor \in {NoOne, Bearers[q.token]}

Owes(q, has) ==
  /\ q.act.effect \in Catalogue \cup {"assign"} => "live" \in has \/ Has(q.checks, "session")
  /\ q.act.effect \in Catalogue => q.act.effect \in has \/ Has(q.checks, q.act.effect)
  /\ q.act.effect = "assign" =>
       "manage:permissions" \in has \/ Has(q.checks, "manage:permissions")
  /\ q.act.audit = "actor" \/ q.act.effect = "assign" =>
       \/ Bears(q) \/ Has(q.checks, "speaker") \/ Has(q.checks, "given")
       \/ /\ q.act.check = "bearer_if_token"
          /\ q.token \in DOMAIN Bearers \/ Has(q.checks, "session")

RequestTyped ==
  request \in [token : Rq!Token, actor : Rq!Actor, checks : Seq(Checks), act : Acts]

RequestInv ==
  /\ Rq!TypeOK /\ RequestTyped
  /\ phase = "checking" =>
       /\ Rq!Standing(request.token) \subseteq entitled
       /\ Rq!Bypassed(request) \/ Owes(request, entitled)
  /\ Rq!OnlyTheEntitledAct /\ Rq!AuditNamesTheBearer

\* What a token stands for is within the catalogue.
LEMMA StandingTyped ==
  ASSUME group \in [Person -> DOMAIN Granted \cup {Ungrouped}], NEW t
  PROVE  Rq!Standing(t) \subseteq {"live"} \cup Catalogue
BY CatalogueNames DEF Rq!Standing, Rq!Capabilities

\* A check that a request with a token passes, and what it says of the token.
LEMMA Passed ==
  ASSUME NEW c, NEW q, Rq!Holds(c, q), ~Rq!Bypassed(q), live \subseteq DOMAIN Bearers
  PROVE  /\ c = "session" => "live" \in Rq!Standing(q.token) /\ q.token \in DOMAIN Bearers
         /\ c \in {"speaker", "given"} => Bears(q)
         /\ c \in Catalogue => c \in Rq!Standing(q.token)
         /\ c = "manage:permissions" => c \in Rq!Standing(q.token)
<1>1. CASE c \in Catalogue
  BY <1>1, CatalogueNames DEF Rq!Holds, Rq!Standing
<1>2. CASE c \notin Catalogue
  BY <1>2 DEF Rq!Holds, Rq!Live, Rq!Speaks, Rq!Standing, Bears
<1> QED
  BY <1>1, <1>2

LEMMA RequestStarts == ASSUME Rq!Init PROVE RequestInv
<1>1. Rq!Idle \in [token : Rq!Token, actor : Rq!Actor, checks : Seq(Checks), act : Acts]
  BY DEF Rq!Idle, Rq!Token, Rq!Actor, Rq!Read, Rq!Act, Acts
<1>2. Rq!TypeOK /\ RequestTyped
  BY <1>1 DEF Rq!Init, Rq!TypeOK, RequestTyped, Rq!Actor
<1> QED
  BY <1>2 DEF Rq!Init, RequestInv, Rq!OnlyTheEntitledAct, Rq!AuditNamesTheBearer

LEMMA ArriveKeeps ==
  ASSUME RequestInv, NEW plan \in Rq!Plans, NEW token \in Rq!Token, NEW actor \in Rq!Actor,
         Rq!Arrive(plan, token, actor)
  PROVE  RequestInv'
<1>1. Guarded(plan)
  BY RoutesGuarded
<1>2. /\ request' = [token |-> token, actor |-> actor, checks |-> plan.checks, act |-> plan.act]
      /\ phase' = "checking" /\ audited' = NoOne /\ entitled' = Rq!Standing(token)
      /\ UNCHANGED <<live, ended, group, bypass, poisoned>>
  BY DEF Rq!Arrive
<1>3. RequestTyped'
  BY <1>1, <1>2 DEF Guarded, PlanType, RequestTyped, Rq!Token, Rq!Actor
<1>4. /\ request'.token = token /\ request'.checks = plan.checks /\ request'.act = plan.act
  BY <1>2
<1>5. Rq!TypeOK'
  BY <1>2, <1>4, StandingTyped DEF RequestInv, Rq!TypeOK, Rq!Actor, Rq!Token
<1>6. Rq!Standing(request.token)' \subseteq entitled'
  BY <1>2, <1>4 DEF Rq!Standing, Rq!Capabilities
<1>7. Owes(request, entitled)'
  BY <1>1, <1>4 DEF Guarded, Owes
<1> QED
  BY <1>2, <1>3, <1>5, <1>6, <1>7 DEF RequestInv, Rq!OnlyTheEntitledAct, Rq!AuditNamesTheBearer

\* The check passes while what the token stands for is remembered.
LEMMA CheckKeeps == ASSUME RequestInv, Rq!Check PROVE RequestInv'
<1> DEFINE c == Head(request.checks)
<1>1. /\ phase = "checking" /\ request.checks # <<>> /\ Rq!Holds(c, request)
      /\ request' = [request EXCEPT !.checks = Tail(request.checks)]
      /\ UNCHANGED <<live, ended, group, bypass, poisoned, phase, entitled, audited>>
  BY DEF Rq!Check
<1>2. request \in [token : Rq!Token, actor : Rq!Actor, checks : Seq(Checks), act : Acts]
  BY DEF RequestInv, RequestTyped
<1>3. /\ Tail(request.checks) \in Seq(Checks)
      /\ \A x : Has(request.checks, x) => x = c \/ Has(Tail(request.checks), x)
  BY <1>1, <1>2, HeadOrTail
<1> HIDE DEF c
<1>4. /\ request'.token = request.token /\ request'.actor = request.actor
      /\ request'.act = request.act /\ request'.checks = Tail(request.checks)
  BY <1>1, <1>2
<1>5. RequestTyped'
  BY <1>1, <1>2, <1>3 DEF RequestTyped, Rq!Token, Rq!Actor
<1>6. Rq!TypeOK'
  BY <1>1, <1>4 DEF RequestInv, Rq!TypeOK, Rq!Actor, Rq!Token
<1>7. Rq!Standing(request.token)' = Rq!Standing(request.token)
  BY <1>1, <1>4 DEF Rq!Standing, Rq!Capabilities
<1>8. Rq!Bypassed(request)' = Rq!Bypassed(request)
  BY <1>1, <1>4 DEF Rq!Bypassed
<1>9. ASSUME ~Rq!Bypassed(request) PROVE Owes(request, entitled)'
  <2>1. live \subseteq DOMAIN Bearers /\ Rq!Standing(request.token) \subseteq entitled
        /\ Owes(request, entitled)
    BY <1>1, <1>9 DEF RequestInv, Rq!TypeOK
  <2>2. /\ c = "session" => "live" \in entitled /\ request.token \in DOMAIN Bearers
        /\ c \in {"speaker", "given"} => Bears(request)
        /\ c \in Catalogue => c \in entitled
        /\ c = "manage:permissions" => c \in entitled
    BY <1>1, <1>9, <2>1, Passed
  <2>3. Bears(request)' = Bears(request)
    BY <1>4 DEF Bears
  <2> QED
    BY <1>1, <1>3, <1>4, <2>1, <2>2, <2>3 DEF Owes
<1> QED
  BY <1>1, <1>5, <1>6, <1>7, <1>8, <1>9
     DEF RequestInv, Rq!OnlyTheEntitledAct, Rq!AuditNamesTheBearer

\* A request that is not carried out leaves nothing behind.
LEMMA AnswersKeep ==
  ASSUME RequestInv, Rq!Refuse \/ Rq!Unavailable \/ Rq!Panic
  PROVE  RequestInv'
<1>1. /\ phase' \in {"refused", "unavailable"} /\ request' = Rq!Idle /\ poisoned' \in BOOLEAN
      /\ UNCHANGED <<live, ended, group, bypass, entitled, audited>>
  BY DEF Rq!Refuse, Rq!Unavailable, Rq!Panic, Rq!Answer, RequestInv, Rq!TypeOK
<1>2. Rq!Idle \in [token : Rq!Token, actor : Rq!Actor, checks : Seq(Checks), act : Acts]
  BY DEF Rq!Idle, Rq!Token, Rq!Actor, Rq!Read, Rq!Act, Acts
<1>3. Rq!TypeOK' /\ RequestTyped'
  BY <1>1, <1>2 DEF RequestInv, Rq!TypeOK, RequestTyped, Rq!Token, Rq!Actor
<1> QED
  BY <1>1, <1>3 DEF RequestInv, Rq!OnlyTheEntitledAct, Rq!AuditNamesTheBearer

\* Sessions and permission groups after one was opened, ended or assigned.
LEMMA OthersTyped ==
  ASSUME RequestInv,
         \/ \E s \in DOMAIN Bearers : Rq!Opens(s) \/ Rq!Ends(s)
         \/ \E r \in Person, g \in DOMAIN Granted : Rq!Assigns(r, g)
  PROVE  /\ (live \subseteq DOMAIN Bearers /\ ended \subseteq DOMAIN Bearers)'
         /\ (live \cap ended = {})'
         /\ (group \in [Person -> DOMAIN Granted \cup {Ungrouped}])'
BY DEF RequestInv, Rq!TypeOK, Rq!Opens, Rq!Ends, Rq!Assigns

LEMMA ElsewhereKeeps == ASSUME RequestInv, Rq!Elsewhere PROVE RequestInv'
<1>1. /\ UNCHANGED <<bypass, poisoned, phase, request, audited>>
      /\ entitled' = IF phase = "checking" THEN entitled \cup Rq!Standing(request.token)'
                     ELSE entitled
  BY DEF Rq!Elsewhere
<1>2. /\ (live \subseteq DOMAIN Bearers /\ ended \subseteq DOMAIN Bearers)'
      /\ (live \cap ended = {})'
      /\ (group \in [Person -> DOMAIN Granted \cup {Ungrouped}])'
  BY OthersTyped DEF Rq!Elsewhere
<1>3. Rq!Standing(request.token)' \subseteq {"live"} \cup Catalogue
  BY <1>2, CatalogueNames DEF Rq!Standing, Rq!Capabilities
<1>4. RequestTyped' /\ Rq!TypeOK'
  BY <1>1, <1>2, <1>3 DEF RequestInv, RequestTyped, Rq!TypeOK, Rq!Token, Rq!Actor
<1>5. Rq!Bypassed(request)' = Rq!Bypassed(request)
  BY <1>1 DEF Rq!Bypassed
<1>6. ASSUME phase = "checking", ~Rq!Bypassed(request) PROVE Owes(request, entitled)'
  <2>1. Owes(request, entitled) /\ entitled \subseteq entitled' /\ request' = request
    BY <1>1, <1>6 DEF RequestInv
  <2> QED
    BY <2>1 DEF Owes, Bears
<1> QED
  BY <1>1, <1>4, <1>5, <1>6 DEF RequestInv, Rq!OnlyTheEntitledAct, Rq!AuditNamesTheBearer

LEMMA NoneOwed == ASSUME NEW s, s = <<>> PROVE \A x : ~Has(s, x)
BY DEF Has

LEMMA CarryOutKeeps == ASSUME RequestInv, Rq!CarryOut PROVE RequestInv'
<1>1. /\ phase = "checking" /\ phase' = "done" /\ request.checks = <<>>
      /\ Rq!Holds(request.act.check, request)
      /\ UNCHANGED <<request, bypass, poisoned, entitled>>
  BY DEF Rq!CarryOut, Rq!Answer
<1>2. request \in [token : Rq!Token, actor : Rq!Actor, checks : Seq(Checks), act : Acts]
  BY DEF RequestInv, RequestTyped
<1>3. \A x : ~Has(request.checks, x)
  BY <1>1, NoneOwed
<1>4. live \subseteq DOMAIN Bearers
  BY DEF RequestInv, Rq!TypeOK
<1>5. Rq!Named(request) \in Rq!Actor
  BY <1>2, CatalogueNames DEF Rq!Named, Rq!Actor
<1>6. /\ (live \subseteq DOMAIN Bearers /\ ended \subseteq DOMAIN Bearers)'
      /\ (live \cap ended = {})'
      /\ (group \in [Person -> DOMAIN Granted \cup {Ungrouped}])'
  <2>1. CASE UNCHANGED <<live, ended, group>>
    BY <2>1 DEF RequestInv, Rq!TypeOK
  <2>2. CASE ~UNCHANGED <<live, ended, group>>
    <3>1. \/ \E s \in DOMAIN Bearers : Rq!Opens(s) \/ Rq!Ends(s)
          \/ \E r \in Person, g \in DOMAIN Granted : Rq!Assigns(r, g)
      BY <1>4, <2>2 DEF Rq!CarryOut, Rq!Ends
    <3> QED
      BY <3>1, OthersTyped
  <2> QED
    BY <2>1, <2>2
<1>7. audited' \in Rq!Actor
  BY <1>4, <1>5, CatalogueNames DEF Rq!CarryOut, Rq!Ends, Rq!Actor
<1>8. Rq!TypeOK' /\ RequestTyped'
  BY <1>1, <1>6, <1>7 DEF RequestInv, RequestTyped, Rq!TypeOK, Rq!Token, Rq!Actor
<1>9. Rq!OnlyTheEntitledAct'
  BY <1>1, <1>3 DEF RequestInv, Owes, Rq!OnlyTheEntitledAct, Rq!Bypassed
<1>10. Rq!AuditNamesTheBearer'
  <2> SUFFICES ASSUME audited' # NoOne, ~Rq!Bypassed(request), request.act.effect # "login"
               PROVE  request.token \in DOMAIN Bearers /\ Bearers[request.token] = audited'
    BY <1>1 DEF Rq!AuditNamesTheBearer, Rq!Bypassed
  <2>1. CASE request.act.effect = "logout"
    BY <1>4, <2>1 DEF Rq!CarryOut, Rq!Ends
  <2>2. CASE request.act.effect # "logout"
    <3>1. /\ audited' = Rq!Named(request)
          /\ request.act.audit = "actor" \/ request.act.effect = "assign"
      BY <2>2 DEF Rq!CarryOut
    <3>2. \/ Bears(request)
          \/ request.act.check = "bearer_if_token" /\ request.token \in DOMAIN Bearers
      BY <1>1, <1>3, <3>1 DEF RequestInv, Owes
    <3>3. ASSUME request.act.check = "bearer_if_token", request.token \in DOMAIN Bearers
          PROVE  Bears(request)
      BY <1>1, <3>3, CatalogueNames DEF Rq!Holds, Rq!Speaks, Bears
    <3> QED
      BY <3>1, <3>2, <3>3 DEF Bears, Rq!Named
  <2> QED
    BY <2>1, <2>2
<1> QED
  BY <1>1, <1>8, <1>9, <1>10 DEF RequestInv

LEMMA RequestStep == ASSUME RequestInv, [Rq!Next]_requestVars PROVE RequestInv'
<1>1. ASSUME NEW plan \in Rq!Plans, NEW token \in Rq!Token, NEW actor \in Rq!Actor,
             Rq!Arrive(plan, token, actor)
      PROVE  RequestInv'
  BY <1>1, ArriveKeeps
<1>2. CASE Rq!Check
  BY <1>2, CheckKeeps
<1>3. CASE Rq!Refuse \/ Rq!Unavailable \/ Rq!Panic
  BY <1>3, AnswersKeep
<1>4. CASE Rq!CarryOut
  BY <1>4, CarryOutKeeps
<1>5. CASE Rq!Elsewhere
  BY <1>5, ElsewhereKeeps
<1>6. CASE UNCHANGED requestVars
  <2>1. UNCHANGED <<live, ended, group, bypass, poisoned, phase, request, entitled, audited>>
    BY <1>6 DEF requestVars
  <2> QED
    BY <2>1 DEF RequestInv, RequestTyped, Rq!TypeOK, Rq!Token, Rq!Actor, Rq!Standing,
       Rq!Capabilities, Rq!Bypassed, Owes, Bears, Rq!OnlyTheEntitledAct, Rq!AuditNamesTheBearer
<1> QED
  BY <1>1, <1>2, <1>3, <1>4, <1>5, <1>6 DEF Rq!Next

\* What the catalogue has a capability for is done only for a token that stood
\* for a session and for that capability since the request came; the routes
\* name the checks, and between them sessions end and groups change.
THEOREM EntitledActs == GatewaySpec => []OnlyTheEntitledAct
<1>1. GatewayInit => RequestInv
  BY PartsStart, RequestStarts
<1>2. RequestInv /\ [GatewayNext]_gatewayVars => RequestInv'
  BY OneAtATime, RequestStep
<1>3. RequestInv => OnlyTheEntitledAct
  BY DEF RequestInv, OnlyTheEntitledAct
<1>4. QED
  BY <1>1, <1>2, <1>3, PTL DEF GatewaySpec

\* The audit event has the name of the token's resident, on every route.
THEOREM AuditIsTrue == GatewaySpec => []AuditNamesTheBearer
<1>1. GatewayInit => RequestInv
  BY PartsStart, RequestStarts
<1>2. RequestInv /\ [GatewayNext]_gatewayVars => RequestInv'
  BY OneAtATime, RequestStep
<1>3. RequestInv => AuditNamesTheBearer
  BY DEF RequestInv, AuditNamesTheBearer
<1>4. QED
  BY <1>1, <1>2, <1>3, PTL DEF GatewaySpec

============================================================================
