--------------------------- MODULE TuiSyncProofs ---------------------------
(***************************************************************************)
(* Proofs about TuiSync for every number of terminals, browsers, messages  *)
(* and failures: its types, that a store holds a message once, that what   *)
(* was typed is never dropped, and that a recall that was seen sticks.     *)
(***************************************************************************)
EXTENDS TuiSync, SequenceTheorems, TLAPS

----------------------------------------------------------------------------
(* The inductive invariant *)

Once(entries) == \A i, j \in DOMAIN entries : entries[i].id = entries[j].id => i = j

\* The gateway has told of the message: it is in the timeline, or only in the
\* relay because the publish was refused.
Arrived(id) == id \in Ids(timeline) \cup refused

GatewayTyped ==
  /\ now \in 0..MaxTime
  /\ relay \in Seq(Message) /\ timeline \in Seq(GatewayEntry)
  /\ composed \subseteq Id /\ refused \subseteq composed
  /\ webs \in 0..MaxWeb /\ amends \in 0..MaxAmends /\ lost \in 0..MaxLost

TerminalsTyped ==
  /\ store \in [Tui -> Seq(LocalEntry)]
  /\ pc \in [Tui -> Location]
  /\ DOMAIN incoming = Tui /\ DOMAIN outgoing = Tui
  /\ cursor \in [Tui -> {NoCursor} \cup 0..MaxTime]

\* A terminal only takes the pending mark from a message that has arrived, and
\* only sends what is pending.
WorkOK(t) ==
  /\ DOMAIN incoming[t] \subseteq Nat \ {0}
  /\ pc[t] = "hydrate" => \A i \in DOMAIN incoming[t] : incoming[t][i] \in GatewayEntry
  /\ pc[t] = "merge" => \A i \in DOMAIN incoming[t] : incoming[t][i] \in Message
  /\ \A i \in DOMAIN incoming[t] : Arrived(incoming[t][i].id)
  /\ \A i \in outgoing[t] : i \in DOMAIN store[t] /\ store[t][i].pending
  /\ pc[t] \notin {"republish", "send"} => outgoing[t] = {}

\* Only what was typed is pending, where it was typed.
PendingTyped ==
  \A t \in Tui : \A i \in DOMAIN store[t] :
    store[t][i].pending => store[t][i].id \in composed /\ store[t][i].id[1] = t

TypedHere == \A id \in composed : id[1] \in Tui

RelayArrived == \A i \in DOMAIN relay : Arrived(relay[i].id)

\* What the history says of the stores.
StoresOK == OneCopyInStore /\ PendingTyped /\ TypedHere /\ NothingDropped

Inv ==
  /\ GatewayTyped /\ TerminalsTyped
  /\ \A t \in Tui : WorkOK(t)
  /\ RelayArrived
  /\ StoresOK

----------------------------------------------------------------------------
(* Stores *)

\* What becomes of the entries when the message with this id is merged: every
\* entry keeps its place, its id and its recall, the one with the id takes the
\* delivery state, and at most that one is added.
MergedInto(entries, merged, id, pending) ==
  /\ merged \in Seq(LocalEntry)
  /\ DOMAIN entries \subseteq DOMAIN merged
  /\ \A i \in DOMAIN entries :
       /\ merged[i].id = entries[i].id
       /\ entries[i].recalled => merged[i].recalled
       /\ entries[i].id # id => (merged[i].pending <=> entries[i].pending)
  /\ \A i \in DOMAIN merged : merged[i].id = id => (merged[i].pending <=> pending)
  /\ \A i \in DOMAIN merged \ DOMAIN entries : merged[i].id = id
  /\ \E i \in DOMAIN merged : merged[i].id = id
  /\ Once(entries) => Once(merged)

\* A stored entry is what it was stored with.
LEMMA StoredTyped ==
  ASSUME NEW message, message.id \in Id, message.text \in Text, message.time \in 0..MaxTime,
         NEW edited \in BOOLEAN, NEW recalled \in BOOLEAN, NEW pending \in BOOLEAN
  PROVE  /\ Stored(message, edited, recalled, pending) \in LocalEntry
         /\ Stored(message, edited, recalled, pending).id = message.id
         /\ Stored(message, edited, recalled, pending).recalled = recalled
         /\ Stored(message, edited, recalled, pending).pending = pending
BY DEF Stored, LocalEntry

\* merge_message: a known entry is changed in its place, an unknown message is
\* added at the end.
LEMMA MergeMerges ==
  ASSUME NEW entries \in Seq(LocalEntry), NEW message, NEW pending \in BOOLEAN,
         message.id \in Id, message.text \in Text, message.time \in 0..MaxTime
  PROVE  MergedInto(entries, Merge(entries, message, pending), message.id, pending)
<1> DEFINE merged == Merge(entries, message, pending)
           added == Stored(message, FALSE, FALSE, pending)
<1> SUFFICES MergedInto(entries, merged, message.id, pending)
  OBVIOUS
<1>1. /\ DOMAIN entries = 1..Len(entries) /\ Len(entries) \in Nat
      /\ \A i \in DOMAIN entries : entries[i] \in LocalEntry
  OBVIOUS
<1>2. CASE message.id \in Ids(entries)
  <2>1. merged = [i \in 1..Len(entries) |->
                    IF entries[i].id = message.id
                      THEN Stored(message, entries[i].edited, entries[i].recalled, pending)
                      ELSE entries[i]]
    BY <1>1, <1>2 DEF Merge
  <2>2. ASSUME NEW i \in 1..Len(entries), entries[i].id = message.id
        PROVE  /\ merged[i] \in LocalEntry
               /\ merged[i].id = entries[i].id /\ merged[i].recalled = entries[i].recalled
               /\ merged[i].pending = pending
    <3>1. merged[i] = Stored(message, entries[i].edited, entries[i].recalled, pending)
      BY <2>1, <2>2
    <3>2. entries[i].edited \in BOOLEAN /\ entries[i].recalled \in BOOLEAN
      BY <1>1 DEF LocalEntry
    <3> QED BY <2>2, <3>1, <3>2, StoredTyped
  <2>3. ASSUME NEW i \in 1..Len(entries), entries[i].id # message.id
        PROVE  merged[i] = entries[i]
    BY <2>1, <2>3
  <2>4. \A i \in 1..Len(entries) : merged[i] \in LocalEntry /\ merged[i].id = entries[i].id
    BY <1>1, <2>2, <2>3
  <2>5. DOMAIN merged = 1..Len(entries)
    BY <2>1
  <2>6. merged \in [1..Len(entries) -> LocalEntry]
    BY <2>1, <2>4
  <2> HIDE DEF merged
  <2>7. merged \in Seq(LocalEntry)
    BY <1>1, <2>6
  <2>8. Once(entries) => Once(merged)
    BY <1>1, <2>4, <2>5 DEF Once
  <2>9. /\ DOMAIN entries \subseteq DOMAIN merged
        /\ \A i \in DOMAIN merged \ DOMAIN entries : merged[i].id = message.id
    BY <1>1, <2>5
  <2>10. ASSUME NEW i \in DOMAIN entries
         PROVE  /\ merged[i].id = entries[i].id
                /\ entries[i].recalled => merged[i].recalled
                /\ entries[i].id # message.id => (merged[i].pending <=> entries[i].pending)
    BY <1>1, <2>2, <2>3, <2>4
  <2>11. ASSUME NEW i \in DOMAIN merged, merged[i].id = message.id
         PROVE  merged[i].pending <=> pending
    BY <2>2, <2>4, <2>5, <2>11
  <2>12. \E i \in DOMAIN merged : merged[i].id = message.id
    BY <1>1, <1>2, <2>4, <2>5 DEF Ids
  <2> QED BY <2>7, <2>8, <2>9, <2>10, <2>11, <2>12 DEF MergedInto
<1>3. CASE message.id \notin Ids(entries)
  <2>1. merged = Append(entries, added)
    BY <1>3 DEF Merge
  <2>2. added \in LocalEntry /\ added.id = message.id /\ added.pending = pending
    BY StoredTyped
  <2> HIDE DEF added, merged
  <2>3. /\ merged \in Seq(LocalEntry)
        /\ DOMAIN merged = 1..(Len(entries) + 1)
        /\ \A i \in DOMAIN entries : merged[i] = entries[i]
        /\ merged[Len(entries) + 1] = added
    BY <1>1, <2>1, <2>2
  <2>4. \A i \in DOMAIN entries : entries[i].id # message.id
    BY <1>3 DEF Ids
  <2>5. \A i \in DOMAIN merged \ DOMAIN entries : i = Len(entries) + 1 /\ merged[i] = added
    BY <1>1, <2>3
  <2>6. Once(entries) => Once(merged)
    BY <1>1, <2>2, <2>3, <2>4, <2>5 DEF Once
  <2>7. /\ DOMAIN entries \subseteq DOMAIN merged
        /\ \A i \in DOMAIN merged \ DOMAIN entries : merged[i].id = message.id
    BY <1>1, <2>2, <2>3, <2>5
  <2>8. ASSUME NEW i \in DOMAIN entries
        PROVE  /\ merged[i].id = entries[i].id
               /\ entries[i].recalled => merged[i].recalled
               /\ entries[i].id # message.id => (merged[i].pending <=> entries[i].pending)
    BY <2>3
  <2>9. ASSUME NEW i \in DOMAIN merged, merged[i].id = message.id
        PROVE  merged[i].pending <=> pending
    BY <2>2, <2>3, <2>4, <2>5, <2>9
  <2>10. \E i \in DOMAIN merged : merged[i].id = message.id
    BY <1>1, <2>2, <2>3
  <2> QED BY <2>3, <2>6, <2>7, <2>8, <2>9, <2>10 DEF MergedInto
<1> QED BY <1>2, <1>3

\* Marking the message afterwards changes none of that.
LEMMA MarkKeeps ==
  ASSUME NEW entries, NEW merged, NEW id, NEW pending \in BOOLEAN,
         NEW edited \in BOOLEAN, NEW recalled \in BOOLEAN,
         MergedInto(entries, merged, id, pending)
  PROVE  MergedInto(entries, Mark(merged, id, edited, recalled), id, pending)
<1> DEFINE marked == Mark(merged, id, edited, recalled)
<1> SUFFICES MergedInto(entries, marked, id, pending)
  OBVIOUS
<1>1. /\ merged \in Seq(LocalEntry) /\ Len(merged) \in Nat
      /\ DOMAIN merged = 1..Len(merged)
      /\ \A i \in DOMAIN merged : merged[i] \in LocalEntry
  BY DEF MergedInto
<1>2. DOMAIN marked = 1..Len(merged)
  BY <1>1 DEF Mark
<1>3. ASSUME NEW i \in 1..Len(merged)
      PROVE  /\ marked[i] \in LocalEntry
             /\ marked[i].id = merged[i].id /\ marked[i].pending = merged[i].pending
             /\ merged[i].recalled => marked[i].recalled
  <2>1. /\ merged[i].id \in Id /\ merged[i].text \in Text /\ merged[i].time \in 0..MaxTime
        /\ (merged[i].edited \/ edited) \in BOOLEAN
        /\ (merged[i].recalled \/ recalled) \in BOOLEAN
        /\ merged[i].pending \in BOOLEAN
    BY <1>1 DEF LocalEntry
  <2>2. CASE merged[i].id = id
    <3> DEFINE e == merged[i].edited \/ edited
               r == merged[i].recalled \/ recalled
    <3>1. marked[i] = Stored(merged[i], e, r, merged[i].pending)
      BY <1>1, <2>2 DEF Mark
    <3>2. e \in BOOLEAN /\ r \in BOOLEAN /\ (merged[i].recalled => r)
      BY <2>1
    <3> HIDE DEF e, r
    <3>3. /\ marked[i] \in LocalEntry
          /\ marked[i].id = merged[i].id
          /\ marked[i].recalled = r
          /\ marked[i].pending = merged[i].pending
      BY <2>1, <3>1, <3>2, StoredTyped
    <3> QED BY <3>2, <3>3
  <2>3. CASE merged[i].id # id
    BY <1>1, <2>3 DEF Mark
  <2> QED BY <2>2, <2>3
<1>4. marked \in [1..Len(merged) -> LocalEntry]
  <2>1. \A i \in 1..Len(merged) : marked[i] \in LocalEntry
    BY <1>3
  <2> QED BY <1>1, <2>1 DEF Mark
<1> HIDE DEF marked
<1>5. marked \in Seq(LocalEntry)
  BY <1>1, <1>4
<1>6. Once(merged) => Once(marked)
  BY <1>1, <1>2, <1>3 DEF Once
<1>7. DOMAIN entries \subseteq DOMAIN marked
  BY <1>1, <1>2 DEF MergedInto
<1>8. ASSUME NEW i \in DOMAIN entries
      PROVE  /\ marked[i].id = entries[i].id
             /\ entries[i].recalled => marked[i].recalled
             /\ entries[i].id # id => (marked[i].pending <=> entries[i].pending)
  BY <1>1, <1>3 DEF MergedInto
<1>9. ASSUME NEW i \in DOMAIN marked, marked[i].id = id
      PROVE  marked[i].pending <=> pending
  BY <1>1, <1>2, <1>3, <1>9 DEF MergedInto
<1>10. \A i \in DOMAIN marked \ DOMAIN entries : marked[i].id = id
  BY <1>1, <1>2, <1>3 DEF MergedInto
<1>11. Once(entries) => Once(marked)
  BY <1>6 DEF MergedInto
<1>12. \E i \in DOMAIN marked : marked[i].id = id
  BY <1>1, <1>2, <1>3 DEF MergedInto
<1> QED BY <1>5, <1>7, <1>8, <1>9, <1>10, <1>11, <1>12 DEF MergedInto
----------------------------------------------------------------------------
(* What the steps have in common *)

\* Nothing that has arrived is forgotten.
Remembers ==
  /\ Ids(timeline) \subseteq Ids(timeline') /\ refused \subseteq refused'

\* A recall that a terminal has seen stays where it is.
RecallsStay ==
  \A t \in Tui : \A i \in DOMAIN store[t] : store[t][i].recalled => store'[t][i].recalled

\* A step that leaves the stores alone.
LEMMA StoresStay ==
  ASSUME Inv, Remembers, store' = store, composed' = composed
  PROVE  StoresOK' /\ RecallsStay
BY DEF RecallsStay, Inv, StoresOK, Remembers, OneCopyInStore, PendingTyped, TypedHere, NothingDropped, Kept

\* A message is merged into the store of one terminal: as pending when it was
\* typed just now, as delivered when it has arrived.
LEMMA StoreMoves ==
  ASSUME Inv, Remembers, NEW t \in Tui, NEW s, NEW id, NEW pending \in BOOLEAN,
         MergedInto(store[t], s, id, pending),
         store' = [store EXCEPT ![t] = s],
         composed' = IF pending THEN composed \cup {id} ELSE composed,
         pending => id[1] = t,
         ~pending => id \in Ids(timeline') \cup refused'
  PROVE  /\ store' \in [Tui -> Seq(LocalEntry)]
         /\ StoresOK' /\ RecallsStay
<1>1. /\ store \in [Tui -> Seq(LocalEntry)]
      /\ store' \in [Tui -> Seq(LocalEntry)]
      /\ store'[t] = s /\ \A q \in Tui \ {t} : store'[q] = store[q]
  BY DEF Inv, TerminalsTyped, MergedInto
<1>2. OneCopyInStore'
  BY <1>1 DEF Inv, StoresOK, OneCopyInStore, MergedInto, Once
<1>3. TypedHere'
  BY DEF Inv, StoresOK, TypedHere
<1>4. PendingTyped'
  <2>1. ASSUME NEW q \in Tui, NEW i \in DOMAIN store'[q], store'[q][i].pending
        PROVE  store'[q][i].id \in composed' /\ store'[q][i].id[1] = q
    <3>1. CASE q # t
      BY <1>1, <2>1, <3>1 DEF Inv, StoresOK, PendingTyped
    <3>2. CASE q = t /\ s[i].id = id
      BY <1>1, <2>1, <3>2 DEF MergedInto
    <3>3. CASE q = t /\ s[i].id # id
      BY <1>1, <2>1, <3>3 DEF Inv, StoresOK, PendingTyped, MergedInto
    <3> QED BY <3>1, <3>2, <3>3
  <2> QED BY <2>1 DEF PendingTyped
<1>5. NothingDropped'
  <2>1. ASSUME NEW x \in composed' \ refused'
        PROVE  \E i \in DOMAIN store'[x[1]] :
                 /\ store'[x[1]][i].id = x
                 /\ store'[x[1]][i].pending \/ x \in Ids(timeline')
    <3>1. CASE x = id /\ pending
      BY <1>1, <3>1 DEF MergedInto
    <3>2. CASE x = id /\ ~pending
      <4>1. x \in Ids(timeline')
        BY <2>1, <3>2
      <4>2. /\ x \in composed \ refused /\ x[1] \in Tui
            /\ \E i \in DOMAIN store[x[1]] : store[x[1]][i].id = x
        BY <2>1, <3>2 DEF Inv, StoresOK, NothingDropped, Kept, Remembers, TypedHere
      <4> QED BY <1>1, <4>1, <4>2 DEF MergedInto
    <3>3. CASE x # id
      <4>1. /\ x \in composed \ refused /\ x[1] \in Tui
            /\ \E i \in DOMAIN store[x[1]] :
                 /\ store[x[1]][i].id = x
                 /\ store[x[1]][i].pending \/ x \in Ids(timeline)
        BY <2>1, <3>3 DEF Inv, StoresOK, NothingDropped, Kept, Remembers, TypedHere
      <4>2. PICK i \in DOMAIN store[x[1]] :
              /\ store[x[1]][i].id = x
              /\ store[x[1]][i].pending \/ x \in Ids(timeline)
        BY <4>1
      <4>3. i \in DOMAIN store'[x[1]] /\ store'[x[1]][i].id = x
        BY <1>1, <3>3, <4>1, <4>2 DEF MergedInto
      <4>4. store[x[1]][i].pending => store'[x[1]][i].pending
        BY <1>1, <3>3, <4>1, <4>2 DEF MergedInto
      <4> QED BY <4>2, <4>3, <4>4 DEF Remembers
    <3> QED BY <3>1, <3>2, <3>3
  <2> QED BY <2>1 DEF NothingDropped, Kept
<1>6. RecallsStay
  BY <1>1 DEF RecallsStay, MergedInto
<1> QED BY <1>1, <1>2, <1>3, <1>4, <1>5, <1>6 DEF StoresOK

\* What a terminal is doing is not disturbed by the others.
LEMMA OthersStand ==
  ASSUME Inv, Remembers, NEW q \in Tui,
         store'[q] = store[q], pc'[q] = pc[q], incoming'[q] = incoming[q],
         outgoing'[q] = outgoing[q]
  PROVE  WorkOK(q)'
<1>1. WorkOK(q)
  BY DEF Inv
<1>2. \A id : Arrived(id) => Arrived(id)'
  BY DEF Arrived, Remembers
<1> QED BY <1>1, <1>2 DEF WorkOK

\* The process ends with clean hands.
LEMMA EndsWell ==
  ASSUME Inv, NEW t \in Tui, Ends(t)
  PROVE  /\ pc' \in [Tui -> Location] /\ DOMAIN incoming' = Tui /\ DOMAIN outgoing' = Tui
         /\ cursor' \in [Tui -> {NoCursor} \cup 0..MaxTime]
         /\ WorkOK(t)'
         /\ \A q \in Tui \ {t} :
              pc'[q] = pc[q] /\ incoming'[q] = incoming[q] /\ outgoing'[q] = outgoing[q]
<1>1. /\ pc' \in [Tui -> Location] /\ DOMAIN incoming' = Tui /\ DOMAIN outgoing' = Tui
      /\ cursor' \in [Tui -> {NoCursor} \cup 0..MaxTime]
      /\ pc'[t] = "stopped" /\ incoming'[t] = <<>> /\ outgoing'[t] = {}
      /\ \A q \in Tui \ {t} :
           pc'[q] = pc[q] /\ incoming'[q] = incoming[q] /\ outgoing'[q] = outgoing[q]
  BY DEF Inv, TerminalsTyped, Ends, Nothing, Location
<1>2. DOMAIN <<>> = {}
  OBVIOUS
<1> QED BY <1>1, <1>2 DEF WorkOK

----------------------------------------------------------------------------
(* The gateway *)

\* A message that is accepted is in the relay and in the timeline.
LEMMA AcceptArrives ==
  ASSUME Inv, NEW message \in Message, Accept(message), refused' = refused
  PROVE  /\ relay' \in Seq(Message) /\ timeline' \in Seq(GatewayEntry)
         /\ Remembers /\ RelayArrived'
         /\ message.id \in Ids(timeline')
<1> DEFINE entry == InTimeline(message)
<1>1. entry \in GatewayEntry /\ entry.id = message.id
  BY DEF InTimeline, Message, GatewayEntry
<1>2. relay \in Seq(Message) /\ timeline \in Seq(GatewayEntry)
  BY DEF Inv, GatewayTyped
<1>3. relay' = Append(relay, message) /\ timeline' = Append(timeline, entry)
  BY DEF Accept
<1> HIDE DEF entry
<1>4. /\ relay' \in Seq(Message) /\ timeline' \in Seq(GatewayEntry)
      /\ DOMAIN relay' = 1..(Len(relay) + 1) /\ DOMAIN relay = 1..Len(relay)
      /\ DOMAIN timeline' = 1..(Len(timeline) + 1) /\ DOMAIN timeline = 1..Len(timeline)
      /\ Len(relay) \in Nat /\ Len(timeline) \in Nat
      /\ \A i \in DOMAIN relay : relay'[i] = relay[i]
      /\ \A i \in DOMAIN timeline : timeline'[i] = timeline[i]
      /\ relay'[Len(relay) + 1] = message /\ timeline'[Len(timeline) + 1] = entry
  BY <1>1, <1>2, <1>3
<1>5. Ids(timeline) \subseteq Ids(timeline') /\ message.id \in Ids(timeline')
  BY <1>1, <1>4 DEF Ids
<1>6. ASSUME NEW i \in DOMAIN relay'
      PROVE  relay'[i].id \in Ids(timeline') \cup refused'
  <2>1. CASE i \in DOMAIN relay
    BY <1>4, <1>5, <2>1 DEF Inv, RelayArrived, Arrived
  <2>2. CASE i = Len(relay) + 1
    BY <1>4, <1>5, <2>2
  <2> QED BY <1>4, <2>1, <2>2
<1> QED BY <1>4, <1>5, <1>6 DEF Remembers, RelayArrived, Arrived

\* The frame of an entry of a store.
LEMMA FrameTyped ==
  ASSUME NEW entry \in LocalEntry
  PROVE  Frame(entry) \in Message /\ Frame(entry).id = entry.id
BY DEF Frame, Message, LocalEntry

\* A step that leaves the terminals alone.
LEMMA TerminalsStand ==
  ASSUME Inv, Remembers, UNCHANGED terminal, composed' = composed, GatewayTyped', RelayArrived'
  PROVE  Inv' /\ RecallsStay
<1>1. /\ store' = store /\ pc' = pc /\ incoming' = incoming /\ outgoing' = outgoing
      /\ cursor' = cursor
  BY DEF terminal
<1>2. \A q \in Tui : WorkOK(q)'
  BY <1>1, OthersStand
<1>3. TerminalsTyped'
  BY <1>1 DEF Inv, TerminalsTyped
<1> QED BY <1>1, <1>2, <1>3, StoresStay DEF Inv

LEMMA WebSendKeeps == ASSUME Inv, NEW w \in Web, WebSend(w) PROVE Inv' /\ RecallsStay
<1> DEFINE message == [id |-> <<w, webs>>, text |-> "original", time |-> now]
<1>1. message \in Message
  BY TuiSyncConstants DEF Inv, GatewayTyped, WebSend, Message, Id, Text
<1>2. Accept(message) /\ refused' = refused /\ composed' = composed /\ UNCHANGED terminal
  BY DEF WebSend, history
<1> HIDE DEF message
<1>3. GatewayTyped'
  BY <1>1, <1>2, AcceptArrives, TuiSyncConstants DEF Inv, GatewayTyped, WebSend, history
<1> QED BY <1>1, <1>2, <1>3, AcceptArrives, TerminalsStand

\* An amended entry keeps its place and its id.
LEMMA AmendKeeps ==
  ASSUME Inv, NEW i \in DOMAIN timeline, NEW entry \in GatewayEntry,
         entry.id = timeline[i].id, AmendEntry(i, entry)
  PROVE  Inv' /\ RecallsStay
<1>1. /\ timeline \in Seq(GatewayEntry) /\ timeline' = [timeline EXCEPT ![i] = entry]
      /\ relay' = relay /\ refused' = refused /\ composed' = composed
      /\ now' = now /\ webs' = webs /\ lost' = lost /\ amends' \in 0..MaxAmends
      /\ UNCHANGED terminal
  BY TuiSyncConstants DEF Inv, GatewayTyped, AmendEntry, history
<1>2. /\ timeline' \in Seq(GatewayEntry) /\ DOMAIN timeline' = DOMAIN timeline
      /\ \A j \in DOMAIN timeline : timeline'[j].id = timeline[j].id
  BY <1>1
<1>3. Ids(timeline') = Ids(timeline)
  BY <1>2 DEF Ids
<1>4. GatewayTyped' /\ Remembers
  BY <1>1, <1>2, <1>3 DEF Inv, GatewayTyped, Remembers
<1>5. RelayArrived'
  BY <1>1, <1>3 DEF Inv, RelayArrived, Arrived
<1> QED BY <1>1, <1>4, <1>5, TerminalsStand

LEMMA EditKeeps == ASSUME Inv, NEW i \in DOMAIN timeline, EditMessage(i) PROVE Inv' /\ RecallsStay
<1>1. timeline[i] \in GatewayEntry
  BY DEF Inv, GatewayTyped
<1> DEFINE entry == [timeline[i] EXCEPT !.text = "edited", !.edited = TRUE]
<1>2. entry \in GatewayEntry /\ entry.id = timeline[i].id
  BY <1>1 DEF GatewayEntry, Text
<1> QED BY <1>2, AmendKeeps DEF EditMessage

LEMMA RecallKeeps == ASSUME Inv, NEW i \in DOMAIN timeline, RecallMessage(i) PROVE Inv' /\ RecallsStay
<1>1. timeline[i] \in GatewayEntry
  BY DEF Inv, GatewayTyped
<1> DEFINE entry == [timeline[i] EXCEPT !.recalled = TRUE]
<1>2. entry \in GatewayEntry /\ entry.id = timeline[i].id
  BY <1>1 DEF GatewayEntry
<1> QED BY <1>2, AmendKeeps DEF RecallMessage

LEMMA GatewayRestartKeeps == ASSUME Inv, GatewayRestart PROVE Inv' /\ RecallsStay
<1>1. GatewayTyped' /\ Remembers /\ composed' = composed /\ UNCHANGED terminal
  BY TuiSyncConstants DEF Inv, GatewayTyped, GatewayRestart, Remembers, history
<1>2. RelayArrived'
  BY DEF GatewayRestart, RelayArrived
<1> QED BY <1>1, <1>2, TerminalsStand

LEMMA TickKeeps == ASSUME Inv, Tick PROVE Inv' /\ RecallsStay
<1>1. GatewayTyped' /\ Remembers /\ composed' = composed /\ UNCHANGED terminal
  BY TuiSyncConstants DEF Inv, GatewayTyped, Tick, Remembers, gateway, history, counters
<1>2. RelayArrived'
  BY DEF Inv, Tick, RelayArrived, Arrived, gateway, history
<1> QED BY <1>1, <1>2, TerminalsStand

----------------------------------------------------------------------------
(* The terminals *)

\* A step of one terminal.
LEMMA TerminalActs ==
  ASSUME Inv, Remembers, NEW t \in Tui,
         GatewayTyped', TerminalsTyped', RelayArrived', StoresOK', RecallsStay, WorkOK(t)',
         \A q \in Tui \ {t} : /\ store'[q] = store[q] /\ pc'[q] = pc[q]
                              /\ incoming'[q] = incoming[q] /\ outgoing'[q] = outgoing[q]
  PROVE  Inv' /\ RecallsStay
<1>1. \A q \in Tui \ {t} : WorkOK(q)'
  BY OthersStand
<1> QED BY <1>1 DEF Inv

\* A step that leaves the gateway and the history alone.
LEMMA GatewayStands ==
  ASSUME Inv, now' = now, UNCHANGED <<gateway, history>>,
         webs' = webs, amends' = amends, lost' = lost \/ (lost < MaxLost /\ lost' = lost + 1)
  PROVE  Remembers /\ GatewayTyped' /\ RelayArrived' /\ composed' = composed
BY TuiSyncConstants
   DEF Inv, GatewayTyped, RelayArrived, Arrived, Remembers, gateway, history

LEMMA StartKeeps == ASSUME Inv, NEW t \in Tui, Start(t) PROVE Inv' /\ RecallsStay
<1>1. Remembers /\ GatewayTyped' /\ RelayArrived' /\ composed' = composed /\ store' = store
  BY GatewayStands DEF Start, counters
<1>2. StoresOK' /\ RecallsStay
  BY <1>1, StoresStay
<1>3. TerminalsTyped'
  BY <1>1 DEF Inv, TerminalsTyped, Start, Location
<1>4. /\ incoming'[t] = timeline /\ pc'[t] \in {"loop", "hydrate"} /\ outgoing' = outgoing
      /\ pc[t] = "stopped" /\ timeline' = timeline /\ refused' = refused
      /\ \A q \in Tui \ {t} : pc'[q] = pc[q] /\ incoming'[q] = incoming[q]
  BY DEF Inv, TerminalsTyped, Start, gateway, history
<1>5. /\ DOMAIN timeline \subseteq Nat \ {0}
      /\ \A i \in DOMAIN timeline : timeline[i] \in GatewayEntry /\ timeline[i].id \in Ids(timeline)
  BY DEF Inv, GatewayTyped, Ids
<1>6. outgoing[t] = {}
  BY <1>4 DEF Inv, WorkOK
<1>7. WorkOK(t)'
  BY <1>4, <1>5, <1>6 DEF WorkOK, Arrived
<1> QED BY <1>1, <1>2, <1>3, <1>4, <1>7, TerminalActs

\* A fetched message that is next is typed and has arrived.
LEMMA FetchedMessage ==
  ASSUME Inv, NEW t \in Tui, NEW i \in First(DOMAIN incoming[t])
  PROVE  /\ i \in DOMAIN incoming[t]
         /\ incoming[t][i].id \in Ids(timeline) \cup refused
         /\ pc[t] = "merge" => incoming[t][i] \in Message
         /\ pc[t] = "hydrate" =>
              /\ incoming[t][i] \in GatewayEntry
              /\ Shown(incoming[t][i]) \in Message
              /\ Shown(incoming[t][i]).id = incoming[t][i].id
<1>1. i \in DOMAIN incoming[t] /\ WorkOK(t)
  BY DEF Inv, First
<1>2. ASSUME NEW entry \in GatewayEntry
      PROVE  Shown(entry) \in Message /\ Shown(entry).id = entry.id
  BY DEF Shown, Message, GatewayEntry, Text
<1> QED BY <1>1, <1>2 DEF WorkOK, Arrived

\* What is left of it stays as it was.
LEMMA RestOf ==
  ASSUME NEW fetched, NEW i
  PROVE  /\ DOMAIN Without(fetched, i) = DOMAIN fetched \ {i}
         /\ \A j \in DOMAIN fetched \ {i} : Without(fetched, i)[j] = fetched[j]
BY DEF Without, Restrict

\* The message is merged, and perhaps marked.
LEMMA HydratedStore ==
  ASSUME Inv, NEW t \in Tui, NEW i \in First(DOMAIN incoming[t]), pc[t] = "hydrate",
         NEW edited \in BOOLEAN, NEW recalled \in BOOLEAN
  PROVE  LET entry  == incoming[t][i]
             merged == Merge(store[t], Shown(entry), FALSE)
         IN /\ MergedInto(store[t], merged, entry.id, FALSE)
            /\ MergedInto(store[t], Mark(merged, entry.id, edited, recalled), entry.id, FALSE)
<1> DEFINE message == Shown(incoming[t][i])
<1>1. message.id \in Id /\ message.text \in Text /\ message.time \in 0..MaxTime
  BY FetchedMessage DEF Message
<1>2. store[t] \in Seq(LocalEntry) /\ message.id = incoming[t][i].id
  BY FetchedMessage DEF Inv, TerminalsTyped
<1> HIDE DEF message
<1>3. MergedInto(store[t], Merge(store[t], message, FALSE), message.id, FALSE)
  BY <1>1, <1>2, MergeMerges
<1>4. MergedInto(store[t], Merge(store[t], message, FALSE), incoming[t][i].id, FALSE)
  BY <1>2, <1>3
<1>5. MergedInto(store[t], Mark(Merge(store[t], message, FALSE), incoming[t][i].id,
                                edited, recalled), incoming[t][i].id, FALSE)
  BY <1>4, MarkKeeps
<1> QED BY <1>4, <1>5 DEF message

\* A message that has arrived was merged into the store, and the process ended.
LEMMA MergedAndEnded ==
  ASSUME Inv, Remembers, NEW t \in Tui, NEW s, NEW id, MergedInto(store[t], s, id, FALSE),
         id \in Ids(timeline) \cup refused,
         store' = [store EXCEPT ![t] = s], composed' = composed,
         GatewayTyped', RelayArrived', Ends(t)
  PROVE  Inv' /\ RecallsStay
<1>1. StoresOK' /\ RecallsStay /\ store' \in [Tui -> Seq(LocalEntry)]
  BY StoreMoves DEF Remembers
<1>2. \A q \in Tui \ {t} : store'[q] = store[q]
  BY DEF Inv, TerminalsTyped
<1>3. TerminalsTyped'
  BY <1>1, EndsWell DEF TerminalsTyped
<1> QED BY <1>1, <1>2, <1>3, EndsWell, TerminalActs

LEMMA HydrateNextKeeps == ASSUME Inv, NEW t \in Tui, HydrateNext(t) PROVE Inv' /\ RecallsStay
<1>1. /\ Remembers /\ GatewayTyped' /\ RelayArrived' /\ composed' = composed
      /\ timeline' = timeline /\ refused' = refused
  BY GatewayStands DEF HydrateNext, counters, gateway, history
<1>2. PICK i \in First(DOMAIN incoming[t]) :
        LET entry  == incoming[t][i]
            rest   == Without(incoming[t], i)
            merged == Merge(store[t], Shown(entry), FALSE)
        IN \/ /\ store' = [store EXCEPT ![t] = merged]
              /\ Ends(t)
           \/ /\ store' = [store EXCEPT ![t] =
                             Mark(merged, entry.id, entry.edited, entry.recalled)]
              /\ incoming' = [incoming EXCEPT ![t] = rest]
              /\ pc' = [pc EXCEPT ![t] = IF DOMAIN rest = {} THEN "loop" ELSE "hydrate"]
              /\ UNCHANGED <<outgoing, cursor>>
  BY DEF HydrateNext
<1>3. pc[t] = "hydrate"
  BY DEF HydrateNext
<1> DEFINE entry  == incoming[t][i]
           rest   == Without(incoming[t], i)
           merged == Merge(store[t], Shown(entry), FALSE)
           marked == Mark(merged, entry.id, entry.edited, entry.recalled)
<1>4. entry \in GatewayEntry /\ entry.id \in Ids(timeline) \cup refused /\ i \in DOMAIN incoming[t]
  BY <1>2, <1>3, FetchedMessage
<1>5. entry.edited \in BOOLEAN /\ entry.recalled \in BOOLEAN
  BY <1>4 DEF GatewayEntry
<1>6. MergedInto(store[t], merged, entry.id, FALSE) /\ MergedInto(store[t], marked, entry.id, FALSE)
  BY <1>2, <1>3, <1>5, HydratedStore
<1>7. CASE store' = [store EXCEPT ![t] = merged] /\ Ends(t)
  <2> HIDE DEF merged, marked, rest
  <2> QED BY <1>1, <1>4, <1>6, <1>7, MergedAndEnded
<1>8. CASE /\ store' = [store EXCEPT ![t] = marked]
           /\ incoming' = [incoming EXCEPT ![t] = rest]
           /\ pc' = [pc EXCEPT ![t] = IF DOMAIN rest = {} THEN "loop" ELSE "hydrate"]
           /\ UNCHANGED <<outgoing, cursor>>
  <2>1. /\ DOMAIN rest = DOMAIN incoming[t] \ {i}
        /\ \A j \in DOMAIN rest : rest[j] = incoming[t][j]
    BY RestOf
  <2> HIDE DEF merged, marked, rest
  <2>2. StoresOK' /\ RecallsStay /\ store' \in [Tui -> Seq(LocalEntry)]
    BY <1>1, <1>4, <1>6, <1>8, StoreMoves
  <2>3. TerminalsTyped'
    BY <1>8, <2>2 DEF Inv, TerminalsTyped, Location
  <2>4. /\ pc'[t] \in {"loop", "hydrate"} /\ incoming'[t] = rest /\ outgoing' = outgoing
        /\ \A q \in Tui \ {t} :
             store'[q] = store[q] /\ pc'[q] = pc[q] /\ incoming'[q] = incoming[q]
    BY <1>8 DEF Inv, TerminalsTyped
  <2>5. outgoing[t] = {}
    BY <1>3 DEF Inv, WorkOK
  <2>6. WorkOK(t)
    BY DEF Inv
  <2>7. WorkOK(t)'
    BY <1>1, <1>3, <2>1, <2>4, <2>5, <2>6 DEF WorkOK, Arrived
  <2> QED BY <1>1, <2>2, <2>3, <2>4, <2>7, TerminalActs
<1> QED BY <1>2, <1>7, <1>8

LEMMA StopInHydrateKeeps == ASSUME Inv, NEW t \in Tui, StopInHydrate(t) PROVE Inv' /\ RecallsStay
<1>1. Remembers /\ GatewayTyped' /\ RelayArrived' /\ composed' = composed
  BY GatewayStands DEF StopInHydrate
<1>2. PICK i \in First(DOMAIN incoming[t]), edited \in BOOLEAN :
        store' = [store EXCEPT ![t] =
                    Mark(Merge(store[t], Shown(incoming[t][i]), FALSE), incoming[t][i].id,
                         edited, FALSE)]
  BY DEF StopInHydrate
<1>3. pc[t] = "hydrate" /\ Ends(t)
  BY DEF StopInHydrate
<1> DEFINE marked == Mark(Merge(store[t], Shown(incoming[t][i]), FALSE), incoming[t][i].id,
                          edited, FALSE)
           id == incoming[t][i].id
<1>4. id \in Ids(timeline) \cup refused
  BY <1>2, FetchedMessage
<1>5. MergedInto(store[t], marked, id, FALSE)
  BY <1>2, <1>3, HydratedStore
<1>6. store' = [store EXCEPT ![t] = marked]
  BY <1>2
<1> HIDE DEF marked, id
<1> QED BY <1>1, <1>3, <1>4, <1>5, <1>6, MergedAndEnded

LEMMA StopKeeps == ASSUME Inv, NEW t \in Tui, Stop(t) PROVE Inv' /\ RecallsStay
<1>1. Remembers /\ GatewayTyped' /\ RelayArrived' /\ composed' = composed /\ store' = store
  BY GatewayStands DEF Stop
<1>2. StoresOK' /\ RecallsStay
  BY <1>1, StoresStay
<1>3. Ends(t)
  BY DEF Stop
<1>4. TerminalsTyped'
  BY <1>1, <1>3, EndsWell DEF Inv, TerminalsTyped
<1> QED BY <1>1, <1>2, <1>3, <1>4, EndsWell, TerminalActs

\* What is recovered comes from the relay.
LEMMA RecoveredPage ==
  ASSUME Inv, NEW t \in Tui
  PROVE  /\ Recoverable(t) \subseteq DOMAIN relay
         /\ DOMAIN relay \subseteq Nat \ {0}
         /\ \A i \in DOMAIN relay : relay[i] \in Message
         /\ NextCursor(t, Recoverable(t)) \subseteq {NoCursor} \cup 0..MaxTime
<1>1. Recoverable(t) \subseteq DOMAIN relay
  BY DEF Recoverable
<1>2. DOMAIN relay \subseteq Nat \ {0} /\ \A i \in DOMAIN relay : relay[i] \in Message
  BY DEF Inv, GatewayTyped
<1>3. cursor[t] \in {NoCursor} \cup 0..MaxTime
  BY DEF Inv, TerminalsTyped
<1>4. \A i \in DOMAIN relay : relay[i].time \in 0..MaxTime
  BY <1>2 DEF Message
<1> QED BY <1>1, <1>2, <1>3, <1>4 DEF NextCursor, Final

\* Republishing begins with what is pending then.
LEMMA RepublishBegins ==
  ASSUME Inv, NEW t \in Tui, NEW s, Republish(t, s)
  PROVE  /\ pc' \in [Tui -> Location] /\ DOMAIN outgoing' = Tui
         /\ pc'[t] \in {"loop", "republish"}
         /\ \A i \in outgoing'[t] : i \in DOMAIN s /\ s[i].pending
         /\ pc'[t] # "republish" => outgoing'[t] = {}
         /\ \A q \in Tui \ {t} : pc'[q] = pc[q] /\ outgoing'[q] = outgoing[q]
BY DEF Inv, TerminalsTyped, Republish, Pending, Location

LEMMA PollFailsKeeps == ASSUME Inv, NEW t \in Tui, PollFails(t) PROVE Inv' /\ RecallsStay
<1>1. /\ Remembers /\ GatewayTyped' /\ RelayArrived' /\ composed' = composed
      /\ store' = store /\ pc' = pc /\ incoming' = incoming /\ outgoing' = outgoing
  BY GatewayStands DEF PollFails
<1>2. StoresOK' /\ RecallsStay
  BY <1>1, StoresStay
<1>3. PICK next \in NextCursor(t, Recoverable(t)) : cursor' = [cursor EXCEPT ![t] = next]
  BY DEF PollFails
<1>4. next \in {NoCursor} \cup 0..MaxTime
  BY <1>3, RecoveredPage
<1>5. TerminalsTyped'
  BY <1>1, <1>3, <1>4 DEF Inv, TerminalsTyped
<1>6. WorkOK(t)'
  BY <1>1, OthersStand
<1> QED BY <1>1, <1>2, <1>5, <1>6, TerminalActs

LEMMA PollKeeps == ASSUME Inv, NEW t \in Tui, Poll(t) PROVE Inv' /\ RecallsStay
<1> DEFINE page == Recoverable(t)
           frames == Restrict(relay, page)
<1>1. /\ Remembers /\ GatewayTyped' /\ RelayArrived' /\ composed' = composed /\ store' = store
      /\ timeline' = timeline /\ refused' = refused
  BY GatewayStands DEF Poll, counters, gateway, history
<1>2. StoresOK' /\ RecallsStay
  BY <1>1, StoresStay
<1>3. PICK next \in NextCursor(t, page) : cursor' = [cursor EXCEPT ![t] = next]
  BY DEF Poll
<1>4. next \in {NoCursor} \cup 0..MaxTime
  BY <1>3, RecoveredPage
<1>5. /\ DOMAIN frames = page
      /\ \A i \in page : frames[i] = relay[i]
  BY DEF Restrict
<1>6. /\ incoming' = [incoming EXCEPT ![t] = frames] /\ pc[t] = "loop"
      /\ \/ page = {} /\ Republish(t, store[t])
         \/ pc' = [pc EXCEPT ![t] = "merge"] /\ outgoing' = outgoing
  BY DEF Poll
<1> HIDE DEF frames
<1>7. /\ DOMAIN incoming' = Tui /\ incoming'[t] = frames
      /\ \A q \in Tui \ {t} : incoming'[q] = incoming[q]
  BY <1>6 DEF Inv, TerminalsTyped
<1>8. outgoing[t] = {}
  BY <1>6 DEF Inv, WorkOK
<1>9. /\ pc' \in [Tui -> Location] /\ DOMAIN outgoing' = Tui
      /\ pc'[t] \in {"loop", "republish", "merge"}
      /\ \A i \in outgoing'[t] : i \in DOMAIN store[t] /\ store[t][i].pending
      /\ pc'[t] # "republish" => outgoing'[t] = {}
      /\ \A q \in Tui \ {t} : pc'[q] = pc[q] /\ outgoing'[q] = outgoing[q]
  <2>1. CASE page = {} /\ Republish(t, store[t])
    BY <2>1, RepublishBegins
  <2>2. CASE pc' = [pc EXCEPT ![t] = "merge"] /\ outgoing' = outgoing
    BY <1>8, <2>2 DEF Inv, TerminalsTyped, Location
  <2> QED BY <1>6, <2>1, <2>2
<1>10. TerminalsTyped'
  BY <1>1, <1>3, <1>4, <1>7, <1>9 DEF Inv, TerminalsTyped
<1>11. /\ page \subseteq DOMAIN relay /\ page \subseteq Nat \ {0}
       /\ \A i \in page : relay[i] \in Message
       /\ \A i \in page : relay[i].id \in Ids(timeline) \cup refused
  BY RecoveredPage DEF Inv, RelayArrived, Arrived
<1>12. WorkOK(t)'
  BY <1>1, <1>5, <1>7, <1>9, <1>11 DEF WorkOK, Arrived
<1>13. \A q \in Tui \ {t} : /\ store'[q] = store[q] /\ pc'[q] = pc[q]
                            /\ incoming'[q] = incoming[q] /\ outgoing'[q] = outgoing[q]
  BY <1>1, <1>7, <1>9
<1> HIDE DEF page
<1> QED BY <1>1, <1>2, <1>10, <1>12, <1>13, TerminalActs

LEMMA MergeNextKeeps == ASSUME Inv, NEW t \in Tui, MergeNext(t) PROVE Inv' /\ RecallsStay
<1>1. /\ Remembers /\ GatewayTyped' /\ RelayArrived' /\ composed' = composed
      /\ timeline' = timeline /\ refused' = refused /\ cursor' = cursor
  BY GatewayStands DEF MergeNext, counters, gateway, history
<1>2. PICK i \in First(DOMAIN incoming[t]) :
        LET rest   == Without(incoming[t], i)
            merged == Merge(store[t], incoming[t][i], FALSE)
        IN /\ store' = [store EXCEPT ![t] = merged]
           /\ incoming' = [incoming EXCEPT ![t] = rest]
           /\ IF DOMAIN rest = {} THEN Republish(t, merged) ELSE UNCHANGED <<pc, outgoing>>
  BY DEF MergeNext
<1>3. pc[t] = "merge"
  BY DEF MergeNext
<1> DEFINE frame  == incoming[t][i]
           rest   == Without(incoming[t], i)
           merged == Merge(store[t], frame, FALSE)
<1>4. /\ frame.id \in Id /\ frame.text \in Text /\ frame.time \in 0..MaxTime
      /\ frame.id \in Ids(timeline) \cup refused
  BY <1>2, <1>3, FetchedMessage DEF Message
<1>5. store[t] \in Seq(LocalEntry)
  BY DEF Inv, TerminalsTyped
<1>6. MergedInto(store[t], merged, frame.id, FALSE)
  BY <1>4, <1>5, MergeMerges
<1>7. /\ store' = [store EXCEPT ![t] = merged]
      /\ incoming' = [incoming EXCEPT ![t] = rest]
      /\ \/ DOMAIN rest = {} /\ Republish(t, merged)
         \/ pc' = pc /\ outgoing' = outgoing
  BY <1>2
<1>8. /\ DOMAIN rest = DOMAIN incoming[t] \ {i}
      /\ \A j \in DOMAIN rest : rest[j] = incoming[t][j]
  BY RestOf
<1> HIDE DEF merged, rest
<1>9. StoresOK' /\ RecallsStay /\ store' \in [Tui -> Seq(LocalEntry)]
  BY <1>1, <1>4, <1>6, <1>7, StoreMoves
<1>10. /\ DOMAIN incoming' = Tui /\ incoming'[t] = rest /\ store'[t] = merged
       /\ \A q \in Tui \ {t} : store'[q] = store[q] /\ incoming'[q] = incoming[q]
  BY <1>7 DEF Inv, TerminalsTyped
<1>11. WorkOK(t)
  BY DEF Inv
<1>12. /\ pc' \in [Tui -> Location] /\ DOMAIN outgoing' = Tui
       /\ pc'[t] \in {"loop", "republish", "merge"}
       /\ \A j \in outgoing'[t] : j \in DOMAIN merged /\ merged[j].pending
       /\ pc'[t] # "republish" => outgoing'[t] = {}
       /\ \A q \in Tui \ {t} : pc'[q] = pc[q] /\ outgoing'[q] = outgoing[q]
  <2>1. CASE Republish(t, merged)
    BY <2>1, RepublishBegins
  <2>2. CASE pc' = pc /\ outgoing' = outgoing
    BY <1>3, <1>11, <2>2 DEF Inv, TerminalsTyped, WorkOK
  <2> QED BY <1>7, <2>1, <2>2
<1>13. TerminalsTyped'
  BY <1>1, <1>9, <1>10, <1>12 DEF Inv, TerminalsTyped
<1>14. WorkOK(t)'
  BY <1>1, <1>3, <1>8, <1>10, <1>11, <1>12 DEF WorkOK, Arrived
<1> QED BY <1>1, <1>9, <1>10, <1>12, <1>13, <1>14, TerminalActs

LEMMA ComposeKeeps == ASSUME Inv, NEW t \in Tui, Compose(t) PROVE Inv' /\ RecallsStay
<1> DEFINE id == <<t, now>>
           message == [id |-> id, text |-> "original", time |-> now]
           merged == Merge(store[t], message, TRUE)
<1>1. id \in Id /\ id[1] = t /\ message.id = id /\ message.text \in Text
      /\ message.time \in 0..MaxTime
  BY TuiSyncConstants DEF Inv, GatewayTyped, Id, Text
<1>2. store[t] \in Seq(LocalEntry)
  BY DEF Inv, TerminalsTyped
<1>3. /\ pc[t] = "loop"
      /\ store' = [store EXCEPT ![t] = merged]
      /\ outgoing' = [outgoing EXCEPT ![t] = {i \in DOMAIN merged : merged[i].id = id}]
      /\ pc' = [pc EXCEPT ![t] = "send"]
      /\ composed' = composed \cup {id}
      /\ UNCHANGED <<now, gateway, incoming, cursor, refused, counters>>
  BY <1>1 DEF Compose
<1> HIDE DEF message
<1>4. MergedInto(store[t], merged, message.id, TRUE)
  BY <1>1, <1>2, MergeMerges
<1>5. MergedInto(store[t], merged, id, TRUE)
  BY <1>1, <1>4
<1> HIDE DEF merged, id
<1>6. Remembers /\ GatewayTyped' /\ RelayArrived'
  BY <1>1, <1>3 DEF Inv, GatewayTyped, RelayArrived, Arrived, Remembers, gateway, counters
<1>7. StoresOK' /\ RecallsStay /\ store' \in [Tui -> Seq(LocalEntry)]
  BY <1>1, <1>3, <1>5, <1>6, StoreMoves
<1>8. TerminalsTyped'
  BY <1>3, <1>7 DEF Inv, TerminalsTyped, Location
<1>9. /\ pc'[t] = "send" /\ outgoing'[t] = {i \in DOMAIN merged : merged[i].id = id}
      /\ store'[t] = merged /\ incoming' = incoming /\ timeline' = timeline /\ refused' = refused
      /\ \A q \in Tui \ {t} :
           store'[q] = store[q] /\ pc'[q] = pc[q] /\ outgoing'[q] = outgoing[q]
  BY <1>3 DEF Inv, TerminalsTyped, gateway
<1>10. \A i \in outgoing'[t] : i \in DOMAIN merged /\ merged[i].pending
  BY <1>5, <1>9 DEF MergedInto
<1>11. WorkOK(t)
  BY DEF Inv
<1>12. WorkOK(t)'
  BY <1>9, <1>10, <1>11 DEF WorkOK, Arrived
<1> QED BY <1>6, <1>7, <1>8, <1>9, <1>12, TerminalActs

----------------------------------------------------------------------------
(* Publishing *)

\* The entry that is sent was typed and is a message.
LEMMA OutgoingEntry ==
  ASSUME Inv, NEW t \in Tui, NEW i \in outgoing[t]
  PROVE  /\ i \in DOMAIN store[t] /\ store[t][i] \in LocalEntry
         /\ store[t][i].id \in composed
         /\ Frame(store[t][i]) \in Message /\ Frame(store[t][i]).id = store[t][i].id
<1>1. i \in DOMAIN store[t] /\ store[t][i].pending /\ store[t] \in Seq(LocalEntry)
  BY DEF Inv, WorkOK, TerminalsTyped
<1>2. store[t][i] \in LocalEntry
  BY <1>1
<1>3. store[t][i].id \in composed
  BY <1>1 DEF Inv, StoresOK, PendingTyped
<1> QED BY <1>1, <1>2, <1>3, FrameTyped

\* The gateway's part of a publish: accepted, not received, or refused.
LEMMA PublishReaches ==
  ASSUME Inv, NEW t \in Tui, NEW i \in outgoing[t],
         \/ Accept(Frame(store[t][i])) /\ refused' = refused
         \/ UNCHANGED gateway /\ refused' = refused
         \/ /\ relay' = Append(relay, Frame(store[t][i])) /\ timeline' = timeline
            /\ refused' = refused \cup {store[t][i].id},
         now' = now, composed' = composed, webs' = webs, amends' = amends,
         lost' = lost \/ (lost < MaxLost /\ lost' = lost + 1)
  PROVE  Remembers /\ GatewayTyped' /\ RelayArrived'
<1> DEFINE frame == Frame(store[t][i])
           id == store[t][i].id
<1>1. frame \in Message /\ frame.id = id /\ id \in composed
  BY OutgoingEntry
<1> HIDE DEF frame
<1>2. lost' \in 0..MaxLost
  BY TuiSyncConstants DEF Inv, GatewayTyped
<1>3. CASE Accept(frame) /\ refused' = refused
  BY <1>1, <1>2, <1>3, AcceptArrives DEF Inv, GatewayTyped
<1>4. CASE UNCHANGED gateway /\ refused' = refused
  BY <1>2, <1>4 DEF Inv, GatewayTyped, RelayArrived, Arrived, Remembers, gateway
<1>5. CASE /\ relay' = Append(relay, frame) /\ timeline' = timeline
           /\ refused' = refused \cup {id}
  <2>1. relay \in Seq(Message)
    BY DEF Inv, GatewayTyped
  <2>2. /\ relay' \in Seq(Message) /\ DOMAIN relay' = 1..(Len(relay) + 1)
        /\ DOMAIN relay = 1..Len(relay) /\ Len(relay) \in Nat
        /\ \A j \in DOMAIN relay : relay'[j] = relay[j]
        /\ relay'[Len(relay) + 1] = frame
    BY <1>1, <1>5, <2>1
  <2>3. GatewayTyped' /\ Remembers
    BY <1>1, <1>2, <1>5, <2>2 DEF Inv, GatewayTyped, Remembers
  <2>4. ASSUME NEW j \in DOMAIN relay'
        PROVE  relay'[j].id \in Ids(timeline') \cup refused'
    <3>1. CASE j \in DOMAIN relay
      BY <1>5, <2>2, <3>1 DEF Inv, RelayArrived, Arrived
    <3>2. CASE j = Len(relay) + 1
      BY <1>1, <1>5, <2>2, <3>2
    <3> QED BY <2>2, <3>1, <3>2
  <2> QED BY <2>3, <2>4 DEF RelayArrived, Arrived
<1> QED BY <1>3, <1>4, <1>5 DEF frame

\* Not answered: the round is over and the store as it was.
LEMMA UndeliveredKeeps ==
  ASSUME Inv, NEW t \in Tui, NEW i, Publishing(t, i), Undelivered(t, i), Remembers, GatewayTyped',
         RelayArrived', composed' = composed, incoming' = incoming, cursor' = cursor
  PROVE  Inv' /\ RecallsStay
<1>1. /\ store' = store /\ outgoing' = [outgoing EXCEPT ![t] = {}]
      /\ pc' = [pc EXCEPT ![t] = "loop"]
  BY DEF Undelivered
<1>2. StoresOK' /\ RecallsStay
  BY <1>1, StoresStay
<1>3. TerminalsTyped'
  BY <1>1 DEF Inv, TerminalsTyped, Location
<1>4. /\ pc'[t] = "loop" /\ outgoing'[t] = {}
      /\ \A q \in Tui \ {t} : pc'[q] = pc[q] /\ outgoing'[q] = outgoing[q]
  BY <1>1 DEF Inv, TerminalsTyped
<1>5. WorkOK(t)
  BY DEF Inv
<1>6. WorkOK(t)'
  BY <1>1, <1>4, <1>5 DEF WorkOK, Arrived, Remembers
<1> QED BY <1>1, <1>2, <1>3, <1>4, <1>6, TerminalActs

LEMMA PublishLostKeeps == ASSUME Inv, NEW t \in Tui, PublishLost(t) PROVE Inv' /\ RecallsStay
<1>1. PICK i \in outgoing[t] :
        /\ Publishing(t, i)
        /\ Accept(Frame(store[t][i])) \/ UNCHANGED gateway
        /\ Undelivered(t, i)
  BY DEF PublishLost
<1>2. /\ lost < MaxLost /\ lost' = lost + 1 /\ now' = now /\ incoming' = incoming
      /\ cursor' = cursor /\ composed' = composed /\ refused' = refused
      /\ webs' = webs /\ amends' = amends
  BY DEF PublishLost, history
<1>3. Remembers /\ GatewayTyped' /\ RelayArrived'
  BY <1>1, <1>2, PublishReaches
<1> QED BY <1>1, <1>2, <1>3, UndeliveredKeeps

LEMMA PublishRefusedKeeps == ASSUME Inv, NEW t \in Tui, PublishRefused(t) PROVE Inv' /\ RecallsStay
<1>1. PICK i \in outgoing[t] :
        /\ Publishing(t, i)
        /\ relay' = Append(relay, Frame(store[t][i]))
        /\ refused' = refused \cup {store[t][i].id}
        /\ Undelivered(t, i)
  BY DEF PublishRefused
<1>2. /\ lost < MaxLost /\ lost' = lost + 1 /\ now' = now /\ incoming' = incoming
      /\ cursor' = cursor /\ composed' = composed /\ timeline' = timeline
      /\ webs' = webs /\ amends' = amends
  BY DEF PublishRefused
<1>3. Remembers /\ GatewayTyped' /\ RelayArrived'
  BY <1>1, <1>2, PublishReaches
<1> QED BY <1>1, <1>2, <1>3, UndeliveredKeeps

LEMMA StopInPublishKeeps == ASSUME Inv, NEW t \in Tui, StopInPublish(t) PROVE Inv' /\ RecallsStay
<1>1. PICK i \in outgoing[t] : Publishing(t, i) /\ Accept(Frame(store[t][i]))
  BY DEF StopInPublish
<1>2. /\ lost < MaxLost /\ lost' = lost + 1 /\ now' = now /\ store' = store
      /\ composed' = composed /\ refused' = refused /\ webs' = webs /\ amends' = amends
      /\ Ends(t)
  BY DEF StopInPublish, history
<1>3. Remembers /\ GatewayTyped' /\ RelayArrived'
  BY <1>1, <1>2, PublishReaches
<1>4. StoresOK' /\ RecallsStay
  BY <1>2, <1>3, StoresStay
<1>5. TerminalsTyped'
  BY <1>2, EndsWell DEF Inv, TerminalsTyped
<1> QED BY <1>2, <1>3, <1>4, <1>5, EndsWell, TerminalActs

LEMMA PublishKeeps == ASSUME Inv, NEW t \in Tui, Publish(t) PROVE Inv' /\ RecallsStay
<1>1. PICK i \in outgoing[t] :
        /\ Publishing(t, i)
        /\ Accept(Frame(store[t][i]))
        /\ Delivered(t, i)
  BY DEF Publish
<1>2. /\ now' = now /\ incoming' = incoming /\ cursor' = cursor /\ composed' = composed
      /\ refused' = refused /\ webs' = webs /\ amends' = amends /\ lost' = lost
  BY DEF Publish, history, counters
<1>3. Remembers /\ GatewayTyped' /\ RelayArrived'
  BY <1>1, <1>2, PublishReaches
<1> DEFINE entry == store[t][i]
           merged == Merge(store[t], entry, FALSE)
<1>4. /\ i \in DOMAIN store[t] /\ entry \in LocalEntry
      /\ Frame(entry) \in Message /\ Frame(entry).id = entry.id
  BY <1>1, OutgoingEntry
<1>5. store[t] \in Seq(LocalEntry)
  BY DEF Inv, TerminalsTyped
<1>6. entry.id \in Id /\ entry.text \in Text /\ entry.time \in 0..MaxTime
  BY <1>4 DEF LocalEntry
<1>7. entry.id \in Ids(timeline')
  BY <1>1, <1>2, <1>4, AcceptArrives
<1>8. /\ store' = [store EXCEPT ![t] = merged]
      /\ outgoing' = [outgoing EXCEPT ![t] = outgoing[t] \ {i}]
      /\ pc' = [pc EXCEPT ![t] = IF outgoing[t] = {i} THEN "loop" ELSE pc[t]]
  BY <1>1 DEF Delivered
<1>9. \A j \in outgoing[t] \ {i} : j \in DOMAIN store[t] /\ store[t][j].pending
                                   /\ store[t][j].id # entry.id
  BY <1>4 DEF Inv, WorkOK, StoresOK, OneCopyInStore
<1>10. WorkOK(t) /\ pc[t] \in {"republish", "send"}
  BY <1>1 DEF Inv, Publishing
<1> HIDE DEF entry
<1>11. MergedInto(store[t], merged, entry.id, FALSE)
  BY <1>5, <1>6, MergeMerges
<1> HIDE DEF merged
<1>12. StoresOK' /\ RecallsStay /\ store' \in [Tui -> Seq(LocalEntry)]
  BY <1>2, <1>3, <1>7, <1>8, <1>11, StoreMoves
<1>13. TerminalsTyped'
  BY <1>2, <1>8, <1>12 DEF Inv, TerminalsTyped, Location
<1>14. /\ store'[t] = merged /\ outgoing'[t] = outgoing[t] \ {i}
       /\ pc'[t] = (IF outgoing[t] = {i} THEN "loop" ELSE pc[t])
       /\ \A q \in Tui \ {t} :
            store'[q] = store[q] /\ pc'[q] = pc[q] /\ outgoing'[q] = outgoing[q]
  BY <1>8 DEF Inv, TerminalsTyped
<1>15. \A j \in outgoing'[t] : j \in DOMAIN merged /\ merged[j].pending
  BY <1>9, <1>11, <1>14 DEF MergedInto
<1>16. /\ pc'[t] \in {"loop", "republish", "send"}
       /\ pc'[t] \notin {"republish", "send"} => outgoing'[t] = {}
  BY <1>10, <1>14
<1>17. WorkOK(t)'
  BY <1>2, <1>3, <1>10, <1>14, <1>15, <1>16 DEF WorkOK, Arrived, Remembers
<1> QED BY <1>2, <1>3, <1>12, <1>13, <1>14, <1>17, TerminalActs

----------------------------------------------------------------------------
(* The theorems *)

LEMMA InitHolds == Init => Inv
<1> SUFFICES ASSUME Init PROVE Inv
  OBVIOUS
<1>1. DOMAIN <<>> = {} /\ <<>> \in Seq(Message) /\ <<>> \in Seq(GatewayEntry)
      /\ <<>> \in Seq(LocalEntry)
  OBVIOUS
<1>2. GatewayTyped
  BY <1>1, TuiSyncConstants DEF Init, GatewayTyped
<1>3. TerminalsTyped
  BY <1>1 DEF Init, TerminalsTyped, Location
<1>4. \A t \in Tui : WorkOK(t)
  BY <1>1 DEF Init, WorkOK, Nothing
<1>5. RelayArrived
  BY <1>1 DEF Init, RelayArrived
<1>6. StoresOK
  BY <1>1 DEF Init, StoresOK, OneCopyInStore, PendingTyped, TypedHere, NothingDropped
<1> QED BY <1>2, <1>3, <1>4, <1>5, <1>6 DEF Inv

LEMMA StutterHolds == ASSUME Inv, UNCHANGED vars PROVE Inv' /\ RecallsStay
<1>1. Remembers /\ UNCHANGED terminal /\ composed' = composed
  BY DEF vars, Remembers, terminal
<1>2. GatewayTyped' /\ RelayArrived'
  BY DEF Inv, GatewayTyped, RelayArrived, Arrived, vars
<1> QED BY <1>1, <1>2, TerminalsStand

LEMMA StepHolds == Inv /\ [Next]_vars => Inv' /\ RecallsStay
<1> SUFFICES ASSUME Inv, [Next]_vars PROVE Inv' /\ RecallsStay
  OBVIOUS
<1>1. ASSUME NEW t \in Tui,
             \/ Start(t) \/ HydrateNext(t) \/ StopInHydrate(t) \/ Stop(t)
             \/ Poll(t) \/ PollFails(t) \/ MergeNext(t) \/ Compose(t)
             \/ Publish(t) \/ PublishLost(t) \/ StopInPublish(t) \/ PublishRefused(t)
      PROVE  Inv' /\ RecallsStay
  BY <1>1, StartKeeps, HydrateNextKeeps, StopInHydrateKeeps, StopKeeps, PollKeeps,
     PollFailsKeeps, MergeNextKeeps, ComposeKeeps, PublishKeeps, PublishLostKeeps,
     StopInPublishKeeps, PublishRefusedKeeps
<1>2. CASE \E w \in Web : WebSend(w)
  BY <1>2, WebSendKeeps
<1>3. CASE \E i \in DOMAIN timeline : EditMessage(i) \/ RecallMessage(i)
  BY <1>3, EditKeeps, RecallKeeps
<1>4. CASE GatewayRestart \/ Tick
  BY <1>4, GatewayRestartKeeps, TickKeeps
<1>5. CASE UNCHANGED vars
  BY <1>5, StutterHolds
<1> QED BY <1>1, <1>2, <1>3, <1>4, <1>5 DEF Next

LEMMA InvHolds == Spec => []Inv
BY InitHolds, StepHolds, PTL DEF Spec

\* The stores, the relay and the timeline hold messages, a terminal sends what
\* its store has, and only messages typed here are refused.
THEOREM TypeCorrect == Spec => []TypeOK
<1>1. Inv => TypeOK
  <2> SUFFICES ASSUME Inv PROVE TypeOK
    OBVIOUS
  <2>1. ASSUME NEW t \in Tui
        PROVE  /\ DOMAIN incoming[t] \subseteq Nat \ {0}
               /\ pc[t] = "hydrate" => Range(incoming[t]) \subseteq GatewayEntry
               /\ pc[t] = "merge" => Range(incoming[t]) \subseteq Message
               /\ outgoing[t] \subseteq DOMAIN store[t]
    BY DEF Inv, WorkOK, Range
  <2> QED BY <2>1 DEF Inv, GatewayTyped, TerminalsTyped, TypeOK
<1> QED BY <1>1, InvHolds, PTL

\* However often a message is polled, hydrated, merged or sent again, for any
\* terminals and failures, a terminal's store holds it once.
THEOREM StoresHoldItOnce == Spec => []OneCopyInStore
<1>1. Inv => OneCopyInStore
  BY DEF Inv, StoresOK
<1> QED BY <1>1, InvHolds, PTL

\* No lost request or reply, stop or restart drops what was typed: until the
\* gateway's timeline has it, it is in the store to be sent, unless a publish
\* was refused after the relay had taken the frame.
THEOREM TypedIsKept == Spec => []NothingDropped
<1>1. Inv => NothingDropped
  BY DEF Inv, StoresOK
<1> QED BY <1>1, InvHolds, PTL

\* A recall that a terminal has seen sticks, whatever older frame or snapshot of
\* the message is merged afterwards.
THEOREM RecallsAreFinal == Spec => RecallSticks
<1>1. Inv /\ [Next]_vars =>
        [\A t \in Tui : \A i \in DOMAIN store[t] :
           store[t][i].recalled => store'[t][i].recalled]_vars
  BY StepHolds DEF RecallsStay
<1> QED BY <1>1, InvHolds, PTL DEF Spec, RecallSticks

----------------------------------------------------------------------------
(* The outbox *)

\* What waits changes only with the store and with what was typed.
LEMMA NothingMoves ==
  ASSUME store' = store, composed' = composed, refused' = refused,
         \A id : id[1] \in Tui => (id \in Ids(timeline') <=> id \in Ids(timeline))
  PROVE  UNCHANGED Box!vars
<1>1. Waiting' = Waiting
  BY DEF Waiting
<1>2. {id \in Ids(timeline') : id[1] \in Tui} = {id \in Ids(timeline) : id[1] \in Tui}
  OBVIOUS
<1> QED BY <1>1, <1>2 DEF Box!vars

\* A message is merged into the store of one terminal.
LEMMA WaitingMoves ==
  ASSUME Inv, NEW t \in Tui, NEW s, NEW id, NEW pending \in BOOLEAN,
         MergedInto(store[t], s, id, pending),
         store' = [store EXCEPT ![t] = s],
         composed' = IF pending THEN composed \cup {id} ELSE composed,
         pending => id[1] = t
  PROVE  Waiting' = IF pending THEN Waiting \cup {id}
                    ELSE IF id[1] = t THEN Waiting \ {id} ELSE Waiting
<1> DEFINE Waits(st, x) == \E i \in DOMAIN st[x[1]] : st[x[1]][i].id = x /\ st[x[1]][i].pending
<1>1. store'[t] = s /\ \A q \in Tui \ {t} : store'[q] = store[q]
  BY DEF Inv, TerminalsTyped
<1>2. \A x \in composed' : x[1] \in Tui
  BY DEF Inv, StoresOK, TypedHere
<1>3. ASSUME NEW x, x[1] \in Tui, x # id \/ x[1] # t
      PROVE  Waits(store', x) <=> Waits(store, x)
  <2>1. CASE x[1] # t
    BY <1>1, <1>3, <2>1
  <2>2. CASE x[1] = t
    <3>1. \A i \in DOMAIN store[t] :
            store[t][i].id = x => /\ i \in DOMAIN s /\ s[i].id = x
                                  /\ s[i].pending <=> store[t][i].pending
      BY <1>3, <2>2 DEF MergedInto
    <3>2. \A i \in DOMAIN s : s[i].id = x => i \in DOMAIN store[t] /\ store[t][i].id = x
      BY <1>3, <2>2 DEF MergedInto
    <3> QED BY <1>1, <2>2, <3>1, <3>2
  <2> QED BY <2>1, <2>2
<1>4. ASSUME id[1] = t PROVE Waits(store', id) <=> pending
  BY <1>1, <1>4 DEF MergedInto
<1>5. Waiting = {x \in composed : Waits(store, x)}
  BY DEF Waiting
<1>6. Waiting' = {x \in composed' : Waits(store', x)}
  BY DEF Waiting
<1> HIDE DEF Waits
<1>7. CASE pending
  BY <1>2, <1>3, <1>4, <1>5, <1>6, <1>7
<1>8. CASE ~pending
  BY <1>2, <1>3, <1>4, <1>5, <1>6, <1>8
<1> QED BY <1>7, <1>8

\* What has arrived is merged: the message settles, if it waited at all.
LEMMA MergeSettles ==
  ASSUME Inv, NEW t \in Tui, NEW s, NEW id, MergedInto(store[t], s, id, FALSE),
         store' = [store EXCEPT ![t] = s], composed' = composed, refused' = refused,
         timeline' = timeline, id \in Ids(timeline) \cup refused
  PROVE  [Box!Next]_(Box!vars)
<1>1. Waiting' \in {Waiting, Waiting \ {id}}
  BY WaitingMoves
<1> DEFINE told == {x \in Ids(timeline) : x[1] \in Tui}
<1>2. told' = told
  OBVIOUS
<1>3. CASE Waiting' = Waiting
  BY <1>2, <1>3 DEF Box!vars
<1>4. CASE Waiting' # Waiting
  <2>1. id \in composed /\ Waiting' = Waiting \ {id}
    BY <1>1, <1>4 DEF Waiting
  <2>2. id \in Id /\ id[1] \in Tui
    BY <2>1 DEF Inv, GatewayTyped, StoresOK, TypedHere
  <2>3. id \in told \cup refused
    BY <2>2
  <2> HIDE DEF told
  <2>4. Box!Settle(id)
    BY <1>2, <2>1, <2>3 DEF Box!Settle, told
  <2> QED BY <2>2, <2>4 DEF Box!Next
<1> QED BY <1>3, <1>4

\* What is published waits.
LEMMA OutgoingWaits ==
  ASSUME Inv, NEW t \in Tui, NEW i \in outgoing[t]
  PROVE  /\ store[t][i].id \in Waiting /\ store[t][i].id \in Id
         /\ store[t][i].id[1] = t
<1>1. i \in DOMAIN store[t] /\ store[t][i].pending
  BY DEF Inv, WorkOK
<1>2. store[t][i].id \in composed /\ store[t][i].id[1] = t
  BY <1>1 DEF Inv, StoresOK, PendingTyped
<1> QED BY <1>1, <1>2 DEF Waiting, Inv, GatewayTyped

\* The timeline gets what is accepted and nothing else.
LEMMA AcceptTells ==
  ASSUME Inv, NEW message \in Message, Accept(message)
  PROVE  Ids(timeline') = Ids(timeline) \cup {message.id}
<1> DEFINE entry == InTimeline(message)
<1>1. timeline \in Seq(GatewayEntry) /\ timeline' = Append(timeline, entry)
  BY DEF Inv, GatewayTyped, Accept
<1>2. entry.id = message.id /\ entry \in GatewayEntry
  BY DEF InTimeline, Message, GatewayEntry
<1> HIDE DEF entry
<1>3. /\ DOMAIN timeline = 1..Len(timeline) /\ DOMAIN timeline' = 1..(Len(timeline) + 1)
      /\ Len(timeline) \in Nat
      /\ \A i \in DOMAIN timeline : timeline'[i] = timeline[i]
      /\ timeline'[Len(timeline) + 1] = entry
  BY <1>1, <1>2
<1>4. DOMAIN timeline' = DOMAIN timeline \cup {Len(timeline) + 1}
  BY <1>3
<1> QED BY <1>2, <1>3, <1>4 DEF Ids

\* A publish that the gateway accepts delivers a waiting message, whether the
\* terminal hears of it or not.
LEMMA AcceptDelivers ==
  ASSUME Inv, NEW t \in Tui, NEW i \in outgoing[t], Accept(Frame(store[t][i])),
         composed' = composed, refused' = refused,
         Waiting' \in {Waiting, Waiting \ {store[t][i].id}}
  PROVE  Box!Next
<1>1. PICK m \in Id : m = store[t][i].id /\ m \in Waiting /\ m[1] \in Tui
  BY OutgoingWaits
<1>2. Ids(timeline') = Ids(timeline) \cup {m}
  BY <1>1, OutgoingEntry, AcceptTells
<1>3. {x \in Ids(timeline') : x[1] \in Tui} = {x \in Ids(timeline) : x[1] \in Tui} \cup {m}
  BY <1>1, <1>2
<1>4. Box!Deliver(m)
  BY <1>1, <1>3 DEF Box!Deliver
<1> QED BY <1>4 DEF Box!Next

\* An amended entry keeps its id.
LEMMA AmendTells ==
  ASSUME Inv, NEW i \in DOMAIN timeline, NEW entry, entry.id = timeline[i].id,
         AmendEntry(i, entry)
  PROVE  Ids(timeline') = Ids(timeline)
<1>1. timeline \in Seq(GatewayEntry) /\ timeline' = [timeline EXCEPT ![i] = entry]
  BY DEF Inv, GatewayTyped, AmendEntry
<1>2. DOMAIN timeline' = DOMAIN timeline /\ \A j \in DOMAIN timeline : timeline'[j].id = timeline[j].id
  BY <1>1
<1> QED BY <1>2 DEF Ids

\* A step of one terminal is a step of the outbox.
LEMMA TerminalMaps ==
  ASSUME Inv, NEW t \in Tui,
         \/ Start(t) \/ HydrateNext(t) \/ StopInHydrate(t) \/ Stop(t)
         \/ Poll(t) \/ PollFails(t) \/ MergeNext(t) \/ Compose(t)
         \/ Publish(t) \/ PublishLost(t) \/ StopInPublish(t) \/ PublishRefused(t)
  PROVE  [Box!Next]_(Box!vars)
<1>1. CASE Start(t) \/ Stop(t) \/ Poll(t) \/ PollFails(t)
  <2>1. store' = store /\ composed' = composed /\ refused' = refused /\ timeline' = timeline
    BY <1>1 DEF Start, Stop, Poll, PollFails, gateway, history
  <2> QED BY <2>1, NothingMoves
<1>2. CASE HydrateNext(t)
  <2>1. /\ composed' = composed /\ refused' = refused /\ timeline' = timeline
        /\ pc[t] = "hydrate"
    BY <1>2 DEF HydrateNext, gateway, history
  <2>2. PICK i \in First(DOMAIN incoming[t]) :
          LET entry  == incoming[t][i]
              merged == Merge(store[t], Shown(entry), FALSE)
          IN store' \in {[store EXCEPT ![t] = merged],
                         [store EXCEPT ![t] = Mark(merged, entry.id, entry.edited,
                                                   entry.recalled)]}
    BY <1>2 DEF HydrateNext
  <2> DEFINE entry  == incoming[t][i]
             merged == Merge(store[t], Shown(entry), FALSE)
             marked == Mark(merged, entry.id, entry.edited, entry.recalled)
  <2>3. entry \in GatewayEntry /\ entry.id \in Ids(timeline) \cup refused
    BY <2>1, FetchedMessage
  <2>4. entry.edited \in BOOLEAN /\ entry.recalled \in BOOLEAN
    BY <2>3 DEF GatewayEntry
  <2>5. /\ MergedInto(store[t], merged, entry.id, FALSE)
        /\ MergedInto(store[t], marked, entry.id, FALSE)
    BY <2>1, <2>4, HydratedStore
  <2>6. store' = [store EXCEPT ![t] = merged] \/ store' = [store EXCEPT ![t] = marked]
    BY <2>2
  <2> HIDE DEF entry, merged, marked
  <2> QED BY <2>1, <2>3, <2>5, <2>6, MergeSettles
<1>3. CASE StopInHydrate(t)
  <2>1. /\ composed' = composed /\ refused' = refused /\ timeline' = timeline
        /\ pc[t] = "hydrate"
    BY <1>3 DEF StopInHydrate, gateway, history
  <2>2. PICK i \in First(DOMAIN incoming[t]), edited \in BOOLEAN :
          store' = [store EXCEPT ![t] =
                      Mark(Merge(store[t], Shown(incoming[t][i]), FALSE), incoming[t][i].id,
                           edited, FALSE)]
    BY <1>3 DEF StopInHydrate
  <2> DEFINE marked == Mark(Merge(store[t], Shown(incoming[t][i]), FALSE), incoming[t][i].id,
                            edited, FALSE)
             id == incoming[t][i].id
  <2>3. MergedInto(store[t], marked, id, FALSE) /\ id \in Ids(timeline) \cup refused
    BY <2>1, <2>2, HydratedStore, FetchedMessage
  <2>4. store' = [store EXCEPT ![t] = marked]
    BY <2>2
  <2> HIDE DEF marked, id
  <2> QED BY <2>1, <2>3, <2>4, MergeSettles
<1>4. CASE MergeNext(t)
  <2>1. /\ composed' = composed /\ refused' = refused /\ timeline' = timeline /\ pc[t] = "merge"
    BY <1>4 DEF MergeNext, gateway, history
  <2>2. PICK i \in First(DOMAIN incoming[t]) :
          store' = [store EXCEPT ![t] = Merge(store[t], incoming[t][i], FALSE)]
    BY <1>4 DEF MergeNext
  <2> DEFINE frame  == incoming[t][i]
             merged == Merge(store[t], frame, FALSE)
  <2>3. /\ frame.id \in Id /\ frame.text \in Text /\ frame.time \in 0..MaxTime
        /\ frame.id \in Ids(timeline) \cup refused
    BY <2>1, FetchedMessage DEF Message
  <2>4. store[t] \in Seq(LocalEntry)
    BY DEF Inv, TerminalsTyped
  <2>5. MergedInto(store[t], merged, frame.id, FALSE)
    BY <2>3, <2>4, MergeMerges
  <2>6. store' = [store EXCEPT ![t] = merged]
    BY <2>2
  <2> HIDE DEF merged, frame
  <2> QED BY <2>1, <2>3, <2>5, <2>6, MergeSettles
<1>5. CASE Compose(t)
  <2> DEFINE id == <<t, now>>
             message == [id |-> id, text |-> "original", time |-> now]
             merged == Merge(store[t], message, TRUE)
  <2>1. id \in Id /\ id[1] = t /\ message.id = id /\ message.text \in Text
        /\ message.time \in 0..MaxTime
    BY TuiSyncConstants DEF Inv, GatewayTyped, Id, Text
  <2>2. store[t] \in Seq(LocalEntry)
    BY DEF Inv, TerminalsTyped
  <2>3. /\ store' = [store EXCEPT ![t] = merged] /\ composed' = composed \cup {id}
        /\ id \notin composed /\ refused' = refused /\ timeline' = timeline
    BY <1>5, <2>1 DEF Compose, gateway
  <2> HIDE DEF message
  <2>4. MergedInto(store[t], merged, message.id, TRUE)
    BY <2>1, <2>2, MergeMerges
  <2>5. MergedInto(store[t], merged, id, TRUE)
    BY <2>1, <2>4
  <2> HIDE DEF merged, id
  <2>6. Waiting' = Waiting \cup {id}
    BY <2>1, <2>3, <2>5, WaitingMoves
  <2>7. Box!Type(id)
    BY <2>3, <2>6 DEF Box!Type
  <2> QED BY <2>1, <2>7 DEF Box!Next
<1>6. CASE Publish(t)
  <2>1. PICK i \in outgoing[t] : Accept(Frame(store[t][i])) /\ Delivered(t, i)
    BY <1>6 DEF Publish
  <2> DEFINE entry  == store[t][i]
             merged == Merge(store[t], entry, FALSE)
  <2>2. composed' = composed /\ refused' = refused
    BY <1>6 DEF Publish, history
  <2>3. store' = [store EXCEPT ![t] = merged]
    BY <2>1 DEF Delivered
  <2>4. entry \in LocalEntry /\ entry.id[1] = t
    BY OutgoingEntry, OutgoingWaits
  <2>5. store[t] \in Seq(LocalEntry)
    BY DEF Inv, TerminalsTyped
  <2>6. entry.id \in Id /\ entry.text \in Text /\ entry.time \in 0..MaxTime
    BY <2>4 DEF LocalEntry
  <2> HIDE DEF entry
  <2>7. MergedInto(store[t], merged, entry.id, FALSE)
    BY <2>5, <2>6, MergeMerges
  <2> HIDE DEF merged
  <2>8. Waiting' \in {Waiting, Waiting \ {entry.id}}
    BY <2>2, <2>3, <2>7, WaitingMoves
  <2>9. Box!Next
    BY <2>1, <2>2, <2>8, AcceptDelivers DEF entry
  <2> QED BY <2>9
<1>7. CASE PublishLost(t) \/ StopInPublish(t)
  <2>1. store' = store /\ composed' = composed /\ refused' = refused
    BY <1>7 DEF PublishLost, StopInPublish, Undelivered, history
  <2>2. PICK i \in outgoing[t] : Accept(Frame(store[t][i])) \/ UNCHANGED gateway
    BY <1>7 DEF PublishLost, StopInPublish
  <2>3. CASE Accept(Frame(store[t][i]))
    <3>1. Waiting' = Waiting
      BY <2>1 DEF Waiting
    <3> QED BY <2>1, <2>3, <3>1, AcceptDelivers
  <2>4. CASE UNCHANGED gateway
    BY <2>1, <2>4, NothingMoves DEF gateway
  <2> QED BY <2>2, <2>3, <2>4
<1>8. CASE PublishRefused(t)
  <2>1. store' = store /\ composed' = composed /\ timeline' = timeline
    BY <1>8 DEF PublishRefused, Undelivered
  <2>2. PICK i \in outgoing[t] : refused' = refused \cup {store[t][i].id}
    BY <1>8 DEF PublishRefused
  <2>3. store[t][i].id \in Waiting /\ store[t][i].id \in Id
    BY OutgoingWaits
  <2>4. Waiting' = Waiting
    BY <2>1 DEF Waiting
  <2>5. Box!Refuse(store[t][i].id)
    BY <2>1, <2>2, <2>3, <2>4 DEF Box!Refuse
  <2> QED BY <2>3, <2>5 DEF Box!Next
<1> QED BY <1>1, <1>2, <1>3, <1>4, <1>5, <1>6, <1>7, <1>8

\* So is a step of anybody else, which moves nothing that was typed here.
LEMMA OutboxStep == Inv /\ [Next]_vars => [Box!Next]_(Box!vars)
<1> SUFFICES ASSUME Inv, [Next]_vars PROVE [Box!Next]_(Box!vars)
  OBVIOUS
<1>1. ASSUME NEW t \in Tui,
             \/ Start(t) \/ HydrateNext(t) \/ StopInHydrate(t) \/ Stop(t)
             \/ Poll(t) \/ PollFails(t) \/ MergeNext(t) \/ Compose(t)
             \/ Publish(t) \/ PublishLost(t) \/ StopInPublish(t) \/ PublishRefused(t)
      PROVE  [Box!Next]_(Box!vars)
  BY <1>1, TerminalMaps
<1>2. ASSUME NEW w \in Web, WebSend(w) PROVE [Box!Next]_(Box!vars)
  <2> DEFINE message == [id |-> <<w, webs>>, text |-> "original", time |-> now]
  <2>1. message \in Message /\ message.id[1] \notin Tui
    BY <1>2, TuiSyncConstants DEF Inv, GatewayTyped, WebSend, Message, Id, Text
  <2>2. /\ Accept(message) /\ store' = store /\ composed' = composed /\ refused' = refused
    BY <1>2 DEF WebSend, terminal, history
  <2> HIDE DEF message
  <2>3. Ids(timeline') = Ids(timeline) \cup {message.id}
    BY <2>1, <2>2, AcceptTells
  <2> QED BY <2>1, <2>2, <2>3, NothingMoves
<1>3. ASSUME NEW i \in DOMAIN timeline, EditMessage(i) \/ RecallMessage(i)
      PROVE  [Box!Next]_(Box!vars)
  <2>1. timeline[i] \in GatewayEntry
    BY DEF Inv, GatewayTyped
  <2>2. PICK entry : entry.id = timeline[i].id /\ AmendEntry(i, entry)
    BY <1>3, <2>1 DEF EditMessage, RecallMessage, GatewayEntry
  <2>3. Ids(timeline') = Ids(timeline)
    BY <2>2, AmendTells
  <2>4. store' = store /\ composed' = composed /\ refused' = refused
    BY <2>2 DEF AmendEntry, terminal, history
  <2> QED BY <2>3, <2>4, NothingMoves
<1>4. CASE GatewayRestart \/ Tick \/ UNCHANGED vars
  <2>1. store' = store /\ composed' = composed /\ refused' = refused /\ timeline' = timeline
    BY <1>4 DEF GatewayRestart, Tick, vars, gateway, terminal, history
  <2> QED BY <2>1, NothingMoves
<1> QED BY <1>1, <1>2, <1>3, <1>4 DEF Next

\* Terminals, relay and timeline implement the outbox: for any terminals, faults
\* and amendments a typed message waits until it was delivered or refused, and
\* never again after it was taken for that (append_local_message, merge_message,
\* republish_pending_messages).
THEOREM StoresImplementOutbox == Spec => ImplementsOutbox
<1>1. Init => Box!Init
  BY DEF Init, Box!Init, Waiting, Ids
<1>2. Inv /\ [Next]_vars => [Box!Next]_(Box!vars)
  BY OutboxStep
<1> QED BY <1>1, <1>2, InvHolds, PTL DEF Spec, ImplementsOutbox, Box!Spec

============================================================================
