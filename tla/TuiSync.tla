------------------------------ MODULE TuiSync ------------------------------
(***************************************************************************)
(* Terminal clients against the gateway, for one conversation.             *)
(*                                                                         *)
(* A terminal (apps/lobster-tui) keeps its own timeline store on disk and  *)
(* talks to the gateway in three ways: when it starts it copies the        *)
(* gateway's shell state into its store; while it runs it polls the relay  *)
(* for frames newer than its cursor; and it publishes what its user types, *)
(* keeping a message "pending network" until a publish is answered and     *)
(* sending pending ones again after each poll.  The relay and the timeline *)
(* are both in the gateway: a published frame enters the relay first and   *)
(* the timeline next.  Edits and recalls change the timeline only.         *)
(*                                                                         *)
(* Web clients write through the gateway's shell API and appear here as    *)
(* what they change in it.                                                 *)
(***************************************************************************)
EXTENDS Integers, Sequences, FiniteSets, Functions

CONSTANTS
  Tui,            \* terminals, each with an identity of its own
  Web,            \* residents who use the browser
  RecoverLimit,   \* history_limit: frames one Recover call returns
  MaxTime,        \* bound: the clock stops here
  MaxWeb,         \* bound: messages sent from browsers
  MaxAmends,      \* bound: edits and recalls
  MaxLost         \* bound: requests lost or refused, stops and restarts

ASSUME TuiSyncConstants ==
  /\ RecoverLimit \in Nat \ {0}
  /\ {MaxTime, MaxWeb, MaxAmends, MaxLost} \subseteq Nat
  /\ Tui \cap Web = {}

VARIABLES
  now,        \* the clocks, taken to agree
  relay,      \* node.topic_frames of the gateway, in memory
  timeline,   \* the gateway's timeline store, on disk
  store,      \* store[t]: the terminal's timeline store, on disk
  pc,         \* where the terminal's loop is
  incoming,   \* what it fetched and has yet to copy into its store, by position
  outgoing,   \* the positions in its store that it has yet to publish in this round
  cursor,     \* the terminal's cursor for the topic, in memory
  composed,   \* history: messages typed into terminals
  refused,    \* history: messages relayed by a publish that was then refused
  webs, amends, lost   \* counters for the bounds

gateway  == <<relay, timeline>>
terminal == <<store, pc, incoming, outgoing, cursor>>
history  == <<composed, refused>>
counters == <<webs, amends, lost>>
vars     == <<now, relay, timeline, store, pc, incoming, outgoing, cursor, composed,
              refused, webs, amends, lost>>

-----------------------------------------------------------------------------
(* Data.  An id is unique except that every copy of a message carries the   *)
(* same one: "local-<sender>-<ms>" for a terminal, "gw-<ms>-<n>" for a      *)
(* message that the gateway made for a browser.  The text of a message is   *)
(* what its author wrote first, what an edit made of it, or the tombstone   *)
(* that the shell state shows in the place of a recalled text.              *)

Text    == {"original", "edited", "tombstone"}
Id      == (Tui \cup Web) \X (0..(MaxTime + MaxWeb))
Message == [id : Id, text : Text, time : 0..MaxTime]

\* An entry of the gateway's timeline.
GatewayEntry == [id : Id, text : Text, time : 0..MaxTime,
                 edited : BOOLEAN, recalled : BOOLEAN]

\* An entry of a terminal's store; pending is DeliveryState::PendingNetwork.
LocalEntry == [id : Id, text : Text, time : 0..MaxTime,
               edited : BOOLEAN, recalled : BOOLEAN, pending : BOOLEAN]

Frame(entry) == [id |-> entry.id, text |-> entry.text, time |-> entry.time]

InTimeline(message) ==
  [id |-> message.id, text |-> message.text, time |-> message.time,
   edited |-> FALSE, recalled |-> FALSE]

Stored(message, edited, recalled, pending) ==
  [id |-> message.id, text |-> message.text, time |-> message.time,
   edited |-> edited, recalled |-> recalled, pending |-> pending]

Ids(entries) == {entries[i].id : i \in DOMAIN entries}

\* Faulty variant: the message is added even when the store has it.
MergeBlindly(entries, message, pending) ==
  Append(entries, Stored(message, FALSE, FALSE, pending))

\* Faulty variant: the known entry is replaced, marks and all.
MergeAnew(entries, message, pending) ==
  MergeBlindly(SelectSeq(entries, LAMBDA entry : entry.id # message.id), message, pending)

\* merge_message: take the delivery state and the envelope of a message the
\* store has, keep its marks; or add the message.
Merge(entries, message, pending) ==
  IF message.id \in Ids(entries)
    THEN [i \in DOMAIN entries |->
           IF entries[i].id = message.id
             THEN Stored(message, entries[i].edited, entries[i].recalled, pending)
             ELSE entries[i]]
    ELSE Append(entries, Stored(message, FALSE, FALSE, pending))

-----------------------------------------------------------------------------
(* What a terminal fetched is copied into its store one after the other;    *)
(* each is a write of its own, between which the process may die.           *)

\* shell_messages_before shows the tombstone in the place of a recalled text.
Shown(entry) ==
  [id |-> entry.id, text |-> IF entry.recalled THEN "tombstone" ELSE entry.text,
   time |-> entry.time]

Mark(entries, id, edited, recalled) ==
  [i \in DOMAIN entries |->
    IF entries[i].id = id
      THEN Stored(entries[i], entries[i].edited \/ edited, entries[i].recalled \/ recalled,
                  entries[i].pending)
      ELSE entries[i]]

\* edit_message refuses an entry that is recalled.
Refuses(entries, entry) ==
  /\ entry.edited
  /\ \E i \in DOMAIN entries : entries[i].id = entry.id /\ entries[i].recalled

\* The first of some positions, and the last of them.
First(S) == {i \in S : \A j \in S : i <= j}
Final(S) == {i \in S : \A j \in S : j <= i}

Without(fetched, i) == Restrict(fetched, DOMAIN fetched \ {i})

-----------------------------------------------------------------------------

Location == {"stopped", "hydrate", "loop", "merge", "republish", "send"}

Nothing == <<>>

NoCursor == -1

Init ==
  /\ now = 0
  /\ relay = <<>>
  /\ timeline = <<>>
  /\ store = [t \in Tui |-> <<>>]
  /\ pc = [t \in Tui |-> "stopped"]
  /\ incoming = [t \in Tui |-> Nothing]
  /\ outgoing = [t \in Tui |-> {}]
  /\ cursor = [t \in Tui |-> NoCursor]
  /\ composed = {}
  /\ refused = {}
  /\ webs = 0 /\ amends = 0 /\ lost = 0

-----------------------------------------------------------------------------
(* The terminal's lifetime *)

\* bootstrap_app fetches the shell state; the new adapter has no cursor.
Start(t) ==
  /\ pc[t] = "stopped"
  /\ incoming' = [incoming EXCEPT ![t] = timeline]
  /\ pc' = [pc EXCEPT ![t] = IF timeline = <<>> THEN "loop" ELSE "hydrate"]
  /\ UNCHANGED <<now, gateway, store, outgoing, cursor, history, counters>>

\* The process ends; all but the store is lost.
Ends(t) ==
  /\ pc' = [pc EXCEPT ![t] = "stopped"]
  /\ incoming' = [incoming EXCEPT ![t] = Nothing]
  /\ outgoing' = [outgoing EXCEPT ![t] = {}]
  /\ cursor' = [cursor EXCEPT ![t] = NoCursor]

\* hydrate_gateway_shell_state for one message: merge_message, then
\* edit_message if it was edited, then recall_message if it was recalled.  An
\* error ends the process.
HydrateNext(t) ==
  /\ pc[t] = "hydrate"
  /\ \E i \in First(DOMAIN incoming[t]) :
     LET entry  == incoming[t][i]
         rest   == Without(incoming[t], i)
         merged == Merge(store[t], Shown(entry), FALSE)
     IN \/ /\ Refuses(merged, entry)
           /\ store' = [store EXCEPT ![t] = merged]
           /\ Ends(t)
        \/ /\ ~Refuses(merged, entry)
           /\ store' = [store EXCEPT ![t] = Mark(merged, entry.id, entry.edited, entry.recalled)]
           /\ incoming' = [incoming EXCEPT ![t] = rest]
           /\ pc' = [pc EXCEPT ![t] = IF DOMAIN rest = {} THEN "loop" ELSE "hydrate"]
           /\ UNCHANGED <<outgoing, cursor>>
  /\ UNCHANGED <<now, gateway, history, counters>>

\* The process dies with the message merged and its marks missing.
StopInHydrate(t) ==
  /\ pc[t] = "hydrate"
  /\ lost < MaxLost
  /\ lost' = lost + 1
  /\ \E i \in First(DOMAIN incoming[t]), edited \in BOOLEAN :
     LET entry  == incoming[t][i]
         merged == Merge(store[t], Shown(entry), FALSE)
     IN /\ edited => entry.edited /\ ~Refuses(merged, entry)
        /\ store' = [store EXCEPT ![t] = Mark(merged, entry.id, edited, FALSE)]
  /\ Ends(t)
  /\ UNCHANGED <<now, gateway, history, webs, amends>>

\* The user quits, or the process dies between two writes.
Stop(t) ==
  /\ pc[t] # "stopped"
  /\ lost < MaxLost
  /\ lost' = lost + 1
  /\ Ends(t)
  /\ UNCHANGED <<now, gateway, store, history, webs, amends>>

-----------------------------------------------------------------------------
(* One round of the loop: poll, merge, send pending messages again. *)

\* recover_since: the positions in the relay of the first frames that are later
\* than the cursor.
Recoverable(t) ==
  LET newer == {i \in DOMAIN relay : relay[i].time > cursor[t]}
  IN {i \in newer : Cardinality({j \in newer : j < i}) < RecoverLimit}

\* Faulty variant: the cursor is put behind the last frame.
NextCursorBehind(t, page) ==
  IF page = {} THEN {cursor[t]} ELSE {relay[i].time + 1 : i \in Final(page)}

\* update_cursor_from_frames: the time of the last frame.
NextCursor(t, page) ==
  IF page = {} THEN {cursor[t]} ELSE {relay[i].time : i \in Final(page)}

\* Faulty variant: the test of the recall mark is negated.
PendingIgnored(entries) == {i \in DOMAIN entries : entries[i].pending /\ entries[i].recalled}

\* republish_pending_messages, the entries it does not skip
Pending(entries) == {i \in DOMAIN entries : entries[i].pending /\ ~entries[i].recalled}

\* The entries to send again are those pending when republishing starts.
Republish(t, entries) ==
  /\ outgoing' = [outgoing EXCEPT ![t] = Pending(entries)]
  /\ pc' = [pc EXCEPT ![t] = IF Pending(entries) = {} THEN "loop" ELSE "republish"]

\* poll_frames, update_cursor_from_frames
Poll(t) ==
  LET page == Recoverable(t) IN
  /\ pc[t] = "loop"
  /\ \E next \in NextCursor(t, page) : cursor' = [cursor EXCEPT ![t] = next]
  /\ incoming' = [incoming EXCEPT ![t] = Restrict(relay, page)]
  /\ IF page = {} THEN Republish(t, store[t])
     ELSE pc' = [pc EXCEPT ![t] = "merge"] /\ UNCHANGED outgoing
  /\ UNCHANGED <<now, gateway, store, history, counters>>

\* The topics are polled one after the other: when the request for a later one
\* fails, the frames of this one are dropped and its cursor has passed them.
PollFails(t) ==
  /\ pc[t] = "loop"
  /\ lost < MaxLost
  /\ lost' = lost + 1
  /\ \E next \in NextCursor(t, Recoverable(t)) : cursor' = [cursor EXCEPT ![t] = next]
  /\ UNCHANGED <<now, gateway, store, pc, incoming, outgoing, history, webs, amends>>

\* merge_polled_messages for one frame
MergeNext(t) ==
  /\ pc[t] = "merge"
  /\ \E i \in First(DOMAIN incoming[t]) :
     LET rest   == Without(incoming[t], i)
         merged == Merge(store[t], incoming[t][i], FALSE)
     IN /\ store' = [store EXCEPT ![t] = merged]
        /\ incoming' = [incoming EXCEPT ![t] = rest]
        /\ IF DOMAIN rest = {} THEN Republish(t, merged) ELSE UNCHANGED <<pc, outgoing>>
  /\ UNCHANGED <<now, gateway, cursor, history, counters>>

\* append_local_message, before its publish.  A user types at most one
\* message in a millisecond, so the id is new.
Compose(t) ==
  LET message == [id |-> <<t, now>>, text |-> "original", time |-> now]
      merged  == Merge(store[t], message, TRUE)
  IN
  /\ pc[t] = "loop"
  /\ message.id \notin composed
  /\ store' = [store EXCEPT ![t] = merged]
  /\ outgoing' = [outgoing EXCEPT ![t] = {i \in DOMAIN merged : merged[i].id = message.id}]
  /\ pc' = [pc EXCEPT ![t] = "send"]
  /\ composed' = composed \cup {message.id}
  /\ UNCHANGED <<now, gateway, incoming, cursor, refused, counters>>

-----------------------------------------------------------------------------
(* Publishing the next outgoing message, at position i: POST /v1/waku. *)

Publishing(t, i) == pc[t] \in {"republish", "send"} /\ i \in First(outgoing[t])

\* publish_frame_to_transport: the node's relay, then the timeline; nothing
\* looks for a message that is there already.
Accept(message) ==
  /\ relay' = Append(relay, message)
  /\ timeline' = Append(timeline, InTimeline(message))

\* Answered: the entry is no longer pending; go on with the next one.
Delivered(t, i) ==
  /\ store' = [store EXCEPT ![t] = Merge(@, store[t][i], FALSE)]
  /\ outgoing' = [outgoing EXCEPT ![t] = @ \ {i}]
  /\ pc' = [pc EXCEPT ![t] = IF outgoing[t] = {i} THEN "loop" ELSE @]

\* Faulty variant: the error is dropped and the entry taken for delivered.
UndeliveredForgotten(t, i) ==
  /\ store' = [store EXCEPT ![t] = Merge(@, store[t][i], FALSE)]
  /\ outgoing' = [outgoing EXCEPT ![t] = {}]
  /\ pc' = [pc EXCEPT ![t] = "loop"]

\* Not answered: the entry stays pending and the round is over.
Undelivered(t, i) ==
  /\ outgoing' = [outgoing EXCEPT ![t] = {}]
  /\ pc' = [pc EXCEPT ![t] = "loop"]
  /\ UNCHANGED store

Publish(t) ==
  /\ \E i \in outgoing[t] :
       /\ Publishing(t, i)
       /\ Accept(Frame(store[t][i]))
       /\ Delivered(t, i)
  /\ UNCHANGED <<now, incoming, cursor, history, counters>>

\* The request does not reach the gateway, or its reply does not come back.
PublishLost(t) ==
  /\ lost < MaxLost
  /\ lost' = lost + 1
  /\ \E i \in outgoing[t] :
       /\ Publishing(t, i)
       /\ Accept(Frame(store[t][i])) \/ UNCHANGED gateway
       /\ Undelivered(t, i)
  /\ UNCHANGED <<now, incoming, cursor, history, webs, amends>>

\* The process dies with the frame accepted and the reply on its way.
StopInPublish(t) ==
  /\ lost < MaxLost
  /\ lost' = lost + 1
  /\ \E i \in outgoing[t] : Publishing(t, i) /\ Accept(Frame(store[t][i]))
  /\ Ends(t)
  /\ UNCHANGED <<now, store, history, webs, amends>>

\* The upstream gateway or the timeline's disk fails: an error, with the
\* frame in the relay.
PublishRefused(t) ==
  /\ lost < MaxLost
  /\ lost' = lost + 1
  /\ \E i \in outgoing[t] :
       /\ Publishing(t, i)
       /\ relay' = Append(relay, Frame(store[t][i]))
       /\ refused' = refused \cup {store[t][i].id}
       /\ Undelivered(t, i)
  /\ UNCHANGED <<now, timeline, incoming, cursor, composed, webs, amends>>

-----------------------------------------------------------------------------
(* The gateway *)

\* append_shell_message for a browser.
WebSend(w) ==
  /\ webs < MaxWeb
  /\ webs' = webs + 1
  /\ Accept([id |-> <<w, webs>>, text |-> "original", time |-> now])
  /\ UNCHANGED <<now, terminal, history, amends, lost>>

\* edit_message and recall_message by the author, whatever client is used;
\* both act on the first entry with the id.
AmendEntry(i, entry) ==
  /\ amends < MaxAmends
  /\ amends' = amends + 1
  /\ \A j \in 1..(i - 1) : timeline[j].id # timeline[i].id
  /\ timeline' = [timeline EXCEPT ![i] = entry]
  /\ UNCHANGED <<now, relay, terminal, history, webs, lost>>

EditMessage(i) ==
  /\ ~timeline[i].recalled
  /\ AmendEntry(i, [timeline[i] EXCEPT !.text = "edited", !.edited = TRUE])

RecallMessage(i) == AmendEntry(i, [timeline[i] EXCEPT !.recalled = TRUE])

\* The relay's frames are in memory only and are not rebuilt.
GatewayRestart ==
  /\ relay # <<>>
  /\ lost < MaxLost
  /\ lost' = lost + 1
  /\ relay' = <<>>
  /\ UNCHANGED <<now, timeline, terminal, history, webs, amends>>

Tick ==
  /\ now < MaxTime
  /\ now' = now + 1
  /\ UNCHANGED <<gateway, terminal, history, counters>>

-----------------------------------------------------------------------------

Next ==
  \/ \E t \in Tui :
       \/ Start(t) \/ HydrateNext(t) \/ StopInHydrate(t) \/ Stop(t)
       \/ Poll(t) \/ PollFails(t) \/ MergeNext(t) \/ Compose(t)
       \/ Publish(t) \/ PublishLost(t) \/ StopInPublish(t) \/ PublishRefused(t)
  \/ \E w \in Web : WebSend(w)
  \/ \E i \in DOMAIN timeline : EditMessage(i) \/ RecallMessage(i)
  \/ GatewayRestart
  \/ Tick

Spec == Init /\ [][Next]_vars

\* What the terminal has begun it goes on with.  Every iteration of a running
\* loop polls, whatever the user types; a network that keeps failing some
\* requests lets others through.  Nobody has to start a stopped terminal again.
FairSpec ==
  /\ Spec
  /\ \A t \in Tui :
       WF_vars(HydrateNext(t) \/ MergeNext(t)) /\ SF_vars(Poll(t)) /\ SF_vars(Publish(t))

-----------------------------------------------------------------------------
(* Properties *)

TypeOK ==
  /\ now \in 0..MaxTime
  /\ relay \in Seq(Message)
  /\ timeline \in Seq(GatewayEntry)
  /\ store \in [Tui -> Seq(LocalEntry)]
  /\ pc \in [Tui -> Location]
  /\ DOMAIN incoming = Tui /\ DOMAIN outgoing = Tui
  /\ \A t \in Tui :
       /\ DOMAIN incoming[t] \subseteq Nat \ {0}
       /\ pc[t] = "hydrate" => Range(incoming[t]) \subseteq GatewayEntry
       /\ pc[t] = "merge" => Range(incoming[t]) \subseteq Message
       /\ outgoing[t] \subseteq DOMAIN store[t]
  /\ cursor \in [Tui -> {NoCursor} \cup 0..MaxTime]
  /\ composed \subseteq Id /\ refused \subseteq composed
  /\ webs \in 0..MaxWeb /\ amends \in 0..MaxAmends /\ lost \in 0..MaxLost

\* However often a message is polled, hydrated, merged or sent again, a
\* terminal's store holds it once (merge_message looks for the id).
OneCopyInStore ==
  \A t \in Tui : \A i, j \in DOMAIN store[t] : store[t][i].id = store[t][j].id => i = j

\* What was typed into a terminal is in its store and, unless the gateway's
\* timeline has it, still there to be sent: no lost request or reply, stop or
\* restart drops it, only a refusal after the relay has the frame can.
Kept(id) ==
  \E i \in DOMAIN store[id[1]] :
    LET entry == store[id[1]][i] IN
    entry.id = id /\ (entry.pending \/ id \in Ids(timeline))

NothingDropped == \A id \in composed \ refused : Kept(id)

\* The outbox of all terminals: what was typed into them and is still pending
\* where it was typed.
Waiting ==
  {id \in composed :
     \E i \in DOMAIN store[id[1]] : store[id[1]][i].id = id /\ store[id[1]][i].pending}

Box == INSTANCE Outbox WITH
  Message <- Id, typed <- composed, waiting <- Waiting,
  delivered <- {id \in Ids(timeline) : id[1] \in Tui}

\* Terminals, relay and timeline implement the outbox: however requests and
\* replies are lost and stores, relay and timeline get out of step, a message is
\* taken for delivered only after it was, or was refused, and it never waits
\* again after that.
ImplementsOutbox == Box!Spec

\* README.md, of a message sent while the gateway cannot take it: it "goes
\* into the local store and is not simply lost".
NothingLost == \A id \in composed : Kept(id)

\* A terminal that has seen a recall never shows the message again, whatever
\* frame of it arrives later.
RecallSticks ==
  [][\A t \in Tui : \A i \in DOMAIN store[t] :
       store[t][i].recalled => store'[t][i].recalled]_vars

\* README.md: "TUI world offline send -> local pending -> gateway recovery ->
\* auto republish": what was typed into a terminal that keeps running reaches
\* the gateway's timeline, however many requests and replies were lost.
OutboxDelivered ==
  \A t \in Tui, n \in 0..MaxTime :
    <<t, n>> \in composed /\ pc[t] # "stopped"
      ~> <<t, n>> \in Ids(timeline) \cup refused \/ pc[t] = "stopped"

\* docs/ACTIVE_WORK_QUEUE.md: the terminal imports "messages and edit/recall
\* metadata" when it starts, whatever the gateway holds.
HydrateSucceeds ==
  \A t \in Tui : pc[t] = "hydrate" =>
    \A i \in First(DOMAIN incoming[t]) : ~Refuses(store[t], incoming[t][i])

\* The same metadata stays true while the terminal runs: an entry marked as
\* edited does not show the text from before the edit.
EditedTextShown ==
  \A t \in Tui : \A i \in DOMAIN store[t] :
    store[t][i].edited => store[t][i].text # "original"
=============================================================================
