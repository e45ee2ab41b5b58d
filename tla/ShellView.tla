----------------------------- MODULE ShellView -----------------------------
(***************************************************************************)
(* What a viewer's shell shows and the version that stands for it          *)
(* (shell_runtime.rs of apps/lobster-waku-gateway/src, the reads and the   *)
(* long poll of http_read_routes.rs).                                      *)
(*                                                                         *)
(* A client sends the version it holds and is answered when the version    *)
(* differs: a change that leaves the version alone is not delivered.       *)
(* Counters of unread messages, moderation marks and image layers are not  *)
(* part of the version, and not of what is compared here.  The version of  *)
(* the code also has the senders of the last messages, how long ago they   *)
(* came and the order of the rooms: it differs wherever this one does.     *)
(***************************************************************************)
EXTENDS Naturals, SequencesExt, FiniteSetsExt

CONSTANTS
  Room,
  Text,         \* what messages say
  Withdrawn,    \* what is shown of a recalled one; others may say so, too
  Window,       \* messages shown of a room: 32
  History,      \* messages looked at for them: four times as many
  MaxAge,       \* the age up to which a message is active
  LastId,       \* bound: message ids
  MaxMessages,  \* bound: messages posted
  MaxChanges,   \* bound: edits, recalls, freezes and changes of membership
  MaxTime       \* bound: the clock

VARIABLES
  timeline,   \* room -> its entries
  visible,    \* rooms that shell_visible_conversations_for_viewer keeps
  frozen,     \* rooms that are frozen
  now,        \* the gateway's clock
  counter,    \* message_counter
  changes,    \* for the bound
  twice,      \* history: two edits, or two recalls, in the same millisecond
  held        \* the state that the client fetched last

vars == <<timeline, visible, frozen, now, counter, changes, twice, held>>

\* Ids are numbers for their order as strings, in which those of the gateway do
\* not come ("gw-7-10" is before "gw-7-9").
Id == 1..LastId
Time == 1..MaxTime

Entry(id, at, text) ==
  [id |-> id, at |-> at, text |-> text, edited |-> 0, recalled |-> 0, archived |-> FALSE]

----------------------------------------------------------------------------
(* The projection. *)

Active(r) == {k \in DOMAIN timeline[r] : ~timeline[r][k].archived}

\* recent_messages: the positions of the last ones that are not archived.
Recent(r, limit) == {k \in Active(r) : Cardinality({j \in Active(r) : j > k}) < limit}

\* shell_messages_before without a message to start from: of the recent ones
\* those that come first.
ShellRecent(r) ==
  LET all == Recent(r, History) IN {k \in all : Cardinality({j \in all : j < k}) < Window}

Projected(e) ==
  [id |-> e.id, at |-> e.at, edited |-> e.edited, recalled |-> e.recalled,
   text |-> IF e.recalled # 0 THEN Withdrawn ELSE e.text]

\* shell_state_for_viewer
Shown ==
  [r \in visible |->
     [messages |-> [k \in ShellRecent(r) |-> Projected(timeline[r][k])],
      frozen |-> r \in frozen]]

\* hash_shell_room_metadata: the title and members, the number of messages, the
\* text of the last one, and whether the room is frozen.
LastShown(room) == room.messages[Max(DOMAIN room.messages)]

Metadata(room) ==
  [count |-> Cardinality(DOMAIN room.messages), frozen |-> room.frozen,
   preview |-> IF DOMAIN room.messages = {} THEN {} ELSE {LastShown(room).text}]

\* Faulty variant: without the time of the latest edit.
VersionWithoutEdits(shown) ==
  LET messages == UNION {Range(shown[r].messages) : r \in DOMAIN shown}
      latest == Max({m.at : m \in messages} \cup {0})
  IN <<latest,
       Max({m.id : m \in {x \in messages : x.at = latest}} \cup {0}),
       Cardinality({m \in messages : m.recalled # 0}),
       Max({m.recalled : m \in messages} \cup {0}),
       Cardinality({m \in messages : m.edited # 0}),
       [r \in DOMAIN shown |-> Metadata(shown[r])]>>

\* shell_state_version
StateVersion(shown) ==
  LET messages == UNION {Range(shown[r].messages) : r \in DOMAIN shown}
      latest == Max({m.at : m \in messages} \cup {0})
  IN <<latest,
       Max({m.id : m \in {x \in messages : x.at = latest}} \cup {0}),
       Cardinality({m \in messages : m.recalled # 0}),
       Max({m.recalled : m \in messages} \cup {0}),
       Cardinality({m \in messages : m.edited # 0}),
       Max({m.edited : m \in messages} \cup {0}),
       [r \in DOMAIN shown |-> Metadata(shown[r])]>>

Snapshot == [version |-> StateVersion(Shown), shown |-> Shown]

----------------------------------------------------------------------------
(* The changes. *)

Init ==
  /\ timeline = [r \in Room |-> <<>>]
  /\ visible = Room
  /\ frozen = {}
  /\ now = 1
  /\ counter = 0
  /\ changes = 0
  /\ twice = FALSE
  /\ held = Snapshot

\* ingest_message: appends without looking for the id, and archives what has
\* expired, the new message included.
Ingest(r, id, at, text) ==
  /\ counter < MaxMessages
  /\ counter' = counter + 1
  /\ timeline' =
       [q \in Room |->
          LET grown == IF q = r THEN Append(timeline[q], Entry(id, at, text)) ELSE timeline[q]
          IN [k \in DOMAIN grown |->
                [grown[k] EXCEPT !.archived = @ \/ now > grown[k].at + MaxAge]]]
  /\ UNCHANGED <<visible, frozen, now, changes, twice, held>>

\* publish_message, of the shell and the command line client: the gateway gives
\* the message its id and its time.
Post(r, text) ==
  \E id \in Id :
    /\ \A q \in Room : \A k \in DOMAIN timeline[q] : timeline[q][k].id # id
    /\ Ingest(r, id, now, text)

\* publish_frame_to_transport, for a frame of a terminal or another gateway:
\* with the id and the time that its sender gave it, perhaps for the second time.
PublishFrame(r, id, at, text) == Ingest(r, id, at, text)

Change == changes < MaxChanges /\ changes' = changes + 1

\* The first entry with that id.
Found(r, k) == \A j \in 1..(k - 1) : timeline[r][j].id # timeline[r][k].id

\* edit_message
Edit(r, k, text) ==
  /\ Change
  /\ Found(r, k)
  /\ timeline[r][k].recalled = 0
  /\ timeline' = [timeline EXCEPT ![r][k].text = text, ![r][k].edited = now]
  /\ twice' = (twice \/ \E q \in Room : \E j \in DOMAIN timeline[q] : timeline[q][j].edited = now)
  /\ UNCHANGED <<visible, frozen, now, counter, held>>

\* recall_message: again, when it was recalled before.
Recall(r, k) ==
  /\ Change
  /\ Found(r, k)
  /\ timeline' = [timeline EXCEPT ![r][k].recalled = now]
  /\ twice' = (twice \/ \E q \in Room : \E j \in DOMAIN timeline[q] : timeline[q][j].recalled = now)
  /\ UNCHANGED <<visible, frozen, now, counter, held>>

Freeze(r) ==
  /\ Change
  /\ frozen' = IF r \in frozen THEN frozen \ {r} ELSE frozen \cup {r}
  /\ UNCHANGED <<timeline, visible, now, counter, twice, held>>

Visit(r) ==
  /\ Change
  /\ visible' = IF r \in visible THEN visible \ {r} ELSE visible \cup {r}
  /\ UNCHANGED <<timeline, frozen, now, counter, twice, held>>

Tick ==
  /\ now < MaxTime
  /\ now' = now + 1
  /\ UNCHANGED <<timeline, visible, frozen, counter, changes, twice, held>>

\* handle_get_shell_state, and the first look of handle_get_shell_events.
Fetch ==
  /\ held' = Snapshot
  /\ UNCHANGED <<timeline, visible, frozen, now, counter, changes, twice>>

Next ==
  \/ \E r \in Room, text \in Text :
       \/ Post(r, text)
       \/ \E id \in Id, at \in Time : PublishFrame(r, id, at, text)
       \/ \E k \in DOMAIN timeline[r] : Edit(r, k, text)
  \/ \E r \in Room : \E k \in DOMAIN timeline[r] : Recall(r, k)
  \/ \E r \in Room : Freeze(r) \/ Visit(r)
  \/ Tick
  \/ Fetch

Spec == Init /\ [][Next]_vars

----------------------------------------------------------------------------
(* Properties. *)

TypeOK ==
  /\ \A r \in Room : \A k \in DOMAIN timeline[r] :
       /\ timeline[r][k].id \in Id /\ timeline[r][k].at \in Time
       /\ timeline[r][k].edited \in 0..MaxTime /\ timeline[r][k].recalled \in 0..MaxTime
       /\ timeline[r][k].text \in Text /\ timeline[r][k].archived \in BOOLEAN
  /\ visible \subseteq Room /\ frozen \subseteq Room
  /\ now \in Time /\ counter \in 0..MaxMessages /\ changes \in 0..MaxChanges
  /\ twice \in BOOLEAN /\ DOMAIN held = {"version", "shown"}

\* The last message shown of a room is another one than the client holds, says
\* the same and is not later than all that the client holds.
Replaced(r) ==
  LET before == held.shown[r]
      last   == LastShown(Shown[r])
  IN /\ Max(DOMAIN before.messages) # Max(DOMAIN Shown[r].messages)
     /\ LastShown(before).text = last.text
     /\ \E q \in DOMAIN held.shown : \E m \in Range(held.shown[q].messages) :
          m.at > last.at \/ (m.at = last.at /\ m.id >= last.id)

\* An earlier message has come into the window in place of a later one that was
\* archived before it: frames carry their senders' times.
Reopened(r) ==
  \E j \in DOMAIN Shown[r].messages \ DOMAIN held.shown[r].messages :
    \E k \in DOMAIN held.shown[r].messages : j < k /\ timeline[r][k].archived

\* Whatever happened since a client fetched its state, if the version is still
\* the one it holds then so is all it is shown: rooms, messages, edits, recalls
\* and freezes.  Posting, archiving and shifting windows, a room left and
\* another joined, edits of messages that leave again do not cancel out.  Three
\* things may: two edits, or two recalls, in the same millisecond; a last
\* message that makes way for another one with the same text, where the window
\* is full or a frame came late; and an earlier message that comes back.
VersionTellsChanges ==
  ~twice /\ held.version = StateVersion(Shown) =>
    \A r \in visible : held.shown[r] = Shown[r] \/ Replaced(r) \/ Reopened(r)

============================================================================
