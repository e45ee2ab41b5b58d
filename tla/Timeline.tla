------------------------------ MODULE Timeline ------------------------------
(***************************************************************************)
(* The gateway's message timeline: FileTimelineStore of                    *)
(* crates/chat-storage, driven by GatewayRuntime::ingest_message,          *)
(* edit_shell_message and recall_shell_message.                            *)
(*                                                                         *)
(* The store keeps every conversation and every timeline in memory and     *)
(* rewrites whole snapshot files: one file lists the conversations, one    *)
(* file per conversation holds its entries.  A file is replaced by a       *)
(* rename, so one file write either happens entirely or not at all, but an *)
(* operation makes several of them and each can fail, and the process can  *)
(* stop between any two.  The runtime mutex serialises operations, so at   *)
(* most one is in progress: `task' says which write it makes next.         *)
(***************************************************************************)
EXTENDS Naturals, Sequences, FiniteSets

CONSTANTS
  Conversation,   \* ids of conversations
  Resident,       \* senders of messages
  MessageId,      \* ids carried by messages; a relayed frame may repeat one
  Text,           \* message bodies
  Window,         \* ArchivePolicy::active_window_ms
  MaxTime,        \* bound: the clock stops here
  MaxEntries      \* bound: messages ever accepted into one timeline

ASSUME TimelineConstants ==
  Window \in Nat /\ MaxTime \in Nat /\ MaxEntries \in Nat

VARIABLES
  conversations,       \* inner.conversations: the conversations in memory
  timelines,           \* inner.timelines: the entries in memory
  savedConversations,  \* conversations.postcard
  savedTimelines,      \* timelines/<id>.postcard
  task,                \* the operation in progress and its next write
  now,                 \* the wall clock
  acked,               \* history: messages whose sender was told "delivered"
  ackedRecalls         \* history: messages whose sender was told "recalled"

memory == <<conversations, timelines>>
disk   == <<savedConversations, savedTimelines>>
told   == <<acked, ackedRecalls>>
vars   == <<conversations, timelines, savedConversations, savedTimelines,
            task, now, acked, ackedRecalls>>

-----------------------------------------------------------------------------
(* Entries *)

Entry == [id : MessageId, sender : Resident, text : Text, timestamp : Nat,
          archived : BOOLEAN, recalled : BOOLEAN, edited : BOOLEAN]

NewEntry(id, sender, text, timestamp) ==
  [id |-> id, sender |-> sender, text |-> text, timestamp |-> timestamp,
   archived |-> FALSE, recalled |-> FALSE, edited |-> FALSE]

\* TimelineEntry::is_active_at, for an entry that is not archived yet.
IsActive(entry) == now <= entry.timestamp + Window

ArchiveExpired(entry) ==
  IF IsActive(entry) THEN entry ELSE [entry EXCEPT !.archived = TRUE]

\* edit_message and recall_message look for the first entry with the id.
IsFirst(entries, i) == \A j \in 1..(i - 1) : entries[j].id # entries[i].id

Front(entries) == SubSeq(entries, 1, Len(entries) - 1)

-----------------------------------------------------------------------------
(* The operation in progress: the file write it makes next, and for whom. *)

AppendStage  == {"upsertForAppend", "appendConversations", "appendTimeline"}
ArchiveStage == {"archiveConversations", "archiveTimelines"}
AmendStage   == {"editTimeline", "recallTimeline"}

Task ==
  [stage : {"idle"}]
    \cup [stage : {"upsert"}, conversation : Conversation]
    \cup [stage : AppendStage \cup AmendStage \cup {"archiveConversations"},
          conversation : Conversation, entry : Entry]
    \cup [stage : {"archiveTimelines"},
          conversation : Conversation, entry : Entry, left : SUBSET Conversation]

NoTask == [stage |-> "idle"]

Working(stage, c, entry) == [stage |-> stage, conversation |-> c, entry |-> entry]

Idle == task = NoTask

Init ==
  /\ conversations = {}
  /\ timelines = [c \in Conversation |-> <<>>]
  /\ savedConversations = {}
  /\ savedTimelines = [c \in Conversation |-> <<>>]
  /\ task = NoTask
  /\ now = 0
  /\ acked = {}
  /\ ackedRecalls = {}

-----------------------------------------------------------------------------
(* File writes.  Each action below is one of these two and what follows it. *)

SaveConversations ==
  /\ savedConversations' = conversations
  /\ UNCHANGED savedTimelines

SaveTimeline(c) ==
  /\ savedTimelines' = [savedTimelines EXCEPT ![c] = timelines[c]]
  /\ UNCHANGED savedConversations

-----------------------------------------------------------------------------
(* upsert_conversation: opening a direct session, creating a room, changing *)
(* a scene.  A failed write is reported; the memory keeps the conversation. *)

UpsertConversation(c) ==
  /\ Idle
  /\ conversations' = conversations \cup {c}
  /\ task' = [stage |-> "upsert", conversation |-> c]
  /\ UNCHANGED <<timelines, disk, now, told>>

UpsertSaved ==
  /\ task.stage = "upsert"
  /\ SaveConversations
  /\ task' = NoTask
  /\ UNCHANGED <<memory, now, told>>

UpsertFailed ==
  /\ task.stage = "upsert"
  /\ task' = NoTask
  /\ UNCHANGED <<memory, disk, now, told>>

-----------------------------------------------------------------------------
(* ingest_message: ensure_conversation_for, append_message,                 *)
(* archive_expired_messages.  The timestamp is the sender's: a message      *)
(* relayed late may already be older than the window.                       *)

\* Faulty variant: the id is stored in the place of the entry.
PushId(c, entry) ==
  /\ timelines' = [timelines EXCEPT ![c] = Append(@, entry.id)]
  /\ task' = Working("appendConversations", c, entry)

Push(c, entry) ==
  /\ timelines' = [timelines EXCEPT ![c] = Append(@, entry)]
  /\ task' = Working("appendConversations", c, entry)

Ingest(c, id, sender, text, timestamp) ==
  LET entry == NewEntry(id, sender, text, timestamp) IN
  /\ Idle
  /\ Len(timelines[c]) < MaxEntries
  /\ \/ /\ c \in conversations
        /\ Push(c, entry)
        /\ UNCHANGED conversations
     \/ /\ c \notin conversations
        /\ conversations' = conversations \cup {c}
        /\ task' = Working("upsertForAppend", c, entry)
        /\ UNCHANGED timelines
  /\ UNCHANGED <<disk, now, told>>

UpsertForAppendSaved ==
  /\ task.stage = "upsertForAppend"
  /\ SaveConversations
  /\ Push(task.conversation, task.entry)
  /\ UNCHANGED <<conversations, now, told>>

\* The message is refused, the conversation stays in memory.
UpsertForAppendFailed ==
  /\ task.stage = "upsertForAppend"
  /\ task' = NoTask
  /\ UNCHANGED <<memory, disk, now, told>>

\* Faulty variant: append_message leaves the conversations file alone.
AppendConversationsSkipped ==
  /\ task.stage = "appendConversations"
  /\ task' = [task EXCEPT !.stage = "appendTimeline"]
  /\ UNCHANGED <<memory, disk, now, told>>

AppendConversationsSaved ==
  /\ task.stage = "appendConversations"
  /\ SaveConversations
  /\ task' = [task EXCEPT !.stage = "appendTimeline"]
  /\ UNCHANGED <<memory, now, told>>

\* append_message has succeeded; archive_expired_messages marks every entry
\* of every timeline in memory before its first write.
AppendTimelineSaved ==
  /\ task.stage = "appendTimeline"
  /\ SaveTimeline(task.conversation)
  /\ timelines' = [c \in Conversation |->
                     [i \in DOMAIN timelines[c] |-> ArchiveExpired(timelines[c][i])]]
  /\ task' = [task EXCEPT !.stage = "archiveConversations"]
  /\ UNCHANGED <<conversations, now, told>>

\* Faulty variant: the message is refused and stays in memory.
AppendFailedKept ==
  /\ task.stage \in {"appendConversations", "appendTimeline"}
  /\ task' = NoTask
  /\ UNCHANGED <<memory, disk, now, told>>

\* Either write of append_message fails: the entry just pushed is popped and
\* the message refused.
AppendFailed ==
  /\ task.stage \in {"appendConversations", "appendTimeline"}
  /\ timelines' = [timelines EXCEPT ![task.conversation] = Front(@)]
  /\ task' = NoTask
  /\ UNCHANGED <<conversations, disk, now, told>>

\* The sender is told "delivered", whatever became of the archiving.
AcknowledgeAppend ==
  /\ acked' = acked \cup {<<task.conversation, task.entry.id>>}
  /\ task' = NoTask
  /\ UNCHANGED ackedRecalls

ArchiveConversationsSaved ==
  /\ task.stage = "archiveConversations"
  /\ SaveConversations
  /\ task' = [stage |-> "archiveTimelines", conversation |-> task.conversation,
              entry |-> task.entry, left |-> conversations]
  /\ UNCHANGED <<memory, now, told>>

\* persist_all_timelines visits the conversations in the order of a HashMap.
ArchiveTimelineSaved(c) ==
  /\ task.stage = "archiveTimelines"
  /\ c \in task.left
  /\ SaveTimeline(c)
  /\ IF task.left = {c}
       THEN AcknowledgeAppend
       ELSE /\ task' = [task EXCEPT !.left = @ \ {c}]
            /\ UNCHANGED told
  /\ UNCHANGED <<memory, now>>

\* The first failed write ends the archiving; ingest_message drops the error.
ArchiveFailed ==
  /\ task.stage \in ArchiveStage
  /\ AcknowledgeAppend
  /\ UNCHANGED <<memory, disk, now>>

-----------------------------------------------------------------------------
(* edit_message and recall_message.  The requests they turn down (an        *)
(* unknown id, another sender, an edit of a recalled message) change        *)
(* nothing.  When the write fails the caller gets an error but the memory   *)
(* keeps the change.                                                        *)

Amend(c, i, entry, stage) ==
  /\ Idle
  /\ IsFirst(timelines[c], i)
  /\ timelines' = [timelines EXCEPT ![c][i] = entry]
  /\ task' = Working(stage, c, entry)
  /\ UNCHANGED <<conversations, disk, now, told>>

\* Faulty variant: a recalled message can be edited.
EditRecalledMessage(c, i, actor, text) ==
  LET entry == timelines[c][i] IN
  /\ entry.sender = actor
  /\ Amend(c, i, [entry EXCEPT !.text = text, !.edited = TRUE], "editTimeline")

EditMessage(c, i, actor, text) ==
  LET entry == timelines[c][i] IN
  /\ entry.sender = actor
  /\ ~entry.recalled
  /\ Amend(c, i, [entry EXCEPT !.text = text, !.edited = TRUE], "editTimeline")

RecallMessage(c, i, actor) ==
  LET entry == timelines[c][i] IN
  /\ entry.sender = actor
  /\ Amend(c, i, [entry EXCEPT !.recalled = TRUE], "recallTimeline")

EditSaved ==
  /\ task.stage = "editTimeline"
  /\ SaveTimeline(task.conversation)
  /\ task' = NoTask
  /\ UNCHANGED <<memory, now, told>>

RecallSaved ==
  /\ task.stage = "recallTimeline"
  /\ SaveTimeline(task.conversation)
  /\ ackedRecalls' = ackedRecalls \cup {<<task.conversation, task.entry.id>>}
  /\ task' = NoTask
  /\ UNCHANGED <<memory, now, acked>>

\* Faulty variant: the recall is confirmed though it was not written.
AmendFailureHidden ==
  /\ task.stage \in AmendStage
  /\ task' = NoTask
  /\ IF task.stage = "recallTimeline"
       THEN ackedRecalls' = ackedRecalls \cup {<<task.conversation, task.entry.id>>}
       ELSE UNCHANGED ackedRecalls
  /\ UNCHANGED <<memory, disk, now, acked>>

AmendFailed ==
  /\ task.stage \in AmendStage
  /\ task' = NoTask
  /\ UNCHANGED <<memory, disk, now, told>>

-----------------------------------------------------------------------------
(* The process stops at any point and is started again: load_from_disk      *)
(* reads the conversations file and the timeline of each listed             *)
(* conversation, and no other file.                                         *)

Loaded(c) == IF c \in savedConversations THEN savedTimelines[c] ELSE <<>>

Restart ==
  /\ conversations' = savedConversations
  /\ timelines' = [c \in Conversation |-> Loaded(c)]
  /\ task' = NoTask
  /\ UNCHANGED <<disk, now, told>>

Tick ==
  /\ now < MaxTime
  /\ now' = now + 1
  /\ UNCHANGED <<memory, disk, task, told>>

-----------------------------------------------------------------------------

Request ==
  \E c \in Conversation :
    \/ UpsertConversation(c)
    \/ \E id \in MessageId, sender \in Resident, text \in Text, timestamp \in 0..now :
         Ingest(c, id, sender, text, timestamp)
    \/ \E i \in DOMAIN timelines[c], actor \in Resident :
         \/ \E text \in Text : EditMessage(c, i, actor, text)
         \/ RecallMessage(c, i, actor)

Write ==
  \/ UpsertSaved
  \/ UpsertForAppendSaved
  \/ AppendConversationsSaved
  \/ AppendTimelineSaved
  \/ ArchiveConversationsSaved
  \/ \E c \in Conversation : ArchiveTimelineSaved(c)
  \/ EditSaved
  \/ RecallSaved

FailedWrite ==
  \/ UpsertFailed
  \/ UpsertForAppendFailed
  \/ AppendFailed
  \/ ArchiveFailed
  \/ AmendFailed

Next == Request \/ Write \/ FailedWrite \/ Restart \/ Tick

Spec == Init /\ [][Next]_vars

-----------------------------------------------------------------------------
(* Properties *)

TypeOK ==
  /\ conversations \in SUBSET Conversation
  /\ timelines \in [Conversation -> Seq(Entry)]
  /\ savedConversations \in SUBSET Conversation
  /\ savedTimelines \in [Conversation -> Seq(Entry)]
  /\ task \in Task
  /\ now \in Nat
  /\ acked \in SUBSET (Conversation \X MessageId)
  /\ ackedRecalls \in SUBSET (Conversation \X MessageId)

\* A message whose sender was told "delivered" is found again after a stop at
\* any later point: its entry is on disk and its conversation is one that
\* load_from_disk reads (the order of the two writes of append_message).
AckedDurable ==
  \A receipt \in acked :
    \E i \in DOMAIN Loaded(receipt[1]) : Loaded(receipt[1])[i].id = receipt[2]

\* A recall that was confirmed survives every later stop: the message is
\* still on disk, still marked (recall_message persists before it answers).
AckedRecallDurable ==
  \A receipt \in ackedRecalls :
    \E i \in DOMAIN Loaded(receipt[1]) :
      /\ Loaded(receipt[1])[i].id = receipt[2]
      /\ Loaded(receipt[1])[i].recalled

\* "Keep RAM and disk consistent" (append_message): between two operations,
\* memory and disk hold the same messages in the same order, whichever
\* writes have failed; only marks and texts may be newer in memory.
SameMessage(e, f) == e.id = f.id /\ e.sender = f.sender

MessagesAgree ==
  Idle => \A c \in Conversation :
            /\ Len(timelines[c]) = Len(Loaded(c))
            /\ \A i \in DOMAIN timelines[c] : SameMessage(timelines[c][i], Loaded(c)[i])

-----------------------------------------------------------------------------
(* What a stop leaves of the timelines implements the abstract log.        *)

SavedLog == [c \in Conversation |-> Loaded(c)]

Durable == INSTANCE DurableLog WITH log <- SavedLog

\* Across every write, failed write, stop and restart, the log that would be
\* loaded only grows and is only amended: no confirmed or unconfirmed write
\* ever drops a message, moves one, or changes one that was recalled.
ImplementsDurableLog == Durable!Spec
=============================================================================
