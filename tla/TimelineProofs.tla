--------------------------- MODULE TimelineProofs ---------------------------
(***************************************************************************)
(* Proofs about Timeline for every choice of its constants: its type       *)
(* invariant, the durability of what was confirmed, the agreement of       *)
(* memory and disk, and that it implements DurableLog.                     *)
(***************************************************************************)
EXTENDS Timeline, SequenceTheorems, TLAPS

-----------------------------------------------------------------------------
(* The inductive invariant *)

\* Messages pushed in memory that no write has reached yet.
Pushed(c) ==
  IF task.stage \in {"appendConversations", "appendTimeline"} /\ task.conversation = c
    THEN 1 ELSE 0

\* The timeline on disk is the one in memory, less the message being
\* appended and less amendments whose write is due or has failed.
Behind(c) ==
  /\ Len(timelines[c]) = Len(savedTimelines[c]) + Pushed(c)
  /\ \A i \in 1..Len(savedTimelines[c]) :
       Durable!Amends(timelines[c][i], savedTimelines[c][i])

\* load_from_disk misses no timeline: each one is listed.
Listed ==
  /\ savedConversations \subseteq conversations
  /\ \A c \in Conversation : savedTimelines[c] # <<>> => c \in savedConversations

\* What the operation in progress has done so far.
Underway ==
  /\ task.stage \in {"upsertForAppend", "appendConversations"} =>
       task.conversation \in conversations
  /\ task.stage = "appendTimeline" => task.conversation \in savedConversations
  /\ task.stage \in {"appendConversations", "appendTimeline"} =>
       timelines[task.conversation][Len(timelines[task.conversation])].id = task.entry.id
  /\ task.stage = "archiveTimelines" => task.left \subseteq savedConversations
  /\ task.stage \in ArchiveStage =>
       \E i \in 1..Len(savedTimelines[task.conversation]) :
         savedTimelines[task.conversation][i].id = task.entry.id
  /\ task.stage = "recallTimeline" =>
       \E i \in 1..Len(timelines[task.conversation]) :
         /\ timelines[task.conversation][i].id = task.entry.id
         /\ timelines[task.conversation][i].recalled

\* Confirmed messages and recalls are in the files.
Receipts ==
  /\ \A receipt \in acked :
       \E i \in 1..Len(savedTimelines[receipt[1]]) :
         savedTimelines[receipt[1]][i].id = receipt[2]
  /\ \A receipt \in ackedRecalls :
       \E i \in 1..Len(savedTimelines[receipt[1]]) :
         /\ savedTimelines[receipt[1]][i].id = receipt[2]
         /\ savedTimelines[receipt[1]][i].recalled

Inv ==
  /\ TypeOK
  /\ \A c \in Conversation : Behind(c)
  /\ Listed
  /\ Underway
  /\ Receipts
-----------------------------------------------------------------------------
(* Type correctness *)

\* What a task carries at each stage.
LEMMA TaskCarries ==
  ASSUME task \in Task
  PROVE  /\ task.stage \in {"idle", "upsert"} \cup AppendStage \cup ArchiveStage \cup AmendStage
         /\ task.stage \in AppendStage \cup ArchiveStage \cup AmendStage =>
              task.conversation \in Conversation /\ task.entry \in Entry
         /\ task.stage = "archiveTimelines" => task.left \subseteq Conversation
         /\ \A stage \in AppendStage \cup {"archiveConversations"} :
              task.stage \in AppendStage => [task EXCEPT !.stage = stage] \in Task
         /\ \A left \in SUBSET Conversation :
              task.stage = "archiveTimelines" => [task EXCEPT !.left = left] \in Task
         /\ task.stage \in AppendStage =>
              \A stage \in STRING :
                /\ [task EXCEPT !.stage = stage].stage = stage
                /\ [task EXCEPT !.stage = stage].conversation = task.conversation
                /\ [task EXCEPT !.stage = stage].entry = task.entry
  <1>1. CASE task \in [stage : {"idle"}]
    BY <1>1 DEF AppendStage, ArchiveStage, AmendStage
  <1>2. CASE task \in [stage : {"upsert"}, conversation : Conversation]
    BY <1>2 DEF AppendStage, ArchiveStage, AmendStage
  <1>3. CASE task \in [stage : AppendStage \cup AmendStage \cup {"archiveConversations"},
                       conversation : Conversation, entry : Entry]
    <2>1. \A stage \in AppendStage \cup {"archiveConversations"} :
            [task EXCEPT !.stage = stage]
              \in [stage : AppendStage \cup AmendStage \cup {"archiveConversations"},
                   conversation : Conversation, entry : Entry]
      BY <1>3
    <2> QED BY <1>3, <2>1 DEF AppendStage, ArchiveStage, AmendStage, Task
  <1>4. CASE task \in [stage : {"archiveTimelines"}, conversation : Conversation,
                       entry : Entry, left : SUBSET Conversation]
    <2>1. \A left \in SUBSET Conversation :
            [task EXCEPT !.left = left]
              \in [stage : {"archiveTimelines"}, conversation : Conversation,
                   entry : Entry, left : SUBSET Conversation]
      BY <1>4
    <2> QED BY <1>4, <2>1 DEF AppendStage, ArchiveStage, AmendStage, Task
  <1> QED BY <1>1, <1>2, <1>3, <1>4 DEF Task

\* An operation starts with a task.
LEMMA WorkingTask ==
  ASSUME NEW c \in Conversation, NEW entry \in Entry,
         NEW stage \in AppendStage \cup AmendStage \cup {"archiveConversations"}
  PROVE  /\ Working(stage, c, entry) \in Task
         /\ Working(stage, c, entry).stage = stage
         /\ Working(stage, c, entry).conversation = c
         /\ Working(stage, c, entry).entry = entry
  BY DEF Task, Working

\* New, archived and amended entries are entries.
LEMMA EntryOps ==
  /\ \A id \in MessageId, sender \in Resident, text \in Text, timestamp \in Nat :
       NewEntry(id, sender, text, timestamp) \in Entry
  /\ \A entry \in Entry : ArchiveExpired(entry) \in Entry
  /\ \A entry \in Entry, text \in Text :
       [entry EXCEPT !.text = text, !.edited = TRUE] \in Entry
  /\ \A entry \in Entry : [entry EXCEPT !.recalled = TRUE] \in Entry
  BY DEF Entry, NewEntry, ArchiveExpired

\* Archiving marks entries in place.
LEMMA ArchivedSeq ==
  ASSUME NEW entries \in Seq(Entry)
  PROVE  LET archived == [i \in DOMAIN entries |-> ArchiveExpired(entries[i])] IN
         /\ archived \in Seq(Entry)
         /\ Len(archived) = Len(entries)
         /\ \A i \in 1..Len(entries) : archived[i] = ArchiveExpired(entries[i])
  <1> DEFINE archived == [i \in DOMAIN entries |-> ArchiveExpired(entries[i])]
  <1>1. Len(entries) \in Nat /\ DOMAIN entries = 1..Len(entries)
    OBVIOUS
  <1>2. \A i \in 1..Len(entries) : ArchiveExpired(entries[i]) \in Entry
    <2>1. \A i \in 1..Len(entries) : entries[i] \in Entry
      BY ElementOfSeq
    <2> QED BY <2>1, EntryOps
  <1>3. archived \in [1..Len(entries) -> Entry]
    BY <1>1, <1>2
  <1>4. archived \in Seq(Entry)
    BY <1>1, <1>3, SeqDef
  <1>5. Len(archived) = Len(entries)
    BY <1>1, <1>3, <1>4
  <1> QED BY <1>1, <1>3, <1>4, <1>5

\* The initial state is well typed.
LEMMA InitTypeOK == Init => TypeOK
  BY DEF Init, TypeOK, Task, NoTask

\* Every step keeps the state well typed.
LEMMA NextTypeOK == TypeOK /\ [Next]_vars => TypeOK'
  <1> SUFFICES ASSUME TypeOK, [Next]_vars PROVE TypeOK'
    OBVIOUS
  <1> USE TimelineConstants
  <1>0. NoTask \in Task
    BY DEF Task, NoTask
  <1>1. ASSUME NEW c \in Conversation, UpsertConversation(c) PROVE TypeOK'
    <2>1. [stage |-> "upsert", conversation |-> c] \in Task
      BY DEF Task
    <2> QED BY <1>1, <2>1 DEF UpsertConversation, TypeOK, disk, told
  <1>2. CASE UpsertSaved
    BY <1>0, <1>2 DEF UpsertSaved, SaveConversations, TypeOK, memory, told
  <1>3. CASE UpsertFailed \/ UpsertForAppendFailed \/ AmendFailed
    BY <1>0, <1>3 DEF UpsertFailed, UpsertForAppendFailed, AmendFailed, TypeOK, memory, disk, told
  <1>4. ASSUME NEW c \in Conversation, NEW id \in MessageId, NEW sender \in Resident,
               NEW text \in Text, NEW timestamp \in 0..now, Ingest(c, id, sender, text, timestamp)
        PROVE  TypeOK'
    <2> DEFINE entry == NewEntry(id, sender, text, timestamp)
    <2>1. entry \in Entry
      <3>1. timestamp \in Nat
        BY DEF TypeOK
      <3> QED BY <3>1, EntryOps
    <2>2. CASE Push(c, entry) /\ UNCHANGED conversations
      BY <1>4, <2>1, <2>2, WorkingTask DEF Ingest, Push, TypeOK, disk, told, AppendStage
    <2>3. CASE /\ conversations' = conversations \cup {c}
               /\ task' = Working("upsertForAppend", c, entry)
               /\ UNCHANGED timelines
      BY <1>4, <2>1, <2>3, WorkingTask DEF Ingest, TypeOK, disk, told, AppendStage
    <2> QED BY <1>4, <2>2, <2>3 DEF Ingest
  <1>5. CASE UpsertForAppendSaved
    BY <1>5, TaskCarries, WorkingTask
      DEF UpsertForAppendSaved, SaveConversations, Push, TypeOK, told, AppendStage
  <1>6. CASE AppendConversationsSaved
    BY <1>6, TaskCarries DEF AppendConversationsSaved, SaveConversations, TypeOK, memory, told, AppendStage
  <1>7. CASE AppendTimelineSaved
    <2>1. timelines' \in [Conversation -> Seq(Entry)]
      <3>1. \A c \in Conversation :
              [i \in DOMAIN timelines[c] |-> ArchiveExpired(timelines[c][i])] \in Seq(Entry)
        BY ArchivedSeq DEF TypeOK
      <3> QED BY <1>7, <3>1 DEF AppendTimelineSaved
    <2> QED BY <1>7, <2>1, TaskCarries
          DEF AppendTimelineSaved, SaveTimeline, TypeOK, told, AppendStage
  <1>8. CASE AppendFailed
    <2>1. /\ task.conversation \in Conversation
          /\ timelines[task.conversation] \in Seq(Entry)
      BY <1>8, TaskCarries DEF AppendFailed, TypeOK, AppendStage
    <2>2. Front(timelines[task.conversation]) \in Seq(Entry)
      BY <2>1 DEF Front
    <2> QED BY <1>0, <1>8, <2>1, <2>2 DEF AppendFailed, TypeOK, disk, told
  <1>9. ASSUME task.stage \in ArchiveStage, AcknowledgeAppend,
               UNCHANGED <<timelines, conversations, now>>,
               savedTimelines' \in [Conversation -> Seq(Entry)],
               UNCHANGED savedConversations
        PROVE TypeOK'
    <2>1. task.conversation \in Conversation /\ task.entry \in Entry
      BY <1>9, TaskCarries DEF TypeOK
    <2>2. task.entry.id \in MessageId
      BY <2>1 DEF Entry
    <2> QED BY <1>0, <1>9, <2>1, <2>2 DEF AcknowledgeAppend, TypeOK
  <1>10. CASE ArchiveConversationsSaved
    <2>1. task.conversation \in Conversation /\ task.entry \in Entry
      BY <1>10, TaskCarries DEF ArchiveConversationsSaved, TypeOK, ArchiveStage
    <2>2. [stage |-> "archiveTimelines", conversation |-> task.conversation,
           entry |-> task.entry, left |-> conversations] \in Task
      BY <2>1 DEF Task, TypeOK
    <2> QED BY <1>10, <2>2 DEF ArchiveConversationsSaved, SaveConversations, TypeOK, memory, told
  <1>11. ASSUME NEW c \in Conversation, ArchiveTimelineSaved(c) PROVE TypeOK'
    <2>1. CASE task.left = {c}
      BY <1>9, <1>11, <2>1 DEF ArchiveTimelineSaved, SaveTimeline, TypeOK, memory, ArchiveStage
    <2>2. CASE task.left # {c}
      <3>1. task' \in Task
        <4>1. task.left \ {c} \in SUBSET Conversation
          BY <1>11, TaskCarries DEF ArchiveTimelineSaved, TypeOK
        <4> QED BY <1>11, <2>2, <4>1, TaskCarries DEF ArchiveTimelineSaved, TypeOK
      <3> QED BY <1>11, <2>2, <3>1 DEF ArchiveTimelineSaved, SaveTimeline, TypeOK, memory, told
    <2> QED BY <2>1, <2>2
  <1>12. CASE ArchiveFailed
    BY <1>9, <1>12 DEF ArchiveFailed, TypeOK, memory, disk
  <1>13. ASSUME NEW c \in Conversation, NEW i \in DOMAIN timelines[c], NEW entry \in Entry,
                NEW stage \in AmendStage, Amend(c, i, entry, stage)
         PROVE  TypeOK'
    BY <1>13, WorkingTask DEF Amend, TypeOK, disk, told
  <1>14. ASSUME NEW c \in Conversation, NEW i \in DOMAIN timelines[c], NEW actor \in Resident,
                \/ \E text \in Text : EditMessage(c, i, actor, text)
                \/ RecallMessage(c, i, actor)
         PROVE  TypeOK'
    <2>1. timelines[c][i] \in Entry
      BY DEF TypeOK
    <2> QED BY <1>13, <1>14, <2>1, EntryOps DEF EditMessage, RecallMessage, AmendStage
  <1>15. CASE EditSaved
    BY <1>0, <1>15, TaskCarries DEF EditSaved, SaveTimeline, TypeOK, memory, told, AmendStage
  <1>16. CASE RecallSaved
    <2>1. task.conversation \in Conversation /\ task.entry.id \in MessageId
      BY <1>16, TaskCarries DEF RecallSaved, TypeOK, AmendStage, Entry
    <2> QED BY <1>0, <1>16, <2>1 DEF RecallSaved, SaveTimeline, TypeOK, memory
  <1>17. CASE Restart
    BY <1>0, <1>17 DEF Restart, Loaded, TypeOK, disk, told
  <1>18. CASE Tick
    BY <1>18 DEF Tick, TypeOK, memory, disk, told
  <1>19. CASE UNCHANGED vars
    BY <1>19 DEF vars, TypeOK
  <1> QED
    BY <1>1, <1>2, <1>3, <1>4, <1>5, <1>6, <1>7, <1>8, <1>10, <1>11, <1>12, <1>14, <1>15,
       <1>16, <1>17, <1>18, <1>19
    DEF Next, Request, Write, FailedWrite

\* Type correctness: the stores hold entries, the operation in progress
\* carries what its next write needs.
THEOREM TypeCorrect == Spec => []TypeOK
  BY InitTypeOK, NextTypeOK, PTL DEF Spec

-----------------------------------------------------------------------------
(* Amendments and growth *)

\* What the operations do to an entry amends it, and amends what it amended.
LEMMA AmendsOps ==
  ASSUME NEW new \in Entry, NEW old \in Entry, Durable!Amends(new, old)
  PROVE  /\ Durable!Amends(ArchiveExpired(new), old)
         /\ Durable!Amends([new EXCEPT !.recalled = TRUE], old)
         /\ ~new.recalled =>
              \A text \in Text :
                Durable!Amends([new EXCEPT !.text = text, !.edited = TRUE], old)
  <1>1. Durable!Amends(ArchiveExpired(new), old)
    BY DEF Entry, ArchiveExpired, Durable!Amends
  <1>2. Durable!Amends([new EXCEPT !.recalled = TRUE], old)
    BY DEF Entry, Durable!Amends
  <1>3. ASSUME ~new.recalled, NEW text \in Text
        PROVE  Durable!Amends([new EXCEPT !.text = text, !.edited = TRUE], old)
    BY <1>3 DEF Entry, Durable!Amends
  <1> QED BY <1>1, <1>2, <1>3

LEMMA AmendsItself == ASSUME NEW entry \in Entry PROVE Durable!Amends(entry, entry)
  BY DEF Entry, Durable!Amends

\* Each timeline on disk is as it was or extended.
Grown == \A c \in Conversation : Durable!Extends(savedTimelines'[c], savedTimelines[c])

LEMMA UnchangedGrows ==
  ASSUME TypeOK, savedTimelines' = savedTimelines PROVE Grown
  <1> SUFFICES ASSUME NEW c \in Conversation
               PROVE  Durable!Extends(savedTimelines[c], savedTimelines[c])
    BY DEF Grown
  <1>1. savedTimelines[c] \in Seq(Entry)
    BY DEF TypeOK
  <1>2. \A i \in 1..Len(savedTimelines[c]) : savedTimelines[c][i] \in Entry
    BY <1>1, ElementOfSeq
  <1> QED BY <1>2, AmendsItself DEF Durable!Extends

LEMMA SavingGrows ==
  ASSUME TypeOK, NEW c \in Conversation, Behind(c), SaveTimeline(c) PROVE Grown
  <1> SUFFICES ASSUME NEW d \in Conversation
               PROVE  Durable!Extends(savedTimelines'[d], savedTimelines[d])
    BY DEF Grown
  <1>1. CASE d = c
    <2>1. savedTimelines'[d] = timelines[c]
      BY <1>1 DEF SaveTimeline, TypeOK
    <2>2. Len(savedTimelines[c]) \in Nat /\ Len(timelines[c]) \in Nat
      BY DEF TypeOK
    <2>3. Pushed(c) \in {0, 1}
      BY DEF Pushed
    <2>4. Len(timelines[c]) \in {Len(savedTimelines[c]), Len(savedTimelines[c]) + 1}
      BY <2>2, <2>3 DEF Behind
    <2>5. \A i \in 1..Len(savedTimelines[c]) :
            Durable!Amends(timelines[c][i], savedTimelines[c][i])
      BY DEF Behind
    <2> QED BY <1>1, <2>1, <2>4, <2>5 DEF Durable!Extends
  <1>2. CASE d # c
    <2>1. savedTimelines'[d] = savedTimelines[d]
      BY <1>2 DEF SaveTimeline, TypeOK
    <2>2. savedTimelines[d] \in Seq(Entry)
      BY DEF TypeOK
    <2>3. \A i \in 1..Len(savedTimelines[d]) : savedTimelines[d][i] \in Entry
      BY <2>2, ElementOfSeq
    <2> QED BY <2>1, <2>3, AmendsItself DEF Durable!Extends
  <1> QED BY <1>1, <1>2

\* A message on disk stays there, and stays recalled.
LEMMA GrownKeeps ==
  ASSUME TypeOK, Grown, NEW c \in Conversation, NEW i \in 1..Len(savedTimelines[c])
  PROVE  /\ i \in 1..Len(savedTimelines'[c])
         /\ savedTimelines'[c][i].id = savedTimelines[c][i].id
         /\ savedTimelines[c][i].recalled => savedTimelines'[c][i].recalled
  <1>1. Len(savedTimelines[c]) \in Nat
    BY DEF TypeOK
  <1>2. Durable!Extends(savedTimelines'[c], savedTimelines[c])
    BY DEF Grown
  <1> QED BY <1>1, <1>2 DEF Durable!Extends, Durable!Amends

\* Receipts are honoured as long as the files only grow.
LEMMA ReceiptsKept ==
  ASSUME TypeOK, Receipts, Grown, UNCHANGED told PROVE Receipts'
  <1>1. ASSUME NEW receipt \in acked
        PROVE  \E i \in 1..Len(savedTimelines'[receipt[1]]) :
                 savedTimelines'[receipt[1]][i].id = receipt[2]
    <2>1. receipt[1] \in Conversation
      BY DEF TypeOK
    <2> QED BY <2>1, GrownKeeps DEF Receipts
  <1>2. ASSUME NEW receipt \in ackedRecalls
        PROVE  \E i \in 1..Len(savedTimelines'[receipt[1]]) :
                 /\ savedTimelines'[receipt[1]][i].id = receipt[2]
                 /\ savedTimelines'[receipt[1]][i].recalled
    <2>1. receipt[1] \in Conversation
      BY DEF TypeOK
    <2>2. PICK i \in 1..Len(savedTimelines[receipt[1]]) :
            /\ savedTimelines[receipt[1]][i].id = receipt[2]
            /\ savedTimelines[receipt[1]][i].recalled
      BY DEF Receipts
    <2>3. /\ i \in 1..Len(savedTimelines'[receipt[1]])
          /\ savedTimelines'[receipt[1]][i].id = receipt[2]
          /\ savedTimelines'[receipt[1]][i].recalled
      BY <2>1, <2>2, GrownKeeps
    <2> QED BY <2>3
  <1> QED BY <1>1, <1>2 DEF Receipts, told

-----------------------------------------------------------------------------
(* The invariant is inductive: one lemma for each kind of step. *)

Appending == {"appendConversations", "appendTimeline"}

LEMMA InitInv == Init => Inv
  <1> SUFFICES ASSUME Init PROVE Inv
    OBVIOUS
  <1>1. TypeOK
    BY InitTypeOK
  <1>2. \A c \in Conversation : Behind(c)
    BY DEF Init, Behind, Pushed, NoTask
  <1>3. Listed /\ Underway /\ Receipts
    BY DEF Init, NoTask, Listed, Underway, Receipts, ArchiveStage
  <1> QED BY <1>1, <1>2, <1>3 DEF Inv

\* A conversation appears or is written, an operation ends: no message moves.
LEMMA SettledInv ==
  ASSUME Inv, TypeOK',
         UNCHANGED <<timelines, savedTimelines, acked, ackedRecalls>>,
         conversations \subseteq conversations',
         savedConversations' \in {savedConversations, conversations},
         task.stage \notin Appending,
         task'.stage \in {"idle", "upsert"}
  PROVE  Inv'
  <1>1. ASSUME NEW c \in Conversation PROVE Behind(c)'
    <2>1. Behind(c) /\ Pushed(c) = 0 /\ Pushed(c)' = 0
      BY DEF Inv, Pushed, Appending
    <2> QED BY <2>1 DEF Behind
  <1>2. Listed'
    BY DEF Inv, Listed
  <1>3. Underway'
    BY DEF Underway, ArchiveStage
  <1>4. Receipts'
    BY DEF Inv, Receipts
  <1> QED BY <1>1, <1>2, <1>3, <1>4 DEF Inv

\* A message is pushed.
LEMMA PushInv ==
  ASSUME Inv, TypeOK', NEW c \in conversations, NEW entry \in Entry, Push(c, entry),
         UNCHANGED <<conversations, savedTimelines, acked, ackedRecalls>>,
         savedConversations' \in {savedConversations, conversations},
         task.stage \notin Appending
  PROVE  Inv'
  <1> USE DEF TypeOK
  <1>1. c \in Conversation /\ timelines[c] \in Seq(Entry) /\ savedTimelines[c] \in Seq(Entry)
    BY DEF Inv
  <1>2. /\ task'.stage = "appendConversations"
        /\ task'.conversation = c
        /\ task'.entry = entry
    BY <1>1, WorkingTask DEF Push, AppendStage
  <1>3. timelines' = [timelines EXCEPT ![c] = Append(timelines[c], entry)]
    BY DEF Push
  <1>4. ASSUME NEW d \in Conversation PROVE Behind(d)'
    <2>1. Behind(d) /\ Pushed(d) = 0
      BY DEF Inv, Pushed, Appending
    <2>2. CASE d = c
      <3>1. timelines'[d] = Append(timelines[d], entry) /\ Pushed(d)' = 1
        BY <1>2, <1>3, <2>2 DEF Inv, Pushed
      <3>2. Len(timelines[d]) = Len(savedTimelines[d])
        BY <1>1, <2>1, <2>2 DEF Behind
      <3>3. /\ Len(timelines'[d]) = Len(savedTimelines[d]) + 1
            /\ \A i \in 1..Len(savedTimelines[d]) : timelines'[d][i] = timelines[d][i]
        BY <1>1, <2>2, <3>1, <3>2
      <3> QED BY <2>1, <3>1, <3>3 DEF Behind
    <2>3. CASE d # c
      <3>1. timelines'[d] = timelines[d] /\ Pushed(d)' = 0
        BY <1>2, <1>3, <2>3 DEF Inv, Pushed
      <3> QED BY <2>1, <3>1 DEF Behind
    <2> QED BY <2>2, <2>3
  <1>5. Listed'
    BY DEF Inv, Listed
  <1>6. Underway'
    <2>1. /\ timelines'[c] = Append(timelines[c], entry)
          /\ Len(Append(timelines[c], entry)) = Len(timelines[c]) + 1
          /\ Append(timelines[c], entry)[Len(timelines[c]) + 1] = entry
      BY <1>1, <1>3 DEF Inv
    <2>2. timelines'[c][Len(timelines'[c])].id = entry.id
      BY <2>1
    <2> QED BY <1>2, <2>2 DEF Underway, ArchiveStage
  <1>7. Receipts'
    BY DEF Inv, Receipts
  <1> QED BY <1>4, <1>5, <1>6, <1>7 DEF Inv

\* A message arrives for a conversation that is not known.
LEMMA IngestNewInv ==
  ASSUME Inv, TypeOK', NEW c \in Conversation, NEW entry \in Entry, Idle,
         conversations' = conversations \cup {c},
         task' = Working("upsertForAppend", c, entry),
         UNCHANGED <<timelines, savedConversations, savedTimelines, acked, ackedRecalls>>
  PROVE  Inv'
  <1>1. task.stage = "idle" /\ task'.stage = "upsertForAppend" /\ task'.conversation = c
    BY DEF Idle, NoTask, Working
  <1>2. ASSUME NEW d \in Conversation PROVE Behind(d)'
    <2>1. Behind(d) /\ Pushed(d) = 0 /\ Pushed(d)' = 0
      BY <1>1 DEF Inv, Pushed
    <2> QED BY <2>1 DEF Behind
  <1>3. Listed' /\ Underway' /\ Receipts'
    BY <1>1 DEF Inv, Listed, Underway, Receipts, ArchiveStage
  <1> QED BY <1>2, <1>3 DEF Inv

LEMMA AppendConversationsInv ==
  ASSUME Inv, TypeOK', AppendConversationsSaved PROVE Inv'
  <1>1. /\ task.stage = "appendConversations"
        /\ task'.stage = "appendTimeline"
        /\ task'.conversation = task.conversation
        /\ task'.entry = task.entry
    BY TaskCarries DEF Inv, TypeOK, AppendConversationsSaved, AppendStage
  <1>2. /\ savedConversations' = conversations
        /\ UNCHANGED <<timelines, savedTimelines, conversations, acked, ackedRecalls>>
    BY DEF AppendConversationsSaved, SaveConversations, memory, told
  <1>3. ASSUME NEW d \in Conversation PROVE Behind(d)'
    <2>1. Behind(d) /\ Pushed(d)' = Pushed(d)
      BY <1>1 DEF Inv, Pushed
    <2> QED BY <1>2, <2>1 DEF Behind
  <1>4. Listed'
    BY <1>2 DEF Inv, Listed
  <1>5. Underway'
    BY <1>1, <1>2 DEF Inv, Underway, ArchiveStage
  <1>6. Receipts'
    BY <1>2 DEF Inv, Receipts
  <1> QED BY <1>3, <1>4, <1>5, <1>6 DEF Inv

LEMMA AppendTimelineInv ==
  ASSUME Inv, TypeOK', AppendTimelineSaved PROVE Inv'
  <1> DEFINE c == task.conversation
  <1>1. /\ task.stage = "appendTimeline"
        /\ c \in Conversation
        /\ task'.stage = "archiveConversations"
        /\ task'.conversation = c
        /\ task'.entry = task.entry
    BY TaskCarries DEF Inv, TypeOK, AppendTimelineSaved, AppendStage
  <1>2. /\ SaveTimeline(c)
        /\ UNCHANGED <<conversations, savedConversations, acked, ackedRecalls>>
    BY DEF AppendTimelineSaved, SaveTimeline, told
  <1>3. ASSUME NEW d \in Conversation
        PROVE  /\ timelines[d] \in Seq(Entry) /\ savedTimelines[d] \in Seq(Entry)
               /\ timelines'[d] \in Seq(Entry)
               /\ Len(timelines'[d]) = Len(timelines[d])
               /\ \A i \in 1..Len(timelines[d]) :
                    timelines'[d][i] = ArchiveExpired(timelines[d][i])
    <2>1. timelines[d] \in Seq(Entry) /\ savedTimelines[d] \in Seq(Entry)
      BY DEF Inv, TypeOK
    <2>2. timelines'[d] = [i \in DOMAIN timelines[d] |-> ArchiveExpired(timelines[d][i])]
      BY DEF AppendTimelineSaved
    <2> QED BY <2>1, <2>2, ArchivedSeq
  <1>4. savedTimelines'[c] = timelines[c]
    BY <1>1, <1>2 DEF SaveTimeline, Inv, TypeOK
  <1>5. ASSUME NEW d \in Conversation PROVE Behind(d)'
    <2>1. Behind(d) /\ Pushed(d)' = 0
      BY <1>1 DEF Inv, Pushed
    <2>2. CASE d = c
      <3>1. ASSUME NEW i \in 1..Len(timelines[d])
            PROVE  Durable!Amends(timelines'[d][i], timelines[d][i])
        <4>1. timelines[d][i] \in Entry
          BY <1>3, ElementOfSeq
        <4> QED BY <1>3, <4>1, AmendsItself, AmendsOps
      <3> QED BY <1>3, <1>4, <2>1, <2>2, <3>1 DEF Behind
    <2>3. CASE d # c
      <3>1. savedTimelines'[d] = savedTimelines[d] /\ Pushed(d) = 0
        BY <1>1, <1>2, <2>3 DEF SaveTimeline, Inv, TypeOK, Pushed
      <3>2. Len(savedTimelines[d]) = Len(timelines[d])
        BY <1>3, <2>1, <3>1 DEF Behind
      <3>3. ASSUME NEW i \in 1..Len(savedTimelines[d])
            PROVE  Durable!Amends(timelines'[d][i], savedTimelines[d][i])
        <4>1. timelines[d][i] \in Entry /\ savedTimelines[d][i] \in Entry
          BY <1>3, <3>2, ElementOfSeq
        <4>2. Durable!Amends(timelines[d][i], savedTimelines[d][i])
          BY <2>1 DEF Behind
        <4> QED BY <1>3, <3>2, <4>1, <4>2, AmendsOps
      <3> QED BY <1>3, <2>1, <3>1, <3>2, <3>3 DEF Behind
    <2> QED BY <2>2, <2>3
  <1>6. Listed'
    <2>1. c \in savedConversations
      BY <1>1 DEF Inv, Underway
    <2> QED BY <1>2, <2>1 DEF Inv, TypeOK, Listed, SaveTimeline
  <1>7. Underway'
    <2>1. Len(timelines[c]) \in 1..Len(timelines[c])
      <3>1. Len(timelines[c]) = Len(savedTimelines[c]) + 1
        BY <1>1 DEF Inv, Behind, Pushed
      <3> QED BY <1>1, <1>3, <3>1
    <2>2. timelines[c][Len(timelines[c])].id = task.entry.id
      BY <1>1 DEF Inv, Underway
    <2> QED BY <1>1, <1>4, <2>1, <2>2 DEF Underway
  <1>8. Receipts'
    BY <1>1, <1>2, SavingGrows, ReceiptsKept DEF Inv, told
  <1> QED BY <1>5, <1>6, <1>7, <1>8 DEF Inv

LEMMA AppendFailedInv ==
  ASSUME Inv, TypeOK', AppendFailed PROVE Inv'
  <1> DEFINE c == task.conversation
  <1>1. /\ task.stage \in Appending
        /\ c \in Conversation
        /\ task'.stage = "idle"
    BY TaskCarries DEF Inv, TypeOK, AppendFailed, AppendStage, Appending, NoTask
  <1>2. /\ timelines' = [timelines EXCEPT ![c] = Front(timelines[c])]
        /\ UNCHANGED <<conversations, savedConversations, savedTimelines, acked, ackedRecalls>>
    BY DEF AppendFailed, disk, told
  <1>3. ASSUME NEW d \in Conversation PROVE Behind(d)'
    <2>1. Behind(d) /\ Pushed(d)' = 0
      BY <1>1 DEF Inv, Pushed
    <2>2. timelines[d] \in Seq(Entry) /\ savedTimelines[d] \in Seq(Entry)
      BY DEF Inv, TypeOK
    <2>3. CASE d = c
      <3>1. Len(timelines[d]) = Len(savedTimelines[d]) + 1
        BY <1>1, <2>1, <2>3 DEF Behind, Pushed, Appending
      <3>2. timelines'[d] = Front(timelines[d])
        BY <1>2, <2>3 DEF Inv, TypeOK
      <3>3. /\ Len(timelines'[d]) = Len(savedTimelines[d])
            /\ \A i \in 1..Len(savedTimelines[d]) : timelines'[d][i] = timelines[d][i]
        BY <2>2, <3>1, <3>2 DEF Front
      <3> QED BY <1>2, <2>1, <2>2, <3>3 DEF Behind
    <2>4. CASE d # c
      <3>1. timelines'[d] = timelines[d] /\ Pushed(d) = 0
        BY <1>2, <2>4 DEF Inv, TypeOK, Pushed
      <3> QED BY <1>2, <2>1, <3>1 DEF Behind
    <2> QED BY <2>3, <2>4
  <1>4. Listed' /\ Receipts'
    BY <1>2 DEF Inv, Listed, Receipts
  <1>5. Underway'
    BY <1>1 DEF Underway, ArchiveStage
  <1> QED BY <1>3, <1>4, <1>5 DEF Inv

LEMMA ArchiveConversationsInv ==
  ASSUME Inv, TypeOK', ArchiveConversationsSaved PROVE Inv'
  <1>1. /\ task.stage = "archiveConversations"
        /\ task'.stage = "archiveTimelines"
        /\ task'.conversation = task.conversation
        /\ task'.entry = task.entry
        /\ task'.left = conversations
    BY DEF ArchiveConversationsSaved
  <1>2. /\ savedConversations' = conversations
        /\ UNCHANGED <<timelines, savedTimelines, conversations, acked, ackedRecalls>>
    BY DEF ArchiveConversationsSaved, SaveConversations, memory, told
  <1>3. ASSUME NEW d \in Conversation PROVE Behind(d)'
    <2>1. Behind(d) /\ Pushed(d) = 0 /\ Pushed(d)' = 0
      BY <1>1 DEF Inv, Pushed
    <2> QED BY <1>2, <2>1 DEF Behind
  <1>4. Listed' /\ Receipts'
    BY <1>2 DEF Inv, Listed, Receipts
  <1>5. Underway'
    BY <1>1, <1>2 DEF Inv, Underway, ArchiveStage
  <1> QED BY <1>3, <1>4, <1>5 DEF Inv

\* A timeline is written as it is in memory, outside append_message.
LEMMA SavingInv ==
  ASSUME Inv, TypeOK', NEW c \in Conversation, SaveTimeline(c),
         UNCHANGED <<timelines, conversations>>,
         task.stage \notin Appending, task'.stage \notin Appending
  PROVE  /\ \A d \in Conversation : Behind(d)'
         /\ Listed'
         /\ Grown
         /\ savedTimelines'[c] = timelines[c]
  <1>1. savedTimelines'[c] = timelines[c] /\ UNCHANGED savedConversations
    BY DEF SaveTimeline, Inv, TypeOK
  <1>2. ASSUME NEW d \in Conversation PROVE Behind(d)'
    <2>1. Behind(d) /\ Pushed(d) = 0 /\ Pushed(d)' = 0
      BY DEF Inv, Pushed, Appending
    <2>2. timelines[d] \in Seq(Entry)
      BY DEF Inv, TypeOK
    <2>3. CASE d = c
      <3>1. \A i \in 1..Len(timelines[d]) : Durable!Amends(timelines[d][i], timelines[d][i])
        BY <2>2, ElementOfSeq, AmendsItself
      <3> QED BY <1>1, <2>1, <2>2, <2>3, <3>1 DEF Behind
    <2>4. CASE d # c
      <3>1. savedTimelines'[d] = savedTimelines[d]
        BY <2>4 DEF SaveTimeline, Inv, TypeOK
      <3> QED BY <2>1, <3>1 DEF Behind
    <2> QED BY <2>3, <2>4
  <1>3. Listed'
    <2>1. timelines[c] # <<>> => c \in savedConversations
      <3>1. Behind(c) /\ Pushed(c) = 0
        BY DEF Inv, Pushed, Appending
      <3>2. timelines[c] \in Seq(Entry) /\ savedTimelines[c] \in Seq(Entry)
        BY DEF Inv, TypeOK
      <3>3. timelines[c] # <<>> => savedTimelines[c] # <<>>
        BY <3>1, <3>2 DEF Behind
      <3> QED BY <3>3 DEF Inv, Listed
    <2> QED BY <1>1, <2>1 DEF SaveTimeline, Inv, TypeOK, Listed
  <1>4. Grown
    BY SavingGrows DEF Inv
  <1> QED BY <1>1, <1>2, <1>3, <1>4

\* Archiving ends, well or badly, and the sender is told "delivered".
LEMMA AcknowledgedReceipts ==
  ASSUME Inv, Grown, task.stage \in ArchiveStage, AcknowledgeAppend PROVE Receipts'
  <1> DEFINE c == task.conversation
  <1>1. c \in Conversation
    BY TaskCarries DEF Inv, TypeOK
  <1>2. PICK i \in 1..Len(savedTimelines[c]) : savedTimelines[c][i].id = task.entry.id
    BY DEF Inv, Underway
  <1>3. i \in 1..Len(savedTimelines'[c]) /\ savedTimelines'[c][i].id = task.entry.id
    BY <1>1, <1>2, GrownKeeps DEF Inv
  <1>4. ASSUME NEW receipt \in acked'
        PROVE  \E j \in 1..Len(savedTimelines'[receipt[1]]) :
                 savedTimelines'[receipt[1]][j].id = receipt[2]
    <2>1. CASE receipt = <<c, task.entry.id>>
      BY <1>3, <2>1
    <2>2. CASE receipt \in acked
      <3>1. receipt[1] \in Conversation
        BY <2>2 DEF Inv, TypeOK
      <3>2. PICK j \in 1..Len(savedTimelines[receipt[1]]) :
              savedTimelines[receipt[1]][j].id = receipt[2]
        BY <2>2 DEF Inv, Receipts
      <3> QED BY <3>1, <3>2, GrownKeeps DEF Inv
    <2> QED BY <2>1, <2>2 DEF AcknowledgeAppend
  <1>5. ASSUME NEW receipt \in ackedRecalls'
        PROVE  \E j \in 1..Len(savedTimelines'[receipt[1]]) :
                 /\ savedTimelines'[receipt[1]][j].id = receipt[2]
                 /\ savedTimelines'[receipt[1]][j].recalled
    <2>1. receipt \in ackedRecalls
      BY DEF AcknowledgeAppend
    <2>2. receipt[1] \in Conversation
      BY <2>1 DEF Inv, TypeOK
    <2>3. PICK j \in 1..Len(savedTimelines[receipt[1]]) :
            /\ savedTimelines[receipt[1]][j].id = receipt[2]
            /\ savedTimelines[receipt[1]][j].recalled
      BY <2>1 DEF Inv, Receipts
    <2> QED BY <2>2, <2>3, GrownKeeps DEF Inv
  <1> QED BY <1>4, <1>5 DEF Receipts

LEMMA ArchiveTimelineInv ==
  ASSUME Inv, TypeOK', NEW c \in Conversation, ArchiveTimelineSaved(c) PROVE Inv'
  <1>1. /\ task.stage = "archiveTimelines"
        /\ SaveTimeline(c)
        /\ UNCHANGED <<timelines, conversations>>
    BY DEF ArchiveTimelineSaved, memory
  <1>2. CASE task.left = {c}
    <2>1. AcknowledgeAppend /\ task'.stage = "idle"
      BY <1>2 DEF ArchiveTimelineSaved, AcknowledgeAppend, NoTask
    <2>2. (\A d \in Conversation : Behind(d)') /\ Listed' /\ Grown
      BY <1>1, <2>1, SavingInv DEF Appending
    <2>3. Receipts'
      BY <1>1, <2>1, <2>2, AcknowledgedReceipts DEF ArchiveStage
    <2>4. Underway'
      BY <2>1 DEF Underway, ArchiveStage
    <2> QED BY <2>2, <2>3, <2>4 DEF Inv
  <1>3. CASE task.left # {c}
    <2>1. /\ task' = [task EXCEPT !.left = task.left \ {c}]
          /\ UNCHANGED told
      BY <1>3 DEF ArchiveTimelineSaved
    <2>2. task \in [stage : {"archiveTimelines"}, conversation : Conversation,
                    entry : Entry, left : SUBSET Conversation]
      BY <1>1 DEF Inv, TypeOK, Task, AppendStage, AmendStage
    <2>3. /\ task'.stage = "archiveTimelines"
          /\ task'.conversation = task.conversation
          /\ task'.entry = task.entry
          /\ task'.left \subseteq task.left
      BY <2>1, <2>2
    <2>4. (\A d \in Conversation : Behind(d)') /\ Listed' /\ Grown
      BY <1>1, <2>3, SavingInv DEF Appending
    <2>5. Receipts'
      BY <2>1, <2>4, ReceiptsKept DEF Inv
    <2>6. Underway'
      <3>1. PICK i \in 1..Len(savedTimelines[task.conversation]) :
              savedTimelines[task.conversation][i].id = task.entry.id
        BY <1>1 DEF Inv, Underway, ArchiveStage
      <3>2. /\ i \in 1..Len(savedTimelines'[task.conversation])
            /\ savedTimelines'[task.conversation][i].id = task.entry.id
        BY <2>2, <2>4, <3>1, GrownKeeps DEF Inv
      <3>3. task.left \subseteq savedConversations /\ UNCHANGED savedConversations
        BY <1>1 DEF Inv, Underway, SaveTimeline
      <3> QED BY <2>3, <3>2, <3>3 DEF Underway
    <2> QED BY <2>4, <2>5, <2>6 DEF Inv
  <1> QED BY <1>2, <1>3

LEMMA ArchiveFailedInv ==
  ASSUME Inv, TypeOK', ArchiveFailed PROVE Inv'
  <1>1. /\ task.stage \in ArchiveStage /\ AcknowledgeAppend /\ task'.stage = "idle"
        /\ UNCHANGED <<timelines, conversations, savedTimelines, savedConversations>>
    BY DEF ArchiveFailed, AcknowledgeAppend, NoTask, memory, disk
  <1>2. ASSUME NEW d \in Conversation PROVE Behind(d)'
    <2>1. Behind(d) /\ Pushed(d) = 0 /\ Pushed(d)' = 0
      BY <1>1 DEF Inv, Pushed, ArchiveStage
    <2> QED BY <1>1, <2>1 DEF Behind
  <1>3. Listed'
    BY <1>1 DEF Inv, Listed
  <1>4. Underway'
    BY <1>1 DEF Underway, ArchiveStage
  <1>5. Receipts'
    BY <1>1, UnchangedGrows, AcknowledgedReceipts DEF Inv
  <1> QED BY <1>2, <1>3, <1>4, <1>5 DEF Inv

\* An entry is edited or recalled in memory.
LEMMA AmendInv ==
  ASSUME Inv, TypeOK', NEW c \in Conversation, NEW i \in DOMAIN timelines[c], NEW entry \in Entry,
         NEW stage \in AmendStage, Amend(c, i, entry, stage),
         entry.id = timelines[c][i].id,
         stage = "recallTimeline" => entry.recalled,
         \A old \in Entry : Durable!Amends(timelines[c][i], old) => Durable!Amends(entry, old)
  PROVE  Inv'
  <1>1. /\ task.stage = "idle"
        /\ task'.stage = stage
        /\ task'.conversation = c
        /\ task'.entry = entry
        /\ timelines' = [timelines EXCEPT ![c][i] = entry]
        /\ UNCHANGED <<conversations, savedConversations, savedTimelines, acked, ackedRecalls>>
    BY DEF Amend, Idle, NoTask, Working, disk, told
  <1>2. /\ timelines[c] \in Seq(Entry) /\ savedTimelines[c] \in Seq(Entry)
        /\ timelines'[c] = [timelines[c] EXCEPT ![i] = entry]
    BY <1>1 DEF Inv, TypeOK
  <1>3. /\ Len(timelines'[c]) = Len(timelines[c])
        /\ i \in 1..Len(timelines[c])
        /\ \A j \in 1..Len(timelines[c]) :
             timelines'[c][j] = IF j = i THEN entry ELSE timelines[c][j]
    BY <1>2, ExceptSeq
  <1>4. ASSUME NEW d \in Conversation PROVE Behind(d)'
    <2>1. Behind(d) /\ Pushed(d) = 0 /\ Pushed(d)' = 0
      BY <1>1 DEF Inv, Pushed, AmendStage
    <2>2. CASE d = c
      <3>1. Len(savedTimelines[c]) = Len(timelines[c])
        BY <1>2, <2>1, <2>2 DEF Behind
      <3>2. ASSUME NEW j \in 1..Len(savedTimelines[c])
            PROVE  Durable!Amends(timelines'[c][j], savedTimelines[c][j])
        <4>1. savedTimelines[c][j] \in Entry
          BY <1>2, ElementOfSeq
        <4>2. Durable!Amends(timelines[c][j], savedTimelines[c][j])
          BY <2>1, <2>2 DEF Behind
        <4> QED BY <1>3, <3>1, <4>1, <4>2
      <3> QED BY <1>1, <1>3, <2>1, <2>2, <3>1, <3>2 DEF Behind
    <2>3. CASE d # c
      <3>1. timelines'[d] = timelines[d]
        BY <1>1, <2>3 DEF Inv, TypeOK
      <3> QED BY <1>1, <2>1, <3>1 DEF Behind
    <2> QED BY <2>2, <2>3
  <1>5. Listed' /\ Receipts'
    BY <1>1 DEF Inv, Listed, Receipts
  <1>6. Underway'
    <2>1. stage = "recallTimeline" =>
            \E j \in 1..Len(timelines'[c]) :
              timelines'[c][j].id = entry.id /\ timelines'[c][j].recalled
      BY <1>3
    <2> QED BY <1>1, <2>1 DEF Underway, ArchiveStage, AmendStage
  <1> QED BY <1>4, <1>5, <1>6 DEF Inv

LEMMA EditInv ==
  ASSUME Inv, TypeOK', NEW c \in Conversation, NEW i \in DOMAIN timelines[c],
         NEW actor \in Resident, NEW text \in Text, EditMessage(c, i, actor, text)
  PROVE  Inv'
  <1> DEFINE entry == [timelines[c][i] EXCEPT !.text = text, !.edited = TRUE]
  <1>1. timelines[c][i] \in Entry
    BY DEF Inv, TypeOK
  <1>2. entry \in Entry /\ entry.id = timelines[c][i].id
    BY <1>1 DEF Entry
  <1>3. ~timelines[c][i].recalled /\ Amend(c, i, entry, "editTimeline")
    BY DEF EditMessage
  <1>4. \A old \in Entry : Durable!Amends(timelines[c][i], old) => Durable!Amends(entry, old)
    BY <1>1, <1>3, AmendsOps
  <1> QED BY <1>2, <1>3, <1>4, AmendInv DEF AmendStage

LEMMA RecallInv ==
  ASSUME Inv, TypeOK', NEW c \in Conversation, NEW i \in DOMAIN timelines[c],
         NEW actor \in Resident, RecallMessage(c, i, actor)
  PROVE  Inv'
  <1> DEFINE entry == [timelines[c][i] EXCEPT !.recalled = TRUE]
  <1>1. timelines[c][i] \in Entry
    BY DEF Inv, TypeOK
  <1>2. entry \in Entry /\ entry.id = timelines[c][i].id /\ entry.recalled
    BY <1>1 DEF Entry
  <1>3. Amend(c, i, entry, "recallTimeline")
    BY DEF RecallMessage
  <1>4. \A old \in Entry : Durable!Amends(timelines[c][i], old) => Durable!Amends(entry, old)
    BY <1>1, AmendsOps
  <1> QED BY <1>2, <1>3, <1>4, AmendInv DEF AmendStage

LEMMA EditSavedInv ==
  ASSUME Inv, TypeOK', EditSaved PROVE Inv'
  <1>1. /\ task.stage = "editTimeline" /\ task'.stage = "idle"
        /\ SaveTimeline(task.conversation)
        /\ UNCHANGED <<timelines, conversations>> /\ UNCHANGED told
    BY DEF EditSaved, NoTask, memory
  <1>2. task.conversation \in Conversation
    BY <1>1, TaskCarries DEF Inv, TypeOK, AmendStage
  <1>3. (\A d \in Conversation : Behind(d)') /\ Listed' /\ Grown
    BY <1>1, <1>2, SavingInv DEF Appending
  <1>4. Receipts' /\ Underway'
    BY <1>1, <1>3, ReceiptsKept DEF Inv, Underway, ArchiveStage
  <1> QED BY <1>3, <1>4 DEF Inv

LEMMA RecallSavedInv ==
  ASSUME Inv, TypeOK', RecallSaved PROVE Inv'
  <1> DEFINE c == task.conversation
  <1>1. /\ task.stage = "recallTimeline" /\ task'.stage = "idle"
        /\ SaveTimeline(c)
        /\ UNCHANGED <<timelines, conversations, acked>>
        /\ ackedRecalls' = ackedRecalls \cup {<<c, task.entry.id>>}
    BY DEF RecallSaved, NoTask, memory
  <1>2. c \in Conversation
    BY <1>1, TaskCarries DEF Inv, TypeOK, AmendStage
  <1>3. /\ \A d \in Conversation : Behind(d)'
        /\ Listed' /\ Grown
        /\ savedTimelines'[c] = timelines[c]
    BY <1>1, <1>2, SavingInv DEF Appending
  <1>4. Underway'
    BY <1>1 DEF Underway, ArchiveStage
  <1>5. ASSUME NEW receipt \in acked'
        PROVE  \E j \in 1..Len(savedTimelines'[receipt[1]]) :
                 savedTimelines'[receipt[1]][j].id = receipt[2]
    <2>1. receipt \in acked /\ receipt[1] \in Conversation
      BY <1>1 DEF Inv, TypeOK
    <2> QED BY <1>3, <2>1, GrownKeeps DEF Inv, Receipts
  <1>6. ASSUME NEW receipt \in ackedRecalls'
        PROVE  \E j \in 1..Len(savedTimelines'[receipt[1]]) :
                 /\ savedTimelines'[receipt[1]][j].id = receipt[2]
                 /\ savedTimelines'[receipt[1]][j].recalled
    <2>1. CASE receipt = <<c, task.entry.id>>
      BY <1>1, <1>3, <2>1 DEF Inv, Underway
    <2>2. CASE receipt \in ackedRecalls
      <3>1. receipt[1] \in Conversation
        BY <2>2 DEF Inv, TypeOK
      <3>2. PICK j \in 1..Len(savedTimelines[receipt[1]]) :
              /\ savedTimelines[receipt[1]][j].id = receipt[2]
              /\ savedTimelines[receipt[1]][j].recalled
        BY <2>2 DEF Inv, Receipts
      <3> QED BY <1>3, <3>1, <3>2, GrownKeeps DEF Inv
    <2> QED BY <1>1, <2>1, <2>2
  <1> QED BY <1>3, <1>4, <1>5, <1>6 DEF Inv, Receipts

\* Under the invariant a restart finds every timeline.
LEMMA LoadedIsSaved ==
  ASSUME Listed, NEW c \in Conversation PROVE Loaded(c) = savedTimelines[c]
  BY DEF Listed, Loaded

LEMMA RestartInv ==
  ASSUME Inv, TypeOK', Restart PROVE Inv'
  <1>1. /\ task'.stage = "idle"
        /\ conversations' = savedConversations
        /\ \A c \in Conversation : timelines'[c] = savedTimelines[c]
        /\ UNCHANGED <<savedTimelines, savedConversations, acked, ackedRecalls>>
    BY LoadedIsSaved DEF Inv, Restart, NoTask, disk, told
  <1>2. ASSUME NEW c \in Conversation PROVE Behind(c)'
    <2>1. savedTimelines[c] \in Seq(Entry) /\ Pushed(c)' = 0
      BY <1>1 DEF Inv, TypeOK, Pushed
    <2>2. \A i \in 1..Len(savedTimelines[c]) :
            Durable!Amends(savedTimelines[c][i], savedTimelines[c][i])
      BY <2>1, ElementOfSeq, AmendsItself
    <2> QED BY <1>1, <2>1, <2>2 DEF Behind
  <1>3. Listed' /\ Underway' /\ Receipts'
    BY <1>1 DEF Inv, Listed, Underway, Receipts, ArchiveStage
  <1> QED BY <1>2, <1>3 DEF Inv

LEMMA SameInv ==
  ASSUME Inv, TypeOK', UNCHANGED <<conversations, timelines, savedConversations,
                                   savedTimelines, task, acked, ackedRecalls>>
  PROVE  Inv'
  BY DEF Inv, Behind, Pushed, Listed, Underway, Receipts

LEMMA NextInv == Inv /\ [Next]_vars => Inv'
  <1> SUFFICES ASSUME Inv, [Next]_vars PROVE Inv'
    OBVIOUS
  <1>0. TypeOK'
    BY NextTypeOK DEF Inv
  <1>1. ASSUME NEW c \in Conversation, UpsertConversation(c) PROVE Inv'
    BY <1>0, <1>1, SettledInv DEF UpsertConversation, Idle, NoTask, Appending, disk, told
  <1>2. CASE UpsertSaved
    BY <1>0, <1>2, SettledInv DEF UpsertSaved, SaveConversations, NoTask, Appending, memory, told
  <1>3. CASE UpsertFailed \/ UpsertForAppendFailed \/ AmendFailed
    BY <1>0, <1>3, SettledInv
      DEF UpsertFailed, UpsertForAppendFailed, AmendFailed, AmendStage, NoTask, Appending,
          memory, disk, told
  <1>4. ASSUME NEW c \in Conversation, NEW id \in MessageId, NEW sender \in Resident,
               NEW text \in Text, NEW timestamp \in 0..now, Ingest(c, id, sender, text, timestamp)
        PROVE  Inv'
    <2> DEFINE entry == NewEntry(id, sender, text, timestamp)
    <2>1. entry \in Entry
      <3>1. timestamp \in Nat
        BY DEF Inv, TypeOK
      <3> QED BY <3>1, EntryOps
    <2>2. Idle /\ task.stage \notin Appending
      BY <1>4 DEF Ingest, Idle, NoTask, Appending
    <2>3. UNCHANGED <<savedConversations, savedTimelines, acked, ackedRecalls>>
      BY <1>4 DEF Ingest, disk, told
    <2>4. CASE c \in conversations /\ Push(c, entry) /\ UNCHANGED conversations
      BY <1>0, <2>1, <2>2, <2>3, <2>4, PushInv
    <2>5. CASE /\ conversations' = conversations \cup {c}
               /\ task' = Working("upsertForAppend", c, entry)
               /\ UNCHANGED timelines
      BY <1>0, <2>1, <2>2, <2>3, <2>5, IngestNewInv
    <2> QED BY <1>4, <2>4, <2>5 DEF Ingest
  <1>5. CASE UpsertForAppendSaved
    <2>1. task.stage = "upsertForAppend" /\ task.conversation \in conversations
      BY <1>5 DEF UpsertForAppendSaved, Inv, Underway
    <2>2. task.entry \in Entry
      BY <2>1, TaskCarries DEF Inv, TypeOK, AppendStage
    <2> QED BY <1>0, <1>5, <2>1, <2>2, PushInv
          DEF UpsertForAppendSaved, SaveConversations, Appending, told
  <1>6. ASSUME NEW c \in Conversation, NEW i \in DOMAIN timelines[c], NEW actor \in Resident,
               \/ \E text \in Text : EditMessage(c, i, actor, text)
               \/ RecallMessage(c, i, actor)
        PROVE  Inv'
    BY <1>0, <1>6, EditInv, RecallInv
  <1>7. ASSUME NEW c \in Conversation, ArchiveTimelineSaved(c) PROVE Inv'
    BY <1>0, <1>7, ArchiveTimelineInv
  <1>8. CASE Tick \/ UNCHANGED vars
    BY <1>0, <1>8, SameInv DEF Tick, vars, memory, disk, told
  <1> QED
    BY <1>0, <1>1, <1>2, <1>3, <1>4, <1>5, <1>6, <1>7, <1>8,
       AppendConversationsInv, AppendTimelineInv, AppendFailedInv, ArchiveConversationsInv,
       ArchiveFailedInv, EditSavedInv, RecallSavedInv, RestartInv
    DEF Next, Request, Write, FailedWrite

LEMMA Invariance == Spec => []Inv
  BY InitInv, NextInv, PTL DEF Spec

-----------------------------------------------------------------------------
(* The theorems *)

\* A message whose sender was told "delivered" is in the files a restart
\* reads, whatever fails or stops afterwards (FileTimelineStore::append_message,
\* archive_expired_messages, load_from_disk).
THEOREM DeliveredIsDurable == Spec => []AckedDurable
  <1>1. Inv => AckedDurable
    <2> SUFFICES ASSUME Inv, NEW receipt \in acked
                 PROVE  \E i \in DOMAIN Loaded(receipt[1]) : Loaded(receipt[1])[i].id = receipt[2]
      BY DEF AckedDurable
    <2>1. receipt[1] \in Conversation
      BY DEF Inv, TypeOK
    <2>2. /\ Loaded(receipt[1]) = savedTimelines[receipt[1]]
          /\ savedTimelines[receipt[1]] \in Seq(Entry)
      BY <2>1, LoadedIsSaved DEF Inv, TypeOK
    <2>3. DOMAIN savedTimelines[receipt[1]] = 1..Len(savedTimelines[receipt[1]])
      BY <2>2
    <2> QED BY <2>2, <2>3 DEF Inv, Receipts
  <1> QED BY <1>1, Invariance, PTL

\* A confirmed recall is never undone by a failed write, a stop or a restart
\* (FileTimelineStore::recall_message).
THEOREM RecallIsDurable == Spec => []AckedRecallDurable
  <1>1. Inv => AckedRecallDurable
    <2> SUFFICES ASSUME Inv, NEW receipt \in ackedRecalls
                 PROVE  \E i \in DOMAIN Loaded(receipt[1]) :
                          /\ Loaded(receipt[1])[i].id = receipt[2]
                          /\ Loaded(receipt[1])[i].recalled
      BY DEF AckedRecallDurable
    <2>1. receipt[1] \in Conversation
      BY DEF Inv, TypeOK
    <2>2. /\ Loaded(receipt[1]) = savedTimelines[receipt[1]]
          /\ savedTimelines[receipt[1]] \in Seq(Entry)
      BY <2>1, LoadedIsSaved DEF Inv, TypeOK
    <2>3. DOMAIN savedTimelines[receipt[1]] = 1..Len(savedTimelines[receipt[1]])
      BY <2>2
    <2> QED BY <2>2, <2>3 DEF Inv, Receipts
  <1> QED BY <1>1, Invariance, PTL

\* Between operations memory and disk hold the same messages in the same
\* order, whichever writes failed (the rollback of append_message).
THEOREM MemoryMatchesDisk == Spec => []MessagesAgree
  <1>1. Inv => MessagesAgree
    <2> SUFFICES ASSUME Inv, Idle, NEW c \in Conversation
                 PROVE  /\ Len(timelines[c]) = Len(Loaded(c))
                        /\ \A i \in DOMAIN timelines[c] :
                             SameMessage(timelines[c][i], Loaded(c)[i])
      BY DEF MessagesAgree
    <2>1. /\ Loaded(c) = savedTimelines[c]
          /\ timelines[c] \in Seq(Entry) /\ savedTimelines[c] \in Seq(Entry)
      BY LoadedIsSaved DEF Inv, TypeOK
    <2>2. Behind(c) /\ Pushed(c) = 0
      BY DEF Inv, Idle, NoTask, Pushed
    <2>3. Len(timelines[c]) = Len(savedTimelines[c]) /\ DOMAIN timelines[c] = 1..Len(timelines[c])
      BY <2>1, <2>2 DEF Behind
    <2>4. \A i \in 1..Len(savedTimelines[c]) : SameMessage(timelines[c][i], savedTimelines[c][i])
      BY <2>2 DEF Behind, SameMessage, Durable!Amends
    <2> QED BY <2>1, <2>3, <2>4
  <1> QED BY <1>1, Invariance, PTL

\* One step of the store is at most one entry of DurableLog.
LEMMA StepRefines == Inv /\ Inv' /\ [Next]_vars => [Durable!Next]_SavedLog
  <1> SUFFICES ASSUME Inv, Inv', [Next]_vars PROVE [Durable!Next]_SavedLog
    OBVIOUS
  <1>1. SavedLog = savedTimelines
    BY LoadedIsSaved DEF Inv, TypeOK, SavedLog
  <1>2. SavedLog' = savedTimelines'
    <2>1. \A c \in Conversation : Loaded(c)' = savedTimelines'[c]
      BY DEF Inv, Listed, Loaded
    <2> QED BY <2>1 DEF Inv, TypeOK, SavedLog
  <1>3. CASE savedTimelines' = savedTimelines
    BY <1>1, <1>2, <1>3
  <1>4. ASSUME NEW c \in Conversation, SaveTimeline(c) PROVE Durable!Next
    <2>1. Durable!Extends(savedTimelines'[c], savedTimelines[c])
      BY <1>4, SavingGrows DEF Inv, Grown
    <2>2. savedTimelines' = [savedTimelines EXCEPT ![c] = savedTimelines'[c]]
      BY <1>4 DEF SaveTimeline, Inv, TypeOK
    <2>3. Durable!Record(c)
      BY <1>1, <1>2, <2>1, <2>2 DEF Durable!Record
    <2> QED BY <2>3 DEF Durable!Next
  <1>5. \/ savedTimelines' = savedTimelines
        \/ \E c \in Conversation : SaveTimeline(c)
    <2>1. task.stage \in AppendStage \cup AmendStage => task.conversation \in Conversation
      BY TaskCarries DEF Inv, TypeOK
    <2>2. CASE Request
      BY <2>2 DEF Request, UpsertConversation, Ingest, EditMessage, RecallMessage, Amend, disk
    <2>3. CASE Write
      BY <2>1, <2>3 DEF Write, UpsertSaved, UpsertForAppendSaved, AppendConversationsSaved,
           AppendTimelineSaved, ArchiveConversationsSaved, ArchiveTimelineSaved, EditSaved,
           RecallSaved, SaveConversations, AppendStage, AmendStage
    <2>4. CASE FailedWrite
      BY <2>4 DEF FailedWrite, UpsertFailed, UpsertForAppendFailed, AppendFailed, ArchiveFailed,
           AmendFailed, disk
    <2>5. CASE Restart \/ Tick \/ UNCHANGED vars
      BY <2>5 DEF Restart, Tick, vars, disk
    <2> QED BY <2>2, <2>3, <2>4, <2>5 DEF Next
  <1> QED BY <1>3, <1>4, <1>5

\* The store implements DurableLog: what a restart would load only grows, one
\* message at a time, and is only amended as edits, recalls and archiving may.
THEOREM StoreImplementsDurableLog == Spec => ImplementsDurableLog
  <1>1. Init => Durable!Init
    BY DEF Init, Durable!Init, SavedLog, Loaded
  <1> QED BY <1>1, StepRefines, Invariance, PTL DEF Spec, ImplementsDurableLog, Durable!Spec
=============================================================================
