----------------------------- MODULE Terminal -----------------------------
(***************************************************************************)
(* What one user's keys do in the terminal client: the focus, the draft,   *)
(* the conversation that is active and the one that is selected, and the   *)
(* commands (apps/lobster-tui/src: terminal_key_dispatch, selection_state, *)
(* terminal_submission, terminal_app_loop, app_bootstrap).                 *)
(*                                                                         *)
(* Every command answers with a notice that is kept in the terminal's      *)
(* store like a message.  How the store and the relay come to agree over   *)
(* lost requests is the subject of TuiSync.                                *)
(***************************************************************************)
EXTENDS Naturals, SequencesExt, FiniteSetsExt

CONSTANTS
  Launch,       \* conversations the terminal starts with
  Direct,       \* conversations that /dm opens
  Listed,       \* all of them, those of the launch first, each by title
  World,        \* room:world:lobby
  Governance,   \* room:city:aurora-hub:announcements
  MaxWritten,   \* bound: messages and notices
  MaxFaults     \* bound: requests refused or lost, stops

VARIABLES
  running,
  focus, active, selected, draft,
  known,         \* conversations in the terminal's store, on disk
  subscribed,    \* subscriptions of the transport adapter
  store,         \* timeline entries of the terminal's store, on disk
  sessions,      \* direct conversations that the gateway has opened
  relay,         \* messages that the gateway has
  spoken,        \* history: what was submitted as speech, and where
  written,       \* counter for ids
  faults         \* for the bound

vars == <<running, focus, active, selected, draft, known, subscribed, store, sessions,
          relay, spoken, written, faults>>

screen == <<focus, active, selected, draft>>
world  == <<sessions, relay>>

Conversation == Launch \cup Direct

\* What a draft is, once trimmed and taken as a submission.
Empty   == ""
Notices == {"help", "search", "amend", "inspect", "administer", "invite"}
Draft   == Notices \cup {Empty, "speech", "world", "governance", "open", "dm", "quit"}

Focus    == <<"nav", "transcript", "input">>
Position == CHOOSE p \in DOMAIN Focus : Focus[p] = focus

Id    == 1..MaxWritten
Frame == [id : Id, conversation : Conversation]
Entry == [id : Id, conversation : Conversation, notice : BOOLEAN,
          state : {"pending", "delivered", "shelved"}]

Init ==
  /\ running = FALSE
  /\ focus = "nav" /\ active \in Launch /\ selected = active /\ draft = Empty
  /\ known = {} /\ subscribed = {} /\ store = {}
  /\ sessions = {} /\ relay = {} /\ spoken = {}
  /\ written = 0 /\ faults = 0

Fault == faults < MaxFaults /\ faults' = faults + 1

----------------------------------------------------------------------------
(* The list of conversations. *)

\* selectable_conversations: the active one first, in row 0.
Rows == {0} \cup {k \in DOMAIN Listed : Listed[k] \in known \ {active}}
InRow(k) == IF k = 0 THEN active ELSE Listed[k]
Selectable == {InRow(k) : k \in Rows}

\* A selection that is not in the list counts as its first.
RowSelected ==
  IF selected \in Selectable THEN CHOOSE k \in Rows : InRow(k) = selected ELSE 0

\* move_selection: one up or down, not beyond the ends.
Moved(down) ==
  LET beyond == {k \in Rows : IF down THEN k > RowSelected ELSE k < RowSelected}
  IN IF beyond = {} THEN InRow(RowSelected)
     ELSE InRow(IF down THEN Min(beyond) ELSE Max(beyond))

----------------------------------------------------------------------------
(* The terminal's life. *)

\* bootstrap_app: the gateway's conversations are stored, all of them are
\* subscribed to, and nothing is left of the screen of the last session.
Start ==
  /\ ~running
  /\ running' = TRUE
  /\ focus' = "nav" /\ draft' = Empty
  /\ active' \in Launch /\ selected' = active'
  /\ known' = known \cup Launch \cup sessions
  /\ subscribed' = Launch \cup sessions
  /\ UNCHANGED <<store, world, spoken, written, faults>>

\* `?` on an error of the store or of the screen ends the process, as a
\* signal does.
Stop ==
  /\ running
  /\ Fault
  /\ running' = FALSE
  /\ UNCHANGED <<screen, known, subscribed, store, world, spoken, written>>

\* merge_polled_messages: a known entry is taken for delivered.
FrameOf(entry) == [id |-> entry.id, conversation |-> entry.conversation]

Merged(frames) ==
  {e \in store : FrameOf(e) \notin frames}
    \cup {[id |-> f.id, conversation |-> f.conversation, notice |-> FALSE,
           state |-> "delivered"] : f \in frames}

\* archive_expired_messages: what is still pending after a day is put aside.
Shelve(entries) ==
  \E old \in SUBSET {e \in entries : e.state = "pending"} :
    store' = (entries \ old) \cup {[e EXCEPT !.state = "shelved"] : e \in old}

\* One round of run_terminal_app: the frames of the subscribed topics that the
\* cursors have not passed are merged, what is pending is sent and so marked, up
\* to the first failure.
Round ==
  /\ running
  /\ \E frames \in SUBSET {f \in relay : f.conversation \in subscribed} :
     LET merged  == Merged(frames)
         pending == {e \in merged : e.state = "pending"}
     IN \E sent \in SUBSET pending :
          /\ IF sent = pending THEN UNCHANGED faults ELSE Fault
          /\ relay' = relay \cup {FrameOf(e) : e \in sent}
          /\ Shelve((merged \ sent) \cup {[e EXCEPT !.state = "delivered"] : e \in sent})
  /\ UNCHANGED <<running, screen, known, subscribed, sessions, spoken, written>>

\* poll fails: nothing is merged or sent in this round.
RoundFails ==
  /\ running
  /\ Fault
  /\ Shelve(store)
  /\ UNCHANGED <<running, screen, known, subscribed, world, spoken, written>>

----------------------------------------------------------------------------
(* Keys. *)

Key(f) == running /\ focus = f

\* Tab and BackTab go round the three areas, Esc leaves the input.
TurnFocus(forward) ==
  /\ running
  /\ focus' = Focus[IF forward THEN (Position % 3) + 1 ELSE ((Position + 1) % 3) + 1]
  /\ UNCHANGED <<running, active, selected, draft, known, subscribed, store, world,
                 spoken, written, faults>>

\* Esc, or Enter on an empty line; the draft stays as it is.
LeaveInput ==
  /\ Key("input")
  /\ focus' = "transcript"
  /\ UNCHANGED <<running, active, selected, draft, known, subscribed, store, world,
                 spoken, written, faults>>

\* A character or Backspace; there is one draft for all conversations.
TypeKey(d) ==
  /\ Key("input")
  /\ draft' = d
  /\ UNCHANGED <<running, focus, active, selected, known, subscribed, store, world,
                 spoken, written, faults>>

MoveSelection(down) ==
  /\ Key("nav")
  /\ selected' = Moved(down)
  /\ UNCHANGED <<running, focus, active, draft, known, subscribed, store, world,
                 spoken, written, faults>>

\* enter_selected_conversation
EnterSelected ==
  /\ Key("nav")
  /\ active' = selected
  /\ focus' = "transcript"
  /\ UNCHANGED <<running, selected, draft, known, subscribed, store, world, spoken,
                 written, faults>>

\* `i`, or Enter in the transcript: from the list, into the selected one.
FocusInput ==
  /\ running /\ focus # "input"
  /\ active' = IF focus = "nav" THEN selected ELSE active
  /\ focus' = "input"
  /\ UNCHANGED <<running, selected, draft, known, subscribed, store, world, spoken,
                 written, faults>>

\* `q` outside the input.
QuitKey ==
  /\ running /\ focus # "input"
  /\ running' = FALSE
  /\ UNCHANGED <<screen, known, subscribed, store, world, spoken, written, faults>>

----------------------------------------------------------------------------
(* Submissions: Enter on a draft empties it first. *)

Submit(d) ==
  /\ Key("input")
  /\ draft = d
  /\ draft' = Empty

Fresh == written < MaxWritten /\ written' = written + 1

Kept(c, notice, state) ==
  store' = store \cup {[id |-> written', conversation |-> c, notice |-> notice,
                        state |-> state]}

\* Faulty variant: a notice is kept as a message that is still to be sent.
NoticeToSend(c) == Kept(c, TRUE, "pending")

\* append_terminal_notice
AppendNotice(c) == Kept(c, TRUE, "delivered")

\* A notice in the active conversation, which becomes the selected one.
Notify ==
  /\ Fresh
  /\ AppendNotice(active)
  /\ selected' = active
  /\ UNCHANGED <<running, focus, active, known, subscribed, world, spoken>>

\* /help, /status, /refresh, and a command without its argument.
HelpCommand == Submit("help") /\ Notify /\ UNCHANGED faults

\* The others ask the gateway; its answer, its refusal and the failure of the
\* request are told in a notice alike.
Told == Fault \/ UNCHANGED faults

\* /search
SearchCommand == Submit("search") /\ Notify /\ Told

\* /edit, /recall: the store learns of the change at the next start only.
AmendCommand == Submit("amend") /\ Notify /\ Told

\* /world-status, /cities, /world-safety, /safety-reports, /safety-residents,
\* /world-directory, /world-square.
InspectCommand == Submit("inspect") /\ Notify /\ Told

\* /residents, /rooms, /config, /ban, /unban, /freeze, /unfreeze.
AdminCommand == Submit("administer") /\ Notify /\ Told

\* /invite
InviteCommand == Submit("invite") /\ Notify /\ Told

GoTo(c) ==
  /\ active' = c /\ selected' = c
  /\ UNCHANGED <<running, focus, known, subscribed, store, world, spoken, written, faults>>

Stay ==
  UNCHANGED <<running, focus, active, selected, known, subscribed, store, world, spoken,
              written, faults>>

IfListed(c) == IF c \in Selectable THEN GoTo(c) ELSE Stay

\* /world and /governance: nothing happens when the room is not in the list.
WorldCommand ==
  \/ Submit("world") /\ IfListed(World)
  \/ Submit("governance") /\ IfListed(Governance)

\* /open N: nothing happens when there is no such number.
OpenCommand ==
  Submit("open") /\ (Stay \/ \E c \in Selectable : GoTo(c))

\* /dm without a name, or with the user's own.
DirectToNobody == Submit("dm") /\ Stay

\* /dm: the adapter's subscriptions are replaced by the one to the session.
DirectCommand(c) ==
  /\ Submit("dm")
  /\ sessions' = sessions \cup {c}
  /\ known' = known \cup {c}
  /\ subscribed' = {c}
  /\ active' = c /\ selected' = c
  /\ UNCHANGED <<running, focus, store, relay, spoken, written, faults>>

\* The gateway refuses, or its answer is lost: the terminal ends.
DirectFails(c) ==
  /\ Submit("dm")
  /\ Fault
  /\ running' = FALSE
  /\ sessions' \in {sessions, sessions \cup {c}}
  /\ UNCHANGED <<focus, active, selected, known, subscribed, store, relay, spoken, written>>

\* /quit, /exit
QuitCommand ==
  /\ Submit("quit")
  /\ running' = FALSE
  /\ UNCHANGED <<focus, active, selected, known, subscribed, store, world, spoken,
                 written, faults>>

\* append_local_message: anything else, an unknown command too.
Speak ==
  LET frame == [id |-> written', conversation |-> active] IN
  /\ Submit("speech")
  /\ Fresh
  /\ spoken' = spoken \cup {frame}
  /\ \/ relay' = relay \cup {frame} /\ Kept(active, FALSE, "delivered") /\ UNCHANGED faults
     \/ Fault /\ relay' \in {relay, relay \cup {frame}} /\ Kept(active, FALSE, "pending")
  /\ selected' = active
  /\ UNCHANGED <<running, focus, active, known, subscribed, sessions>>

Next ==
  \/ Start \/ Stop \/ Round \/ RoundFails
  \/ \E b \in BOOLEAN : TurnFocus(b) \/ MoveSelection(b)
  \/ LeaveInput \/ EnterSelected \/ FocusInput \/ QuitKey
  \/ \E d \in Draft : TypeKey(d)
  \/ HelpCommand \/ SearchCommand \/ AmendCommand \/ InspectCommand \/ AdminCommand
  \/ InviteCommand \/ WorldCommand \/ OpenCommand \/ QuitCommand
  \/ \E c \in Direct : DirectCommand(c) \/ DirectFails(c)
  \/ DirectToNobody \/ Speak

Spec == Init /\ [][Next]_vars

----------------------------------------------------------------------------
(* Properties. *)

TypeOK ==
  /\ running \in BOOLEAN
  /\ focus \in Range(Focus) /\ draft \in Draft
  /\ {active, selected} \subseteq Conversation
  /\ running => active \in known /\ selected \in known
  /\ known \subseteq Conversation /\ subscribed \subseteq known
  /\ store \subseteq Entry /\ relay \subseteq Frame /\ spoken \subseteq Frame
  /\ sessions \subseteq Direct
  /\ written \in 0..MaxWritten /\ faults \in 0..MaxFaults

\* README.md, of /help, /status and /refresh: they "are local feedback of the
\* terminal, are not written to the gateway and do not reach remote rooms".
\* All that the gateway ever has of a terminal was submitted as speech, in the
\* conversation it is in, whatever was stored beside it, sent again later or
\* left over from an earlier session.
NoticesStayLocal == relay \subseteq spoken

============================================================================
