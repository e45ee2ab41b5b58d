# TLA+ models of active-joined-worlds

Specifications, model-checking configurations and machine-checked proofs for the
gateway of this repository (`apps/lobster-waku-gateway`), the timeline store it
writes (`crates/chat-storage`), the relay and the group keys it uses
(`crates/transport-waku`, `crates/crypto-mls`) and two of its clients, the terminal
(`apps/lobster-tui`) and the command line (`apps/lobster-cli`). The first part of this document is an inventory of the
system, the second the plan, the third what exists now.

## 1. The system and its parts

One gateway process serves HTTP. Each request has a thread of its own; all state is
in one `GatewayRuntime` behind one mutex, and every file is a whole snapshot that
is replaced by a rename. Terminals, a command line client and browsers are its
clients; a gateway may itself be the client of another one. `W` below stands for
`apps/lobster-waku-gateway/src`.

| Part | State | Operations | Talks to |
|---|---|---|---|
| Timeline store and message runtime (`crates/chat-storage`, `W/message_runtime.rs`, `W/transport_runtime.rs`) | conversations and entries in memory, `conversations.postcard`, one file per conversation | upsert, append, archive, edit, recall, load | called by every handler that writes a message |
| Shell events (`W/main.rs`, `W/http_read_routes.rs`) | a generation counter with a condition variable; the state's version | long poll, notify, time out | handlers notify it after they have released the runtime |
| Relay (`crates/transport-waku`) | frames in memory, subscriptions, cursors | publish, recover since a cursor | fed by publishing, polled by terminals |
| Terminal client (`apps/lobster-tui`) | its own timeline store, pending messages, a cursor | hydrate at the start, poll, compose, publish, publish again | gateway's shell state, relay and publish endpoints |
| Email sign-in and sessions (`W/auth_runtime.rs`, `W/http_auth_routes.rs`) | registrations, challenges, sessions, rate limits, the authentication file | request a code, deliver, undo, verify, log out | mailer, without the lock; the guide's conversation; the blacklist |
| Cities and world safety (`W/city_runtime.rs`, `W/governance_mutation_runtime.rs`, `W/core_runtime.rs`) | memberships, sanctions, blacklist, trust, reports, the governance file | create, join, approve, appoint, ban, lift, isolate with a cascade | registrations (suspends them), sign-in (reads the blacklist) |
| Relationships, personal rooms, direct sessions (`W/conversation_runtime.rs`) | friendships, access policies, rooms | request, accept, set a policy, open | conversations of the timeline store |
| Unread counters, presence, invites, administration (`W/core_runtime.rs`) | one map each, with a save | increment, mark read, create, revoke | message runtime, sign-in |
| Devices (`W/http_device_routes.rs`) | bindings, a file of their own | bind, revoke | sign-in |
| Provider and upstream (`W/provider_runtime.rs`) | the connection, cursors | connect, poll, publish on | another gateway |
| Federation reads (`W/federation_read.rs`) | mirror sources | fetch, merge for display | other gateways |
| HTTP routing (`W/http_router.rs`, `W/http_*_routes.rs`) | sessions and capabilities of the runtime, the poisoned mutex | for each route a list of checks, then the request itself, each under a hold of the lock of its own | every other part |
| Projections and exports (`W/shell_runtime.rs`, `W/cli_runtime.rs`, `W/export_runtime.rs`) | none | shell state with its version, search, history pages, exports | read the runtime |
| Secure sessions (`crates/crypto-mls`) | groups with an epoch and a key, a file of the gateway | bootstrap, rotate, add, remove, seal, open | opened with direct sessions |
| Command line client (`apps/lobster-cli`) | a cached session in a file all processes share | login, logout, messages, reads, administration, following a tail | the gateway's HTTP interface |
| Web shell, mailer, host adapter, AI sidecar, scripts | local to each | rendering, one request each | the gateway's HTTP interface |

What is hard in them, and what has to be right:

- *Timeline.* An append is two file writes and archiving rewrites every file, each
  write can fail and the process can stop between two; ids repeat when a terminal
  sends a message again. Right is: what was confirmed is found again, memory and
  disk agree, and a log is only extended or amended.
- *Shell events.* Three steps and two locks between a request and its sleep, wakeups
  for nothing, handlers that change the state and tell nobody. Right is: no
  announced change is slept through, and every request ends.
- *Terminal.* Requests and replies get lost, the terminal or the gateway stops at any
  point, and edits and recalls reach it on one path and the frames they amend on
  another. Right is: one copy of a message, no message lost, a recall is final.
- *Sign-in.* The lock is released while mail is sent, so that the failure is undone
  in a state others have changed; most saves that fail are not undone. Right is:
  one use of a code, one owner of an id, confirmed sign-ins and sign-outs are durable,
  and failures cost the user nothing.
- *World safety.* Isolating a city is a loop with a save for each member and two more
  in different files at the end; it stops half way, and is asked for again. Right
  is: confirmed bans hold until lifted, burnt handles stay burnt whichever way somebody signs in, repeating
  does nothing twice.
- *Requests.* The checks of a request and the request are separate holds of the lock;
  sessions end and permissions go in between, and the actor is named in the body. Right
  is: nothing is done for a token that was never entitled to it while the request lasted.
- *Administration and devices.* A change is made in memory, saved, and put back entry by
  entry when the save fails. Right is: memory never has what the file has not.
- *Relationships, rooms and counters.* Other changes stay when their save fails and are gone
  after a restart; who reads what is decided anew in the shell, the search, the client and the
  export. Right is: nobody is let in whom the owner did not let in, and no counter invents messages.
- *Projections.* A client hears of a change only if the version differs, and times and ids of messages are their
  senders'. Right is: the same version means the same view, but for what the version is known not to tell.
- *Relay with an upstream.* Three stores one after the other without a transaction, and cursors
  that are timestamps. Right is: what is acknowledged is in all of them.
- *Secure sessions.* Opening never looks at the epoch. Right is: it need not.
- *Terminal commands.* What commands print is stored next to messages that wait to be sent. Right
  is: it is never sent.
- *Command line client.* Processes share one file, written in three steps. Right is: what
  others read of it is whole.

## 2. Plan

The order follows what the program is for: messages first, then how clients hear of
them, then who may send them.

1. `Timeline` with the abstract `DurableLog` it implements. *Done, proved.*
2. `ShellEvents`. *Done, safety proved.*
3. `TuiSync`, which composes a terminal's store, the relay and the gateway's timeline
   (taken to be durable, which is what 1 shows), with the abstract `Outbox` it implements.
   *Done, safety proved.*
4. `EmailOtp`. *Done, proved.*
5. `WorldSafety`. *Done, proved.*
6. `Requests`: routes, checks and what may come between them. *Done, proved.*
7. `Administration`, with devices. *Done, proved.*
8. `Conversations`: relationships, policies, personal rooms, direct sessions, counters, readers.
   *Done, proved.*
9. `ShellView`: the version against what it stands for. *Done, proved.*
10. `Relay`: the gateway between its node and an upstream. *Done, proved.*
11. `SecureSessions`. *Done, proved.*
12. `Terminal` and `CommandLine`: the two clients' own state. *Done, proved.*
13. `Gateway`, which puts 6 to 12 side by side, and `MCGateway`, which gives it values and checks
    all of them in one run. *Done.*
14. Sessions composed with the long poll: a session revoked while a request waits is
    answered still (`W/http_read_routes.rs:103`), and no document says it should not be.
15. Snapshots of other gateways merged into the governance state; several topics in `Relay`.

Abstract specifications worth stating next: a registry (confirmed registrations and the bans on
them, grow only until lifted) that `EmailOtp` and `WorldSafety` implement; what the members of a
conversation read, that `Conversations` and `ShellView` implement together. Theorems worth proving
next: what the disagreements found below leave true, so that each has its proved
counterpart as `NothingDropped` is that of `NothingLost`.

## 3. The modules

| Module | Models | Checked by | Proofs |
|---|---|---|---|
| `Timeline` | `FileTimelineStore` as the gateway drives it | `MCTimeline` | `TimelineProofs` |
| `DurableLog` | what survives a stop, as one log per conversation | refined by `Timeline` in `MCTimeline` | `TimelineProofs` |
| `ShellEvents` | `GatewayStateNotifier` and `GET /v1/shell/events` | `MCShellEvents`, `MCShellEventsQuiet` | `ShellEventsProofs` |
| `TuiSync` | terminals, relay and timeline for one conversation | `MCTuiSync` and three more | `TuiSyncProofs` |
| `Outbox` | what becomes of a message somebody typed | refined by `TuiSync` in `MCTuiSync` | `TuiSyncProofs` |
| `EmailOtp` | codes, registrations, sessions | `MCEmailOtp` | `EmailOtpProofs` |
| `WorldSafety` | memberships, sanctions, blacklist, cascade | `MCWorldSafety` and two more | `WorldSafetyProofs` |
| `Requests` | the router, its checks and the holds of the lock | `MCGateway` | `GatewayProofs` |
| `Administration` | invites, groups, settings, moderation, devices | `MCGateway` | `GatewayProofs` |
| `Conversations` | friends, rooms, readers, counters | `MCGateway` | `ConversationsProofs` |
| `ShellView` | what a shell shows and its version | `MCGateway` | `ClientsProofs` |
| `Relay` | node, upstream, timeline and cursors for one topic | `MCGateway` | `GatewayProofs`, `ClientsProofs` (types) |
| `SecureSessions` | groups, epochs, keys | `MCGateway` | `GatewayProofs` |
| `Terminal` | keys and commands of a terminal | `MCGateway` | `ClientsProofs` |
| `CommandLine` | processes sharing the cached session | `MCGateway` | `ClientsProofs` |
| `Gateway` | the eight above, side by side | `MCGateway` | `GatewayProofs`, `ClientsProofs` |

`PROJECT.json` maps every definition to the lines it stands for. Throughout,
a handler that holds the mutex from beginning to end is one action; a handler that
releases it, or that makes several file writes between which the process can stop,
is one action per part, with the others kept out by a guard when the mutex is held.
`Gateway` is the exception in form: it extends `Conversations`, instantiates the other seven and states their
properties under the names they have there; `MCGateway` only gives its constants values. The eight have no variable in common, so a behaviour
chooses one of them (`scenario`) and the others stand still. An invariant of one part
holds in all interleavings of disjoint parts if it holds in that part's own behaviours, so
nothing is lost, and the run says so for all of them at once.
Variables called *history* record what the outside was told and guard nothing.
Definitions commented *Faulty variant* are not part of any specification: each is
a plausible mistake in the code, and a property is worth keeping when one of them
breaks it.

### Timeline

`conversations` and `timelines` are the store's maps, `savedConversations` and
`savedTimelines` its files. `task` is the operation in progress and the file write it
makes next: append goes from the first upsert over the list of conversations
to the timeline, then through the archiving of every conversation; each write is
an action, and so are its failure with the roll-back the code makes (append) or does
not make (edit, recall), and a restart in between. Time only decides what is archived.
An id may be used twice.

`MCTimeline` has two conversations, two ids, two texts, and two messages in
all (`FewMessages`). Two is enough for what matters here: order and roll-back need
two messages in one timeline, the damage archiving may do to others needs one
in each. It checks that a confirmed message (`AckedDurable`) and a confirmed recall
(`AckedRecallDurable`) are loaded after a stop at any later point, that memory and
disk hold the same messages between operations (`MessagesAgree`), and that what a
stop leaves implements `DurableLog` under the mapping `log <- SavedLog`
(`ImplementsDurableLog`): messages are never dropped, moved, or changed once
recalled. Failed and repeated restarts map to stuttering.

### Shell events

Locations of a reader are the points where the code takes or releases one of the
two locks: read the generation, read the state, lock the notifier, sleep. A
version stands for the whole shell state of a viewer. `Write` and `Notify` are
the two halves of a handler that ends with `notify_changed`; `QuietWrite` is
a handler that changes the state and does not (publishing on `/v1/waku`, provider,
mirror sources, most administration). Versions may repeat.

`MCShellEvents` has two readers, two writers, two versions and two
changes: enough for a second change to come at every point of the handling
of the first. It checks `NoLostWakeup` (a parked request with an old version has
a notification under way unless the change was a quiet one), that an announced change is
answered without the help of the deadline (`AnnouncedChangeAnswered`), and that every
request ends (`EveryRequestAnswered`).

*Fairness.* `ThreadsRun` is weak fairness of the steps of a thread that can run: the
operating system schedules it and no mutex is held across a wait. That the
deadline comes (`ClockRuns`) is a hypothesis of `EveryRequestAnswered` alone and not part
of the specification, so that the answer to an announced change cannot be
owed to the timeout. Clients need not send requests, and handlers need not change anything.

### Terminals

`Start` fetches the gateway's shell state, `HydrateNext` copies one message of it into the
store (the message, then its edit mark, then its recall mark), `Poll` recovers frames after the cursor,
`MergeNext` copies one of them, `Compose` is what a user types, `Publish` the sending of the next outgoing
message and the answer. What was fetched and what is to be sent are kept by position (`incoming`, `outgoing`), so
everybody else goes on between any two of these writes: the snapshot a terminal copies is stale, and
it may die with half of it copied or with a message merged and its marks missing (`Stop`, `StopInHydrate`).
The request of a publish can be lost, the reply can be lost, the terminal can stop with
the frame accepted (`PublishLost`, `StopInPublish`), and the gateway can refuse after its relay has the
frame (`PublishRefused`). A terminal polls
topic after topic and moves each cursor as it goes: when the request for a later topic fails, the frames
of an earlier one are dropped with their cursor advanced (`PollFails`); they come back with the
next start's hydration, and neither the outbox nor the timeline loses by it. Browsers
send, edit and recall in the gateway directly. A relay loses everything when
the gateway restarts. One clock stands for all. The ids of terminals (`local-...`) and browsers (`gw-...`) never
meet, which is why `Tui` and `Web` are disjoint.

`MCTuiSync` has a terminal and a browser, three milliseconds, two faults and one
amendment; `RecoverLimit = 1` makes the terminal poll in pieces. Two terminals only
share the relay, and what another terminal does there the browser does too. It checks
`OneCopyInStore`, `RecallSticks`, `OutboxDelivered`, and that the whole implements `Outbox`
(`ImplementsOutbox`), where `waiting` is what is pending in the store it was typed into and `delivered` what the
timeline has of it: a message leaves the outbox only when it was delivered or refused, never comes back
to it, and only what waits is delivered. Polls, hydrations, stops, restarts and amendments are
stuttering. `NothingDropped` (what was typed is in the timeline or still to be sent, unless refused after it was
relayed) follows and is proved by itself.

*Fairness.* Weak fairness of `HydrateNext` and `MergeNext`: a process that copies what it fetched goes on.
Strong fairness of `Poll` and `Publish`: every turn of the loop polls,
whatever the user types in between, and a network that loses some requests lets
others through. The faults are bounded by `MaxLost`. Nothing is fair for a user, and
a stopped terminal need not be started.

### Email sign-in

A request for a code has a step (`sending` while the mailer is called without the lock,
`failing` when it reported a failure and the undoing has not happened). `Prepare`,
`Deliver`, `DeliveryFails`, `AnswerLost` (the mail went out, the answer did not arrive),
`Rollback`, `Verify` with its save that may fail, `Revoke` and the restart are the actions.
What undoing looks at is the state it finds then, not the one it left.

`MCEmailOtp` has two requests, two emails and two residents with one resident
created by an administrator, two faults, a window of one tick and a life
of two. Two requests suffice for each property, as each is about two codes of one
email or two emails of one id; the administrator and the faults come on top. It checks that an id has one owner (`OneOwner`), an email one
open code (`OneOpenCode`), a code one use (`OneLoginPerCode`), that confirmed sign-ins and
sign-outs are durable (`LoginDurable`, `LogoutFinal`), that an email is always the same
resident (`SameResident`), that a second code within a window is refused
(`OneCodePerWindow`) although failures do not count (`FailuresNotCounted`), and
that nothing takes away a code that was sent (`SentCodeWorks`).

Abstractions: the blacklist, wrong codes and the limit on attempts only refuse, and
`VerifyRefused` lets a verification be refused at any time. Ids that the code derives from
an email may be any resident. Clocks do not go back. Codes by mobile phone (their sign-in is in `WorldSafety`),
inline delivery (a development mode), and a random source that fails are left out; the
guide's conversation that cannot be saved is allowed to fail at any verification. Binding a
device before a later refusal writes to another file and is in `Administration`.

### Cities and world safety

`member` is a resident's standing in a city; what a steward may do beyond a resident is
outside the module, the lord matters because it approves. `sanctions` keeps order and
flags. A registration is its state and its handles: an email, a mobile number and devices, the last two
only if a sign-in brought them; numbers belong to nobody until then. `blacklist` is a set of such handles.
There are two ways to sign in. `SignIn` is the code by email: it asks the blacklist for every
handle that is named and refuses a registration of another email. `MobileSignIn` is the code by
mobile number: it asks for that number only, finds the registration that has it
(`Bearers`) or takes that of the resident named, and makes it active whatever it was.
`cascade` is the isolation in progress: members still to be
sanctioned, members done, whether handles are burnt. Each member is one save
(`CascadeResidentSaved`, `CascadeResidentUnsaved`), and the two saves at the end are actions of
their own, so a restart or a failed write finds every intermediate state of the
two files. While it runs the mutex is held and every other handler waits
(`cascade = Idle` is their guard). Handlers that do not undo a change whose save failed
leave memory ahead of the file, and `SaveOther`, any other handler, saves it later.

`MCWorldSafety` has two residents and one city that approves its members, a mobile number, two sanctions and
two failures or restarts. Two residents are what an isolation that stops after
one of several needs; two sanctions are what being sanctioned twice needs; two faults
let a repetition fail again. A city that lets everybody in behaves as one that
approves at once. It checks that a confirmed ban is in memory and in the file until its lifting
is confirmed (`BanHolds`), that the handles a confirmed isolation put on the blacklist stay there and that
who held them stays suspended with no other handle (`BurntForGood`, which sign-ins,
administrators, lifted bans, failed saves and restarts all try), and that repeated isolations
sanction a resident once (`OneCascadeSanction`). `BurntForGood` names the one way back that the code
leaves open, a sign-in with a mobile number that is not burnt; one number is at times among the burnt
handles and at times the way back. Without that exception the run finds a resident who comes back that way, as do sign-ins that
do not ask for the number. The number stands for a device, too: both are handles beside the email. The
runs that end in a violation have devices instead: a repetition after a failure may leave a
device unburnt, which `safety_burnt` shows for the members an isolation leaves suspended.

Left out: rooms, freezing, federation policy, trust and notices (they only save, see
`SaveOther`), the permissions of stewards, snapshots merged from other gateways, and sanctions
that expire (the code has none).

### Requests

`RouteTables` gives for every route the checks it makes, in their order, and what is done in the end:
an act behind a capability, a sign-in, an assignment of a permission group, a read. The followed
request takes one check per step (`Check`), each a hold of the mutex; in between other requests
open and end sessions and assign groups (`Opens`, `Ends`, `Assigns`), and a thread that panics under
the lock poisons it for all (`Unavailable`). `entitled` collects what the token stood for at some
moment since the request came. `OnlyTheEntitledAct` asks for no more than that, since with separate holds
no more is true: a session may end between its check and the act. `AuditNamesTheBearer` says that the
event log names the bearer of the token although the name is read from the body. The
development bypass, read once at the start, is the exception both name. One session, an agent, a group
with every capability and one with none, and a bearer and an administrator that differ are enough
for each check to be the one that fails.

### Administration

One map per kind of record and one file for each (groups with assignments and devices with bindings share
one). `Saved` and `NotSaved` are the two ends of every operation; what `NotSaved` puts back is
what the code puts back, entry by entry. `RecordsAgree` compares all five with their files
after every step and the two halves of a device's binding with each other. Invite codes are the time modulo
`CodeSpace`, two instead of a million, so that a code comes again within the bound on the clock; an
invite that could not be saved then removes its older namesake from memory, which is why invites (and groups)
may only be fewer in memory than in the file.

### Conversations

Identities are numbers in the order of names, ids are kinds with two of them, so `Dm(a, b)` and
`Dm(b, a)` are the canonical and the legacy id of the same pair. Policies and friendships stay
changed in memory when their save fails. `wanted` is what a room's owner asked for from the last
acknowledged policy on, `said` who asked for a friendship and who accepted, `since` what others posted since a
conversation was read. `managed` is whom an administrator last added to a conversation that is not theirs by its id, or removed
from one. `ShellMessages`, `SearchMessages`, `CliMessages` and `ExportMessages` are the
ways to read that ask who the reader is, each with the code's own rule; `ReadsAsMember` is any of them. Four reads
ask for no membership and are not among them: the shell's state without a viewer, which gives all but the
personal rooms, `GET /v1/admin/messages`, which gives any live session every conversation, and Recover and Poll
of `POST /v1/waku`, which give them to anybody. `OnlyMembersRead` is about what the four rules make of the member
lists that sessions, sign-ins, first messages, frames of any sender and administrators leave behind, under two forms
of an id: a conversation that is made anew in the place of one that is there, or a rule that takes a visitor for a
member, break it. `VisitorsWereLetIn`, `OnlyMembersRead` and `NoPhantomUnread`
are checked with two residents and the guide, one room and one message; friends, policies and counters
are all about a pair, and the proofs below do not depend on the bound.

### The shell's version

`Shown` is the projection of the timelines for a viewer, `StateVersion` what the code computes from it. A
client fetches at any moment (`Fetch`), and `VersionTellsChanges` compares its copy with the current state
whenever the versions agree. Messages are named by their positions in a room's timeline. There are two ways to write
one: `Post` gives it the gateway's time and an id that is new, `PublishFrame`, the way of terminals and other
gateways, takes both from the sender, so that times are in no order, ids repeat and entries are archived
before others that came earlier. Texts are few and may be the one shown of a recalled message (`Withdrawn`). A recalled
message cannot be edited, but may be recalled again. The gateway's clock does not go back.

Three things the version cannot tell are named by the property: two edits, or two recalls, in the same
millisecond (`twice`); a last message that makes way for another with the same text, where the window is full or
the new one is not later than all the client has (`Replaced`); and an earlier message that comes into the window again
when a later one is archived before it (`Reopened`). `MCGateway` has one room with a window of two, three messages with two ids, times and texts and two changes, enough
for the window to shift, for a message to be archived out of it, for frames that come late and for the first two of the
three; the third takes a message more, and there the property asks for less than the run could refuse. That the three are all there is,
in any number of rooms, is proved. The version of the code also has the
senders of the last messages, how long ago they came and the order of the rooms; it differs wherever the model's does, so what
the model's version tells the code's does. Unread counters,
moderation marks and image layers are not in the version and not compared.

### Relay

The gateway's node, its upstream and the timeline take a frame in this order; each of the later two can
fail, the upstream after it has taken the frame. `acked` remembers for each acknowledged message whether an
upstream was connected and whether the gateway was restarted since. The provider's file may be behind the
connection. A recovery is the set of positions, here and there, of the frames after the cursor
(`Since`, `Places`), put in the order of `MergeFrames`. A topic without a cursor (`Vacant`) is not one with a
cursor at the beginning: subscribing without history puts only the former at the end of time (`End`, the largest
number the code has). `AckedReachesBoth` is checked with one message here and one from elsewhere, three frames in a node
and two failures or restarts, so that a message is published again after each kind of failure.

### Secure sessions

A key is the sequence of what it was derived from, so equal keys are keys of the same derivation; sealing is
ideal. Groups are made by the gateway (once, with a save that may fail) or by another caller of the crate
(again, without a save), rotated, changed and restored by a restart. `OnlyItsEpochOpens` is checked with
a direct session and a room, two epochs and two envelopes.

### Terminal commands

Every command is an action: what it does to focus, draft, selection and store, what it asks of the
gateway and what it prints. A submission is one of the commands or speech. `Round` is a turn of the loop:
recovered frames are merged, what is pending is sent, and old entries, pending ones too, may be shelved.
`NoticesStayLocal` is README.md's sentence that `/help`, `/status` and `/refresh` stay local, for every
command: what reaches the gateway was submitted as speech. Three conversations, two entries
and one failure are enough, as an entry that is sent wrongly is one entry.

### Command line client

A process runs one command; login is four steps (`VerifyCode`, `CreateTmp`, `WriteTmp`, `Rename`) and logout
two, with a kill between any of them. Files are numbered so that two processes may hold the same
`.tmp` open after it was renamed. `Resolved` and its variants say whose token a command sends. The comment of
`auth.rs` promises that a crash leaves no half file: `CacheIsWhole` holds for any number of kills and readers as long as
one login writes at a time, and not for two, which `overlap` records, since both write the same `.tmp`.

### Disagreements found

Each of these runs ends in a violation of the one property it checks, which is a
sentence of the repository.

| Run | Property | What happens |
|---|---|---|
| `events_quiet` | `ChangeEndsWait` | `docs/WORLD_CITY_API.md:158` promises that a change ends the wait; handlers that do not notify leave it to the deadline |
| `sync_refused` | `NothingLost` | a frame relayed and then refused is polled back by its author as delivered and is never stored |
| `sync_hydrate` | `HydrateSucceeds` | a message edited and then recalled makes the second start of a terminal fail |
| `sync_edited` | `EditedTextShown` | the first poll after a start puts the text from before an edit under the edit mark |
| `safety_burnt` | `HandlesBurnt` | an isolation that failed half way and is repeated skips the member it had begun with, whose device stays off the blacklist |
| `safety_banned` | `BannedStayOut` | a resident banned while waiting for approval becomes a member when approved |

`NoLostWakeup` and `NothingDropped` are what holds instead of the first two.

Stated by an exception of `BurntForGood`, and by no run of its own: a resident whom an isolation suspended and
blacklisted is active again, under the same id, after signing in with a mobile number that is on no blacklist
(`W/auth_runtime.rs:867`), while `docs/AUTH_AND_REGISTRATION.md:135` says such a resident can be forced to "lose the old
resident identity" and line 137 to "create a fresh account with fresh handles if they want to return later".

Met while modelling, modelled as they are, and contradicted by no document:

- The shell shows the oldest 32 of a room's last 128 messages, so that in a full room a new message
  changes neither the view nor the version.
- A terminal that opens a direct session replaces the subscriptions of its transport by that one
  conversation; a gateway that refuses `/dm` ends the terminal; there is one draft for all conversations;
  an unknown command is sent as speech; a pending message older than a day is shelved and never sent.
- The shell's version has the plain text of a room's last message and the number of messages
  (`W/shell_runtime.rs:1384`), so two full windows that end in equal texts of one sender, or in a recalled message
  each, give one version where the later message is not the latest of all, and a client that waits for a change may
  keep the older one. A frame's time is its sender's, so this needs no full history: any late frame will do.
- A gateway's timeline may have a message twice: a frame that is published again after its answer was lost is
  appended again, as the timeline does not look for ids. Terminals merge the two (`OneCopyInStore`); the gateway's
  shell, search and exports show both.
- A conversation's messages are read without membership through `GET /v1/admin/messages` and `POST /v1/waku`.
- Subscribing to a topic without history keeps its cursor if it has one, so frames that came before are polled still.
- The merged answer of node and upstream moves the cursor to the time of its last frame, so that with a full
  page frames of the node may be passed over; cursors are the gateway's and shared by all who poll it.
- Messages over the relay count as unread for nobody. Invites are never redeemed.
- A command line client whose cache is corrupt fails even when it is given a token; a logout ends the
  session of the token it was given and deletes the cached one; administration reads the cache once for the
  actor and once for the token.
- A lord may be made a resident, by another lord or alone, and leave a city with nobody who may approve.
- The relay's frames of a topic are kept for as long as the gateway runs.

## 4. What is proved

The theorems hold for every value of the constants that meets the named assumptions, which TLC evaluates in the
runs: `TimelineConstants`, `ShellEventsConstants`, `TuiSyncConstants`, `EmailOtpConstants`, `WorldSafetyConstants`,
`ConversationsConstants` and `GatewayConstants`. They ask for natural numbers as bounds, for special values
outside their sets, for finitely many processes, for `Approval \subseteq City`, direct sessions that are conversations and
times that do not exceed the last one. Two more say what the code guarantees by other means: `CodesOutliveTheWindow`, that
a code lives longer than the window in which no second one is sent (the code's constants are ten minutes
and one), without which a refused request would cost a user the code it replaces; and
`CatalogueNames`, that a session has one resident, a group has capabilities of the catalogue, and no
capability has the name of a check.

- **Timeline.** `Inv` says that the entries on disk are those in memory, possibly in
  an earlier version, and that at most the message being appended is missing (`Behind`), that
  every timeline on disk is one a restart will read (`Listed`), how far the operation in progress
  has come (`Underway`), and that confirmed messages and recalls are in the files
  (`Receipts`). Without it `AckedDurable` is not inductive, since whether the next
  write loses a message depends on what is in memory and on which files are listed. Proved:
  `TypeCorrect`, `DeliveredIsDurable`, `RecallIsDurable`, `MemoryMatchesDisk`, and
  `StoreImplementsDurableLog`: each write extends or amends one log and
  everything else stutters.
- **Shell events.** `Watchful` says that a request goes to wait with the state its client has,
  that a change since is quiet or announced (counted already, or about to be), and that it parks
  only on the current generation. `NoLostWakeup` is what this gives for a parked
  request; it is not inductive alone, since it says nothing of a request that is about to sleep.
  Proved: `TypeCorrect`, `WakeupNotLost`.
- **Terminals.** `Inv` says what a terminal has at hand (`WorkOK`): what it fetched has arrived at the
  gateway, what it is to send is pending in its store. Together with the stores' own part (`StoresOK`: one copy of a message,
  pending only what was typed and where it was typed) this is kept by every single write, and so by a
  stop between any two. One lemma says what merging a message does to a store (`MergeMerges`), one what it does to
  the stores' invariant (`StoreMoves`), one what it does to the outbox (`WaitingMoves`). Proved: `TypeCorrect`,
  `StoresHoldItOnce`, `TypedIsKept`, `RecallsAreFinal`, and `StoresImplementOutbox`, step by step.
- **Email sign-in.** The file's registrations are the first of those in memory (`FileBehind`),
  requests that were refused left no trace (`Untouched`), a code that signed in is closed in both
  states and its registration the first of its email in the file (`SignIns`), and a request that counts in
  the current window holds the limit (`Limits`). A restart makes the file the state, so every
  property needs its twin about the file. `FailuresNotCounted` needs that whoever opened a window that still counts
  got a mail or has a challenge to be undone with it (`Charges`), and that is where codes have to outlive the window;
  `SentCodeWorks` needs the same of a code on its way, in memory and in the file (`Codes`). Proved: the
  types and the nine properties the run checks, among them `FailuresCostNothing` and `SentCodesWork`.
- **Conversations.** Every invariant has a twin about the file, because a failed save leaves memory ahead
  and a restart puts the file in its place: every relationship in either is of what the two of them said
  (`Recorded`), every policy in either is a wanted one (`Wished`). `NoPhantomUnread` needs the counters' types
  and that a restart which finds other counters says so. Proved: `VisitorsLetIn`,
  `CountersCountMessages`. `OnlyMembersRead` needs that every participant of a conversation is a party
  of its id or was added, and that nobody is recorded as removed from a conversation that is not there (`InvMembers`), together with
  which conversations the gateway can make (`RoomsTyped`). Proved: `MembersReadAlone`, and `ConversationsKeepTypes`.
- **The parts of `Gateway`.** Each has an inductive invariant of its own and keeps it by its own steps; of a step of the
  whole every part sees a step of its own or none (`OneAtATime`).
  - *Requests* (`RequestInv`): while a request is checked, what its token stands for now is among what it stood for since
    it came, and what its act asks for is either among that or still on the list of checks (`Owes`). For every row of
    `RouteTables` it is proved that the checks ahead of the act ask for what the act does (`RoutesGuarded`); that is where a route
    with a check missing would fail. Proved: `EntitledActs`, `AuditIsTrue`.
  - *Administration* (`AdminInv`): memory and file agree map by map. What is put back after a failed save is put back
    entry by entry, and that this restores the map (`RestoredIsBefore`) is the lemma everything rests on.
    Proved: `RecordsStayInAgreement`.
  - *Relay* (`RelayInv`): nodes only grow while they run, and a restart marks what was
    acknowledged. Proved: `AcknowledgedIsHeld`.
  - *Secure sessions* (`KeysInv`): a key is as long as its epoch's number (`Fits`), in memory, in the file and in every
    envelope, so keys of different epochs differ. Proved: `EpochsAreApart`.
  - *Terminal* (`SpeechInv`): an entry of the store is pending only if its frame was spoken
    (`PendingWasSpoken`); what a round sends is what is pending. Proved: `NoticesAreLocal`.
  - *Command line* (`CacheInv`): unless two logins wrote at once, the cache is whole and so is what the process
    between write and rename has in its file; that a free file remains (`SpareFile`) needs finitely many
    processes. Proved: `CacheStaysWhole`.
  - *The shell* (`ShellInv`): no mark is in the future (`Dated`); what a client holds was shown once, positions
    without a gap but for archived ones (`PageShown`, `HeldPages`), copies whose originals were
    since changed only by marks later than all the client has seen (`HeldCopies`). Equal versions then mean no later mark,
    hence equal copies; and equal counts, with the last messages not exchanged and no earlier one come back, mean the
    same positions (`SamePositions`). Nothing is assumed of the order of times and ids. Maxima and counts are handled with
    the least-number principle, which the library's well-foundedness of the naturals gives (`LeastNumber`). Proved:
    `VersionIsTrue`.
  - *Types*: `TypesStay` joins the invariants above with those of the parts' remaining state (`SessionsTyped`,
    `RelayInTime`, `TerminalTyped`, `ConversationsTyped`).
- **World safety.** `CascadeOK` says what an isolation in progress has done to the
  members behind it and not done to those before it, and that at its last save the
  authentication file is up to date. `BurntForGood` needs it at the moment of confirmation,
  and that a sign-in by email always asks for the email of the registration: where all its handles are burnt, only
  `MobileSignIn` with another number changes it. `OneCascadeSanction` needs it for the members still to come. Proved: `TypeCorrect`, `BansHold`,
  `BurntHandlesStayBurnt`, `IsolationsSanctionOnce`.

Every invariant and action property of the passing runs is a theorem. Only model-checked are the liveness properties
(`AnnouncedChangeAnswered`, `EveryRequestAnswered`, `OutboxDelivered`): fairness and `ENABLED` are out of the prover's
reach. No module declares a recursive operator; operators that folded over sequences were
written over positions and sets instead (`TuiSync`, `Relay`, `Terminal`, `ShellView`), which says the same of the code and can be
reasoned about without induction over data.

## 5. What is not modelled, and why

Rendering, layout and text (the terminal's panels, the web shell, exports, the
command line client's output) have no state that others rely on. Vendored code,
assets and scripts are not the program's own logic. The federation reads are
network reads merged for display. The mailer is a stateless bridge whose answers `EmailOtp` has. The sidecar is not
called. Presence, nicknames and scenes are a single map each with one writer. Decoding of old snapshot formats,
files that cannot be read and memory that grows without bound are not part of any model: files of the
gateway are written whole or not at all, as the rename in `atomic_write_file` ensures. Decoding of requests
may refuse them at any moment before they change something, which no property depends on.

## 6. Running

    tlc -config MCTimeline.cfg MCTimeline.tla
    tlapm TimelineProofs.tla

The configurations of `ShellEvents` and `TuiSync` run on those modules directly; the others
on the `MC` module of their name (`MCWorldSafety.tla` for its three). `MCGateway` takes three and a half minutes
with two workers: thirteen hundred thousand states, of which the shell, the terminal and the command line client have two thirds; `MCTuiSync`
takes two and a half, half of it for liveness, `MCWorldSafety` about as long. `ClientsProofs` is the longest proof, with some four minutes.
