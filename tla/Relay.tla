------------------------------- MODULE Relay -------------------------------
(***************************************************************************)
(* A gateway as a relay and as the client of another one, for one topic    *)
(* (request_runtime, transport_runtime and provider_runtime of             *)
(* apps/lobster-waku-gateway/src; crates/transport-waku/src/lib.rs).       *)
(*                                                                         *)
(* A published frame enters the gateway's own node, then the upstream, if  *)
(* one is connected, then the timeline; what fails on the way is answered  *)
(* with an error and undoes nothing.  The client publishes the same frame  *)
(* again, so each node may hold it several times.  Frames of the gateway's *)
(* node are in memory only; the upstream keeps running.                    *)
(***************************************************************************)
EXTENDS Naturals, SequencesExt, FiniteSetsExt

CONSTANTS
  Message,       \* ids of messages published here
  Foreign,       \* ids of messages published at the upstream by others
  End,           \* the last time of all: i64::MAX
  Stamp,         \* [Message \cup Foreign -> 1..End], the senders' times
  Limit,         \* frames that one node recovers at a time
  MaxFrames,     \* bound: frames in a node
  MaxFaults      \* bound: failures and restarts

VARIABLES
  local,      \* topic_frames of the gateway's node
  remote,     \* topic_frames of the upstream
  timeline,   \* the gateway's timeline, on disk
  upstream,   \* upstream_gateway is set
  saved,      \* upstream_gateway_url in the provider's file
  cursor,     \* the gateway's own cursor for Poll
  answer,     \* the frames of the last Recover or Poll, in the order of their keys
  acked,      \* history: publishes answered Published
  faults      \* for the bound

vars == <<local, remote, timeline, upstream, saved, cursor, answer, acked, faults>>

\* WakuSyncCursor: nothing yet, the time of a frame, or i64::MAX; a topic that
\* was not subscribed to has none.
Never  == 0
Vacant == End + 1

Init ==
  /\ local = <<>>
  /\ remote = <<>>
  /\ timeline = {}
  /\ upstream = FALSE
  /\ saved = FALSE
  /\ cursor = Vacant
  /\ answer = <<>>
  /\ acked = {}
  /\ faults = 0

Fault == faults < MaxFaults /\ faults' = faults + 1

----------------------------------------------------------------------------
(* Publishing. *)

Pushed(frames, m) == Append(frames, m)

\* Faulty variant: an upstream that cannot be reached is passed over.
ReachesIfItCan(m) ==
  \/ remote' = Pushed(remote, m) /\ UNCHANGED faults
  \/ Fault /\ UNCHANGED remote

ReachesUpstream(m) ==
  IF upstream THEN remote' = Pushed(remote, m) /\ UNCHANGED faults
  ELSE UNCHANGED <<remote, faults>>

Publish(m) ==
  /\ Len(local) < MaxFrames /\ Len(remote) < MaxFrames
  /\ local' = Pushed(local, m)
  /\ ReachesUpstream(m)
  /\ timeline' = timeline \cup {m}
  /\ acked' = {a \in acked : a.message # m}
                \cup {[message |-> m, upstream |-> upstream, here |-> TRUE]}
  /\ UNCHANGED <<upstream, saved, cursor, answer>>

\* The upstream does not answer; it may have the frame all the same.
UpstreamFails(m) ==
  /\ Len(local) < MaxFrames /\ Len(remote) < MaxFrames
  /\ upstream
  /\ Fault
  /\ local' = Pushed(local, m)
  /\ remote' \in {remote, Pushed(remote, m)}
  /\ UNCHANGED <<timeline, upstream, saved, cursor, answer, acked>>

\* ingest_message fails: the relay has the frame, the timeline does not.
IngestFails(m) ==
  /\ Len(local) < MaxFrames /\ Len(remote) < MaxFrames
  /\ Fault
  /\ local' = Pushed(local, m)
  /\ remote' = IF upstream THEN Pushed(remote, m) ELSE remote
  /\ UNCHANGED <<timeline, upstream, saved, cursor, answer, acked>>

PublishElsewhere(m) ==
  /\ Len(remote) < MaxFrames
  /\ remote' = Pushed(remote, m)
  /\ UNCHANGED <<local, timeline, upstream, saved, cursor, answer, acked, faults>>

----------------------------------------------------------------------------
(* Recovering. *)

\* recover_since: of the later frames, in the order they came, the first.
Since(frames, c) ==
  LET later == {k \in DOMAIN frames : Stamp[frames[k]] > c}
  IN {k \in later : Cardinality({j \in later : j < k}) < Limit}

\* The frames of the gateway's node come before those of the upstream.
Places(c) ==
  Since(local, c)
    \cup (IF upstream THEN {Len(local) + k : k \in Since(remote, c)} ELSE {})

\* merge_frames: of the copies of a frame only the first.
MergeFrames(places) ==
  LET all == local \o remote
  IN [k \in {i \in places : \A j \in places : j < i => all[j] # all[i]} |-> all[k]]

Frames(c) == MergeFrames(Places(c))

Recover(c) ==
  /\ answer' = Frames(c)
  /\ UNCHANGED <<local, remote, timeline, upstream, saved, cursor, acked, faults>>

\* set_subscriptions, with and without history.
Subscribed(history) ==
  IF history THEN Never ELSE IF cursor = Vacant THEN End ELSE cursor

Subscribe(history) ==
  /\ cursor' = Subscribed(history)
  /\ UNCHANGED <<local, remote, timeline, upstream, saved, answer, acked, faults>>

\* update_cursor: the time of the last frame, which is not always the latest.
Poll ==
  /\ answer' = Frames(IF cursor = Vacant THEN Never ELSE cursor)
  /\ cursor' = IF DOMAIN answer' = {} THEN cursor ELSE Stamp[answer'[Max(DOMAIN answer')]]
  /\ UNCHANGED <<local, remote, timeline, upstream, saved, acked, faults>>

----------------------------------------------------------------------------
(* The provider. *)

\* connect_provider, disconnect_provider, set_upstream_provider_url.
SetUpstream(connected) ==
  /\ upstream' = connected
  /\ \/ saved' = connected /\ UNCHANGED faults
     \/ Fault /\ UNCHANGED saved
  /\ UNCHANGED <<local, remote, timeline, cursor, answer, acked>>

Restart ==
  /\ Fault
  /\ local' = <<>>
  /\ upstream' = saved
  /\ cursor' = Vacant
  /\ acked' = {[a EXCEPT !.here = FALSE] : a \in acked}
  /\ UNCHANGED <<remote, timeline, saved, answer>>

Next ==
  \/ \E m \in Message : Publish(m) \/ UpstreamFails(m) \/ IngestFails(m)
  \/ \E m \in Foreign : PublishElsewhere(m)
  \/ \E c \in Never..End : Recover(c)
  \/ \E history \in BOOLEAN : Subscribe(history)
  \/ Poll
  \/ \E connected \in BOOLEAN : SetUpstream(connected)
  \/ Restart

Spec == Init /\ [][Next]_vars

----------------------------------------------------------------------------
(* Properties. *)

TypeOK ==
  /\ Range(local) \subseteq Message /\ Len(local) <= MaxFrames
  /\ Range(remote) \subseteq Message \cup Foreign /\ Len(remote) <= MaxFrames
  /\ timeline \subseteq Message
  /\ upstream \in BOOLEAN /\ saved \in BOOLEAN
  /\ cursor \in Never..Vacant /\ faults \in 0..MaxFaults
  /\ acked \subseteq [message : Message, upstream : BOOLEAN, here : BOOLEAN]

\* A publish that was acknowledged is in the timeline, at the upstream that was
\* connected then, and in the gateway's node until it is restarted, whatever
\* attempts failed before it and whichever provider was chosen since.
AckedReachesBoth ==
  \A a \in acked :
    /\ a.message \in timeline
    /\ a.upstream => Contains(remote, a.message)
    /\ a.here => Contains(local, a.message)

============================================================================
