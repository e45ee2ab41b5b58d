------------------------------- MODULE Outbox -------------------------------
(***************************************************************************)
(* What terminals promise those who type into them.  A message waits in    *)
(* the store of its terminal from the moment it was typed until it is      *)
(* taken for delivered, and that happens only once the gateway's timeline  *)
(* has it or a publish of it was refused.  Nothing that was taken for      *)
(* delivered waits again, and nothing leaves the timeline.  Polls,         *)
(* hydrations, lost requests, stops and restarts do not show.              *)
(***************************************************************************)
CONSTANT Message

VARIABLES
  typed,      \* messages that were typed
  waiting,    \* those still to be sent
  delivered,  \* those in the gateway's timeline
  refused     \* those of which a publish was refused

vars == <<typed, waiting, delivered, refused>>

Init == typed = {} /\ waiting = {} /\ delivered = {} /\ refused = {}

Type(m) ==
  /\ m \notin typed
  /\ typed' = typed \cup {m}
  /\ waiting' = waiting \cup {m}
  /\ UNCHANGED <<delivered, refused>>

\* The answer may come back or be lost; what is lost is delivered once more.
Deliver(m) ==
  /\ m \in waiting
  /\ delivered' = delivered \cup {m}
  /\ waiting' \in {waiting, waiting \ {m}}
  /\ UNCHANGED <<typed, refused>>

Refuse(m) ==
  /\ m \in waiting
  /\ refused' = refused \cup {m}
  /\ UNCHANGED <<typed, waiting, delivered>>

\* The message comes back from the gateway, by poll or by hydration.
Settle(m) ==
  /\ m \in delivered \cup refused
  /\ waiting' = waiting \ {m}
  /\ UNCHANGED <<typed, delivered, refused>>

Next == \E m \in Message : Type(m) \/ Deliver(m) \/ Refuse(m) \/ Settle(m)

Spec == Init /\ [][Next]_vars
=============================================================================
