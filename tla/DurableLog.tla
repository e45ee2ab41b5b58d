----------------------------- MODULE DurableLog -----------------------------
(***************************************************************************)
(* What the timeline store promises to survive a stop of the gateway: one  *)
(* log of messages per conversation.  A log only grows at its end, one     *)
(* message at a time, and the messages in it are only ever amended: edited *)
(* while they are not recalled, recalled for good, archived for good.      *)
(* Stops, restarts and failed writes do not show.                          *)
(***************************************************************************)
EXTENDS Naturals, Sequences

CONSTANT Conversation

VARIABLE log

Init == log = [c \in Conversation |-> <<>>]

\* new is a later version of the message old.
Amends(new, old) ==
  /\ new.id = old.id /\ new.sender = old.sender /\ new.timestamp = old.timestamp
  /\ old.archived => new.archived
  /\ old.edited => new.edited
  /\ old.recalled => new.recalled
  /\ new.text # old.text => new.edited /\ ~old.recalled

\* new keeps every message of old, possibly amended, and adds at most one.
Extends(new, old) ==
  /\ Len(new) \in {Len(old), Len(old) + 1}
  /\ \A i \in 1..Len(old) : Amends(new[i], old[i])

Record(c) ==
  /\ Extends(log'[c], log[c])
  /\ log' = [log EXCEPT ![c] = log'[c]]

Next == \E c \in Conversation : Record(c)

Spec == Init /\ [][Next]_log
=============================================================================
