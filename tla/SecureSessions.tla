-------------------------- MODULE SecureSessions --------------------------
(***************************************************************************)
(* Group keys and sealed messages (crates/crypto-mls/src/lib.rs) and how   *)
(* the gateway keeps the groups (open_direct_session and                   *)
(* persist_secure_sessions of apps/lobster-waku-gateway/src).              *)
(*                                                                         *)
(* A key is the sequence of what it was derived from: the public keys of   *)
(* the members or, when none has one, random bytes; then one epoch number  *)
(* per rotation.  Sealing with a key is undone by an equal key only.       *)
(* Devices of a member and the wire format are left out.                   *)
(***************************************************************************)
EXTENDS Naturals, Sequences, FiniteSets

CONSTANTS
  Conversation,
  Direct,        \* those that are direct sessions
  Identity,
  Keyed,         \* identities that come with a public key
  MaxEpoch,      \* bound: rotations of a key
  MaxRandom,     \* bound: keys made of random bytes
  MaxSealed,     \* bound: messages sealed
  MaxFaults      \* bound: failed writes and restarts

VARIABLES
  groups,   \* conversation -> MlsGroupState
  saved,    \* secure-sessions.json
  sealed,   \* history: the envelopes that seal returned
  random,   \* how many keys were drawn
  faults    \* for the bound

vars == <<groups, saved, sealed, random, faults>>

Group(members, key) == [members |-> members, epoch |-> 1, pending |-> FALSE, key |-> key]

Init ==
  /\ groups = [c \in {} |-> Group({}, <<>>)]
  /\ saved = groups
  /\ sealed = {}
  /\ random = 0
  /\ faults = 0

\* derive_group_key
FirstKey(members) ==
  <<[public |-> members \cap Keyed,
     random |-> IF members \cap Keyed = {} THEN random + 1 ELSE 0]>>

\* Faulty variant: a new epoch number for the old key.
SameKey(key, epoch) == key

\* derive_epoch_key
EpochKey(key, epoch) == Append(key, epoch)

\* HashMap::insert
Inserted(c, g) == [d \in DOMAIN groups \cup {c} |-> IF d = c THEN g ELSE groups[d]]

Bootstrap(c, members) ==
  /\ members # {}
  /\ c \in Direct => Cardinality(members) = 2
  /\ random < MaxRandom
  /\ groups' = Inserted(c, Group(members, FirstKey(members)))
  /\ random' = IF members \cap Keyed = {} THEN random + 1 ELSE random
  /\ UNCHANGED sealed

\* A caller of the crate, which saves nothing; a group there is replaced.
BootstrapGroup(c, members) ==
  /\ Bootstrap(c, members)
  /\ UNCHANGED <<saved, faults>>

\* The gateway: a group there is answered as it is, one that could not be saved
\* stays in memory.
OpenDirectSession(c, members) ==
  /\ c \in Direct \ DOMAIN groups
  /\ Bootstrap(c, members)
  /\ \/ saved' = groups' /\ UNCHANGED faults
     \/ /\ faults < MaxFaults
        /\ faults' = faults + 1
        /\ UNCHANGED saved

RotateEpoch(c) ==
  LET next == groups[c].epoch + 1
  IN /\ groups[c].epoch < MaxEpoch
     /\ groups' = [groups EXCEPT ![c].epoch = next, ![c].pending = FALSE,
                                 ![c].key = EpochKey(groups[c].key, next)]
     /\ UNCHANGED <<saved, sealed, random, faults>>

AddMember(c, i) ==
  /\ i \notin groups[c].members
  /\ groups' = [groups EXCEPT ![c].members = @ \cup {i}, ![c].pending = TRUE]
  /\ UNCHANGED <<saved, sealed, random, faults>>

RemoveMember(c, i) ==
  /\ i \in groups[c].members
  /\ groups' = [groups EXCEPT ![c].members = @ \ {i}, ![c].pending = TRUE]
  /\ UNCHANGED <<saved, sealed, random, faults>>

Seal(c, sender) ==
  /\ sender \in groups[c].members
  /\ Cardinality(sealed) < MaxSealed
  /\ sealed' = sealed \cup {[conversation |-> c, epoch |-> groups[c].epoch,
                             key |-> groups[c].key]}
  /\ UNCHANGED <<groups, saved, random, faults>>

\* open: the epoch on the envelope is not looked at.
Opens(envelope) ==
  /\ envelope.conversation \in DOMAIN groups
  /\ envelope.key = groups[envelope.conversation].key

Restart ==
  /\ faults < MaxFaults
  /\ groups' = saved
  /\ faults' = faults + 1
  /\ UNCHANGED <<saved, sealed, random>>

Next ==
  \/ \E c \in Conversation, m \in SUBSET Identity : BootstrapGroup(c, m)
  \/ \E c \in Direct, a, b \in Identity \ Keyed : OpenDirectSession(c, {a, b})
  \/ \E c \in DOMAIN groups : RotateEpoch(c)
  \/ \E c \in DOMAIN groups, i \in Identity :
       AddMember(c, i) \/ RemoveMember(c, i) \/ Seal(c, i)
  \/ Restart

Spec == Init /\ [][Next]_vars

----------------------------------------------------------------------------
(* Properties. *)

TypeOK ==
  /\ DOMAIN groups \subseteq Conversation /\ DOMAIN saved \subseteq Conversation
  /\ \A c \in DOMAIN groups :
       /\ groups[c].members \subseteq Identity
       /\ groups[c].epoch \in 1..MaxEpoch
       /\ groups[c].pending \in BOOLEAN
       /\ Len(groups[c].key) \in 1..MaxEpoch
  /\ random \in 0..MaxRandom /\ faults \in 0..MaxFaults

\* An envelope opens in the epoch it was sealed in and in no other, though open
\* never looks at the epoch: not after a rotation, not when the group was made
\* again or lost by a restart and opened anew with other keys.
OnlyItsEpochOpens ==
  \A e \in sealed : Opens(e) => e.epoch = groups[e.conversation].epoch

============================================================================
