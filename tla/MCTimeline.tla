----------------------------- MODULE MCTimeline -----------------------------
(* A small instance of Timeline for TLC. *)
EXTENDS Timeline, TLC

\* The timeline's parts are interchangeable; only equality of ids and texts
\* is ever tested.
Symmetry == Permutations(Conversation) \cup Permutations(Resident)
              \cup Permutations(MessageId) \cup Permutations(Text)

\* Two messages in one conversation show order and rollback, one in each
\* shows what archiving and a restart do to the others.
FewMessages ==
  \A c, d \in Conversation : c # d => Len(timelines[c]) + Len(timelines[d]) <= MaxEntries
=============================================================================
