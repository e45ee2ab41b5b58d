\* Two conversations, two messages in all, of one id or not.
CONSTANTS
  Conversation = {c1, c2}
  Resident = {r1}
  MessageId = {m1, m2}
  Text = {t1, t2}
  Window = 0
  MaxTime = 1
  MaxEntries = 2
SPECIFICATION Spec
SYMMETRY Symmetry
CONSTRAINT FewMessages
INVARIANTS
  TypeOK
  AckedDurable
  AckedRecallDurable
  MessagesAgree
PROPERTY
  ImplementsDurableLog
