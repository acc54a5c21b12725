SPECIFICATION Spec
CONSTANTS
  Messages <- TwoMessages
  REREADS = 2
  MaxLag = 2
  MaxEvents = 2
INVARIANTS
  TypeOK
  AsText
  NoStrayKeys
  SentIsGone
  UnsubmittedIsStuck
CHECK_DEADLOCK FALSE
