CONSTANTS
  Messages = {m1}
  Workers = {w1, w2}
  NoWorker = NoWorker
  NoMessage = NoMessage
  MaxAttempts = 3
SPECIFICATION FairSpec
INVARIANTS
  SentOnce
PROPERTIES
  MessagesAreLeased
  LateAnswersHarmless
  MessageSettles
CHECK_DEADLOCK FALSE
