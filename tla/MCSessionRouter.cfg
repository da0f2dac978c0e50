SPECIFICATION RouterSpec
CONSTANTS
  Commands = {c1, c2}
  Sessions = {s1, s2}
  ChannelCapacity = 2
  None = None
SYMMETRY Symmetry
CHECK_DEADLOCK FALSE
INVARIANTS
  AnswersAreOwn
  ExecutedOnce
  UnavailableNotExecuted
  ExecutedInOrder
