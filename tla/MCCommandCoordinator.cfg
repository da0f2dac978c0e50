SPECIFICATION Spec
CONSTANTS
  CommandIds = {c1, c2}
  Devices = {1, 2}
  CommandTypes = {"media.stop"}
  Keys = {k1}
  NoBatch = NoBatch
  QueueLimit = 2
  SafeIntegers = {0, 1, 2}
  MaxSequence = 2
CONSTRAINT Bounded
SYMMETRY Symmetry
INVARIANTS
  TypeOK
  QueuesAreOpenCommands
  SequencesUnique
PROPERTY
  SentInOrder
