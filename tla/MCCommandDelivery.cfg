SPECIFICATION DeliverySpec
CONSTANTS
  CommandIds = {c1, c2}
  Capacity = 1
  NoCommand = NoCommand
  ExecutorOutcomes = {"succeeded"}
  Devices = {1}
  CommandTypes = {"media.stop"}
  Keys = {k1, k2}
  NoBatch = NoBatch
  QueueLimit = 3
  SafeIntegers = {0, 1, 2, 3}
  Mortal = {c1}
  MaxLosses = 1
  MaxStops = 1
CHECK_DEADLOCK FALSE
INVARIANT
  OutcomesAgree
PROPERTY
  EveryCommandEnds
