SPECIFICATION Spec
CONSTANTS
  Senders = {s1, s2}
  LatestKinds = {"Volume"}
  OrderedKinds = {"Shutdown"}
  MainCap = 1
  ReserveCap = 1
  MaxCommands = 3
  MaxBatch = 2
PROPERTIES ReceivedInOrder
