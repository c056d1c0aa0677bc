SPECIFICATION FairSpec
CONSTANTS
  Senders = {s1}
  LatestKinds = {"Volume"}
  OrderedKinds = {"Shutdown"}
  MainCap = 1
  ReserveCap = 1
  MaxCommands = 2
  MaxBatch = 2
PROPERTIES SettingsCallReturns
