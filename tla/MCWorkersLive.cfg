SPECIFICATION MCFairSpec
CONSTANTS
  e1 = e1
  desk = desk
  mail = mail
  w1 = w1
  w2 = w2
  w3 = w3
  Free = Free
  Orphan = Orphan
  AnyGroup = AnyGroup
  Events <- MCEvents
  Groups <- MCOneGroup
  Workers <- MCPair
  GroupOf <- MCSameGroup
  MaxDeliveries = 2
  MaxFaults = 2
  MaxDefers = 1
  MaxReplays = 1
  Files = {1, 2}
  DocWorkers <- MCPair
  MaxReprocess = 1
  BackupIds = {1, 2}
  Retention = 1
  RemoteRetention = 1
  MaxAttempts = 2
  MaxCrashes = 1
  MaxDays = 2
CHECK_DEADLOCK FALSE
PROPERTIES
  EventuallySettled
  DeliveryPromise
