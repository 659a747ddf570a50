SPECIFICATION OutboxSpec
CONSTANTS
  p1 = p1
  Events = {1, 2, 3, 4}
  OrderEvents = {1, 2, 3}
  Processes = {p1}
  MaxPerTick = 2
  MaxQueue = 2
  MaxFaults = 2
INVARIANTS
  OutboxTypeOK
  DeliveredOnce
  MarkedBeforeDelivered
PROPERTIES
  StatusesProgress
  PendingIsServed
CHECK_DEADLOCK FALSE
