SPECIFICATION SysSpec
CONSTANTS
  a1 = a1
  r1 = r1
  e1 = e1
  NoKey = NoKey
  NoPrice = NoPrice
  Accounts = {a1}
  OrderIds = {1, 2, 3}
  Keys = {}
  Forms <- CrossingForms
  DefaultPrice = 3
  MinPrice = 1
  MaxPrice = 4
  InitialFunds <- Funds
  Requests = {r1}
  Engines = {e1}
  Endpoints = {"create"}
  MaxPerTick = 2
  MaxQueue = 2
  MaxFaults = 1
  MaxVersion = 1
INVARIANTS
  NoOrderLost
  SingleExecution
PROPERTIES
  ImplementsTrading
  LostOnlyInHand
  OrdersLeaveNew
