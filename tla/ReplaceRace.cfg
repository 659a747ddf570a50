SPECIFICATION Spec
CONSTANTS
  a1 = a1
  r1 = r1
  r2 = r2
  e1 = e1
  NoKey = NoKey
  NoPrice = NoPrice
  Accounts = {a1}
  OrderIds = {1, 2}
  Keys = {}
  Forms <- ReplaceForms
  DefaultPrice = 3
  MinPrice = 1
  MaxPrice = 4
  InitialFunds <- Funds
  Requests = {r1, r2}
  Engines = {e1}
  Endpoints = {"create", "replace", "cancel"}
  MaxVersion = 1
INVARIANTS
  OptimisticLock
  FundsConserved
  FilledIffExecuted
  ExecutionInv
PROPERTIES
  ReserveFollowsOrders
  FilledIsFinal
  TradesWithinLimits
SYMMETRY Perms
