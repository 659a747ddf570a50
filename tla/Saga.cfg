SPECIFICATION SagaSpec
CONSTANTS
  a1 = a1
  r1 = r1
  e1 = e1
  NoKey = NoKey
  NoPrice = NoPrice
  Accounts = {a1}
  OrderIds = {1, 2}
  Keys = {}
  Forms <- SagaForms
  DefaultPrice = 3
  MinPrice = 1
  MaxPrice = 4
  InitialFunds <- Funds
  Requests = {r1}
  Engines = {e1}
  Endpoints = {"create", "cancel", "replace"}
  s1 = s1
  Sagas = {s1}
  MaxVersion = 1
PROPERTIES
  SagasUndoTheirReserve
