SPECIFICATION Spec
CONSTANTS
  a1 = a1
  r1 = r1
  e1 = e1
  NoKey = NoKey
  NoPrice = NoPrice
  Accounts = {a1}
  OrderIds = {1}
  Keys = {}
  Forms <- CrossingForms
  DefaultPrice = 3
  MinPrice = 1
  MaxPrice = 4
  InitialFunds <- Funds
  Requests = {r1}
  Engines = {e1}
  Endpoints = {"create", "cancel"}
  MaxVersion = 2
PROPERTIES
  CancelledIsFinal
