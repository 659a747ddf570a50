SPECIFICATION FundSpec
CONSTANTS
  a1 = a1
  r1 = r1
  e1 = e1
  NoKey = NoKey
  NoPrice = NoPrice
  Accounts = {a1}
  OrderIds = {1, 2}
  Keys = {}
  Forms <- CrossingForms
  DefaultPrice = 3
  MinPrice = 1
  MaxPrice = 4
  InitialFunds <- Funds
  Requests = {r1}
  Engines = {e1}
  Endpoints = {"create"}
  d1 = d1
  d2 = d2
  i1 = i1
  Depositors = {d1, d2}
  IdempotencyKeys = {i1}
  Amounts = {0, 1, 2}
  MinAmount = 1
  MaxAmount = 1
  MaxDeposited = 2
  MaxVersion = 1
INVARIANTS
  KeyCreditedOnce
PROPERTIES
  OnlyDisturbedDepositsErr
SYMMETRY Perms
