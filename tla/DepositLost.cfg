SPECIFICATION FundSpec
CONSTANTS
  a1 = a1
  r1 = r1
  NoKey = NoKey
  NoPrice = NoPrice
  Accounts = {a1}
  OrderIds = {1}
  Keys = {}
  Forms <- CrossingForms
  DefaultPrice = 3
  MinPrice = 1
  MaxPrice = 4
  InitialFunds <- Funds
  Requests = {r1}
  Engines = {}
  Endpoints = {"create"}
  d1 = d1
  d2 = d2
  i1 = i1
  Depositors = {d1, d2}
  IdempotencyKeys = {i1}
  Amounts = {0, 1, 2}
  MinAmount = 1
  MaxAmount = 1
  MaxDeposited = 2
  MaxVersion = 1
INVARIANTS
  DepositsAddUp
