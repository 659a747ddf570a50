SPECIFICATION Spec
CONSTANTS
  a1 = a1
  k1 = k1
  r1 = r1
  r2 = r2
  e1 = e1
  e2 = e2
  NoKey = NoKey
  NoPrice = NoPrice
  Accounts = {a1}
  OrderIds = {1, 2}
  Keys = {k1}
  Forms <- MarketForms
  DefaultPrice = 3
  MinPrice = 1
  MaxPrice = 4
  InitialFunds <- Funds
  Requests = {r1, r2}
  Engines = {e1, e2}
  Endpoints = {"create", "cancel", "destroy"}
  MaxVersion = 1
INVARIANTS
  TypeOK
  ChargedForTradesOnly
  OneOrderPerKey
PROPERTIES
  ImplementsOrderService
SYMMETRY Perms
