SPECIFICATION PageSpec
CONSTANTS
  NoKey = NoKey
  a1 = a1
  f1 = f1
  f2 = f2
  Client = a1
  OrderIds = {1, 2}
  Forms = {f1, f2}
  Calls = {1, 2}
  MaxEvents = 4
  MaxWishes = 2
INVARIANTS
  PageTypeOK
  PanelHolds
  OneOrderPerWish
  GreenMeansPlaced
PROPERTIES
  EditsMeetWhatWasShown
SYMMETRY Perms
