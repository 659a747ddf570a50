SPECIFICATION FairFeedSpec
CONSTANTS
  Symbols = {"AAPL", "MSFT"}
  Default = "AAPL"
  Kinds = {"quote", "orderbook"}
  Ticks = {1, 2}
  Sockets = {1, 2}
INVARIANTS
  FeedTypeOK
  OneSubscription
  BoxesShowSubscription
  ConnectedIsTrue
PROPERTIES
  ReceivedIsShown
  SubscriptionFollowsField
