SPECIFICATION FairSpec
CONSTANTS
  Events = {e1}
  Hooks = {h1, h2}
  Producers = {w1}
  Batch = 1
  NormalAttempts = 2
  MaxAttempts = 4
  StoreFaults = TRUE
  MaxBoots = 2
INVARIANT DueAgrees
INVARIANT DeliveredWasReceived
INVARIANT NoSendAfterDelivered
INVARIANT NormalRetriesBounded
INVARIANT FannedOut
PROPERTY EventuallyDelivered
