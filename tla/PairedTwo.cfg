\* an automatic attempt and a manual one whose client may disconnect
SPECIFICATION Spec
CONSTANTS
  a1 = a1
  a2 = a2
  s1 = s1
  s2 = s2
  Attempts = {a1, a2}
  Automatic = {a1}
  Slugs = {s1, s2}
  Slug <- OwnSlug
  MaxContracts = 1
  MaxCrashes = 0
  LossyOrders = {}
  LateOrders = {}
  GarbledOrders = {}
  FractionalOrders = {}
  StorageFaults = {"poly"}
  Disconnects = {a2}
INVARIANTS
  HaltedUntilReviewed
