CONSTANTS
  Tasks = {t1}
  Sellers = {h1}
  Batches = {1, 2}
  Received <- MCReceived
  Threshold <- MCThreshold
  IntakeFresh = {1, 2}
  FreshUntil <- MCFreshUntil
  MediumUntil <- MCMediumUntil
  Lead = 1
  MinPart = 25
  Orders <- MCOrders
  TenantColumn = TRUE
  Horizon = 1
  MaxCrashes = 1
  None = None
SPECIFICATION Spec
PROPERTY AlertsOnlyAge
PROPERTY SoldOutGrowsQuiet
PROPERTY DueBatchWarned
PROPERTY AlertPushed
PROPERTY SaleEnds
