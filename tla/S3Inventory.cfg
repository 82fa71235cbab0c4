SPECIFICATION Spec
CONSTANTS
  BUCKETS <- MCBuckets
  BucketOf <- MCBucketOf
  Incoming = {a, b}
  Track = track
  Sizes = {1, 3}
  STANDARD_IA_DAYS = 1
  GLACIER_IR_DAYS = 2
  MIN_BILLABLE_BYTES = 2
  PRICES <- MCPrices
  HORIZONS = {0, 1, 2, 3}
  MAX_VERSIONS = 3
  LAST_DAY = 2
SYMMETRY Symmetry
INVARIANT CumulativeIsDaily
PROPERTIES WholeInventory CountedOnce ForecastHolds
