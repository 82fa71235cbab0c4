SPECIFICATION FairSpec
CONSTANTS
  LISTING <- MCListing
  ZoneOf <- MCZoneOf
  Nodes = {"a"}
INVARIANTS SuccessCounts
PROPERTIES WholeListing CatchesUp OutageIsShown
