SPECIFICATION FairSpec
CONSTANTS
  Holders = {h1, h2, h3}
  Names = {1, 2}
INVARIANTS
  AscendingWaits
PROPERTIES
  EveryCallReturns
  ImplementsSections
