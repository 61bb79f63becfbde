CONSTANTS
  v1 = v1
  c1 = c1
  c2 = c2
  Version <- OneVersion
  Class <- TwoClasses
  VersionOf <- OfOne
  Srg <- OneVersion
  Slots = 2
  MaxQueue = 2
  MaxRuns = 2
  MaxFaults = 1
SPECIFICATION LiveSpec
PROPERTIES EventuallyServed
INVARIANTS TypeOK IndexedIsWhole

CHECK_DEADLOCK FALSE
