SPECIFICATION MCSpec
CONSTANTS
  Instances <- PassInstances
  Ops <- OpKinds
  Initially <- AnyFiles
  MaxVer = 2
  MaxMisc = 2
  MaxCrashes = 2
  MaxFaults = 3
  RemoveMayFail = TRUE
INVARIANTS PairAtomic NothingIsLost
PROPERTIES JournalResolved
