SPECIFICATION MCSpec
CONSTANTS
  Instances <- NewFileInstances
  Ops <- OpKinds
  Initially <- AnyFiles
  MaxVer = 2
  MaxMisc = 2
  MaxCrashes = 2
  MaxFaults = 3
  RemoveMayFail = TRUE
INVARIANT PairAtomic
