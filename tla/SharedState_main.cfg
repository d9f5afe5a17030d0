SPECIFICATION MCSpec
CONSTANTS
  Main = main
  Others = {settings}
  Readers = {tsf}
  Fields = {"config", "generation"}
  SEQLOCK_MAX_RETRIES = 2
  MaxWrites = 1
  MaxCrashes = 1
INVARIANTS NoFalseMismatch
PROPERTIES ReadsAreAtomic SharedStateHeals
