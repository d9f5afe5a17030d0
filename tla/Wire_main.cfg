SPECIFICATION MCSpec
CONSTANTS
  Readers = {r1}
  MaxRetries = 2
  SharedPayload = FALSE
  DieInPublish = FALSE
  MaxSaves = 1
  MaxFailures = 1
  MaxPublish = 2
  MaxDeaths = 1
INVARIANTS SeqlockSound
PROPERTIES ReadsAreAtomic LexiconReachesReaders
CHECK_DEADLOCK FALSE
