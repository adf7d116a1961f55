CONSTANTS
  Volumes <- MCVolumes
  BUFFER = 4096
  TORN_SHARE = 3
  USN_BATCH = 3
  VolumeName <- MCVolumeName
  Needles <- MCNeedles
  RegexQueries <- MCRegexQueries
  Wildcards <- MCWildcards
  MAX_CLAUSES = 2
  MAX_ALTERNATIVES = 3
  BUCKET_SIZE = 3
  VARINT = 4
  TRIGRAM_BLOCK = 4
  TRIGRAM_ROWS = 2
  SUPERBLOCK_BITS = 2
  MAX_HOPS = 6
SPECIFICATION Spec
INVARIANTS
  TypeOK
  IndexComplete
  EmittedWasTrue
  PathsExact
  ColumnsExact
PROPERTIES
  Ends
CHECK_DEADLOCK FALSE
