SPECIFICATION Spec
CONSTANTS
  HasTerm <- MCHasTerm
  StartsWith <- MCStartsWith
  Equals <- MCEquals
  Before <- MCBefore
  EmptyTerm = ""
  ShortTerms <- MCShort
  NameTrigrams <- MCNameTrigrams
  TermTrigrams <- MCTermTrigrams
  NameLen <- MCNameLen
  Extension <- MCExtension
  FileOf <- MCFileOf
  Extends <- MCExtends
  Volumes = {1, 2}
  FirstBases <- MCFirstBases
  LaterBases <- MCLaterBases
  Batches <- MCBatches
  Queries <- MCQueries
  NAME_LEN_MAX = 4
  U32_MAX = 7
  RECORD_SPAN = 16
  BUCKET_SIZE = 2
  TRIGRAM_BLOCK = 2
  MAX_TERMS = 2
  PATH_VERIFY_CANDIDATES = 3
  Threads = 2
  REFINEMENT_CACHE_CAP = 4
  MaxGeneration = 3
INVARIANTS
  TypeOK
  AnswerExact
  CacheComplete
CHECK_DEADLOCK FALSE
