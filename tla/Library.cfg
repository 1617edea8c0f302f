SPECIFICATION LibrarySpec
CONSTANTS
  Pkg = {"keyword", "user", "a", "b"}
  KEYWORD = "keyword"
  User = "user"
  Name = {"x", "y"}
  NoPkg = "none"
  Defined <- MCDefined
  Uses <- MCUses
  Aliased <- MCAliased
  MaxSymbols = 2
  MaxListed = 1
  Thread = {"t1", "t2"}
  Script <- MCScript
  Module = {"a", "b", "c", "d"}
  Text <- MCText
  StartPackage = "user"
  Caller = {"c"}
  Changer = {"h"}
  Method <- MCMethod
  Arguments <- MCArguments
  Matches <- MCMatches
  SymbolName <- MCSymbolName
  symbol_hash <- MCSymbolHash
  INITIAL_PACKAGE_MASK = 7
  FREE = FREE
  DEAD = DEAD
  Tuple <- MCTuple
  cum_hash <- MCTupleHash
  Value = {"v", "w"}
  NoKey = NoKey
  INVALID_OBJECT = INVALID_OBJECT
  INITIAL_MASK = 3
  NULL = NULL
  NoValue = NoValue
  Key <- HashKey
  HashValue = {"v1", "v2"}
  Varied = {"k1"}
  First = "v1"
  HASH_MASK = 1
  MIN_MASK = 1
  MARGIN = 0
  MaxMask = 7
  Hash <- TableHash
  dfsch_hash <- OtherHash
  MaxNodes = 6
  Priority = {1, 2}
  MAX_DEGREE = 4
INVARIANTS
  TypeOK
  EachNameOnce
  WrittenReadsBack
  IsSet
  PackageOfText
  LoadedOnce
  CacheAgrees
  MostSpecialFirst
  IsMap
  MapButForLost
  PopsLeast
PROPERTIES
  MeaningsKept
  ScriptsEnd
  IteratesOnce
CHECK_DEADLOCK FALSE
