SPECIFICATION ThreadsSpec
CONSTANTS
  Writers = {w1}
  Readers = {r1, r2}
  NoHolder = NoHolder
  NULL = NULL
  BufLen = 3
  MaxMessages = 5
  MaxSpurious = 1
  main = main
  other = other
  third = third
  top = top
  inner = inner
  x = x
  y = y
  Thread = {main, other, third}
  Frame = {top, inner}
  Name = {x, y}
  Parent <- MCParent
  Creator <- MCCreator
  NoFrame = NoFrame
  NoThread = NoThread
  NoName = NoName
  Slots = 3
  Calls <- MCCalls
  MaxOps = 3
  Caller = {"c1", "c2"}
  Nobody = "nobody"
  Signalled = {"c1"}
  MaxCalls = 3
  MaxRequests = 2
  MaxEvents = 4
  Object = {"o1", "o2", "o3", "o4"}
  Address <- ObjectAddress
  Chain <- OneChain
  Worker = {"t1", "t2"}
  Parasite = {"p", "q"}
  Varied = {"o1"}
  First = "q"
  HASH <- NameHash
  dfsch_hash <- NameUnsetHash
  HASH_MASK = 0
  MIN_MASK = 0
  MARGIN = 0
  MaxMask = 3
  Handle = {1, 2, 3}
  NoHandle = NoHandle
  Hash <- HandleHash
  User = {"u"}
  Collector = "gc"
  Kind <- Kinds
  INITIAL_MASK = 1
  FIRST_GC = 2
  DAY = 5
  MaxTime = 3
  MaxCount = 4
INVARIANTS
  FIFO
  TypeOK
  RacesAreBiased
  DefinedWithoutRace
  ServedInTime
  OwnParasites
  TableShared
PROPERTIES
  ImplementsPipe
  EveryWriteIsRead
  CallsEnd
CHECK_DEADLOCK FALSE
