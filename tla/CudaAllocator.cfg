SPECIFICATION MCSpec
CONSTANTS
  Align = 2
  Threads = {t1, t2}
  Handles = {h1, h2}
  Ptrs = {p1, p2, p3, p4}
  Sizes = {1, 2, 3}
  Capacity = 5
  BucketCap = 2
  ByteCap = 4
  NoThread = NoThread
  NoHandle = NoHandle
  NoBlock = NoBlock
  NoArena = NoArena
INVARIANTS
  OneOwner
  CachedSizeIsReal
  CacheBounded
PROPERTIES
  ImplementsPool
  OutOfMemoryIsReal
  CallsReturn
