SPECIFICATION GSpec
CONSTANTS
  Align = 2
  Threads = {t1}
  Capturer = t1
  Handles = {h1, h2, h3}
  Ptrs = {p1, p2, p3}
  Sizes = {1, 4}
  Capacity = 9
  BucketCap = 1
  ByteCap = 4
  NoThread = NoThread
  NoHandle = NoHandle
  NoBlock = NoBlock
  NoArena = NoArena
  NoGraph = NoGraph
  BeginMayFail = TRUE
  MayDropForeign = FALSE
PROPERTIES
  RefusedMeansOverlap
