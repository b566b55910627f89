SPECIFICATION Spec
CONSTANTS
  Threads = {t1, t2, t3}
  Clients = {c1, c2, c3}
  Dims = {d1}
  Ptrs = {p1, p2, p3}
  NoThread = NoThread
  NoClient = NoClient
  NoDim = NoDim
  NoPtr = NoPtr
INVARIANTS
  OneClient
  LaunchedStaysValid
  EntryGuaranteed
