-------------------------- MODULE MC_CudaAllocator --------------------------
EXTENDS CudaAllocator

\* History: the thread whose call has had the allocator to itself so far.
VARIABLE alone

MCInit == Init /\ alone = NoThread
MCNext == \E t \in Threads :
  /\ Enter(t) \/ Step(t)
  /\ alone' = IF At(t, "idle")'  THEN NoThread
              ELSE IF alone = t \/ \A u \in Threads : At(u, "idle") THEN t
              ELSE NoThread
MCSpec == MCInit /\ [][MCNext]_<<vars, alone>> /\ Fairness

InUseBytes == MapThenSumSet(LAMBDA h : storage[h].size, Live)
\* An allocation that had the allocator to itself fails only if the memory that
\* is really in use leaves no room: what the cache holds back never causes an
\* out-of-memory error (allocate's retry).
OutOfMemoryIsReal ==
  [][\A t \in Threads : OutOfMemory(t) /\ alone = t => InUseBytes + call[t].size > Capacity]_vars
=============================================================================
