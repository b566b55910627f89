--------------------------- MODULE CudaAllocator ---------------------------
(***************************************************************************)
(* The caching device allocator, src/src/runtime/cuda/allocator.rs, as the *)
(* threads that share a CudaClient use it: a free list of buffers by exact *)
(* size behind a mutex, the CUDA driver under it, and the freeze window of *)
(* graph capture, in which allocations bypass the list and come from an    *)
(* arena or from the driver.                                               *)
(*                                                                         *)
(* A thread's call is a sequence of steps: the load of the frozen flag,    *)
(* each critical section and each driver call are steps of their own,      *)
(* since other threads run between them. The driver is not under src/: it  *)
(* hands out buffers that are not in use, and may run out.                 *)
(***************************************************************************)
EXTENDS ArenaOps, Sequences, FiniteSetsExt

CONSTANTS
  Threads,
  Handles,          \* names for the allocations the program can hold at a time
  Ptrs,             \* device addresses the driver hands out
  Sizes,            \* requested sizes in bytes
  Capacity,         \* bytes of device memory (the driver's bound)
  BucketCap,        \* FREE_LIST_CAP
  ByteCap,          \* free_list_cap_bytes
  NoThread, NoHandle, NoBlock, NoArena

Blocks == [ptr : Ptrs, off : Nat, size : Sizes, graph : BOOLEAN]
Arenas == [base : Ptrs, size : Nat, highWater : Nat, live : SUBSET (Nat \X Nat)]

ASSUME ConstantsAssumption ==
  /\ Sizes \subseteq Nat \ {0}
  /\ IsFiniteSet(Sizes) /\ IsFiniteSet(Ptrs)
  /\ Capacity \in Nat /\ BucketCap \in Nat \ {0} /\ ByteCap \in Nat
  /\ NoThread \notin Threads /\ NoHandle \notin Handles /\ NoBlock \notin Blocks
  /\ NoArena \notin Arenas

VARIABLES
  driver,       \* bytes the driver counts as allocated at each address, 0: none
  freeList,     \* FreeList.map: the cached addresses of each size, oldest first
  totalBytes,   \* FreeList.total_bytes
  lock,         \* holder of the free-list mutex over several steps
  frozen, arena, captured,
  call,         \* what each thread is executing
  storage       \* the block each handle of the program stands for

vars == <<driver, freeList, totalBytes, lock, frozen, arena, captured, call, storage>>

(***************************************************************************)
(* A block is what allocate returned: the address off bytes into the       *)
(* driver's buffer ptr. graph records the path it was allocated on.        *)
(***************************************************************************)
Block(p, off, n, g) == [ptr |-> p, off |-> off, size |-> n, graph |-> g]

Frame(pc, h, n, g, b, F) ==
  [pc |-> pc, handle |-> h, size |-> n, graph |-> g, block |-> b, toFree |-> F]
Freeing(pc, b, F) == Frame(pc, NoHandle, 0, FALSE, b, F)
Idle == Freeing("idle", NoBlock, {})

At(t, pc) == call[t].pc = pc
Goto(t, pc) == call' = [call EXCEPT ![t].pc = pc]
Return(t) == call' = [call EXCEPT ![t] = Idle]

\* The handles that stand for a block, and the addresses in the free list.
Live == {h \in Handles : storage[h] # NoBlock}
Cached == UNION {{freeList[n][i] : i \in DOMAIN freeList[n]} : n \in Sizes}
DriverBytes == MapThenSumSet(LAMBDA p : driver[p], Ptrs)
CachedBytes == MapThenSumSet(LAMBDA n : n * Len(freeList[n]), Sizes)

Init ==
  /\ driver = [p \in Ptrs |-> 0]
  /\ freeList = [n \in Sizes |-> <<>>]
  /\ totalBytes = 0
  /\ lock = NoThread
  /\ frozen = FALSE
  /\ arena = NoArena
  /\ captured = {}
  /\ call = [t \in Threads |-> Idle]
  /\ storage = [h \in Handles |-> NoBlock]
----------------------------------------------------------------------------
(***************************************************************************)
(* allocate                                                                *)
(***************************************************************************)
Unused(h) == storage[h] = NoBlock /\ \A t \in Threads : call[t].handle # h

\* Entry: the one load of the frozen flag decides the path.
Allocate(t, h, n) ==
  /\ At(t, "idle") /\ Unused(h)
  /\ call' = [call EXCEPT ![t] =
                Frame(IF frozen THEN "arena" ELSE "pop", h, n, frozen, NoBlock, {})]
  /\ UNCHANGED <<driver, freeList, totalBytes, lock, frozen, arena, captured, storage>>

\* Fast path, FreeList::pop: the oldest cached buffer of exactly this size.
PopHit_Peeks(t) ==
  LET n == call[t].size IN
  /\ At(t, "pop") /\ lock = NoThread
  /\ freeList[n] # <<>>
  /\ storage' = [storage EXCEPT ![call[t].handle] = Block(Head(freeList[n]), 0, n, FALSE)]
  /\ Return(t)
  /\ UNCHANGED <<driver, freeList, totalBytes, lock, frozen, arena, captured>>
PopHit_BestFit(t) ==
  LET n == call[t].size IN
  /\ At(t, "pop") /\ lock = NoThread
  /\ \E m \in Sizes :
       /\ m >= n /\ freeList[m] # <<>>
       /\ freeList' = [freeList EXCEPT ![m] = Tail(@)]
       /\ totalBytes' = totalBytes - m
       /\ storage' = [storage EXCEPT ![call[t].handle] = Block(Head(freeList[m]), 0, n, FALSE)]
  /\ Return(t)
  /\ UNCHANGED <<driver, lock, frozen, arena, captured>>
PopHit(t) ==
  LET n == call[t].size IN
  /\ At(t, "pop") /\ lock = NoThread
  /\ freeList[n] # <<>>
  /\ freeList' = [freeList EXCEPT ![n] = Tail(@)]
  /\ totalBytes' = totalBytes - n
  /\ storage' = [storage EXCEPT ![call[t].handle] = Block(Head(freeList[n]), 0, n, FALSE)]
  /\ Return(t)
  /\ UNCHANGED <<driver, lock, frozen, arena, captured>>

PopMiss(t) ==
  /\ At(t, "pop") /\ lock = NoThread
  /\ freeList[call[t].size] = <<>>
  /\ Goto(t, "driver")
  /\ UNCHANGED <<driver, freeList, totalBytes, lock, frozen, arena, captured, storage>>

\* Frozen path with an arena: bump-allocate, or report that it is full.
FromArena(t) ==
  LET n == call[t].size IN
  /\ At(t, "arena") /\ arena # NoArena
  /\ ArenaFits(arena, n)
  /\ arena' = ArenaAllocate(arena, n)
  /\ call' = [call EXCEPT ![t].pc = "record",
                          ![t].block = Block(arena.base, arena.highWater, n, TRUE)]
  /\ UNCHANGED <<driver, freeList, totalBytes, lock, frozen, captured, storage>>

ArenaFull(t) ==
  /\ At(t, "arena") /\ arena # NoArena
  /\ ~ArenaFits(arena, call[t].size)
  /\ Return(t)
  /\ UNCHANGED <<driver, freeList, totalBytes, lock, frozen, arena, captured, storage>>

NoArenaInstalled(t) ==
  /\ At(t, "arena") /\ arena = NoArena
  /\ Goto(t, "driver")
  /\ UNCHANGED <<driver, freeList, totalBytes, lock, frozen, arena, captured, storage>>

\* driver_alloc: one attempt, then a second one after the free list was drained
\* back to the driver, the stream synchronized and the pool trimmed. The first
\* may fail for want of one contiguous segment, the second only for want of memory.
DriverFits(n) == DriverBytes + n <= Capacity

DriverAlloc(t) ==
  LET n == call[t].size IN
  /\ At(t, "driver") \/ (At(t, "drained") /\ call[t].toFree = {})
  /\ DriverFits(n)
  /\ \E p \in Ptrs :
       /\ driver[p] = 0
       /\ driver' = [driver EXCEPT ![p] = n]
       /\ IF call[t].graph
          THEN /\ call' = [call EXCEPT ![t].pc = "record", ![t].block = Block(p, 0, n, TRUE)]
               /\ UNCHANGED storage
          ELSE /\ storage' = [storage EXCEPT ![call[t].handle] = Block(p, 0, n, FALSE)]
               /\ Return(t)
  /\ UNCHANGED <<freeList, totalBytes, lock, frozen, arena, captured>>

DriverFailure(t) ==
  /\ At(t, "driver")
  /\ Goto(t, "drain")
  /\ UNCHANGED <<driver, freeList, totalBytes, lock, frozen, arena, captured, storage>>

\* The critical section that empties the free list; the driver frees follow it.
Drain_OneBucket(t) ==
  LET n == call[t].size IN
  /\ At(t, "drain") /\ lock = NoThread
  /\ freeList' = [freeList EXCEPT ![n] = <<>>]
  /\ totalBytes' = totalBytes - n * Len(freeList[n])
  /\ call' = [call EXCEPT ![t].pc = "drained",
                          ![t].toFree = {freeList[n][i] : i \in DOMAIN freeList[n]}]
  /\ UNCHANGED <<driver, lock, frozen, arena, captured, storage>>
Drain(t) ==
  /\ At(t, "drain") /\ lock = NoThread
  /\ freeList' = [n \in Sizes |-> <<>>]
  /\ totalBytes' = 0
  /\ call' = [call EXCEPT ![t] = Frame("drained", @.handle, @.size, @.graph, NoBlock, Cached)]
  /\ UNCHANGED <<driver, lock, frozen, arena, captured, storage>>

OutOfMemory_Retries(t) ==
  /\ At(t, "drained") /\ call[t].toFree = {}
  /\ ~DriverFits(call[t].size) \/ \A p \in Ptrs : driver[p] # 0
  /\ Goto(t, "drain")
  /\ UNCHANGED <<driver, freeList, totalBytes, lock, frozen, arena, captured, storage>>
OutOfMemory(t) ==
  /\ At(t, "drained") /\ call[t].toFree = {}
  /\ ~DriverFits(call[t].size) \/ \A p \in Ptrs : driver[p] # 0
  /\ Return(t)
  /\ UNCHANGED <<driver, freeList, totalBytes, lock, frozen, arena, captured, storage>>

\* A block of the frozen path enters captured_ptrs before it is returned.
Record(t) ==
  LET b == call[t].block IN
  /\ At(t, "record")
  /\ captured' = captured \cup {<<b.ptr, b.off>>}
  /\ storage' = [storage EXCEPT ![call[t].handle] = b]
  /\ Return(t)
  /\ UNCHANGED <<driver, freeList, totalBytes, lock, frozen, arena>>
----------------------------------------------------------------------------
(***************************************************************************)
(* deallocate                                                              *)
(***************************************************************************)
Deallocate_IgnoresFrozen(t, h) ==
  /\ At(t, "idle") /\ storage[h] # NoBlock
  /\ call' = [call EXCEPT ![t] = Freeing("push", storage[h], {})]
  /\ storage' = [storage EXCEPT ![h] = NoBlock]
  /\ UNCHANGED <<driver, freeList, totalBytes, lock, frozen, arena, captured>>
Deallocate(t, h) ==
  /\ At(t, "idle") /\ storage[h] # NoBlock
  /\ call' = [call EXCEPT ![t] = Freeing(IF frozen THEN "arenaFree" ELSE "push", storage[h], {})]
  /\ storage' = [storage EXCEPT ![h] = NoBlock]
  /\ UNCHANGED <<driver, freeList, totalBytes, lock, frozen, arena, captured>>

\* Frozen path with an arena: bookkeeping only, whatever buffer the pointer is of.
ArenaFree(t) ==
  LET b == call[t].block IN
  /\ At(t, "arenaFree") /\ arena # NoArena
  /\ arena' = IF b.ptr = arena.base THEN ArenaDeallocate(arena, b.off) ELSE arena
  /\ Return(t)
  /\ UNCHANGED <<driver, freeList, totalBytes, lock, frozen, captured, storage>>

\* Frozen path without one: the lock is released, a driver free follows.
DriverFree(t) ==
  /\ At(t, "arenaFree") /\ arena = NoArena
  /\ call' = [call EXCEPT ![t] = Freeing("free", NoBlock, {@.block.ptr})]
  /\ UNCHANGED <<driver, freeList, totalBytes, lock, frozen, arena, captured, storage>>

\* Start of the critical section of the unfrozen path. A full bucket swaps its
\* oldest buffer for the new one, which leaves the byte total as it is.
Push_ForgetsEvicted(t) ==
  LET b == call[t].block
      full == Len(freeList[b.size]) >= BucketCap
  IN
  /\ At(t, "push") /\ lock = NoThread
  /\ lock' = t
  /\ freeList' = [freeList EXCEPT ![b.size] = Append(IF full THEN Tail(@) ELSE @, b.ptr)]
  /\ totalBytes' = IF full THEN totalBytes ELSE totalBytes + b.size
  /\ call' = [call EXCEPT ![t] = Freeing("evict", NoBlock, {})]
  /\ UNCHANGED <<driver, frozen, arena, captured, storage>>
Push(t) ==
  LET b == call[t].block
      full == Len(freeList[b.size]) >= BucketCap
  IN
  /\ At(t, "push") /\ lock = NoThread
  /\ lock' = t
  /\ freeList' = [freeList EXCEPT ![b.size] = Append(IF full THEN Tail(@) ELSE @, b.ptr)]
  /\ totalBytes' = IF full THEN totalBytes ELSE totalBytes + b.size
  /\ call' = [call EXCEPT ![t] =
                Freeing("evict", NoBlock, IF full THEN {Head(freeList[b.size])} ELSE {})]
  /\ UNCHANGED <<driver, frozen, arena, captured, storage>>

\* One round of evict_to_cap, still under the lock: the oldest buffer of the
\* largest size that has one.
NonEmpty == {n \in Sizes : freeList[n] # <<>>}

Evict(t) ==
  /\ At(t, "evict") /\ totalBytes > ByteCap
  /\ \E n \in NonEmpty :
       /\ \A m \in NonEmpty : m <= n
       /\ freeList' = [freeList EXCEPT ![n] = Tail(@)]
       /\ totalBytes' = totalBytes - n
       /\ call' = [call EXCEPT ![t].toFree = @ \cup {Head(freeList[n])}]
  /\ UNCHANGED <<driver, lock, frozen, arena, captured, storage>>

Unlock_AfterOneRound(t) ==
  /\ At(t, "evict")
  /\ lock' = NoThread
  /\ Goto(t, "free")
  /\ UNCHANGED <<driver, freeList, totalBytes, frozen, arena, captured, storage>>
Unlock(t) ==
  /\ At(t, "evict") /\ (totalBytes <= ByteCap \/ NonEmpty = {})
  /\ lock' = NoThread
  /\ Goto(t, "free")
  /\ UNCHANGED <<driver, freeList, totalBytes, frozen, arena, captured, storage>>

\* driver_free of one buffer the thread took out of the list.
FreeOne(t) ==
  /\ At(t, "free") \/ At(t, "drained")
  /\ \E p \in call[t].toFree :
       /\ driver' = [driver EXCEPT ![p] = 0]
       /\ call' = [call EXCEPT ![t].toFree = @ \ {p}]
  /\ UNCHANGED <<freeList, totalBytes, lock, frozen, arena, captured, storage>>

Freed(t) ==
  /\ At(t, "free") /\ call[t].toFree = {}
  /\ Return(t)
  /\ UNCHANGED <<driver, freeList, totalBytes, lock, frozen, arena, captured, storage>>

\* reset: drain, then free what was drained.
Reset(t) ==
  /\ At(t, "idle") /\ lock = NoThread
  /\ freeList' = [n \in Sizes |-> <<>>]
  /\ totalBytes' = 0
  /\ call' = [call EXCEPT ![t] = Freeing("free", NoBlock, Cached)]
  /\ UNCHANGED <<driver, lock, frozen, arena, captured, storage>>
----------------------------------------------------------------------------
(***************************************************************************)
(* The freeze window: install_arena, freeze, and unfreeze in three steps   *)
(***************************************************************************)
\* install_arena over a buffer the caller has allocated. That an arena is
\* already installed is an error that changes nothing.
InstallArena(t, h) ==
  /\ At(t, "idle") /\ arena = NoArena
  /\ storage[h] # NoBlock
  /\ arena' = NewArena(storage[h].ptr, storage[h].size)
  /\ UNCHANGED <<driver, freeList, totalBytes, lock, frozen, captured, call, storage>>

Freeze(t) ==
  /\ At(t, "idle")
  /\ frozen' = TRUE
  /\ UNCHANGED <<driver, freeList, totalBytes, lock, arena, captured, call, storage>>

Unfreeze(t) ==
  /\ At(t, "idle")
  /\ frozen' = FALSE
  /\ Goto(t, "clearArena")
  /\ UNCHANGED <<driver, freeList, totalBytes, lock, arena, captured, storage>>

ClearArena(t) ==
  /\ At(t, "clearArena")
  /\ arena' = NoArena
  /\ Goto(t, "takeCaptured")
  /\ UNCHANGED <<driver, freeList, totalBytes, lock, frozen, captured, storage>>

\* The set is taken and compared with the free list; a common address is a
\* panic in debug builds and nothing in release builds.
CachedAddresses == {<<p, 0>> : p \in Cached}

TakeCaptured(t) ==
  /\ At(t, "takeCaptured")
  /\ captured' = {}
  /\ Return(t)
  /\ UNCHANGED <<driver, freeList, totalBytes, lock, frozen, arena, storage>>
----------------------------------------------------------------------------
AllocateStep(t) ==
  \/ PopHit(t) \/ PopMiss(t)
  \/ DriverAlloc(t) \/ DriverFailure(t) \/ Drain(t) \/ OutOfMemory(t)

DeallocateStep(t) ==
  \/ Push(t) \/ Evict(t) \/ Unlock(t)
  \/ FreeOne(t) \/ Freed(t)

Step(t) == AllocateStep(t) \/ DeallocateStep(t)

\* The steps only a freeze window leads to: GraphCapture takes them.
FrozenStep(t) ==
  \/ FromArena(t) \/ ArenaFull(t) \/ NoArenaInstalled(t) \/ Record(t)
  \/ ArenaFree(t) \/ DriverFree(t)
  \/ ClearArena(t) \/ TakeCaptured(t)

Enter(t) ==
  \/ \E h \in Handles, n \in Sizes : Allocate(t, h, n)
  \/ \E h \in Live : Deallocate(t, h)
  \/ Reset(t)

\* Threads that share a client outside graph capture.
Next == \E t \in Threads : Enter(t) \/ Step(t)

\* A thread inside a call keeps running; nobody has to make a call.
Fairness == \A t \in Threads : WF_vars(Step(t))

Spec == Init /\ [][Next]_vars
----------------------------------------------------------------------------
Overlap(a, b) ==
  /\ a.ptr = b.ptr
  /\ a.off < b.off + b.size /\ b.off < a.off + a.size

\* The owners of a driver buffer: handles, calls that carry it, places in the
\* free list, buffers about to be freed. Blocks of an arena own nothing.
Owns(b, p) == b # NoBlock /\ b.ptr = p /\ ~(b.graph /\ arena # NoArena /\ b.ptr = arena.base)
OwnersOf(p) ==
  LET inHandles == {h \in Handles : Owns(storage[h], p)}
      inCalls == {t \in Threads : Owns(call[t].block, p)}
      inList == {w \in UNION {{n} \X DOMAIN freeList[n] : n \in Sizes} : freeList[w[1]][w[2]] = p}
      freeing == {t \in Threads : p \in call[t].toFree}
  IN Cardinality(inHandles) + Cardinality(inCalls) + Cardinality(inList) + Cardinality(freeing)

\* Every buffer the driver counts as allocated has exactly one owner, and every
\* other address none: nothing leaks, nothing is cached or freed twice.
OneOwner == \A p \in Ptrs : OwnersOf(p) = IF driver[p] # 0 THEN 1 ELSE 0

\* A buffer is cached under the size the driver allocated it with, so a hit
\* never hands out fewer bytes than were asked for.
CachedSizeIsReal == \A n \in Sizes : \A i \in DOMAIN freeList[n] : driver[freeList[n][i]] = n

\* Outside the critical sections the running total is the sum over the buckets
\* and both caps hold.
CacheBounded ==
  lock = NoThread =>
    /\ totalBytes = CachedBytes
    /\ totalBytes <= ByteCap
    /\ \A n \in Sizes : Len(freeList[n]) <= BucketCap

\* The check in unfreeze never fires on a window that kept to the contract: no
\* address of the window, and not the arena's own, is in the free list by then.
CorruptionCheckIsQuiet ==
  [][\A t \in Threads : TakeCaptured(t) => captured \cap CachedAddresses = {}]_vars

\* Calls return: the retry is bounded and evict_to_cap ends, so that threads inside
\* calls never go on, or wait for each other, without end. Which of two threads gets
\* the mutex is open: std::sync::Mutex is not fair.
Returns == \E t \in Threads : ~At(t, "idle") /\ At(t, "idle")'
CallsReturn == <>[](\A t \in Threads : At(t, "idle")) \/ []<><<Returns>>_vars

\* The allocator is a device pool: no call ever returns memory that a handle holds.
Pool == INSTANCE DevicePool WITH
          Blocks <- [ptr : Ptrs, off : {0}, size : Sizes, graph : {FALSE}]
ImplementsPool == Pool!Spec
============================================================================
