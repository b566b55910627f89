------------------------ MODULE GraphCapture_proofs ------------------------
(***************************************************************************)
(* The caching allocator inside and outside of freeze windows, for any     *)
(* number of addresses, sizes, handles, and arenas of any size.            *)
(*                                                                         *)
(* First the threads that share it outside of graph capture: no buffer     *)
(* ever has two owners, none is lost, the allocator implements DevicePool, *)
(* its cache stays within its caps, and the cache never makes an           *)
(* allocation fail. The steps are proved for an invariant that also holds  *)
(* while an arena is installed, so that the second half, capture, adds     *)
(* what a window is about: who holds a reference, how far the call has     *)
(* come, and that what was cut out of the arena is in pieces that lie      *)
(* apart.                                                                  *)
(***************************************************************************)
EXTENDS GraphCapture, MC_CudaAllocator, FiniteSetTheorems, SequenceTheorems, TLAPS

AllocatePcs == {"pop", "driver", "drain", "drained", "arena", "record"}
Carrying == {"push", "arenaFree", "record"}
Calls == [pc : AllocatePcs \cup Carrying
                 \cup {"idle", "evict", "free", "clearArena", "takeCaptured"},
          handle : Handles \cup {NoHandle}, size : Sizes \cup {0}, graph : BOOLEAN,
          block : Blocks \cup {NoBlock}, toFree : SUBSET Ptrs]

Types ==
  /\ driver \in [Ptrs -> Sizes \cup {0}]
  /\ freeList \in [Sizes -> Seq(Ptrs)]
  /\ call \in [Threads -> Calls]
  /\ storage \in [Handles -> Blocks \cup {NoBlock}]
  /\ frozen \in BOOLEAN /\ arena \in Arenas \cup {NoArena}

\* What a call holds at each of its steps. Two calls never allocate for one handle.
Fits(c, blockOf) ==
  /\ IF c.pc \in AllocatePcs
     THEN c.handle \in Handles /\ blockOf[c.handle] = NoBlock /\ c.size \in Sizes
     ELSE c.handle = NoHandle
  /\ c.pc \in Carrying <=> c.block # NoBlock
  /\ c.pc \notin {"drained", "evict", "free"} => c.toFree = {}

CallShape ==
  /\ \A t \in Threads : Fits(call[t], storage)
  /\ \A t, u \in Threads : call[t].handle = call[u].handle /\ call[t].handle # NoHandle => t = u

\* Who has the buffer at p: a handle, a call that carries it, a call that is about
\* to free it, or the free list of a size.
ListOf(s) == {s[i] : i \in DOMAIN s}
Holds(b, p) == b # NoBlock /\ b.ptr = p
Has(kind, a, p) ==
  \/ kind = "handle" /\ a \in Handles /\ Holds(storage[a], p)
  \/ kind = "carrier" /\ a \in Threads /\ Holds(call[a].block, p)
  \/ kind = "freer" /\ a \in Threads /\ p \in call[a].toFree
  \/ kind = "list" /\ a \in Sizes /\ p \in ListOf(freeList[a])

OnlyHas(l, b, p) == \A k, a : Has(k, a, p) <=> k = l /\ a = b
KeepsOwner(p) == \A k, a : Has(k, a, p)' <=> Has(k, a, p)

NoRepeats(s) == \A i, j \in DOMAIN s : s[i] = s[j] => i = j

\* The buffer an arena is installed over is shared by the handles that stand for
\* pieces of it. Any other has at most one owner, and one at least if none leaked.
ArenaAt(p) == arena # NoArena /\ arena.base = p

Owned(leaks) ==
  /\ \A n \in Sizes : NoRepeats(freeList[n])
  /\ \A p \in Ptrs :
       /\ ~ArenaAt(p) => \A k, a, l, b : Has(k, a, p) /\ Has(l, b, p) => k = l /\ a = b
       /\ ArenaAt(p) => driver[p] # 0 /\ \A k, a : Has(k, a, p) => k \in {"handle", "carrier"}
       /\ \A k, a : Has(k, a, p) => driver[p] # 0
       /\ leaks \/ (driver[p] # 0 => \E k, a : Has(k, a, p))

RealSizes ==
  /\ \A h \in Handles : storage[h] # NoBlock /\ ~ArenaAt(storage[h].ptr) =>
                          driver[storage[h].ptr] = storage[h].size
  /\ \A t \in Threads : call[t].block # NoBlock /\ ~ArenaAt(call[t].block.ptr) =>
                          driver[call[t].block.ptr] = call[t].block.size
  /\ \A n \in Sizes : \A p \in ListOf(freeList[n]) : driver[p] = n

IInv(leaks) == Types /\ CallShape /\ Owned(leaks) /\ RealSizes
-----------------------------------------------------------------------------
LEMMA TailLists ==
  ASSUME NEW s \in Seq(Ptrs), s # <<>>, NoRepeats(s)
  PROVE  /\ Head(s) \in Ptrs /\ Head(s) \in ListOf(s)
         /\ Tail(s) \in Seq(Ptrs) /\ NoRepeats(Tail(s))
         /\ ListOf(Tail(s)) = ListOf(s) \ {Head(s)}
<1>1. Len(s) \in Nat \ {0} /\ Len(Tail(s)) = Len(s) - 1 /\ Tail(s) \in Seq(Ptrs)
      /\ Head(s) = s[1] /\ \A i \in 1 .. Len(s) - 1 : Tail(s)[i] = s[i + 1]
  BY HeadTailProperties, EmptySeq
<1>2. DOMAIN s = 1 .. Len(s) /\ DOMAIN Tail(s) = 1 .. Len(s) - 1
  BY <1>1, LenProperties
<1>3. Head(s) \in Ptrs /\ Head(s) \in ListOf(s)
  BY <1>1, <1>2, ElementOfSeq DEF ListOf
<1>4. NoRepeats(Tail(s))
  BY <1>1, <1>2 DEF NoRepeats
<1>5. ListOf(Tail(s)) \subseteq ListOf(s) \ {Head(s)}
  BY <1>1, <1>2 DEF NoRepeats, ListOf
<1>6. ASSUME NEW p \in ListOf(s), p # Head(s)
      PROVE  p \in ListOf(Tail(s))
  <2>1. PICK i \in 1 .. Len(s) : p = s[i]
    BY <1>2 DEF ListOf
  <2>2. i - 1 \in 1 .. Len(s) - 1 /\ Tail(s)[i - 1] = p
    BY <1>1, <1>6, <2>1
  <2> QED
    BY <1>2, <2>2 DEF ListOf
<1> QED
  BY <1>1, <1>3, <1>4, <1>5, <1>6

LEMMA AppendLists ==
  ASSUME NEW s \in Seq(Ptrs), NEW p \in Ptrs, p \notin ListOf(s), NoRepeats(s)
  PROVE  /\ Append(s, p) \in Seq(Ptrs) /\ NoRepeats(Append(s, p))
         /\ ListOf(Append(s, p)) = ListOf(s) \cup {p}
<1>1. /\ Append(s, p) \in Seq(Ptrs) /\ Len(s) \in Nat /\ Len(Append(s, p)) = Len(s) + 1
      /\ \A i \in 1 .. Len(s) : Append(s, p)[i] = s[i]
      /\ Append(s, p)[Len(s) + 1] = p
  BY AppendProperties, LenProperties
<1>2. DOMAIN s = 1 .. Len(s) /\ DOMAIN Append(s, p) = 1 .. Len(s) + 1
  BY <1>1, LenProperties
<1>3. NoRepeats(Append(s, p))
  BY <1>1, <1>2 DEF NoRepeats, ListOf
<1>4. ListOf(Append(s, p)) = ListOf(s) \cup {p}
  BY <1>1, <1>2 DEF ListOf
<1> QED
  BY <1>1, <1>3, <1>4

\* Who has a buffer after a step, said of each kind of owner.
LEMMA SameOwner ==
  ASSUME NEW p,
         \A h \in Handles : Holds(storage'[h], p) <=> Holds(storage[h], p),
         \A t \in Threads : Holds(call'[t].block, p) <=> Holds(call[t].block, p),
         \A t \in Threads : p \in call'[t].toFree <=> p \in call[t].toFree,
         \A n \in Sizes : p \in ListOf(freeList'[n]) <=> p \in ListOf(freeList[n])
  PROVE  KeepsOwner(p)
<1>1. \A a : Has("handle", a, p)' <=> Has("handle", a, p)
  BY DEF Has, Holds
<1>2. \A a : Has("carrier", a, p)' <=> Has("carrier", a, p)
  BY DEF Has, Holds
<1>3. \A a : Has("freer", a, p)' <=> Has("freer", a, p)
  BY DEF Has
<1>4. \A a : Has("list", a, p)' <=> Has("list", a, p)
  BY DEF Has, ListOf
<1>5. \A k, a : Has(k, a, p) \/ Has(k, a, p)' => k \in {"handle", "carrier", "freer", "list"}
  BY DEF Has
<1> QED
  BY <1>1, <1>2, <1>3, <1>4, <1>5 DEF KeepsOwner

LEMMA NewOwner ==
  ASSUME NEW p, NEW l, NEW b, Has(l, b, p)',
         \A h \in Handles : Holds(storage'[h], p) => l = "handle" /\ h = b,
         \A t \in Threads : Holds(call'[t].block, p) => l = "carrier" /\ t = b,
         \A t \in Threads : p \in call'[t].toFree => l = "freer" /\ t = b,
         \A n \in Sizes : p \in ListOf(freeList'[n]) => l = "list" /\ n = b
  PROVE  OnlyHas(l, b, p)'
<1>1. \A a : Has("handle", a, p)' => l = "handle" /\ a = b
  BY DEF Has, Holds
<1>2. \A a : Has("carrier", a, p)' => l = "carrier" /\ a = b
  BY DEF Has, Holds
<1>3. \A a : Has("freer", a, p)' => l = "freer" /\ a = b
  BY DEF Has
<1>4. \A a : Has("list", a, p)' => l = "list" /\ a = b
  BY DEF Has, ListOf
<1>5. \A k, a : Has(k, a, p)' => k \in {"handle", "carrier", "freer", "list"}
  BY DEF Has
<1> QED
  BY <1>1, <1>2, <1>3, <1>4, <1>5 DEF OnlyHas

\* The only owner of a buffer, said of each kind.
LEMMA SoleOwner ==
  ASSUME NEW leaks \in BOOLEAN, Owned(leaks), NEW p \in Ptrs, NEW l, NEW b, Has(l, b, p),
         l \in {"freer", "list"} \/ ~ArenaAt(p)
  PROVE  /\ driver[p] # 0 /\ ~ArenaAt(p)
         /\ \A h \in Handles : Holds(storage[h], p) => l = "handle" /\ h = b
         /\ \A t \in Threads : Holds(call[t].block, p) => l = "carrier" /\ t = b
         /\ \A t \in Threads : p \in call[t].toFree => l = "freer" /\ t = b
         /\ \A n \in Sizes : p \in ListOf(freeList[n]) => l = "list" /\ n = b
<1>0. ~ArenaAt(p)
  BY DEF Owned
<1>1. driver[p] # 0 /\ \A k, a : Has(k, a, p) => k = l /\ a = b
  BY <1>0 DEF Owned
<1>2. \A h \in Handles : Holds(storage[h], p) => Has("handle", h, p)
  BY DEF Has
<1>3. \A t \in Threads : Holds(call[t].block, p) => Has("carrier", t, p)
  BY DEF Has
<1>4. \A t \in Threads : p \in call[t].toFree => Has("freer", t, p)
  BY DEF Has
<1>5. \A n \in Sizes : p \in ListOf(freeList[n]) => Has("list", n, p)
  BY DEF Has
<1> QED
  BY <1>0, <1>1, <1>2, <1>3, <1>4, <1>5

\* A step that hands the buffers of M to one new owner each, and leaves the others
\* with theirs.
LEMMA Handover ==
  ASSUME NEW leaks \in BOOLEAN, Owned(leaks), NEW M \in SUBSET Ptrs, arena' = arena,
         \A n \in Sizes : NoRepeats(freeList'[n]),
         \A p \in Ptrs \ M : driver'[p] = driver[p] /\ KeepsOwner(p),
         \A p \in M : ~ArenaAt(p) /\ driver'[p] # 0 /\ \E l, b : OnlyHas(l, b, p)'
  PROVE  Owned(leaks)'
<1> SUFFICES ASSUME NEW p \in Ptrs
             PROVE  /\ ~ArenaAt(p)' => \A k, a, l, b : Has(k, a, p)' /\ Has(l, b, p)' => k = l /\ a = b
                    /\ ArenaAt(p)' => /\ driver'[p] # 0
                                      /\ \A k, a : Has(k, a, p)' => k \in {"handle", "carrier"}
                    /\ \A k, a : Has(k, a, p)' => driver'[p] # 0
                    /\ leaks \/ (driver'[p] # 0 => \E k, a : Has(k, a, p)')
  BY DEF Owned
<1>0. ArenaAt(p)' <=> ArenaAt(p)
  BY DEF ArenaAt
<1>1. CASE p \in M
  BY <1>0, <1>1 DEF OnlyHas
<1>2. CASE p \notin M
  BY <1>0, <1>2 DEF Owned, KeepsOwner
<1> QED
  BY <1>1, <1>2

LEMMA OwnersKept ==
  ASSUME NEW leaks \in BOOLEAN, Owned(leaks), driver' = driver, freeList' = freeList, arena' = arena,
         \A p \in Ptrs : KeepsOwner(p)
  PROVE  Owned(leaks)'
<1>1. {} \in SUBSET Ptrs /\ \A n \in Sizes : NoRepeats(freeList'[n])
  BY DEF Owned
<1> QED
  BY <1>1, Handover

LEMMA OneHandover ==
  ASSUME NEW leaks \in BOOLEAN, Owned(leaks), NEW p \in Ptrs, NEW l, NEW b, arena' = arena,
         \A n \in Sizes : NoRepeats(freeList'[n]),
         ~ArenaAt(p), driver'[p] # 0, OnlyHas(l, b, p)',
         \A q \in Ptrs \ {p} : driver'[q] = driver[q] /\ KeepsOwner(q)
  PROVE  Owned(leaks)'
<1>1. \A q \in {p} : ~ArenaAt(q) /\ driver'[q] # 0 /\ \E m, c : OnlyHas(m, c, q)'
  OBVIOUS
<1>2. {p} \in SUBSET Ptrs
  OBVIOUS
<1> QED
  BY <1>1, <1>2, Handover

LEMMA GivenUp ==
  ASSUME NEW leaks \in BOOLEAN, Owned(leaks), NEW p \in Ptrs, arena' = arena,
         ~ArenaAt(p), driver'[p] = 0, \A k, a : ~Has(k, a, p)',
         \A n \in Sizes : NoRepeats(freeList'[n]),
         \A q \in Ptrs \ {p} : driver'[q] = driver[q] /\ KeepsOwner(q)
  PROVE  Owned(leaks)'
<1> SUFFICES ASSUME NEW q \in Ptrs
             PROVE  /\ ~ArenaAt(q)' => \A k, a, l, b : Has(k, a, q)' /\ Has(l, b, q)' => k = l /\ a = b
                    /\ ArenaAt(q)' => /\ driver'[q] # 0
                                      /\ \A k, a : Has(k, a, q)' => k \in {"handle", "carrier"}
                    /\ \A k, a : Has(k, a, q)' => driver'[q] # 0
                    /\ leaks \/ (driver'[q] # 0 => \E k, a : Has(k, a, q)')
  BY DEF Owned
<1>0. ArenaAt(q)' <=> ArenaAt(q)
  BY DEF ArenaAt
<1>1. CASE q = p
  BY <1>0, <1>1
<1>2. CASE q # p
  BY <1>0, <1>2 DEF Owned, KeepsOwner
<1> QED
  BY <1>1, <1>2

\* A step that only moves buffers or pieces of the one the arena lies in.
LEMMA ArenaHandover ==
  ASSUME NEW leaks \in BOOLEAN, Owned(leaks), NEW p \in Ptrs, ArenaAt(p), ArenaAt(p)',
         driver' = driver, freeList' = freeList,
         \A k, a : Has(k, a, p)' => k \in {"handle", "carrier"},
         leaks \/ \E k, a : Has(k, a, p)',
         \A q \in Ptrs \ {p} : KeepsOwner(q)
  PROVE  Owned(leaks)'
<1> SUFFICES ASSUME NEW q \in Ptrs
             PROVE  /\ ~ArenaAt(q)' => \A k, a, l, b : Has(k, a, q)' /\ Has(l, b, q)' => k = l /\ a = b
                    /\ ArenaAt(q)' => /\ driver'[q] # 0
                                      /\ \A k, a : Has(k, a, q)' => k \in {"handle", "carrier"}
                    /\ \A k, a : Has(k, a, q)' => driver'[q] # 0
                    /\ leaks \/ (driver'[q] # 0 => \E k, a : Has(k, a, q)')
  BY DEF Owned
<1>1. CASE q = p
  BY <1>1 DEF Owned
<1>2. CASE q # p
  <2>1. ~ArenaAt(q) /\ ~ArenaAt(q)'
    BY <1>2 DEF ArenaAt
  <2> QED
    BY <1>2, <2>1 DEF Owned, KeepsOwner
<1> QED
  BY <1>1, <1>2

\* A call goes from one step to another.
LEMMA CallStep ==
  ASSUME Types, NEW t \in Threads, NEW c \in Calls, call' = [call EXCEPT ![t] = c]
  PROVE  /\ call' \in [Threads -> Calls] /\ call'[t] = c
         /\ \A u \in Threads \ {t} : call'[u] = call[u]
  BY DEF Types

LEMMA ShapeStep ==
  ASSUME Types, CallShape, NEW t \in Threads, NEW c \in Calls,
         call' = [call EXCEPT ![t] = c], Fits(c, storage'),
         c.handle \in {call[t].handle, NoHandle} \/ Unused(c.handle),
         \A u \in Threads \ {t} : call[u].handle # NoHandle =>
             storage'[call[u].handle] = storage[call[u].handle]
  PROVE  CallShape'
<1>1. call'[t] = c /\ \A u \in Threads \ {t} : call'[u] = call[u]
  BY CallStep
<1>2. \A u \in Threads : Fits(call'[u], storage')
  BY <1>1, ConstantsAssumption DEF CallShape, Fits
<1>3. \A u, w \in Threads : call'[u].handle = call'[w].handle /\ call'[u].handle # NoHandle => u = w
  BY <1>1 DEF CallShape, Unused
<1> QED
  BY <1>2, <1>3 DEF CallShape

\* The steps that only move a call on.
LEMMA CallMoves ==
  ASSUME NEW leaks \in BOOLEAN, IInv(leaks), NEW t \in Threads, NEW c \in Calls, call' = [call EXCEPT ![t] = c],
         c.block = call[t].block, c.toFree = call[t].toFree, Fits(c, storage),
         c.handle \in {call[t].handle, NoHandle} \/ Unused(c.handle),
         UNCHANGED <<driver, freeList, arena, storage>>, frozen' \in BOOLEAN
  PROVE  IInv(leaks)'
<1>1. call' \in [Threads -> Calls] /\ call'[t] = c /\ \A u \in Threads \ {t} : call'[u] = call[u]
  BY CallStep DEF IInv
<1>2. Types'
  BY <1>1 DEF IInv, Types
<1>3. CallShape'
  BY ShapeStep DEF IInv
<1>4. \A p \in Ptrs : KeepsOwner(p)
  BY <1>1 DEF Has, KeepsOwner
<1>5. Owned(leaks)'
  BY <1>4, OwnersKept DEF IInv
<1>6. RealSizes'
  BY <1>1 DEF IInv, RealSizes, ArenaAt
<1> QED
  BY <1>2, <1>3, <1>5, <1>6 DEF IInv

LEMMA IdleFits ==
  /\ Idle \in Calls /\ Idle.block = NoBlock /\ Idle.toFree = {} /\ Idle.handle = NoHandle
  /\ \A st : Fits(Idle, st)
BY ConstantsAssumption DEF Idle, Freeing, Frame, Calls, Fits, AllocatePcs, Carrying

LEMMA QuietSteps ==
  ASSUME NEW leaks \in BOOLEAN, IInv(leaks), NEW t \in Threads,
         \/ \E h \in Handles, n \in Sizes : Allocate(t, h, n)
         \/ PopMiss(t) \/ DriverFailure(t) \/ OutOfMemory(t) \/ Unlock(t) \/ Freed(t)
         \/ ArenaFull(t) \/ NoArenaInstalled(t) \/ TakeCaptured(t)
  PROVE  IInv(leaks)'
<1>0. call[t] \in Calls /\ Fits(call[t], storage) /\ frozen \in BOOLEAN
  BY DEF IInv, Types, CallShape
<1>1. ASSUME NEW h \in Handles, NEW n \in Sizes, Allocate(t, h, n)
      PROVE  IInv(leaks)'
  <2> DEFINE c == Frame(IF frozen THEN "arena" ELSE "pop", h, n, frozen, NoBlock, {})
  <2>1. /\ call' = [call EXCEPT ![t] = c] /\ call[t].pc = "idle" /\ Unused(h)
        /\ UNCHANGED <<driver, freeList, frozen, arena, storage>>
    BY <1>1 DEF Allocate, At
  <2>2. /\ c.pc \in {"arena", "pop"} /\ c.handle = h /\ c.size = n /\ c.block = NoBlock
        /\ c.toFree = {} /\ c \in Calls
    BY DEF Frame, Calls, AllocatePcs, IInv, Types
  <2>3. c \in Calls /\ c.block = call[t].block /\ c.toFree = call[t].toFree
    BY <1>0, <2>1, <2>2 DEF Calls, Fits, AllocatePcs, Carrying
  <2>4. Fits(c, storage) /\ Unused(c.handle)
    BY <2>1, <2>2 DEF Fits, AllocatePcs, Carrying, Unused
  <2> HIDE DEF c
  <2> QED
    BY <1>0, <2>1, <2>3, <2>4, CallMoves
<1>2. ASSUME NEW pc, pc \in {"drain", "driver"}, call[t].pc \in {"pop", "driver", "arena"},
             Goto(t, pc), UNCHANGED <<driver, freeList, frozen, arena, storage>>
      PROVE  IInv(leaks)'
  <2> DEFINE c == [call[t] EXCEPT !.pc = pc]
  <2>1. c \in Calls /\ call' = [call EXCEPT ![t] = c]
    BY <1>0, <1>2 DEF Calls, AllocatePcs, Goto
  <2>2. /\ c.block = call[t].block /\ c.toFree = call[t].toFree
        /\ c.handle = call[t].handle /\ c.size = call[t].size /\ c.pc = pc
    BY <1>0 DEF Calls
  <2> HIDE DEF c
  <2>3. Fits(c, storage)
    BY <1>0, <1>2, <2>2 DEF Fits, AllocatePcs, Carrying
  <2> QED
    BY <1>0, <1>2, <2>1, <2>2, <2>3, CallMoves
<1>3. ASSUME call[t].pc \in {"arena", "drained", "free", "takeCaptured"}, call[t].toFree = {},
             Return(t), UNCHANGED <<driver, freeList, frozen, arena, storage>>
      PROVE  IInv(leaks)'
  <2>1. call[t].block = NoBlock
    BY <1>0, <1>3 DEF Fits, Carrying
  <2> QED
    BY <1>0, <1>3, <2>1, IdleFits, CallMoves DEF Return
<1>4. ASSUME Unlock(t) PROVE IInv(leaks)'
  <2> DEFINE c == [call[t] EXCEPT !.pc = "free"]
  <2>1. c \in Calls /\ c.block = call[t].block /\ c.toFree = call[t].toFree
        /\ c.handle = call[t].handle /\ Fits(c, storage) /\ call' = [call EXCEPT ![t] = c]
        /\ UNCHANGED <<driver, freeList, frozen, arena, storage>>
    BY <1>0, <1>4 DEF Calls, Fits, AllocatePcs, Carrying, Goto, Unlock, At
  <2> HIDE DEF c
  <2> QED
    BY <1>0, <2>1, CallMoves
<1>5. call[t].pc \in {"arena", "takeCaptured"} => call[t].toFree = {}
  BY <1>0 DEF Fits
<1> QED
  BY <1>1, <1>2, <1>3, <1>4, <1>5
  DEF PopMiss, DriverFailure, OutOfMemory, Freed, ArenaFull, NoArenaInstalled, TakeCaptured, At
-----------------------------------------------------------------------------
LEMMA BlockFields ==
  ASSUME NEW p \in Ptrs, NEW off \in Nat, NEW n \in Sizes, NEW g \in BOOLEAN
  PROVE  /\ Block(p, off, n, g) \in Blocks \ {NoBlock}
         /\ Block(p, off, n, g).ptr = p /\ Block(p, off, n, g).off = off
         /\ Block(p, off, n, g).size = n /\ Block(p, off, n, g).graph = g
         /\ \A q : Holds(Block(p, off, n, g), q) <=> q = p
<1>1. Block(p, off, n, g) \in Blocks
  BY DEF Block, Blocks
<1>2. Block(p, off, n, g) # NoBlock
  BY <1>1, ConstantsAssumption
<1> QED
  BY <1>1, <1>2 DEF Holds, Block

\* Every buffer somebody has is at one of the driver's addresses.
LEMMA HeldAddresses ==
  ASSUME Types
  PROVE  /\ \A h \in Handles : storage[h] # NoBlock => storage[h] \in Blocks /\ storage[h].ptr \in Ptrs
         /\ \A t \in Threads : call[t].block # NoBlock => call[t].block \in Blocks /\ call[t].block.ptr \in Ptrs
         /\ \A t \in Threads : call[t].toFree \subseteq Ptrs
         /\ \A n \in Sizes : ListOf(freeList[n]) \subseteq Ptrs
<1>1. \A n \in Sizes : ListOf(freeList[n]) \subseteq Ptrs
  BY ElementOfSeq, LenProperties DEF Types, ListOf
<1>2. \A t \in Threads : call[t].block \in Blocks \cup {NoBlock} /\ call[t].toFree \subseteq Ptrs
  BY DEF Types, Calls
<1>3. \A h \in Handles : storage[h] \in Blocks \cup {NoBlock}
  BY DEF Types
<1>4. \A b \in Blocks : b.ptr \in Ptrs
  BY DEF Blocks
<1> QED
  BY <1>1, <1>2, <1>3, <1>4

\* A handle, or a call, gets a buffer that nobody else has.
LEMMA HandleGets ==
  ASSUME NEW leaks \in BOOLEAN, Types, Owned(leaks), NEW t \in Threads, NEW h \in Handles,
         NEW b \in Blocks \ {NoBlock}, NEW p \in Ptrs, b.ptr = p, ~ArenaAt(p), arena' = arena,
         storage[h] = NoBlock, storage' = [storage EXCEPT ![h] = b],
         call' = [call EXCEPT ![t] = Idle],
         \A q \in Ptrs : Holds(call[t].block, q) => q = p, call[t].toFree = {},
         driver'[p] # 0, \A g \in Handles : ~Holds(storage[g], p),
         \A u \in Threads \ {t} : ~Holds(call[u].block, p) /\ p \notin call[u].toFree,
         \A m \in Sizes : p \notin ListOf(freeList'[m]) /\ NoRepeats(freeList'[m]),
         \A q \in Ptrs \ {p} : driver'[q] = driver[q],
         \A q \in Ptrs \ {p}, m \in Sizes : q \in ListOf(freeList'[m]) <=> q \in ListOf(freeList[m])
  PROVE  Owned(leaks)'
<1>1. call'[t] = Idle /\ \A u \in Threads \ {t} : call'[u] = call[u]
  BY CallStep, IdleFits
<1>2. storage'[h] = b /\ (\A g \in Handles \ {h} : storage'[g] = storage[g])
      /\ \A q : Holds(b, q) <=> q = p
  BY DEF Types, Holds
<1>3. OnlyHas("handle", h, p)'
  <2>1. Has("handle", h, p)'
    BY <1>2 DEF Has
  <2>2. /\ \A g \in Handles : Holds(storage'[g], p) => g = h
        /\ \A u \in Threads : ~Holds(call'[u].block, p) /\ p \notin call'[u].toFree
    BY <1>1, <1>2, IdleFits DEF Holds
  <2> QED
    BY <2>1, <2>2, NewOwner
<1>4. \A q \in Ptrs \ {p} : KeepsOwner(q)
  <2> TAKE q \in Ptrs \ {p}
  <2>1. \A g \in Handles : Holds(storage'[g], q) <=> Holds(storage[g], q)
    BY <1>2 DEF Holds
  <2>2. /\ \A u \in Threads : Holds(call'[u].block, q) <=> Holds(call[u].block, q)
        /\ \A u \in Threads : q \in call'[u].toFree <=> q \in call[u].toFree
    BY <1>1, IdleFits DEF Holds
  <2> QED
    BY <2>1, <2>2, SameOwner
<1> QED
  BY <1>3, <1>4, OneHandover

LEMMA CallGets ==
  ASSUME NEW leaks \in BOOLEAN, Types, Owned(leaks), NEW t \in Threads, NEW c \in Calls,
         NEW p \in Ptrs, c.block # NoBlock, c.block.ptr = p, ~ArenaAt(p), c.toFree = {},
         call' = [call EXCEPT ![t] = c], call[t].block = NoBlock, call[t].toFree = {},
         UNCHANGED <<freeList, arena>>, driver'[p] # 0,
         \A g \in Handles : ~Holds(storage'[g], p),
         \A u \in Threads : ~Holds(call[u].block, p) /\ p \notin call[u].toFree,
         \A m \in Sizes : p \notin ListOf(freeList[m]),
         \A q \in Ptrs \ {p} : driver'[q] = driver[q],
         \A q \in Ptrs \ {p}, g \in Handles : Holds(storage'[g], q) <=> Holds(storage[g], q)
  PROVE  Owned(leaks)'
<1>1. call'[t] = c /\ \A u \in Threads \ {t} : call'[u] = call[u]
  BY CallStep
<1>2. \A q : Holds(c.block, q) <=> q = p
  BY DEF Holds
<1>3. OnlyHas("carrier", t, p)'
  <2>1. Has("carrier", t, p)'
    BY <1>1, <1>2 DEF Has
  <2>2. /\ \A u \in Threads : (Holds(call'[u].block, p) => u = t) /\ p \notin call'[u].toFree
        /\ \A m \in Sizes : p \notin ListOf(freeList'[m])
    BY <1>1
  <2> QED
    BY <2>1, <2>2, NewOwner
<1>4. \A q \in Ptrs \ {p} : KeepsOwner(q)
  <2> TAKE q \in Ptrs \ {p}
  <2>1. /\ \A u \in Threads : Holds(call'[u].block, q) <=> Holds(call[u].block, q)
        /\ \A u \in Threads : q \in call'[u].toFree <=> q \in call[u].toFree
    BY <1>1, <1>2 DEF Holds
  <2> QED
    BY <2>1, SameOwner
<1>5. \A m \in Sizes : NoRepeats(freeList'[m])
  BY DEF Owned
<1> QED
  BY <1>3, <1>4, <1>5, OneHandover

\* A hit in the free list: the oldest buffer goes from the list to the handle.
LEMMA PopHitStep ==
  ASSUME NEW leaks \in BOOLEAN, IInv(leaks), NEW t \in Threads, PopHit(t)
  PROVE  IInv(leaks)'
<1>0. PICK h, n, s, p : h = call[t].handle /\ n = call[t].size /\ s = freeList[n] /\ p = Head(s)
  OBVIOUS
<1>1. /\ Types /\ CallShape /\ Owned(leaks) /\ RealSizes
      /\ call[t].pc = "pop" /\ s # <<>> /\ call' = [call EXCEPT ![t] = Idle]
      /\ freeList' = [freeList EXCEPT ![n] = Tail(s)]
      /\ storage' = [storage EXCEPT ![h] = Block(p, 0, n, FALSE)]
      /\ UNCHANGED <<driver, frozen, arena>>
  BY <1>0 DEF PopHit, At, Return, IInv
<1>2. /\ h \in Handles /\ n \in Sizes /\ storage[h] = NoBlock
      /\ call[t].block = NoBlock /\ call[t].toFree = {} /\ h # NoHandle
  BY <1>0, <1>1, ConstantsAssumption DEF CallShape, Fits, AllocatePcs, Carrying
<1>3. /\ p \in Ptrs /\ p \in ListOf(s) /\ Tail(s) \in Seq(Ptrs) /\ NoRepeats(Tail(s))
      /\ ListOf(Tail(s)) = ListOf(s) \ {p}
  BY <1>0, <1>1, <1>2, TailLists DEF Types, Owned
<1>4. /\ freeList' \in [Sizes -> Seq(Ptrs)] /\ freeList'[n] = Tail(s)
      /\ \A m \in Sizes \ {n} : freeList'[m] = freeList[m]
  BY <1>1, <1>2, <1>3 DEF Types
<1>5. Block(p, 0, n, FALSE) \in Blocks \ {NoBlock} /\ Block(p, 0, n, FALSE).ptr = p
      /\ Block(p, 0, n, FALSE).size = n /\ \A q : Holds(Block(p, 0, n, FALSE), q) <=> q = p
  <2>1. Block(p, 0, n, FALSE) \in Blocks
    BY <1>2, <1>3 DEF Block, Blocks
  <2>2. Block(p, 0, n, FALSE) # NoBlock
    BY <2>1, ConstantsAssumption
  <2> QED
    BY <2>1, <2>2 DEF Block, Holds
<1>6. /\ storage' \in [Handles -> Blocks \cup {NoBlock}] /\ storage'[h] = Block(p, 0, n, FALSE)
      /\ \A g \in Handles \ {h} : storage'[g] = storage[g]
  BY <1>1, <1>2, <1>5 DEF Types
<1>7. call' \in [Threads -> Calls] /\ call'[t] = Idle /\ \A u \in Threads \ {t} : call'[u] = call[u]
  BY <1>1, CallStep, IdleFits
<1>8. Types'
  BY <1>1, <1>4, <1>6, <1>7 DEF Types
<1>9. CallShape'
  <2>1. \A u \in Threads \ {t} : call[u].handle # NoHandle => call[u].handle \in Handles \ {h}
    BY <1>0, <1>1, <1>2 DEF CallShape, Fits
  <2> QED
    BY <1>1, <1>6, <2>1, IdleFits, ShapeStep
<1>10. Has("list", n, p) /\ freeList[n] = s
  BY <1>0, <1>2, <1>3 DEF Has
<1>11. /\ driver[p] # 0 /\ ~ArenaAt(p) /\ \A g \in Handles : ~Holds(storage[g], p)
       /\ \A u \in Threads : ~Holds(call[u].block, p) /\ p \notin call[u].toFree
       /\ \A m \in Sizes : p \in ListOf(freeList[m]) => m = n
  BY <1>1, <1>3, <1>10, SoleOwner
<1>a. Owned(leaks)'
  <2>1. \A m \in Sizes : p \notin ListOf(freeList'[m]) /\ NoRepeats(freeList'[m])
    BY <1>1, <1>3, <1>4, <1>11 DEF Owned
  <2>2. \A q \in Ptrs \ {p}, m \in Sizes : q \in ListOf(freeList'[m]) <=> q \in ListOf(freeList[m])
    BY <1>3, <1>4, <1>10
  <2>3. \A q \in Ptrs : ~Holds(call[t].block, q)
    BY <1>2 DEF Holds
  <2> QED
    BY <1>1, <1>2, <1>3, <1>5, <1>11, <2>1, <2>2, <2>3, HandleGets
<1>12. RealSizes'
  <2>1. driver[p] = n
    BY <1>1, <1>2, <1>3, <1>10 DEF RealSizes
  <2>2. \A m \in Sizes : ListOf(freeList'[m]) \subseteq ListOf(freeList[m])
    BY <1>3, <1>4, <1>10
  <2>3. ASSUME NEW g \in Handles, storage'[g] # NoBlock, ~ArenaAt(storage'[g].ptr)
        PROVE  driver[storage'[g].ptr] = storage'[g].size
    <3>1. CASE g = h
      BY <1>5, <1>6, <2>1, <3>1
    <3>2. CASE g # h
      BY <1>1, <1>6, <2>3, <3>2 DEF RealSizes
    <3> QED
      BY <3>1, <3>2
  <2>4. ASSUME NEW u \in Threads, call'[u].block # NoBlock, ~ArenaAt(call'[u].block.ptr)
        PROVE  driver[call'[u].block.ptr] = call'[u].block.size
    BY <1>1, <1>7, <2>4, IdleFits DEF RealSizes
  <2>5. \A m \in Sizes : \A q \in ListOf(freeList'[m]) : driver[q] = m
    BY <1>1, <2>2 DEF RealSizes
  <2> QED
    BY <1>1, <2>3, <2>4, <2>5 DEF RealSizes, ArenaAt
<1> QED
  BY <1>8, <1>9, <1>12, <1>a DEF IInv

\* The driver hands out an address nobody has, to the handle or, in a window, to
\* the call that will record it.
LEMMA DriverAllocStep ==
  ASSUME NEW leaks \in BOOLEAN, IInv(leaks), NEW t \in Threads, DriverAlloc(t)
  PROVE  IInv(leaks)'
<1>0. PICK h, n, g : h = call[t].handle /\ n = call[t].size /\ g = call[t].graph
  OBVIOUS
<1>1. /\ Types /\ CallShape /\ Owned(leaks) /\ RealSizes
      /\ call[t].pc = "driver" \/ (call[t].pc = "drained" /\ call[t].toFree = {})
      /\ UNCHANGED <<freeList, frozen, arena>> /\ call[t] \in Calls
  BY DEF DriverAlloc, At, IInv, Types
<1>2. /\ h \in Handles /\ n \in Sizes /\ storage[h] = NoBlock /\ g \in BOOLEAN
      /\ call[t].block = NoBlock /\ call[t].toFree = {} /\ h # NoHandle
  BY <1>0, <1>1, ConstantsAssumption DEF CallShape, Fits, AllocatePcs, Carrying, Calls
<1>3. PICK p \in Ptrs :
        /\ driver[p] = 0 /\ driver' = [driver EXCEPT ![p] = n]
        /\ g => /\ call' = [call EXCEPT ![t].pc = "record", ![t].block = Block(p, 0, n, TRUE)]
                /\ storage' = storage
        /\ ~g => /\ storage' = [storage EXCEPT ![h] = Block(p, 0, n, FALSE)]
                 /\ call' = [call EXCEPT ![t] = Idle]
  BY <1>0 DEF DriverAlloc, Return
<1>4. PICK b : b = Block(p, 0, n, g)
  OBVIOUS
<1>5. b \in Blocks \ {NoBlock} /\ b.ptr = p /\ b.size = n /\ \A q : Holds(b, q) <=> q = p
  <2>1. 0 \in Nat
    OBVIOUS
  <2> QED
    BY <1>2, <1>3, <1>4, <2>1, BlockFields
<1>6. /\ driver' \in [Ptrs -> Sizes \cup {0}] /\ driver'[p] = n /\ n # 0
      /\ \A q \in Ptrs \ {p} : driver'[q] = driver[q]
  BY <1>1, <1>2, <1>3, ConstantsAssumption DEF Types
<1>7. /\ ~ArenaAt(p) /\ \A g_1 \in Handles : ~Holds(storage[g_1], p)
      /\ \A u \in Threads : ~Holds(call[u].block, p) /\ p \notin call[u].toFree
      /\ \A m \in Sizes : p \notin ListOf(freeList[m])
  BY <1>1, <1>3 DEF Owned, Has
<1>8. \A m \in Sizes : NoRepeats(freeList'[m])
  BY <1>1 DEF Owned
<1>9. \A m \in Sizes : \A q \in ListOf(freeList'[m]) : driver'[q] = m
  <2>1. \A m \in Sizes : \A q \in ListOf(freeList'[m]) : q \in Ptrs /\ q # p
    BY <1>1, <1>7, HeldAddresses
  <2> QED
    BY <1>1, <1>6, <2>1 DEF RealSizes
<1>10. ASSUME NEW x, x # NoBlock, x.ptr \in Ptrs, ~ArenaAt(x.ptr), ~Holds(x, p),
              driver[x.ptr] = x.size
       PROVE  driver'[x.ptr] = x.size
  BY <1>6, <1>10 DEF Holds
<1>11. CASE g
  <2> DEFINE c == [call[t] EXCEPT !.pc = "record", !.block = b]
  <2>1. /\ c \in Calls /\ c.pc = "record" /\ c.block = b /\ c.toFree = {} /\ c.handle = h
        /\ c.size = n /\ call' = [call EXCEPT ![t] = c] /\ storage' = storage
    BY <1>0, <1>1, <1>2, <1>3, <1>4, <1>5, <1>11 DEF Calls, Carrying, Types
  <2> HIDE DEF c
  <2>2. call' \in [Threads -> Calls] /\ call'[t] = c /\ \A u \in Threads \ {t} : call'[u] = call[u]
    BY <1>1, <2>1, CallStep
  <2>3. Types'
    BY <1>1, <1>6, <2>1, <2>2 DEF Types
  <2>4. Fits(c, storage')
    BY <1>2, <1>5, <2>1 DEF Fits, AllocatePcs, Carrying
  <2>5. CallShape'
    BY <1>0, <1>1, <2>1, <2>4, ShapeStep
  <2>6. Owned(leaks)'
    BY <1>1, <1>2, <1>3, <1>5, <1>6, <1>7, <2>1, CallGets
  <2>7. RealSizes'
    <3>1. ASSUME NEW u \in Threads, call'[u].block # NoBlock, ~ArenaAt(call'[u].block.ptr)
          PROVE  driver'[call'[u].block.ptr] = call'[u].block.size
      BY <1>1, <1>5, <1>6, <1>7, <1>10, <2>1, <2>2, <3>1, HeldAddresses DEF RealSizes
    <3>2. ASSUME NEW k \in Handles, storage[k] # NoBlock, ~ArenaAt(storage[k].ptr)
          PROVE  driver'[storage[k].ptr] = storage[k].size
      BY <1>1, <1>7, <1>10, <3>2, HeldAddresses DEF RealSizes
    <3> QED
      BY <1>1, <1>9, <2>1, <3>1, <3>2 DEF RealSizes, ArenaAt
  <2> QED
    BY <2>3, <2>5, <2>6, <2>7 DEF IInv
<1>12. CASE ~g
  <2>1. storage' = [storage EXCEPT ![h] = b] /\ call' = [call EXCEPT ![t] = Idle]
    BY <1>2, <1>3, <1>4, <1>12
  <2>2. /\ storage' \in [Handles -> Blocks \cup {NoBlock}] /\ storage'[h] = b
        /\ \A k \in Handles \ {h} : storage'[k] = storage[k]
    BY <1>1, <1>2, <1>5, <2>1 DEF Types
  <2>3. call' \in [Threads -> Calls] /\ call'[t] = Idle /\ \A u \in Threads \ {t} : call'[u] = call[u]
    BY <1>1, <2>1, CallStep, IdleFits
  <2>4. Types'
    BY <1>1, <1>6, <2>2, <2>3 DEF Types
  <2>5. CallShape'
    <3>1. \A u \in Threads \ {t} : call[u].handle # NoHandle => call[u].handle \in Handles \ {h}
      BY <1>0, <1>1, <1>2 DEF CallShape, Fits
    <3> QED
      BY <1>1, <2>1, <2>2, <3>1, IdleFits, ShapeStep
  <2>6. Owned(leaks)'
    <3>1. \A q \in Ptrs : ~Holds(call[t].block, q)
      BY <1>2 DEF Holds
    <3> QED
      <4>1. \A m \in Sizes : p \notin ListOf(freeList'[m]) /\ NoRepeats(freeList'[m])
        BY <1>1, <1>7, <1>8
      <4>2. \A q \in Ptrs \ {p}, m \in Sizes :
              q \in ListOf(freeList'[m]) <=> q \in ListOf(freeList[m])
        BY <1>1
      <4>3. driver'[p] # 0 /\ arena' = arena /\ \A q \in Ptrs \ {p} : driver'[q] = driver[q]
        BY <1>1, <1>6
      <4>4. p \in Ptrs /\ \A q \in Ptrs : Holds(call[t].block, q) => q = p
        BY <1>3, <3>1
      <4>5. /\ b \in Blocks \ {NoBlock} /\ b.ptr = p /\ ~ArenaAt(p) /\ storage[h] = NoBlock
            /\ h \in Handles /\ call[t].toFree = {} /\ Types /\ Owned(leaks)
            /\ \A k \in Handles : ~Holds(storage[k], p)
            /\ \A u \in Threads \ {t} : ~Holds(call[u].block, p) /\ p \notin call[u].toFree
        BY <1>1, <1>2, <1>5, <1>7
      <4> QED
        BY <2>1, <4>1, <4>2, <4>3, <4>4, <4>5, HandleGets
  <2>7. RealSizes'
    <3>1. ASSUME NEW k \in Handles, storage'[k] # NoBlock, ~ArenaAt(storage'[k].ptr)
          PROVE  driver'[storage'[k].ptr] = storage'[k].size
      <4>1. CASE k = h
        BY <1>5, <1>6, <2>2, <4>1
      <4>2. CASE k # h
        BY <1>1, <1>7, <1>10, <2>2, <3>1, <4>2, HeldAddresses DEF RealSizes
      <4> QED
        BY <4>1, <4>2
    <3>2. ASSUME NEW u \in Threads, call'[u].block # NoBlock, ~ArenaAt(call'[u].block.ptr)
          PROVE  driver'[call'[u].block.ptr] = call'[u].block.size
      BY <1>1, <1>7, <1>10, <2>3, <3>2, IdleFits, HeldAddresses DEF RealSizes
    <3> QED
      BY <1>1, <1>9, <3>1, <3>2 DEF RealSizes, ArenaAt
  <2> QED
    BY <2>4, <2>5, <2>6, <2>7 DEF IInv
<1> QED
  BY <1>2, <1>11, <1>12

\* drain and reset: everything cached goes to the call that will free it.
LEMMA TakeAll ==
  ASSUME NEW leaks \in BOOLEAN, IInv(leaks), NEW t \in Threads, NEW c \in Calls, call' = [call EXCEPT ![t] = c],
         c.toFree = Cached, c.block = NoBlock, call[t].block = NoBlock, call[t].toFree = {},
         c.handle = call[t].handle, Fits(c, storage),
         freeList' = [n \in Sizes |-> <<>>], UNCHANGED <<driver, frozen, arena, storage>>
  PROVE  IInv(leaks)'
<1>1. Types /\ CallShape /\ Owned(leaks) /\ RealSizes
  BY DEF IInv
<1>2. PICK M : M = Cached
  OBVIOUS
<1>3. \A p : p \in M <=> \E n \in Sizes : p \in ListOf(freeList[n])
  BY <1>2 DEF Cached, ListOf
<1>4. M \subseteq Ptrs
  BY <1>1, <1>3, HeldAddresses
<1>5. call' \in [Threads -> Calls] /\ call'[t] = c /\ \A u \in Threads \ {t} : call'[u] = call[u]
  BY <1>1, CallStep
<1>6. /\ \A n \in Sizes : freeList'[n] = <<>> /\ ListOf(freeList'[n]) = {} /\ NoRepeats(freeList'[n])
      /\ freeList' \in [Sizes -> Seq(Ptrs)]
  BY EmptySeq DEF ListOf, NoRepeats
<1>7. Types'
  BY <1>1, <1>5, <1>6 DEF Types
<1>8. CallShape'
  BY <1>1, ShapeStep
<1>9. \A p \in M : ~ArenaAt(p) /\ driver'[p] # 0 /\ \E l, b : OnlyHas(l, b, p)'
  <2> SUFFICES ASSUME NEW p \in M
               PROVE  ~ArenaAt(p) /\ driver'[p] # 0 /\ OnlyHas("freer", t, p)'
    OBVIOUS
  <2>1. PICK n \in Sizes : Has("list", n, p)
    BY <1>3 DEF Has
  <2>2. /\ ~ArenaAt(p) /\ driver[p] # 0 /\ \A h \in Handles : ~Holds(storage[h], p)
        /\ \A u \in Threads : ~Holds(call[u].block, p) /\ p \notin call[u].toFree
    BY <1>1, <1>4, <2>1, SoleOwner
  <2>3. Has("freer", t, p)'
    BY <1>2, <1>5 DEF Has
  <2>4. /\ \A h \in Handles : ~Holds(storage'[h], p)
        /\ \A u \in Threads : ~Holds(call'[u].block, p) /\ (p \in call'[u].toFree => u = t)
        /\ \A n_1 \in Sizes : p \notin ListOf(freeList'[n_1])
    BY <1>5, <1>6, <2>2 DEF Holds
  <2> QED
    BY <2>2, <2>3, <2>4, NewOwner
<1>10. \A p \in Ptrs \ M : driver'[p] = driver[p] /\ KeepsOwner(p)
  <2> SUFFICES ASSUME NEW p \in Ptrs \ M PROVE KeepsOwner(p)
    OBVIOUS
  <2>1. /\ \A u \in Threads : Holds(call'[u].block, p) <=> Holds(call[u].block, p)
        /\ \A u \in Threads : p \in call'[u].toFree <=> p \in call[u].toFree
    BY <1>2, <1>5 DEF Holds
  <2>2. \A n \in Sizes : p \in ListOf(freeList'[n]) <=> p \in ListOf(freeList[n])
    BY <1>3, <1>6
  <2> QED
    BY <2>1, <2>2, SameOwner
<1>11. Owned(leaks)'
  BY <1>1, <1>4, <1>6, <1>9, <1>10, Handover
<1>12. RealSizes'
  BY <1>1, <1>5, <1>6 DEF RealSizes, ArenaAt
<1> QED
  BY <1>7, <1>8, <1>11, <1>12 DEF IInv

LEMMA DrainStep ==
  ASSUME NEW leaks \in BOOLEAN, IInv(leaks), NEW t \in Threads, Drain(t) \/ Reset(t)
  PROVE  IInv(leaks)'
<1>1. /\ Types /\ CallShape
      /\ freeList' = [n \in Sizes |-> <<>>] /\ UNCHANGED <<driver, frozen, arena, storage>>
      /\ call[t].pc \in {"drain", "idle"}
  BY DEF IInv, Drain, Reset, At
<1>2. call[t] \in Calls /\ Fits(call[t], storage) /\ Cached \subseteq Ptrs
  BY <1>1, HeldAddresses DEF Types, CallShape, Cached, ListOf
<1>3. call[t].block = NoBlock /\ call[t].toFree = {}
  BY <1>1, <1>2 DEF Fits, Carrying
<1>4. CASE Drain(t)
  <2> DEFINE c == Frame("drained", call[t].handle, call[t].size, call[t].graph, NoBlock, Cached)
  <2>1. c \in Calls /\ c.toFree = Cached /\ c.block = NoBlock /\ c.handle = call[t].handle
        /\ c.pc = "drained" /\ c.size = call[t].size
    BY <1>2 DEF Frame, Calls, AllocatePcs
  <2>2. call' = [call EXCEPT ![t] = c] /\ call[t].pc = "drain"
    BY <1>4 DEF Drain, At
  <2> HIDE DEF c
  <2>3. Fits(c, storage)
    BY <1>2, <2>1, <2>2 DEF Fits, AllocatePcs, Carrying
  <2> QED
    BY <1>1, <1>3, <2>1, <2>2, <2>3, TakeAll
<1>5. CASE Reset(t)
  <2> DEFINE c == Freeing("free", NoBlock, Cached)
  <2>1. c \in Calls /\ c.toFree = Cached /\ c.block = NoBlock /\ c.handle = NoHandle
        /\ c.pc = "free"
    BY <1>2 DEF Freeing, Frame, Calls
  <2>2. call' = [call EXCEPT ![t] = c] /\ call[t].handle = NoHandle
    BY <1>2, <1>5 DEF Reset, At, Fits, AllocatePcs, Carrying
  <2> HIDE DEF c
  <2>3. Fits(c, storage)
    BY <2>1 DEF Fits, AllocatePcs, Carrying
  <2> QED
    BY <1>1, <1>3, <2>1, <2>2, <2>3, TakeAll
<1> QED
  BY <1>4, <1>5

\* deallocate takes the block from the handle.
LEMMA DeallocateEnters ==
  ASSUME NEW leaks \in BOOLEAN, IInv(leaks), NEW t \in Threads, NEW h \in Handles, Deallocate(t, h)
  PROVE  IInv(leaks)'
<1>0. PICK b, p : b = storage[h] /\ p = b.ptr
  OBVIOUS
<1> DEFINE c == Freeing(IF frozen THEN "arenaFree" ELSE "push", b, {})
<1>1. /\ Types /\ CallShape /\ Owned(leaks) /\ RealSizes
      /\ call[t].pc = "idle" /\ b # NoBlock /\ call' = [call EXCEPT ![t] = c]
      /\ storage' = [storage EXCEPT ![h] = NoBlock] /\ UNCHANGED <<driver, freeList, frozen, arena>>
  BY <1>0 DEF Deallocate, At, IInv
<1>2. b \in Blocks /\ p \in Ptrs /\ Holds(b, p) /\ \A q : Holds(b, q) <=> q = p
  BY <1>0, <1>1, HeldAddresses DEF Holds
<1>3. /\ call[t].block = NoBlock /\ call[t].toFree = {} /\ call[t].handle = NoHandle
  BY <1>1 DEF CallShape, Fits, AllocatePcs, Carrying
<1>4. c \in Calls /\ c.block = b /\ c.toFree = {} /\ c.handle = NoHandle
      /\ c.pc \in {"arenaFree", "push"}
  BY <1>2 DEF Calls, Carrying, Freeing, Frame
<1> HIDE DEF c
<1>5. call' \in [Threads -> Calls] /\ call'[t] = c /\ \A u \in Threads \ {t} : call'[u] = call[u]
  BY <1>1, <1>4, CallStep
<1>6. /\ storage' \in [Handles -> Blocks \cup {NoBlock}] /\ storage'[h] = NoBlock
      /\ \A g \in Handles \ {h} : storage'[g] = storage[g]
  BY <1>1 DEF Types
<1>7. Types'
  BY <1>1, <1>5, <1>6 DEF Types
<1>8. CallShape'
  <2>1. \A u \in Threads \ {t} : call[u].handle # NoHandle => call[u].handle \in Handles \ {h}
    BY <1>0, <1>1 DEF CallShape, Fits
  <2>2. Fits(c, storage')
    BY <1>1, <1>4 DEF Fits, AllocatePcs, Carrying
  <2> QED
    BY <1>1, <1>4, <1>6, <2>1, <2>2, ShapeStep
<1>9. Has("handle", h, p) /\ driver[p] # 0
  BY <1>0, <1>1, <1>2 DEF Has, Owned
<1>10. \A q \in Ptrs \ {p}, g \in Handles : Holds(storage'[g], q) <=> Holds(storage[g], q)
  BY <1>0, <1>2, <1>6 DEF Holds
<1>11. ASSUME ~ArenaAt(p) PROVE Owned(leaks)'
  <2>1. /\ \A g \in Handles : Holds(storage[g], p) => g = h
        /\ \A u \in Threads : ~Holds(call[u].block, p) /\ p \notin call[u].toFree
        /\ \A n \in Sizes : p \notin ListOf(freeList[n])
    BY <1>1, <1>2, <1>9, <1>11, SoleOwner
  <2>2. \A g \in Handles : ~Holds(storage'[g], p)
    BY <1>6, <2>1 DEF Holds
  <2> QED
    BY <1>0, <1>1, <1>2, <1>3, <1>4, <1>9, <1>10, <1>11, <2>1, <2>2, CallGets
<1>12. ASSUME ArenaAt(p) PROVE Owned(leaks)'
  <2>1. /\ \A u \in Threads : p \notin call[u].toFree
        /\ \A n \in Sizes : p \notin ListOf(freeList[n])
    BY <1>1, <1>2, <1>12 DEF Owned, Has
  <2>2. /\ \A u \in Threads : p \notin call'[u].toFree
        /\ \A n \in Sizes : p \notin ListOf(freeList'[n])
    BY <1>1, <1>4, <1>5, <2>1
  <2>3. \A k, a : Has(k, a, p)' => k \in {"handle", "carrier"}
    BY <2>2 DEF Has
  <2>4. Has("carrier", t, p)'
    BY <1>2, <1>4, <1>5 DEF Has
  <2>5. \A q \in Ptrs \ {p} : KeepsOwner(q)
    <3> TAKE q \in Ptrs \ {p}
    <3>1. /\ \A u \in Threads : Holds(call'[u].block, q) <=> Holds(call[u].block, q)
          /\ \A u \in Threads : q \in call'[u].toFree <=> q \in call[u].toFree
      BY <1>2, <1>3, <1>4, <1>5 DEF Holds
    <3> QED
      BY <1>1, <1>10, <3>1, SameOwner
  <2>6. ArenaAt(p)'
    BY <1>1, <1>12 DEF ArenaAt
  <2> QED
    BY <1>1, <1>2, <1>12, <2>3, <2>4, <2>5, <2>6, ArenaHandover
<1>13. RealSizes'
  BY <1>0, <1>1, <1>4, <1>5, <1>6 DEF RealSizes, ArenaAt
<1> QED
  BY <1>7, <1>8, <1>11, <1>12, <1>13 DEF IInv

\* The buffer goes to the end of its list; if that was full, its oldest one comes out.
LEMMA PushStep ==
  ASSUME NEW leaks \in BOOLEAN, IInv(leaks), NEW t \in Threads, Push(t),
         ~ArenaAt(call[t].block.ptr)
  PROVE  IInv(leaks)'
<1>0. PICK b, n, p, s :
        b = call[t].block /\ n = b.size /\ p = b.ptr /\ s = freeList[n]
  OBVIOUS
<1>a. PICK rest, F : /\ rest = (IF Len(s) >= BucketCap THEN Tail(s) ELSE s)
                      /\ F = (IF Len(s) >= BucketCap THEN {Head(s)} ELSE {})
  OBVIOUS
<1> DEFINE c == Freeing("evict", NoBlock, F)
<1>1. /\ Types /\ CallShape /\ Owned(leaks) /\ RealSizes
      /\ call[t].pc = "push" /\ call' = [call EXCEPT ![t] = c]
      /\ freeList' = [freeList EXCEPT ![n] = Append(rest, p)]
      /\ UNCHANGED <<driver, frozen, arena, storage>>
  BY <1>0, <1>a DEF Push, At, IInv
<1>2. b # NoBlock /\ call[t].toFree = {} /\ call[t].handle = NoHandle
  BY <1>0, <1>1 DEF CallShape, Fits, AllocatePcs, Carrying
<1>3. b \in Blocks /\ p \in Ptrs /\ n \in Sizes /\ Holds(b, p) /\ \A q : Holds(b, q) <=> q = p
  BY <1>0, <1>1, <1>2, HeldAddresses DEF Holds, Blocks
<1>4. s \in Seq(Ptrs) /\ NoRepeats(s) /\ ListOf(s) \subseteq Ptrs
  BY <1>0, <1>1, <1>3, HeldAddresses DEF Types, Owned
<1>5. /\ driver[p] # 0 /\ ~ArenaAt(p) /\ (\A h \in Handles : ~Holds(storage[h], p))
      /\ \A u \in Threads : (Holds(call[u].block, p) => u = t) /\ p \notin call[u].toFree
      /\ \A m \in Sizes : p \notin ListOf(freeList[m])
  <2>1. Has("carrier", t, p)
    BY <1>0, <1>3 DEF Has
  <2> QED
    BY <1>0, <1>1, <1>3, <2>1, SoleOwner
<1>6. /\ F \subseteq ListOf(s) /\ rest \in Seq(Ptrs) /\ NoRepeats(rest)
      /\ ListOf(rest) = ListOf(s) \ F
  <2>1. CASE Len(s) >= BucketCap
    <3>1. Len(s) \in Nat /\ Len(s) # 0
      BY <1>4, <2>1, LenProperties, ConstantsAssumption
    <3>2. s # <<>>
      BY <3>1, EmptySeq
    <3> QED
      BY <1>a, <1>4, <2>1, <3>2, TailLists
  <2>2. CASE ~(Len(s) >= BucketCap)
    BY <1>a, <1>4, <2>2
  <2> QED
    BY <2>1, <2>2
<1>7. /\ Append(rest, p) \in Seq(Ptrs) /\ NoRepeats(Append(rest, p))
      /\ ListOf(Append(rest, p)) = (ListOf(s) \ F) \cup {p}
  BY <1>0, <1>3, <1>5, <1>6, AppendLists
<1>8. c \in Calls /\ c.block = NoBlock /\ c.toFree = F /\ c.handle = NoHandle /\ c.pc = "evict"
  BY <1>4, <1>6 DEF Calls, Freeing, Frame
<1> HIDE DEF c
<1>9. call' \in [Threads -> Calls] /\ call'[t] = c /\ \A u \in Threads \ {t} : call'[u] = call[u]
  BY <1>1, <1>8, CallStep
<1>10. /\ freeList' \in [Sizes -> Seq(Ptrs)] /\ freeList'[n] = Append(rest, p)
       /\ \A m \in Sizes \ {n} : freeList'[m] = freeList[m]
  BY <1>1, <1>3, <1>7 DEF Types
<1>11. Types'
  BY <1>1, <1>9, <1>10 DEF Types
<1>12. CallShape'
  <2>1. Fits(c, storage')
    BY <1>8 DEF Fits, AllocatePcs, Carrying
  <2> QED
    BY <1>1, <1>8, <2>1, ShapeStep
<1>13. \A m \in Sizes : NoRepeats(freeList'[m])
  BY <1>1, <1>7, <1>10 DEF Owned
<1>14. OnlyHas("list", n, p)'
  <2>1. Has("list", n, p)'
    BY <1>3, <1>7, <1>10 DEF Has
  <2>2. /\ \A h \in Handles : ~Holds(storage'[h], p)
        /\ \A u \in Threads : ~Holds(call'[u].block, p) /\ p \notin call'[u].toFree
        /\ \A m \in Sizes : p \in ListOf(freeList'[m]) => m = n
    BY <1>0, <1>1, <1>3, <1>5, <1>6, <1>8, <1>9, <1>10 DEF Holds
  <2> QED
    BY <2>1, <2>2, NewOwner
<1>15. \A q \in F : ~ArenaAt(q) /\ driver[q] # 0 /\ OnlyHas("freer", t, q)'
  <2> TAKE q \in F
  <2>1. Has("list", n, q) /\ q \in Ptrs /\ q # p
    BY <1>0, <1>3, <1>4, <1>5, <1>6 DEF Has
  <2>2. /\ ~ArenaAt(q) /\ driver[q] # 0 /\ (\A h \in Handles : ~Holds(storage[h], q))
        /\ \A u \in Threads : ~Holds(call[u].block, q) /\ q \notin call[u].toFree
        /\ \A m \in Sizes : q \in ListOf(freeList[m]) => m = n
    BY <1>1, <2>1, SoleOwner
  <2>3. Has("freer", t, q)'
    BY <1>8, <1>9 DEF Has
  <2>4. /\ \A h \in Handles : ~Holds(storage'[h], q)
        /\ \A u \in Threads : ~Holds(call'[u].block, q) /\ (q \in call'[u].toFree => u = t)
        /\ \A m \in Sizes : q \notin ListOf(freeList'[m])
    BY <1>1, <1>7, <1>8, <1>9, <1>10, <2>1, <2>2 DEF Holds
  <2> QED
    BY <2>2, <2>3, <2>4, NewOwner
<1>16. \A q \in Ptrs \ (F \cup {p}) : KeepsOwner(q)
  <2> TAKE q \in Ptrs \ (F \cup {p})
  <2>1. /\ \A u \in Threads : Holds(call'[u].block, q) <=> Holds(call[u].block, q)
        /\ \A u \in Threads : q \in call'[u].toFree <=> q \in call[u].toFree
    BY <1>0, <1>2, <1>3, <1>8, <1>9 DEF Holds
  <2>2. \A m \in Sizes : q \in ListOf(freeList'[m]) <=> q \in ListOf(freeList[m])
    BY <1>0, <1>7, <1>10
  <2> QED
    BY <1>1, <2>1, <2>2, SameOwner
<1>17. Owned(leaks)'
  <2>1. PICK M : M = F \cup {p}
    OBVIOUS
  <2>2. M \in SUBSET Ptrs
    BY <1>3, <1>4, <1>6, <2>1
  <2>3. \A q \in M : ~ArenaAt(q) /\ driver'[q] # 0 /\ \E k, a : OnlyHas(k, a, q)'
    <3> TAKE q \in M
    <3>1. CASE q = p
      BY <1>1, <1>5, <1>14, <3>1
    <3>2. CASE q \in F
      BY <1>1, <1>15, <3>2
    <3> QED
      BY <2>1, <3>1, <3>2
  <2>4. \A q \in Ptrs \ M : driver'[q] = driver[q] /\ KeepsOwner(q)
    BY <1>1, <1>16, <2>1
  <2> QED
    BY <1>1, <1>13, <2>2, <2>3, <2>4, Handover
<1>18. RealSizes'
  <2>1. driver[p] = n
    BY <1>0, <1>1, <1>2, <1>5 DEF RealSizes
  <2>2. \A m \in Sizes : \A q \in ListOf(freeList'[m]) : driver[q] = m
    BY <1>0, <1>1, <1>7, <1>10, <2>1 DEF RealSizes
  <2> QED
    BY <1>1, <1>8, <1>9, <2>2 DEF RealSizes, ArenaAt
<1> QED
  BY <1>11, <1>12, <1>17, <1>18 DEF IInv

\* One round of evict_to_cap moves the oldest buffer of a list to the call.
LEMMA EvictStep ==
  ASSUME NEW leaks \in BOOLEAN, IInv(leaks), NEW t \in Threads, Evict(t)
  PROVE  IInv(leaks)'
<1>1. PICK n \in NonEmpty : /\ freeList' = [freeList EXCEPT ![n] = Tail(@)]
                            /\ call' = [call EXCEPT ![t].toFree = @ \cup {Head(freeList[n])}]
  BY DEF Evict
<1>2. PICK s, p, old : s = freeList[n] /\ p = Head(s) /\ old = call[t].toFree
  OBVIOUS
<1> DEFINE c == [call[t] EXCEPT !.toFree = old \cup {p}]
<1>3. /\ Types /\ CallShape /\ Owned(leaks) /\ RealSizes /\ n \in Sizes /\ s # <<>>
      /\ call[t].pc = "evict" /\ call[t] \in Calls /\ Fits(call[t], storage)
      /\ UNCHANGED <<driver, frozen, arena, storage>>
  BY <1>2 DEF Evict, At, IInv, NonEmpty, Types, CallShape
<1>4. freeList' = [freeList EXCEPT ![n] = Tail(s)] /\ call' = [call EXCEPT ![t] = c]
  BY <1>1, <1>2, <1>3 DEF Types
<1>5. /\ p \in Ptrs /\ p \in ListOf(s) /\ Tail(s) \in Seq(Ptrs) /\ NoRepeats(Tail(s))
      /\ ListOf(Tail(s)) = ListOf(s) \ {p}
  BY <1>2, <1>3, TailLists DEF Types, Owned
<1>6. /\ c \in Calls /\ c.toFree = old \cup {p} /\ c.block = call[t].block
      /\ c.handle = call[t].handle /\ c.pc = "evict"
  BY <1>2, <1>3, <1>5 DEF Calls
<1> HIDE DEF c
<1>7. call' \in [Threads -> Calls] /\ call'[t] = c /\ \A u \in Threads \ {t} : call'[u] = call[u]
  BY <1>3, <1>4, <1>6, CallStep
<1>8. /\ freeList' \in [Sizes -> Seq(Ptrs)] /\ freeList'[n] = Tail(s)
      /\ \A m \in Sizes \ {n} : freeList'[m] = freeList[m]
  BY <1>3, <1>4, <1>5 DEF Types
<1>9. Types'
  BY <1>3, <1>7, <1>8 DEF Types
<1>10. CallShape'
  <2>1. Fits(c, storage')
    BY <1>3, <1>6 DEF Fits, AllocatePcs, Carrying
  <2> QED
    BY <1>3, <1>4, <1>6, <2>1, ShapeStep
<1>11. /\ driver[p] # 0 /\ ~ArenaAt(p) /\ (\A h \in Handles : ~Holds(storage[h], p))
       /\ \A u \in Threads : ~Holds(call[u].block, p) /\ p \notin call[u].toFree
       /\ \A m \in Sizes : p \in ListOf(freeList[m]) => m = n
  <2>1. Has("list", n, p)
    BY <1>2, <1>3, <1>5 DEF Has
  <2> QED
    BY <1>3, <1>5, <2>1, SoleOwner
<1>12. OnlyHas("freer", t, p)'
  <2>1. Has("freer", t, p)'
    BY <1>6, <1>7 DEF Has
  <2>2. /\ \A h \in Handles : ~Holds(storage'[h], p)
        /\ \A u \in Threads : ~Holds(call'[u].block, p) /\ (p \in call'[u].toFree => u = t)
        /\ \A m \in Sizes : p \notin ListOf(freeList'[m])
    BY <1>3, <1>5, <1>6, <1>7, <1>8, <1>11
  <2> QED
    BY <2>1, <2>2, NewOwner
<1>13. \A q \in Ptrs \ {p} : KeepsOwner(q)
  <2> TAKE q \in Ptrs \ {p}
  <2>1. /\ \A u \in Threads : Holds(call'[u].block, q) <=> Holds(call[u].block, q)
        /\ \A u \in Threads : q \in call'[u].toFree <=> q \in call[u].toFree
    BY <1>2, <1>6, <1>7
  <2>2. \A m \in Sizes : q \in ListOf(freeList'[m]) <=> q \in ListOf(freeList[m])
    BY <1>2, <1>5, <1>8
  <2> QED
    BY <1>3, <2>1, <2>2, SameOwner
<1>14. Owned(leaks)'
  <2>1. \A m \in Sizes : NoRepeats(freeList'[m])
    BY <1>3, <1>5, <1>8 DEF Owned
  <2> QED
    BY <1>3, <1>5, <1>11, <1>12, <1>13, <2>1, OneHandover
<1>15. RealSizes'
  <2>1. \A m \in Sizes : ListOf(freeList'[m]) \subseteq ListOf(freeList[m])
    BY <1>2, <1>5, <1>8
  <2>2. \A u \in Threads : call'[u].block = call[u].block
    BY <1>6, <1>7
  <2> QED
    BY <1>3, <2>1, <2>2 DEF RealSizes, ArenaAt
<1> QED
  BY <1>9, <1>10, <1>14, <1>15 DEF IInv

\* driver_free: the buffer was this call's alone.
LEMMA FreeOneStep ==
  ASSUME NEW leaks \in BOOLEAN, IInv(leaks), NEW t \in Threads, FreeOne(t)
  PROVE  IInv(leaks)'
<1>1. PICK p \in call[t].toFree : /\ driver' = [driver EXCEPT ![p] = 0]
                                  /\ call' = [call EXCEPT ![t].toFree = @ \ {p}]
  BY DEF FreeOne
<1>2. PICK old : old = call[t].toFree
  OBVIOUS
<1> DEFINE c == [call[t] EXCEPT !.toFree = old \ {p}]
<1>3. /\ Types /\ CallShape /\ Owned(leaks) /\ RealSizes
      /\ call[t].pc \in {"free", "drained"} /\ call[t] \in Calls /\ Fits(call[t], storage)
      /\ UNCHANGED <<freeList, frozen, arena, storage>>
  BY DEF FreeOne, At, IInv, Types, CallShape
<1>4. p \in Ptrs /\ call' = [call EXCEPT ![t] = c]
  BY <1>1, <1>2, <1>3, HeldAddresses DEF Types
<1>5. /\ c \in Calls /\ c.toFree = old \ {p} /\ c.block = call[t].block
      /\ c.handle = call[t].handle /\ c.pc = call[t].pc /\ c.size = call[t].size
  BY <1>2, <1>3 DEF Calls
<1> HIDE DEF c
<1>6. call' \in [Threads -> Calls] /\ call'[t] = c /\ \A u \in Threads \ {t} : call'[u] = call[u]
  BY <1>3, <1>4, <1>5, CallStep
<1>7. /\ driver' \in [Ptrs -> Sizes \cup {0}] /\ driver'[p] = 0
      /\ \A q \in Ptrs \ {p} : driver'[q] = driver[q]
  BY <1>1, <1>3, <1>4 DEF Types
<1>8. Types'
  BY <1>3, <1>6, <1>7 DEF Types
<1>9. CallShape'
  <2>1. Fits(c, storage')
    BY <1>3, <1>5 DEF Fits, AllocatePcs, Carrying
  <2> QED
    BY <1>3, <1>4, <1>5, <2>1, ShapeStep
<1>10. /\ ~ArenaAt(p) /\ (\A h \in Handles : ~Holds(storage[h], p))
       /\ \A u \in Threads : ~Holds(call[u].block, p) /\ (p \in call[u].toFree => u = t)
       /\ \A m \in Sizes : p \notin ListOf(freeList[m])
  <2>1. Has("freer", t, p)
    BY <1>1 DEF Has
  <2> QED
    BY <1>3, <1>4, <2>1, SoleOwner
<1>11. \A k, a : ~Has(k, a, p)'
  BY <1>3, <1>5, <1>6, <1>10 DEF Has
<1>12. \A q \in Ptrs \ {p} : KeepsOwner(q)
  <2> TAKE q \in Ptrs \ {p}
  <2>1. /\ \A u \in Threads : Holds(call'[u].block, q) <=> Holds(call[u].block, q)
        /\ \A u \in Threads : q \in call'[u].toFree <=> q \in call[u].toFree
    BY <1>2, <1>5, <1>6
  <2> QED
    BY <1>3, <2>1, SameOwner
<1>13. Owned(leaks)'
  <2>1. \A m \in Sizes : NoRepeats(freeList'[m])
    BY <1>3 DEF Owned
  <2> QED
    BY <1>3, <1>4, <1>7, <1>10, <1>11, <1>12, <2>1, GivenUp
<1>14. RealSizes'
  <2>1. ASSUME NEW h \in Handles, storage[h] # NoBlock, ~ArenaAt(storage[h].ptr)
        PROVE  driver'[storage[h].ptr] = storage[h].size
    <3>1. storage[h].ptr \in Ptrs \ {p}
      BY <1>3, <1>10, <2>1, HeldAddresses DEF Holds
    <3> QED
      BY <1>3, <1>7, <2>1, <3>1 DEF RealSizes
  <2>2. ASSUME NEW u \in Threads, call'[u].block # NoBlock, ~ArenaAt(call'[u].block.ptr)
        PROVE  driver'[call'[u].block.ptr] = call'[u].block.size
    <3>1. call'[u].block = call[u].block
      BY <1>5, <1>6
    <3>2. call[u].block.ptr \in Ptrs \ {p}
      BY <1>3, <1>10, <2>2, <3>1, HeldAddresses DEF Holds
    <3> QED
      BY <1>3, <1>7, <2>2, <3>1, <3>2 DEF RealSizes
  <2>3. \A m \in Sizes : \A q \in ListOf(freeList'[m]) : driver'[q] = m
    BY <1>3, <1>7, <1>10, HeldAddresses DEF RealSizes
  <2> QED
    BY <1>3, <2>1, <2>2, <2>3 DEF RealSizes, ArenaAt
<1> QED
  BY <1>8, <1>9, <1>13, <1>14 DEF IInv
-----------------------------------------------------------------------------
LEMMA InitIInv ==
  ASSUME Init
  PROVE  IInv(FALSE)
<1>1. \A n \in Sizes : freeList[n] = <<>> /\ ListOf(freeList[n]) = {} /\ NoRepeats(freeList[n])
  BY DEF Init, ListOf, NoRepeats
<1>2. Types
  BY IdleFits, EmptySeq DEF Init, Types
<1>3. CallShape
  BY IdleFits DEF Init, CallShape
<1>4. \A k, a, p : ~Has(k, a, p)
  BY <1>1, IdleFits DEF Init, Has, Holds
<1>5. Owned(FALSE)
  BY <1>1, <1>4 DEF Init, Owned, ArenaAt
<1>6. RealSizes
  BY <1>1, IdleFits DEF Init, RealSizes
<1> QED
  BY <1>2, <1>3, <1>5, <1>6 DEF IInv

\* A step of a call that never meets a freeze window.
LEMMA StepIInv ==
  ASSUME NEW leaks \in BOOLEAN, IInv(leaks), NEW t \in Threads, Step(t),
         call[t].pc = "push" => ~ArenaAt(call[t].block.ptr)
  PROVE  IInv(leaks)'
BY QuietSteps, PopHitStep, DriverAllocStep, DrainStep, PushStep, EvictStep, FreeOneStep
DEF Step, AllocateStep, DeallocateStep, Push, At

LEMMA StutterIInv ==
  ASSUME NEW leaks \in BOOLEAN, IInv(leaks), UNCHANGED <<driver, freeList, call, storage, arena>>,
         frozen' \in BOOLEAN
  PROVE  IInv(leaks)'
<1>1. \A p \in Ptrs : KeepsOwner(p)
  BY DEF KeepsOwner, Has
<1>2. Owned(leaks)'
  BY <1>1, OwnersKept DEF IInv
<1> QED
  BY <1>2 DEF IInv, Types, CallShape, RealSizes, ArenaAt

-----------------------------------------------------------------------------
(***************************************************************************)
(* Threads outside graph capture: there is no window and no arena          *)
(***************************************************************************)
AInv == IInv(FALSE) /\ ~frozen /\ arena = NoArena

LEMMA NextAInv ==
  ASSUME AInv, [Next]_vars
  PROVE  AInv'
<1>1. IInv(FALSE) /\ FALSE \in BOOLEAN /\ \A p : ~ArenaAt(p)
  BY DEF AInv, ArenaAt
<1>2. ASSUME NEW t \in Threads, Enter(t)
      PROVE  IInv(FALSE)' /\ UNCHANGED <<frozen, arena>>
  <2>1. CASE \E h \in Handles, n \in Sizes : Allocate(t, h, n)
    BY <1>1, <2>1, QuietSteps DEF Allocate
  <2>2. CASE \E h \in Live : Deallocate(t, h)
    BY <1>1, <2>2, DeallocateEnters DEF Live, Deallocate
  <2>3. CASE Reset(t)
    BY <1>1, <2>3, DrainStep DEF Reset
  <2> QED
    BY <1>2, <2>1, <2>2, <2>3 DEF Enter
<1>3. ASSUME NEW t \in Threads, Step(t)
      PROVE  IInv(FALSE)' /\ UNCHANGED <<frozen, arena>>
  <2>1. IInv(FALSE)'
    BY <1>1, <1>3, StepIInv
  <2>2. UNCHANGED <<frozen, arena>>
    BY <1>3 DEF Step, AllocateStep, DeallocateStep, PopHit, PopMiss, DriverAlloc, DriverFailure,
       Drain, OutOfMemory, Push, Evict, Unlock, FreeOne, Freed
  <2> QED
    BY <2>1, <2>2
<1>4. ASSUME UNCHANGED vars
      PROVE  IInv(FALSE)' /\ UNCHANGED <<frozen, arena>>
  <2>1. UNCHANGED <<driver, freeList, call, storage, arena>> /\ frozen' = frozen
    BY <1>4 DEF vars
  <2>2. frozen' \in BOOLEAN
    BY <1>1, <2>1 DEF IInv, Types
  <2> QED
    BY <1>1, <2>1, <2>2, StutterIInv
<1>5. IInv(FALSE)' /\ UNCHANGED <<frozen, arena>>
  BY <1>2, <1>3, <1>4 DEF Next
<1> QED
  BY <1>5 DEF AInv

\* The inductive invariant of threads that share the allocator: who has each buffer,
\* and what every call holds.
THEOREM AllocatorInvariant == Spec => []AInv
<1>1. Init => AInv
  BY InitIInv DEF AInv, Init
<1> QED
  BY <1>1, NextAInv, PTL DEF Spec

LEMMA OwnersCounted ==
  ASSUME NEW leaks \in BOOLEAN, IInv(leaks), ~leaks, NEW p \in Ptrs, ~ArenaAt(p)
  PROVE  OwnersOf(p) = IF driver[p] # 0 THEN 1 ELSE 0
<1> DEFINE inHandles == {h \in Handles : Owns(storage[h], p)}
           inCalls == {t \in Threads : Owns(call[t].block, p)}
           inList == {w \in UNION {{n} \X DOMAIN freeList[n] : n \in Sizes} :
                        freeList[w[1]][w[2]] = p}
           freeing == {t \in Threads : p \in call[t].toFree}
<1>1. /\ Types /\ Owned(leaks) /\ ~leaks /\ ~ArenaAt(p)
      /\ OwnersOf(p) = Cardinality(inHandles) + Cardinality(inCalls)
                         + Cardinality(inList) + Cardinality(freeing)
  BY DEF IInv, OwnersOf
<1>2. \A b : Owns(b, p) <=> Holds(b, p)
  BY <1>1 DEF Owns, Holds, ArenaAt
<1>3. /\ \A w \in inList : \E n \in Sizes : \E i \in DOMAIN freeList[n] :
                              w = <<n, i>> /\ freeList[n][i] = p
      /\ \A n \in Sizes : \A i \in DOMAIN freeList[n] :
           freeList[n][i] = p => <<n, i>> \in inList
  OBVIOUS
<1>4. \A S : S = {} => Cardinality(S) = 0
  BY FS_EmptySet
<1>5. \A e : Cardinality({e}) = 1
  BY FS_Singleton
<1> HIDE DEF inList
<1>6. CASE driver[p] = 0
  <2>1. \A k, a : ~Has(k, a, p)
    BY <1>1, <1>6 DEF Owned
  <2>2. inHandles = {}
    BY <1>2, <2>1 DEF Has
  <2>3. inCalls = {}
    BY <1>2, <2>1 DEF Has
  <2>4. freeing = {}
    BY <2>1 DEF Has
  <2>5. inList = {}
    BY <1>3, <2>1 DEF Has, ListOf
  <2> QED
    BY <1>1, <1>4, <1>6, <2>2, <2>3, <2>4, <2>5
<1>7. CASE driver[p] # 0
  <2>1. PICK k, a : Has(k, a, p)
    BY <1>1, <1>7 DEF Owned
  <2>2. /\ \A h \in Handles : Holds(storage[h], p) => k = "handle" /\ h = a
        /\ \A t \in Threads : Holds(call[t].block, p) => k = "carrier" /\ t = a
        /\ \A t \in Threads : p \in call[t].toFree => k = "freer" /\ t = a
        /\ \A n \in Sizes : p \in ListOf(freeList[n]) => k = "list" /\ n = a
    BY <1>1, <2>1, SoleOwner
  <2>3. inHandles = IF k = "handle" THEN {a} ELSE {}
    BY <1>2, <2>1, <2>2 DEF Has
  <2>4. inCalls = IF k = "carrier" THEN {a} ELSE {}
    BY <1>2, <2>1, <2>2 DEF Has
  <2>5. freeing = IF k = "freer" THEN {a} ELSE {}
    BY <2>1, <2>2 DEF Has
  <2>6. k # "list" => inList = {}
    BY <1>3, <2>2 DEF ListOf
  <2>7. k = "list" => \E w : inList = {w}
    <3> SUFFICES ASSUME k = "list" PROVE \E w : inList = {w}
      OBVIOUS
    <3>1. a \in Sizes /\ p \in ListOf(freeList[a]) /\ NoRepeats(freeList[a])
      BY <1>1, <2>1 DEF Has, Owned
    <3>2. PICK i \in DOMAIN freeList[a] : freeList[a][i] = p
      BY <3>1 DEF ListOf
    <3>3. <<a, i>> \in inList
      BY <1>3, <3>1, <3>2
    <3>4. \A w \in inList : w = <<a, i>>
      BY <1>3, <2>2, <3>1, <3>2 DEF ListOf, NoRepeats
    <3> QED
      BY <3>3, <3>4
  <2>8. k \in {"handle", "carrier", "freer", "list"}
    BY <2>1 DEF Has
  <2>9. /\ Cardinality(inHandles) = IF k = "handle" THEN 1 ELSE 0
        /\ Cardinality(inCalls) = IF k = "carrier" THEN 1 ELSE 0
        /\ Cardinality(freeing) = IF k = "freer" THEN 1 ELSE 0
        /\ Cardinality(inList) = IF k = "list" THEN 1 ELSE 0
    BY <1>4, <1>5, <2>3, <2>4, <2>5, <2>6, <2>7
  <2> QED
    BY <1>1, <1>7, <2>8, <2>9
<1> QED
  BY <1>6, <1>7

\* Every buffer the driver counts as allocated has one owner, whatever the threads
\* do between the flag, the locks and the driver; no other address has any.
THEOREM EveryBufferHasOneOwner == Spec => []OneOwner
<1>1. AInv => OneOwner
  <2> SUFFICES ASSUME AInv, NEW p \in Ptrs
               PROVE  OwnersOf(p) = IF driver[p] # 0 THEN 1 ELSE 0
    BY DEF OneOwner
  <2>1. PICK leaks \in BOOLEAN : IInv(leaks) /\ ~leaks
    BY DEF AInv
  <2>2. ~ArenaAt(p)
    BY DEF AInv, ArenaAt
  <2> QED
    BY <2>1, <2>2, OwnersCounted
<1> QED
  BY <1>1, AllocatorInvariant, PTL

\* A buffer is cached under the size the driver gave it out with: a hit in the free
\* list is never shorter than what was asked for.
THEOREM CachedSizes == Spec => []CachedSizeIsReal
<1>1. AInv => CachedSizeIsReal
  BY DEF AInv, IInv, RealSizes, CachedSizeIsReal, ListOf
<1> QED
  BY <1>1, AllocatorInvariant, PTL

\* The allocator implements the pool its callers are promised: what it returns
\* shares no byte with anything a handle holds.
THEOREM AllocatorImplementsPool == Spec => ImplementsPool
<1>1. Init => Pool!Init
  BY DEF Init, Pool!Init
<1>2. ASSUME NEW h \in Handles, NEW p \in Ptrs, NEW n \in Sizes,
             storage[h] = NoBlock, storage' = [storage EXCEPT ![h] = Block(p, 0, n, FALSE)],
             \A g \in Handles : ~Holds(storage[g], p)
      PROVE  Pool!Next
  <2> DEFINE b == Block(p, 0, n, FALSE)
  <2>1. b \in [ptr : Ptrs, off : {0}, size : Sizes, graph : {FALSE}] /\ b.ptr = p
    BY DEF Block
  <2>2. \A g \in Handles : storage[g] # NoBlock => ~Pool!Shares(b, storage[g])
    BY <1>2, <2>1 DEF Pool!Shares, Holds
  <2>3. Pool!Allocate(h)
    BY <1>2, <2>1, <2>2 DEF Pool!Allocate
  <2> QED
    BY <2>3 DEF Pool!Next
<1>3. AInv /\ [Next]_vars => [Pool!Next]_storage
  <2> SUFFICES ASSUME AInv, [Next]_vars, storage' # storage PROVE Pool!Next
    OBVIOUS
  <2>1. PICK t \in Threads : \/ \E h \in Live : Deallocate(t, h)
                             \/ PopHit(t) \/ DriverAlloc(t)
    <3>1. ASSUME NEW t \in Threads,
                 \/ \E h \in Handles, n \in Sizes : Allocate(t, h, n)
                 \/ Reset(t) \/ PopMiss(t) \/ DriverFailure(t) \/ Drain(t) \/ OutOfMemory(t)
                 \/ Push(t) \/ Evict(t) \/ Unlock(t) \/ FreeOne(t) \/ Freed(t)
          PROVE  storage' = storage
      BY <3>1, Zenon DEF Allocate, Reset, PopMiss, DriverFailure, Drain, OutOfMemory, Push,
         Evict, Unlock, FreeOne, Freed
    <3>2. ~(UNCHANGED vars)
      BY DEF vars
    <3> QED
      BY <3>1, <3>2, Zenon DEF Next, Enter, Step, AllocateStep, DeallocateStep
  <2>2. CASE \E h \in Live : Deallocate(t, h)
    BY <2>2 DEF Deallocate, Live, Pool!Next, Pool!Deallocate
  <2>3. CASE PopHit(t)
    <3>1. PICK h, n, p : h = call[t].handle /\ n = call[t].size /\ p = Head(freeList[n])
      OBVIOUS
    <3>2. /\ Types /\ CallShape /\ Owned(FALSE) /\ call[t].pc = "pop" /\ freeList[n] # <<>>
          /\ storage' = [storage EXCEPT ![h] = Block(p, 0, n, FALSE)]
      BY <2>3, <3>1 DEF PopHit, At, AInv, IInv
    <3>3. h \in Handles /\ n \in Sizes /\ storage[h] = NoBlock
      BY <3>1, <3>2 DEF CallShape, Fits, AllocatePcs
    <3>4. p \in Ptrs /\ p \in ListOf(freeList[n])
      BY <3>1, <3>2, <3>3, TailLists DEF Types, Owned
    <3>5. Has("list", n, p)
      BY <3>3, <3>4 DEF Has
    <3>6. \A g \in Handles : ~Holds(storage[g], p)
      <4>1. PICK leaks \in BOOLEAN : Owned(leaks)
        BY <3>2
      <4> QED
        BY <3>4, <3>5, <4>1, SoleOwner
    <3> QED
      BY <1>2, <3>2, <3>3, <3>4, <3>6
  <2>4. CASE DriverAlloc(t)
    <3>1. PICK h, n : h = call[t].handle /\ n = call[t].size
      OBVIOUS
    <3>2. /\ Types /\ CallShape /\ Owned(FALSE)
          /\ call[t].pc \in {"driver", "drained"}
      BY <2>4 DEF DriverAlloc, At, AInv, IInv
    <3>3. h \in Handles /\ n \in Sizes /\ storage[h] = NoBlock
      BY <3>1, <3>2 DEF CallShape, Fits, AllocatePcs
    <3>4. PICK p \in Ptrs : /\ driver[p] = 0
                            /\ storage' = [storage EXCEPT ![h] = Block(p, 0, n, FALSE)]
      BY <2>4, <3>1 DEF DriverAlloc
    <3>5. \A g \in Handles : ~Holds(storage[g], p)
      BY <3>2, <3>4 DEF Owned, Has
    <3> QED
      BY <1>2, <3>3, <3>4, <3>5
  <2> QED
    BY <2>1, <2>2, <2>3, <2>4
<1> QED
  BY <1>1, <1>3, AllocatorInvariant, PTL DEF Spec, ImplementsPool, Pool!Spec
-----------------------------------------------------------------------------
(***************************************************************************)
(* The bytes of the free list. MapThenSumSet adds up a finite set in an    *)
(* order nobody chose; what the proofs need of it is that the order does   *)
(* not matter, so that a change to one bucket shows in the sum alone.      *)
(* There is no induction to cite: instead a smallest counterexample is     *)
(* picked, which a finite set's subsets always have.                       *)
(***************************************************************************)
AnyOf(s) == CHOOSE x \in s : TRUE
AddsUp(g, S, h) ==
  h = [s \in SUBSET S |-> IF s = {} THEN 0 ELSE g[AnyOf(s)] + h[s \ {AnyOf(s)}]]

Sum(g, S) == (CHOOSE h : AddsUp(g, S, h))[S]

\* It takes out one element of the set's choosing, or, which is to be shown, any.
TakesOne(g, S, h) ==
  /\ h[{}] = 0
  /\ \A s \in SUBSET S : s # {} => \E x \in s : x = AnyOf(s) /\ h[s] = g[x] + h[s \ {x}]
TakesAny(g, S, h) == \A s \in SUBSET S : h[s] \in Nat /\ \A x \in s : h[s] = g[x] + h[s \ {x}]

\* Induction over finite sets: in any collection of them one has no other below it.
LEMMA SmallestSet ==
  ASSUME NEW S, IsFiniteSet(S), NEW F \in SUBSET (SUBSET S), F # {}
  PROVE  \E x \in F : \A y \in F : y \subseteq x => y = x
<1>1. PICK x \in F : \A y \in F : <<y, x>> \notin StrictSubsetOrdering(S)
  BY FS_StrictSubsetOrderingWellFounded, FS_FiniteSubsetsOfFinite, WFMin
<1> QED
  BY <1>1 DEF StrictSubsetOrdering

LEMMA SumTakesOne ==
  ASSUME NEW S, NEW g, NEW h, AddsUp(g, S, h)
  PROVE  TakesOne(g, S, h)
<1>1. \A s \in SUBSET S : s # {} => AnyOf(s) \in s
  BY DEF AnyOf
<1> QED
  BY <1>1 DEF AddsUp, TakesOne

\* Two sums agree wherever what they add up does.
LEMMA SumsAgree ==
  ASSUME NEW S, IsFiniteSet(S), NEW T, NEW g, NEW f, NEW h, NEW k,
         AddsUp(g, S, h), AddsUp(f, T, k),
         NEW r \in SUBSET (S \cap T), \A x \in r : f[x] = g[x]
  PROVE  k[r] = h[r]
<1>0. TakesOne(g, S, h) /\ TakesOne(f, T, k)
  BY SumTakesOne
<1> DEFINE F == {s \in SUBSET r : k[s] # h[s]}
<1>1. SUFFICES ASSUME F # {} PROVE FALSE
  OBVIOUS
<1>2. F \in SUBSET (SUBSET S)
  OBVIOUS
<1>3. PICK s \in F : \A y \in F : y \subseteq s => y = s
  <2> HIDE DEF F
  <2> QED
    BY <1>1, <1>2, SmallestSet
<1>4. s \in SUBSET r /\ s \in SUBSET S /\ s \in SUBSET T /\ k[s] # h[s]
  BY <1>3
<1>5. s # {}
  <2>1. s = {} => h[s] = 0 /\ k[s] = 0
    BY <1>4, <1>0 DEF TakesOne
  <2> QED
    BY <1>4, <2>1
<1>6. PICK x \in s : x = AnyOf(s) /\ h[s] = g[x] + h[s \ {x}]
  BY <1>4, <1>5, <1>0 DEF TakesOne
<1>7. \E z \in s : z = AnyOf(s) /\ k[s] = f[z] + k[s \ {z}]
  BY <1>4, <1>5, <1>0 DEF TakesOne
<1>8. k[s \ {x}] = h[s \ {x}]
  BY <1>3, <1>4
<1>9. f[x] = g[x]
  BY <1>4
<1> QED
  BY <1>4, <1>6, <1>7, <1>8, <1>9

\* Every finite set has its sums.
LEMMA SumExists ==
  ASSUME NEW S, IsFiniteSet(S), NEW g
  PROVE  \E h : AddsUp(g, S, h)
<1> DEFINE F == {t \in SUBSET S : ~\E h : AddsUp(g, t, h)}
<1>1. SUFFICES ASSUME F # {} PROVE FALSE
  OBVIOUS
<1>2. PICK t \in F : \A y \in F : y \subseteq t => y = t
  <2>1. F \in SUBSET (SUBSET S)
    OBVIOUS
  <2> HIDE DEF F
  <2> QED
    BY <1>1, <2>1, SmallestSet
<1> DEFINE sum[s \in SUBSET S] == CHOOSE h : AddsUp(g, s, h)
           k == [s \in SUBSET t |->
                   IF s = {} THEN 0
                   ELSE g[AnyOf(s)] + sum[s \ {AnyOf(s)}][s \ {AnyOf(s)}]]
<1>3. ASSUME NEW s \in SUBSET t, s # t PROVE AddsUp(g, s, sum[s])
  <2>1. s \in SUBSET S /\ s \notin F
    BY <1>2, <1>3
  <2>2. \E h : AddsUp(g, s, h)
    BY <2>1
  <2>3. sum[s] = CHOOSE h : AddsUp(g, s, h)
    BY <2>1
  <2> HIDE DEF sum
  <2> QED
    BY <2>2, <2>3
<1> HIDE DEF sum
<1>4. ASSUME NEW s \in SUBSET t
      PROVE  k[s] = IF s = {} THEN 0
                    ELSE g[AnyOf(s)] + sum[s \ {AnyOf(s)}][s \ {AnyOf(s)}]
  OBVIOUS
<1>5. DOMAIN k = SUBSET t /\ k = [s \in SUBSET t |-> k[s]]
  OBVIOUS
<1> HIDE DEF k
<1>6. ASSUME NEW s \in SUBSET t, s # t PROVE k[s] = sum[s][s]
  <2>1. AddsUp(g, s, sum[s])
    BY <1>3, <1>6
  <2>a. TakesOne(g, s, sum[s])
    BY <2>1, SumTakesOne
  <2>2. CASE s = {}
    BY <1>4, <2>a, <2>2 DEF TakesOne
  <2>3. CASE s # {}
    <3> DEFINE r == s \ {AnyOf(s)}
    <3>1. AnyOf(s) \in s /\ sum[s][s] = g[AnyOf(s)] + sum[s][r]
      <4>1. \E x \in s : x = AnyOf(s) /\ sum[s][s] = g[x] + sum[s][s \ {x}]
        BY <2>a, <2>3 DEF TakesOne
      <4> QED
        BY <4>1
    <3>2. AddsUp(g, r, sum[r])
      BY <1>3, <1>6, <3>1
    <3>3. IsFiniteSet(s) /\ r \in SUBSET (s \cap r)
      BY <1>2, FS_Subset
    <3>4. sum[r][r] = sum[s][r]
      <4> HIDE DEF r
      <4> QED
        BY <2>1, <3>2, <3>3, SumsAgree
    <3> QED
      BY <1>4, <2>3, <3>1, <3>4
  <2> QED
    BY <2>2, <2>3
<1>7. ASSUME NEW s \in SUBSET t
      PROVE  k[s] = IF s = {} THEN 0 ELSE g[AnyOf(s)] + k[s \ {AnyOf(s)}]
  <2>1. CASE s = {}
    BY <1>4, <2>1
  <2>2. CASE s # {}
    <3> DEFINE r == s \ {AnyOf(s)}
    <3>1. AnyOf(s) \in s
      BY <2>2 DEF AnyOf
    <3>2. r \in SUBSET t /\ r # t
      BY <3>1
    <3>3. k[r] = sum[r][r]
      BY <1>6, <3>2
    <3> QED
      BY <1>4, <2>2, <3>3
  <2> QED
    BY <2>1, <2>2
<1>8. AddsUp(g, t, k)
  BY <1>5, <1>7 DEF AddsUp
<1> HIDE DEF k
<1> QED
  BY <1>2, <1>8

\* A sum of natural numbers is one, in whatever order they are taken.
LEMMA SumTakesAny ==
  ASSUME NEW S, IsFiniteSet(S), NEW g \in [S -> Nat], NEW h, AddsUp(g, S, h)
  PROVE  TakesAny(g, S, h)
<1>0. TakesOne(g, S, h)
  BY SumTakesOne
<1> DEFINE Fine(s) == h[s] \in Nat /\ \A y \in s : h[s] = g[y] + h[s \ {y}]
           F == {s \in SUBSET S : ~Fine(s)}
<1>1. SUFFICES ASSUME F # {} PROVE FALSE
  BY DEF TakesAny
<1>2. PICK s \in F : \A r \in F : r \subseteq s => r = s
  <2>1. F \in SUBSET (SUBSET S)
    OBVIOUS
  <2> HIDE DEF F
  <2> QED
    BY <1>1, <2>1, SmallestSet
<1>3. s \in SUBSET S /\ ~Fine(s)
  BY <1>2
<1>4. \A r \in SUBSET s : r # s => Fine(r)
  BY <1>2
<1> HIDE DEF F
<1>5. s # {}
  <2>1. s = {} => Fine(s)
    BY <1>0 DEF TakesOne
  <2> QED
    BY <1>3, <2>1
<1>6. PICK x \in s : h[s] = g[x] + h[s \ {x}]
  BY <1>3, <1>5, <1>0 DEF TakesOne
<1>7. h[s \ {x}] \in Nat /\ g[x] \in Nat
  BY <1>3, <1>4
<1>8. ASSUME NEW y \in s PROVE h[s] = g[y] + h[s \ {y}]
  <2>1. CASE y = x
    BY <1>6, <2>1
  <2>2. CASE y # x
    <3> DEFINE r == (s \ {x}) \ {y}
    <3>1. h[s \ {x}] = g[y] + h[r]
      BY <1>4, <2>2
    <3>2. h[s \ {y}] = g[x] + h[(s \ {y}) \ {x}]
      BY <1>4, <2>2
    <3>3. (s \ {y}) \ {x} = r
      OBVIOUS
    <3>4. h[r] \in Nat /\ g[y] \in Nat
      <4>1. r \in SUBSET s /\ r # s
        OBVIOUS
      <4> QED
        BY <1>3, <1>4, <4>1
    <3> HIDE DEF r
    <3> QED
      BY <1>6, <1>7, <3>1, <3>2, <3>3, <3>4
  <2> QED
    BY <2>1, <2>2
<1> QED
  BY <1>3, <1>6, <1>7, <1>8

\* Nothing adds up to nothing.
LEMMA SumOfZeros ==
  ASSUME NEW S, IsFiniteSet(S), NEW g, \A x \in S : g[x] = 0
  PROVE  Sum(g, S) = 0
<1>1. PICK h : AddsUp(g, S, h) /\ Sum(g, S) = h[S]
  BY SumExists DEF Sum
<1>2. TakesOne(g, S, h)
  BY <1>1, SumTakesOne
<1> DEFINE F == {s \in SUBSET S : h[s] # 0}
<1>3. SUFFICES ASSUME F # {} PROVE FALSE
  BY <1>1
<1>4. PICK s \in F : \A r \in F : r \subseteq s => r = s
  <2>1. F \in SUBSET (SUBSET S)
    OBVIOUS
  <2> HIDE DEF F
  <2> QED
    BY <1>3, <2>1, SmallestSet
<1>5. s \in SUBSET S /\ h[s] # 0 /\ \A r \in SUBSET s : r # s => h[r] = 0
  BY <1>4
<1> HIDE DEF F
<1>6. PICK x \in s : h[s] = g[x] + h[s \ {x}]
  BY <1>2, <1>5 DEF TakesOne
<1> QED
  BY <1>5, <1>6

\* When one summand changes, the sum changes by as much.
OneDiffers(g, f, S, y) ==
  g \in [S -> Nat] /\ f \in [S -> Nat] /\ y \in S /\ \A x \in S \ {y} : f[x] = g[x]

LEMMA SumChanges ==
  ASSUME NEW S, IsFiniteSet(S), NEW g, NEW f, NEW y, OneDiffers(g, f, S, y)
  PROVE  /\ Sum(g, S) \in Nat /\ g[y] <= Sum(g, S)
         /\ Sum(f, S) = Sum(g, S) - g[y] + f[y]
<1>0. g \in [S -> Nat] /\ f \in [S -> Nat] /\ y \in S /\ \A x \in S \ {y} : f[x] = g[x]
  BY DEF OneDiffers
<1>1. PICK h : AddsUp(g, S, h) /\ Sum(g, S) = h[S]
  BY SumExists DEF Sum
<1>2. PICK k : AddsUp(f, S, k) /\ Sum(f, S) = k[S]
  BY SumExists DEF Sum
<1>3. k[S \ {y}] = h[S \ {y}]
  BY <1>0, <1>1, <1>2, SumsAgree
<1>4. TakesAny(g, S, h) /\ TakesAny(f, S, k)
  BY <1>0, <1>1, <1>2, SumTakesAny
<1>5. S \in SUBSET S /\ (S \ {y}) \in SUBSET S
  OBVIOUS
<1>6. /\ h[S] \in Nat /\ h[S] = g[y] + h[S \ {y}]
      /\ k[S] \in Nat /\ k[S] = f[y] + k[S \ {y}]
      /\ h[S \ {y}] \in Nat /\ g[y] \in Nat /\ f[y] \in Nat
  BY <1>0, <1>4, <1>5 DEF TakesAny
<1> QED
  BY <1>1, <1>2, <1>3, <1>6
-----------------------------------------------------------------------------
Weights(list) == [n \in Sizes |-> n * Len(list[n])]
BytesIn(list) == MapThenSumSet(LAMBDA n : n * Len(list[n]), Sizes)

\* The sum over the buckets is one of the sums above.
LEMMA BytesAddUp ==
  ASSUME NEW list
  PROVE  BytesIn(list) = Sum(Weights(list), Sizes)
<1> DEFINE Eq(h) == h = [s \in SUBSET Sizes |->
                          IF s = {} THEN 0
                          ELSE LET x == CHOOSE x \in s : TRUE
                               IN  x * Len(list[x]) + h[s \ {x}]]
           iter == CHOOSE h : Eq(h)
<1>1. ASSUME NEW h PROVE Eq(h) <=> AddsUp(Weights(list), Sizes, h)
  <2>1. \A s \in SUBSET Sizes : s # {} =>
           Weights(list)[AnyOf(s)] = AnyOf(s) * Len(list[AnyOf(s)])
    BY DEF Weights, AnyOf
  <2> QED
    BY <2>1 DEF AddsUp, AnyOf
<1>2. IsFiniteSet(Sizes)
  BY ConstantsAssumption
<1>3. PICK h : AddsUp(Weights(list), Sizes, h) /\ Sum(Weights(list), Sizes) = h[Sizes]
  BY <1>2, SumExists DEF Sum
<1>4. BytesIn(list) = iter[Sizes]
  BY DEF BytesIn, MapThenSumSet, MapThenFoldSet
<1> HIDE DEF Eq
<1>5. AddsUp(Weights(list), Sizes, iter)
  BY <1>1, <1>3
<1> HIDE DEF iter
<1> QED
  BY <1>2, <1>3, <1>4, <1>5, SumsAgree

\* What a change to one bucket does to the bytes the list holds.
OneBucketDiffers(was, is, n) ==
  /\ was \in [Sizes -> Seq(Ptrs)] /\ is \in [Sizes -> Seq(Ptrs)] /\ n \in Sizes
  /\ \A m \in Sizes \ {n} : is[m] = was[m]

LEMMA BucketChanges ==
  ASSUME NEW was, NEW is, NEW n, OneBucketDiffers(was, is, n)
  PROVE  /\ BytesIn(was) \in Nat /\ n * Len(was[n]) <= BytesIn(was)
         /\ BytesIn(is) = BytesIn(was) - n * Len(was[n]) + n * Len(is[n])
<1>1. PICK g, f : g = Weights(was) /\ f = Weights(is)
  OBVIOUS
<1>2. BytesIn(was) = Sum(g, Sizes) /\ BytesIn(is) = Sum(f, Sizes)
  BY <1>1, BytesAddUp
<1>3. \A m \in Sizes : Len(was[m]) \in Nat /\ Len(is[m]) \in Nat /\ m \in Nat
  BY LenProperties, ConstantsAssumption DEF OneBucketDiffers
<1>4. \A m \in Sizes : m * Len(was[m]) \in Nat /\ m * Len(is[m]) \in Nat
  BY <1>3
<1>5. OneDiffers(g, f, Sizes, n)
  BY <1>1, <1>4 DEF Weights, OneBucketDiffers, OneDiffers
<1>6. IsFiniteSet(Sizes)
  BY ConstantsAssumption
<1>7. g[n] = n * Len(was[n]) /\ f[n] = n * Len(is[n])
  BY <1>1 DEF Weights, OneBucketDiffers
<1>8. /\ Sum(g, Sizes) \in Nat /\ g[n] <= Sum(g, Sizes)
      /\ Sum(f, Sizes) = Sum(g, Sizes) - g[n] + f[n]
  BY <1>5, <1>6, SumChanges
<1> QED
  BY <1>2, <1>7, <1>8

\* The free list counts its bytes at every step, within a critical section too; the
\* byte cap may be passed only while a thread that pushed holds the lock to evict.
CacheInv ==
  /\ totalBytes = BytesIn(freeList)
  /\ \A n \in Sizes : Len(freeList[n]) <= BucketCap
  /\ lock = NoThread => totalBytes <= ByteCap
  /\ \A t \in Threads : At(t, "evict") => lock = t

\* Nothing is in an empty list.
LEMMA EmptyListBytes ==
  ASSUME NEW list, \A n \in Sizes : list[n] = <<>>
  PROVE  BytesIn(list) = 0
<1>1. \A n \in Sizes : n * Len(list[n]) = 0
  BY ConstantsAssumption
<1>2. \A n \in Sizes : Weights(list)[n] = 0
  BY <1>1 DEF Weights
<1>3. IsFiniteSet(Sizes)
  BY ConstantsAssumption
<1> QED
  BY <1>2, <1>3, SumOfZeros, BytesAddUp

\* Taking the oldest buffer of a size out takes its bytes off the sum, adding one
\* puts them on.
LEMMA TailBytes ==
  ASSUME NEW list, NEW n, NEW left, OneBucketDiffers(list, left, n),
         list[n] # <<>>, left[n] = Tail(list[n])
  PROVE  /\ BytesIn(list) \in Nat /\ n <= BytesIn(list) /\ BytesIn(left) = BytesIn(list) - n
         /\ Len(left[n]) = Len(list[n]) - 1
<1>1. PICK k : k = Len(list[n])
  OBVIOUS
<1>2. k \in Nat \ {0} /\ Len(left[n]) = k - 1
  BY <1>1, HeadTailProperties, EmptySeq, LenProperties DEF OneBucketDiffers
<1>3. /\ BytesIn(list) \in Nat /\ n * k <= BytesIn(list)
      /\ BytesIn(left) = BytesIn(list) - n * k + n * (k - 1)
  BY <1>1, <1>2, BucketChanges
<1>4. PICK c, d : c = n * k /\ d = n * (k - 1)
  OBVIOUS
<1>5. n \in Nat /\ d \in Nat /\ c = d + n
  BY <1>2, <1>4, ConstantsAssumption DEF OneBucketDiffers
<1> QED
  BY <1>1, <1>2, <1>3, <1>4, <1>5

LEMMA AppendBytes ==
  ASSUME NEW list, NEW n, NEW more, OneBucketDiffers(list, more, n),
         NEW p \in Ptrs, more[n] = Append(list[n], p)
  PROVE  BytesIn(more) = BytesIn(list) + n /\ Len(more[n]) = Len(list[n]) + 1
<1>1. PICK k : k = Len(list[n])
  OBVIOUS
<1>2. k \in Nat /\ Len(more[n]) = k + 1
  BY <1>1, AppendProperties, LenProperties DEF OneBucketDiffers
<1>3. /\ BytesIn(list) \in Nat
      /\ BytesIn(more) = BytesIn(list) - n * k + n * (k + 1)
  BY <1>1, <1>2, BucketChanges
<1>4. n \in Nat /\ n * k \in Nat /\ n * (k + 1) = n * k + n
  BY <1>2, ConstantsAssumption DEF OneBucketDiffers
<1> QED
  BY <1>1, <1>2, <1>3, <1>4

\* The step with the swap: a bucket at its cap gives up one buffer for another.
LEMMA PushCounts ==
  ASSUME AInv, CacheInv, NEW t \in Threads, Push(t)
  PROVE  CacheInv'
<1>1. PICK b, n, p, s, more : /\ b = call[t].block /\ n = b.size /\ p = b.ptr
                              /\ s = freeList[n] /\ more = freeList'
  OBVIOUS
<1>2. /\ freeList \in [Sizes -> Seq(Ptrs)] /\ call[t].pc = "push" /\ call \in [Threads -> Calls]
      /\ lock' = t
      /\ more = [freeList EXCEPT ![n] = Append(IF Len(s) >= BucketCap THEN Tail(s) ELSE s, p)]
      /\ totalBytes' = IF Len(s) >= BucketCap THEN totalBytes ELSE totalBytes + n
      /\ call' = [call EXCEPT ![t] = Freeing("evict", NoBlock, IF Len(s) >= BucketCap THEN {Head(s)} ELSE {})]
      /\ lock = NoThread
  BY <1>1 DEF Push, At, AInv, IInv, Types
<1>3. b \in Blocks /\ n \in Sizes /\ p \in Ptrs
  <2>1. b # NoBlock /\ b \in Blocks \cup {NoBlock}
    BY <1>1, <1>2 DEF AInv, IInv, CallShape, Fits, Carrying, Calls
  <2> QED
    BY <1>1, <2>1 DEF Blocks
<1>4. /\ s \in Seq(Ptrs) /\ Len(s) \in Nat /\ Len(s) <= BucketCap
      /\ BucketCap \in Nat \ {0} /\ totalBytes = BytesIn(freeList)
  BY <1>1, <1>2, <1>3, LenProperties, ConstantsAssumption DEF CacheInv
<1>5. totalBytes' = BytesIn(more) /\ \A m \in Sizes : Len(more[m]) <= BucketCap
  <2>1. CASE Len(s) >= BucketCap
    <3> DEFINE left == [freeList EXCEPT ![n] = Tail(s)]
    <3>1. s # <<>> /\ Tail(s) \in Seq(Ptrs)
      BY <1>4, <2>1, HeadTailProperties, EmptySeq
    <3>2. OneBucketDiffers(freeList, left, n) /\ left[n] = Tail(s)
      BY <1>1, <1>2, <1>3, <3>1 DEF OneBucketDiffers
    <3>3. more = [freeList EXCEPT ![n] = Append(Tail(s), p)] /\ totalBytes' = totalBytes
      BY <1>2, <2>1
    <3>4. Append(Tail(s), p) \in Seq(Ptrs)
      BY <1>3, <3>1, AppendProperties
    <3>a. /\ more \in [Sizes -> Seq(Ptrs)] /\ more[n] = Append(Tail(s), p)
          /\ \A m \in Sizes \ {n} : more[m] = freeList[m]
      <4> HIDE DEF left
      <4> QED
        BY <1>2, <1>3, <3>3, <3>4
    <3>b. \A m \in Sizes \ {n} : left[m] = freeList[m]
      BY <3>2 DEF OneBucketDiffers
    <3> HIDE DEF left
    <3>5. OneBucketDiffers(left, more, n) /\ more[n] = Append(left[n], p)
      BY <1>3, <3>2, <3>a, <3>b DEF OneBucketDiffers
    <3>6. BytesIn(freeList) \in Nat /\ n <= BytesIn(freeList) /\ BytesIn(left) = BytesIn(freeList) - n
          /\ Len(left[n]) = Len(freeList[n]) - 1
      BY <1>1, <3>1, <3>2, TailBytes
    <3>7. BytesIn(more) = BytesIn(left) + n /\ Len(more[n]) = Len(left[n]) + 1
      BY <1>3, <3>5, AppendBytes
    <3>8. n \in Nat
      BY <1>3, ConstantsAssumption
    <3>9. totalBytes' = BytesIn(more)
      BY <1>4, <3>3, <3>6, <3>7, <3>8
    <3>10. Len(more[n]) <= BucketCap
      BY <1>1, <1>4, <3>6, <3>7
    <3> QED
      BY <3>9, <3>10, <3>a DEF CacheInv
  <2>2. CASE ~(Len(s) >= BucketCap)
    <3>1. Append(s, p) \in Seq(Ptrs) /\ Len(s) + 1 <= BucketCap
      BY <1>3, <1>4, <2>2, AppendProperties
    <3>2. more = [freeList EXCEPT ![n] = Append(s, p)] /\ totalBytes' = totalBytes + n
      BY <1>2, <2>2
    <3>a. /\ more \in [Sizes -> Seq(Ptrs)] /\ more[n] = Append(s, p)
          /\ \A m \in Sizes \ {n} : more[m] = freeList[m]
      BY <1>2, <1>3, <3>1, <3>2
    <3>b. freeList \in [Sizes -> Seq(Ptrs)]
      BY <1>2
    <3>3. OneBucketDiffers(freeList, more, n) /\ more[n] = Append(freeList[n], p)
      BY <1>1, <1>3, <3>a, <3>b DEF OneBucketDiffers
    <3>4. BytesIn(more) = BytesIn(freeList) + n /\ Len(more[n]) = Len(freeList[n]) + 1
      BY <1>3, <3>3, AppendBytes
    <3> QED
      BY <1>1, <1>4, <3>1, <3>2, <3>3, <3>4 DEF CacheInv, OneBucketDiffers
  <2> QED
    BY <2>1, <2>2
<1>6. lock' # NoThread
  BY <1>2, ConstantsAssumption
<1>7. \A u \in Threads : At(u, "evict")' => lock' = u
  <2> TAKE u \in Threads
  <2>1. CASE u = t
    BY <1>2, <2>1
  <2>2. CASE u # t
    <3>1. ~At(u, "evict")
      BY <1>2, ConstantsAssumption DEF CacheInv
    <3>2. call'[u] = call[u]
      BY <1>2, <2>2
    <3> QED
      BY <3>1, <3>2 DEF At
  <2> QED
    BY <2>1, <2>2
<1> QED
  BY <1>1, <1>5, <1>6, <1>7 DEF CacheInv

\* The steps that take one buffer out of the list: a hit, and a round of eviction.
LEMMA TakesOut ==
  ASSUME AInv, CacheInv, NEW t \in Threads, PopHit(t) \/ Evict(t)
  PROVE  CacheInv'
<1>1. PICK n \in Sizes : /\ freeList[n] # <<>>
                         /\ freeList' = [freeList EXCEPT ![n] = Tail(@)]
                         /\ totalBytes' = totalBytes - n
  <2>1. CASE PopHit(t)
    <3>1. call[t].size \in Sizes
      BY <2>1 DEF PopHit, At, AInv, IInv, CallShape, Fits, AllocatePcs
    <3> QED
      BY <2>1, <3>1 DEF PopHit
  <2>2. CASE Evict(t)
    BY <2>2 DEF Evict, NonEmpty
  <2> QED
    BY <2>1, <2>2
<1>2. PICK left : left = freeList'
  OBVIOUS
<1>3. freeList \in [Sizes -> Seq(Ptrs)] /\ call \in [Threads -> Calls] /\ lock' = lock
  BY DEF AInv, IInv, Types, PopHit, Evict
<1>4. OneBucketDiffers(freeList, left, n) /\ left[n] = Tail(freeList[n])
  <2>1. Tail(freeList[n]) \in Seq(Ptrs)
    BY <1>1, <1>3, HeadTailProperties, EmptySeq
  <2> QED
    BY <1>1, <1>2, <1>3, <2>1 DEF OneBucketDiffers
<1>5. /\ BytesIn(freeList) \in Nat /\ n <= BytesIn(freeList) /\ BytesIn(left) = BytesIn(freeList) - n
      /\ Len(left[n]) = Len(freeList[n]) - 1
  BY <1>1, <1>4, TailBytes
<1>6. /\ n \in Nat /\ BucketCap \in Nat /\ ByteCap \in Nat
      /\ \A m \in Sizes : Len(freeList[m]) \in Nat /\ Len(freeList'[m]) \in Nat
  <2>1. n \in Nat /\ BucketCap \in Nat /\ ByteCap \in Nat
    BY ConstantsAssumption
  <2> QED
    BY <1>2, <1>4, <2>1, LenProperties DEF OneBucketDiffers
<1>7. /\ totalBytes' = BytesIn(freeList') /\ totalBytes' <= totalBytes
      /\ totalBytes \in Nat /\ totalBytes' \in Nat
  BY <1>1, <1>2, <1>5, <1>6 DEF CacheInv
<1>8. \A m \in Sizes : Len(freeList'[m]) <= BucketCap
  <2>1. Len(freeList'[n]) <= Len(freeList[n])
    BY <1>2, <1>5, <1>6
  <2>2. \A m \in Sizes \ {n} : freeList'[m] = freeList[m]
    BY <1>2, <1>4 DEF OneBucketDiffers
  <2>3. \A m \in Sizes : Len(freeList'[m]) <= Len(freeList[m])
    BY <1>6, <2>1, <2>2
  <2> QED
    BY <1>6, <2>3 DEF CacheInv
<1>9. \A u \in Threads : At(u, "evict")' => At(u, "evict")
  <2> TAKE u \in Threads
  <2>1. CASE PopHit(t)
    BY <1>3, <2>1 DEF PopHit, Return, Idle, Freeing, Frame, At
  <2>2. CASE Evict(t)
    BY <1>3, <2>2 DEF Evict, At, Calls
  <2> QED
    BY <2>1, <2>2
<1> QED
  BY <1>3, <1>6, <1>7, <1>8, <1>9 DEF CacheInv

\* The steps that empty it.
LEMMA EmptiesList ==
  ASSUME AInv, CacheInv, NEW t \in Threads, Drain(t) \/ Reset(t)
  PROVE  CacheInv'
<1>1. /\ freeList' = [n \in Sizes |-> <<>>] /\ totalBytes' = 0 /\ lock = NoThread /\ lock' = lock
      /\ call \in [Threads -> Calls]
  BY DEF Drain, Reset, AInv, IInv, Types
<1>2. totalBytes' = BytesIn(freeList')
  <2>1. PICK list : list = freeList'
    OBVIOUS
  <2>2. BytesIn(list) = 0
    BY <1>1, <2>1, EmptyListBytes
  <2> QED
    BY <1>1, <2>1, <2>2
<1>3. \A n \in Sizes : Len(freeList'[n]) <= BucketCap
  BY <1>1, ConstantsAssumption
<1>4. totalBytes' <= ByteCap
  BY <1>1, ConstantsAssumption
<1>5. \A u \in Threads : At(u, "evict")' => At(u, "evict")
  BY <1>1 DEF Drain, Reset, Freeing, Frame, At
<1> QED
  BY <1>1, <1>2, <1>3, <1>4, <1>5 DEF CacheInv

\* evict_to_cap ends below the cap, or with nothing left to evict.
LEMMA UnlocksCapped ==
  ASSUME AInv, CacheInv, NEW t \in Threads, Unlock(t)
  PROVE  CacheInv'
<1>1. /\ totalBytes' = totalBytes /\ freeList' = freeList /\ lock' = NoThread
      /\ lock = t /\ call \in [Threads -> Calls] /\ call' = [call EXCEPT ![t].pc = "free"]
  BY DEF Unlock, Goto, CacheInv, AInv, IInv, Types
<1>2. totalBytes <= ByteCap
  <2>1. CASE NonEmpty = {}
    <3>1. BytesIn(freeList) = 0
      BY <2>1, EmptyListBytes DEF NonEmpty
    <3> QED
      BY <3>1, ConstantsAssumption DEF CacheInv
  <2> QED
    BY <2>1 DEF Unlock
<1>3. \A u \in Threads : ~At(u, "evict")'
  <2> TAKE u \in Threads
  <2>1. CASE u = t
    BY <1>1, <2>1 DEF At, Calls
  <2>2. CASE u # t
    <3>1. call'[u] = call[u] /\ ~At(u, "evict")
      BY <1>1, <2>2 DEF CacheInv
    <3> QED
      BY <3>1 DEF At
  <2> QED
    BY <2>1, <2>2
<1> QED
  BY <1>1, <1>2, <1>3 DEF CacheInv

\* The rest leave the list, its total and its lock alone.
LEMMA LeavesList ==
  ASSUME CacheInv, UNCHANGED <<freeList, totalBytes, lock>>,
         \A u \in Threads : At(u, "evict")' => At(u, "evict")
  PROVE  CacheInv'
BY DEF CacheInv

LEMMA NextCacheInv ==
  ASSUME AInv, CacheInv, [Next]_vars
  PROVE  CacheInv'
<1>1. call \in [Threads -> Calls]
  BY DEF AInv, IInv, Types
<1>2. ASSUME NEW t \in Threads,
             \/ \E h \in Handles, n \in Sizes : Allocate(t, h, n)
             \/ \E h \in Live : Deallocate(t, h)
      PROVE  CacheInv'
  <2>1. UNCHANGED <<freeList, totalBytes, lock>>
    BY <1>2 DEF Allocate, Deallocate
  <2>2. \A u \in Threads : At(u, "evict")' => At(u, "evict")
    BY <1>1, <1>2 DEF Allocate, Deallocate, Freeing, Frame, At
  <2> QED
    BY <2>1, <2>2, LeavesList
<1>3. ASSUME NEW t \in Threads, PopMiss(t) \/ DriverFailure(t) \/ OutOfMemory(t) \/ Freed(t)
      PROVE  CacheInv'
  <2>1. UNCHANGED <<freeList, totalBytes, lock>>
    BY <1>3 DEF PopMiss, DriverFailure, OutOfMemory, Freed
  <2>2. \A u \in Threads : At(u, "evict")' => At(u, "evict")
    BY <1>1, <1>3 DEF PopMiss, DriverFailure, OutOfMemory, Freed, Goto, Return, Idle, Freeing,
       Frame, At, Calls
  <2> QED
    BY <2>1, <2>2, LeavesList
<1>4. ASSUME NEW t \in Threads, DriverAlloc(t) \/ FreeOne(t)
      PROVE  CacheInv'
  <2>1. UNCHANGED <<freeList, totalBytes, lock>>
    BY <1>4 DEF DriverAlloc, FreeOne
  <2>2. \A u \in Threads : At(u, "evict")' => At(u, "evict")
    <3>1. \A u \in Threads \ {t} : call'[u] = call[u]
      BY <1>1, <1>4 DEF DriverAlloc, FreeOne, Return
    <3>2. ~At(t, "evict")'
      <4>1. CASE FreeOne(t)
        BY <1>1, <4>1 DEF FreeOne, At, Calls
      <4>2. CASE DriverAlloc(t)
        <5>1. PICK b : \/ call' = [call EXCEPT ![t].pc = "record", ![t].block = b]
                       \/ call' = [call EXCEPT ![t] = Idle]
          BY <4>2, Zenon DEF DriverAlloc, Return
        <5>2. CASE call' = [call EXCEPT ![t] = Idle]
          BY <1>1, <5>2 DEF Idle, Freeing, Frame, At
        <5>3. CASE call' = [call EXCEPT ![t].pc = "record", ![t].block = b]
          <6>1. call'[t] = [call[t] EXCEPT !.pc = "record", !.block = b]
            BY <1>1, <5>3
          <6> QED
            BY <1>1, <6>1 DEF At, Calls
        <5> QED
          BY <5>1, <5>2, <5>3
      <4> QED
        BY <1>4, <4>1, <4>2
    <3> QED
      BY <3>1, <3>2 DEF At
  <2> QED
    BY <2>1, <2>2, LeavesList
<1>5. ASSUME UNCHANGED vars PROVE CacheInv'
  BY <1>5, LeavesList DEF vars, At
<1>6. ASSUME NEW t \in Threads, Step(t) PROVE CacheInv'
  BY <1>3, <1>4, <1>6, TakesOut, EmptiesList, UnlocksCapped, PushCounts
  DEF Step, AllocateStep, DeallocateStep
<1>7. ASSUME NEW t \in Threads, Enter(t) PROVE CacheInv'
  BY <1>2, <1>7, EmptiesList DEF Enter
<1> QED
  BY <1>5, <1>6, <1>7 DEF Next

\* Whenever no critical section is under way the running total is what the buckets
\* hold, no bucket is over its cap, and the list is within its bytes: what a thread
\* pushes over the cap it has evicted by the time it unlocks.
THEOREM CacheStaysBounded == Spec => []CacheBounded
<1>1. Init => CacheInv
  <2> SUFFICES ASSUME Init PROVE CacheInv
    OBVIOUS
  <2>1. freeList = [n \in Sizes |-> <<>>] /\ totalBytes = 0 /\ \A t \in Threads : ~At(t, "evict")
    BY DEF Init, Idle, Freeing, Frame, At
  <2>2. BytesIn(freeList) = 0
    BY <2>1, EmptyListBytes
  <2> QED
    BY <2>1, <2>2, ConstantsAssumption DEF CacheInv
<1>2. CacheInv => CacheBounded
  <2>1. CachedBytes = BytesIn(freeList)
    BY DEF CachedBytes, BytesIn, MapThenSumSet, MapThenFoldSet
  <2> QED
    BY <2>1 DEF CacheInv, CacheBounded
<1> QED
  BY <1>1, <1>2, NextCacheInv, AllocatorInvariant, PTL DEF Spec
-----------------------------------------------------------------------------
(***************************************************************************)
(* Out of memory: the retry of allocate                                    *)
(***************************************************************************)
\* Every summand that counts has one of its own in another sum that is as large.
Covered(g, S, f, T, e) ==
  /\ g \in [S -> Nat] /\ f \in [T -> Nat]
  /\ \A x \in S : g[x] # 0 => e[x] \in T /\ g[x] <= f[e[x]]
  /\ \A x, y \in S : g[x] # 0 /\ g[y] # 0 /\ e[x] = e[y] => x = y

\* Then the other sum is at least as large.
LEMMA SumCovers ==
  ASSUME NEW S, IsFiniteSet(S), NEW T, IsFiniteSet(T), NEW g, NEW f, NEW e,
         Covered(g, S, f, T, e)
  PROVE  Sum(g, S) \in Nat /\ Sum(f, T) \in Nat /\ Sum(g, S) <= Sum(f, T)
<1>0. /\ g \in [S -> Nat] /\ f \in [T -> Nat]
      /\ \A x \in S : g[x] # 0 => e[x] \in T /\ g[x] <= f[e[x]]
      /\ \A x, y \in S : g[x] # 0 /\ g[y] # 0 /\ e[x] = e[y] => x = y
  BY DEF Covered
<1>1. PICK h : AddsUp(g, S, h) /\ Sum(g, S) = h[S]
  BY SumExists DEF Sum
<1>2. PICK k : AddsUp(f, T, k) /\ Sum(f, T) = k[T]
  BY SumExists DEF Sum
<1>3. TakesAny(g, S, h) /\ TakesAny(f, T, k) /\ TakesOne(g, S, h)
  BY <1>0, <1>1, <1>2, SumTakesAny, SumTakesOne
<1> DEFINE Spent(s) == {e[x] : x \in {z \in S \ s : g[z] # 0}}
           F == {s \in SUBSET S : ~(h[s] <= k[T \ Spent(s)])}
<1>4. \A s \in SUBSET S : h[s] \in Nat /\ k[T \ Spent(s)] \in Nat
  BY <1>3 DEF TakesAny
<1>5. ASSUME F # {} PROVE FALSE
  <2>1. PICK s \in F : \A y \in F : y \subseteq s => y = s
    <3>1. F \in SUBSET (SUBSET S)
      OBVIOUS
    <3> HIDE DEF F
    <3> QED
      BY <1>5, <3>1, SmallestSet
  <2>2. s \in SUBSET S /\ ~(h[s] <= k[T \ Spent(s)])
    BY <2>1
  <2>3. s # {}
    <3>1. h[{}] = 0
      BY <1>3 DEF TakesOne
    <3>2. k[T \ Spent(s)] \in Nat
      BY <1>4, <2>2
    <3> HIDE DEF Spent
    <3>3. s = {} => 0 <= k[T \ Spent(s)] /\ h[s] = 0
      BY <3>1, <3>2
    <3> QED
      BY <2>2, <3>3
  <2>4. PICK x \in s : x \in S
    BY <2>2, <2>3
  <2> DEFINE r == s \ {x}
  <2>5. r \in SUBSET S /\ h[r] <= k[T \ Spent(r)]
    BY <2>1, <2>2, <2>4
  <2>6. h[s] = g[x] + h[r] /\ g[x] \in Nat
    BY <1>0, <1>3, <2>2, <2>4 DEF TakesAny
  <2>7. CASE g[x] = 0
    <3>1. Spent(r) = Spent(s)
      BY <2>2, <2>4, <2>7
    <3> HIDE DEF Spent, r
    <3> QED
      BY <1>4, <2>2, <2>5, <2>6, <2>7, <3>1
  <2>8. CASE g[x] # 0
    <3>1. e[x] \in T /\ e[x] \notin Spent(s) /\ g[x] <= f[e[x]] /\ f[e[x]] \in Nat
      BY <1>0, <2>2, <2>4, <2>8
    <3>2. T \ Spent(r) = (T \ Spent(s)) \ {e[x]}
      BY <2>2, <2>4, <2>8
    <3>3. k[T \ Spent(s)] = f[e[x]] + k[T \ Spent(r)]
      <4>1. T \ Spent(s) \in SUBSET T /\ e[x] \in T \ Spent(s)
        BY <3>1
      <4>2. PICK left : left = T \ Spent(s)
        OBVIOUS
      <4>3. k[left] = f[e[x]] + k[left \ {e[x]}]
        BY <1>3, <4>1, <4>2 DEF TakesAny
      <4>4. left \ {e[x]} = T \ Spent(r)
        BY <3>2, <4>2
      <4> HIDE DEF Spent, r
      <4> QED
        BY <4>2, <4>3, <4>4
    <3> HIDE DEF Spent, r
    <3> QED
      BY <1>4, <2>2, <2>5, <2>6, <3>1, <3>3
  <2> QED
    BY <2>7, <2>8
<1>6. Spent(S) = {}
  OBVIOUS
<1>7. h[S] <= k[T \ Spent(S)]
  <2>1. S \in SUBSET S
    OBVIOUS
  <2> HIDE DEF Spent
  <2> QED
    BY <1>5, <2>1
<1>8. h[S] \in Nat /\ k[T] \in Nat
  BY <1>3 DEF TakesAny
<1>9. T \ {} = T
  OBVIOUS
<1> HIDE DEF Spent
<1> QED
  BY <1>1, <1>2, <1>6, <1>7, <1>8, <1>9

\* What the model adds up is one of these sums.
LEMMA DriverAddsUp == DriverBytes = Sum(driver, Ptrs)
<1> DEFINE Eq(h) == h = [s \in SUBSET Ptrs |->
                          IF s = {} THEN 0
                          ELSE LET x == CHOOSE x \in s : TRUE
                               IN  driver[x] + h[s \ {x}]]
           iter == CHOOSE h : Eq(h)
<1>1. ASSUME NEW h PROVE Eq(h) <=> AddsUp(driver, Ptrs, h)
  BY DEF AddsUp, AnyOf
<1>2. IsFiniteSet(Ptrs)
  BY ConstantsAssumption
<1>3. PICK h : AddsUp(driver, Ptrs, h) /\ Sum(driver, Ptrs) = h[Ptrs]
  BY <1>2, SumExists DEF Sum
<1>4. DriverBytes = iter[Ptrs]
  BY DEF DriverBytes, MapThenSumSet, MapThenFoldSet
<1> HIDE DEF Eq
<1>5. AddsUp(driver, Ptrs, iter)
  BY <1>1, <1>3
<1> HIDE DEF iter
<1> QED
  BY <1>2, <1>3, <1>4, <1>5, SumsAgree

HeldSizes == [h \in Live |-> storage[h].size]

\* The same of what the program's handles stand for.
LEMMA InUseAddsUp ==
  ASSUME IsFiniteSet(Live)
  PROVE  InUseBytes = Sum(HeldSizes, Live)
<1> DEFINE Eq(h) == h = [s \in SUBSET Live |->
                          IF s = {} THEN 0
                          ELSE LET x == CHOOSE x \in s : TRUE
                               IN  storage[x].size + h[s \ {x}]]
           iter == CHOOSE h : Eq(h)
<1>1. ASSUME NEW h PROVE Eq(h) <=> AddsUp(HeldSizes, Live, h)
  <2>1. \A s \in SUBSET Live : s # {} => HeldSizes[AnyOf(s)] = storage[AnyOf(s)].size
    BY DEF HeldSizes, AnyOf
  <2> QED
    BY <2>1 DEF AddsUp, AnyOf
<1>3. PICK h : AddsUp(HeldSizes, Live, h) /\ Sum(HeldSizes, Live) = h[Live]
  BY SumExists DEF Sum
<1>4. InUseBytes = iter[Live]
  BY DEF InUseBytes, MapThenSumSet, MapThenFoldSet
<1> HIDE DEF Eq
<1>5. AddsUp(HeldSizes, Live, iter)
  BY <1>1, <1>3
<1> HIDE DEF iter
<1> QED
  BY <1>3, <1>4, <1>5, SumsAgree

\* Once a call that has the allocator to itself has given the cache back to the
\* driver, whatever is allocated is in use.
Drained(t) ==
  /\ At(t, "drained") /\ call[t].toFree = {}
  /\ \A u \in Threads \ {t} : At(u, "idle")
  /\ \A n \in Sizes : freeList[n] = <<>>

LEMMA OnlyInUse ==
  ASSUME AInv, NEW t \in Threads, Drained(t), NEW p \in Ptrs, driver[p] # 0
  PROVE  \E h \in Live : storage[h].ptr = p /\ storage[h].size = driver[p]
<1>1. /\ Types /\ CallShape /\ Owned(FALSE) /\ RealSizes /\ \A q : ~ArenaAt(q)
  BY DEF AInv, IInv, ArenaAt
<1>2. PICK k, a : Has(k, a, p)
  BY <1>1 DEF Owned
<1>3. \A u \in Threads : call[u].block = NoBlock /\ call[u].toFree = {}
  <2>1. ASSUME NEW u \in Threads PROVE call[u].block = NoBlock /\ call[u].toFree = {}
    <3>1. Fits(call[u], storage)
      BY <1>1 DEF CallShape
    <3>2. CASE u = t
      BY <3>1, <3>2 DEF Fits, Drained, At, Carrying
    <3>3. CASE u # t
      BY <3>1, <3>3 DEF Fits, Drained, At, Carrying
    <3> QED
      BY <3>2, <3>3
  <2> QED
    BY <2>1
<1>4. \A n \in Sizes : ListOf(freeList[n]) = {}
  BY DEF Drained, ListOf
<1>5. a \in Handles /\ Holds(storage[a], p)
  BY <1>2, <1>3, <1>4 DEF Has, Holds
<1> QED
  BY <1>1, <1>5 DEF Holds, Live, RealSizes

\* So it fails only if what is in use leaves no room.
LEMMA FailsForCause ==
  ASSUME IsFiniteSet(Handles), Cardinality(Handles) <= Cardinality(Ptrs),
         AInv, NEW t \in Threads, Drained(t), OutOfMemory(t)
  PROVE  InUseBytes + call[t].size > Capacity
<1>1. /\ driver \in [Ptrs -> Sizes \cup {0}] /\ storage \in [Handles -> Blocks \cup {NoBlock}]
      /\ call[t].handle \in Handles /\ storage[call[t].handle] = NoBlock /\ call[t].size \in Sizes
  BY DEF AInv, IInv, Types, CallShape, Fits, AllocatePcs, Drained, At
<1>2. IsFiniteSet(Ptrs) /\ Sizes \subseteq Nat /\ Capacity \in Nat
  BY ConstantsAssumption
<1>3. Live \subseteq Handles \ {call[t].handle}
  BY <1>1 DEF Live
<1>4. IsFiniteSet(Live)
  BY <1>3, FS_Difference, FS_Subset
<1> DEFINE holder == [p \in Ptrs |-> CHOOSE h \in Live : storage[h].ptr = p /\ storage[h].size = driver[p]]
<1>5. ASSUME NEW p \in Ptrs, driver[p] # 0
      PROVE  holder[p] \in Live /\ storage[holder[p]].ptr = p /\ storage[holder[p]].size = driver[p]
  <2>1. \E h \in Live : storage[h].ptr = p /\ storage[h].size = driver[p]
    BY <1>5, OnlyInUse
  <2> QED
    BY <2>1
<1>6. holder \in [Ptrs -> {holder[p] : p \in Ptrs}]
  OBVIOUS
<1> HIDE DEF holder
<1>7. PICK p \in Ptrs : driver[p] = 0
  <2>1. ASSUME \A p \in Ptrs : driver[p] # 0 PROVE FALSE
    <3> DEFINE others == Handles \ {call[t].handle}
    <3>1. holder \in Injection(Ptrs, others)
      <4>1. holder \in [Ptrs -> others]
        BY <1>3, <1>5, <1>6, <2>1
      <4>2. \A p, q \in Ptrs : holder[p] = holder[q] => p = q
        BY <1>5, <2>1
      <4> QED
        BY <4>1, <4>2 DEF Injection, IsInjective
    <3>2. /\ IsFiniteSet(others) /\ Cardinality(others) = Cardinality(Handles) - 1
      BY <1>1, FS_RemoveElement
    <3>3. Cardinality(Ptrs) <= Cardinality(others)
      <4> HIDE DEF others
      <4> QED
        BY <3>1, <3>2, FS_Injection
    <3>4. Cardinality(Ptrs) \in Nat /\ Cardinality(Handles) \in Nat
      BY <1>2, FS_CardinalityType
    <3> QED
      BY <3>2, <3>3, <3>4
  <2> QED
    BY <2>1
<1>8. ~(DriverBytes + call[t].size <= Capacity)
  BY <1>7 DEF OutOfMemory, DriverFits
<1>9. Covered(driver, Ptrs, HeldSizes, Live, holder)
  <2>1. driver \in [Ptrs -> Nat]
    <3>1. \A q \in Ptrs : driver[q] \in Sizes \cup {0}
      BY <1>1
    <3>2. Sizes \cup {0} \subseteq Nat
      BY ConstantsAssumption
    <3>3. \A q \in Ptrs : driver[q] \in Nat
      BY <3>1, <3>2
    <3> QED
      BY <1>1, <3>3
  <2>2. HeldSizes \in [Live -> Nat]
    <3>1. \A b \in Blocks : b.size \in Nat
      BY <1>2 DEF Blocks
    <3>2. \A h \in Live : storage[h].size \in Nat
      BY <1>1, <3>1 DEF Live
    <3> QED
      BY <3>2 DEF HeldSizes
  <2>3. \A q \in Ptrs : driver[q] # 0 => holder[q] \in Live /\ driver[q] <= HeldSizes[holder[q]]
    BY <1>5, <2>1 DEF HeldSizes
  <2>4. \A q, r \in Ptrs : driver[q] # 0 /\ driver[r] # 0 /\ holder[q] = holder[r] => q = r
    BY <1>5
  <2> QED
    BY <2>1, <2>2, <2>3, <2>4 DEF Covered
<1>10. /\ Sum(driver, Ptrs) \in Nat /\ Sum(HeldSizes, Live) \in Nat
       /\ Sum(driver, Ptrs) <= Sum(HeldSizes, Live)
  BY <1>2, <1>4, <1>9, SumCovers
<1>11. DriverBytes = Sum(driver, Ptrs) /\ InUseBytes = Sum(HeldSizes, Live)
  BY <1>4, DriverAddsUp, InUseAddsUp
<1>12. PICK n : n = call[t].size
  OBVIOUS
<1>13. n \in Nat
  BY <1>1, <1>2, <1>12
<1>14. ~(DriverBytes + n <= Capacity)
  BY <1>8, <1>12
<1> QED
  BY <1>2, <1>10, <1>11, <1>12, <1>13, <1>14

\* A call has had the allocator to itself: the other threads are idle, and after its
\* drain nothing is cached.
AloneInv ==
  \A t \in Threads : alone = t =>
    /\ \A u \in Threads \ {t} : At(u, "idle")
    /\ At(t, "drained") => \A n \in Sizes : freeList[n] = <<>>

\* A step is of one call, and only the drain leads to the retry.
LEMMA OneCallMoves ==
  ASSUME AInv, NEW t \in Threads, Enter(t) \/ Step(t)
  PROVE  /\ \A u \in Threads \ {t} : call'[u] = call[u]
         /\ At(t, "drained")' => \/ \A n \in Sizes : freeList'[n] = <<>>
                                 \/ At(t, "drained") /\ freeList' = freeList
<1>0. call \in [Threads -> Calls] /\ call[t] \in Calls /\ frozen = FALSE
  BY DEF AInv, IInv, Types
<1> DEFINE Leads(c) == call' = [call EXCEPT ![t] = c]
           Elsewhere == \E c : Leads(c) /\ c.pc # "drained"
<1>1. ASSUME Elsewhere
      PROVE  (\A u \in Threads \ {t} : call'[u] = call[u]) /\ ~At(t, "drained")'
  BY <1>0, <1>1 DEF At
<1>2. Idle.pc = "idle"
  BY DEF Idle, Freeing, Frame
<1>3. CASE PopHit(t) \/ OutOfMemory(t) \/ Freed(t)
  <2>1. Leads(Idle)
    BY <1>3 DEF PopHit, OutOfMemory, Freed, Return
  <2> QED
    BY <1>1, <1>2, <2>1
<1>4. CASE PopMiss(t) \/ DriverFailure(t) \/ Unlock(t)
  <2>1. PICK pc \in {"driver", "drain", "free"} : call' = [call EXCEPT ![t].pc = pc]
    BY <1>4 DEF PopMiss, DriverFailure, Unlock, Goto
  <2>2. Leads([call[t] EXCEPT !.pc = pc]) /\ [call[t] EXCEPT !.pc = pc].pc = pc
    BY <1>0, <2>1 DEF Calls
  <2> QED
    BY <1>1, <2>1, <2>2
<1>5. CASE DriverAlloc(t)
  <2>1. PICK b : \/ call' = [call EXCEPT ![t].pc = "record", ![t].block = b]
                 \/ call' = [call EXCEPT ![t] = Idle]
    BY <1>5, Zenon DEF DriverAlloc, Return
  <2>2. CASE call' = [call EXCEPT ![t].pc = "record", ![t].block = b]
    <3>1. /\ Leads([call[t] EXCEPT !.pc = "record", !.block = b])
          /\ [call[t] EXCEPT !.pc = "record", !.block = b].pc = "record"
      BY <1>0, <2>2 DEF Calls
    <3> QED
      BY <1>1, <3>1
  <2>3. CASE call' = [call EXCEPT ![t] = Idle]
    BY <1>1, <1>2, <2>3
  <2> QED
    BY <2>1, <2>2, <2>3
<1>6. CASE Push(t) \/ Reset(t) \/ \E h \in Live : Deallocate(t, h)
  <2>1. \A pc, b, f : Freeing(pc, b, f).pc = pc
    BY DEF Freeing, Frame
  <2>2. CASE Push(t)
    <3>1. PICK f : Leads(Freeing("evict", NoBlock, f))
      BY <2>2, Zenon DEF Push
    <3>2. Freeing("evict", NoBlock, f).pc # "drained"
      BY <2>1
    <3> QED
      BY <1>1, <3>1, <3>2
  <2>3. CASE Reset(t)
    <3>1. Leads(Freeing("free", NoBlock, Cached))
      BY <2>3, Zenon DEF Reset
    <3>2. Freeing("free", NoBlock, Cached).pc # "drained"
      BY <2>1
    <3> QED
      BY <1>1, <3>1, <3>2
  <2>4. CASE \E h \in Live : Deallocate(t, h)
    <3>1. PICK h \in Live : Leads(Freeing("push", storage[h], {}))
      BY <1>0, <2>4 DEF Deallocate
    <3>2. Freeing("push", storage[h], {}).pc # "drained"
      BY <2>1
    <3> QED
      BY <1>1, <3>1, <3>2
  <2> QED
    BY <1>6, <2>2, <2>3, <2>4
<1>7. CASE \E h \in Handles, n \in Sizes : Allocate(t, h, n)
  <2>1. PICK h, n : Leads(Frame("pop", h, n, frozen, NoBlock, {}))
    BY <1>0, <1>7 DEF Allocate
  <2>2. Frame("pop", h, n, frozen, NoBlock, {}).pc = "pop"
    BY DEF Frame
  <2> QED
    BY <1>1, <2>1, <2>2
<1>8. CASE Evict(t)
  <2>1. PICK n : call' = [call EXCEPT ![t].toFree = @ \cup {Head(freeList[n])}]
    BY <1>8 DEF Evict
  <2>2. call'[t].pc = "evict" /\ \A u \in Threads \ {t} : call'[u] = call[u]
    BY <1>0, <1>8, <2>1 DEF Evict, At, Calls
  <2> QED
    BY <2>2 DEF At
<1>9. CASE Drain(t)
  BY <1>0, <1>9 DEF Drain
<1>10. CASE FreeOne(t)
  <2>1. PICK p : call' = [call EXCEPT ![t].toFree = @ \ {p}]
    BY <1>10 DEF FreeOne
  <2>2. call'[t].pc = call[t].pc /\ \A u \in Threads \ {t} : call'[u] = call[u]
    BY <1>0, <2>1 DEF Calls
  <2> QED
    BY <1>10, <2>2 DEF FreeOne, At
<1> QED
  BY <1>3, <1>4, <1>5, <1>6, <1>7, <1>8, <1>9, <1>10
  DEF Enter, Step, AllocateStep, DeallocateStep

\* Whoever else enters or moves, the call no longer has the allocator to itself.
LEMMA NextAloneInv ==
  ASSUME AInv, AloneInv, [MCNext]_<<vars, alone>>
  PROVE  AloneInv'
<1>1. CASE UNCHANGED <<vars, alone>>
  BY <1>1 DEF AloneInv, vars, At
<1>2. ASSUME NEW t \in Threads, Enter(t) \/ Step(t),
             alone' = IF At(t, "idle")'  THEN NoThread
                      ELSE IF alone = t \/ \A u \in Threads : At(u, "idle") THEN t
                      ELSE NoThread
      PROVE  AloneInv'
  <2>1. /\ \A u \in Threads \ {t} : call'[u] = call[u]
        /\ At(t, "drained")' => \/ \A n \in Sizes : freeList'[n] = <<>>
                                \/ At(t, "drained") /\ freeList' = freeList
    BY <1>2, OneCallMoves
  <2>2. \A u \in Threads : alone' = u => u = t /\ (alone = t \/ \A w \in Threads : At(w, "idle"))
    BY <1>2, ConstantsAssumption
  <2>3. ASSUME alone' = t
        PROVE  /\ \A u \in Threads \ {t} : At(u, "idle")'
               /\ At(t, "drained")' => \A n \in Sizes : freeList'[n] = <<>>
    BY <2>1, <2>2, <2>3 DEF AloneInv, At
  <2> QED
    BY <2>2, <2>3 DEF AloneInv
<1> QED
  BY <1>1, <1>2 DEF MCNext

\* An allocation that had the allocator to itself fails only if the memory in use
\* leaves no room, as long as there is an address for every buffer in use: the
\* retry gives back all that the cache holds, and the driver sees it.
THEOREM RetryFreesTheCache ==
  ASSUME IsFiniteSet(Handles), Cardinality(Handles) <= Cardinality(Ptrs)
  PROVE  MCSpec => OutOfMemoryIsReal
<1>1. MCInit => Init /\ AloneInv
  <2>1. Init /\ alone = NoThread => AloneInv
    BY ConstantsAssumption DEF AloneInv
  <2> QED
    BY <2>1 DEF MCInit
<1>2. [MCNext]_<<vars, alone>> => [Next]_vars
  BY DEF MCNext, Next
<1>3. AInv /\ AloneInv /\ [MCNext]_<<vars, alone>> => AloneInv'
  BY NextAloneInv
<1>4. AInv /\ AloneInv =>
        \A t \in Threads : OutOfMemory(t) /\ alone = t => InUseBytes + call[t].size > Capacity
  <2> SUFFICES ASSUME AInv, AloneInv, NEW t \in Threads, OutOfMemory(t), alone = t
               PROVE  InUseBytes + call[t].size > Capacity
    OBVIOUS
  <2>1. Drained(t)
    BY DEF AloneInv, Drained, OutOfMemory
  <2> QED
    BY <2>1, FailsForCause
<1>5. MCSpec => MCInit /\ [][MCNext]_<<vars, alone>>
  BY DEF MCSpec
<1> QED
  BY <1>1, <1>2, <1>3, <1>4, <1>5, AllocatorInvariant, PTL DEF Spec, OutOfMemoryIsReal
-----------------------------------------------------------------------------
(***************************************************************************)
(* The steps of a freeze window                                            *)
(***************************************************************************)
\* An allocation takes at least its size out of the arena.
LEMMA FootprintCovers ==
  ASSUME NEW n \in Nat
  PROVE  Footprint(n) \in Nat /\ n <= Footprint(n)
<1>1. ASSUME NEW m \in Nat
      PROVE  AlignUp(m) \in Nat /\ m <= AlignUp(m)
  <2>1. PICK q, r : q = (m + Align - 1) \div Align /\ r = (m + Align - 1) % Align
    OBVIOUS
  <2>2. m + Align - 1 \in Nat /\ q \in Nat /\ r \in 0 .. Align - 1 /\ m + Align - 1 = Align * q + r
    BY <2>1, AlignAssumption
  <2>3. AlignUp(m) = Align * q /\ Align * q \in Nat
    BY <2>1, <2>2, AlignAssumption DEF AlignUp
  <2> QED
    BY <2>2, <2>3, AlignAssumption
<1> QED
  BY <1>1 DEF Footprint

\* What the arena's operations leave as it is.
LEMMA ArenaSteps ==
  ASSUME NEW ar \in Arenas
  PROVE  /\ \A n \in Nat : /\ ArenaAllocate(ar, n) \in Arenas
                           /\ ArenaAllocate(ar, n).base = ar.base
                           /\ ArenaAllocate(ar, n).highWater = ar.highWater + Footprint(n)
                           /\ ArenaAllocate(ar, n).size = ar.size
         /\ \A off : /\ ArenaDeallocate(ar, off) \in Arenas
                     /\ ArenaDeallocate(ar, off).base = ar.base
                     /\ ArenaDeallocate(ar, off).highWater = ar.highWater
                     /\ ArenaDeallocate(ar, off).size = ar.size
         /\ ar.base \in Ptrs /\ ar.highWater \in Nat /\ ar # NoArena
<1>1. ar.base \in Ptrs /\ ar.highWater \in Nat /\ ar.live \in SUBSET (Nat \X Nat) /\ ar # NoArena
  BY ConstantsAssumption DEF Arenas
<1>2. ASSUME NEW n \in Nat
      PROVE  /\ ArenaAllocate(ar, n) \in Arenas /\ ArenaAllocate(ar, n).base = ar.base
             /\ ArenaAllocate(ar, n).highWater = ar.highWater + Footprint(n)
             /\ ArenaAllocate(ar, n).size = ar.size
  <2> DEFINE len == Footprint(n)
             live == ar.live \cup {<<ar.highWater, len>>}
  <2>1. len \in Nat
    BY FootprintCovers
  <2>2. ar.highWater + len \in Nat /\ live \in SUBSET (Nat \X Nat)
    BY <1>1, <2>1
  <2>3. ArenaAllocate(ar, n) = [ar EXCEPT !.highWater = ar.highWater + len, !.live = live]
    BY DEF ArenaAllocate, Arenas
  <2> HIDE DEF len, live
  <2>4. /\ ArenaAllocate(ar, n) \in Arenas /\ ArenaAllocate(ar, n).base = ar.base
        /\ ArenaAllocate(ar, n).highWater = ar.highWater + len
        /\ ArenaAllocate(ar, n).size = ar.size
    BY <2>2, <2>3 DEF Arenas
  <2> QED
    BY <2>4 DEF len
<1>3. ASSUME NEW off
      PROVE  /\ ArenaDeallocate(ar, off) \in Arenas /\ ArenaDeallocate(ar, off).base = ar.base
             /\ ArenaDeallocate(ar, off).highWater = ar.highWater
             /\ ArenaDeallocate(ar, off).size = ar.size
  <2> DEFINE live == {r \in ar.live : r[1] # off}
  <2>1. live \in SUBSET (Nat \X Nat)
    BY <1>1
  <2>2. ArenaDeallocate(ar, off) = [ar EXCEPT !.live = live]
    BY DEF ArenaDeallocate, Arenas
  <2> HIDE DEF live
  <2> QED
    BY <2>1, <2>2 DEF Arenas
<1> QED
  BY <1>1, <1>2, <1>3

\* A piece of the arena goes to the call.
LEMMA FromArenaStep ==
  ASSUME NEW leaks \in BOOLEAN, IInv(leaks), NEW t \in Threads, FromArena(t)
  PROVE  IInv(leaks)'
<1>0. PICK n, p, b : n = call[t].size /\ p = arena.base /\ b = Block(arena.base, arena.highWater, n, TRUE)
  OBVIOUS
<1> DEFINE c == [call[t] EXCEPT !.pc = "record", !.block = b]
<1>1. /\ Types /\ CallShape /\ Owned(leaks) /\ RealSizes /\ arena # NoArena
      /\ call[t].pc = "arena" /\ call' = [call EXCEPT ![t] = c] /\ arena' = ArenaAllocate(arena, n)
      /\ UNCHANGED <<driver, freeList, frozen, storage>>
  BY <1>0 DEF FromArena, At, IInv, Types
<1>2. /\ arena \in Arenas /\ n \in Sizes /\ n \in Nat /\ call[t] \in Calls
      /\ call[t].handle \in Handles /\ storage[call[t].handle] = NoBlock
      /\ call[t].block = NoBlock /\ call[t].toFree = {}
  BY <1>0, <1>1, ConstantsAssumption DEF Types, CallShape, Fits, AllocatePcs, Carrying
<1>3. p \in Ptrs /\ arena.highWater \in Nat /\ arena' \in Arenas /\ arena'.base = p
      /\ arena' # NoArena
  <2>1. p \in Ptrs /\ arena.highWater \in Nat /\ arena' \in Arenas /\ arena'.base = p
    BY <1>0, <1>1, <1>2, ArenaSteps
  <2> QED
    BY <2>1, ConstantsAssumption
<1>4. b \in Blocks /\ b # NoBlock /\ b.ptr = p
  <2>1. b \in Blocks /\ b.ptr = p
    BY <1>0, <1>2, <1>3 DEF Block, Blocks
  <2> QED
    BY <2>1, ConstantsAssumption
<1>5. /\ c \in Calls /\ c.pc = "record" /\ c.block = b /\ c.toFree = {}
      /\ c.handle = call[t].handle /\ c.size = n
  BY <1>0, <1>2, <1>4 DEF Calls, Carrying
<1> HIDE DEF c
<1>6. call' \in [Threads -> Calls] /\ call'[t] = c /\ \A u \in Threads \ {t} : call'[u] = call[u]
  BY <1>1, <1>5, CallStep
<1>7. Types'
  BY <1>1, <1>3, <1>6 DEF Types
<1>8. CallShape'
  <2>1. Fits(c, storage')
    BY <1>1, <1>2, <1>4, <1>5 DEF Fits, AllocatePcs, Carrying
  <2> QED
    BY <1>1, <1>5, <2>1, ShapeStep
<1>9. ArenaAt(p) /\ ArenaAt(p)'
  BY <1>0, <1>1, <1>3 DEF ArenaAt
<1>10. \A q : ArenaAt(q)' <=> ArenaAt(q)
  BY <1>0, <1>1, <1>3 DEF ArenaAt
<1>11. Owned(leaks)'
  <2>1. /\ \A u \in Threads : p \notin call[u].toFree
        /\ \A m \in Sizes : p \notin ListOf(freeList[m])
    BY <1>1, <1>3, <1>9 DEF Owned, Has
  <2>2. /\ \A u \in Threads : p \notin call'[u].toFree
        /\ \A m \in Sizes : p \notin ListOf(freeList'[m])
    BY <1>1, <1>5, <1>6, <2>1
  <2>3. \A k, a : Has(k, a, p)' => k \in {"handle", "carrier"}
    BY <2>2 DEF Has
  <2>4. Has("carrier", t, p)'
    BY <1>4, <1>5, <1>6 DEF Has, Holds
  <2>5. \A q \in Ptrs \ {p} : KeepsOwner(q)
    <3> TAKE q \in Ptrs \ {p}
    <3>1. /\ \A u \in Threads : Holds(call'[u].block, q) <=> Holds(call[u].block, q)
          /\ \A u \in Threads : q \in call'[u].toFree <=> q \in call[u].toFree
      BY <1>2, <1>4, <1>5, <1>6 DEF Holds
    <3> QED
      BY <1>1, <3>1, SameOwner
  <2> QED
    BY <1>1, <1>3, <1>9, <2>3, <2>4, <2>5, ArenaHandover
<1>12. RealSizes'
  <2>1. \A u \in Threads : call'[u].block # NoBlock /\ ~ArenaAt(call'[u].block.ptr) =>
                             driver[call'[u].block.ptr] = call'[u].block.size
    BY <1>1, <1>4, <1>5, <1>6, <1>9 DEF RealSizes
  <2> QED
    BY <1>1, <1>10, <2>1 DEF RealSizes
<1> QED
  BY <1>7, <1>8, <1>11, <1>12 DEF IInv

\* The block enters captured_ptrs and the handle stands for it.
LEMMA RecordStep ==
  ASSUME NEW leaks \in BOOLEAN, IInv(leaks), NEW t \in Threads, Record(t)
  PROVE  IInv(leaks)'
<1>0. PICK h, b, p : h = call[t].handle /\ b = call[t].block /\ p = b.ptr
  OBVIOUS
<1>1. /\ Types /\ CallShape /\ Owned(leaks) /\ RealSizes
      /\ call[t].pc = "record" /\ call' = [call EXCEPT ![t] = Idle]
      /\ storage' = [storage EXCEPT ![h] = b] /\ UNCHANGED <<driver, freeList, frozen, arena>>
  BY <1>0 DEF Record, At, Return, IInv
<1>2. /\ h \in Handles /\ storage[h] = NoBlock /\ h # NoHandle
      /\ b # NoBlock /\ call[t].toFree = {}
  BY <1>0, <1>1, ConstantsAssumption DEF CallShape, Fits, AllocatePcs, Carrying
<1>3. b \in Blocks \ {NoBlock} /\ p \in Ptrs /\ \A q : Holds(b, q) <=> q = p
  BY <1>0, <1>1, <1>2, HeldAddresses DEF Holds
<1>4. /\ storage' \in [Handles -> Blocks \cup {NoBlock}] /\ storage'[h] = b
      /\ \A g \in Handles \ {h} : storage'[g] = storage[g]
  BY <1>1, <1>2, <1>3 DEF Types
<1>5. call' \in [Threads -> Calls] /\ call'[t] = Idle /\ \A u \in Threads \ {t} : call'[u] = call[u]
  BY <1>1, CallStep, IdleFits
<1>6. Types'
  BY <1>1, <1>4, <1>5 DEF Types
<1>7. CallShape'
  <2>1. \A u \in Threads \ {t} : call[u].handle # NoHandle => call[u].handle \in Handles \ {h}
    BY <1>0, <1>1, <1>2 DEF CallShape, Fits
  <2> QED
    BY <1>1, <1>4, <2>1, IdleFits, ShapeStep
<1>8. Has("carrier", t, p) /\ driver[p] # 0
  BY <1>0, <1>1, <1>3 DEF Has, Owned
<1>9. ASSUME ~ArenaAt(p) PROVE Owned(leaks)'
  <2>1. /\ \A g \in Handles : ~Holds(storage[g], p)
        /\ \A u \in Threads : (Holds(call[u].block, p) => u = t) /\ p \notin call[u].toFree
        /\ \A n \in Sizes : p \notin ListOf(freeList[n])
    BY <1>1, <1>3, <1>8, <1>9, SoleOwner
  <2>2. \A m \in Sizes : p \notin ListOf(freeList'[m]) /\ NoRepeats(freeList'[m])
    BY <1>1, <2>1 DEF Owned
  <2>3. /\ \A q \in Ptrs : Holds(call[t].block, q) => q = p
        /\ \A q \in Ptrs \ {p}, m \in Sizes : q \in ListOf(freeList'[m]) <=> q \in ListOf(freeList[m])
    BY <1>0, <1>1, <1>3
  <2> QED
    BY <1>0, <1>1, <1>2, <1>3, <1>8, <1>9, <2>1, <2>2, <2>3, HandleGets
<1>10. ASSUME ArenaAt(p) PROVE Owned(leaks)'
  <2>1. /\ \A u \in Threads : p \notin call[u].toFree
        /\ \A n \in Sizes : p \notin ListOf(freeList[n])
    BY <1>1, <1>3, <1>10 DEF Owned, Has
  <2>2. /\ \A u \in Threads : p \notin call'[u].toFree
        /\ \A n \in Sizes : p \notin ListOf(freeList'[n])
    BY <1>1, <1>5, <2>1, IdleFits
  <2>3. \A k, a : Has(k, a, p)' => k \in {"handle", "carrier"}
    BY <2>2 DEF Has
  <2>4. Has("handle", h, p)'
    BY <1>2, <1>3, <1>4 DEF Has
  <2>5. \A q \in Ptrs \ {p} : KeepsOwner(q)
    <3> TAKE q \in Ptrs \ {p}
    <3>1. \A g \in Handles : Holds(storage'[g], q) <=> Holds(storage[g], q)
      BY <1>2, <1>3, <1>4 DEF Holds
    <3>2. /\ \A u \in Threads : Holds(call'[u].block, q) <=> Holds(call[u].block, q)
          /\ \A u \in Threads : q \in call'[u].toFree <=> q \in call[u].toFree
      BY <1>0, <1>2, <1>3, <1>5, IdleFits DEF Holds
    <3> QED
      BY <1>1, <3>1, <3>2, SameOwner
  <2>6. ArenaAt(p)'
    BY <1>1, <1>10 DEF ArenaAt
  <2> QED
    BY <1>1, <1>3, <1>10, <2>3, <2>4, <2>5, <2>6, ArenaHandover
<1>11. RealSizes'
  <2>1. ASSUME NEW g \in Handles, storage'[g] # NoBlock, ~ArenaAt(storage'[g].ptr)
        PROVE  driver[storage'[g].ptr] = storage'[g].size
    BY <1>0, <1>1, <1>4, <2>1 DEF RealSizes
  <2>2. ASSUME NEW u \in Threads, call'[u].block # NoBlock, ~ArenaAt(call'[u].block.ptr)
        PROVE  driver[call'[u].block.ptr] = call'[u].block.size
    BY <1>1, <1>5, <2>2, IdleFits DEF RealSizes
  <2> QED
    BY <1>1, <2>1, <2>2 DEF RealSizes, ArenaAt
<1> QED
  BY <1>6, <1>7, <1>9, <1>10, <1>11 DEF IInv

\* With an arena a free is bookkeeping. Unless buffers may leak, the block is a piece
\* of the arena, whose own buffer a handle keeps.
LEMMA ArenaFreeStep ==
  ASSUME NEW leaks \in BOOLEAN, IInv(leaks), NEW t \in Threads, ArenaFree(t),
         leaks \/ (call[t].block.ptr = arena.base /\ \E h \in Handles : Holds(storage[h], arena.base))
  PROVE  IInv(leaks)'
<1>0. PICK b, p : b = call[t].block /\ p = arena.base
  OBVIOUS
<1>1. /\ Types /\ CallShape /\ Owned(leaks) /\ RealSizes /\ arena # NoArena
      /\ call[t].pc = "arenaFree" /\ call' = [call EXCEPT ![t] = Idle]
      /\ UNCHANGED <<driver, freeList, frozen, storage>>
      /\ arena' \in {arena} \cup {ArenaDeallocate(arena, off) : off \in {b.off}}
  BY <1>0 DEF ArenaFree, At, Return, IInv
<1>2. /\ b # NoBlock /\ call[t].toFree = {} /\ b \in Blocks /\ b.ptr \in Ptrs
  BY <1>0, <1>1, HeldAddresses DEF CallShape, Fits, Carrying
<1>3. arena \in Arenas /\ p \in Ptrs /\ arena' \in Arenas /\ arena' # NoArena /\ arena'.base = p
  <2>1. arena \in Arenas
    BY <1>1 DEF Types
  <2>2. arena' \in Arenas /\ arena'.base = p /\ p \in Ptrs
    BY <1>0, <1>1, <2>1, ArenaSteps
  <2> QED
    BY <2>1, <2>2, ConstantsAssumption
<1>4. call' \in [Threads -> Calls] /\ call'[t] = Idle /\ \A u \in Threads \ {t} : call'[u] = call[u]
  BY <1>1, CallStep, IdleFits
<1>5. Types'
  BY <1>1, <1>3, <1>4 DEF Types
<1>6. CallShape'
  BY <1>1, IdleFits, ShapeStep
<1>7. \A q : ArenaAt(q)' <=> ArenaAt(q)
  BY <1>0, <1>1, <1>3 DEF ArenaAt
<1>8. ASSUME NEW k, NEW a, NEW q, Has(k, a, q)'
      PROVE  Has(k, a, q)
  BY <1>1, <1>4, <1>8, IdleFits DEF Has, Holds
<1>9. ASSUME NEW q \in Ptrs, q # b.ptr
      PROVE  KeepsOwner(q)
  <2>1. /\ \A u \in Threads : Holds(call'[u].block, q) <=> Holds(call[u].block, q)
        /\ \A u \in Threads : q \in call'[u].toFree <=> q \in call[u].toFree
    BY <1>0, <1>2, <1>4, <1>9, IdleFits DEF Holds
  <2> QED
    BY <1>1, <2>1, SameOwner
<1>10. ASSUME NEW q \in Ptrs, ~leaks, driver[q] # 0
       PROVE  \E k, a : Has(k, a, q)'
  <2>1. CASE q = p
    <3>1. PICK h \in Handles : Holds(storage'[h], p)
      BY <1>0, <1>1, <1>10
    <3>2. Has("handle", h, p)'
      BY <3>1 DEF Has
    <3> QED
      BY <2>1, <3>2
  <2>2. CASE q # p
    BY <1>0, <1>1, <1>9, <1>10, <2>2 DEF Owned, KeepsOwner
  <2> QED
    BY <2>1, <2>2
<1>11. Owned(leaks)'
  <2>1. \A n \in Sizes : NoRepeats(freeList'[n])
    BY <1>1 DEF Owned
  <2>2. ASSUME NEW q \in Ptrs
        PROVE  /\ ~ArenaAt(q)' => \A k, a, l, d : Has(k, a, q)' /\ Has(l, d, q)' => k = l /\ a = d
               /\ ArenaAt(q)' => /\ driver'[q] # 0
                                 /\ \A k, a : Has(k, a, q)' => k \in {"handle", "carrier"}
               /\ \A k, a : Has(k, a, q)' => driver'[q] # 0
    BY <1>1, <1>7, <1>8 DEF Owned
  <2>3. ASSUME NEW q \in Ptrs
        PROVE  leaks \/ (driver'[q] # 0 => \E k, a : Has(k, a, q)')
    BY <1>1, <1>10
  <2> QED
    BY <2>1, <2>2, <2>3 DEF Owned
<1>12. RealSizes'
  BY <1>1, <1>4, <1>7, IdleFits DEF RealSizes
<1> QED
  BY <1>5, <1>6, <1>11, <1>12 DEF IInv

\* Without an arena the buffer goes back to the driver.
LEMMA DriverFreeStep ==
  ASSUME NEW leaks \in BOOLEAN, IInv(leaks), NEW t \in Threads, DriverFree(t)
  PROVE  IInv(leaks)'
<1>0. PICK b, p : b = call[t].block /\ p = b.ptr
  OBVIOUS
<1> DEFINE c == Freeing("free", NoBlock, {p})
<1>1. /\ Types /\ CallShape /\ Owned(leaks) /\ RealSizes /\ arena = NoArena
      /\ call[t].pc = "arenaFree" /\ UNCHANGED <<driver, freeList, frozen, arena, storage>>
      /\ call' = [call EXCEPT ![t] = c]
  BY <1>0 DEF DriverFree, At, IInv, Types
<1>2. /\ b # NoBlock /\ call[t].toFree = {} /\ b \in Blocks /\ p \in Ptrs
      /\ \A q : Holds(b, q) <=> q = p
  BY <1>0, <1>1, HeldAddresses DEF CallShape, Fits, Carrying, Holds
<1>3. c \in Calls /\ c.block = NoBlock /\ c.toFree = {p} /\ c.handle = NoHandle /\ c.pc = "free"
  BY <1>2 DEF Calls, Freeing, Frame
<1> HIDE DEF c
<1>4. call' \in [Threads -> Calls] /\ call'[t] = c /\ \A u \in Threads \ {t} : call'[u] = call[u]
  BY <1>1, <1>3, CallStep
<1>5. Types'
  BY <1>1, <1>4 DEF Types
<1>6. CallShape'
  <2>1. Fits(c, storage')
    BY <1>3 DEF Fits, AllocatePcs, Carrying
  <2> QED
    BY <1>1, <1>3, <2>1, ShapeStep
<1>7. /\ driver[p] # 0 /\ ~ArenaAt(p) /\ (\A h \in Handles : ~Holds(storage[h], p))
      /\ \A u \in Threads : (Holds(call[u].block, p) => u = t) /\ p \notin call[u].toFree
      /\ \A m \in Sizes : p \notin ListOf(freeList[m])
  <2>1. Has("carrier", t, p) /\ ~ArenaAt(p)
    BY <1>0, <1>1, <1>2 DEF Has, ArenaAt
  <2> QED
    BY <1>1, <1>2, <2>1, SoleOwner
<1>8. OnlyHas("freer", t, p)'
  <2>1. Has("freer", t, p)'
    BY <1>3, <1>4 DEF Has
  <2>2. /\ \A h \in Handles : ~Holds(storage'[h], p)
        /\ \A u \in Threads : ~Holds(call'[u].block, p) /\ (p \in call'[u].toFree => u = t)
        /\ \A m \in Sizes : p \notin ListOf(freeList'[m])
    BY <1>1, <1>3, <1>4, <1>7 DEF Holds
  <2> QED
    BY <2>1, <2>2, NewOwner
<1>9. \A q \in Ptrs \ {p} : KeepsOwner(q)
  <2> TAKE q \in Ptrs \ {p}
  <2>1. /\ \A u \in Threads : Holds(call'[u].block, q) <=> Holds(call[u].block, q)
        /\ \A u \in Threads : q \in call'[u].toFree <=> q \in call[u].toFree
    BY <1>0, <1>2, <1>3, <1>4 DEF Holds
  <2> QED
    BY <1>1, <2>1, SameOwner
<1>10. Owned(leaks)'
  <2>1. \A m \in Sizes : NoRepeats(freeList'[m])
    BY <1>1 DEF Owned
  <2> QED
    BY <1>1, <1>2, <1>7, <1>8, <1>9, <2>1, OneHandover
<1>11. RealSizes'
  BY <1>1, <1>3, <1>4 DEF RealSizes, ArenaAt
<1> QED
  BY <1>5, <1>6, <1>10, <1>11 DEF IInv

\* The end of a window: only the handle of the arena's own buffer is left on it.
LEMMA ClearArenaStep ==
  ASSUME NEW leaks \in BOOLEAN, IInv(leaks), NEW t \in Threads, ClearArena(t),
         NEW h,
         \A q : ArenaAt(q) => /\ \A u \in Threads : ~Holds(call[u].block, q)
                              /\ \A g \in Handles : Holds(storage[g], q) =>
                                                      g = h /\ driver[q] = storage[g].size
                              /\ leaks \/ \E g \in Handles : Holds(storage[g], q)
  PROVE  IInv(leaks)'
<1> DEFINE c == [call[t] EXCEPT !.pc = "takeCaptured"]
<1>1. /\ Types /\ CallShape /\ Owned(leaks) /\ RealSizes /\ call[t] \in Calls
      /\ call[t].pc = "clearArena" /\ call' = [call EXCEPT ![t] = c] /\ arena' = NoArena
      /\ UNCHANGED <<driver, freeList, frozen, storage>> /\ Fits(call[t], storage)
  BY DEF ClearArena, At, Goto, IInv, Types, CallShape
<1>2. /\ c \in Calls /\ c.block = call[t].block /\ c.toFree = call[t].toFree
      /\ c.handle = call[t].handle /\ c.pc = "takeCaptured"
  BY <1>1 DEF Calls
<1> HIDE DEF c
<1>3. call' \in [Threads -> Calls] /\ call'[t] = c /\ \A u \in Threads \ {t} : call'[u] = call[u]
  BY <1>1, <1>2, CallStep
<1>4. \A u \in Threads : call'[u].block = call[u].block /\ call'[u].toFree = call[u].toFree
  BY <1>2, <1>3
<1>5. Types'
  BY <1>1, <1>3 DEF Types
<1>6. CallShape'
  <2>1. Fits(c, storage')
    BY <1>1, <1>2 DEF Fits, AllocatePcs, Carrying
  <2> QED
    BY <1>1, <1>2, <2>1, ShapeStep
<1>7. \A k, a, q : Has(k, a, q)' <=> Has(k, a, q)
  BY <1>1, <1>4 DEF Has
<1>8. \A q : ~ArenaAt(q)'
  BY <1>1 DEF ArenaAt
<1>9. ASSUME NEW q \in Ptrs
      PROVE  /\ \A k, a, l, b : Has(k, a, q) /\ Has(l, b, q) => k = l /\ a = b
             /\ \A k, a : Has(k, a, q) => driver[q] # 0
             /\ leaks \/ (driver[q] # 0 => \E k, a : Has(k, a, q))
  <2>1. CASE ~ArenaAt(q)
    BY <1>1, <2>1 DEF Owned
  <2>2. CASE ArenaAt(q)
    <3>1. \A k, a : Has(k, a, q) => k = "handle" /\ a = h
      BY <1>1, <2>2 DEF Owned, Has
    <3>2. (\E g \in Handles : Holds(storage[g], q)) => Has("handle", h, q)
      BY <2>2 DEF Has
    <3> QED
      BY <1>1, <2>2, <3>1, <3>2 DEF Owned
  <2> QED
    BY <2>1, <2>2
<1>10. Owned(leaks)'
  <2>1. \A n \in Sizes : NoRepeats(freeList'[n])
    BY <1>1 DEF Owned
  <2>2. \A q \in Ptrs : driver'[q] = driver[q]
    BY <1>1
  <2> QED
    BY <1>7, <1>8, <1>9, <2>1, <2>2 DEF Owned
<1>11. RealSizes'
  <2>1. ASSUME NEW g \in Handles, storage[g] # NoBlock
        PROVE  driver[storage[g].ptr] = storage[g].size
    BY <1>1, <2>1 DEF RealSizes, Holds
  <2>2. ASSUME NEW u \in Threads, call[u].block # NoBlock
        PROVE  driver[call[u].block.ptr] = call[u].block.size
    BY <1>1, <2>2 DEF RealSizes, Holds
  <2> QED
    BY <1>1, <1>4, <2>1, <2>2 DEF RealSizes
<1> QED
  BY <1>5, <1>6, <1>10, <1>11 DEF IInv

\* install_arena over the buffer of a handle.
LEMMA InstallStep ==
  ASSUME NEW leaks \in BOOLEAN, IInv(leaks), NEW t \in Threads, NEW h \in Handles, InstallArena(t, h)
  PROVE  IInv(leaks)' /\ arena' \in Arenas /\ arena'.base = storage[h].ptr /\ arena'.highWater = 0
<1>0. PICK b, p : b = storage[h] /\ p = b.ptr
  OBVIOUS
<1>1. /\ Types /\ CallShape /\ Owned(leaks) /\ RealSizes /\ arena = NoArena /\ b # NoBlock
      /\ arena' = NewArena(p, b.size) /\ UNCHANGED <<driver, freeList, frozen, call, storage>>
  BY <1>0 DEF InstallArena, IInv
<1>2. b \in Blocks /\ p \in Ptrs /\ b.size \in Nat /\ Holds(b, p)
  BY <1>0, <1>1, HeldAddresses, ConstantsAssumption DEF Blocks, Holds
<1>3. arena' \in Arenas /\ arena'.base = p /\ arena'.highWater = 0
  BY <1>1, <1>2 DEF NewArena, Arenas
<1>4. (\A q : ~ArenaAt(q)) /\ \A q : ArenaAt(q)' => q = p
  BY <1>1, <1>3 DEF ArenaAt
<1>5. \A k, a, q : Has(k, a, q)' <=> Has(k, a, q)
  BY <1>1 DEF Has
<1>6. driver[p] # 0 /\ \A k, a : Has(k, a, p) => k = "handle"
  <2>1. Has("handle", h, p)
    BY <1>0, <1>2 DEF Has
  <2> QED
    BY <1>1, <1>2, <1>4, <2>1 DEF Owned
<1>7. Owned(leaks)'
  <2>1. \A n \in Sizes : NoRepeats(freeList'[n])
    BY <1>1 DEF Owned
  <2>2. \A q \in Ptrs : driver'[q] = driver[q]
    BY <1>1
  <2> QED
    BY <1>1, <1>4, <1>5, <1>6, <2>1, <2>2 DEF Owned
<1> QED
  BY <1>0, <1>1, <1>3, <1>4, <1>7 DEF IInv, Types, CallShape, RealSizes

LEMMA UnfreezeStep ==
  ASSUME NEW leaks \in BOOLEAN, IInv(leaks), NEW t \in Threads, Unfreeze(t)
  PROVE  IInv(leaks)'
<1> DEFINE c == [call[t] EXCEPT !.pc = "clearArena"]
<1>1. /\ call[t] \in Calls /\ Fits(call[t], storage) /\ call[t].pc = "idle" /\ frozen' = FALSE
      /\ call' = [call EXCEPT ![t] = c] /\ UNCHANGED <<driver, freeList, arena, storage>>
  BY DEF Unfreeze, At, Goto, IInv, Types, CallShape
<1>2. /\ c \in Calls /\ c.block = call[t].block /\ c.toFree = call[t].toFree
      /\ c.handle = call[t].handle /\ c.pc = "clearArena"
  BY <1>1 DEF Calls
<1> HIDE DEF c
<1>3. Fits(c, storage)
  BY <1>1, <1>2 DEF Fits, AllocatePcs, Carrying
<1> QED
  BY <1>1, <1>2, <1>3, CallMoves

-----------------------------------------------------------------------------
(***************************************************************************)
(* Graph capture                                                           *)
(***************************************************************************)
Now == call[Capturer]

Roles == {"user", "capture", "graph"}
Captures == [pc : {"idle", "arenaTensor", "install", "freeze", "begin", "closure", "unfreeze",
                   "wrap", "unwind", "dropIO"},
             arena : Handles \cup {NoHandle}, io : SUBSET Handles,
             withArena : BOOLEAN, ok : BOOLEAN, window : SUBSET (Ptrs \X Nat), top : Nat]

CapTypes ==
  /\ cap \in Captures
  /\ refs \in [Handles -> SUBSET Roles]
  /\ graph \in Graphs \cup {NoGraph}
  /\ recording \in BOOLEAN

\* The arena of the capture under way is installed, or has been.
HasTensor == cap.withArena /\ cap.pc \in {"freeze", "begin", "closure", "unfreeze", "wrap", "unwind"}

\* How far a capture has come says what the allocator and the stream are in, but for
\* what a begin_capture that failed left behind.
Control ==
  /\ cap.withArena => cap.arena \notin cap.io /\ (cap.pc # "arenaTensor" => cap.arena \in Handles)
  /\ ~cap.withArena => cap.pc \notin {"arenaTensor", "install"}
  /\ cap.pc = "idle" => cap = NoCapture
  /\ cap.pc # "idle" => graph = NoGraph
  /\ recording <=> cap.pc = "closure"
  /\ cap.pc \in {"arenaTensor", "freeze", "begin", "unfreeze"} => Now.pc = "idle"
  /\ cap.pc \in {"begin", "closure", "unfreeze"} => frozen
  /\ frozen => cap.pc \in {"begin", "closure", "unfreeze"} \/ "begin" \in faults
  /\ cap.pc \in {"wrap", "dropIO"} \/ graph # NoGraph => ~frozen
  /\ captured # {} => frozen \/ Now.pc \in {"clearArena", "takeCaptured"}
  /\ arena # NoArena => /\ frozen \/ (cap.withArena /\ cap.pc = "freeze") \/ Now.pc = "clearArena"
                        /\ HasTensor \/ "begin" \in faults

\* What the call of the one thread knows of the window it was made in.
CallControl ==
  /\ \A t \in Threads \ {Capturer} : call[t] = Idle
  /\ Now.pc \in {"clearArena", "takeCaptured"} => cap.pc \in {"wrap", "unwind"} /\ ~frozen
  /\ Now.pc = "takeCaptured" => arena = NoArena
  /\ Now.pc \in AllocatePcs => Now.graph = frozen
  /\ Now.pc \in {"arena", "record", "arenaFree"} => frozen
  /\ Now.pc \in {"pop", "push"} => ~frozen
  /\ Now.pc \in {"driver", "drain", "drained"} => arena = NoArena

\* The handle of the arena's buffer, from the installation to the end of the capture.
Tensor ==
  HasTensor =>
    /\ storage[cap.arena] # NoBlock
    /\ driver[storage[cap.arena].ptr] = storage[cap.arena].size
    /\ arena # NoArena => arena.base = storage[cap.arena].ptr

\* As long as nothing went wrong, blocks of a window live in it, and in its arena.
Unfaulted ==
  faults = {} =>
    /\ \A h \in Handles : storage[h] # NoBlock /\ storage[h].graph =>
         /\ frozen /\ cap.pc # "unfreeze" /\ ~(HasTensor /\ h = cap.arena)
         /\ arena # NoArena => storage[h].ptr = arena.base
    /\ Now.pc \in {"record", "arenaFree"} /\ arena # NoArena =>
         Now.block.ptr = arena.base /\ Now.block.graph

\* Who keeps a Storage alive besides the program: the capture under way, and the
\* CapturedGraph or what is left of one that is being dropped.
CaptureHeld ==
  (IF cap.pc \in {"begin", "closure", "unfreeze", "wrap", "unwind"} THEN cap.io ELSE {})
  \cup (IF HasTensor \/ cap.pc = "install" THEN {cap.arena} ELSE {})
GraphHeld ==
  IF graph # NoGraph THEN graph.io \cup (IF graph.withArena THEN {graph.arena} ELSE {})
  ELSE IF cap.pc = "dropIO" THEN cap.io \cup (IF cap.withArena THEN {cap.arena} ELSE {})
  ELSE {}

References ==
  /\ \A h \in Handles : storage[h] # NoBlock \/ h = Now.handle =>
       /\ refs[h] # {}
       /\ "capture" \in refs[h] <=> h \in CaptureHeld
       /\ "graph" \in refs[h] <=> h \in GraphHeld
  /\ cap.pc \notin {"idle", "dropIO"} =>
       \A h \in cap.io : storage[h] # NoBlock /\ ~storage[h].graph /\ "user" \in refs[h]
  /\ \A h \in GraphHeld : h \in Handles /\ storage[h] # NoBlock
  /\ HasTensor \/ cap.pc = "install" => refs[cap.arena] = {"capture"}
  /\ cap.withArena /\ cap.pc = "dropIO" => refs[cap.arena] = {"graph"}
  /\ graph # NoGraph /\ graph.withArena =>
       refs[graph.arena] = {"graph"} /\ graph.arena \in Handles \ graph.io

\* What stands for a part of the arena: pieces lie apart, below the high-water mark,
\* and none is left when the window closes.
Piece(h) == storage[h] # NoBlock /\ ArenaAt(storage[h].ptr) /\ ~(HasTensor /\ h = cap.arena)
Apart(a, b) == a.off + a.size <= b.off \/ b.off + b.size <= a.off
InArena(b, ar) == b.graph /\ b.off + b.size <= ar.highWater

Pieces ==
  /\ \A h \in Handles : Piece(h) => InArena(storage[h], arena)
  /\ \A g, h \in Handles : Piece(g) /\ Piece(h) /\ g # h => Apart(storage[g], storage[h])
  /\ Now.pc = "record" /\ arena # NoArena /\ arena.base = Now.block.ptr =>
       InArena(Now.block, arena) /\ \A h \in Handles : Piece(h) => Apart(Now.block, storage[h])
  /\ cap.pc = "unfreeze" \/ Now.pc = "clearArena" => \A h \in Handles : ~Piece(h)

GraphFacts ==
  graph # NoGraph =>
    /\ DOMAIN graph.held = GraphHeld
    /\ \A h \in GraphHeld : storage[h] = graph.held[h]

\* The window's addresses, none of which is in the free list.
NotCached ==
  /\ captured \subseteq Ptrs \X Nat
  /\ \A p, off : <<p, off>> \in captured => \A n \in Sizes : p \notin ListOf(freeList[n])

\* Every buffer has its owner, and none is without one unless a fault has happened.
Buffers == \A leaks \in BOOLEAN : faults = {} \/ leaks => IInv(leaks)

GInv ==
  /\ Buffers /\ CapTypes /\ Control /\ CallControl /\ Tensor
  /\ Unfaulted /\ References /\ Pieces /\ GraphFacts /\ NotCached

(***************************************************************************)
(* What a step of the allocator does to the parts that capture is about    *)
(***************************************************************************)
Inner ==
  /\ UNCHANGED <<storage, arena, captured>>
  /\ Now.pc \notin {"idle", "clearArena", "takeCaptured"}
  /\ Now'.pc \in {"idle", "evict", "free", "driver", "drain", "drained"}
  /\ Now'.handle \in {Now.handle, NoHandle}
  /\ Now'.pc \in AllocatePcs =>
       /\ Now.pc \in AllocatePcs /\ Now'.graph = Now.graph
       /\ arena = NoArena \/ Now.pc \in {"pop", "driver", "drain", "drained"}

Carries ==
  /\ UNCHANGED <<storage, captured>>
  /\ Now.pc \in AllocatePcs /\ Now.graph
  /\ Now'.pc = "record" /\ Now'.handle = Now.handle /\ Now'.graph = Now.graph
  /\ \/ Now.pc \in {"driver", "drained"} /\ arena' = arena
     \/ /\ Now.pc = "arena" /\ arena \in Arenas /\ arena' \in Arenas
        /\ arena'.base = arena.base
        /\ \E n \in Sizes : /\ arena'.highWater = arena.highWater + Footprint(n)
                            /\ Now'.block = Block(arena.base, arena.highWater, n, TRUE)
        /\ arena'.size = arena.size /\ arena'.highWater <= arena.size

Stores ==
  /\ Now.pc \in {"pop", "driver", "drained", "record"}
  /\ Now.handle \in Handles /\ storage[Now.handle] = NoBlock /\ Now' = Idle /\ arena' = arena
  /\ \E b \in Blocks \ {NoBlock} :
       /\ storage' = [storage EXCEPT ![Now.handle] = b]
       /\ b.graph => Now.pc = "record"
       /\ Now.pc = "record" => b = Now.block
       /\ captured' = captured \cup (IF Now.pc = "record" THEN {<<b.ptr, b.off>>} ELSE {})

Forgets ==
  /\ Now.pc = "arenaFree" /\ Now' = Idle /\ UNCHANGED <<storage, captured>>
  /\ arena \in Arenas /\ arena' \in Arenas
  /\ arena'.base = arena.base /\ arena'.highWater = arena.highWater /\ arena'.size = arena.size

Clears ==
  /\ Now.pc = "clearArena" /\ Now'.pc = "takeCaptured" /\ Now'.handle = Now.handle
  /\ arena' = NoArena /\ UNCHANGED <<storage, captured>>

Empties ==
  /\ Now.pc = "takeCaptured" /\ Now' = Idle /\ captured' = {} /\ UNCHANGED <<storage, arena>>

LEMMA Continues ==
  ASSUME Types, CallShape, CallControl, Step(Capturer) \/ FrozenStep(Capturer)
  PROVE  /\ Inner \/ Carries \/ Stores \/ Forgets \/ Clears \/ Empties
         /\ frozen' = frozen /\ \A t \in Threads \ {Capturer} : call'[t] = Idle
<1>0. /\ Capturer \in Threads /\ Now \in Calls /\ Fits(Now, storage) /\ Now = call[Capturer]
      /\ \A t \in Threads \ {Capturer} : call[t] = Idle
  BY GraphAssumption DEF Types, CallShape, CallControl, Now
<1>1. ASSUME NEW c, call' = [call EXCEPT ![Capturer] = c]
      PROVE  Now' = c /\ \A t \in Threads \ {Capturer} : call'[t] = Idle
  BY <1>0, <1>1 DEF Types, Now
<1>2. ASSUME NEW pc, Goto(Capturer, pc)
      PROVE  /\ Now'.pc = pc /\ Now'.handle = Now.handle /\ Now'.graph = Now.graph
             /\ \A t \in Threads \ {Capturer} : call'[t] = Idle
  <2>1. call' = [call EXCEPT ![Capturer] = [Now EXCEPT !.pc = pc]]
    BY <1>0, <1>2 DEF Goto, Now, Types
  <2>2. Now' = [Now EXCEPT !.pc = pc] /\ \A t \in Threads \ {Capturer} : call'[t] = Idle
    BY <1>1, <2>1
  <2> QED
    BY <1>0, <2>2 DEF Calls
<1>3. ASSUME Return(Capturer)
      PROVE  Now' = Idle /\ \A t \in Threads \ {Capturer} : call'[t] = Idle
  BY <1>1, <1>3 DEF Return
<1>4. Idle.pc = "idle" /\ Idle.handle = NoHandle
  BY DEF Idle, Freeing, Frame
<1> DEFINE Steady == frozen' = frozen /\ \A t \in Threads \ {Capturer} : call'[t] = Idle
<1>5. ASSUME PopMiss(Capturer) \/ DriverFailure(Capturer) \/ Unlock(Capturer)
             \/ NoArenaInstalled(Capturer)
      PROVE  Inner /\ Steady
  <2>1. PICK pc \in {"driver", "drain", "free"} :
          /\ Goto(Capturer, pc) /\ UNCHANGED <<storage, arena, captured, frozen>>
          /\ \/ pc = "free" /\ Now.pc = "evict"
             \/ Now.pc = "arena" /\ arena = NoArena
             \/ Now.pc \in {"pop", "driver"}
    BY <1>5 DEF PopMiss, DriverFailure, Unlock, NoArenaInstalled, At, Now
  <2>2. /\ Now'.pc = pc /\ Now'.handle = Now.handle /\ Now'.graph = Now.graph
        /\ \A t \in Threads \ {Capturer} : call'[t] = Idle
    BY <1>2, <2>1
  <2> QED
    BY <2>1, <2>2 DEF Inner, AllocatePcs
<1>6. ASSUME OutOfMemory(Capturer) \/ Freed(Capturer) \/ ArenaFull(Capturer)
      PROVE  Inner /\ Steady
  <2>1. /\ Return(Capturer) /\ UNCHANGED <<storage, arena, captured, frozen>>
        /\ Now.pc \in {"drained", "free", "arena"}
    BY <1>6 DEF OutOfMemory, Freed, ArenaFull, At, Now
  <2> QED
    BY <1>3, <1>4, <2>1 DEF Inner, AllocatePcs
<1>7. ASSUME Evict(Capturer) \/ FreeOne(Capturer)
      PROVE  Inner /\ Steady
  <2>1. PICK F : call' = [call EXCEPT ![Capturer].toFree = F]
    BY <1>0, <1>7 DEF Evict, FreeOne, Types, Now
  <2>2. call' = [call EXCEPT ![Capturer] = [Now EXCEPT !.toFree = F]]
    BY <1>0, <2>1 DEF Types, Now
  <2>3. Now' = [Now EXCEPT !.toFree = F] /\ \A t \in Threads \ {Capturer} : call'[t] = Idle
    BY <1>1, <2>2
  <2>4. /\ Now'.pc = Now.pc /\ Now'.handle = Now.handle /\ Now'.graph = Now.graph
    BY <1>0, <2>3 DEF Calls
  <2>5. Now.pc \in {"evict", "free", "drained"} /\ UNCHANGED <<storage, arena, captured, frozen>>
    BY <1>7 DEF Evict, FreeOne, At, Now
  <2> QED
    BY <2>3, <2>4, <2>5 DEF Inner, AllocatePcs
<1>8. ASSUME Drain(Capturer)
      PROVE  Inner /\ Steady
  <2>1. /\ call' = [call EXCEPT ![Capturer] =
                      Frame("drained", Now.handle, Now.size, Now.graph, NoBlock, Cached)]
        /\ Now.pc = "drain" /\ UNCHANGED <<storage, arena, captured, frozen>>
    BY <1>0, <1>8 DEF Drain, At, Now, Types
  <2>2. /\ Now' = Frame("drained", Now.handle, Now.size, Now.graph, NoBlock, Cached)
        /\ \A t \in Threads \ {Capturer} : call'[t] = Idle
    BY <1>1, <2>1
  <2> QED
    BY <2>1, <2>2 DEF Inner, Frame, AllocatePcs
<1>9. ASSUME Push(Capturer) \/ DriverFree(Capturer)
      PROVE  Inner /\ Steady
  <2>1. PICK c :
          /\ c.pc \in {"evict", "free"} /\ c.handle = NoHandle
          /\ call' = [call EXCEPT ![Capturer] = c]
          /\ UNCHANGED <<storage, arena, captured, frozen>> /\ Now.pc \in {"push", "arenaFree"}
    <3>1. CASE Push(Capturer)
      <4>1. PICK F : call' = [call EXCEPT ![Capturer] = Freeing("evict", NoBlock, F)]
        BY <3>1 DEF Push
      <4>2. UNCHANGED <<storage, arena, captured, frozen>> /\ Now.pc = "push"
        BY <3>1 DEF Push, At, Now
      <4> QED
        BY <4>1, <4>2 DEF Freeing, Frame
    <3>2. CASE DriverFree(Capturer)
      <4>1. PICK F : call' = [call EXCEPT ![Capturer] = Freeing("free", NoBlock, F)]
        BY <1>0, <3>2 DEF DriverFree, Types, Now
      <4>2. UNCHANGED <<storage, arena, captured, frozen>> /\ Now.pc = "arenaFree"
        BY <3>2 DEF DriverFree, At, Now
      <4> QED
        BY <4>1, <4>2 DEF Freeing, Frame
    <3> QED
      BY <1>9, <3>1, <3>2
  <2>2. Now' = c /\ \A t \in Threads \ {Capturer} : call'[t] = Idle
    BY <1>1, <2>1
  <2> QED
    BY <2>1, <2>2 DEF Inner, AllocatePcs
<1>10. ASSUME PopHit(Capturer)
       PROVE  Stores /\ Steady
  <2>1. PICK n, p : n = Now.size /\ p = Head(freeList[n])
    OBVIOUS
  <2>2. /\ Now.pc = "pop" /\ freeList[n] # <<>> /\ Return(Capturer)
        /\ storage' = [storage EXCEPT ![Now.handle] = Block(p, 0, n, FALSE)]
        /\ UNCHANGED <<arena, captured, frozen>>
    BY <1>10, <2>1 DEF PopHit, At, Now
  <2>3. Now.handle \in Handles /\ storage[Now.handle] = NoBlock /\ n \in Sizes
    BY <1>0, <2>1, <2>2 DEF Fits, AllocatePcs
  <2>4. p \in Ptrs
    BY <2>1, <2>2, <2>3, HeadTailProperties DEF Types
  <2>5. Block(p, 0, n, FALSE) \in Blocks /\ ~Block(p, 0, n, FALSE).graph
    BY <2>3, <2>4 DEF Block, Blocks
  <2>6. Block(p, 0, n, FALSE) # NoBlock
    BY <2>5, ConstantsAssumption
  <2>7. captured' = captured \cup {}
    BY <2>2
  <2> QED
    BY <1>3, <2>2, <2>3, <2>5, <2>6, <2>7 DEF Stores
<1>11. ASSUME DriverAlloc(Capturer)
       PROVE  (Stores \/ Carries) /\ Steady
  <2>1. PICK n : n = Now.size
    OBVIOUS
  <2>2. Now.pc \in {"driver", "drained"} /\ UNCHANGED <<arena, captured, frozen>>
    BY <1>11 DEF DriverAlloc, At, Now
  <2>3. Now.handle \in Handles /\ storage[Now.handle] = NoBlock /\ n \in Sizes
    BY <1>0, <2>1, <2>2 DEF Fits, AllocatePcs
  <2>4. PICK p \in Ptrs :
          IF Now.graph
          THEN /\ call' = [call EXCEPT ![Capturer].pc = "record",
                                       ![Capturer].block = Block(p, 0, n, TRUE)]
               /\ storage' = storage
          ELSE /\ storage' = [storage EXCEPT ![Now.handle] = Block(p, 0, n, FALSE)]
               /\ Return(Capturer)
    BY <1>11, <2>1 DEF DriverAlloc, Now
  <2>5. CASE Now.graph
    <3> DEFINE c == [Now EXCEPT !.pc = "record", !.block = Block(p, 0, n, TRUE)]
    <3>1. call' = [call EXCEPT ![Capturer] = c]
      BY <1>0, <2>4, <2>5 DEF Types, Now
    <3>2. Now' = c /\ \A t \in Threads \ {Capturer} : call'[t] = Idle
      BY <1>1, <3>1
    <3>3. c.pc = "record" /\ c.handle = Now.handle /\ c.graph = Now.graph
      BY <1>0 DEF Calls
    <3> QED
      BY <2>2, <2>4, <2>5, <3>2, <3>3 DEF Carries, AllocatePcs
  <2>6. CASE ~Now.graph
    <3>1. Block(p, 0, n, FALSE) \in Blocks /\ ~Block(p, 0, n, FALSE).graph
      BY <2>3, <2>4 DEF Block, Blocks
    <3>2. Block(p, 0, n, FALSE) # NoBlock /\ captured' = captured \cup {}
      BY <2>2, <3>1, ConstantsAssumption
    <3> QED
      BY <1>3, <2>2, <2>3, <2>4, <2>6, <3>1, <3>2 DEF Stores
  <2> QED
    BY <2>5, <2>6
<1>12. ASSUME Record(Capturer)
       PROVE  Stores /\ Steady
  <2>1. /\ Now.pc = "record" /\ Return(Capturer)
        /\ storage' = [storage EXCEPT ![Now.handle] = Now.block]
        /\ captured' = captured \cup {<<Now.block.ptr, Now.block.off>>}
        /\ UNCHANGED <<arena, frozen>>
    BY <1>12 DEF Record, At, Now
  <2>2. /\ Now.handle \in Handles /\ storage[Now.handle] = NoBlock
        /\ Now.block \in Blocks \ {NoBlock}
    BY <1>0, <2>1 DEF Fits, AllocatePcs, Carrying, Calls
  <2> QED
    BY <1>3, <2>1, <2>2 DEF Stores
<1>13. ASSUME FromArena(Capturer)
       PROVE  Carries /\ Steady
  <2>1. PICK n, b : n = Now.size /\ b = Block(arena.base, arena.highWater, n, TRUE)
    OBVIOUS
  <2> DEFINE c == [Now EXCEPT !.pc = "record", !.block = b]
  <2>2. /\ Now.pc = "arena" /\ arena # NoArena /\ arena' = ArenaAllocate(arena, n)
        /\ arena.highWater + Footprint(n) <= arena.size
        /\ call' = [call EXCEPT ![Capturer] = c] /\ UNCHANGED <<storage, captured, frozen>>
    BY <1>0, <1>13, <2>1 DEF FromArena, ArenaFits, At, Types, Now
  <2>3. Now' = c /\ \A t \in Threads \ {Capturer} : call'[t] = Idle
    BY <1>1, <2>2
  <2>4. c.pc = "record" /\ c.handle = Now.handle /\ c.graph = Now.graph /\ c.block = b
    BY <1>0 DEF Calls
  <2> HIDE DEF c
  <2>5. n \in Sizes /\ n \in Nat /\ arena \in Arenas /\ Now.graph
    BY <1>0, <2>1, <2>2, ConstantsAssumption DEF Fits, AllocatePcs, Types, CallControl
  <2>6. /\ arena' \in Arenas /\ arena'.base = arena.base
        /\ arena'.highWater = arena.highWater + Footprint(n) /\ arena'.size = arena.size
    BY <2>2, <2>5, ArenaSteps
  <2> QED
    BY <2>1, <2>2, <2>3, <2>4, <2>5, <2>6 DEF Carries, AllocatePcs
<1>14. ASSUME ArenaFree(Capturer)
       PROVE  Forgets /\ Steady
  <2>1. /\ Now.pc = "arenaFree" /\ arena # NoArena /\ Return(Capturer)
        /\ arena' = arena \/ \E off : arena' = ArenaDeallocate(arena, off)
        /\ UNCHANGED <<storage, captured, frozen>>
    BY <1>14 DEF ArenaFree, At, Now
  <2>2. arena \in Arenas
    BY <2>1 DEF Types
  <2>3. /\ arena' \in Arenas /\ arena'.base = arena.base /\ arena'.highWater = arena.highWater
        /\ arena'.size = arena.size
    BY <2>1, <2>2, ArenaSteps
  <2> QED
    BY <1>3, <2>1, <2>2, <2>3 DEF Forgets
<1>15. ASSUME ClearArena(Capturer)
       PROVE  Clears /\ Steady
  <2>1. /\ Now.pc = "clearArena" /\ arena' = NoArena /\ Goto(Capturer, "takeCaptured")
        /\ UNCHANGED <<storage, captured, frozen>>
    BY <1>15 DEF ClearArena, At, Now
  <2> QED
    BY <1>2, <2>1 DEF Clears
<1>16. ASSUME TakeCaptured(Capturer)
       PROVE  Empties /\ Steady
  <2>1. /\ Now.pc = "takeCaptured" /\ captured' = {} /\ Return(Capturer)
        /\ UNCHANGED <<storage, arena, frozen>>
    BY <1>16 DEF TakeCaptured, At, Now
  <2> QED
    BY <1>3, <2>1 DEF Empties
<1> HIDE DEF Steady
<1>17. (Inner \/ Carries \/ Stores \/ Forgets \/ Clears \/ Empties) /\ Steady
  BY <1>5, <1>6, <1>7, <1>8, <1>9, <1>10, <1>11, <1>12, <1>13, <1>14, <1>15, <1>16, Zenon
  DEF Step, AllocateStep, DeallocateStep, FrozenStep
<1> QED
  BY <1>17 DEF Steady

\* A call never frees or hands out again what a handle stands for, and only a push
\* puts an address into the free list.
LEMMA AllocatorFrames ==
  ASSUME NEW leaks \in BOOLEAN, Types, CallShape, Owned(leaks),
         NEW t \in Threads, Step(t) \/ FrozenStep(t)
  PROVE  /\ \A h \in Handles : storage[h] # NoBlock =>
                                 driver'[storage[h].ptr] = driver[storage[h].ptr]
         /\ call[t].pc = "push"
            \/ \A n \in Sizes : ListOf(freeList'[n]) \subseteq ListOf(freeList[n])
<1>1. ASSUME NEW h \in Handles, storage[h] # NoBlock
      PROVE  driver'[storage[h].ptr] = driver[storage[h].ptr]
  <2>1. PICK p : p = storage[h].ptr
    OBVIOUS
  <2>2. p \in Ptrs /\ Has("handle", h, p) /\ driver[p] # 0
    BY <1>1, <2>1, HeldAddresses DEF Has, Holds, Owned
  <2>3. ASSUME FreeOne(t) PROVE driver'[p] = driver[p]
    <3>1. PICK q \in call[t].toFree : driver' = [driver EXCEPT ![q] = 0]
      BY <2>3 DEF FreeOne
    <3>2. Has("freer", t, q) /\ q \in Ptrs
      BY <3>1, HeldAddresses DEF Has
    <3>3. ~Holds(storage[h], q)
      BY <3>2, SoleOwner
    <3> QED
      BY <1>1, <2>1, <3>1, <3>3 DEF Holds, Types
  <2>4. ASSUME DriverAlloc(t) PROVE driver'[p] = driver[p]
    <3>1. PICK q, n : q \in Ptrs /\ driver[q] = 0 /\ driver' = [driver EXCEPT ![q] = n]
      BY <2>4 DEF DriverAlloc
    <3> QED
      BY <2>2, <3>1 DEF Types
  <2>5. FreeOne(t) \/ DriverAlloc(t) \/ driver' = driver
    BY Zenon DEF Step, AllocateStep, DeallocateStep, FrozenStep, PopHit, PopMiss, DriverFailure,
       Drain, OutOfMemory, Push, Evict, Unlock, Freed, FromArena, ArenaFull, NoArenaInstalled,
       Record, ArenaFree, DriverFree, ClearArena, TakeCaptured
  <2> QED
    BY <2>1, <2>3, <2>4, <2>5
<1>2. ASSUME call[t].pc # "push", NEW m \in Sizes
      PROVE  ListOf(freeList'[m]) \subseteq ListOf(freeList[m])
  <2>1. ASSUME NEW n \in Sizes, freeList[n] # <<>>, freeList' = [freeList EXCEPT ![n] = Tail(@)]
        PROVE  ListOf(freeList'[m]) \subseteq ListOf(freeList[m])
    <3>1. freeList[n] \in Seq(Ptrs) /\ NoRepeats(freeList[n])
      BY DEF Types, Owned
    <3>2. ListOf(Tail(freeList[n])) \subseteq ListOf(freeList[n])
      BY <2>1, <3>1, TailLists
    <3>3. freeList'[m] = IF m = n THEN Tail(freeList[n]) ELSE freeList[m]
      BY <2>1 DEF Types
    <3> QED
      BY <3>2, <3>3
  <2>2. ASSUME freeList' = [n \in Sizes |-> <<>>]
        PROVE  ListOf(freeList'[m]) \subseteq ListOf(freeList[m])
    <3>1. freeList'[m] = <<>>
      BY <2>2
    <3> QED
      BY <3>1 DEF ListOf
  <2>3. ASSUME PopHit(t)
        PROVE  ListOf(freeList'[m]) \subseteq ListOf(freeList[m])
    <3>1. call[t].pc = "pop" /\ call[t].size \in Sizes
      BY <2>3 DEF PopHit, At, CallShape, Fits, AllocatePcs
    <3> QED
      BY <2>1, <2>3, <3>1 DEF PopHit
  <2>4. ASSUME Evict(t)
        PROVE  ListOf(freeList'[m]) \subseteq ListOf(freeList[m])
    BY <2>1, <2>4 DEF Evict, NonEmpty
  <2>5. PopHit(t) \/ Evict(t) \/ freeList' = freeList \/ freeList' = [n \in Sizes |-> <<>>]
    BY <1>2, Zenon DEF Step, AllocateStep, DeallocateStep, FrozenStep, PopMiss, DriverAlloc,
       DriverFailure, Drain, OutOfMemory, Push, At, Unlock, FreeOne, Freed, FromArena, ArenaFull,
       NoArenaInstalled, Record, ArenaFree, DriverFree, ClearArena, TakeCaptured
  <2> QED
    BY <2>2, <2>3, <2>4, <2>5
<1> QED
  BY <1>1, <1>2

\* What the parts of the invariant say together about the one thread's call.
LEMMA NowFacts ==
  ASSUME GInv
  PROVE  /\ IInv(TRUE) /\ Types /\ CallShape /\ Owned(TRUE) /\ RealSizes
         /\ Capturer \in Threads /\ Now \in Calls /\ Fits(Now, storage) /\ frozen \in BOOLEAN
         /\ \A t \in Threads \ {Capturer} : call[t] = Idle /\ call[t].block = NoBlock
                                              /\ call[t].handle = NoHandle
         /\ Now.pc \notin {"idle", "clearArena"} /\ ~frozen => arena = NoArena
<1>1. IInv(TRUE)
  BY DEF GInv, Buffers
<1>2. Now.pc \notin {"idle", "clearArena"} /\ ~frozen => arena = NoArena
  BY DEF GInv, Control
<1> QED
  BY <1>1, <1>2, IdleFits, GraphAssumption DEF GInv, IInv, Types, CallShape, CallControl, Now

LEMMA ContinueBuffers ==
  ASSUME GInv, Continue
  PROVE  Buffers'
<1> SUFFICES ASSUME NEW leaks \in BOOLEAN, faults = {} \/ leaks
             PROVE  IInv(leaks)'
  BY DEF Buffers, Continue
<1>1. IInv(leaks) /\ Capturer \in Threads /\ Now = call[Capturer]
  BY GraphAssumption DEF GInv, Buffers, Now
<1>2. CASE Step(Capturer)
  <2>1. call[Capturer].pc = "push" => ~ArenaAt(call[Capturer].block.ptr)
    BY <1>1, NowFacts DEF GInv, CallControl, ArenaAt
  <2> QED
    BY <1>1, <1>2, <2>1, StepIInv
<1>3. CASE ArenaFree(Capturer)
  <2>1. ASSUME faults = {}
        PROVE  Now.block.ptr = arena.base /\ \E h \in Handles : Holds(storage[h], arena.base)
    <3>1. arena # NoArena /\ Now.pc = "arenaFree"
      BY <1>1, <1>3 DEF ArenaFree, At
    <3>2. HasTensor /\ cap.arena \in Handles
      BY <2>1, <3>1 DEF GInv, Control, HasTensor
    <3> QED
      BY <2>1, <3>1, <3>2 DEF GInv, Unfaulted, Tensor, Holds
  <2> QED
    BY <1>1, <1>3, <2>1, ArenaFreeStep
<1>4. CASE ClearArena(Capturer)
  <2>1. Now.pc = "clearArena" /\ Now.block = NoBlock
    BY <1>1, <1>4, NowFacts DEF ClearArena, At, Fits, Carrying
  <2>2. ASSUME NEW q, ArenaAt(q)
        PROVE  /\ \A u \in Threads : ~Holds(call[u].block, q)
               /\ \A g \in Handles : Holds(storage[g], q) =>
                                       g = cap.arena /\ driver[q] = storage[g].size
               /\ leaks \/ \E g \in Handles : Holds(storage[g], q)
    <3>1. \A u \in Threads : ~Holds(call[u].block, q)
      BY <1>1, <2>1, NowFacts DEF Holds
    <3>2. ASSUME NEW g \in Handles, Holds(storage[g], q)
          PROVE  g = cap.arena /\ driver[q] = storage[g].size
      BY <2>1, <2>2, <3>2 DEF GInv, Pieces, Piece, Holds, Tensor
    <3>3. ASSUME ~leaks
          PROVE  \E g \in Handles : Holds(storage[g], q)
      <4>1. HasTensor /\ cap.arena \in Handles
        BY <2>2, <3>3 DEF GInv, Control, HasTensor, ArenaAt
      <4> QED
        BY <2>2, <4>1 DEF GInv, Tensor, Holds, ArenaAt
    <3> QED
      BY <3>1, <3>2, <3>3
  <2> QED
    BY <1>1, <1>4, <2>2, ClearArenaStep
<1> QED
  BY <1>1, <1>2, <1>3, <1>4, QuietSteps, FromArenaStep, RecordStep, DriverFreeStep
  DEF Continue, FrozenStep

LEMMA ContinueControl ==
  ASSUME GInv, Continue
  PROVE  CapTypes' /\ Control' /\ CallControl'
<1>1. /\ Inner \/ Carries \/ Stores \/ Forgets \/ Clears \/ Empties
      /\ frozen' = frozen /\ \A t \in Threads \ {Capturer} : call'[t] = Idle
      /\ UNCHANGED <<refs, cap, graph, recording, faults>>
  BY NowFacts, Continues DEF Continue, GInv
<1>2. CapTypes /\ Control /\ CallControl /\ (HasTensor' <=> HasTensor)
  BY <1>1 DEF GInv, HasTensor
<1>3. CapTypes'
  BY <1>1, <1>2 DEF CapTypes
<1>4. Idle.pc = "idle"
  BY DEF Idle, Freeing, Frame
<1>5. CASE Inner
  <2>1. Now'.pc \in {"driver", "drain", "drained"} => arena' = NoArena
    BY <1>2, <1>5, NowFacts DEF Inner, CallControl, AllocatePcs
  <2>2. CallControl'
    BY <1>1, <1>2, <1>5, <2>1 DEF Inner, CallControl, AllocatePcs
  <2>3. Control'
    BY <1>1, <1>2, <1>5 DEF Inner, Control
  <2> QED
    BY <1>3, <2>2, <2>3
<1>6. CASE Carries
  <2>1. frozen /\ arena' # NoArena => arena # NoArena
    BY <1>2, <1>6, ConstantsAssumption DEF Carries, CallControl
  <2>2. CallControl'
    BY <1>1, <1>2, <1>6, <2>1 DEF Carries, CallControl, AllocatePcs
  <2>3. Control'
    BY <1>1, <1>2, <1>6, <2>1, ConstantsAssumption DEF Carries, CallControl, Control, AllocatePcs
  <2> QED
    BY <1>3, <2>2, <2>3
<1>7. CASE Stores
  <2>1. captured' # captured => frozen
    BY <1>2, <1>7 DEF Stores, CallControl
  <2>2. CallControl'
    BY <1>1, <1>4, <1>7 DEF Stores, CallControl, AllocatePcs
  <2>3. Control'
    BY <1>1, <1>2, <1>4, <1>7, <2>1 DEF Stores, Control
  <2> QED
    BY <1>3, <2>2, <2>3
<1>8. CASE Forgets
  <2>1. frozen /\ arena # NoArena
    BY <1>2, <1>8, ConstantsAssumption DEF Forgets, CallControl
  <2>2. CallControl'
    BY <1>1, <1>4, <1>8 DEF Forgets, CallControl, AllocatePcs
  <2>3. Control'
    BY <1>1, <1>2, <1>4, <1>8, <2>1 DEF Forgets, Control
  <2> QED
    BY <1>3, <2>2, <2>3
<1>9. CASE Clears
  <2>1. CallControl'
    BY <1>1, <1>2, <1>9 DEF Clears, CallControl, AllocatePcs
  <2>2. Control'
    BY <1>1, <1>2, <1>9 DEF Clears, Control
  <2> QED
    BY <1>3, <2>1, <2>2
<1>10. CASE Empties
  <2>1. CallControl'
    BY <1>1, <1>2, <1>4, <1>10 DEF Empties, CallControl, AllocatePcs
  <2>2. Control'
    BY <1>1, <1>2, <1>4, <1>10 DEF Empties, Control, CallControl
  <2> QED
    BY <1>3, <2>1, <2>2
<1> QED
  BY <1>1, <1>5, <1>6, <1>7, <1>8, <1>9, <1>10

\* What stood for a block before the step still stands for it.
LEMMA ContinueStorage ==
  ASSUME GInv, Continue
  PROVE  /\ \A h \in Handles : storage[h] # NoBlock => storage'[h] = storage[h]
         /\ \A h \in Handles : storage'[h] # NoBlock /\ storage[h] = NoBlock =>
              /\ h = Now.handle /\ Now' = Idle /\ arena' = arena
              /\ storage'[h] \in Blocks
              /\ storage'[h].graph => Now.pc = "record"
              /\ Now.pc = "record" => storage'[h] = Now.block
              /\ Now.pc # "record" => ~ArenaAt(storage'[h].ptr)
         /\ Now'.handle \in {Now.handle, NoHandle}
<1>1. /\ Inner \/ Carries \/ Stores \/ Forgets \/ Clears \/ Empties
      /\ frozen' = frozen /\ Types /\ Now \in Calls /\ CallControl
  BY NowFacts, Continues DEF Continue, GInv
<1>2. CASE Stores
  <2>1. PICK b \in Blocks \ {NoBlock} :
          /\ storage' = [storage EXCEPT ![Now.handle] = b] /\ (b.graph => Now.pc = "record")
          /\ Now.pc = "record" => b = Now.block
    BY <1>2 DEF Stores
  <2>2. /\ Now.pc \in {"pop", "driver", "drained", "record"} /\ Now.handle \in Handles
        /\ storage[Now.handle] = NoBlock /\ Now' = Idle /\ arena' = arena
    BY <1>2 DEF Stores
  <2>3. Now.pc # "record" => arena = NoArena
    BY <1>1, <2>2, NowFacts DEF CallControl
  <2>4. /\ storage'[Now.handle] = b
        /\ \A h \in Handles \ {Now.handle} : storage'[h] = storage[h]
    BY <1>1, <2>1, <2>2 DEF Types
  <2> QED
    BY <2>1, <2>2, <2>3, <2>4, IdleFits DEF ArenaAt
<1>3. CASE ~Stores
  BY <1>1, <1>3, IdleFits DEF Inner, Carries, Forgets, Clears, Empties
<1> QED
  BY <1>2, <1>3

LEMMA ContinueRest ==
  ASSUME GInv, Continue
  PROVE  Tensor' /\ References' /\ GraphFacts' /\ NotCached'
<1>1. /\ Types /\ CallShape /\ Owned(TRUE) /\ Capturer \in Threads /\ Now = call[Capturer]
      /\ UNCHANGED <<refs, cap, graph, recording, faults>> /\ frozen' = frozen
      /\ Inner \/ Carries \/ Stores \/ Forgets \/ Clears \/ Empties
  BY NowFacts, Continues DEF Continue, GInv, Now
<1>2. /\ \A h \in Handles : storage[h] # NoBlock => storage'[h] = storage[h]
      /\ \A h \in Handles : storage'[h] # NoBlock /\ storage[h] = NoBlock => h = Now.handle
      /\ Now'.handle \in {Now.handle, NoHandle} /\ NoHandle \notin Handles
  BY ContinueStorage, ConstantsAssumption
<1>3. /\ HasTensor' = HasTensor /\ CaptureHeld' = CaptureHeld /\ GraphHeld' = GraphHeld
  BY <1>1 DEF HasTensor, CaptureHeld, GraphHeld
<1>4. Tensor'
  <2> SUFFICES ASSUME HasTensor
               PROVE  /\ storage'[cap.arena] # NoBlock
                      /\ driver'[storage'[cap.arena].ptr] = storage'[cap.arena].size
                      /\ arena' # NoArena => arena'.base = storage'[cap.arena].ptr
    BY <1>1, <1>3 DEF Tensor
  <2>1. /\ cap.arena \in Handles /\ storage[cap.arena] # NoBlock
        /\ driver[storage[cap.arena].ptr] = storage[cap.arena].size
        /\ arena # NoArena => arena.base = storage[cap.arena].ptr
    BY DEF GInv, Control, Tensor, HasTensor
  <2>2. storage'[cap.arena] = storage[cap.arena]
    BY <1>2, <2>1
  <2>3. driver'[storage[cap.arena].ptr] = driver[storage[cap.arena].ptr]
    <3>1. Step(Capturer) \/ FrozenStep(Capturer)
      BY DEF Continue
    <3>2. PICK leaks \in BOOLEAN : Owned(leaks)
      BY <1>1
    <3> QED
      BY <1>1, <2>1, <3>1, <3>2, AllocatorFrames
  <2>4. arena' # NoArena => arena # NoArena /\ arena'.base = arena.base
    BY <1>1, ConstantsAssumption DEF Inner, Carries, Stores, Forgets, Clears, Empties, GInv, CallControl
  <2> QED
    BY <2>1, <2>2, <2>3, <2>4
<1>5. References'
  <2>1. \A h \in Handles : storage'[h] # NoBlock \/ h = Now'.handle =>
                             storage[h] # NoBlock \/ h = Now.handle
    BY <1>2
  <2>2. \A h \in GraphHeld \cup (IF cap.pc \notin {"idle", "dropIO"} THEN cap.io ELSE {}) :
          h \in Handles /\ storage'[h] = storage[h]
    BY <1>2 DEF GInv, References, CapTypes, Captures
  <2> QED
    BY <1>1, <1>3, <2>1, <2>2 DEF GInv, References
<1>6. GraphFacts'
  BY <1>1, <1>2, <1>3 DEF GInv, GraphFacts, References
<1>0. captured' \subseteq Ptrs \X Nat
  <2>1. captured \subseteq Ptrs \X Nat
    BY DEF GInv, NotCached
  <2>2. \A b \in Blocks : <<b.ptr, b.off>> \in Ptrs \X Nat
    BY DEF Blocks
  <2> QED
    BY <1>1, <2>1, <2>2 DEF Inner, Carries, Stores, Forgets, Clears, Empties
<1>7. NotCached'
  <2> SUFFICES ASSUME NEW p, NEW off, <<p, off>> \in captured', NEW n \in Sizes
               PROVE  p \notin ListOf(freeList'[n])
    BY <1>0 DEF NotCached
  <2>1. Now.pc # "push"
    <3>1. captured = {} => Now.pc = "record"
      BY <1>1 DEF Inner, Carries, Stores, Forgets, Clears, Empties
    <3> QED
      BY <3>1 DEF GInv, Control, CallControl
  <2>2. ListOf(freeList'[n]) \subseteq ListOf(freeList[n])
    <3>1. Step(Capturer) \/ FrozenStep(Capturer)
      BY DEF Continue
    <3>2. PICK leaks \in BOOLEAN : Owned(leaks)
      BY <1>1
    <3> QED
      BY <1>1, <2>1, <3>1, <3>2, AllocatorFrames
  <2>3. CASE <<p, off>> \in captured
    BY <2>2, <2>3 DEF GInv, NotCached
  <2>4. CASE <<p, off>> \notin captured
    <3>1. Now.pc = "record" /\ p = Now.block.ptr
      <4>1. Stores
        BY <1>1, <2>4 DEF Inner, Carries, Forgets, Clears, Empties
      <4>2. PICK b \in Blocks :
              /\ Now.pc = "record" => b = Now.block
              /\ captured' = captured \cup (IF Now.pc = "record" THEN {<<b.ptr, b.off>>} ELSE {})
        BY <4>1 DEF Stores
      <4>3. Now.pc = "record" /\ <<p, off>> = <<b.ptr, b.off>>
        BY <2>4, <4>2
      <4> QED
        BY <4>2, <4>3
    <3>2. Now.block # NoBlock
      BY <3>1, NowFacts DEF Fits, Carrying
    <3>3. p \in Ptrs /\ Has("carrier", Capturer, p)
      BY <1>1, <3>1, <3>2, HeldAddresses DEF Has, Holds
    <3>4. p \notin ListOf(freeList[n])
      <4>1. CASE ArenaAt(p)
        BY <1>1, <3>3, <4>1 DEF Owned, Has
      <4>2. CASE ~ArenaAt(p)
        <5>1. PICK leaks \in BOOLEAN : Owned(leaks)
          BY <1>1
        <5> QED
          BY <3>3, <4>2, <5>1, SoleOwner
      <4> QED
        BY <4>1, <4>2
    <3> QED
      BY <2>2, <3>4
  <2> QED
    BY <2>3, <2>4
<1> QED
  BY <1>4, <1>5, <1>6, <1>7

\* A step keeps the arena where it is, or removes it, and cuts from it upwards.
LEMMA ContinueArena ==
  ASSUME GInv, Continue, arena' # NoArena
  PROVE  /\ arena # NoArena /\ arena \in Arenas /\ arena'.base = arena.base
         /\ arena.highWater \in Nat /\ arena'.highWater \in Nat
         /\ arena.highWater <= arena'.highWater
<1>1. /\ Types
      /\ Inner \/ Carries \/ Stores \/ Forgets \/ Clears \/ Empties
  BY NowFacts, Continues DEF Continue, GInv
<1>2. arena' \in {arena} \cup Arenas /\ arena # NoArena /\ arena'.base = arena.base
  BY <1>1, ConstantsAssumption DEF Inner, Carries, Stores, Forgets, Clears, Empties, GInv, CallControl
<1>3. arena \in Arenas
  BY <1>1, <1>2 DEF Types
<1>4. \/ arena'.highWater = arena.highWater
      \/ \E n \in Sizes : arena'.highWater = arena.highWater + Footprint(n)
  BY <1>1 DEF Inner, Carries, Stores, Forgets, Clears, Empties
<1>5. arena.highWater \in Nat /\ \A n \in Sizes : Footprint(n) \in Nat
  BY <1>3, FootprintCovers, ConstantsAssumption DEF Arenas
<1> QED
  BY <1>2, <1>3, <1>4, <1>5

LEMMA BlockNumbers ==
  ASSUME NEW b \in Blocks
  PROVE  b.off \in Nat /\ b.size \in Nat /\ b.ptr \in Ptrs /\ b.graph \in BOOLEAN
BY ConstantsAssumption DEF Blocks

LEMMA ContinueWindow ==
  ASSUME GInv, Continue
  PROVE  Unfaulted' /\ Pieces'
<1>1. /\ Types /\ UNCHANGED <<refs, cap, graph, recording, faults>> /\ frozen' = frozen
      /\ Inner \/ Carries \/ Stores \/ Forgets \/ Clears \/ Empties
      /\ HasTensor' = HasTensor
  BY NowFacts, Continues DEF Continue, GInv, HasTensor
<1>2. /\ CapTypes /\ Control /\ CallControl /\ Tensor /\ Unfaulted /\ Pieces
  BY DEF GInv
<1>3. /\ cap.pc # "unfreeze" /\ Now'.pc # "clearArena" /\ Now'.pc # "arenaFree"
      /\ Now'.pc = "record" => Carries
  <2>1. Idle.pc = "idle"
    BY DEF Idle, Freeing, Frame
  <2>2. Now.pc # "idle"
    BY <1>1 DEF Inner, Carries, Stores, Forgets, Clears, Empties, AllocatePcs
  <2>3. Now'.pc \in {"idle", "evict", "free", "driver", "drain", "drained", "takeCaptured"} \/ Carries
    BY <1>1, <2>1 DEF Inner, Stores, Forgets, Clears, Empties
  <2>4. Carries => Now'.pc = "record"
    BY DEF Carries
  <2> QED
    BY <1>2, <2>2, <2>3, <2>4 DEF Control
<1>4. ASSUME Now'.pc = "record", arena' # NoArena
      PROVE  /\ arena # NoArena /\ arena \in Arenas /\ arena'.base = arena.base
             /\ \E n \in Sizes : /\ arena'.highWater = arena.highWater + Footprint(n)
                                 /\ Now'.block = Block(arena.base, arena.highWater, n, TRUE)
  BY <1>2, <1>3, <1>4, ConstantsAssumption DEF Carries, CallControl
<1>5. ASSUME NEW h \in Handles, storage'[h] # NoBlock
      PROVE  /\ storage'[h] \in Blocks
             /\ \/ storage[h] # NoBlock /\ storage'[h] = storage[h]
                \/ /\ storage[h] = NoBlock /\ arena' = arena /\ Now.pc = "record"
                   /\ storage'[h] = Now.block
                \/ /\ storage[h] = NoBlock /\ arena' = arena /\ ~storage'[h].graph
                   /\ ~ArenaAt(storage'[h].ptr)
  BY <1>1, <1>5, ContinueStorage, HeldAddresses
<1>6. Unfaulted'
  <2> SUFFICES ASSUME faults = {}
               PROVE  /\ \A h \in Handles : storage'[h] # NoBlock /\ storage'[h].graph =>
                           /\ frozen /\ cap.pc # "unfreeze" /\ ~(HasTensor /\ h = cap.arena)
                           /\ arena' # NoArena => storage'[h].ptr = arena'.base
                      /\ Now'.pc \in {"record", "arenaFree"} /\ arena' # NoArena =>
                           Now'.block.ptr = arena'.base /\ Now'.block.graph
    BY <1>1 DEF Unfaulted
  <2>1. ASSUME NEW h \in Handles, storage'[h] # NoBlock, storage'[h].graph
        PROVE  /\ frozen /\ ~(HasTensor /\ h = cap.arena)
               /\ arena' # NoArena => storage'[h].ptr = arena'.base
    <3>1. arena' # NoArena => arena # NoArena /\ arena'.base = arena.base
      BY ContinueArena
    <3>2. CASE storage[h] # NoBlock /\ storage'[h] = storage[h]
      BY <1>2, <2>1, <3>1, <3>2 DEF Unfaulted
    <3>3. CASE /\ storage[h] = NoBlock /\ Now.pc = "record" /\ storage'[h] = Now.block
      BY <1>2, <3>1, <3>3 DEF Unfaulted, CallControl, Tensor
    <3> QED
      BY <1>5, <2>1, <3>2, <3>3
  <2>2. ASSUME Now'.pc = "record", arena' # NoArena
        PROVE  Now'.block.ptr = arena'.base /\ Now'.block.graph
    <3>1. PICK n \in Sizes : Now'.block = Block(arena.base, arena.highWater, n, TRUE)
      BY <1>4, <2>2
    <3>2. arena'.base = arena.base
      BY <1>4, <2>2
    <3> QED
      BY <3>1, <3>2 DEF Block
  <2> QED
    BY <1>3, <2>1, <2>2
<1>7. ASSUME NEW h \in Handles, Piece(h)'
      PROVE  /\ storage'[h] \in Blocks /\ arena' # NoArena
             /\ \/ Piece(h) /\ storage'[h] = storage[h]
                \/ /\ storage[h] = NoBlock /\ arena' = arena /\ Now.pc = "record"
                   /\ storage'[h] = Now.block /\ arena.base = Now.block.ptr
  <2>1. /\ storage'[h] # NoBlock /\ arena' # NoArena /\ arena'.base = storage'[h].ptr
        /\ ~(HasTensor /\ h = cap.arena)
    BY <1>1, <1>7 DEF Piece, ArenaAt
  <2>2. arena # NoArena /\ arena'.base = arena.base
    BY <2>1, ContinueArena
  <2> QED
    BY <1>5, <2>1, <2>2 DEF Piece, ArenaAt
<1>8. Pieces'
  <2>1. ASSUME NEW h \in Handles, Piece(h)'
        PROVE  InArena(storage'[h], arena')
    <3>1. InArena(storage'[h], arena) /\ storage'[h] \in Blocks /\ arena' # NoArena
      BY <1>2, <1>7, <2>1 DEF Pieces
    <3> QED
      BY <3>1, ContinueArena, BlockNumbers DEF InArena
  <2>2. ASSUME NEW g \in Handles, NEW h \in Handles, Piece(g)', Piece(h)', g # h
        PROVE  Apart(storage'[g], storage'[h])
    <3>1. (Piece(g) /\ storage'[g] = storage[g]) \/ g = Now.handle
      BY <1>7, <2>2, ContinueStorage DEF Piece
    <3>2. (Piece(h) /\ storage'[h] = storage[h]) \/ h = Now.handle
      BY <1>7, <2>2, ContinueStorage DEF Piece
    <3>3. CASE /\ Piece(g) /\ storage'[g] = storage[g] /\ Piece(h) /\ storage'[h] = storage[h]
      BY <1>2, <2>2, <3>3 DEF Pieces, Apart
    <3>4. CASE ~(Piece(g) /\ storage'[g] = storage[g])
      BY <1>2, <1>7, <2>2, <3>1, <3>2, <3>4 DEF Pieces, Apart
    <3>5. CASE ~(Piece(h) /\ storage'[h] = storage[h])
      BY <1>2, <1>7, <2>2, <3>1, <3>2, <3>5 DEF Pieces, Apart
    <3> QED
      BY <3>3, <3>4, <3>5
  <2>3. ASSUME Now'.pc = "record", arena' # NoArena, arena'.base = Now'.block.ptr
        PROVE  /\ InArena(Now'.block, arena')
               /\ \A h \in Handles : Piece(h)' => Apart(Now'.block, storage'[h])
    <3>2. PICK n \in Sizes : /\ arena'.highWater = arena.highWater + Footprint(n)
                             /\ Now'.block = Block(arena.base, arena.highWater, n, TRUE)
      BY <1>4, <2>3
    <3>3. /\ arena.highWater \in Nat /\ n \in Nat /\ Footprint(n) \in Nat /\ n <= Footprint(n)
      BY <2>3, ContinueArena, FootprintCovers, ConstantsAssumption
    <3>4. /\ Now'.block.off = arena.highWater /\ Now'.block.size = n /\ Now'.block.graph
      BY <3>2 DEF Block
    <3>5. ASSUME NEW h \in Handles, Piece(h)'
          PROVE  Apart(Now'.block, storage'[h])
      <4>1. Now.pc # "record"
        BY <1>3, <2>3 DEF Carries
      <4>2. InArena(storage[h], arena) /\ storage'[h] = storage[h] /\ storage[h] \in Blocks
        BY <1>2, <1>7, <3>5, <4>1 DEF Pieces
      <4> QED
        BY <3>3, <3>4, <4>2, BlockNumbers DEF InArena, Apart
    <3>6. Now'.block.off + Now'.block.size <= arena'.highWater
      <4>1. PICK x, y, z : /\ x = arena.highWater /\ y = Footprint(n) /\ z = arena'.highWater
                           /\ z = x + y
        BY <3>2
      <4>2. x \in Nat /\ y \in Nat /\ n \in Nat /\ n <= y /\ x + n <= x + y
        BY <3>3, <4>1
      <4> QED
        BY <3>4, <4>1, <4>2
    <3>7. InArena(Now'.block, arena')
      BY <3>4, <3>6 DEF InArena
    <3> QED
      BY <3>5, <3>7
  <2>4. cap'.pc = "unfreeze" \/ Now'.pc = "clearArena" => \A h \in Handles : ~Piece(h)'
    BY <1>1, <1>3
  <2> QED
    BY <2>1, <2>2, <2>3, <2>4 DEF Pieces, Apart
<1> QED
  BY <1>6, <1>8

LEMMA ContinueStep ==
  ASSUME GInv, Continue
  PROVE  GInv'
BY ContinueBuffers, ContinueControl, ContinueRest, ContinueWindow DEF GInv

-----------------------------------------------------------------------------
(***************************************************************************)
(* The steps around the allocator's calls                                  *)
(***************************************************************************)
\* A step of the capture itself: the allocator is left alone.
LEMMA AllocatorKept ==
  ASSUME GInv, UNCHANGED vars, Now.pc = "idle", faults' = {} => faults = {},
         HasTensor' => HasTensor /\ cap'.arena = cap.arena,
         arena # NoArena /\ HasTensor => HasTensor',
         cap'.pc = "unfreeze" =>
           \A h \in Handles : storage[h] # NoBlock /\ ~(HasTensor /\ h = cap.arena) => ~storage[h].graph
  PROVE  Buffers' /\ CallControl' /\ Tensor' /\ Unfaulted' /\ Pieces' /\ NotCached'
<1>1. /\ UNCHANGED <<driver, freeList, frozen, arena, captured, call, storage>>
      /\ Now' = Now /\ frozen \in BOOLEAN
  BY NowFacts DEF vars, Now
<1>2. Buffers /\ CallControl /\ Tensor /\ Unfaulted /\ Pieces /\ NotCached
  BY DEF GInv
<1>3. Buffers'
  <2> SUFFICES ASSUME NEW leaks \in BOOLEAN, faults' = {} \/ leaks
               PROVE  IInv(leaks)'
    BY DEF Buffers
  <2>1. IInv(leaks)
    BY <1>2 DEF Buffers
  <2> QED
    BY <1>1, <2>1, StutterIInv
<1>4. CallControl'
  BY <1>1, <1>2 DEF CallControl, AllocatePcs
<1>5. Tensor'
  BY <1>1, <1>2 DEF Tensor
<1>6. \A h \in Handles : Piece(h)' => Piece(h)
  BY <1>1 DEF Piece, ArenaAt
<1>7. Unfaulted'
  BY <1>1, <1>2 DEF Unfaulted
<1>8. Pieces'
  <2>1. ASSUME cap'.pc = "unfreeze", NEW h \in Handles
        PROVE  ~Piece(h)'
    BY <1>1, <1>2, <1>6, <2>1 DEF Pieces, Piece, InArena
  <2> QED
    BY <1>1, <1>2, <1>6, <2>1 DEF Pieces
<1>9. NotCached'
  BY <1>1, <1>2 DEF NotCached
<1> QED
  BY <1>3, <1>4, <1>5, <1>7, <1>8, <1>9

\* The thread enters deallocate.
LEMMA DeallocateFacts ==
  ASSUME GInv, NEW h \in Handles, Deallocate(Capturer, h)
  PROVE  /\ storage[h] # NoBlock /\ Now.pc = "idle" /\ Now.handle = NoHandle
         /\ Now'.pc = (IF frozen THEN "arenaFree" ELSE "push")
         /\ Now'.block = storage[h] /\ Now'.handle = NoHandle
         /\ storage'[h] = NoBlock /\ \A g \in Handles \ {h} : storage'[g] = storage[g]
         /\ UNCHANGED <<driver, freeList, frozen, arena, captured>>
         /\ \A t \in Threads \ {Capturer} : call'[t] = Idle
<1>1. /\ Types /\ Capturer \in Threads /\ Now \in Calls /\ Fits(Now, storage)
      /\ \A t \in Threads \ {Capturer} : call[t] = Idle
  BY NowFacts
<1>2. PICK c : /\ c = Freeing(IF frozen THEN "arenaFree" ELSE "push", storage[h], {})
               /\ call' = [call EXCEPT ![Capturer] = c]
  BY DEF Deallocate
<1>3. Now' = c /\ \A t \in Threads \ {Capturer} : call'[t] = Idle
  BY <1>1, <1>2 DEF Types, Now
<1>4. /\ c.pc = (IF frozen THEN "arenaFree" ELSE "push") /\ c.block = storage[h]
      /\ c.handle = NoHandle
  BY <1>2 DEF Freeing, Frame
<1>5. /\ Now.pc = "idle" /\ storage[h] # NoBlock /\ storage' = [storage EXCEPT ![h] = NoBlock]
      /\ UNCHANGED <<driver, freeList, frozen, arena, captured>>
  BY DEF Deallocate, At, Now
<1>6. Now.handle = NoHandle
  BY <1>1, <1>5 DEF Fits, AllocatePcs
<1>7. storage'[h] = NoBlock /\ \A g \in Handles \ {h} : storage'[g] = storage[g]
  BY <1>1, <1>5 DEF Types
<1> QED
  BY <1>3, <1>4, <1>5, <1>6, <1>7

LEMMA Deallocates ==
  ASSUME GInv, NEW h \in Handles, Deallocate(Capturer, h), faults' = {} => faults = {},
         HasTensor' => HasTensor /\ cap'.arena = cap.arena /\ h # cap.arena,
         arena # NoArena /\ HasTensor => HasTensor' \/ h = cap.arena,
         faults' = {} /\ frozen /\ arena # NoArena => storage[h].graph,
         cap'.pc # "unfreeze"
  PROVE  Buffers' /\ CallControl' /\ Tensor' /\ Unfaulted' /\ Pieces' /\ NotCached'
<1>1. /\ storage[h] # NoBlock /\ Now.pc = "idle"
      /\ Now'.pc = (IF frozen THEN "arenaFree" ELSE "push") /\ Now'.block = storage[h]
      /\ storage'[h] = NoBlock /\ \A g \in Handles \ {h} : storage'[g] = storage[g]
      /\ UNCHANGED <<driver, freeList, frozen, arena, captured>>
      /\ \A t \in Threads \ {Capturer} : call'[t] = Idle
  BY DeallocateFacts
<1>2. Buffers /\ CallControl /\ Tensor /\ Unfaulted /\ Pieces /\ NotCached /\ CapTypes /\ Control
  BY DEF GInv
<1>3. Buffers'
  <2> SUFFICES ASSUME NEW leaks \in BOOLEAN, faults' = {} \/ leaks
               PROVE  IInv(leaks)'
    BY DEF Buffers
  <2>1. IInv(leaks) /\ Capturer \in Threads
    BY <1>2, GraphAssumption DEF Buffers
  <2> QED
    BY <2>1, DeallocateEnters
<1>4. CallControl'
  BY <1>1, <1>2, NowFacts DEF CallControl, AllocatePcs
<1>5. Tensor'
  <2>1. HasTensor => cap.arena \in Handles
    BY <1>2 DEF Control, HasTensor
  <2> QED
    BY <1>1, <1>2, <2>1 DEF Tensor
<1>6. \A g \in Handles : Piece(g)' => Piece(g) /\ g # h
  BY <1>1 DEF Piece, ArenaAt
<1>7. Unfaulted'
  <2>1. ASSUME faults' = {}, NEW g \in Handles, storage'[g] # NoBlock, storage'[g].graph
        PROVE  /\ frozen' /\ cap'.pc # "unfreeze" /\ ~(HasTensor' /\ g = cap'.arena)
               /\ arena' # NoArena => storage'[g].ptr = arena'.base
    BY <1>1, <1>2, <2>1 DEF Unfaulted
  <2>2. ASSUME faults' = {}, Now'.pc \in {"record", "arenaFree"}, arena' # NoArena
        PROVE  Now'.block.ptr = arena'.base /\ Now'.block.graph
    BY <1>1, <1>2, <2>2 DEF Unfaulted
  <2> QED
    BY <2>1, <2>2 DEF Unfaulted
<1>8. Pieces'
  <2>1. ASSUME NEW g \in Handles, Piece(g)'
        PROVE  InArena(storage'[g], arena')
    BY <1>1, <1>2, <1>6, <2>1 DEF Pieces
  <2>2. ASSUME NEW g \in Handles, NEW k \in Handles, Piece(g)', Piece(k)', g # k
        PROVE  Apart(storage'[g], storage'[k])
    BY <1>1, <1>2, <1>6, <2>2 DEF Pieces
  <2> QED
    BY <1>1, <2>1, <2>2 DEF Pieces
<1>9. NotCached'
  BY <1>1, <1>2 DEF NotCached
<1> QED
  BY <1>3, <1>4, <1>5, <1>7, <1>8, <1>9

\* The thread enters allocate.
LEMMA AllocateFacts ==
  ASSUME GInv, NEW h \in Handles, NEW n \in Sizes, Allocate(Capturer, h, n)
  PROVE  /\ storage[h] = NoBlock /\ Now.pc = "idle" /\ Now.handle = NoHandle
         /\ Now'.pc = (IF frozen THEN "arena" ELSE "pop") /\ Now'.graph = frozen
         /\ Now'.handle = h
         /\ UNCHANGED <<driver, freeList, frozen, arena, captured, storage>>
         /\ \A t \in Threads \ {Capturer} : call'[t] = Idle
<1>1. /\ Types /\ Capturer \in Threads /\ Now \in Calls /\ Fits(Now, storage)
      /\ \A t \in Threads \ {Capturer} : call[t] = Idle
  BY NowFacts
<1>2. PICK c : /\ c = Frame(IF frozen THEN "arena" ELSE "pop", h, n, frozen, NoBlock, {})
               /\ call' = [call EXCEPT ![Capturer] = c]
  BY DEF Allocate
<1>3. Now' = c /\ \A t \in Threads \ {Capturer} : call'[t] = Idle
  BY <1>1, <1>2 DEF Types, Now
<1>4. c.pc = (IF frozen THEN "arena" ELSE "pop") /\ c.graph = frozen /\ c.handle = h
  BY <1>2 DEF Frame
<1>5. /\ Now.pc = "idle" /\ storage[h] = NoBlock
      /\ UNCHANGED <<driver, freeList, frozen, arena, captured, storage>>
  BY DEF Allocate, At, Now, Unused
<1>6. Now.handle = NoHandle
  BY <1>1, <1>5 DEF Fits, AllocatePcs
<1> QED
  BY <1>3, <1>4, <1>5, <1>6

LEMMA Allocates ==
  ASSUME GInv, NEW h \in Handles, NEW n \in Sizes, Allocate(Capturer, h, n), faults' = faults,
         HasTensor' <=> HasTensor, HasTensor => cap'.arena = cap.arena, cap'.pc # "unfreeze"
  PROVE  Buffers' /\ CallControl' /\ Tensor' /\ Unfaulted' /\ Pieces' /\ NotCached'
<1>1. /\ Now.pc = "idle" /\ Now'.pc = (IF frozen THEN "arena" ELSE "pop") /\ Now'.graph = frozen
      /\ UNCHANGED <<driver, freeList, frozen, arena, captured, storage>>
      /\ \A t \in Threads \ {Capturer} : call'[t] = Idle
  BY AllocateFacts
<1>2. Buffers /\ CallControl /\ Tensor /\ Unfaulted /\ Pieces /\ NotCached
  BY DEF GInv
<1>3. Buffers'
  <2> SUFFICES ASSUME NEW leaks \in BOOLEAN, faults' = {} \/ leaks
               PROVE  IInv(leaks)'
    BY DEF Buffers
  <2>1. IInv(leaks) /\ Capturer \in Threads
    BY <1>2, GraphAssumption DEF Buffers
  <2> QED
    BY <2>1, QuietSteps
<1>4. CallControl'
  BY <1>1, <1>2 DEF CallControl, AllocatePcs
<1>5. Tensor'
  BY <1>1, <1>2 DEF Tensor
<1>6. \A g \in Handles : Piece(g)' <=> Piece(g)
  BY <1>1 DEF Piece, ArenaAt
<1>7. Unfaulted'
  BY <1>1, <1>2 DEF Unfaulted
<1>8. Pieces'
  BY <1>1, <1>2, <1>6 DEF Pieces
<1>9. NotCached'
  BY <1>1, <1>2 DEF NotCached
<1> QED
  BY <1>3, <1>4, <1>5, <1>7, <1>8, <1>9


\* Between calls; the record of the capture, and how a step leaves it.
LEMMA BetweenCalls ==
  ASSUME GInv, At(Capturer, "idle")
  PROVE  /\ Now.pc = "idle" /\ Now.handle = NoHandle /\ NoHandle \notin Handles
         /\ arena # NoArena => frozen \/ (cap.withArena /\ cap.pc = "freeze")
         /\ captured # {} => frozen
         /\ \A h \in Handles : storage[h] # NoBlock => storage[h] \in Blocks
<1>1. Now.pc = "idle"
  BY DEF At, Now
<1> QED
  BY <1>1, NowFacts, ConstantsAssumption DEF GInv, Control, Fits, AllocatePcs, Types

LEMMA CapMoves ==
  ASSUME GInv, NEW pc, CapGoto(pc),
         pc \in {"freeze", "begin", "closure", "unfreeze", "wrap", "unwind"}
  PROVE  /\ cap' \in Captures /\ cap'.pc = pc /\ cap'.arena = cap.arena /\ cap'.io = cap.io
         /\ cap'.withArena = cap.withArena /\ cap'.ok = cap.ok
         /\ cap'.window = cap.window /\ cap'.top = cap.top
BY DEF GInv, CapTypes, CapGoto, Captures

LEMMA NoCaptureFacts ==
  /\ NoCapture \in Captures /\ NoCapture.pc = "idle" /\ NoCapture.arena = NoHandle
  /\ NoCapture.io = {} /\ NoCapture.withArena = FALSE
BY DEF NoCapture, Captures

\* Who is held, by how far the capture has come.
LEMMA CapFacts ==
  ASSUME GInv
  PROVE  /\ cap \in Captures /\ refs \in [Handles -> SUBSET Roles] /\ cap.io \subseteq Handles
         /\ cap.pc \notin {"freeze", "begin", "closure", "unfreeze", "wrap", "unwind"} => ~HasTensor
         /\ cap.pc \in {"idle", "arenaTensor", "dropIO"} => CaptureHeld = {}
         /\ cap.pc \notin {"idle", "dropIO"} => GraphHeld = {} /\ graph = NoGraph
         /\ \A h \in CaptureHeld : h \in Handles /\
              (cap.pc # "install" => storage[h] # NoBlock /\ "capture" \in refs[h])
         /\ \A h \in GraphHeld : h \in Handles /\ storage[h] # NoBlock /\ "graph" \in refs[h]
<1>1. cap \in Captures /\ refs \in [Handles -> SUBSET Roles] /\ cap.io \subseteq Handles
  BY DEF GInv, CapTypes, Captures
<1>2. cap.pc \notin {"freeze", "begin", "closure", "unfreeze", "wrap", "unwind"} => ~HasTensor
  BY DEF HasTensor
<1>3. cap.pc \in {"idle", "arenaTensor", "dropIO"} => CaptureHeld = {}
  BY DEF CaptureHeld, HasTensor
<1>4. cap.pc \notin {"idle", "dropIO"} => GraphHeld = {} /\ graph = NoGraph
  BY DEF GInv, Control, GraphHeld
<1>5. ASSUME NEW h \in CaptureHeld
      PROVE  h \in Handles /\ (cap.pc # "install" => storage[h] # NoBlock /\ "capture" \in refs[h])
  <2>1. CASE h \in cap.io /\ cap.pc \in {"begin", "closure", "unfreeze", "wrap", "unwind"}
    BY <1>1, <1>5, <2>1 DEF GInv, References
  <2>2. CASE h = cap.arena /\ (HasTensor \/ cap.pc = "install")
    BY <2>2, <1>5 DEF GInv, References, Tensor, Control, HasTensor
  <2> QED
    BY <1>5, <2>1, <2>2 DEF CaptureHeld
<1>6. \A h \in GraphHeld : h \in Handles /\ storage[h] # NoBlock /\ "graph" \in refs[h]
  BY DEF GInv, References
<1> QED
  BY <1>1, <1>2, <1>3, <1>4, <1>5, <1>6

LEMMA CaptureActionStep ==
  ASSUME GInv, NEW io \in SUBSET Handles, NEW withArena \in BOOLEAN, Capture(io, withArena)
  PROVE  GInv'
<1>1. /\ cap.pc = "idle" /\ At(Capturer, "idle") /\ graph = NoGraph
      /\ \A h \in io : storage[h] # NoBlock /\ ~storage[h].graph /\ "user" \in refs[h]
      /\ UNCHANGED <<vars, refs, graph, recording, faults>>
  BY DEF Capture, CapAt, Live
<1>2. /\ cap'.pc = (IF withArena THEN "arenaTensor" ELSE "freeze") /\ cap'.arena = NoHandle
      /\ cap'.io = io /\ cap'.withArena = withArena /\ cap' \in Captures
  BY NoCaptureFacts DEF Capture, NoCapture, Captures
<1>3. Now.pc = "idle" /\ NoHandle \notin Handles /\ ~HasTensor /\ CaptureHeld = {}
  BY <1>1, BetweenCalls, CapFacts
<1>4. /\ UNCHANGED <<frozen, arena, captured, storage>> /\ Now' = Now
  BY <1>1 DEF vars, Now
<1>5. ~HasTensor' /\ CaptureHeld' = {} /\ GraphHeld' = {} /\ GraphHeld = {}
  BY <1>1, <1>2 DEF HasTensor, CaptureHeld, GraphHeld
<1>6. Buffers' /\ CallControl' /\ Tensor' /\ Unfaulted' /\ Pieces' /\ NotCached'
  BY <1>1, <1>2, <1>3, <1>5, AllocatorKept
<1>7. CapTypes'
  BY <1>1, <1>2 DEF GInv, CapTypes
<1>8. Control'
  BY <1>1, <1>2, <1>3, <1>4, <1>5, BetweenCalls DEF GInv, Control
<1>9. References'
  BY <1>1, <1>2, <1>3, <1>4, <1>5 DEF GInv, References
<1>10. GraphFacts'
  BY <1>1 DEF GraphFacts
<1> QED
  BY <1>6, <1>7, <1>8, <1>9, <1>10 DEF GInv

LEMMA ArenaTensorFailedStep ==
  ASSUME GInv, ArenaTensorFailed
  PROVE  GInv'
<1>1. /\ cap.pc = "install" /\ At(Capturer, "idle") /\ storage[cap.arena] = NoBlock
      /\ cap' = NoCapture /\ UNCHANGED <<vars, refs, graph, recording, faults>>
  BY DEF ArenaTensorFailed, CapAt
<1>2. /\ cap'.pc = "idle" /\ cap'.io = {} /\ cap'.withArena = FALSE /\ cap' \in Captures
  BY <1>1, NoCaptureFacts
<1>3. /\ Now.pc = "idle" /\ Now.handle = NoHandle /\ NoHandle \notin Handles
      /\ ~HasTensor /\ graph = NoGraph /\ GraphHeld = {}
  BY <1>1, BetweenCalls, CapFacts
<1>4. /\ UNCHANGED <<frozen, arena, captured, storage>> /\ Now' = Now
  BY <1>1 DEF vars, Now
<1>5. ~HasTensor' /\ CaptureHeld' = {} /\ GraphHeld' = {} /\ CaptureHeld = {cap.arena}
  BY <1>1, <1>2, <1>3 DEF HasTensor, CaptureHeld, GraphHeld
<1>6. Buffers' /\ CallControl' /\ Tensor' /\ Unfaulted' /\ Pieces' /\ NotCached'
  BY <1>1, <1>2, <1>3, <1>5, AllocatorKept
<1>7. CapTypes'
  BY <1>1, <1>2 DEF GInv, CapTypes
<1>8. Control'
  BY <1>1, <1>2, <1>3, <1>4, <1>5, BetweenCalls DEF GInv, Control
<1>9. References'
  BY <1>1, <1>2, <1>3, <1>4, <1>5 DEF GInv, References
<1>10. GraphFacts'
  BY <1>1, <1>3 DEF GraphFacts
<1> QED
  BY <1>6, <1>7, <1>8, <1>9, <1>10 DEF GInv

\* begin_capture, whether it succeeds or not, leaves who holds what.
LEMMA BeginStep ==
  ASSUME GInv, BeginCapture \/ BeginCaptureFails
  PROVE  GInv'
<1>1. /\ cap.pc = "begin" /\ At(Capturer, "idle") /\ faults \subseteq faults'
      /\ UNCHANGED <<vars, refs, graph>>
      /\ \/ CapGoto("closure") /\ recording' = TRUE
         \/ CapGoto("unwind") /\ recording' = recording /\ "begin" \in faults'
  BY DEF BeginCapture, BeginCaptureFails, CapAt
<1>2. /\ cap' \in Captures /\ cap'.arena = cap.arena /\ cap'.io = cap.io
      /\ cap'.withArena = cap.withArena
      /\ \/ cap'.pc = "closure" /\ recording' = TRUE
         \/ cap'.pc = "unwind" /\ recording' = recording /\ "begin" \in faults'
  BY <1>1, CapMoves
<1>3. /\ Now.pc = "idle" /\ graph = NoGraph /\ GraphHeld = {}
  BY <1>1, BetweenCalls, CapFacts
<1>4. /\ UNCHANGED <<frozen, arena, captured, storage>> /\ Now' = Now
  BY <1>1 DEF vars, Now
<1>5. (HasTensor' <=> HasTensor) /\ CaptureHeld' = CaptureHeld /\ GraphHeld' = {}
  BY <1>1, <1>2, <1>3 DEF HasTensor, CaptureHeld, GraphHeld
<1>6. Buffers' /\ CallControl' /\ Tensor' /\ Unfaulted' /\ Pieces' /\ NotCached'
  BY <1>1, <1>2, <1>3, <1>5, AllocatorKept
<1>7. CapTypes'
  BY <1>1, <1>2 DEF GInv, CapTypes
<1>8. Control'
  BY <1>1, <1>2, <1>3, <1>4, <1>5, BetweenCalls DEF GInv, Control
<1>9. References'
  BY <1>1, <1>2, <1>3, <1>4, <1>5 DEF GInv, References
<1>10. GraphFacts'
  BY <1>1, <1>3 DEF GraphFacts
<1> QED
  BY <1>6, <1>7, <1>8, <1>9, <1>10 DEF GInv

\* What lives when the capture ends lies outside the arena: every block of the window
\* that is left would have a reference, and the program keeps none to such a block.
LEMMA EndCaptureStep ==
  ASSUME GInv, EndCapture
  PROVE  GInv'
<1>1. /\ cap.pc = "closure" /\ At(Capturer, "idle") /\ recording' = FALSE
      /\ \A h \in Live : "user" \in refs[h] => ~storage[h].graph
      /\ UNCHANGED <<vars, refs, graph, faults>>
  BY DEF EndCapture, CapAt
<1>2. /\ cap' \in Captures /\ cap'.arena = cap.arena /\ cap'.io = cap.io
      /\ cap'.withArena = cap.withArena /\ cap'.pc = "unfreeze"
  <2>1. Top \in Nat /\ captured \in SUBSET (Ptrs \X Nat)
    BY NowFacts DEF Types, Top, Arenas, GInv, NotCached
  <2> QED
    BY <2>1, CapFacts DEF EndCapture, Captures
<1>3. /\ Now.pc = "idle" /\ graph = NoGraph /\ GraphHeld = {}
  BY <1>1, BetweenCalls, CapFacts
<1>4. /\ UNCHANGED <<frozen, arena, captured, storage>> /\ Now' = Now
  BY <1>1 DEF vars, Now
<1>5. (HasTensor' <=> HasTensor) /\ CaptureHeld' = CaptureHeld /\ GraphHeld' = {}
  BY <1>1, <1>2, <1>3 DEF HasTensor, CaptureHeld, GraphHeld
<1>6. ASSUME NEW h \in Handles, storage[h] # NoBlock, ~(HasTensor /\ h = cap.arena)
      PROVE  ~storage[h].graph
  <2>1. refs[h] # {} /\ refs[h] \subseteq Roles /\ "graph" \notin refs[h]
    BY <1>3, <1>6, CapFacts DEF GInv, References
  <2>2. CASE "user" \in refs[h]
    BY <1>1, <1>6, <2>2 DEF Live
  <2>3. CASE "capture" \in refs[h]
    <3>1. h \in CaptureHeld
      BY <1>6, <2>3 DEF GInv, References
    <3>2. h \in cap.io
      BY <1>1, <1>6, <3>1 DEF CaptureHeld
    <3> QED
      BY <1>1, <3>2 DEF GInv, References
  <2> QED
    BY <2>1, <2>2, <2>3 DEF Roles
<1>7. Buffers' /\ CallControl' /\ Tensor' /\ Unfaulted' /\ Pieces' /\ NotCached'
  BY <1>1, <1>2, <1>3, <1>5, <1>6, AllocatorKept
<1>8. CapTypes'
  BY <1>1, <1>2 DEF GInv, CapTypes
<1>9. Control'
  BY <1>1, <1>2, <1>3, <1>4, <1>5, BetweenCalls DEF GInv, Control
<1>10. References'
  BY <1>1, <1>2, <1>3, <1>4, <1>5 DEF GInv, References
<1>11. GraphFacts'
  BY <1>1, <1>3 DEF GraphFacts
<1> QED
  BY <1>7, <1>8, <1>9, <1>10, <1>11 DEF GInv

\* What the capture held, the CapturedGraph holds.
LEMMA WrapStep ==
  ASSUME GInv, Wrap
  PROVE  GInv'
<1> DEFINE kept == cap.io \cup (IF cap.withArena THEN {cap.arena} ELSE {})
<1>1. /\ cap.pc = "wrap" /\ At(Capturer, "idle")
      /\ graph' = [io |-> cap.io, arena |-> cap.arena, withArena |-> cap.withArena,
                   held |-> [h \in kept |-> storage[h]],
                   window |-> cap.window, top |-> cap.top]
      /\ refs' = [h \in Handles |-> IF h \in kept THEN (refs[h] \ {"capture"}) \cup {"graph"}
                                    ELSE refs[h]]
      /\ cap' = NoCapture /\ UNCHANGED <<vars, recording, faults>>
  BY DEF Wrap, CapAt
<1>2. cap'.pc = "idle" /\ cap'.io = {} /\ cap'.withArena = FALSE /\ cap' \in Captures
  BY <1>1, NoCaptureFacts
<1>3. /\ Now.pc = "idle" /\ Now.handle = NoHandle /\ NoHandle \notin Handles
      /\ graph = NoGraph /\ GraphHeld = {} /\ cap \in Captures
      /\ refs \in [Handles -> SUBSET Roles]
  BY <1>1, BetweenCalls, CapFacts
<1>4. /\ UNCHANGED <<frozen, arena, captured, storage>> /\ Now' = Now
  BY <1>1 DEF vars, Now
<1>5. ~frozen /\ arena = NoArena
  BY <1>1, BetweenCalls DEF GInv, Control
<1>6. CaptureHeld = kept /\ (cap.withArena => HasTensor)
  BY <1>1 DEF CaptureHeld, HasTensor
<1>7. \A h \in kept : h \in Handles /\ storage[h] # NoBlock /\ storage[h] \in Blocks
  BY <1>1, <1>6, CapFacts, BetweenCalls
<1>8. graph'.io = cap.io /\ graph'.arena = cap.arena /\ graph'.withArena = cap.withArena
      /\ graph'.held = [h \in kept |-> storage[h]]
  BY <1>1
<1>9. graph' \in Graphs /\ graph' # NoGraph
  <2>1. graph'.held \in [kept -> Blocks] /\ kept \in SUBSET Handles
    BY <1>7, <1>8
  <2>2. /\ cap.io \in SUBSET Handles /\ cap.arena \in Handles \cup {NoHandle}
        /\ cap.withArena \in BOOLEAN /\ cap.window \in SUBSET (Ptrs \X Nat) /\ cap.top \in Nat
    BY <1>3 DEF Captures
  <2> QED
    BY <1>1, <2>1, <2>2, GraphAssumption DEF Graphs
<1>10. ~HasTensor' /\ CaptureHeld' = {} /\ GraphHeld' = kept
  BY <1>2, <1>8, <1>9 DEF HasTensor, CaptureHeld, GraphHeld
<1>11. Buffers' /\ CallControl' /\ Tensor' /\ Unfaulted' /\ Pieces' /\ NotCached'
  BY <1>1, <1>2, <1>3, <1>5, <1>10, AllocatorKept
<1>12. CapTypes'
  <2>1. refs' \in [Handles -> SUBSET Roles]
    BY <1>1, <1>3 DEF Roles
  <2> QED
    BY <1>1, <1>2, <1>9, <2>1 DEF GInv, CapTypes
<1>13. Control'
  BY <1>1, <1>2, <1>3, <1>4, <1>5, BetweenCalls DEF GInv, Control
<1>14. References'
  <2>1. ASSUME NEW h \in Handles, storage'[h] # NoBlock \/ h = Now'.handle
        PROVE  /\ refs'[h] # {} /\ "capture" \notin refs'[h]
               /\ "graph" \in refs'[h] <=> h \in kept
    <3>1. /\ refs[h] # {} /\ "graph" \notin refs[h]
          /\ "capture" \in refs[h] <=> h \in kept
      BY <1>3, <1>4, <1>6, <2>1 DEF GInv, References
    <3>2. refs'[h] = IF h \in kept THEN (refs[h] \ {"capture"}) \cup {"graph"} ELSE refs[h]
      BY <1>1
    <3>3. CASE h \in kept
      BY <3>1, <3>2, <3>3
    <3>4. CASE h \notin kept
      BY <3>1, <3>2, <3>4
    <3> QED
      BY <3>3, <3>4
  <2>2. ASSUME graph'.withArena
        PROVE  refs'[graph'.arena] = {"graph"} /\ graph'.arena \in Handles \ graph'.io
    <3>1. refs[cap.arena] = {"capture"} /\ cap.arena \in Handles \ cap.io /\ cap.arena \in kept
      BY <1>1, <1>6, <1>8, <2>2 DEF GInv, References, Control
    <3>2. refs'[cap.arena] = (refs[cap.arena] \ {"capture"}) \cup {"graph"}
      BY <1>1, <3>1
    <3> QED
      BY <1>8, <3>1, <3>2
  <2>3. \A h \in GraphHeld' : h \in Handles /\ storage'[h] # NoBlock
    BY <1>4, <1>7, <1>10
  <2> HIDE DEF kept
  <2> QED
    BY <1>2, <1>9, <1>10, <2>1, <2>2, <2>3 DEF References
<1>15. GraphFacts'
  BY <1>4, <1>8, <1>10 DEF GraphFacts
<1> QED
  BY <1>11, <1>12, <1>13, <1>14, <1>15 DEF GInv

LEMMA DropGraphStep ==
  ASSUME GInv, DropGraph
  PROVE  GInv'
<1>1. /\ cap.pc = "idle" /\ At(Capturer, "idle") /\ graph # NoGraph /\ graph' = NoGraph
      /\ cap' = [NoCapture EXCEPT !.pc = "dropIO", !.io = graph.io, !.arena = graph.arena,
                                  !.withArena = graph.withArena]
      /\ UNCHANGED <<vars, refs, recording, faults>>
  BY DEF DropGraph, CapAt
<1>2. /\ cap'.pc = "dropIO" /\ cap'.io = graph.io /\ cap'.arena = graph.arena
      /\ cap'.withArena = graph.withArena
  BY <1>1 DEF NoCapture
<1>3. graph \in Graphs /\ cap' \in Captures
  <2>1. graph \in Graphs
    BY <1>1 DEF GInv, CapTypes
  <2>2. /\ graph.io \in SUBSET Handles /\ graph.arena \in Handles \cup {NoHandle}
        /\ graph.withArena \in BOOLEAN
    BY <2>1 DEF Graphs
  <2> QED
    BY <1>1, <2>1, <2>2 DEF NoCapture, Captures
<1>4. /\ Now.pc = "idle" /\ ~HasTensor /\ CaptureHeld = {}
  BY <1>1, BetweenCalls, CapFacts
<1>5. /\ UNCHANGED <<frozen, arena, captured, storage>> /\ Now' = Now
  BY <1>1 DEF vars, Now
<1>6. ~frozen /\ arena = NoArena
  BY <1>1, BetweenCalls DEF GInv, Control
<1>7. ~HasTensor' /\ CaptureHeld' = {} /\ GraphHeld' = GraphHeld
  BY <1>1, <1>2 DEF HasTensor, CaptureHeld, GraphHeld
<1>8. Buffers' /\ CallControl' /\ Tensor' /\ Unfaulted' /\ Pieces' /\ NotCached'
  BY <1>1, <1>2, <1>4, <1>6, <1>7, AllocatorKept
<1>9. CapTypes'
  BY <1>1, <1>3 DEF GInv, CapTypes
<1>10. cap'.withArena => /\ refs[cap'.arena] = {"graph"} /\ cap'.arena \in Handles \ cap'.io
  BY <1>1, <1>2 DEF GInv, References
<1>11. Control'
  BY <1>1, <1>2, <1>4, <1>5, <1>6, <1>10, BetweenCalls DEF GInv, Control
<1>12. References'
  BY <1>1, <1>2, <1>4, <1>5, <1>7, <1>10 DEF GInv, References
<1>13. GraphFacts'
  BY <1>1 DEF GraphFacts
<1> QED
  BY <1>8, <1>9, <1>11, <1>12, <1>13 DEF GInv

\* A failed call lets go of its clones, and of its arena's buffer.
LEMMA UnwindStep ==
  ASSUME GInv, Unwind
  PROVE  GInv'
<1> DEFINE dropped == [h \in Handles |-> IF h \in cap.io THEN refs[h] \ {"capture"} ELSE refs[h]]
<1>1. /\ cap.pc = "unwind" /\ At(Capturer, "idle") /\ cap' = NoCapture
      /\ UNCHANGED <<graph, recording, faults>>
      /\ \/ /\ cap.withArena /\ refs' = [dropped EXCEPT ![cap.arena] = {}]
            /\ Deallocate(Capturer, cap.arena)
         \/ ~cap.withArena /\ refs' = dropped /\ UNCHANGED vars
  BY DEF Unwind, CapAt
<1>2. cap'.pc = "idle" /\ cap'.io = {} /\ cap'.withArena = FALSE /\ cap' \in Captures
  BY <1>1, NoCaptureFacts
<1>3. /\ Now.pc = "idle" /\ Now.handle = NoHandle /\ NoHandle \notin Handles
      /\ graph = NoGraph /\ GraphHeld = {} /\ refs \in [Handles -> SUBSET Roles]
      /\ arena # NoArena => frozen
      /\ captured # {} => frozen
      /\ frozen => "begin" \in faults
  BY <1>1, BetweenCalls, CapFacts DEF GInv, Control
<1>4. ~HasTensor' /\ CaptureHeld' = {} /\ GraphHeld' = {}
  BY <1>1, <1>2, <1>3 DEF HasTensor, CaptureHeld, GraphHeld
<1>5. (HasTensor <=> cap.withArena) /\ (cap.withArena => cap.arena \in Handles \ cap.io)
  BY <1>1 DEF GInv, Control, HasTensor
<1>6. Buffers' /\ CallControl' /\ Tensor' /\ Unfaulted' /\ Pieces' /\ NotCached'
  <2>1. CASE cap.withArena
    BY <1>1, <1>2, <1>3, <1>4, <1>5, <2>1, Deallocates
  <2>2. CASE ~cap.withArena
    BY <1>1, <1>2, <1>3, <1>4, <1>5, <2>2, AllocatorKept
  <2> QED
    BY <2>1, <2>2
<1>7. /\ UNCHANGED <<frozen, arena, captured>> /\ Now'.handle = NoHandle
      /\ \A h \in Handles : storage'[h] # NoBlock =>
           storage[h] # NoBlock /\ ~(cap.withArena /\ h = cap.arena)
  <2>1. CASE cap.withArena
    BY <1>1, <1>5, <2>1, DeallocateFacts
  <2>2. CASE ~cap.withArena
    BY <1>1, <1>3, <2>2 DEF vars, Now
  <2> QED
    BY <2>1, <2>2
<1>8. /\ refs' \in [Handles -> SUBSET Roles]
      /\ \A h \in Handles : ~(cap.withArena /\ h = cap.arena) =>
           refs'[h] = IF h \in cap.io THEN refs[h] \ {"capture"} ELSE refs[h]
  <2>1. dropped \in [Handles -> SUBSET Roles]
    BY <1>3
  <2> QED
    BY <1>1, <2>1
<1>9. CapTypes'
  BY <1>1, <1>2, <1>8 DEF GInv, CapTypes
<1>10. Control'
  BY <1>1, <1>2, <1>3, <1>4, <1>7 DEF GInv, Control
<1>11. References'
  <2>1. ASSUME NEW h \in Handles, storage'[h] # NoBlock \/ h = Now'.handle
        PROVE  refs'[h] # {} /\ "capture" \notin refs'[h] /\ "graph" \notin refs'[h]
    <3>1. storage[h] # NoBlock /\ ~(cap.withArena /\ h = cap.arena)
      BY <1>3, <1>7, <2>1
    <3>2. /\ refs[h] # {} /\ "graph" \notin refs[h]
          /\ "capture" \in refs[h] => h \in cap.io
      BY <1>1, <1>3, <1>5, <3>1 DEF GInv, References, CaptureHeld
    <3>3. h \in cap.io => "user" \in refs[h]
      BY <1>1 DEF GInv, References
    <3>4. refs'[h] = IF h \in cap.io THEN refs[h] \ {"capture"} ELSE refs[h]
      BY <1>8, <3>1
    <3>5. CASE h \in cap.io
      BY <3>2, <3>3, <3>4, <3>5
    <3>6. CASE h \notin cap.io
      BY <3>2, <3>4, <3>6
    <3> QED
      BY <3>5, <3>6
  <2> QED
    BY <1>1, <1>2, <1>3, <1>4, <2>1 DEF References
<1>12. GraphFacts'
  BY <1>1, <1>3 DEF GraphFacts
<1> QED
  BY <1>6, <1>9, <1>10, <1>11, <1>12 DEF GInv

LEMMA GStutter ==
  ASSUME GInv, UNCHANGED gvars
  PROVE  GInv'
<1>1. UNCHANGED <<vars, refs, cap, graph, recording, faults>>
  BY DEF gvars
<1>2. /\ UNCHANGED <<driver, freeList, frozen, arena, captured, call, storage>> /\ Now' = Now
  BY <1>1 DEF vars, Now
<1>3. (HasTensor' <=> HasTensor) /\ CaptureHeld' = CaptureHeld /\ GraphHeld' = GraphHeld
  BY <1>1 DEF HasTensor, CaptureHeld, GraphHeld
<1>4. Buffers'
  <2> SUFFICES ASSUME NEW leaks \in BOOLEAN, faults' = {} \/ leaks
               PROVE  IInv(leaks)'
    BY DEF Buffers
  <2>1. IInv(leaks) /\ frozen' \in BOOLEAN
    BY <1>1, <1>2, NowFacts DEF GInv, Buffers
  <2> QED
    BY <1>2, <2>1, StutterIInv
<1>5. CapTypes' /\ Control' /\ CallControl'
  BY <1>1, <1>2, <1>3 DEF GInv, CapTypes, Control, CallControl
<1>6. \A h \in Handles : Piece(h)' <=> Piece(h)
  BY <1>1, <1>2, <1>3 DEF Piece, ArenaAt
<1>7. Tensor' /\ Unfaulted' /\ Pieces' /\ NotCached'
  BY <1>1, <1>2, <1>3, <1>6 DEF GInv, Tensor, Unfaulted, Pieces, NotCached
<1>8. References' /\ GraphFacts'
  BY <1>1, <1>2, <1>3 DEF GInv, References, GraphFacts
<1> QED
  BY <1>4, <1>5, <1>7, <1>8 DEF GInv

LEMMA CreateStep ==
  ASSUME GInv, NEW h \in Handles, NEW n \in Sizes, Create(h, n)
  PROVE  GInv'
<1>1. /\ cap.pc \in {"idle", "closure"} /\ Allocate(Capturer, h, n)
      /\ refs' = [refs EXCEPT ![h] = {"user"}] /\ UNCHANGED <<cap, graph, recording, faults>>
  BY DEF Create, InProgram
<1>2. /\ storage[h] = NoBlock /\ Now.pc = "idle" /\ Now.handle = NoHandle /\ Now'.handle = h
      /\ UNCHANGED <<frozen, arena, captured, storage>>
  BY <1>1, AllocateFacts
<1>3. At(Capturer, "idle")
  BY <1>1 DEF Allocate
<1>4. (HasTensor' <=> HasTensor) /\ CaptureHeld' = CaptureHeld /\ GraphHeld' = GraphHeld
  BY <1>1 DEF HasTensor, CaptureHeld, GraphHeld
<1>5. h \notin CaptureHeld /\ h \notin GraphHeld
  BY <1>1, <1>2, CapFacts
<1>6. Buffers' /\ CallControl' /\ Tensor' /\ Unfaulted' /\ Pieces' /\ NotCached'
  BY <1>1, <1>4, Allocates
<1>7. refs \in [Handles -> SUBSET Roles] /\ refs' \in [Handles -> SUBSET Roles]
      /\ refs'[h] = {"user"} /\ \A g \in Handles \ {h} : refs'[g] = refs[g]
  BY <1>1, CapFacts DEF Roles
<1>8. CapTypes'
  BY <1>1, <1>7 DEF GInv, CapTypes
<1>9. Control'
  BY <1>1, <1>2, <1>3, <1>4, BetweenCalls DEF GInv, Control
<1>10. References'
  <2>1. ASSUME NEW g \in Handles, storage'[g] # NoBlock \/ g = Now'.handle
        PROVE  /\ refs'[g] # {}
               /\ "capture" \in refs'[g] <=> g \in CaptureHeld'
               /\ "graph" \in refs'[g] <=> g \in GraphHeld'
    <3>1. CASE g = h
      BY <1>4, <1>5, <1>7, <3>1
    <3>2. CASE g # h
      BY <1>2, <1>4, <1>7, <2>1, <3>2 DEF GInv, References
    <3> QED
      BY <3>1, <3>2
  <2>2. cap'.pc \notin {"idle", "dropIO"} =>
          \A g \in cap'.io : storage'[g] # NoBlock /\ ~storage'[g].graph /\ "user" \in refs'[g]
    BY <1>1, <1>2, <1>7, CapFacts DEF GInv, References
  <2>3. HasTensor' \/ cap'.pc = "install" => refs'[cap'.arena] = {"capture"}
    BY <1>1, <1>2, <1>4, <1>7 DEF GInv, References, Tensor, Control, HasTensor
  <2>4. graph' # NoGraph /\ graph'.withArena =>
          refs'[graph'.arena] = {"graph"} /\ graph'.arena \in Handles \ graph'.io
    BY <1>1, <1>5, <1>7 DEF GInv, References, GraphHeld
  <2> QED
    BY <1>1, <1>2, <1>4, <2>1, <2>2, <2>3, <2>4 DEF GInv, References
<1>11. GraphFacts'
  BY <1>1, <1>2, <1>4 DEF GInv, GraphFacts
<1> QED
  BY <1>6, <1>8, <1>9, <1>10, <1>11 DEF GInv

LEMMA ArenaTensorStep ==
  ASSUME GInv, NEW h \in Handles, NEW n \in Sizes, ArenaTensor(h, n)
  PROVE  GInv'
<1>1. /\ cap.pc = "arenaTensor" /\ At(Capturer, "idle") /\ Allocate(Capturer, h, n)
      /\ refs' = [refs EXCEPT ![h] = {"capture"}]
      /\ cap' = [cap EXCEPT !.pc = "install", !.arena = h]
      /\ UNCHANGED <<graph, recording, faults>>
  BY DEF ArenaTensor, CapAt
<1>2. /\ cap'.pc = "install" /\ cap'.arena = h /\ cap'.io = cap.io /\ cap' \in Captures
      /\ cap'.withArena = cap.withArena /\ cap.withArena
  BY <1>1, CapFacts DEF Captures, GInv, Control
<1>3. /\ storage[h] = NoBlock /\ Now.pc = "idle" /\ Now.handle = NoHandle /\ Now'.handle = h
      /\ UNCHANGED <<frozen, arena, captured, storage>>
  BY <1>1, AllocateFacts
<1>4. ~HasTensor /\ CaptureHeld = {} /\ GraphHeld = {} /\ graph = NoGraph
  BY <1>1, CapFacts
<1>5. ~HasTensor' /\ CaptureHeld' = {h} /\ GraphHeld' = {}
  BY <1>1, <1>2, <1>4 DEF HasTensor, CaptureHeld, GraphHeld
<1>6. Buffers' /\ CallControl' /\ Tensor' /\ Unfaulted' /\ Pieces' /\ NotCached'
  BY <1>1, <1>2, <1>4, <1>5, Allocates
<1>7. refs \in [Handles -> SUBSET Roles] /\ refs' \in [Handles -> SUBSET Roles]
      /\ refs'[h] = {"capture"} /\ \A g \in Handles \ {h} : refs'[g] = refs[g]
  BY <1>1, CapFacts DEF Roles
<1>8. CapTypes'
  BY <1>1, <1>2, <1>7 DEF GInv, CapTypes
<1>9. h \notin cap.io
  BY <1>1, <1>3 DEF GInv, References
<1>10. Control'
  BY <1>1, <1>2, <1>3, <1>4, <1>9, BetweenCalls DEF GInv, Control
<1>11. References'
  <2>1. ASSUME NEW g \in Handles, storage'[g] # NoBlock \/ g = Now'.handle
        PROVE  /\ refs'[g] # {} /\ "graph" \notin refs'[g]
               /\ "capture" \in refs'[g] <=> g = h
    <3>1. CASE g = h
      BY <1>7, <3>1
    <3>2. CASE g # h
      BY <1>3, <1>4, <1>7, <2>1, <3>2 DEF GInv, References
    <3> QED
      BY <3>1, <3>2
  <2>2. \A g \in cap'.io : storage'[g] # NoBlock /\ ~storage'[g].graph /\ "user" \in refs'[g]
    BY <1>1, <1>2, <1>3, <1>7, <1>9, CapFacts DEF GInv, References
  <2> QED
    BY <1>1, <1>2, <1>4, <1>5, <1>7, <2>1, <2>2 DEF References
<1>12. GraphFacts'
  BY <1>1, <1>4 DEF GraphFacts
<1> QED
  BY <1>6, <1>8, <1>10, <1>11, <1>12 DEF GInv

\* The program lets go of a tensor: a block it is the last to hold is freed.
LEMMA ForgetStep ==
  ASSUME GInv, NEW h \in Handles, Forget(h)
  PROVE  GInv'
<1>1. /\ cap.pc \in {"idle", "closure"} /\ At(Capturer, "idle")
      /\ cap.pc = "closure" => h \notin cap.io
      /\ storage[h] # NoBlock /\ "user" \in refs[h]
      /\ refs[h] = {"user"} => MayFree(h)
      /\ refs' = [refs EXCEPT ![h] = @ \ {"user"}]
      /\ \/ refs[h] = {"user"} /\ Deallocate(Capturer, h)
         \/ refs[h] # {"user"} /\ UNCHANGED vars
      /\ faults' = IF refs[h] = {"user"} /\ Foreign(h) THEN faults \cup {"foreign"} ELSE faults
      /\ UNCHANGED <<cap, graph, recording>>
  BY DEF Forget, InProgram, Drop, Live
<1>2. /\ Now.pc = "idle" /\ Now.handle = NoHandle /\ NoHandle \notin Handles
      /\ arena # NoArena => frozen
      /\ captured # {} => frozen
      /\ faults \subseteq faults' /\ (faults' = {} => faults = {})
  BY <1>1, BetweenCalls
<1>3. (HasTensor' <=> HasTensor) /\ CaptureHeld' = CaptureHeld /\ GraphHeld' = GraphHeld
  BY <1>1 DEF HasTensor, CaptureHeld, GraphHeld
<1>4. refs[h] = {"user"} => h \notin CaptureHeld /\ h \notin GraphHeld
  BY <1>1 DEF GInv, References
<1>5. HasTensor => cap.arena \in Handles \ {h}
  BY <1>1 DEF GInv, References, Control, HasTensor
<1>6. Buffers' /\ CallControl' /\ Tensor' /\ Unfaulted' /\ Pieces' /\ NotCached'
  <2>1. CASE refs[h] = {"user"}
    <3>1. faults' = {} /\ frozen => storage[h].graph
      BY <1>1, <2>1 DEF Foreign
    <3> QED
      BY <1>1, <1>2, <1>3, <1>5, <2>1, <3>1, Deallocates
  <2>2. CASE refs[h] # {"user"}
    BY <1>1, <1>2, <1>3, <2>2, AllocatorKept
  <2> QED
    BY <2>1, <2>2
<1>7. /\ UNCHANGED <<frozen, arena, captured>> /\ Now'.handle = NoHandle
      /\ \A g \in Handles \ {h} : storage'[g] = storage[g]
      /\ storage'[h] = IF refs[h] = {"user"} THEN NoBlock ELSE storage[h]
  <2>1. CASE refs[h] = {"user"}
    BY <1>1, <2>1, DeallocateFacts
  <2>2. CASE refs[h] # {"user"}
    BY <1>1, <1>2, <2>2 DEF vars, Now
  <2> QED
    BY <2>1, <2>2
<1>8. refs \in [Handles -> SUBSET Roles] /\ refs' \in [Handles -> SUBSET Roles]
      /\ refs'[h] = refs[h] \ {"user"} /\ \A g \in Handles \ {h} : refs'[g] = refs[g]
  BY <1>1, CapFacts DEF Roles
<1>9. CapTypes'
  BY <1>1, <1>8 DEF GInv, CapTypes
<1>10. Control'
  BY <1>1, <1>2, <1>3, <1>7 DEF GInv, Control
<1>11. References'
  <2>1. ASSUME NEW g \in Handles, storage'[g] # NoBlock \/ g = Now'.handle
        PROVE  /\ refs'[g] # {}
               /\ "capture" \in refs'[g] <=> g \in CaptureHeld'
               /\ "graph" \in refs'[g] <=> g \in GraphHeld'
    <3>1. storage[g] # NoBlock
      BY <1>1, <1>2, <1>7, <2>1
    <3>2. /\ refs[g] # {}
          /\ "capture" \in refs[g] <=> g \in CaptureHeld'
          /\ "graph" \in refs[g] <=> g \in GraphHeld'
      BY <1>3, <3>1 DEF GInv, References
    <3>3. CASE g = h
      BY <1>1, <1>2, <1>7, <1>8, <2>1, <3>2, <3>3
    <3>4. CASE g # h
      BY <1>8, <3>2, <3>4
    <3> QED
      BY <3>3, <3>4
  <2>2. cap'.pc \notin {"idle", "dropIO"} =>
          \A g \in cap'.io : storage'[g] # NoBlock /\ ~storage'[g].graph /\ "user" \in refs'[g]
    BY <1>1, <1>7, <1>8, CapFacts DEF GInv, References
  <2>3. HasTensor' \/ cap'.pc = "install" => refs'[cap'.arena] = {"capture"}
    BY <1>1, <1>3, <1>5, <1>8 DEF GInv, References
  <2>4. graph' # NoGraph /\ graph'.withArena =>
          refs'[graph'.arena] = {"graph"} /\ graph'.arena \in Handles \ graph'.io
    BY <1>1, <1>8 DEF GInv, References
  <2>5. \A g \in GraphHeld' : g \in Handles /\ storage'[g] # NoBlock
    BY <1>1, <1>3, <1>4, <1>7, CapFacts
  <2> QED
    BY <1>1, <1>3, <2>1, <2>2, <2>3, <2>4, <2>5 DEF References
<1>12. GraphFacts'
  BY <1>1, <1>3, <1>4, <1>7, CapFacts DEF GInv, GraphFacts
<1> QED
  BY <1>6, <1>9, <1>10, <1>11, <1>12 DEF GInv

\* An arena that is still installed is what a failed begin_capture left.
LEMMA InstallRefusedStep ==
  ASSUME GInv, InstallRefused
  PROVE  GInv'
<1>1. /\ cap.pc = "install" /\ At(Capturer, "idle") /\ storage[cap.arena] # NoBlock
      /\ arena # NoArena /\ cap' = NoCapture /\ Drop(cap.arena, "capture")
      /\ UNCHANGED <<graph, recording, faults>>
  BY DEF InstallRefused, CapAt
<1>2. /\ cap'.pc = "idle" /\ cap'.io = {} /\ cap'.withArena = FALSE /\ cap' \in Captures
  BY <1>1, NoCaptureFacts
<1>3. /\ cap.arena \in Handles /\ refs[cap.arena] = {"capture"} /\ "begin" \in faults
      /\ ~HasTensor /\ graph = NoGraph /\ GraphHeld = {}
  BY <1>1, CapFacts DEF GInv, Control, References
<1>4. /\ Deallocate(Capturer, cap.arena)
      /\ refs' = [refs EXCEPT ![cap.arena] = @ \ {"capture"}]
  BY <1>1, <1>3 DEF Drop
<1>5. /\ Now.pc = "idle" /\ Now'.handle = NoHandle /\ NoHandle \notin Handles
      /\ storage'[cap.arena] = NoBlock
      /\ \A g \in Handles \ {cap.arena} : storage'[g] = storage[g]
      /\ UNCHANGED <<frozen, arena, captured>>
  BY <1>1, <1>3, <1>4, BetweenCalls, DeallocateFacts
<1>6. ~HasTensor' /\ CaptureHeld' = {} /\ GraphHeld' = {} /\ CaptureHeld = {cap.arena}
  BY <1>1, <1>2, <1>3 DEF HasTensor, CaptureHeld, GraphHeld
<1>7. Buffers' /\ CallControl' /\ Tensor' /\ Unfaulted' /\ Pieces' /\ NotCached'
  BY <1>1, <1>2, <1>3, <1>4, <1>6, Deallocates
<1>8. refs \in [Handles -> SUBSET Roles] /\ refs' \in [Handles -> SUBSET Roles]
      /\ \A g \in Handles \ {cap.arena} : refs'[g] = refs[g]
  BY <1>4, CapFacts DEF Roles
<1>9. CapTypes'
  BY <1>1, <1>2, <1>8 DEF GInv, CapTypes
<1>10. Control'
  BY <1>1, <1>2, <1>3, <1>5, <1>6, BetweenCalls DEF GInv, Control
<1>11. References'
  BY <1>1, <1>2, <1>3, <1>5, <1>6, <1>8 DEF GInv, References
<1>12. GraphFacts'
  BY <1>1, <1>3 DEF GraphFacts
<1> QED
  BY <1>7, <1>9, <1>10, <1>11, <1>12 DEF GInv

\* Drop of the CapturedGraph's tensors: no window is open by then.
LEMMA DropIOStep ==
  ASSUME GInv, NEW h \in Handles, DropIO(h)
  PROVE  GInv'
<1>1. /\ cap.pc = "dropIO" /\ At(Capturer, "idle") /\ h \in cap.io
      /\ cap' = [cap EXCEPT !.io = @ \ {h}]
      /\ refs' = [refs EXCEPT ![h] = @ \ {"graph"}]
      /\ \/ refs[h] = {"graph"} /\ Deallocate(Capturer, h)
         \/ refs[h] # {"graph"} /\ UNCHANGED vars
      /\ UNCHANGED <<graph, recording, faults>>
  BY DEF DropIO, CapAt, Drop
<1>2. /\ cap'.pc = "dropIO" /\ cap'.io = cap.io \ {h} /\ cap'.arena = cap.arena
      /\ cap'.withArena = cap.withArena /\ cap' \in Captures
  BY <1>1, CapFacts DEF Captures
<1>3. /\ Now.pc = "idle" /\ Now.handle = NoHandle /\ NoHandle \notin Handles
      /\ graph = NoGraph /\ ~HasTensor /\ CaptureHeld = {} /\ ~frozen
      /\ cap.withArena => cap.arena \in Handles \ {h}
  BY <1>1, BetweenCalls, CapFacts DEF GInv, Control
<1>4. arena = NoArena /\ captured = {}
  BY <1>1, <1>3, BetweenCalls
<1>5. ~HasTensor' /\ CaptureHeld' = {} /\ GraphHeld' = GraphHeld \ {h}
  BY <1>1, <1>2, <1>3 DEF HasTensor, CaptureHeld, GraphHeld
<1>6. Buffers' /\ CallControl' /\ Tensor' /\ Unfaulted' /\ Pieces' /\ NotCached'
  <2>1. CASE refs[h] = {"graph"}
    BY <1>1, <1>2, <1>3, <1>4, <1>5, <2>1, Deallocates
  <2>2. CASE refs[h] # {"graph"}
    BY <1>1, <1>2, <1>3, <1>4, <1>5, <2>2, AllocatorKept
  <2> QED
    BY <2>1, <2>2
<1>7. /\ UNCHANGED <<frozen, arena, captured>> /\ Now'.handle = NoHandle
      /\ \A g \in Handles \ {h} : storage'[g] = storage[g]
      /\ storage'[h] = IF refs[h] = {"graph"} THEN NoBlock ELSE storage[h]
  <2>1. CASE refs[h] = {"graph"}
    BY <1>1, <2>1, DeallocateFacts
  <2>2. CASE refs[h] # {"graph"}
    BY <1>1, <1>3, <2>2 DEF vars, Now
  <2> QED
    BY <2>1, <2>2
<1>8. refs \in [Handles -> SUBSET Roles] /\ refs' \in [Handles -> SUBSET Roles]
      /\ refs'[h] = refs[h] \ {"graph"} /\ \A g \in Handles \ {h} : refs'[g] = refs[g]
  BY <1>1, CapFacts DEF Roles
<1>9. CapTypes'
  BY <1>1, <1>2, <1>8 DEF GInv, CapTypes
<1>10. Control'
  BY <1>1, <1>2, <1>3, <1>4, <1>7 DEF GInv, Control
<1>11. References'
  <2>1. ASSUME NEW g \in Handles, storage'[g] # NoBlock \/ g = Now'.handle
        PROVE  /\ refs'[g] # {} /\ "capture" \notin refs'[g]
               /\ "graph" \in refs'[g] <=> g \in GraphHeld'
    <3>1. storage[g] # NoBlock
      BY <1>3, <1>7, <2>1
    <3>2. /\ refs[g] # {} /\ "capture" \notin refs[g]
          /\ "graph" \in refs[g] <=> g \in GraphHeld
      BY <1>3, <3>1 DEF GInv, References
    <3>3. CASE g = h
      BY <1>3, <1>5, <1>7, <1>8, <2>1, <3>2, <3>3
    <3>4. CASE g # h
      BY <1>5, <1>8, <3>2, <3>4
    <3> QED
      BY <3>3, <3>4
  <2>2. cap'.withArena => refs'[cap'.arena] = {"graph"}
    BY <1>1, <1>2, <1>3, <1>8 DEF GInv, References
  <2>3. \A g \in GraphHeld' : g \in Handles /\ storage'[g] # NoBlock
    BY <1>5, <1>7, CapFacts
  <2> QED
    BY <1>1, <1>2, <1>3, <1>5, <2>1, <2>2, <2>3 DEF References
<1>12. GraphFacts'
  BY <1>1, <1>3 DEF GraphFacts
<1> QED
  BY <1>6, <1>9, <1>10, <1>11, <1>12 DEF GInv

LEMMA DropArenaStep ==
  ASSUME GInv, DropArena
  PROVE  GInv'
<1>1. /\ cap.pc = "dropIO" /\ At(Capturer, "idle") /\ cap.io = {} /\ cap' = NoCapture
      /\ \/ cap.withArena /\ Drop(cap.arena, "graph")
         \/ ~cap.withArena /\ UNCHANGED <<vars, refs>>
      /\ UNCHANGED <<graph, recording, faults>>
  BY DEF DropArena, CapAt
<1>2. /\ cap'.pc = "idle" /\ cap'.io = {} /\ cap'.withArena = FALSE /\ cap' \in Captures
  BY <1>1, NoCaptureFacts
<1>3. /\ Now.pc = "idle" /\ Now.handle = NoHandle /\ NoHandle \notin Handles
      /\ graph = NoGraph /\ ~HasTensor /\ CaptureHeld = {} /\ ~frozen
      /\ cap.withArena => cap.arena \in Handles /\ refs[cap.arena] = {"graph"}
  BY <1>1, BetweenCalls, CapFacts DEF GInv, Control, References
<1>4. arena = NoArena /\ captured = {}
  BY <1>1, <1>3, BetweenCalls
<1>5. /\ ~HasTensor' /\ CaptureHeld' = {} /\ GraphHeld' = {}
      /\ GraphHeld = IF cap.withArena THEN {cap.arena} ELSE {}
  BY <1>1, <1>2, <1>3 DEF HasTensor, CaptureHeld, GraphHeld
<1>6. cap.withArena => /\ Deallocate(Capturer, cap.arena)
                       /\ refs' = [refs EXCEPT ![cap.arena] = @ \ {"graph"}]
  BY <1>1, <1>3 DEF Drop
<1>7. Buffers' /\ CallControl' /\ Tensor' /\ Unfaulted' /\ Pieces' /\ NotCached'
  <2>1. CASE cap.withArena
    BY <1>1, <1>2, <1>3, <1>4, <1>5, <1>6, <2>1, Deallocates
  <2>2. CASE ~cap.withArena
    BY <1>1, <1>2, <1>3, <1>4, <1>5, <2>2, AllocatorKept
  <2> QED
    BY <2>1, <2>2
<1>8. /\ UNCHANGED <<frozen, arena, captured>> /\ Now'.handle = NoHandle
      /\ refs' \in [Handles -> SUBSET Roles]
      /\ \A g \in Handles : storage'[g] # NoBlock =>
           g \notin GraphHeld /\ storage[g] # NoBlock /\ refs'[g] = refs[g]
  <2>1. CASE cap.withArena
    BY <1>3, <1>5, <1>6, <2>1, DeallocateFacts, CapFacts DEF Roles
  <2>2. CASE ~cap.withArena
    BY <1>1, <1>3, <1>5, <2>2, CapFacts DEF vars, Now
  <2> QED
    BY <2>1, <2>2
<1>9. CapTypes'
  BY <1>1, <1>2, <1>8 DEF GInv, CapTypes
<1>10. Control'
  BY <1>1, <1>2, <1>3, <1>4, <1>8 DEF GInv, Control
<1>11. References'
  BY <1>1, <1>2, <1>3, <1>5, <1>8 DEF GInv, References
<1>12. GraphFacts'
  BY <1>1, <1>3 DEF GraphFacts
<1> QED
  BY <1>7, <1>9, <1>10, <1>11, <1>12 DEF GInv

\* The window opens around a buffer that only the arena's handle stands for.
LEMMA InstallActionStep ==
  ASSUME GInv, Install
  PROVE  GInv'
<1>0. PICK a, b : a = cap.arena /\ b = storage[a]
  OBVIOUS
<1>1. /\ cap.pc = "install" /\ At(Capturer, "idle") /\ InstallArena(Capturer, a)
      /\ arena = NoArena /\ b # NoBlock
      /\ CapGoto("freeze") /\ UNCHANGED <<refs, graph, recording, faults>>
      /\ UNCHANGED <<driver, freeList, totalBytes, lock, frozen, captured, call, storage>>
  BY <1>0 DEF Install, CapAt, InstallArena
<1>2. /\ cap' \in Captures /\ cap'.pc = "freeze" /\ cap'.arena = a /\ cap'.io = cap.io
      /\ cap'.withArena = cap.withArena /\ cap.withArena /\ a \in Handles
  BY <1>0, <1>1, CapMoves DEF GInv, Control
<1>3. /\ Now.pc = "idle" /\ Now' = Now /\ graph = NoGraph /\ GraphHeld = {} /\ Capturer \in Threads
  BY <1>1, BetweenCalls, CapFacts, GraphAssumption DEF Now
<1>4. arena' \in Arenas /\ arena'.base = b.ptr /\ arena' # NoArena
  BY <1>0, <1>1, <1>2, <1>3, NowFacts, InstallStep, ConstantsAssumption
<1>5. Buffers'
  <2> SUFFICES ASSUME NEW leaks \in BOOLEAN, faults' = {} \/ leaks
               PROVE  IInv(leaks)'
    BY DEF Buffers
  <2>1. IInv(leaks)
    BY <1>1 DEF GInv, Buffers
  <2> QED
    BY <1>1, <1>2, <1>3, <2>1, InstallStep
<1>6. HasTensor' /\ ~HasTensor /\ CaptureHeld' = {a} /\ CaptureHeld = {a} /\ GraphHeld' = {}
  BY <1>0, <1>1, <1>2, <1>3 DEF HasTensor, CaptureHeld, GraphHeld
<1>7. CapTypes'
  BY <1>1, <1>2 DEF GInv, CapTypes
<1>8. Control'
  BY <1>0, <1>1, <1>2, <1>3, <1>4, <1>6 DEF GInv, Control
<1>9. CallControl'
  BY <1>1, <1>2, <1>3 DEF GInv, CallControl, AllocatePcs
<1>10. driver[b.ptr] = b.size /\ b.ptr \in Ptrs
  BY <1>0, <1>1, <1>2, NowFacts DEF RealSizes, ArenaAt, Types, Blocks
<1>11. Tensor'
  BY <1>0, <1>1, <1>2, <1>4, <1>10 DEF Tensor
<1>12. Unfaulted'
  BY <1>1, <1>3 DEF GInv, Unfaulted, Control
<1>13. \A h \in Handles : ~Piece(h)'
  <2> SUFFICES ASSUME NEW h \in Handles, storage[h] # NoBlock, storage[h].ptr = b.ptr
               PROVE  h = a
    BY <1>0, <1>1, <1>2, <1>4, <1>6 DEF Piece, ArenaAt
  <2>1. Has("handle", a, b.ptr) /\ Has("handle", h, b.ptr) /\ ~ArenaAt(b.ptr)
    BY <1>0, <1>1, <1>2 DEF Has, Holds, ArenaAt
  <2> QED
    BY <1>10, <2>1, NowFacts DEF Owned
<1>14. Pieces'
  BY <1>3, <1>13 DEF Pieces
<1>15. NotCached'
  BY <1>1 DEF GInv, NotCached
<1>16. References'
  BY <1>0, <1>1, <1>2, <1>3, <1>6 DEF GInv, References
<1>17. GraphFacts'
  BY <1>1, <1>3 DEF GraphFacts
<1> QED
  BY <1>5, <1>7, <1>8, <1>9, <1>11, <1>12, <1>14, <1>15, <1>16, <1>17 DEF GInv

LEMMA CloneAndFreezeStep ==
  ASSUME GInv, CloneAndFreeze
  PROVE  GInv'
<1>1. /\ cap.pc = "freeze" /\ At(Capturer, "idle") /\ frozen' = TRUE
      /\ refs' = [h \in Handles |-> IF h \in cap.io THEN refs[h] \cup {"capture"} ELSE refs[h]]
      /\ CapGoto("begin") /\ UNCHANGED <<graph, recording, faults>>
      /\ UNCHANGED <<driver, freeList, totalBytes, lock, arena, captured, call, storage>>
  BY DEF CloneAndFreeze, CapAt, Freeze
<1>2. /\ cap' \in Captures /\ cap'.pc = "begin" /\ cap'.arena = cap.arena /\ cap'.io = cap.io
      /\ cap'.withArena = cap.withArena
  BY <1>1, CapMoves
<1>3. /\ Now.pc = "idle" /\ Now' = Now /\ graph = NoGraph /\ GraphHeld = {}
      /\ Now.handle = NoHandle /\ NoHandle \notin Handles /\ refs \in [Handles -> SUBSET Roles]
  BY <1>1, BetweenCalls, CapFacts DEF Now
<1>4. Buffers'
  <2> SUFFICES ASSUME NEW leaks \in BOOLEAN, faults' = {} \/ leaks
               PROVE  IInv(leaks)'
    BY DEF Buffers
  <2>1. IInv(leaks)
    BY <1>1 DEF GInv, Buffers
  <2> QED
    BY <1>1, <2>1, StutterIInv
<1>5. /\ HasTensor' <=> HasTensor
      /\ CaptureHeld' = CaptureHeld \cup cap.io /\ GraphHeld' = {}
  BY <1>1, <1>2, <1>3 DEF HasTensor, CaptureHeld, GraphHeld
<1>6. refs' \in [Handles -> SUBSET Roles] /\ CapTypes'
  <2>1. refs' \in [Handles -> SUBSET Roles]
    BY <1>1, <1>3 DEF Roles
  <2> QED
    BY <1>1, <1>2, <2>1 DEF GInv, CapTypes
<1>7. Control'
  BY <1>1, <1>2, <1>3, <1>5 DEF GInv, Control
<1>8. CallControl'
  BY <1>1, <1>3 DEF GInv, CallControl, AllocatePcs
<1>9. Tensor'
  BY <1>1, <1>2, <1>5 DEF GInv, Tensor
<1>10. Unfaulted'
  BY <1>1, <1>2, <1>3, <1>5 DEF GInv, Unfaulted
<1>11. \A h \in Handles : Piece(h)' <=> Piece(h)
  BY <1>1, <1>2, <1>5 DEF Piece, ArenaAt
<1>12. Pieces' /\ NotCached'
  BY <1>1, <1>2, <1>3, <1>11 DEF GInv, Pieces, NotCached
<1>13. References'
  <2>1. ASSUME NEW h \in Handles, storage'[h] # NoBlock \/ h = Now'.handle
        PROVE  /\ refs'[h] # {} /\ "graph" \notin refs'[h]
               /\ "capture" \in refs'[h] <=> h \in CaptureHeld'
    <3>1. /\ refs[h] # {} /\ "graph" \notin refs[h]
          /\ "capture" \in refs[h] <=> h \in CaptureHeld
      BY <1>1, <1>3, <2>1 DEF GInv, References
    <3>2. CASE h \in cap.io
      BY <1>1, <1>5, <3>1, <3>2
    <3>3. CASE h \notin cap.io
      BY <1>1, <1>5, <3>1, <3>3
    <3> QED
      BY <3>2, <3>3
  <2>2. \A h \in cap'.io : storage'[h] # NoBlock /\ ~storage'[h].graph /\ "user" \in refs'[h]
    BY <1>1, <1>2, CapFacts DEF GInv, References
  <2>3. HasTensor' => refs'[cap'.arena] = {"capture"}
    BY <1>1, <1>2, <1>5 DEF GInv, References, Control, HasTensor
  <2> QED
    BY <1>1, <1>2, <1>3, <1>5, <2>1, <2>2, <2>3 DEF References
<1>14. GraphFacts'
  BY <1>1, <1>3 DEF GraphFacts
<1> QED
  BY <1>4, <1>6, <1>7, <1>8, <1>9, <1>10, <1>12, <1>13, <1>14 DEF GInv

\* The window closes: nothing in it is left but the arena's own handle.
LEMMA RestoreStep ==
  ASSUME GInv, Restore
  PROVE  GInv'
<1>1. /\ cap.pc = "unfreeze" /\ At(Capturer, "idle") /\ Unfreeze(Capturer) /\ frozen' = FALSE
      /\ call' = [call EXCEPT ![Capturer].pc = "clearArena"]
      /\ CapGoto("wrap") \/ CapGoto("unwind")
      /\ UNCHANGED <<refs, graph, recording, faults>>
      /\ UNCHANGED <<driver, freeList, totalBytes, lock, arena, captured, storage>>
  BY DEF Restore, CapAt, Unfreeze, Goto
<1>2. /\ cap' \in Captures /\ cap'.pc \in {"wrap", "unwind"} /\ cap'.arena = cap.arena
      /\ cap'.io = cap.io /\ cap'.withArena = cap.withArena
  BY <1>1, CapMoves
<1>3. /\ Now.pc = "idle" /\ graph = NoGraph /\ GraphHeld = {} /\ Capturer \in Threads
      /\ Now.handle = NoHandle /\ NoHandle \notin Handles
  BY <1>1, BetweenCalls, CapFacts, GraphAssumption
<1>4. Now'.pc = "clearArena" /\ Now'.handle = NoHandle
      /\ \A t \in Threads \ {Capturer} : call'[t] = Idle
  BY <1>1, <1>3, NowFacts DEF Types, Calls, Now
<1>5. Buffers'
  <2> SUFFICES ASSUME NEW leaks \in BOOLEAN, faults' = {} \/ leaks
               PROVE  IInv(leaks)'
    BY DEF Buffers
  <2>1. IInv(leaks)
    BY <1>1 DEF GInv, Buffers
  <2> QED
    BY <1>1, <1>3, <2>1, UnfreezeStep
<1>6. /\ HasTensor' <=> HasTensor
      /\ CaptureHeld' = CaptureHeld /\ GraphHeld' = {}
  BY <1>1, <1>2, <1>3 DEF HasTensor, CaptureHeld, GraphHeld
<1>7. CapTypes'
  BY <1>1, <1>2 DEF GInv, CapTypes
<1>8. Control'
  BY <1>1, <1>2, <1>3, <1>4, <1>6 DEF GInv, Control
<1>9. CallControl'
  BY <1>1, <1>2, <1>4 DEF CallControl, AllocatePcs
<1>10. Tensor'
  BY <1>1, <1>2, <1>6 DEF GInv, Tensor
<1>11. Unfaulted'
  BY <1>1, <1>4 DEF GInv, Unfaulted
<1>12. \A h \in Handles : ~Piece(h)'
  <2>1. \A h \in Handles : ~Piece(h)
    BY <1>1 DEF GInv, Pieces
  <2> QED
    BY <1>1, <1>2, <1>6, <2>1 DEF Piece, ArenaAt
<1>13. Pieces' /\ NotCached'
  BY <1>1, <1>4, <1>12 DEF GInv, Pieces, NotCached
<1>14. References'
  BY <1>1, <1>2, <1>3, <1>4, <1>6 DEF GInv, References
<1>15. GraphFacts'
  BY <1>1, <1>3 DEF GraphFacts
<1> QED
  BY <1>5, <1>7, <1>8, <1>9, <1>10, <1>11, <1>13, <1>14, <1>15 DEF GInv

LEMMA InitGInv ==
  ASSUME GInit
  PROVE  GInv
<1>1. /\ Init /\ refs = [h \in Handles |-> {}] /\ cap = NoCapture /\ graph = NoGraph
      /\ recording = FALSE /\ faults = {}
  BY DEF GInit
<1>2. /\ frozen = FALSE /\ arena = NoArena /\ captured = {} /\ Now = Idle
      /\ call = [t \in Threads |-> Idle] /\ storage = [h \in Handles |-> NoBlock]
  BY <1>1, GraphAssumption DEF Init, Now
<1>3. /\ Idle.pc = "idle" /\ Idle.handle = NoHandle /\ NoHandle \notin Handles
      /\ cap \in Captures /\ cap.pc = "idle" /\ cap.io = {} /\ cap.withArena = FALSE
  BY <1>1, NoCaptureFacts, ConstantsAssumption DEF Idle, Freeing, Frame
<1>4. ~HasTensor /\ CaptureHeld = {} /\ GraphHeld = {}
  BY <1>1, <1>3 DEF HasTensor, CaptureHeld, GraphHeld
<1>5. Buffers
  BY <1>1, InitIInv DEF Buffers, IInv, Owned
<1>6. CapTypes /\ Control
  BY <1>1, <1>2, <1>3, <1>4 DEF CapTypes, Control, Roles
<1>7. CallControl /\ Tensor /\ Unfaulted /\ Pieces /\ NotCached
  BY <1>2, <1>3, <1>4 DEF CallControl, Tensor, Unfaulted, Pieces, Piece, NotCached, AllocatePcs
<1>8. References /\ GraphFacts
  BY <1>1, <1>2, <1>3, <1>4 DEF References, GraphFacts
<1> QED
  BY <1>5, <1>6, <1>7, <1>8 DEF GInv

LEMMA GNextGInv ==
  ASSUME GInv, [GNext]_gvars
  PROVE  GInv'
<1>1. CASE Program
  BY <1>1, CreateStep, ForgetStep, ContinueStep DEF Program
<1>2. CASE CaptureStep
  <2>1. CASE \E io \in SUBSET Handles, withArena \in BOOLEAN : Capture(io, withArena)
    BY <2>1, CaptureActionStep
  <2>2. CASE \E h \in Handles, n \in Sizes : ArenaTensor(h, n)
    BY <2>2, ArenaTensorStep
  <2> QED
    BY <1>2, <2>1, <2>2, ArenaTensorFailedStep, InstallActionStep, InstallRefusedStep,
       CloneAndFreezeStep, BeginStep, EndCaptureStep, RestoreStep, WrapStep, UnwindStep
    DEF CaptureStep
<1>3. CASE DropStep
  BY <1>3, DropGraphStep, DropIOStep, DropArenaStep DEF DropStep
<1>4. CASE UNCHANGED gvars
  BY <1>4, GStutter
<1> QED
  BY <1>1, <1>2, <1>3, <1>4 DEF GNext

-----------------------------------------------------------------------------
\* The inductive invariant of graph capture: how far the call has come says what the
\* allocator's flag, arena and set of addresses are, who holds a reference to each
\* Storage, and that the arena is cut into pieces that lie apart; whatever the arena's
\* size and the closure's allocations, and whether begin_capture fails or not.
THEOREM CaptureInvariant == GSpec => []GInv
<1>1. GInit => GInv
  BY InitGInv
<1>2. GInv /\ [GNext]_gvars => GInv'
  BY GNextGInv
<1> QED
  BY <1>1, <1>2, PTL DEF GSpec

\* Whatever way a capture ends, the allocator is unfrozen, holds no arena and no
\* address of the window, and the stream is out of capture mode, by the time the
\* program goes on; only a begin_capture that fails leaves it otherwise.
THEOREM CaptureRestores == GSpec => []RestoredOnReturn
<1>1. GInv => RestoredOnReturn
  <2> SUFFICES ASSUME GInv, CapAt("idle"), "begin" \notin faults
               PROVE  ~frozen /\ arena = NoArena /\ captured = {} /\ ~recording
    BY DEF RestoredOnReturn
  <2>1. cap.pc = "idle" /\ At(Capturer, "idle")
    BY DEF CapAt
  <2>2. ~frozen /\ ~recording
    BY <2>1 DEF GInv, Control
  <2> QED
    BY <2>1, <2>2, BetweenCalls
<1> QED
  BY <1>1, CaptureInvariant, PTL

\* No two tensors share a byte of device memory, in a window or out of it and even
\* after a fault: only the arena's own buffer holds what is allocated from it.
THEOREM TensorsDoNotAlias == GSpec => []NoAlias
<1>1. GInv => NoAlias
  <2> SUFFICES ASSUME GInv, NEW g \in Live, NEW h \in Live, g # h, Overlap(storage[g], storage[h])
               PROVE  cap.arena \in {g, h} /\ arena # NoArena
    BY DEF NoAlias
  <2>1. PICK a, b, p : a = storage[g] /\ b = storage[h] /\ p = a.ptr
    OBVIOUS
  <2>2. /\ g \in Handles /\ h \in Handles /\ a # NoBlock /\ b # NoBlock /\ b.ptr = p
        /\ a.off < b.off + b.size /\ b.off < a.off + a.size
    BY <2>1 DEF Live, Overlap
  <2>3. a \in Blocks /\ b \in Blocks
    BY <2>1, <2>2, NowFacts DEF Types
  <2>4. ArenaAt(p)
    <3>1. Has("handle", g, p) /\ Has("handle", h, p) /\ p \in Ptrs
      BY <2>1, <2>2, <2>3 DEF Has, Holds, Blocks
    <3> QED
      BY <3>1, NowFacts DEF Owned
  <2>5. ~Apart(a, b)
    BY <2>2, <2>3, BlockNumbers DEF Apart
  <2>6. ~(Piece(g) /\ Piece(h))
    BY <2>1, <2>2, <2>5 DEF GInv, Pieces
  <2> QED
    BY <2>1, <2>2, <2>4, <2>6 DEF Piece, ArenaAt
<1> QED
  BY <1>1, CaptureInvariant, PTL

\* Captures and the drops of what they return lose no buffer and free none twice,
\* as long as no fault has happened.
THEOREM CaptureKeepsOneOwner == GSpec => []OneOwnerUnlessFaulted
<1>1. GInv => OneOwnerUnlessFaulted
  <2> SUFFICES ASSUME GInv, faults = {}, NEW p \in Ptrs
               PROVE  OwnersOf(p) = IF driver[p] # 0 THEN 1 ELSE 0
    BY DEF OneOwnerUnlessFaulted, OneOwner
  <2>1. PICK leaks \in BOOLEAN : IInv(leaks) /\ ~leaks
    BY DEF GInv, Buffers
  <2>2. CASE ~ArenaAt(p)
    BY <2>1, <2>2, OwnersCounted
  <2>3. CASE ArenaAt(p)
    <3> DEFINE inHandles == {h \in Handles : Owns(storage[h], p)}
               inCalls == {t \in Threads : Owns(call[t].block, p)}
               inList == {w \in UNION {{n} \X DOMAIN freeList[n] : n \in Sizes} :
                            freeList[w[1]][w[2]] = p}
               freeing == {t \in Threads : p \in call[t].toFree}
    <3>1. OwnersOf(p) = Cardinality(inHandles) + Cardinality(inCalls)
                          + Cardinality(inList) + Cardinality(freeing)
      BY DEF OwnersOf
    <3>2. /\ arena # NoArena /\ arena.base = p /\ driver[p] # 0
          /\ \A k, a : Has(k, a, p) => k \in {"handle", "carrier"}
      BY <2>1, <2>3 DEF IInv, Owned, ArenaAt
    <3>3. HasTensor /\ cap.arena \in Handles
      BY <3>2 DEF GInv, Control, HasTensor
    <3>4. /\ storage[cap.arena] # NoBlock /\ storage[cap.arena].ptr = p
          /\ ~storage[cap.arena].graph
      BY <3>2, <3>3 DEF GInv, Tensor, Unfaulted
    <3>5. inHandles = {cap.arena}
      <4>1. cap.arena \in inHandles
        BY <3>3, <3>4 DEF Owns
      <4>2. ASSUME NEW h \in inHandles, h # cap.arena
            PROVE  FALSE
        <5>1. Piece(h) /\ ~storage[h].graph
          BY <2>3, <3>2, <4>2 DEF Owns, Piece
        <5> QED
          BY <5>1 DEF GInv, Pieces, InArena
      <4> QED
        BY <4>1, <4>2
    <3>6. inCalls = {}
      <4> SUFFICES ASSUME NEW t \in Threads, Owns(call[t].block, p)
                   PROVE  FALSE
        OBVIOUS
      <4>1. t = Capturer /\ call[t] = Now /\ Now.block # NoBlock
            /\ Now.block.ptr = p /\ ~Now.block.graph
        BY <3>2, NowFacts DEF Owns, Now
      <4>2. Now.pc \in {"push", "arenaFree", "record"}
        BY <4>1, NowFacts DEF Fits, Carrying
      <4>3. Now.pc # "push"
        BY <3>2, NowFacts DEF GInv, CallControl
      <4> QED
        BY <3>2, <4>1, <4>2, <4>3 DEF GInv, Unfaulted
    <3>7. freeing = {} /\ inList = {}
      <4>1. \A t \in Threads : ~Has("freer", t, p)
        BY <3>2
      <4>2. \A n \in Sizes : ~Has("list", n, p)
        BY <3>2
      <4>3. freeing = {}
        BY <4>1 DEF Has
      <4>4. inList = {}
        BY <4>2 DEF Has, ListOf
      <4> QED
        BY <4>3, <4>4
    <3>8. Cardinality({}) = 0 /\ Cardinality({cap.arena}) = 1
      BY FS_EmptySet, FS_Singleton
    <3> HIDE DEF inHandles, inCalls, inList, freeing
    <3> QED
      BY <3>1, <3>2, <3>5, <3>6, <3>7, <3>8
  <2> QED
    BY <2>2, <2>3
<1> QED
  BY <1>1, CaptureInvariant, PTL

(***************************************************************************)
(* What a window with an arena gives out                                   *)
(***************************************************************************)
HasArena == cap.withArena /\ cap.pc \in {"freeze", "begin", "closure", "unfreeze"}

\* Addresses below top, in a block that reaches that far.
Lies(addresses, top, b) == top <= b.size /\ \A a \in addresses : a[1] = b.ptr /\ a[2] < top

\* As long as begin_capture has not failed: the arena spans its buffer, what the
\* window has given out so far is below its high-water mark, and what was given out
\* by the end of the capture is what the capture, then the CapturedGraph, has noted.
WindowInv ==
  "begin" \notin faults =>
    /\ HasArena => arena # NoArena
    /\ arena # NoArena => arena.size = storage[cap.arena].size /\ arena.highWater <= arena.size
    /\ HasArena => \A a \in captured : a[1] = arena.base /\ a[2] < arena.highWater
    /\ Now.pc = "record" /\ arena # NoArena =>
         Now.block.ptr = arena.base /\ Now.block.off < arena.highWater
    /\ cap.withArena /\ cap.pc \in {"unfreeze", "wrap"} =>
         Lies(cap.window, cap.top, storage[cap.arena])
    /\ graph # NoGraph /\ graph.withArena =>
         Lies(graph.window, graph.top, graph.held[graph.arena])

\* Steps that leave the window as it is, or are outside of any.
LEMMA WindowKept ==
  ASSUME GInv, WindowInv, UNCHANGED <<arena, captured>>, Now'.pc # "record",
         graph' \in {graph, NoGraph}, faults \subseteq faults',
         \/ /\ arena = NoArena
            /\ ~(cap'.withArena /\ cap'.pc \in {"freeze", "begin", "closure", "unfreeze", "wrap"})
         \/ UNCHANGED cap /\ (HasTensor => storage'[cap.arena] = storage[cap.arena])
  PROVE  WindowInv'
<1> SUFFICES ASSUME "begin" \notin faults', "begin" \notin faults PROVE WindowInv'
  BY DEF WindowInv
<1>1. arena # NoArena => HasTensor
  BY DEF GInv, Control
<1>2. graph' # NoGraph /\ graph'.withArena =>
        Lies(graph'.window, graph'.top, graph'.held[graph'.arena])
  BY DEF WindowInv
<1>3. CASE /\ arena = NoArena
           /\ ~(cap'.withArena /\ cap'.pc \in {"freeze", "begin", "closure", "unfreeze", "wrap"})
  BY <1>2, <1>3 DEF WindowInv, HasArena
<1>4. CASE UNCHANGED cap /\ (HasTensor => storage'[cap.arena] = storage[cap.arena])
  BY <1>1, <1>2, <1>4 DEF WindowInv, HasArena, HasTensor
<1> QED
  BY <1>3, <1>4

\* Each address of the window is put into captured_ptrs after the arena has moved on.
LEMMA ContinueGivesOut ==
  ASSUME GInv, WindowInv, Continue
  PROVE  WindowInv'
<1> SUFFICES ASSUME "begin" \notin faults PROVE WindowInv'
  BY DEF WindowInv, Continue
<1>1. /\ UNCHANGED <<refs, cap, graph, recording, faults>>
      /\ Inner \/ Carries \/ Stores \/ Forgets \/ Clears \/ Empties
      /\ Types /\ NoArena \notin Arenas
  BY NowFacts, Continues, ConstantsAssumption DEF Continue, GInv
<1>2. HasTensor' = HasTensor /\ HasArena' = HasArena
  BY <1>1 DEF HasTensor, HasArena
<1>3. HasTensor => storage'[cap.arena] = storage[cap.arena]
  <2>1. HasTensor => cap.arena \in Handles /\ storage[cap.arena] # NoBlock
    BY DEF GInv, Control, Tensor, HasTensor
  <2> QED
    BY <2>1, ContinueStorage
<1>4. arena # NoArena => HasTensor
  BY DEF GInv, Control
<1>5. CASE Inner
  BY <1>1, <1>5, WindowKept, <1>3 DEF Inner
<1>6. CASE Carries
  <2>1. CASE arena' = arena
    <3>1. Now.pc \in {"driver", "drained"} \/ arena = NoArena \/ Now.pc = "arena"
      BY <1>6 DEF Carries
    <3>2. arena = NoArena \/ Now.pc = "arena"
      BY <3>1 DEF GInv, CallControl
    <3>3. arena = NoArena
      <4> SUFFICES ASSUME Now.pc = "arena", arena # NoArena PROVE FALSE
        BY <3>2
      <4>1. PICK n \in Sizes : arena'.highWater = arena.highWater + Footprint(n)
        BY <1>6 DEF Carries
      <4>2. arena.highWater \in Nat
        BY <1>1 DEF Types, Arenas
      <4>3. n \in Nat \ {0} /\ Footprint(n) \in Nat /\ n <= Footprint(n)
        BY FootprintCovers, ConstantsAssumption
      <4> QED
        BY <2>1, <4>1, <4>2, <4>3
    <3> QED
      BY <1>1, <1>2, <1>6, <2>1, <3>3 DEF WindowInv, Carries, HasArena
  <2>2. CASE arena' # arena
    <3>1. PICK n \in Sizes :
            /\ arena \in Arenas /\ arena' \in Arenas /\ arena'.base = arena.base
            /\ arena'.highWater = arena.highWater + Footprint(n)
            /\ Now'.block = Block(arena.base, arena.highWater, n, TRUE)
            /\ arena'.size = arena.size /\ arena'.highWater <= arena.size
      BY <1>6, <2>2 DEF Carries
    <3>2. /\ arena.highWater \in Nat /\ Footprint(n) \in Nat \ {0} /\ n <= Footprint(n)
      BY <3>1, FootprintCovers, ConstantsAssumption DEF Arenas
    <3>3. arena.highWater < arena'.highWater
      BY <3>1, <3>2
    <3>4. Now'.block.ptr = arena'.base /\ Now'.block.off < arena'.highWater
      BY <3>1, <3>3 DEF Block
    <3>5. arena # NoArena /\ arena' # NoArena
      BY <1>1, <3>1
    <3>6. captured' = captured
      BY <1>6 DEF Carries
    <3>7. HasArena => \A a \in captured' : a[1] = arena'.base /\ a[2] < arena'.highWater
      <4> SUFFICES ASSUME HasArena, NEW a \in captured
                   PROVE  a[1] = arena'.base /\ a[2] < arena'.highWater
        BY <3>6
      <4>1. a[1] = arena.base /\ a[2] < arena.highWater /\ a[2] \in Nat
        BY DEF WindowInv, GInv, NotCached
      <4> QED
        BY <3>1, <3>2, <4>1
    <3>8. arena'.size = storage'[cap.arena].size /\ arena'.highWater <= arena'.size
      BY <1>3, <1>4, <3>1, <3>5 DEF WindowInv
    <3>9. cap.withArena /\ cap.pc \in {"unfreeze", "wrap"} =>
            Lies(cap.window, cap.top, storage'[cap.arena])
      BY <1>3 DEF WindowInv, HasTensor
    <3> QED
      BY <1>1, <1>2, <3>4, <3>5, <3>7, <3>8, <3>9 DEF WindowInv
  <2> QED
    BY <2>1, <2>2
<1>7. CASE Stores
  <2>1. /\ Now'.pc # "record" /\ arena' = arena
        /\ \/ captured' = captured
           \/ /\ Now.pc = "record"
              /\ captured' = captured \cup {<<Now.block.ptr, Now.block.off>>}
    BY <1>7 DEF Stores, Idle, Freeing, Frame
  <2>2. HasArena => \A a \in captured' : a[1] = arena'.base /\ a[2] < arena'.highWater
    <3> SUFFICES ASSUME HasArena, NEW a \in captured', a \notin captured
                 PROVE  a[1] = arena'.base /\ a[2] < arena'.highWater
      BY <2>1 DEF WindowInv
    <3>1. Now.pc = "record" /\ a = <<Now.block.ptr, Now.block.off>>
      BY <2>1
    <3> QED
      BY <2>1, <3>1 DEF WindowInv
  <2>3. arena' # NoArena =>
          arena'.size = storage'[cap.arena].size /\ arena'.highWater <= arena'.size
    BY <1>3, <1>4, <2>1 DEF WindowInv
  <2>4. cap.withArena /\ cap.pc \in {"unfreeze", "wrap"} =>
          Lies(cap.window, cap.top, storage'[cap.arena])
    BY <1>3 DEF WindowInv, HasTensor
  <2> QED
    BY <1>1, <1>2, <2>1, <2>2, <2>3, <2>4 DEF WindowInv
<1>8. CASE Forgets
  <2>1. /\ Now'.pc # "record" /\ captured' = captured /\ storage' = storage
        /\ arena # NoArena /\ arena'.base = arena.base /\ arena'.highWater = arena.highWater
        /\ arena'.size = arena.size /\ arena' # NoArena
    BY <1>1, <1>8 DEF Forgets, Idle, Freeing, Frame
  <2> QED
    BY <1>1, <1>2, <2>1 DEF WindowInv
<1>9. CASE Clears \/ Empties
  <2>1. /\ Now'.pc # "record" /\ storage' = storage /\ arena' \in {arena, NoArena}
        /\ cap.pc \in {"wrap", "unwind"}
    BY <1>9 DEF Clears, Empties, Idle, Freeing, Frame, GInv, CallControl
  <2> QED
    BY <1>1, <1>2, <2>1 DEF WindowInv, HasArena
<1> QED
  BY <1>1, <1>5, <1>6, <1>7, <1>8, <1>9

LEMMA ProgramWindow ==
  ASSUME GInv, WindowInv, Program
  PROVE  WindowInv'
<1>1. CASE \E h \in Handles, n \in Sizes : Create(h, n)
  <2>1. PICK h \in Handles, n \in Sizes : Create(h, n)
    BY <1>1
  <2>2. Allocate(Capturer, h, n) /\ UNCHANGED <<cap, graph, faults>>
    BY <2>1 DEF Create
  <2>3. UNCHANGED <<arena, captured, storage>> /\ Now'.pc # "record"
    BY <2>2, AllocateFacts
  <2> QED
    BY <2>2, <2>3, WindowKept
<1>2. CASE \E h \in Handles : Forget(h)
  <2>1. PICK h \in Handles : Forget(h)
    BY <1>2
  <2>2. /\ At(Capturer, "idle") /\ "user" \in refs[h] /\ UNCHANGED <<cap, graph>>
        /\ faults \subseteq faults'
        /\ Deallocate(Capturer, h) \/ UNCHANGED vars
    BY <2>1 DEF Forget, Drop
  <2>3. Now.pc = "idle" /\ (HasTensor => cap.arena \in Handles \ {h})
    BY <2>2, BetweenCalls DEF GInv, References, Control, HasTensor
  <2>4. /\ UNCHANGED <<arena, captured>> /\ Now'.pc # "record"
        /\ HasTensor => storage'[cap.arena] = storage[cap.arena]
    <3>1. CASE Deallocate(Capturer, h)
      BY <2>3, <3>1, DeallocateFacts
    <3>2. CASE UNCHANGED vars
      BY <2>3, <3>2 DEF vars, Now
    <3> QED
      BY <2>2, <3>1, <3>2
  <2> QED
    BY <2>2, <2>4, WindowKept
<1>3. CASE Continue
  BY <1>3, ContinueGivesOut
<1> QED
  BY <1>1, <1>2, <1>3 DEF Program

\* Outside of a window: no arena, unless begin_capture has failed.
LEMMA OutsideWindow ==
  ASSUME GInv, WindowInv, At(Capturer, "idle"), graph' \in {graph, NoGraph}, UNCHANGED faults,
         ~HasArena,
         ~(cap'.withArena /\ cap'.pc \in {"freeze", "begin", "closure", "unfreeze", "wrap"}),
         \/ UNCHANGED vars
         \/ \E h \in Handles : Deallocate(Capturer, h) \/ \E n \in Sizes : Allocate(Capturer, h, n)
  PROVE  WindowInv'
<1> SUFFICES ASSUME "begin" \notin faults PROVE WindowInv'
  BY DEF WindowInv
<1>1. Now.pc = "idle" /\ arena = NoArena
  BY BetweenCalls DEF GInv, Control, HasTensor, HasArena
<1>2. UNCHANGED <<arena, captured>> /\ Now'.pc # "record"
  <2>1. CASE UNCHANGED vars
    BY <1>1, <2>1 DEF vars, Now
  <2>2. CASE \E h \in Handles : Deallocate(Capturer, h) \/ \E n \in Sizes : Allocate(Capturer, h, n)
    BY <2>2, DeallocateFacts, AllocateFacts
  <2> QED
    BY <2>1, <2>2
<1> QED
  BY <1>1, <1>2, WindowKept

LEMMA InstallWindow ==
  ASSUME GInv, WindowInv, Install
  PROVE  WindowInv'
<1> SUFFICES ASSUME "begin" \notin faults PROVE WindowInv'
  BY DEF WindowInv, Install
<1>1. PICK b : b = storage[cap.arena]
  OBVIOUS
<1>2. /\ cap.pc = "install" /\ At(Capturer, "idle") /\ CapGoto("freeze") /\ b # NoBlock
      /\ arena' = NewArena(b.ptr, b.size)
      /\ UNCHANGED <<captured, call, storage, graph, faults>>
  BY <1>1 DEF Install, CapAt, InstallArena
<1>3. cap'.pc = "freeze" /\ cap'.arena = cap.arena /\ cap.arena \in Handles
  BY <1>2, CapMoves DEF GInv, Control
<1>4. Now'.pc = "idle" /\ captured = {}
  BY <1>2, BetweenCalls DEF Now, GInv, Control
<1>5. b.size \in Nat
  BY <1>1, <1>2, <1>3, NowFacts, ConstantsAssumption DEF Types, Blocks
<1>6. /\ arena'.size = b.size /\ arena'.highWater = 0 /\ arena' \in Arenas /\ arena' # NoArena
  <2>1. b \in Blocks
    BY <1>1, <1>2, <1>3, NowFacts DEF Types
  <2> QED
    BY <1>2, <1>5, <2>1, ConstantsAssumption DEF NewArena, Arenas, Blocks
<1>7. graph' # NoGraph /\ graph'.withArena =>
        Lies(graph'.window, graph'.top, graph'.held[graph'.arena])
  BY <1>2 DEF WindowInv
<1> QED
  BY <1>1, <1>2, <1>3, <1>4, <1>5, <1>6, <1>7 DEF WindowInv, HasArena

\* clone, freeze and begin_capture: nothing has been given out.
LEMMA OpenWindow ==
  ASSUME GInv, WindowInv, CloneAndFreeze \/ BeginCapture \/ BeginCaptureFails
  PROVE  WindowInv'
<1> SUFFICES ASSUME "begin" \notin faults, "begin" \notin faults' PROVE WindowInv'
  BY DEF WindowInv, CloneAndFreeze, BeginCapture, BeginCaptureFails
<1>1. PICK pc \in {"begin", "closure"} : CapGoto(pc)
  BY DEF CloneAndFreeze, BeginCapture, BeginCaptureFails
<1>2. /\ cap.pc \in {"freeze", "begin"} /\ At(Capturer, "idle")
      /\ UNCHANGED <<arena, captured, call, storage, graph>>
  BY DEF CloneAndFreeze, BeginCapture, BeginCaptureFails, CapAt, Freeze, vars
<1>3. cap'.pc = pc /\ cap'.arena = cap.arena /\ cap'.withArena = cap.withArena
  BY <1>1, CapMoves
<1>4. Now' = Now
  BY <1>2 DEF Now
<1> QED
  BY <1>2, <1>3, <1>4 DEF WindowInv, HasArena

\* What the window has given out is noted with the end of the capture.
LEMMA CloseWindow ==
  ASSUME GInv, WindowInv, EndCapture \/ Restore
  PROVE  WindowInv'
<1> SUFFICES ASSUME "begin" \notin faults PROVE WindowInv'
  BY DEF WindowInv, EndCapture, Restore
<1>1. cap \in Captures
  BY CapFacts
<1>2. CASE EndCapture
  <2>1. /\ cap.pc = "closure" /\ At(Capturer, "idle") /\ UNCHANGED <<vars, graph, faults>>
        /\ cap'.pc = "unfreeze" /\ cap'.arena = cap.arena /\ cap'.withArena = cap.withArena
        /\ cap'.window = captured /\ cap'.top = Top
    BY <1>1, <1>2 DEF EndCapture, CapAt, Captures
  <2>2. UNCHANGED <<arena, captured, storage>> /\ Now' = Now
    BY <2>1 DEF vars, Now
  <2>3. cap.withArena => Lies(captured, Top, storage[cap.arena])
    <3> SUFFICES ASSUME cap.withArena PROVE Lies(captured, Top, storage[cap.arena])
      OBVIOUS
    <3>1. HasArena /\ HasTensor
      BY <2>1 DEF HasArena, HasTensor
    <3>2. arena # NoArena /\ arena.base = storage[cap.arena].ptr
      BY <3>1 DEF WindowInv, GInv, Tensor
    <3> QED
      BY <3>1, <3>2 DEF WindowInv, Lies, Top
  <2> QED
    BY <2>1, <2>2, <2>3 DEF WindowInv, HasArena
<1>3. CASE Restore
  <2>1. /\ cap.pc = "unfreeze" /\ UNCHANGED <<arena, captured, storage, graph, faults>>
        /\ CapGoto("wrap") \/ CapGoto("unwind")
        /\ call' = [call EXCEPT ![Capturer].pc = "clearArena"]
    BY <1>3 DEF Restore, CapAt, Unfreeze, Goto
  <2>2. /\ cap'.pc \in {"wrap", "unwind"} /\ cap'.arena = cap.arena
        /\ cap'.withArena = cap.withArena /\ cap'.window = cap.window /\ cap'.top = cap.top
    BY <2>1, CapMoves
  <2>3. Now'.pc = "clearArena"
    BY <2>1, NowFacts DEF Types, Calls, Now
  <2> QED
    BY <2>1, <2>2, <2>3 DEF WindowInv, HasArena
<1> QED
  BY <1>2, <1>3

LEMMA WrapWindow ==
  ASSUME GInv, WindowInv, Wrap
  PROVE  WindowInv'
<1> SUFFICES ASSUME "begin" \notin faults PROVE WindowInv'
  BY DEF WindowInv, Wrap
<1>1. /\ cap.pc = "wrap" /\ At(Capturer, "idle") /\ cap' = NoCapture
      /\ UNCHANGED <<vars, faults>>
      /\ graph'.arena = cap.arena /\ graph'.withArena = cap.withArena
      /\ graph'.window = cap.window /\ graph'.top = cap.top
      /\ cap.withArena => graph'.held[cap.arena] = storage[cap.arena]
  BY DEF Wrap, CapAt
<1>2. Now.pc = "idle" /\ Now' = Now /\ arena = NoArena /\ arena' = NoArena
  BY <1>1, BetweenCalls DEF GInv, Control, vars, Now
<1>3. cap'.withArena = FALSE
  BY <1>1, NoCaptureFacts
<1>4. graph'.withArena => Lies(graph'.window, graph'.top, graph'.held[graph'.arena])
  BY <1>1 DEF WindowInv
<1> QED
  BY <1>2, <1>3, <1>4 DEF WindowInv, HasArena

LEMMA GNextWindow ==
  ASSUME GInv, WindowInv, [GNext]_gvars
  PROVE  WindowInv'
<1>1. CASE Program
  BY <1>1, ProgramWindow
<1>2. CASE \E io \in SUBSET Handles, withArena \in BOOLEAN : Capture(io, withArena)
  <2>1. /\ CapAt("idle") /\ UNCHANGED <<vars, graph, faults>>
        /\ cap'.pc = "arenaTensor" \/ cap'.withArena = FALSE
    BY <1>2 DEF Capture, NoCapture
  <2> QED
    BY <2>1, OutsideWindow DEF CapAt, HasArena
<1>3. CASE \E h \in Handles, n \in Sizes : ArenaTensor(h, n)
  <2>1. PICK h \in Handles, n \in Sizes : ArenaTensor(h, n)
    BY <1>3
  <2>2. /\ CapAt("arenaTensor") /\ UNCHANGED <<graph, faults>> /\ Allocate(Capturer, h, n)
        /\ cap' = [cap EXCEPT !.pc = "install", !.arena = h]
    BY <2>1 DEF ArenaTensor
  <2>3. cap'.pc = "install"
    BY <2>2, CapFacts DEF Captures
  <2> QED
    BY <2>2, <2>3, OutsideWindow DEF CapAt, HasArena
<1>4. CASE ArenaTensorFailed \/ InstallRefused \/ Unwind
  <2>1. /\ At(Capturer, "idle") /\ cap.pc \in {"install", "unwind"} /\ UNCHANGED <<graph, faults>>
        /\ cap' = NoCapture
        /\ UNCHANGED vars \/ (Deallocate(Capturer, cap.arena) /\ cap.withArena)
    <3>1. CASE ArenaTensorFailed
      BY <3>1 DEF ArenaTensorFailed, CapAt
    <3>2. CASE InstallRefused
      BY <3>2 DEF InstallRefused, CapAt, Drop, GInv, Control
    <3>3. CASE Unwind
      BY <3>3 DEF Unwind, CapAt
    <3> QED
      BY <1>4, <3>1, <3>2, <3>3
  <2>2. cap'.pc = "idle" /\ (cap.withArena => cap.arena \in Handles)
    BY <2>1, NoCaptureFacts DEF GInv, Control
  <2> QED
    BY <2>1, <2>2, OutsideWindow DEF HasArena
<1>5. CASE Install
  BY <1>5, InstallWindow
<1>6. CASE CloneAndFreeze \/ BeginCapture \/ BeginCaptureFails
  BY <1>6, OpenWindow
<1>7. CASE EndCapture \/ Restore
  BY <1>7, CloseWindow
<1>8. CASE Wrap
  BY <1>8, WrapWindow
<1>9. CASE DropStep
  <2>1. PICK h \in Handles \cup {cap.arena} :
          /\ At(Capturer, "idle") /\ cap.pc \in {"idle", "dropIO"}
          /\ UNCHANGED faults /\ graph' \in {graph, NoGraph}
          /\ cap'.pc \in {"idle", "dropIO"}
          /\ UNCHANGED vars \/ Deallocate(Capturer, h)
          /\ h = cap.arena => (cap.withArena \/ UNCHANGED vars \/ h \in Handles)
    <3>1. cap \in Captures
      BY CapFacts
    <3>2. CASE DropGraph
      BY <3>2 DEF DropGraph, CapAt, NoCapture
    <3>3. CASE \E h \in Handles : DropIO(h)
      BY <3>1, <3>3 DEF DropIO, CapAt, Drop, Captures
    <3>4. CASE DropArena
      BY <3>4, NoCaptureFacts DEF DropArena, CapAt, Drop
    <3> QED
      BY <1>9, <3>2, <3>3, <3>4 DEF DropStep
  <2>2. UNCHANGED vars \/ h \in Handles
    BY <2>1 DEF GInv, Control
  <2> QED
    BY <2>1, <2>2, OutsideWindow DEF HasArena
<1>10. CASE UNCHANGED gvars
  <2>1. UNCHANGED <<arena, captured, storage, call, cap, graph, faults>> /\ Now' = Now
    BY <1>10 DEF gvars, vars, Now
  <2> QED
    BY <2>1 DEF WindowInv, HasArena
<1> QED
  BY <1>1, <1>2, <1>3, <1>4, <1>5, <1>6, <1>7, <1>8, <1>9, <1>10 DEF GNext, CaptureStep

LEMMA WindowInvariant == GSpec => []WindowInv
<1>1. GInit => WindowInv
  <2> SUFFICES ASSUME GInit PROVE WindowInv
    OBVIOUS
  <2>1. /\ arena = NoArena /\ cap = NoCapture /\ graph = NoGraph
    BY DEF GInit, Init
  <2> QED
    BY <2>1, NoCaptureFacts DEF WindowInv, HasArena
<1>2. GInv /\ WindowInv /\ [GNext]_gvars => WindowInv'
  BY GNextWindow
<1> QED
  BY <1>1, <1>2, CaptureInvariant, PTL DEF GSpec

\* As long as the program can launch a CapturedGraph, its inputs, outputs and arena
\* are allocated, stand for the same tensors and for no others, and every address that
\* a window with an arena gave out, whatever the closure allocated and freed, lies in
\* the arena's buffer. Of a capture without an arena the closure's own tensors are not
\* among what is kept.
THEOREM GraphsKeepTheirMemory == GSpec => []GraphMemoryHeld
<1>1. GInv /\ WindowInv => GraphMemoryHeld
  <2> SUFFICES ASSUME GInv, WindowInv, graph # NoGraph
               PROVE  GraphMemoryHeld
    BY DEF GraphMemoryHeld
  <2>0. ASSUME graph.withArena, "begin" \notin faults
        PROVE  Lies(graph.window, graph.top, graph.held[graph.arena])
    BY <2>0 DEF WindowInv
  <2>1. ASSUME NEW h \in DOMAIN graph.held
        PROVE  /\ storage[h] = graph.held[h] /\ driver[storage[h].ptr] # 0
               /\ \A g \in Live \ {h} : ~Overlap(storage[g], storage[h])
    <3>1. h \in GraphHeld /\ storage[h] = graph.held[h]
      BY <2>1 DEF GInv, GraphFacts
    <3>2. h \in Handles /\ storage[h] # NoBlock
      BY <3>1, CapFacts
    <3>3. arena = NoArena
      BY DEF GInv, Control, CallControl
    <3>4. PICK p \in Ptrs : Holds(storage[h], p) /\ storage[h].ptr = p
      BY <3>2, NowFacts DEF Types, Blocks, Holds
    <3>5. Has("handle", h, p)
      BY <3>2, <3>4 DEF Has
    <3>6. driver[p] # 0
      BY <3>4, <3>5, NowFacts DEF Owned
    <3>7. ASSUME NEW g \in Live \ {h}, Overlap(storage[g], storage[h])
          PROVE  FALSE
      <4>1. Has("handle", g, p)
        BY <3>4, <3>7 DEF Has, Holds, Live, Overlap
      <4> QED
        BY <3>3, <3>4, <3>5, <3>7, <4>1, NowFacts DEF Owned, ArenaAt
    <3> QED
      BY <3>1, <3>4, <3>6, <3>7
  <2> QED
    BY <2>0, <2>1 DEF GraphMemoryHeld, Lies
<1> QED
  BY <1>1, CaptureInvariant, WindowInvariant, PTL

\* The check in unfreeze is quiet: no address of a window is in the free list when
\* the set is taken, whatever the closure allocated and freed, and after a
\* begin_capture that failed as well.
THEOREM CaptureNeverCachesItsWindow == GSpec => CorruptionCheckIsQuiet
<1>1. GInv => captured \cap CachedAddresses = {}
  BY DEF GInv, NotCached, CachedAddresses, Cached, ListOf
<1>2. GInv => [\A t \in Threads : TakeCaptured(t) => captured \cap CachedAddresses = {}]_vars
  BY <1>1
<1> QED
  BY <1>2, CaptureInvariant, PTL DEF CorruptionCheckIsQuiet
=============================================================================
