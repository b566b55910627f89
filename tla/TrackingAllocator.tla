------------------------- MODULE TrackingAllocator -------------------------
(***************************************************************************)
(* TrackingAllocator, src/src/runtime/common/allocator.rs, with the owners *)
(* that allocate through it: an AllocGuard while a buffer is being filled, *)
(* a Storage once the guard was released. Every method holds the mutex     *)
(* from its first line to its last, so that each is one step whatever      *)
(* thread runs it. The wrapped allocator is any Allocator: it hands out    *)
(* addresses not in use, may run out, and answers address 0 for 0 bytes,   *)
(* as the CUDA and WebGPU allocators and the one of the tests do.          *)
(***************************************************************************)
EXTENDS Integers, FiniteSets

CONSTANTS
  Owners,           \* the guards and storages alive at a time
  Ptrs,             \* non-null addresses of the wrapped allocator
  Sizes,            \* requested sizes in bytes
  MaxAllocations,   \* bound on total_allocations between two resets
  NoOwner,          \* an owner that does not exist
  Null              \* address 0

ASSUME TrackingAssumption ==
  /\ IsFiniteSet(Owners)
  /\ Sizes \subseteq Nat
  /\ MaxAllocations \in Nat
  /\ Null \notin Ptrs
  /\ NoOwner \notin [kind : {"guard", "storage"}, ptr : Ptrs \cup {Null}, size : Sizes]

VARIABLES
  inner,            \* what the wrapped allocator holds allocated: addresses
  totalAllocations, totalBytes, activeAllocations, activeBytes, peakUsage,
  frozen,
  owner,            \* the AllocGuard or Storage of each name
  high              \* history: most bytes held at once since the last reset

counters == <<totalAllocations, totalBytes, activeAllocations, activeBytes, peakUsage>>
vars == <<inner, counters, frozen, owner, high>>

Alive == {o \in Owners : owner[o] # NoOwner}
\* The bytes that owner o asked for when it is r, and how many there are in all.
BytesOf(o, r) == IF r = NoOwner THEN {} ELSE {o} \X (1 .. r.size)
OwnedBytes(w) == Cardinality(UNION {BytesOf(o, w[o]) : o \in Owners})

Larger(a, b) == IF a > b THEN a ELSE b
SaturatingSub(a, b) == IF a > b THEN a - b ELSE 0

Init ==
  /\ inner = {}
  /\ totalAllocations = 0 /\ totalBytes = 0
  /\ activeAllocations = 0 /\ activeBytes = 0 /\ peakUsage = 0
  /\ frozen = FALSE
  /\ owner = [o \in Owners |-> NoOwner]
  /\ high = 0
----------------------------------------------------------------------------
\* AllocGuard::new and Storage::new: allocate, then wrap the address. Frozen,
\* or when the wrapped allocator fails, they return the error and nothing else.
InnerAnswers(n) == IF n = 0 THEN {Null} ELSE Ptrs \ inner

Allocate_CountsBeforeInner(o, n, kind) ==
  /\ owner[o] = NoOwner
  /\ ~frozen
  /\ totalAllocations < MaxAllocations
  /\ totalAllocations' = totalAllocations + 1
  /\ totalBytes' = totalBytes + n
  /\ activeAllocations' = activeAllocations + 1
  /\ activeBytes' = activeBytes + n
  /\ peakUsage' = Larger(peakUsage, activeBytes')
  /\ \/ \E p \in InnerAnswers(n) :
          /\ inner' = inner \cup ({p} \ {Null})
          /\ owner' = [owner EXCEPT ![o] = [kind |-> kind, ptr |-> p, size |-> n]]
          /\ high' = Larger(high, OwnedBytes(owner'))
     \/ UNCHANGED <<inner, owner, high>>
  /\ UNCHANGED frozen
Allocate(o, n, kind) ==
  /\ owner[o] = NoOwner
  /\ ~frozen
  /\ totalAllocations < MaxAllocations
  /\ \E p \in InnerAnswers(n) :
       /\ inner' = inner \cup ({p} \ {Null})
       /\ owner' = [owner EXCEPT ![o] = [kind |-> kind, ptr |-> p, size |-> n]]
  /\ totalAllocations' = totalAllocations + 1
  /\ totalBytes' = totalBytes + n
  /\ activeAllocations' = activeAllocations + 1
  /\ activeBytes' = activeBytes + n
  /\ peakUsage' = Larger(peakUsage, activeBytes')
  /\ high' = Larger(high, OwnedBytes(owner'))
  /\ UNCHANGED frozen

\* deallocate never fails; the counters stop at 0.
Deallocate(p, n) ==
  /\ inner' = inner \ {p}
  /\ activeAllocations' = SaturatingSub(activeAllocations, 1)
  /\ activeBytes' = SaturatingSub(activeBytes, n)
  /\ UNCHANGED <<totalAllocations, totalBytes, peakUsage>>

\* AllocGuard::release: the address moves into a Storage, and the guard's own
\* drop at the end of release finds released set.
Release_ForgetsFlag(o) ==
  /\ owner[o] # NoOwner /\ owner[o].kind = "guard"
  /\ owner' = [owner EXCEPT ![o].kind = "storage"]
  /\ IF owner[o].ptr # Null THEN Deallocate(owner[o].ptr, owner[o].size)
     ELSE UNCHANGED <<inner, counters>>
  /\ UNCHANGED <<frozen, high>>
Release(o) ==
  /\ owner[o] # NoOwner /\ owner[o].kind = "guard"
  /\ owner' = [owner EXCEPT ![o].kind = "storage"]
  /\ UNCHANGED <<inner, counters, frozen, high>>

\* Drop of a guard that was not released, or of a storage: deallocate is called
\* for a non-null address only.
Drop(o) ==
  /\ owner[o] # NoOwner
  /\ owner' = [owner EXCEPT ![o] = NoOwner]
  /\ IF owner[o].ptr # Null THEN Deallocate(owner[o].ptr, owner[o].size)
     ELSE UNCHANGED <<inner, counters>>
  /\ UNCHANGED <<frozen, high>>

SetFrozen(b) == frozen' = b /\ UNCHANGED <<inner, counters, owner, high>>

\* reset, when it does not return AllocatorBusy. The frozen flag stays, and so
\* does active_allocations, which is 0.
Reset_Unguarded ==
  /\ totalAllocations' = 0 /\ totalBytes' = 0 /\ activeBytes' = 0 /\ peakUsage' = 0
  /\ high' = 0
  /\ UNCHANGED <<inner, activeAllocations, frozen, owner>>
Reset ==
  /\ activeAllocations = 0
  /\ totalAllocations' = 0 /\ totalBytes' = 0 /\ activeBytes' = 0 /\ peakUsage' = 0
  /\ high' = 0
  /\ UNCHANGED <<inner, activeAllocations, frozen, owner>>

Next ==
  \/ \E o \in Owners, n \in Sizes, kind \in {"guard", "storage"} : Allocate(o, n, kind)
  \/ \E o \in Owners : Release(o)
  \/ \E o \in Owners : Drop(o)
  \/ \E b \in BOOLEAN : SetFrozen(b)
  \/ Reset

Spec == Init /\ [][Next]_vars
----------------------------------------------------------------------------
Owned == [kind : {"guard", "storage"}, ptr : Ptrs \cup {Null}, size : Sizes]

\* Types, with the ranges the counters keep between two resets.
TypeOK ==
  /\ inner \in SUBSET Ptrs
  /\ totalAllocations \in 0 .. MaxAllocations /\ totalBytes \in Nat
  /\ activeAllocations \in 0 .. totalAllocations
  /\ activeBytes \in 0 .. totalBytes /\ peakUsage \in 0 .. totalBytes
  /\ frozen \in BOOLEAN
  /\ owner \in [Owners -> Owned \cup {NoOwner}]

Holders == {o \in Alive : owner[o].ptr # Null}

\* The wrapped allocator holds exactly what one guard or storage each will give
\* back: handing an address from a guard to a storage neither loses nor frees it.
InnerIsOwned ==
  /\ inner = {owner[o].ptr : o \in Holders}
  /\ \A o, q \in Holders : owner[o].ptr = owner[q].ptr => o = q

\* The counters are what is held, and the most that was ever held at once since
\* the last reset: an allocation that failed or was refused leaves no trace. Exact
\* only while nobody asks for 0 bytes: the drop of such an owner is not counted.
CountsExact ==
  /\ activeAllocations = Cardinality(Alive)
  /\ activeBytes = OwnedBytes(owner)
  /\ peakUsage = high

\* reset's contract: it succeeds only when nothing refers to the memory it may
\* reclaim.
ResetFreesNothing == [][Reset => Holders = {}]_vars
============================================================================
