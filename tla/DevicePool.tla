----------------------------- MODULE DevicePool -----------------------------
(***************************************************************************)
(* What an allocator promises its callers (src/src/runtime/common/         *)
(* allocator.rs, trait Allocator): allocate returns device memory that no  *)
(* one else holds, deallocate gives it back. Nothing is said of caches,    *)
(* caps, drivers or locks.                                                 *)
(***************************************************************************)
EXTENDS Naturals

CONSTANTS
  Handles,      \* names for the allocations a program can hold
  Blocks,       \* all pieces of device memory, [ptr, off, size, ...]
  NoBlock

VARIABLE storage

Shares(a, b) ==
  /\ a.ptr = b.ptr
  /\ a.off < b.off + b.size /\ b.off < a.off + a.size

Init == storage = [h \in Handles |-> NoBlock]

Allocate(h) ==
  /\ storage[h] = NoBlock
  /\ \E b \in Blocks :
       /\ \A g \in Handles : storage[g] # NoBlock => ~Shares(b, storage[g])
       /\ storage' = [storage EXCEPT ![h] = b]

Deallocate(h) ==
  /\ storage[h] # NoBlock
  /\ storage' = [storage EXCEPT ![h] = NoBlock]

Next == \E h \in Handles : Allocate(h) \/ Deallocate(h)

Spec == Init /\ [][Next]_storage
=============================================================================
