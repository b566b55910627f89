------------------------------ MODULE ArenaOps ------------------------------
(***************************************************************************)
(* The bump-pointer arena of src/src/runtime/cuda/arena.rs as operators on *)
(* a record: CudaArena takes them as the steps of a state machine,         *)
(* CudaAllocator applies them under its arena lock.                        *)
(*                                                                         *)
(* live_regions is a Vec searched from the back for an offset. Offsets are *)
(* never issued twice, so the set of <<offset, aligned length>> pairs has  *)
(* the same answers.                                                       *)
(*                                                                         *)
(* In every module, a definition named X_Y is X with the bug Y planted:    *)
(* the model with X replaced by it must violate a property.                *)
(***************************************************************************)
EXTENDS Naturals

CONSTANT
  Align      \* align_up's ALIGN, 256 in the code

ASSUME AlignAssumption == Align \in Nat \ {0}

AlignUp(n) == ((n + Align - 1) \div Align) * Align

\* Bytes an allocation of n takes out of the arena: align_up(n.max(1)).
Footprint(n) == AlignUp(IF n = 0 THEN 1 ELSE n)

\* CudaArena::new; base is an address, which only CudaAllocator gives a meaning.
NewArena(base, size) == [base |-> base, size |-> size, highWater |-> 0, live |-> {}]

ArenaFits_Unaligned(ar, n) == ar.highWater + n <= ar.size
ArenaFits(ar, n) == ar.highWater + Footprint(n) <= ar.size

\* The arena after a successful allocate of n bytes; the caller gets the
\* address at offset ar.highWater.
ArenaAllocate(ar, n) ==
  [ar EXCEPT !.highWater = @ + Footprint(n),
             !.live = @ \cup {<<ar.highWater, Footprint(n)>>}]

\* Bookkeeping of a free at offset off from the base. The high-water mark stays.
ArenaDeallocate_Rewinds(ar, off) ==
  [ar EXCEPT !.live = {r \in @ : r[1] # off},
             !.highWater = IF \E r \in ar.live : r[1] = off THEN off ELSE @]
ArenaDeallocate(ar, off) == [ar EXCEPT !.live = {r \in @ : r[1] # off}]
=============================================================================
