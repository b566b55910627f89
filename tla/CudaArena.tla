----------------------------- MODULE CudaArena -----------------------------
(***************************************************************************)
(* One capture session's arena, src/src/runtime/cuda/arena.rs, from        *)
(* install_arena to clear_arena: kernels recorded into a CUDA graph have   *)
(* the addresses that allocate returned baked into their parameters, so    *)
(* what matters is every region issued since the session began, freed or   *)
(* not. The history variable issued keeps them.                            *)
(***************************************************************************)
EXTENDS ArenaOps, Sequences

CONSTANT
  MaxSize       \* largest arena and largest request that are considered

ASSUME MaxSizeAssumption == MaxSize \in Nat

VARIABLES
  arena,        \* the CudaArena record, with base 0: addresses are offsets
  issued        \* <<offset, length>> of every region issued, in order

vars == <<arena, issued>>

Init ==
  /\ \E size \in 0 .. MaxSize : arena = NewArena(0, size)
  /\ issued = <<>>

Allocate(n) ==
  /\ ArenaFits(arena, n)
  /\ issued' = Append(issued, <<arena.highWater, Footprint(n)>>)
  /\ arena' = ArenaAllocate(arena, n)

\* Any pointer may come in: of this arena, of its middle, or of a buffer that
\* was allocated before the session. A pointer below the base is ignored
\* (checked_sub), one that is no region's start removes nothing.
Deallocate(off) ==
  /\ arena' = ArenaDeallocate(arena, off)
  /\ UNCHANGED issued

Next ==
  \/ \E n \in 0 .. MaxSize : Allocate(n)
  \/ \E off \in 0 .. MaxSize : Deallocate(off)

Spec == Init /\ [][Next]_vars
----------------------------------------------------------------------------
Region == Nat \X (Nat \ {0})

TypeOK ==
  /\ arena \in [base : {0}, size : Nat, highWater : Nat, live : SUBSET Region]
  /\ issued \in Seq(Region)

\* Two regions issued in one session never share a byte, whatever was freed in
\* between: no two kernels of a captured graph alias through the arena.
IssuedDisjoint ==
  \A i, j \in 1 .. Len(issued) :
    i < j => issued[i][1] + issued[i][2] <= issued[j][1]

\* Every issued region starts at an aligned offset and lies inside the buffer
\* that install_arena was given.
IssuedInBounds ==
  \A i \in 1 .. Len(issued) :
    /\ issued[i][1] % Align = 0
    /\ issued[i][1] + issued[i][2] <= arena.size
============================================================================
