----------------------------- MODULE Compaction -----------------------------
(***************************************************************************)
(* The operations whose result has a size only the device knows: nonzero,  *)
(* unique, unique_with_counts and masked_select (src/src/ops/cuda and      *)
(* ops/wgpu sorting.rs, ops/cuda/indexing/masked.rs, runtime/wgpu/ops/     *)
(* native/masking.rs and their kernels). A first kernel counts what is     *)
(* kept, block by block, in memory the threads of a block share; the host  *)
(* reads the count, allocates the output and launches kernels that fill    *)
(* it, each thread claiming a place with an atomic counter or finding it   *)
(* by a prefix sum.                                                        *)
(*                                                                         *)
(* One behaviour is one call. Positions, places and threads count from 1   *)
(* here; prefix sums and inverse indices count from 0, as in the code. A   *)
(* kernel whose threads only read what no thread writes, and write places  *)
(* of their own, is one action.                                            *)
(***************************************************************************)
EXTENDS Naturals, Sequences, FiniteSets, TLC

CONSTANTS
  Calls,          \* the calls considered, each with a size of its blocks
  GridCap,        \* most blocks of a launch on CUDA (256 in the code)
  StrideBlocks,   \* blocks the loops of WGSL stride by (256 in the code)
  None

Operation == {"nonzero", "unique", "unique_with_counts", "masked_select"}

ASSUME CompactionAssumption ==
  /\ GridCap \in Nat \ {0} /\ StrideBlocks \in Nat \ {0}
  /\ \A c \in Calls : /\ c.op \in Operation /\ c.device \in {"cuda", "wgpu"}
                      /\ c.halvings \in Nat \ {0}
                      /\ c.input \in Seq(Nat) \ {<<>>}

VARIABLES
  call,
  data,       \* what the kernels read: the input, its sorted copy, or the mask
  phase,      \* the kernel or the step of the host that is next
  step,       \* how many steps of the counting kernel each thread has made
  shared,     \* the memory a block shares, a word per thread
  counter,    \* the counter in device memory
  size,       \* the size of the output
  rest,       \* the kept positions each thread of the gathering kernel has not come to
  held,       \* the place a thread has claimed, and for which position
  out,
  prefix,
  inverse,
  counts

kernel == <<step, shared, rest, held>>
results == <<out, prefix, inverse, counts>>
vars == <<call, data, phase, counter, size, kernel, results>>

(* The threads of a block: 256 in the code, a power of two for the tree.   *)
Halvings == call.halvings
Width == 2 ^ Halvings
N == Len(data)
OnCuda == call.device = "cuda"
IsUnique == call.op \in {"unique", "unique_with_counts"}
ByPrefix == call.op = "masked_select"

(* The blocks of a launch. *)
Grid == LET full == (N + Width - 1) \div Width
        IN  IF OnCuda /\ ~ByPrefix /\ full > GridCap THEN GridCap ELSE full
Threads == 1..(Width * Grid)
Lane(t) == (t - 1) % Width
BlockOf(t) == {u \in Threads : (u - 1) \div Width = (t - 1) \div Width}
First(t) == t - Lane(t)

(* The positions the loop of a thread visits. *)
Stride == Width * (IF OnCuda THEN Grid ELSE StrideBlocks)
Visits(t) == IF ~OnCuda /\ IsUnique THEN {t} \cap 1..N
             ELSE {i \in t..N : (i - t) % Stride = 0}

Boundary(i) == i = 1 \/ data[i] # data[i - 1]
Kept(i) == IF IsUnique THEN Boundary(i) ELSE data[i] # 0
KeptOf(t) == {i \in Visits(t) : Kept(i)}

(* Only the unique_with_counts of WGPU does not begin by counting. The     *)
(* memory of a block is not zero when it starts.                           *)
Init ==
  /\ call \in Calls
  /\ data = IF IsUnique THEN SortSeq(call.input, <) ELSE call.input
  /\ phase = IF call.op = "unique_with_counts" /\ ~OnCuda THEN "mark" ELSE "count"
  /\ step = [t \in Threads |-> 0]
  /\ shared = [t \in Threads |-> 1]
  /\ counter = 0 /\ size = 0
  /\ rest = [t \in Threads |-> {}]
  /\ held = [t \in Threads |-> None]
  /\ out = <<>> /\ prefix = <<>> /\ inverse = <<>> /\ counts = <<>>

(* What is kept is counted in one word per block, except by the kernels of *)
(* WGPU for nonzero and unique, which add up a word per thread.            *)
ByTree == ~OnCuda /\ ~ByPrefix
LastStep == IF ByTree THEN Halvings + 1 ELSE 2

(* A thread goes past a barrier when its block has come to it. *)
AtBarrier(t) == \A u \in BlockOf(t) : step[u] >= step[t]

CountStep(t, k) ==
  /\ phase = "count" /\ step[t] = k
  /\ step' = [step EXCEPT ![t] = k + 1]
  /\ UNCHANGED <<call, data, phase, size, rest, held, results>>

Zero_ExitsEarly(t) ==
  /\ ~ByTree /\ t <= N /\ CountStep(t, 0)
  /\ shared' = IF Lane(t) = 0 THEN [shared EXCEPT ![t] = 0] ELSE shared
  /\ UNCHANGED counter

Zero(t) ==
  /\ ~ByTree /\ CountStep(t, 0)
  /\ shared' = IF Lane(t) = 0 THEN [shared EXCEPT ![t] = 0] ELSE shared
  /\ UNCHANGED counter

Tally(t) ==
  /\ ~ByTree /\ AtBarrier(t) /\ CountStep(t, 1)
  /\ shared' = [shared EXCEPT ![First(t)] = @ + Cardinality(KeptOf(t))]
  /\ UNCHANGED counter

StoreOwn(t) ==
  /\ ByTree /\ CountStep(t, 0)
  /\ shared' = [shared EXCEPT ![t] = Cardinality(KeptOf(t))]
  /\ UNCHANGED counter

TreeAdd_NoBarrier(t, round) ==
  /\ ByTree /\ CountStep(t, round)
  /\ LET half == 2 ^ (Halvings - round)
     IN  shared' = IF Lane(t) < half THEN [shared EXCEPT ![t] = @ + shared[t + half]] ELSE shared
  /\ UNCHANGED counter

TreeAdd(t, round) ==
  /\ ByTree /\ AtBarrier(t) /\ CountStep(t, round)
  /\ LET half == 2 ^ (Halvings - round)
     IN  shared' = IF Lane(t) < half THEN [shared EXCEPT ![t] = @ + shared[t + half]] ELSE shared
  /\ UNCHANGED counter

AddBlock(t) ==
  /\ AtBarrier(t) /\ CountStep(t, LastStep)
  /\ counter' = IF Lane(t) = 0 THEN counter + shared[t] ELSE counter
  /\ UNCHANGED shared

(* The host waits for the kernel, allocates the output and resets the      *)
(* counter; with nothing kept it is done.                                  *)
Read ==
  /\ phase = "count" /\ \A t \in Threads : step[t] > LastStep
  /\ size' = counter /\ counter' = 0
  /\ phase' = IF counter = 0 THEN "done" ELSE IF ByPrefix THEN "prefix" ELSE "gather"
  /\ out' = [k \in 1..counter |-> None]
  /\ rest' = [t \in Threads |-> KeptOf(t)]
  /\ UNCHANGED <<call, data, step, shared, held, prefix, inverse, counts>>

(* gather_nonzero and extract_unique: a thread takes the next place of the *)
(* counter for the next position it keeps, and writes there.               *)
NextKept(t) == CHOOSE i \in rest[t] : \A j \in rest[t] : i <= j
Claim(t) ==
  /\ phase = "gather" /\ held[t] = None /\ rest[t] # {}
  /\ counter' = counter + 1
  /\ held' = [held EXCEPT ![t] = <<counter + 1, NextKept(t)>>]
  /\ rest' = [rest EXCEPT ![t] = @ \ {NextKept(t)}]
  /\ UNCHANGED <<call, data, phase, step, shared, size, results>>
Write(t) ==
  /\ phase = "gather" /\ held[t] # None
  /\ LET i == held[t][2]
     IN  out' = [out EXCEPT ![held[t][1]] = IF IsUnique THEN data[i] ELSE i]
  /\ held' = [held EXCEPT ![t] = None]
  /\ UNCHANGED <<call, data, phase, step, shared, counter, size, rest, prefix, inverse, counts>>
Gathered ==
  /\ phase = "gather" /\ \A t \in Threads : rest[t] = {} /\ held[t] = None
  /\ phase' = IF call.op = "unique_with_counts" THEN "search" ELSE "done"
  /\ UNCHANGED <<call, data, counter, size, kernel, results>>

(* CUDA: the inverse is a binary search of each element among the unique   *)
(* values, and the counts are taken from it.                               *)
LowerBound(seq, v) ==
  LET find[lo \in 0..Len(seq), hi \in 0..Len(seq)] ==
        LET mid == (lo + hi) \div 2
        IN  IF lo >= hi THEN lo
            ELSE IF seq[mid + 1] < v THEN find[mid + 1, hi] ELSE find[lo, mid]
  IN  find[0, Len(seq)]
SearchSorted ==
  /\ phase = "search" /\ phase' = "bincount"
  /\ inverse' = [i \in 1..N |-> LowerBound(out, call.input[i])]
  /\ UNCHANGED <<call, data, counter, size, kernel, out, prefix, counts>>
BinCount ==
  /\ phase = "bincount" /\ phase' = "done"
  /\ counts' = [k \in 1..size |-> Cardinality({i \in 1..N : inverse[i] = k - 1})]
  /\ UNCHANGED <<call, data, counter, size, kernel, out, prefix, inverse>>

(* WGPU: the boundaries are marked and summed up, the last sum is the      *)
(* size, and each thread writes its inverse and, at a boundary, a value    *)
(* and the length of its run.                                              *)
MarkBoundaries ==
  /\ phase = "mark" /\ phase' = "scatter"
  /\ prefix' = [i \in 1..N |-> Cardinality({j \in 1..i : Boundary(j)})]
  /\ size' = prefix'[N]
  /\ UNCHANGED <<call, data, counter, kernel, out, inverse, counts>>

RunLength_LastShort(i) ==
  IF prefix[i] = size THEN N - i
  ELSE Cardinality({j \in i..N : \A m \in i..j : prefix[m] = prefix[i]})

(* The last run goes on to the end of the array, any other to the next     *)
(* boundary.                                                               *)
RunLength(i) == IF prefix[i] = size THEN N - i + 1
                ELSE Cardinality({j \in i..N : \A m \in i..j : prefix[m] = prefix[i]})
Scatter ==
  /\ phase = "scatter" /\ phase' = "done"
  /\ inverse' = [i \in 1..N |-> prefix[i] - 1]
  /\ LET at == [k \in 1..size |-> CHOOSE i \in 1..N : /\ prefix[i] = k
                                                      /\ i = 1 \/ prefix[i - 1] # k]
     IN  /\ out' = [k \in 1..size |-> data[at[k]]]
         /\ counts' = [k \in 1..size |-> RunLength(at[k])]
  /\ UNCHANGED <<call, data, counter, size, kernel, prefix>>

PrefixSum_Inclusive ==
  /\ phase = "prefix" /\ phase' = "select"
  /\ prefix' = [i \in 1..N |-> Cardinality({j \in 1..i : Kept(j)})]
  /\ UNCHANGED <<call, data, counter, size, kernel, out, inverse, counts>>

(* masked_select: one thread makes the prefix sum; then every thread whose *)
(* element is kept writes it at the place the sum gives.                   *)
PrefixSum ==
  /\ phase = "prefix" /\ phase' = "select"
  /\ prefix' = [i \in 1..N |-> Cardinality({j \in 1..(i - 1) : Kept(j)})]
  /\ UNCHANGED <<call, data, counter, size, kernel, out, inverse, counts>>
Select ==
  /\ phase = "select" /\ phase' = "done"
  /\ out' = [k \in 1..size |->
               LET here == {i \in 1..N : Kept(i) /\ prefix[i] + 1 = k}
               IN  IF here = {} THEN None ELSE CHOOSE i \in here : TRUE]
  /\ UNCHANGED <<call, data, counter, size, kernel, prefix, inverse, counts>>

ThreadStep(t) == \/ Zero(t) \/ Tally(t) \/ StoreOwn(t) \/ \E round \in 1..Halvings : TreeAdd(t, round)
                 \/ AddBlock(t) \/ Claim(t) \/ Write(t)
HostStep == \/ Read \/ Gathered \/ SearchSorted \/ BinCount \/ MarkBoundaries \/ Scatter
            \/ PrefixSum \/ Select
Next == (\E t \in Threads : ThreadStep(t)) \/ HostStep

Spec == Init /\ [][Next]_vars
(* A launched kernel runs to its end and the host goes on with the next. *)
FairSpec == Spec /\ WF_vars(Next)

-----------------------------------------------------------------------------
Positions == {i \in 1..N : Kept(i)}
Values(seq) == {seq[k] : k \in DOMAIN seq}
Increasing(seq) == \A k, m \in DOMAIN seq : k < m => seq[k] < seq[m]

(* The size the host allocates is the number of elements that are kept,    *)
(* however the threads of the counting kernel are interleaved.             *)
CountExact == phase \notin {"count", "mark"} => size = Cardinality(Positions)

(* No thread claims a place behind the output, and the output is what was  *)
(* kept, each once; masked_select, and the unique_with_counts of WGPU,     *)
(* keep the order of the array they read.                                  *)
OutputExact ==
  /\ \A t \in DOMAIN held : held[t] # None => held[t][1] <= size
  /\ phase = "done" =>
       /\ Len(out) = Cardinality(Positions)
       /\ Values(out) = IF IsUnique THEN Values(data) ELSE Positions
       /\ ByPrefix \/ (call.op = "unique_with_counts" /\ ~OnCuda) => Increasing(out)

(* On WGPU unique_with_counts returns, as documented, the values in order  *)
(* and for each how often it occurs in the input (traits/sorting.rs:227,   *)
(* 229), though the lengths come from a scan of the prefix sums. Nothing   *)
(* is said of the inverse, which WGPU gives for the sorted array where the *)
(* input is documented (228), nor of CUDA, whose search by bisection reads *)
(* values that stand in the order of the claims.                           *)
OccurrencesExact ==
  phase = "done" /\ call.op = "unique_with_counts" /\ ~OnCuda =>
    /\ Increasing(out)
    /\ counts = [k \in DOMAIN out |->
                   Cardinality({i \in DOMAIN call.input : call.input[i] = out[k]})]

(* No thread waits at a barrier for one that will not come, and the call   *)
(* returns.                                                                *)
Completes == <>(phase = "done")
=============================================================================
