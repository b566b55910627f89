# Verification of numr

numr is a tensor library in Rust with CPU, CUDA and WebGPU back ends, reverse-
and forward-mode automatic differentiation, sparse and dense linear algebra and
multi-device communication. Most of its source is numeric kernels, whose
correctness is a matter of rounding. What is modelled here is the part whose
correctness is a matter of order and of ownership: who holds a piece of device
memory at any time, in which order streams, threads of a kernel and passes over
a graph do their work, and what is left behind when one step of several fails.

## Inventory

| component | source (under `src/src/`) | state | operations | what is hard |
|---|---|---|---|---|
| CUDA arena | `runtime/cuda/arena.rs` | high-water mark, live regions | allocate, deallocate | addresses are baked into a graph, so they may never be issued twice in a session |
| CUDA caching allocator | `runtime/cuda/allocator.rs` | free list by size, byte total, frozen flag, captured set, arena | allocate, deallocate, reset, freeze, unfreeze, install_arena | threads interleave between the flag, two locks and the driver; two caps; an out-of-memory retry |
| Graph capture | `runtime/cuda/runtime.rs`, `runtime/captured_graph.rs` | the window's progress, the CapturedGraph | capture_graph_into, capture_graph_into_with_arena, drop | five ways to fail, drop order, memory that kernels address outliving the tensors |
| Storage | `tensor/storage.rs` | reference count | new, clone, drop | the last drop may happen inside someone else's window |
| Tracking allocator | `runtime/common/allocator.rs` | counters, frozen flag | allocate, deallocate, release, reset | failures between the checks and the counters, reset while something is in use |
| Reverse-mode autograd | `autograd/backward.rs`, `grad_store.rs`, `var_grad_store.rs` | topo order, needed set, gradient store | backward, backward_wrt, backward_with_hooks, backward_with_graph | shared sub-expressions, pruning without losing a term, hooks that must see final gradients |
| Checkpointing | `autograd/checkpoint.rs`, `capture.rs` | the segment's inputs and captures | checkpoint, recompute in backward | captured values, identities that two passes share |
| Client cache | `runtime/cuda/cache.rs`, `client.rs` | device index to client | new, get_or_create_client | two threads create a client at once |
| Sobol cache | `runtime/cuda/sobol_cache.rs`, `ops/cuda/quasirandom.rs` | dimension to device pointer | warm-up, look-up, launch | check and insert in two critical sections |
| Streams and copies | `runtime/cuda/runtime.rs`, `client.rs` | two streams, their queues, events | copies, record_compute_event, copy_from_device_pipelined | what a stream sees of another; an event is destroyed once on every path; calls that fail |
| Communicator transports | `runtime/cuda/communicator.rs`, `runtime/communicator/nexar.rs` | a stream of its own, pending work | all_reduce, sync, barrier, the events of StreamSyncOps | ranks and streams that wait for each other |
| Sparse solves and factorizations on GPUs | `runtime/cuda/sparse/linalg/`, `kernels/sparse_levels.cu`, `sparse_linalg.cu`, `wgpu/shaders/sparse_linalg.wgsl`, `algorithm/sparse_linalg/levels.rs`, `symbolic.rs` | fill, levels, the vector or matrix worked on in place | ILU(k) symbolic, level schedules, triangular solve by rows and columns, ILU(0), IC(0) | rows of a level run at once; plain loads and stores next to each other |
| GPU stream compaction | `ops/cuda/sorting.rs`, `ops/wgpu/sorting.rs`, `ops/cuda/indexing/masked.rs`, their kernels and shaders | block memory, a device counter, the output | nonzero, unique, unique_with_counts, masked_select | a count in one kernel sizes the output another fills; barriers; claims in any order |
| Bipartite matching | `algorithm/sparse_linalg/matching/hopcroft_karp.rs` | two arrays, distances, the recursion | hopcroft_karp, bfs, dfs | paths found in one phase change what the next search of the phase meets |
| WGPU runtime | `runtime/wgpu/` | buffer registry, pipeline cache | allocate, deallocate, look-ups | not modelled |
| Communicator groups | `runtime/communicator/group.rs`, `hierarchical.rs` | named sub-groups | splits, hierarchical collectives | every rank must make the same calls; not modelled |
| Layouts, sparse formats, dtypes | `tensor/layout.rs`, `sparse/`, `dtype/` | none | pure functions | index arithmetic; not modelled |
| Kernels, solvers, FFT, special functions | `runtime/*/kernels`, `algorithm/`, `ops/` | none | numeric | rounding; not modelled |

How they meet: a `Storage` allocates and frees through `Runtime::allocate` and
`deallocate`, which take the cached client's `CudaAllocator`. Graph capture
drives that allocator through a freeze window and hands it an arena. The
`TrackingAllocator` wraps any allocator. Autograd holds storages through the
tensors its nodes save; checkpointing re-enters the backward pass; its hooks
hand gradients to a communicator, whose stream runs beside the client's two.
Solves with a preconditioner go through fill, levels and the level kernels; the
matching permutes a matrix before it is factored.

`PROJECT.json` lists every component with its status, and under `hazards` what
can go wrong in each at the line where it bites.

## Modules

| module | models | state and actions |
|---|---|---|
| `ArenaOps` | `CudaArena`'s methods as operators | pure |
| `CudaArena` | one capture session of the arena | `arena`, history `issued`; `Allocate`, `Deallocate` |
| `CudaAllocator` | the caching allocator, the driver below and the callers above it | the fields of `CudaAllocator` and `FreeList`; `call` holds what each thread is executing; one action per critical section, driver call and flag access |
| `DevicePool` | the abstract allocator, which `CudaAllocator` implements | `storage`; `Allocate`, `Deallocate` |
| `GraphCapture` | both capture functions and `CapturedGraph`, on top of `CudaAllocator` | `refs` (Arc counts as sets of holders), `cap` (progress of the function), `graph`, `recording` |
| `TrackingAllocator` | `TrackingAllocator` and `AllocGuard` | the counters, `owner` for every guard and storage |
| `Backward` | `topological_sort`, `compute_needed`, the reverse sweep | the graph, the dfs stack, `store`, `hooks` |
| `Checkpoint` | `checkpoint_with_client`, `collect_captures`, the recompute, over `backward.rs` with references that carry their own grad_fn | the program's Vars; `Apply`, `Clone`, `Freeze`, `Segment`, `Backward` |
| `CudaClient` | `CudaClient::new`, `get_or_create_client`, `warmup_sobol` and `sobol`, on one device | `slot` and `lock` (the global map and its mutex), `dv` (`sobol_dv_cache`), `allocated`, `uploaded`, history `launched`; one action per critical section, driver call and look-up |
| `Streams` | the copies of `CudaRuntime`, the events of `CudaClient`, `NcclCommunicator` | `dev` (per rank three queues of commands and the events), `mem`, `host` (the call a thread waits in), histories `logical` and `given`; calls that only append commands are functions, an action is the calls up to the next that waits |
| `SparseSolve` | `iluk_symbolic_impl`, the level schedules on host and device, the level kernels | `fill`, `level`, `before` (what a kernel's launch found), `thread` (each row's thread), `x` (what has been subtracted from each row) |
| `Compaction` | the four operations whose result has a size only the device knows | `call`, `shared` (memory of a block), `counter`, `step`, `held`, `out`; one action per access to shared memory or atomic |
| `Matching` | `hopcroft_karp` with its search and its recursion | the two arrays, `dist`, `queue`, `stack` (the frames of `dfs`) |
| `*_proofs` | theorems about the module named | |
| `MC_*` | inputs, scripts and symmetry sets for TLC; `MC_CudaAllocator` adds the history variable `alone` | |

A definition `X_Y` is `X` with a plausible bug Y in it. It is never part of a
specification: replacing `X` by it shows that a property can fail.

What a model abstracts from:

* **CudaAllocator.** The driver is external. It gives out any unused address
  and may refuse for want of a contiguous segment, except right after the pool
  was trimmed, when it refuses only for want of memory or of addresses
  (`Capacity`, `Ptrs`). Stream order and trimming have no other effect. A block
  is (buffer, offset, size); `graph` records the path it was allocated on. Sizes
  are positive: requests of 0 bytes return before they touch anything.
  Its own specification has threads and no freeze window; the operations and
  steps of the window are in this module and are taken by `GraphCapture`.
* **GraphCapture.** One thread (`install_arena` documents that capture on a
  client is neither re-entrant nor thread-safe) and one CapturedGraph at a time.
  The closure is any sequence of allocations and drops. A failure of the closure
  and one of `end_capture` are one choice, because both results are looked at
  after `unfreeze`.
* **TrackingAllocator.** Each method holds the mutex throughout and is one step.
* **CudaClient.** The map of clients is a static and devices do not touch each
  other: one device, whose client is never dropped. `new` and
  `get_or_create_client` both find the entry with `Cached`; they differ when
  there is none. `allocated` and `uploaded` are what the driver knows of the
  direction-vector buffers; a buffer that is nobody's stays allocated, as in the code.
  Calls that fail inside a capture because the dimension is not warm change
  nothing and are left out.
* **Backward.** A gradient is the sequence of contributions `<<consumer, slot>>`
  summed into it, which is what the float result depends on. The three entry
  points are `mode`. `backward_with_graph` has no pruning and no hooks and is
  otherwise the same loop. At most one slot's operation returns `None`.
* **Checkpoint.** Every operation is a + 2b, so a gradient is an integer that
  tells the paths apart. Each Var carries the derivative `d` that the program
  without checkpointing gives it, computed forwards with no ids, no walk and no
  sort; `Transparent` compares the two. The walk, the sort and the two passes
  that call each other are written recursively. Ids of a recompute start at
  `Later`, above all others. A closure that calls `checkpoint` itself is not
  modelled; one that captures the output of another segment is, and its recompute
  recomputes that segment in turn.
* **Streams.** A value is the set of uploads that went into it; a sum the host
  speaks of before it is known is named by its collective. The CUDA driver and
  NCCL are external: a stream is a queue taken in order, an event is waited for
  as it was when the wait was issued, an all-reduce happens when it is at the
  head of every rank's queue (also one of no bytes, as the barrier uses it). Copies may
  fail in `cuStreamWaitEvent`, in the copy and in the synchronization; NCCL calls
  do not. The other collectives go to the same stream in the same way and are left out. The protocol of
  a bucket (record, wait, reduce, record, wait) is the one `StreamSyncOps` documents (`communicator/traits.rs:170-184`):
  the repository has the operations and no
  caller that puts them together.
* **SparseSolve.** A row's value is the set of pairs (row, value it had) that were
  subtracted from it, so a value used too early, twice or never differs. Loads of
  the level iteration, which race by design, return what was there at the launch or
  later. Each load, store and atomic of the column kernels is a step; a row kernel
  reads one row at a time. Pivots, the split into L and U and several right-hand
  sides are left out.
* **Compaction.** Blocks have two or four threads and a launch two blocks on CUDA
  before its loops stride (256 and 256 in the code). Kernels whose threads only read what no
  thread writes, and write places of their own, are one step each. NaN, broadcast masks
  and failing calls are left out; so is the split of a flat position into coordinates.
* **Matching.** Rows of a column are met in any order, the code's being one. `Inf`
  stands for `i32::MAX`; distances never get near it.

## Runs

Every run is exhaustive over its constants.

| run | states | bounds | question |
|---|---|---|---|
| `CudaArena` | 728 | alignment 2, arena and requests up to 11 bytes | regions of a session disjoint, aligned and in bounds. Five aligned regions fit; sizes 0, unaligned and too large all occur |
| `CudaAllocator` | 278,292 | 2 threads, 2 handles, 4 addresses, sizes 1 to 3, memory 5, bucket cap 2, byte cap 4 | exactly one owner per buffer at every step, caps, totals, refinement of `DevicePool`; a call that had the allocator to itself fails only if memory in use leaves no room; calls return. Both caps are hit (two buffers of 1; 3 + 2 > 4) and memory is short enough for the retry. Handles and addresses are few because liveness forbids symmetry; the theorems below have no such bound |
| `GraphCapture` | 286,942 | 1 thread, 3 handles, 3 addresses, sizes 1 and 4, alignment 2 (two aligned blocks fit an arena of 4), both faults on | a CapturedGraph's inputs, outputs and arena are held until it is dropped, the addresses of a window with an arena lie in the arena, and no two tensors alias, whatever fails; before a fault every capture restores the allocator, nothing is lost and the check in `unfreeze` has nothing to find |
| `GraphCaptureBeginFails` | | as above | a finding, below |
| `TrackingAllocator` | 798 | 3 owners, 3 addresses, sizes 1 and 3, 4 allocations between resets | counters equal what is held, nothing freed twice or by reset |
| `CudaClient` | 816,248 | 3 threads, 3 clients, 1 dimension, 3 addresses | one client for all; a Sobol kernel's address stays valid; the look-up after a warm-up finds an entry. Enough for every thread to create a client of its own and to upload a buffer of its own; when clients or addresses run out, creation and allocation fail, which the code may see at any time |
| `Backward` | 413,523 | 4 nodes, up to 2 inputs each, repeated inputs included | diamonds, a shared leaf, a pruned branch, the square of a value and unreachable nodes all occur |
| `Checkpoint` | 199,322 | 2 leaves, 4 values, 2 segments, closures of 1 operation | segments that list and capture leaves, results and other segments; frozen leaves, clones, leaves made in the closure; every set of wanted leaves; the five kinds of segment listed below are left out. With `MaxOps` 2, one leaf and three values (not a run of its own) TLC agrees |
| `Streams` | 321,159 | 2 ranks, 2 buffers, a reduction and a barrier; one rank uploads and reads a gradient in either way at any time, the other makes its own by a copy on the device; waits, copies and synchronizations may fail | what a read returns is what the program expects, each event has one holder, nobody leaves the barrier early, everything completes |
| `SparseSolve` | 299,846 | 4 rows; every strictly lower pattern with four upper ones and every upper one; solves by rows and columns on CUDA and WGPU, ILU(0), (1), (2); blocks of 4 threads, one pass beyond N | levels of fill are documented sums, the least ones up to limit 1; schedules and results are those of the sequential definitions. Chains of four levels and levels of several rows both occur |
| `Compaction` | 114,637 | up to 4 or 5 elements of 2 or 3 values, blocks of 2 threads, a few inputs on blocks of 4, two blocks before the loops stride | the count is exact, the output holds what is kept, on WGPU `unique_with_counts` gives its values in order with how often each occurs, every call returns. A thread visits two elements, blocks are partly idle, and the tree has one or two rounds |
| `Matching` | 916,459 | every 3 by 3 matrix, every 4 by 4 one with one or two entries per column, three denser ones | arrays agree, the result is maximum, the recursion climbs, phases have longer and longer paths, the search ends |

Deadlock is checked except in `CudaArena` (the arena may be full with nothing
to free), `Backward` and `Checkpoint` (a pass ends), `Streams` (the programs end;
`AllComplete` says that none stops sooner) and `Compaction` (a call ends;
`Completes` says the same).

**Fairness.**

* `CudaAllocator`: weak fairness of the steps of each thread that is inside a
  call. It is what an operating system gives a thread that can run. Nobody is
  obliged to make a call. The free list's `std::sync::Mutex` makes no promise to
  a waiting thread, so a thread may wait for ever while others come and go:
  `CallsReturn` says that some call returns as long as any is open. For the same
  reason `OutOfMemoryIsReal` is about calls that have the allocator to themselves: another thread
  can fill the cache between the drain and the retry, and the error is then
  premature.
* `Streams`: weak fairness of the whole. The programs are finite and devices and
  hosts go on as long as one of them can.
* `Compaction`: a kernel that was launched runs to its end, and the host goes on.
* `Matching`: a sequential program goes on while it can.

## What was found

One finding is a run that TLC finds violated, `GraphCaptureBeginFails`: when
`begin_capture` fails, both capture functions return with the allocator frozen,
one of them with the arena installed as well; the next capture is refused, and
plain allocations take the window's path for ever.

Others came up while the models were written. They are restrictions of the passing runs,
named here with the property that fails without the restriction:

* **Updates lost on WGPU** (`SolveExact` without `~Collision`): columns of one level
  of a backward solve by columns load, change and store the entries above them with no atomic
  (`sparse_linalg.wgsl:356`). Two columns that share a later row lose one of the
  updates: with entries (1,2) and (1,3) columns 2 and 3 have level 0. The kernel of
  the forward solve has the same loop, of which its comment says "we rely on level
  scheduling ensuring no conflicts" (line 301), and a binding layout that does not
  match its host code. CUDA uses `atomicAdd`.
* **More than 256 rows** (`SolveExact` without `N <= BlockSize`): `reduce_max_i32`, one
  block of 256 threads, sees the levels of the first 256 rows; higher ones
  behind them are missed and their rows never solved
  (`kernels/sparse_linalg/levels.rs:148`).
* **More than 256 workgroups** (`CountExact` with more blocks than `StrideBlocks`):
  the WGSL loops of masked_count, count_nonzero and gather_nonzero stride by 256 * 256 while the launch has a
  workgroup per 256 elements; beyond that elements are visited twice
  (`masked_select_f32.wgsl:30`).
* **Order of unique**: `ops/traits/sorting.rs:196` and `227` promise sorted order. `unique` on both GPU
  back ends, and `unique_with_counts` on CUDA, write in the order of the claims (`sort_scan.cuh:131`);
  `_sorted` is ignored. `OutputExact` says which values are returned, and of their order only
  where the code keeps one. The order of `nonzero` is as free.
* **Inverse and counts of `unique_with_counts` on CUDA**: each element is looked up by bisection
  (`ops/cuda/sorting.rs:317`) in the values as they were claimed. Out of order, elements are given
  another value's index or one behind the output, and the counts, taken from the indices, are wrong as
  well. `OccurrencesExact` fails without `~OnCuda`.
* **Inverse of `unique_with_counts` on WGPU**: `traits/sorting.rs:228` documents indices for each
  element of the input; the shader writes them for the sorted array
  (`unique_with_counts_f32.wgsl:63`), so that `out[inverse[i] + 1] = call.input[i]` fails for an input
  that is not sorted. `OccurrencesExact` is about the values and the counts alone.
* **Levels of ILU(k)** (`FillLevels` without `fill[i][k] = 0`): `symbolic.rs:131` documents the level of an entry as
  the least `level[i,k] + level[k,j] + 1` over all k. The code takes its k from the row as it was before
  its elimination (`symbolic.rs:175`), so that a k which is fill itself never counts: with entries (4,1),
  (1,2), (2,3) and limit 2 the documented pattern has (4,2) at level 1 and (4,3) at level 2, the code's lacks (4,3).
  From limit 2 on the pattern is therefore smaller than documented or its levels are higher; for limits 0 and 1 such sums
  are above the limit. In the other direction the comment at `symbolic.rs:167-172` updates only j > k, while the code, as
  another comment (`187`) says, updates every j but k.
* **Foreign drop** (fault `foreign` of `GraphCapture`, off in `OneOwnerUnlessFaulted`):
  with an arena installed, a tensor from before the window that the closure
  drops is neither freed nor cached (`allocator.rs:343`).
* **Owners of 0 bytes** (`CountsExact` with size 0): they are counted and their drop is
  not, so that `reset` returns `AllocatorBusy` for ever (`common/allocator.rs:323`).
  It errs on the safe side, which is the theorem `NothingUncounted`.
* **Freed after the window** (the last conjunct of `MayFree` and that of `EndCapture`): a
  block of a freeze window freed after it goes to the free list. That is outside
  `capture_graph_into`'s contract; the check in `unfreeze` does not see it,
  since `captured_ptrs` is emptied before.
* **Captures without an arena** (the last conjunct of `GraphMemoryHeld` without `graph.withArena`):
  the closure's own tensors are freed with the closure, or by the driver on a launch, while the recorded kernels
  still have their addresses. That is documented (`arena.rs:6-9`, `runtime.rs:72-76`, `389-394`: a
  second replay may read freed memory), and is what the arena is for; the property claims of such a graph that its inputs
  and outputs are held, and nothing of its intermediates. The conjunct also fails after a
  `begin_capture` that failed (`"begin" \notin faults`): addresses of the abandoned window are still noted.
* **Checkpoint segments** (`Transparent`, each with its constant TRUE): a segment
  lists a result and also captures something computed from it, and a path is
  counted by both passes (`MayReachListed`); a segment lists one value twice, as
  in `checkpoint(mul, [&x, &x])`, and the sum over both uses is returned per slot
  (`MayRepeat`); a segment returns a listed result as it is, whose clone has a
  fresh id that the recompute cannot relate to it (`MayPassThrough`); a segment
  reads nothing differentiable, and the nested `backward_wrt` fails the whole
  pass (`MayBeConstant`); `set_requires_grad(false)` on a result something was
  made of, so that one id has two histories in one graph (`MayFreeze`).
* **Ignored errors of a synchronization** (`CopyExact` without `~lost[r].sync`): both copies to the
  host drop the result of `synchronize` (`runtime.rs:218`, `270`) and return bytes
  that may not have been written.
* **Events left behind** (`lost[r].events`): the pipelined copy of an empty tensor returns
  before it destroys its event (`runtime.rs:239`). A copy that succeeds destroys it after the copy stream
  has been synchronized (`runtime.rs:270-273`); one whose copy was refused does so with its wait still
  queued (`261`), which CUDA allows and `client.rs:400` documents otherwise.
* **Shared storage**: `x = b.clone()` (`triangular_solve.rs:46`, and the values in
  ILU(0) and IC(0) on both devices) shares the buffer that is then written: the
  caller's right-hand side or matrix is overwritten. The model has one `x` and does
  not say who else refers to it.

Also seen, and harmless or outside the models: the flag of the level iteration is
never cleared though a comment says so (it costs passes, which `LevelsExact` does not mind); `HierarchicalComm`'s reduce_scatter
overwrites the caller's send buffer; `runtime/wgpu/ops/native/masking.rs:210` drops the result of a poll
with a timeout and then waits without one; `dfs` of the matching is as deep as the
longest path, up to the number of columns; a closure that panics in a capture skips the unfreeze.

## Theorems

Proved with TLAPS for every value of the constants.

* `CudaArena_proofs`: `ArenaNeverAliases` and `ArenaInBounds`. Assumed: the
  alignment is a positive natural number. The invariant adds to the two
  properties that every region ends at or below the high-water mark and that
  the mark is aligned and within the buffer; without it nothing relates the
  next region to the earlier ones.
* `GraphCapture_proofs`, for the allocator: `EveryBufferHasOneOwner`, `CachedSizes`,
  `AllocatorImplementsPool`. The invariant says who has a buffer, as a relation that is a function:
  a handle, a call that carries it, a call about to free it, or a place in the free list of
  a size; what a call holds at each of its steps; and that the size at each place is
  the driver's. A count of owners is not inductive by itself, the relation is; `OneOwner`,
  which counts, follows from it. The refinement needs all three.
  `CacheStaysBounded` adds an invariant, `CacheInv`: the total is the sum over the buckets at every
  step, and the byte cap is exceeded only while the thread that pushed still has the lock and
  evicts. That a push or a pop moves the sum by the size of its bucket, and that the bytes of a
  bucket are a part of the sum, rests on lemmas about sums over finite sets, proved by a
  smallest set they fail for.
  `RetryFreesTheCache` proves `OutOfMemoryIsReal` with the history of `MC_CudaAllocator`: when a call has had the
  allocator to itself and has drained, nothing is cached, carried or being freed, so by the first invariant
  every allocated buffer is under a handle of its own and of its size, and the bytes of the driver are no more
  than those in use. Assumed: finitely many handles, and an address for each (a driver
  runs out of memory, not of addresses).
* `GraphCapture_proofs`, for capture: `CaptureRestores`, `TensorsDoNotAlias`, `CaptureKeepsOneOwner`,
  `GraphsKeepTheirMemory`, `CaptureNeverCachesItsWindow`, for any program that calls it, arenas of any
  size, and both values of `BeginMayFail` and `MayDropForeign`. The steps of the allocator keep the relation
  above inside a window too, where the buffer under the arena is shared (`IInv(leaks)`; after a
  fault a buffer may be without an owner, but none has two). `GInv` adds three things.
  *Control*: how far the capture has come fixes the flag, the arena, the recording and the steps the
  call can be at, but for what a `begin_capture` that failed left; `RestoredOnReturn` is the case of a
  capture that is over. *References*: who holds an `Arc` of each Storage, so that the last
  reference is dropped where the code says and nowhere earlier; without it nothing shows that
  the blocks of a window are gone when it closes. *Pieces*: what was cut out of the arena lies apart and
  below the high-water mark, which is all `NoAlias` needs there, since the arena's buffer had
  one owner when it was installed. `GraphsKeepTheirMemory` needs a further invariant, `WindowInv`: with an arena
  installed every address of the window is in the arena's buffer, below the high-water mark, and the end
  of the capture notes both; an address noted by a window that `begin_capture` abandoned is exempt.
  Assumed: the "none" values are no members of the sets they extend.
* `TrackingAllocator_proofs`: `EveryAddressHasOneOwner`, `NothingUncounted`,
  `ResetIsSafe`, `CountersAreExact`. Assumed: finitely many owners, natural sizes (0 included). The
  invariant is the conjunction of types, one owner per address, and
  "holders are at most `activeAllocations`": a drop lowers both sides by one,
  which needs the first part to know that no other holder vanishes.
  `CountersAreExact` also assumes that 0 is no size: the drop of a 0-byte owner has no address to give
  back and stays counted, so that for size 0 the property is false and only the first three hold. Every alive
  owner is then a holder, and a drop never subtracts more than there is, so the floor of
  `saturating_sub` is never met.
* `Backward_proofs`: `TopologicalOrder` and `HookedGradientIsFinal`, for graphs
  of any size. The invariant of the sort is about the stack of `dfs` calls: ids
  get strictly older from call to call, so that a visited input is never one of
  the open calls and therefore is listed already; an input that was passed is
  listed or is the call above. Final gradients follow: a contribution goes to an
  input of the node at `pos`, which is listed before it, and the hooked leaves
  are listed behind.
  `PruningIsExact` and `HooksAreExact` rest on a second invariant (`SumInv`, theorem `BackwardSums`):
  a stored gradient lists, in order, what the slots of the nodes passed so far contribute to it.
  The readers of a node are listed behind it, so when the sweep comes to a node all its slots are
  passed and its sum is complete; a node is left out only if no gradient flows to it or no wanted id is
  below it, and the marks of `compute_needed` say just that because inputs come first in the list.
* `CudaClient_proofs`: `ClientIsCanonical`, `BakedAddressIsStable`,
  `SobolNeverPanics`. Assumed: the "none" values are no members of the sets they
  extend. The invariant adds that a buffer on its way into the cache is carried
  by one call and cached nowhere, without which the free after a failed copy
  could be of somebody else's buffer, and that whoever creates under the lock holds it.
* `SparseSolve_proofs`: `LevelsAreExact` for every matrix and every outcome of the races of the level
  iteration: no level is ever too high, and after n passes the rows at the first n
  positions are settled, so stopping at an unchanged pass or after N passes is
  sound. `SolveIsExact`, assuming `N <= BlockSize` and for no `Collision`: rows of lower levels
  are final, and a value is what its thread, or the columns so far, have subtracted.
  `FillLevelsHold` is about the symbolic ILU(k), for every pattern and every order of the `HashMap`. Its
  invariant is in terms of ways: from row i to column j, each step to an earlier row and the last to j, with at most as
  many rows between as the limit allows. The rest of a way after its first step is a way of the row it went to;
  so once the entries of the rows before i are exact (`Complete`), those of row i are exact for the ways
  whose first step was dealt with (`CompleteBut`), and nothing is entered that no way leads to (`Sound`). The
  ways are what the code computes, not what it documents; the theorem is the documented sum: a least way, with its first
  step split off, is a sum through that row, and an entry of the matrix followed by a least way of its row is a way.
* `Matching_proofs`: `ArraysAlwaysAgree`, `RecursionClimbs`, `MatchingIsMaximum`, for
  matrices of any shape. The invariant says that the arrays agree but for the row a path being
  unwound follows, that the stack is a path of the level graph from a free column,
  and that what the search has reached is queued or closed. That the result is maximum is König's argument:
  when no free row is reached, every edge of any other matching leads to a matched
  column of its own.
* `Streams_proofs`: `BarriersSeparate` and `EventsHaveHolders`, for any ranks, buffers,
  collectives and scripts. For the first, a number k says how many collectives have run:
  every rank has issued those and what waits in its queue, and has returned
  from no barrier beyond them; a rank that finds its queue empty has issued exactly k. For
  the second, the events are the disjoint union of what the recorded reads, the
  buckets in flight, the waiting call and nobody hold, one each; that a new
  event is nobody's is the pigeonhole principle.
  `CopiesAreExact`: a copy to the host that has waited returns what its program takes the
  buffer to have held when it asked for the copy. The invariant, `StreamInvariant`, predicts: for
  every rank there are views of the buffers, one before each command of its compute
  stream, that each command turns into the next; the memory is the first view and what
  the program takes the buffers to hold is the last. Buffers lent to a collective are the exception: from
  the record that lends it on, the view of a bucket is a sum that has not been made. That this does no
  harm is a conjunct of its own: no command uses a bucket on loan, or lends it again, before it waits
  for the record behind the collective. A recorded buffer keeps its view from its record on,
  so that the copy stream reads the same later; a collective that runs finds what each rank gave.
  Values name sums of values that name earlier sums. `Resolve` takes the least set
  of sums closed under naming, and the first lemmas show that what is given to later sums does not
  change it.

Type invariants are part of these inductive invariants.

Only model-checked:

* Everything about `Compaction`: strides, powers of two and a binary search, which need induction over
  numbers together with nonlinear arithmetic.
* Everything about `Checkpoint`: its passes, which call each other, are RECURSIVE operators, and a module that
  declares one cannot be proved about.
* `PathsGrow` of `Matching`: it rests on what maximal sets of shortest augmenting paths do to the
  distances.
* All liveness: `CallsReturn`, `AllComplete`, `Completes`, `Terminates`.

Liveness under fairness, ENABLED and RECURSIVE operators are beyond the provers used here, and so are
the library's induction theorems, which take an operator as a parameter: what a recursive definition
computes stays with TLC. Where a proof needs induction all the same it is that of the loop
(`PruningIsExact`, `FillLevelsHold`), of a least closed set (`CopiesAreExact`), or, as for the sums of
`CacheStaysBounded`, a smallest counterexample.

## Not modelled

* **WGPU runtime and buffer registry**: maps behind locks that no operation holds
  across a call; a model would restate get, insert and remove.
* **Communicator groups and hierarchical collectives**: names of sub-groups, and calls
  of the transports one after the other. What ranks owe each other, the same collectives in the same
  order, is the callers' contract; `Streams` is written under it.
* **Fallback of `deallocate` without a client, drop of the caches at exit, raw handles,
  pinned memory, `copy_strided`**: single calls of the driver whose result is ignored.
* **Layouts, sparse formats, data types**: index arithmetic and tables without state, where
  tests and a model would enumerate the same inputs.
* **Kernels, iterative solvers, FFT, polynomials, special functions, dense linear algebra,
  gradients of operations**: floating-point arithmetic; whether it is right is a matter of
  rounding, which neither TLC nor TLAPS reaches. They are most of the source.
* **Column ordering and elimination trees**: heuristics, whose result is any permutation.
