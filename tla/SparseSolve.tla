---------------------------- MODULE SparseSolve ----------------------------
(***************************************************************************)
(* Sparse triangular solves and incomplete factorizations on a GPU:        *)
(* src/src/algorithm/sparse_linalg/symbolic.rs finds the fill of ILU(k),   *)
(* levels.rs (on the host) or runtime/cuda/sparse/linalg/common.rs (on the *)
(* device) gives every row a level, and the kernels of sparse_linalg.cu    *)
(* and the WGSL shaders run the rows of one level at a time, each row a    *)
(* thread.                                                                 *)
(*                                                                         *)
(* One behaviour is one task on one matrix. The kernels are of three       *)
(* kinds: "row" solves with a CSR matrix and reads the unknowns it needs;  *)
(* "factor" (ILU, IC) works on its row in place and reads finished rows;   *)
(* "column" solves with a CSC matrix and subtracts its unknown from the    *)
(* rows below. In WGSL there is no atomic addition of floats.              *)
(*                                                                         *)
(* The value of a row is the set of pairs <<k, value of row k>> that have  *)
(* been subtracted from it. Every row has its diagonal entry.              *)
(***************************************************************************)
EXTENDS Naturals, FiniteSets

CONSTANTS
  N,              \* rows and columns
  Patterns,       \* the entries off the diagonal of the matrices considered
  Tasks,
  BlockSize,      \* threads in one block of a CUDA kernel
  Slack           \* passes of the level iteration beyond one per row

Rows == 1..N
Task == [kernel : {"row", "factor", "column"}, side : {"lower", "upper"},
         device : {"cuda", "wgpu"}, maxFill : Nat]

ASSUME SparseAssumption ==
  /\ N \in Nat \ {0} /\ BlockSize \in Nat \ {0} /\ Slack \in Nat
  /\ Patterns \subseteq SUBSET (Rows \X Rows)
  /\ Tasks \subseteq Task
  /\ \A t \in Tasks : t.kernel = "factor" => t.side = "lower"

VARIABLES
  task,
  fill,       \* the pattern by rows: for each column that has an entry its level of fill
  pc,         \* "fill", "levels", "solve" or "done"
  place,      \* the host's loop over the rows
  todo,       \* what is left of the loop over a set, or of a launch
  level,      \* the level of each row
  before,     \* what the levels were when the running kernel was launched
  changed,    \* the flag of the level iteration
  pass,       \* its passes so far
  launch,     \* the level that is being solved
  thread,     \* what each row's thread has done
  x           \* the values of the rows

analysis == <<place, level, before, changed, pass>>
vars == <<task, fill, pc, todo, analysis, launch, thread, x>>

Kernel == task.kernel
OnDevice == task.device = "cuda" /\ Kernel # "column"
Atomic == task.device = "cuda"

Before(k, i) == IF task.side = "lower" THEN k < i ELSE k > i
Needs(i) == {k \in Rows : k \in DOMAIN fill[i] /\ Before(k, i)}
NeededBy(k) == {i \in Rows : k \in Needs(i)}

\* Where a thread is, the rows it has still to read or to write, its registers.
State(at, still, reg, old) == [at |-> at, left |-> still, reg |-> reg, old |-> old]

Init ==
  /\ task \in Tasks
  /\ \E A \in Patterns :
       fill = [i \in Rows |-> [j \in {j \in Rows : <<i, j>> \in A} \cup {i} |-> 0]]
  /\ pc = IF Kernel = "factor" THEN "fill" ELSE "levels"
  /\ place = 1
  /\ todo = IF Kernel = "factor" THEN {} ELSE Rows
  /\ level = [i \in Rows |-> 0]
  /\ before = level
  /\ changed = FALSE
  /\ pass = 1
  /\ launch = 0
  /\ thread = [i \in Rows |-> State("start", {}, {}, {})]
  /\ x = [i \in Rows |-> {}]
-----------------------------------------------------------------------------
(***************************************************************************)
(* The fill of ILU(k). The rows a row is eliminated with are those it has  *)
(* entries for at first, in the order of a HashMap.                        *)
(***************************************************************************)
Eliminated(i) == {k \in Rows : k \in DOMAIN fill[i] /\ k < i}

FillFrom_UpperOnly(k) ==
  LET i == place
      new == [j \in {j \in DOMAIN fill[k] : j > k} |-> fill[i][k] + fill[k][j] + 1]
      kept == {j \in DOMAIN new : new[j] <= task.maxFill} IN
  /\ pc = "fill" /\ k \in todo
  /\ fill' = [fill EXCEPT ![i] = [j \in DOMAIN fill[i] \cup kept |->
                IF j \notin kept \/ (j \in DOMAIN fill[i] /\ fill[i][j] <= new[j])
                THEN fill[i][j] ELSE new[j]]]
  /\ todo' = todo \ {k}
  /\ UNCHANGED <<task, pc, analysis, launch, thread, x>>

FillFrom(k) ==
  LET i == place
      new == [j \in DOMAIN fill[k] \ {k} |-> fill[i][k] + fill[k][j] + 1]
      kept == {j \in DOMAIN new : new[j] <= task.maxFill} IN
  /\ pc = "fill" /\ k \in todo
  /\ fill' = [fill EXCEPT ![i] = [j \in DOMAIN fill[i] \cup kept |->
                IF j \notin kept \/ (j \in DOMAIN fill[i] /\ fill[i][j] <= new[j])
                THEN fill[i][j] ELSE new[j]]]
  /\ todo' = todo \ {k}
  /\ UNCHANGED <<task, pc, analysis, launch, thread, x>>

NextFillRow ==
  /\ pc = "fill" /\ todo = {}
  /\ IF place < N
     THEN /\ place' = place + 1 /\ todo' = Eliminated(place + 1) /\ UNCHANGED pc
     ELSE /\ place' = 1 /\ todo' = Rows /\ pc' = "levels"
  /\ UNCHANGED <<task, fill, level, before, changed, pass, launch, thread, x>>
-----------------------------------------------------------------------------
(***************************************************************************)
(* The levels                                                              *)
(***************************************************************************)
\* One more than the highest of the levels seen, 0 if there are none.
JustAbove(l, seen) ==
  /\ \A k \in DOMAIN seen : seen[k] < l
  /\ l = 0 \/ \E k \in DOMAIN seen : seen[k] + 1 = l

LevelsOf(S) == [k \in S |-> level[k]]

\* compute_levels_lower, compute_levels_upper and their CSC counterparts
HostLevel ==
  LET i == IF task.side = "lower" THEN place ELSE N + 1 - place IN
  /\ pc = "levels" /\ ~OnDevice /\ place <= N
  /\ \E l \in 0..N : /\ JustAbove(l, LevelsOf(Needs(i)))
                     /\ level' = [level EXCEPT ![i] = l]
  /\ place' = place + 1
  /\ UNCHANGED <<task, fill, pc, todo, before, changed, pass, launch, thread, x>>

LevelThread_FlagOverwritten(i) ==
  /\ pc = "levels" /\ OnDevice /\ i \in todo
  /\ \E stale \in SUBSET Needs(i), l \in 0..N :
       /\ JustAbove(l, [k \in Needs(i) |-> IF k \in stale THEN before[k] ELSE level[k]])
       /\ level' = IF level[i] < l THEN [level EXCEPT ![i] = l] ELSE level
       /\ changed' = (level[i] < l)
  /\ todo' = todo \ {i}
  /\ UNCHANGED <<task, fill, pc, place, before, pass, launch, thread, x>>

\* A thread of compute_levels_lower_iter or _upper_iter. Its loads are plain: each
\* may see a level from before the kernel's other threads wrote it, or from after.
LevelThread(i) ==
  /\ pc = "levels" /\ OnDevice /\ i \in todo
  /\ \E stale \in SUBSET Needs(i), l \in 0..N :
       /\ JustAbove(l, [k \in Needs(i) |-> IF k \in stale THEN before[k] ELSE level[k]])
       /\ level' = IF level[i] < l THEN [level EXCEPT ![i] = l] ELSE level
       /\ changed' = (changed \/ level[i] < l)
  /\ todo' = todo \ {i}
  /\ UNCHANGED <<task, fill, pc, place, before, pass, launch, thread, x>>

\* The host reads the flag between two kernels. Nothing ever clears it.
NextPass ==
  /\ pc = "levels" /\ OnDevice /\ todo = {}
  /\ changed /\ pass < N + Slack
  /\ pass' = pass + 1
  /\ before' = level
  /\ todo' = Rows
  /\ UNCHANGED <<task, fill, pc, place, level, changed, launch, thread, x>>

LevelsReady ==
  IF OnDevice THEN todo = {} /\ (~changed \/ pass = N + Slack) ELSE place = N + 1

\* The rows are grouped by level, and the first group is launched.
Group ==
  /\ pc = "levels" /\ LevelsReady
  /\ pc' = "solve"
  /\ todo' = {i \in Rows : level[i] = 0}
  /\ thread' = [i \in Rows |->
       State("start", IF Kernel = "column" THEN NeededBy(i) ELSE Needs(i), {}, {})]
  /\ UNCHANGED <<task, fill, analysis, launch, x>>
-----------------------------------------------------------------------------
(***************************************************************************)
(* The threads of a launch                                                 *)
(***************************************************************************)
First(k, S) == k \in S /\ \A j \in S : k <= j
Running(i, kernel) == pc = "solve" /\ Kernel = kernel /\ i \in todo
Step(i, t) ==
  /\ thread' = [thread EXCEPT ![i] = t]
  /\ UNCHANGED <<task, fill, pc, analysis, launch>>
Exit(i) == todo' = todo \ {i}

\* sparse_trsv_lower_level, sparse_trsv_upper_level
RowLoad(i) ==
  LET t == thread[i] IN
  /\ Running(i, "row")
  /\ \E k \in t.left :
       /\ First(k, t.left)
       /\ Step(i, State("start", t.left \ {k}, t.reg \cup {<<k, x[k]>>}, {}))
  /\ UNCHANGED <<x, todo>>

RowStore(i) ==
  LET t == thread[i] IN
  /\ Running(i, "row") /\ t.left = {}
  /\ x' = [x EXCEPT ![i] = t.reg]
  /\ Step(i, t) /\ Exit(i)

\* ilu0_level, ic0_level: one elimination after the other, in place.
Eliminate(i) ==
  LET t == thread[i] IN
  /\ Running(i, "factor")
  /\ \E k \in t.left :
       /\ First(k, t.left)
       /\ x' = [x EXCEPT ![i] = @ \cup {<<k, x[k]>>}]
       /\ Step(i, State("start", t.left \ {k}, {}, {}))
  /\ UNCHANGED todo

RowFactored(i) ==
  LET t == thread[i] IN
  /\ Running(i, "factor") /\ t.left = {}
  /\ Step(i, t) /\ Exit(i)
  /\ UNCHANGED x

\* sparse_trsv_csc_lower_level, sparse_trsv_csc_upper_level: the unknown is loaded,
\* divided and stored, then subtracted from each row that needs it.
LoadUnknown(i) ==
  LET t == thread[i] IN
  /\ Running(i, "column") /\ t.at = "start"
  /\ Step(i, State("divided", t.left, x[i], {}))
  /\ UNCHANGED <<x, todo>>

StoreUnknown(i) ==
  LET t == thread[i] IN
  /\ Running(i, "column") /\ t.at = "divided"
  /\ x' = [x EXCEPT ![i] = t.reg]
  /\ Step(i, State("update", t.left, t.reg, {}))
  /\ UNCHANGED todo

AtomicSubtract(i) ==
  LET t == thread[i] IN
  /\ Running(i, "column") /\ t.at = "update" /\ Atomic
  /\ \E k \in t.left :
       /\ First(k, t.left)
       /\ x' = [x EXCEPT ![k] = @ \cup {<<i, t.reg>>}]
       /\ Step(i, State("update", t.left \ {k}, t.reg, {}))
  /\ UNCHANGED todo

LoadTarget(i) ==
  LET t == thread[i] IN
  /\ Running(i, "column") /\ t.at = "update" /\ ~Atomic
  /\ \E k \in t.left :
       /\ First(k, t.left)
       /\ Step(i, State("subtract", t.left, t.reg, x[k]))
  /\ UNCHANGED <<x, todo>>

StoreTarget(i) ==
  LET t == thread[i] IN
  /\ Running(i, "column") /\ t.at = "subtract"
  /\ \E k \in t.left :
       /\ First(k, t.left)
       /\ x' = [x EXCEPT ![k] = t.old \cup {<<i, t.reg>>}]
       /\ Step(i, State("update", t.left \ {k}, t.reg, {}))
  /\ UNCHANGED todo

ColumnDone(i) ==
  LET t == thread[i] IN
  /\ Running(i, "column") /\ t.at = "update" /\ t.left = {}
  /\ Step(i, t) /\ Exit(i)
  /\ UNCHANGED x

\* reduce_max_i32 runs as one block: it sees the levels of the first BlockSize rows.
Reduced == IF OnDevice THEN {i \in Rows : i <= BlockSize} ELSE Rows

NextLaunch_OneTooFew ==
  /\ pc = "solve" /\ todo = {}
  /\ IF \E i \in Reduced : level[i] > launch + 1
     THEN /\ launch' = launch + 1 /\ todo' = {i \in Rows : level[i] = launch + 1}
          /\ UNCHANGED pc
     ELSE /\ pc' = "done" /\ UNCHANGED <<launch, todo>>
  /\ UNCHANGED <<task, fill, analysis, thread, x>>

\* The kernels of the levels follow each other on one stream.
NextLaunch ==
  /\ pc = "solve" /\ todo = {}
  /\ IF \E i \in Reduced : level[i] > launch
     THEN /\ launch' = launch + 1 /\ todo' = {i \in Rows : level[i] = launch + 1}
          /\ UNCHANGED pc
     ELSE /\ pc' = "done" /\ UNCHANGED <<launch, todo>>
  /\ UNCHANGED <<task, fill, analysis, thread, x>>

Finished == pc = "done" /\ UNCHANGED vars

Thread(i) ==
  \/ RowLoad(i) \/ RowStore(i)
  \/ Eliminate(i) \/ RowFactored(i)
  \/ LoadUnknown(i) \/ StoreUnknown(i)
  \/ AtomicSubtract(i) \/ LoadTarget(i) \/ StoreTarget(i) \/ ColumnDone(i)

Next ==
  \/ \E k \in Rows : FillFrom(k)
  \/ NextFillRow
  \/ HostLevel \/ NextPass \/ Group \/ NextLaunch
  \/ \E i \in Rows : LevelThread(i) \/ Thread(i)
  \/ Finished

Spec == Init /\ [][Next]_vars
-----------------------------------------------------------------------------
Through(i, j) == {k \in 1..(i - 1) : k \in DOMAIN fill[i] /\ j \in DOMAIN fill[k]}
LevelThrough(i, j, k) == fill[i][k] + fill[k][j] + 1

\* The documented level of an entry (i, j) that is not the matrix's own is the least
\* level[i, k] + level[k, j] + 1 over the rows k before i. Every level is such a sum, so
\* none is lower than documented; and none is higher than the sum through a k for which
\* the matrix itself has (i, k). Up to limit 1 that is the documented level. From
\* limit 2 on the minimum is documented to go over the k that are fill as well, which
\* the code leaves out: there an entry can be missing, or have a higher level.
FillLevels ==
  Kernel = "factor" /\ pc # "fill" =>
    \A i, j \in Rows : i # j =>
      /\ j \in DOMAIN fill[i] /\ fill[i][j] > 0 =>
           /\ fill[i][j] <= task.maxFill
           /\ \E k \in Through(i, j) : fill[i][j] = LevelThrough(i, j, k)
      /\ \A k \in Through(i, j) :
           fill[i][k] = 0 /\ LevelThrough(i, j, k) <= task.maxFill =>
             j \in DOMAIN fill[i] /\ fill[i][j] <= LevelThrough(i, j, k)

\* The level of a row is one more than the highest level of the rows it needs, as
\* levels.rs defines it, whatever the threads of the level iteration have seen of
\* each other, and however early the iteration stopped.
LevelsExact ==
  pc \in {"solve", "done"} => \A i \in Rows : JustAbove(level[i], LevelsOf(Needs(i)))

Solved == \A i \in Rows : x[i] = {<<k, x[k]>> : k \in Needs(i)}

\* Two columns of one launch subtract from the same row without atomics: the shader
\* relies on the levels to prevent it, which they do not.
Collision ==
  /\ Kernel = "column" /\ ~Atomic
  /\ \E i, j \in Rows : i # j /\ level[i] = level[j] /\ NeededBy(i) \cap NeededBy(j) # {}

\* The rows of a launch run at once and the result is that of one row after the
\* other: every row has the value of every row it needs subtracted once, and
\* each of those was final when it was read. Where columns collide updates get lost.
SolveExact == pc = "done" /\ ~Collision => Solved
=============================================================================
