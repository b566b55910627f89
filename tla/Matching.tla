------------------------------ MODULE Matching ------------------------------
(***************************************************************************)
(* hopcroft_karp of src/src/algorithm/sparse_linalg/matching/              *)
(* hopcroft_karp.rs: a maximum matching of the columns of a sparse matrix  *)
(* with its rows. A breadth-first search gives every column its distance   *)
(* from a free one; depth-first searches from the free columns follow      *)
(* edges that lead one level on and augment the matching where they end at *)
(* a free row; this is repeated until no free row can be reached.          *)
(*                                                                         *)
(* The rows of a column come in any order, as CSC leaves it open. A row    *)
(* index out of range is skipped, so the graph has none. The recursion of  *)
(* dfs is a stack of frames: a column, the row it has followed, and the    *)
(* rows its loop has still to look at.                                     *)
(***************************************************************************)
EXTENDS Integers, Sequences, FiniteSets

CONSTANTS
  NRows, NCols,
  Graphs,      \* for each matrix considered, the rows of each column
  Nil,         \* no column or no row
  Inf          \* i32::MAX, which no distance reaches: column indices are i32

Rows == 1..NRows
Columns == 1..NCols

ASSUME MatchingAssumption ==
  /\ NRows \in Nat \ {0} /\ NCols \in Nat \ {0}
  /\ Graphs \subseteq [Columns -> SUBSET Rows]
  /\ Nil \notin Int /\ Inf \notin Int

VARIABLES
  adj,       \* the graph
  c2r, r2c,  \* col_to_row and row_to_col
  dist,      \* the distance of each column, and of Nil
  queue,     \* of the breadth-first search
  col,       \* the loop over the columns
  stack,     \* the frames of the depth-first search, the running one last
  size,      \* matching_size
  last,      \* the length of the last phase's paths, 0 before it; not in the code
  pc         \* "reset", "bfs", "scan", "dfs", "return" or "done"

matching == <<c2r, r2c, size>>
vars == <<adj, matching, dist, queue, col, stack, last, pc>>

Top == stack[Len(stack)]
Pop == SubSeq(stack, 1, Len(stack) - 1)
Frame(j) == [col |-> j, row |-> Nil, todo |-> adj[j]]

(* The orders in which a set can be met. *)
Orders(S) == {s \in [1..Cardinality(S) -> S] : \A e \in S : \E k \in DOMAIN s : s[k] = e}

Init ==
  /\ adj \in Graphs
  /\ c2r = [j \in Columns |-> Nil] /\ r2c = [i \in Rows |-> Nil] /\ size = 0
  /\ dist = [j \in Columns \cup {Nil} |-> 0]
  /\ queue = <<>> /\ col = 1 /\ stack = <<>>
  /\ last = 0 /\ pc = "reset"

(* bfs begins: free columns are at distance 0 and enter the queue. *)
Reset ==
  /\ pc = "reset" /\ col <= NCols
  /\ dist' = [dist EXCEPT ![col] = IF c2r[col] = Nil THEN 0 ELSE Inf]
  /\ queue' = IF c2r[col] = Nil THEN Append(queue, col) ELSE queue
  /\ col' = col + 1
  /\ UNCHANGED <<adj, matching, stack, last, pc>>
ResetNil ==
  /\ pc = "reset" /\ col > NCols
  /\ dist' = [dist EXCEPT ![Nil] = Inf]
  /\ pc' = "bfs"
  /\ UNCHANGED <<adj, matching, queue, col, stack, last>>

(* One column of the queue: those matched to its rows and not yet seen are *)
(* one further; beyond the first free row nothing is looked at.            *)
Nearer(j) == dist[Nil] = Inf \/ dist[j] < dist[Nil]

Unseen_FreeRowsOnly(j) == {k \in {r2c[i] : i \in adj[j]} : dist[k] = Inf /\ k = Nil}

Unseen(j) == {k \in {r2c[i] : i \in adj[j]} : dist[k] = Inf}
Visit ==
  /\ pc = "bfs" /\ queue # <<>>
  /\ LET j == Head(queue)
         new == IF Nearer(j) THEN Unseen(j) ELSE {}
     IN  /\ dist' = [k \in DOMAIN dist |-> IF k \in new THEN dist[j] + 1 ELSE dist[k]]
         /\ \E order \in Orders(new \ {Nil}) : queue' = Tail(queue) \o order
  /\ UNCHANGED <<adj, matching, col, stack, last, pc>>

BfsEnds_UntilAllMatched ==
  /\ pc = "bfs" /\ queue = <<>>
  /\ pc' = IF \A j \in Columns : c2r[j] # Nil THEN "done" ELSE IF dist[Nil] = Inf THEN "reset" ELSE "scan"
  /\ col' = 1
  /\ UNCHANGED <<adj, matching, dist, queue, stack, last>>

BfsEnds ==
  /\ pc = "bfs" /\ queue = <<>>
  /\ pc' = IF dist[Nil] = Inf THEN "done" ELSE "scan"
  /\ col' = 1
  /\ UNCHANGED <<adj, matching, dist, queue, stack, last>>

Scan_OnePath ==
  /\ pc = "scan" /\ col <= NCols
  /\ IF c2r[col] = Nil /\ dist[Nil] # Inf /\ \A j \in Columns : j < col => c2r[j] # Nil
     THEN stack' = <<Frame(col)>> /\ pc' = "dfs" /\ UNCHANGED col
     ELSE col' = col + 1 /\ UNCHANGED <<stack, pc>>
  /\ UNCHANGED <<adj, matching, dist, queue, last>>

(* A phase: dfs from every column that is still free. *)
Scan ==
  /\ pc = "scan" /\ col <= NCols
  /\ IF c2r[col] = Nil
     THEN stack' = <<Frame(col)>> /\ pc' = "dfs" /\ UNCHANGED col
     ELSE col' = col + 1 /\ UNCHANGED <<stack, pc>>
  /\ UNCHANGED <<adj, matching, dist, queue, last>>
PhaseEnds ==
  /\ pc = "scan" /\ col > NCols
  /\ pc' = "reset" /\ col' = 1 /\ last' = dist[Nil]
  /\ UNCHANGED <<adj, matching, dist, queue, stack>>

OneOn_NotBack(i) == dist[r2c[i]] # Inf

(* The loop of dfs over the rows of a column. *)
OneOn(i) == dist[r2c[i]] = dist[Top.col] + 1
Take(i) == Append(Pop, [Top EXCEPT !.row = i, !.todo = @ \ {i}])
Skip(i) ==
  /\ pc = "dfs" /\ i \in Top.todo /\ ~OneOn(i)
  /\ stack' = Append(Pop, [Top EXCEPT !.todo = @ \ {i}])
  /\ UNCHANGED <<adj, matching, dist, queue, col, last, pc>>
Follow(i) ==
  /\ pc = "dfs" /\ i \in Top.todo /\ OneOn(i)
  /\ IF r2c[i] = Nil
     THEN stack' = Take(i) /\ pc' = "return"
     ELSE stack' = Append(Take(i), Frame(r2c[i])) /\ UNCHANGED pc
  /\ UNCHANGED <<adj, matching, dist, queue, col, last>>

(* A frame is left: its caller goes on, or the loop over the columns does. *)
Leave == /\ stack' = Pop
         /\ col' = IF Pop = <<>> THEN col + 1 ELSE col

(* No path from this column: it is not looked at again in this phase. *)
DeadEnd ==
  /\ pc = "dfs" /\ Top.todo = {}
  /\ dist' = [dist EXCEPT ![Top.col] = Inf]
  /\ pc' = IF Pop = <<>> THEN "scan" ELSE "dfs"
  /\ Leave
  /\ UNCHANGED <<adj, matching, queue, last>>

Augment_ColumnOnly ==
  /\ pc = "return"
  /\ c2r' = [c2r EXCEPT ![Top.col] = Top.row]
  /\ r2c' = IF Pop = <<>> THEN [r2c EXCEPT ![Top.row] = Top.col] ELSE r2c
  /\ size' = IF Pop = <<>> THEN size + 1 ELSE size
  /\ pc' = IF Pop = <<>> THEN "scan" ELSE "return"
  /\ Leave
  /\ UNCHANGED <<adj, dist, queue, last>>

(* The path is found: each frame, from the last to the first, matches its  *)
(* column to the row it followed and returns true.                         *)
Augment ==
  /\ pc = "return"
  /\ c2r' = [c2r EXCEPT ![Top.col] = Top.row]
  /\ r2c' = [r2c EXCEPT ![Top.row] = Top.col]
  /\ size' = IF Pop = <<>> THEN size + 1 ELSE size
  /\ pc' = IF Pop = <<>> THEN "scan" ELSE "return"
  /\ Leave
  /\ UNCHANGED <<adj, dist, queue, last>>

Finished == pc = "done" /\ UNCHANGED vars

Next == \/ Reset \/ ResetNil \/ Visit \/ BfsEnds \/ Scan \/ PhaseEnds
        \/ \E i \in Rows : Skip(i) \/ Follow(i)
        \/ DeadEnd \/ Augment \/ Finished

Spec == Init /\ [][Next]_vars
(* A sequential program that goes on while it can. *)
FairSpec == Spec /\ WF_vars(Next)

-----------------------------------------------------------------------------
Edges == {e \in Columns \X Rows : e[2] \in adj[e[1]]}
IsMatching(M) == /\ M \subseteq Edges
                 /\ \A e, f \in M : e[1] = f[1] \/ e[2] = f[2] => e = f
Matched == {j \in Columns : c2r[j] # Nil}

(* Whenever no path is being unwound, the two arrays say the same, and of  *)
(* edges of the graph only, and matching_size counts the matched columns.  *)
ArraysAgree ==
  pc # "return" =>
    /\ \A j \in Columns : c2r[j] # Nil => c2r[j] \in adj[j] /\ r2c[c2r[j]] = j
    /\ \A i \in Rows : r2c[i] # Nil => c2r[r2c[i]] = i
    /\ size = Cardinality(Matched)

(* The result is maximum: no matching of the graph has more edges. *)
Maximum == pc = "done" => \A M \in SUBSET Edges : IsMatching(M) => Cardinality(M) <= size

(* Every frame's column is at a distance to which 1 can be added: none is  *)
(* at i32::MAX. Along the stack the distance grows, so that no column is   *)
(* on it twice.                                                            *)
StackClimbs ==
  \A k \in DOMAIN stack : /\ dist[stack[k].col] # Inf
                          /\ dist[stack[k].col] = dist[stack[1].col] + (k - 1)

(* "in O(E sqrt(V)) time" (hopcroft_karp.rs:3) rests on phases that each   *)
(* have longer paths than the last: the paths a phase finds are disjoint   *)
(* and as many as there can be.                                            *)
PathsGrow == [][pc = "bfs" /\ pc' = "scan" => dist[Nil] > last]_vars

(* The search ends. *)
Terminates == <>(pc = "done")
=============================================================================
