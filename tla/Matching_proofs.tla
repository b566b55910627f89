--------------------------- MODULE Matching_proofs ---------------------------
(***************************************************************************)
(* Theorems about Matching, for matrices of any shape and pattern: the     *)
(* arrays agree, the size is exact, the recursion climbs, and the result   *)
(* is a maximum matching.                                                  *)
(*                                                                         *)
(* The last is the argument of Koenig: when the search reaches no free     *)
(* row, every edge of any other matching leads to a matched column of its  *)
(* own, its column if the search has not reached that, and the column      *)
(* matched to its row otherwise.                                           *)
(***************************************************************************)
EXTENDS Matching, FiniteSetTheorems, SequenceTheorems, TLAPS

Frames == [col : Columns, row : Rows \cup {Nil}, todo : SUBSET Rows]

Types ==
  /\ adj \in [Columns -> SUBSET Rows]
  /\ c2r \in [Columns -> Rows \cup {Nil}]
  /\ r2c \in [Rows -> Columns \cup {Nil}]
  /\ dist \in [Columns \cup {Nil} -> Nat \cup {Inf}]
  /\ queue \in Seq(Columns) /\ col \in 1..(NCols + 1)
  /\ stack \in Seq(Frames) /\ size \in Nat
  /\ pc \in {"reset", "bfs", "scan", "dfs", "return", "done"}

Reached(k) == dist[k] \in Nat
Queued(j) == \E n \in 1..Len(queue) : queue[n] = j

\* The arrays agree but for the row a path that is being unwound follows next.
Arrays ==
  /\ \A j \in Columns : c2r[j] # Nil => c2r[j] \in adj[j] /\ r2c[c2r[j]] = j
  /\ \A i \in Rows : r2c[i] # Nil /\ ~(pc = "return" /\ i = Top.row) => c2r[r2c[i]] = i

\* The stack is a path of the level graph from the loop's column, which is free.
Root ==
  /\ stack # <<>> <=> pc \in {"dfs", "return"}
  /\ stack # <<>> => /\ stack[1].col = col
                     /\ c2r[col] = Nil
                     /\ col <= NCols
Path ==
  /\ \A k \in 1..Len(stack) :
       /\ stack[k].todo \subseteq adj[stack[k].col]
       /\ stack[k].row # Nil => stack[k].row \in adj[stack[k].col]
       /\ Reached(stack[k].col)
       /\ dist[stack[k].col] = dist[stack[1].col] + (k - 1)
  /\ \A k \in 1..(Len(stack) - 1) :
       /\ stack[k].row # Nil
       /\ stack[k].row # stack[k + 1].row
       /\ r2c[stack[k].row] = stack[k + 1].col
FreeEnd ==
  pc = "return" => /\ Top.row # Nil
                   /\ r2c[Top.row] # Nil => /\ c2r[r2c[Top.row]] # Top.row
                                            /\ dist[r2c[Top.row]] = dist[Top.col] + 1

\* Free columns that the phase has still to look at have a distance.
FreeReached ==
  /\ pc \in {"bfs", "done"} => \A j \in Columns : c2r[j] = Nil => Reached(j)
  /\ pc \in {"scan", "dfs", "return"} =>
       /\ queue = <<>>
       /\ \A j \in Columns : c2r[j] = Nil /\ j >= col => Reached(j)

\* While the columns are reset, the queue is the free ones before the loop's.
Resetting ==
  pc = "reset" =>
    /\ \A n \in 1..Len(queue) : queue[n] < col /\ Reached(queue[n])
    /\ \A j \in Columns : j < col =>
         /\ c2r[j] = Nil => Reached(j)
         /\ Reached(j) => Queued(j)

\* What the search has reached is in the queue, or all it leads to is reached.
Closed(j) == \A i \in adj[j] : Reached(r2c[i])
Search ==
  /\ pc = "bfs" => \A n \in 1..Len(queue) : Reached(queue[n])
  /\ pc = "bfs" /\ dist[Nil] = Inf =>
       \A j \in Columns : Reached(j) => Queued(j) \/ Closed(j)
  /\ pc = "done" => /\ dist[Nil] = Inf
                    /\ \A j \in Columns : Reached(j) => Closed(j)

\* While a path is unwound, too.
SizeExact == size = Cardinality(Matched)

IInv == /\ Types /\ Arrays /\ Root /\ Path /\ FreeEnd
        /\ FreeReached /\ Resetting /\ Search /\ SizeExact
-----------------------------------------------------------------------------
\* Facts about the constants.
LEMMA Sentinels ==
  /\ Nil \notin Columns /\ Nil \notin Rows /\ Nil \notin Nat
  /\ Inf \notin Nat
  /\ NRows \in Nat /\ NCols \in Nat
  /\ Columns \subseteq Nat /\ IsFiniteSet(Columns) /\ IsFiniteSet(Rows)
<1>1. NRows \in Nat /\ NCols \in Nat /\ Nil \notin Int /\ Inf \notin Int
  BY MatchingAssumption
<1>2. IsFiniteSet(1..NCols) /\ IsFiniteSet(1..NRows)
  BY <1>1, FS_Interval
<1> QED BY <1>1, <1>2 DEF Columns, Rows

\* The last element of a sequence taken off, and replaced.
LEMMA TakenOff ==
  ASSUME NEW S, NEW s \in Seq(S), s # <<>>, NEW e \in S
  PROVE  LET p == SubSeq(s, 1, Len(s) - 1) IN
         /\ p \in Seq(S) /\ Len(p) = Len(s) - 1
         /\ Len(s) \in Nat \ {0} /\ s[Len(s)] \in S
         /\ \A k \in 1..(Len(s) - 1) : p[k] = s[k]
         /\ p = <<>> <=> Len(s) = 1
         /\ Append(p, e) \in Seq(S) /\ Len(Append(p, e)) = Len(s)
         /\ Append(p, e)[Len(s)] = e
         /\ \A k \in 1..(Len(s) - 1) : Append(p, e)[k] = s[k]
<1> DEFINE p == SubSeq(s, 1, Len(s) - 1)
<1>1. Len(s) \in Nat \ {0} /\ s[Len(s)] \in S /\ \A k \in 1..Len(s) : s[k] \in S
  BY EmptySeq, LenProperties, ElementOfSeq
<1>2. p \in Seq(S) /\ Len(p) = Len(s) - 1 /\ \A k \in 1..(Len(s) - 1) : p[k] = s[k]
  <2>1. \A k \in 1..(Len(s) - 1) : s[k] \in S
    BY <1>1
  <2>2. /\ p \in Seq(S)
        /\ Len(p) = IF 1 <= Len(s) - 1 THEN (Len(s) - 1) - 1 + 1 ELSE 0
        /\ \A k \in 1..((Len(s) - 1) - 1 + 1) : p[k] = s[1 + k - 1]
    BY ONLY <1>1, <2>1, SubSeqProperties
  <2> HIDE DEF p
  <2>3. ASSUME NEW k \in 1..(Len(s) - 1) PROVE p[k] = s[k]
    <3>1. k \in 1..((Len(s) - 1) - 1 + 1) /\ 1 + k - 1 = k
      BY <1>1
    <3>2. p[k] = s[1 + k - 1]
      BY <2>2, <3>1
    <3> QED BY <3>1, <3>2
  <2>4. Len(p) = Len(s) - 1
    <3>1. CASE Len(s) = 1
      BY <2>2, <3>1
    <3>2. CASE Len(s) # 1
      <4> DEFINE n == Len(s)
      <4>1. n \in Nat /\ n # 0 /\ n # 1
        BY <1>1, <3>2
      <4>2. Len(p) = IF 1 <= n - 1 THEN (n - 1) - 1 + 1 ELSE 0
        BY <2>2
      <4> HIDE DEF n
      <4>3. Len(p) = n - 1
        BY <4>1, <4>2
      <4> QED BY <4>3 DEF n
    <3> QED BY <3>1, <3>2
  <2> QED BY <2>2, <2>3, <2>4
<1> HIDE DEF p
<1>3. p = <<>> <=> Len(s) = 1
  BY <1>1, <1>2, EmptySeq
<1>4. /\ Append(p, e) \in Seq(S) /\ Len(Append(p, e)) = Len(s)
      /\ Append(p, e)[Len(s)] = e
      /\ \A k \in 1..(Len(s) - 1) : Append(p, e)[k] = s[k]
  BY <1>1, <1>2, AppendProperties
<1> QED BY <1>1, <1>2, <1>3, <1>4 DEF p

LEMMA InitHolds == Init => IInv
<1> SUFFICES ASSUME Init PROVE IInv
  OBVIOUS
<1> USE Sentinels
<1>1. Types
  BY MatchingAssumption DEF Init, Types
<1>2. Arrays /\ Root /\ Path /\ FreeEnd
  BY DEF Init, Arrays, Root, Path, FreeEnd, Columns, Rows
<1>3. FreeReached /\ Resetting /\ Search
  BY DEF Init, FreeReached, Resetting, Search, Columns
<1>4. SizeExact
  <2>1. Matched = {}
    BY DEF Init, Matched
  <2> QED BY <2>1, FS_EmptySet DEF Init, SizeExact
<1> QED BY <1>1, <1>2, <1>3, <1>4 DEF IInv

-----------------------------------------------------------------------------
\* The breadth-first search.
LEMMA ResetKeeps == IInv /\ Reset => IInv'
<1> SUFFICES ASSUME IInv, Reset PROVE IInv'
  OBVIOUS
<1> USE Sentinels
<1>1. /\ col \in Columns /\ col' = col + 1 /\ col' \in 1..(NCols + 1)
      /\ stack = <<>> /\ pc = "reset" /\ pc' = "reset"
  BY DEF IInv, Types, Root, Reset, Columns
<1>2. /\ c2r[col] = Nil => dist'[col] = 0 /\ queue' = Append(queue, col)
      /\ c2r[col] # Nil => dist'[col] = Inf /\ queue' = queue
      /\ \A k \in (Columns \cup {Nil}) \ {col} : dist'[k] = dist[k]
      /\ dist' \in [Columns \cup {Nil} -> Nat \cup {Inf}]
  BY <1>1 DEF IInv, Types, Reset
<1>3. /\ Len(queue) \in Nat /\ queue' \in Seq(Columns)
      /\ \A n \in 1..Len(queue) : n \in 1..Len(queue') /\ queue[n] \in Columns /\ queue'[n] = queue[n]
      /\ \A n \in 1..Len(queue') : n \in 1..Len(queue) \/ (c2r[col] = Nil /\ queue'[n] = col)
      /\ c2r[col] = Nil => \E n \in 1..Len(queue') : queue'[n] = col
  <2>1. queue \in Seq(Columns) /\ Len(queue) \in Nat /\ \A n \in 1..Len(queue) : queue[n] \in Columns
    BY LenProperties, ElementOfSeq DEF IInv, Types
  <2>2. /\ Append(queue, col) \in Seq(Columns) /\ Len(Append(queue, col)) = Len(queue) + 1
        /\ \A n \in 1..Len(queue) : Append(queue, col)[n] = queue[n]
        /\ Append(queue, col)[Len(queue) + 1] = col
    BY <1>1, <2>1, AppendProperties
  <2>3. CASE c2r[col] = Nil
    BY <1>2, <2>1, <2>2, <2>3
  <2>4. CASE c2r[col] # Nil
    BY <1>2, <2>1, <2>4
  <2> QED BY <2>3, <2>4
<1>4. Types'
  BY <1>1, <1>2, <1>3 DEF IInv, Types, Reset, matching
<1>5. Arrays' /\ Root' /\ Path' /\ FreeEnd' /\ SizeExact'
  BY <1>1 DEF IInv, Reset, matching, Arrays, Root, Path, FreeEnd, SizeExact, Matched
<1>6. Resetting'
  <2>1. ASSUME NEW n \in 1..Len(queue') PROVE queue'[n] < col' /\ dist'[queue'[n]] \in Nat
    <3>1. CASE n \in 1..Len(queue)
      <4>1. queue'[n] = queue[n] /\ queue[n] \in Columns /\ queue[n] < col /\ dist[queue[n]] \in Nat
        BY <1>1, <1>3, <3>1 DEF IInv, Resetting, Reached
      <4> QED BY <1>1, <1>2, <4>1 DEF Columns
    <3>2. CASE c2r[col] = Nil /\ queue'[n] = col
      BY <1>1, <1>2, <3>2 DEF Columns
    <3> QED BY <1>3, <3>1, <3>2
  <2>2. ASSUME NEW j \in Columns, j < col'
        PROVE  /\ c2r'[j] = Nil => Reached(j)'
               /\ Reached(j)' => Queued(j)'
    <3>1. c2r' = c2r
      BY DEF Reset, matching
    <3>2. CASE j = col
      BY <1>2, <1>3, <3>1, <3>2 DEF Reached, Queued
    <3>3. CASE j # col
      <4>1. j < col
        BY <1>1, <2>2, <3>3 DEF Columns
      <4>2. /\ c2r[j] = Nil => Reached(j)
            /\ Reached(j) => Queued(j)
        BY <1>1, <4>1 DEF IInv, Resetting
      <4>3. Queued(j) => Queued(j)'
        BY <1>3 DEF Queued
      <4> QED BY <1>2, <3>1, <3>3, <4>2, <4>3 DEF Reached
    <3> QED BY <3>2, <3>3
  <2> QED BY <2>1, <2>2 DEF Resetting, Reached
<1>7. FreeReached' /\ Search'
  BY <1>1 DEF FreeReached, Search
<1> QED BY <1>4, <1>5, <1>6, <1>7 DEF IInv

LEMMA ResetNilKeeps == IInv /\ ResetNil => IInv'
<1> SUFFICES ASSUME IInv, ResetNil PROVE IInv'
  OBVIOUS
<1> USE Sentinels
<1>1. /\ stack = <<>> /\ pc = "reset" /\ pc' = "bfs"
      /\ \A j \in Columns : j < col
      /\ dist' \in [Columns \cup {Nil} -> Nat \cup {Inf}]
      /\ \A j \in Columns : dist'[j] = dist[j]
  BY DEF IInv, Types, Root, ResetNil, Columns
<1>2. Types'
  BY <1>1 DEF IInv, Types, ResetNil, matching
<1>3. Arrays' /\ Root' /\ Path' /\ FreeEnd' /\ SizeExact'
  BY <1>1 DEF IInv, ResetNil, matching, Arrays, Root, Path, FreeEnd, SizeExact, Matched
<1>4. \A n \in 1..Len(queue) : queue[n] \in Columns
  BY ElementOfSeq DEF IInv, Types
<1>5. FreeReached' /\ Resetting' /\ Search'
  BY <1>1, <1>4 DEF IInv, ResetNil, matching, Resetting, FreeReached, Search, Reached, Queued
<1> QED BY <1>2, <1>3, <1>5 DEF IInv

LEMMA VisitKeeps == IInv /\ Visit => IInv'
<1> SUFFICES ASSUME IInv, Visit PROVE IInv'
  OBVIOUS
<1> USE Sentinels
<1> DEFINE j == Head(queue)
           new == IF Nearer(j) THEN Unseen(j) ELSE {}
<1>1. PICK order \in Orders(new \ {Nil}) : queue' = Tail(queue) \o order
  BY DEF Visit
<1>2. /\ pc = "bfs" /\ pc' = "bfs" /\ stack = <<>> /\ queue # <<>>
      /\ UNCHANGED <<adj, matching, col, stack, last, pc>>
      /\ dist' = [k \in DOMAIN dist |-> IF k \in new THEN dist[j] + 1 ELSE dist[k]]
  BY DEF IInv, Root, Visit
<1>3. /\ j \in Columns /\ Reached(j) /\ j = queue[1] /\ 1 \in 1..Len(queue)
      /\ Tail(queue) \in Seq(Columns) /\ Len(Tail(queue)) = Len(queue) - 1
      /\ \A n \in 1..Len(Tail(queue)) : Tail(queue)[n] = queue[n + 1]
      /\ Len(queue) \in Nat \ {0}
  <2>1. /\ j \in Columns /\ j = queue[1] /\ Len(queue) \in Nat \ {0}
        /\ Tail(queue) \in Seq(Columns) /\ Len(Tail(queue)) = Len(queue) - 1
        /\ \A n \in 1..Len(Tail(queue)) : Tail(queue)[n] = queue[n + 1]
    BY <1>2, HeadTailProperties, LenProperties, EmptySeq DEF IInv, Types
  <2>2. Reached(j)
    BY <1>2, <2>1 DEF IInv, Search
  <2> QED BY <2>1, <2>2
<1>4. new \subseteq Columns \cup {Nil} /\ \A k \in new : dist[k] = Inf
  <2>1. \A i \in adj[j] : r2c[i] \in Columns \cup {Nil}
    BY <1>3 DEF IInv, Types
  <2> QED BY <2>1 DEF Unseen
<1> HIDE DEF j, new
<1>5. order \in Seq(Columns) /\ (\A k \in new \ {Nil} : \E n \in 1..Len(order) : order[n] = k)
      /\ \A n \in 1..Len(order) : order[n] \in new
  <2>1. /\ order \in [1..Cardinality(new \ {Nil}) -> new \ {Nil}]
        /\ \A k \in new \ {Nil} : \E n \in DOMAIN order : order[n] = k
    BY <1>1 DEF Orders
  <2>2. IsFiniteSet(new \ {Nil}) /\ new \ {Nil} \subseteq Columns
    BY <1>4, FS_Subset
  <2>3. Cardinality(new \ {Nil}) \in Nat
    BY <2>2, FS_CardinalityType
  <2>4. order \in Seq(new \ {Nil})
    <3>1. order \in [1..Cardinality(new \ {Nil}) -> new \ {Nil}]
      BY <2>1
    <3> QED BY <2>3, <3>1, SeqDef
  <2>5. order \in Seq(Columns)
    BY <2>2, <2>4, SeqMonotonic
  <2>6. DOMAIN order = 1..Len(order)
    BY <2>4, LenProperties
  <2> QED BY <2>1, <2>5, <2>6
<1>6. /\ queue' \in Seq(Columns)
      /\ \A k \in Columns : (\E n \in 1..Len(queue') : queue'[n] = k) <=>
                             \/ \E n \in 1..Len(Tail(queue)) : Tail(queue)[n] = k
                             \/ \E n \in 1..Len(order) : order[n] = k
  <2>1. /\ queue' \in Seq(Columns) /\ Len(queue') = Len(Tail(queue)) + Len(order)
        /\ \A n \in 1..(Len(Tail(queue)) + Len(order)) :
             queue'[n] = IF n <= Len(Tail(queue)) THEN Tail(queue)[n]
                         ELSE order[n - Len(Tail(queue))]
    BY <1>1, <1>3, <1>5, ConcatProperties
  <2>2. Len(Tail(queue)) \in Nat /\ Len(order) \in Nat
    BY <1>3, <1>5, LenProperties
  <2>3. ASSUME NEW k \in Columns, NEW n \in 1..Len(queue'), queue'[n] = k
        PROVE  \/ \E m \in 1..Len(Tail(queue)) : Tail(queue)[m] = k
               \/ \E m \in 1..Len(order) : order[m] = k
    <3>1. CASE n <= Len(Tail(queue))
      BY <2>1, <2>2, <2>3, <3>1
    <3>2. CASE ~(n <= Len(Tail(queue)))
      <4>1. n - Len(Tail(queue)) \in 1..Len(order) /\ order[n - Len(Tail(queue))] = k
        BY <2>1, <2>2, <2>3, <3>2
      <4> QED BY <4>1
    <3> QED BY <3>1, <3>2
  <2>4. ASSUME NEW n \in 1..Len(Tail(queue))
        PROVE  n \in 1..Len(queue') /\ queue'[n] = Tail(queue)[n]
    BY <2>1, <2>2
  <2>5. ASSUME NEW n \in 1..Len(order)
        PROVE  /\ n + Len(Tail(queue)) \in 1..Len(queue')
               /\ queue'[n + Len(Tail(queue))] = order[n]
    <3>1. /\ n + Len(Tail(queue)) \in 1..(Len(Tail(queue)) + Len(order))
          /\ ~(n + Len(Tail(queue)) <= Len(Tail(queue)))
          /\ (n + Len(Tail(queue))) - Len(Tail(queue)) = n
      BY <2>2
    <3> QED BY <2>1, <3>1
  <2>6. ASSUME NEW k \in Columns, NEW n \in 1..Len(Tail(queue)), Tail(queue)[n] = k
        PROVE  \E m \in 1..Len(queue') : queue'[m] = k
    BY <2>4, <2>6
  <2>7. ASSUME NEW k \in Columns, NEW n \in 1..Len(order), order[n] = k
        PROVE  \E m \in 1..Len(queue') : queue'[m] = k
    BY <2>5, <2>7
  <2> QED BY <2>1, <2>3, <2>6, <2>7
<1>7. /\ dist' \in [Columns \cup {Nil} -> Nat \cup {Inf}]
      /\ \A k \in Columns \cup {Nil} : /\ k \in new => Reached(k)'
                                       /\ k \notin new => dist'[k] = dist[k]
                                       /\ Reached(k) => Reached(k)'
  <2>1. DOMAIN dist = Columns \cup {Nil} /\ dist[j] + 1 \in Nat
        /\ dist \in [Columns \cup {Nil} -> Nat \cup {Inf}]
    BY <1>3 DEF IInv, Types, Reached
  <2> QED BY <1>2, <1>4, <2>1 DEF Reached
<1>8. Types'
  BY <1>2, <1>6, <1>7 DEF IInv, Types, matching
<1>9. Arrays' /\ Root' /\ Path' /\ FreeEnd' /\ SizeExact'
  BY <1>2 DEF IInv, matching, Arrays, Root, Path, FreeEnd, SizeExact, Matched
<1>10. FreeReached' /\ Resetting'
  BY <1>2, <1>7 DEF IInv, matching, Resetting, FreeReached
<1>11. Search'
  <2>1. \A k \in Columns : (\E n \in 1..Len(queue') : queue'[n] = k) => Reached(k)'
    <3>1. ASSUME NEW k \in Columns, NEW n \in 1..Len(Tail(queue)), Tail(queue)[n] = k
          PROVE  Reached(k)'
      <4>1. n + 1 \in 1..Len(queue) /\ queue[n + 1] = k
        BY <1>3, <3>1
      <4> QED BY <1>2, <1>7, <4>1 DEF IInv, Search
    <3> QED BY <1>5, <1>6, <1>7, <3>1
  <2>2. \A n \in 1..Len(queue') : dist'[queue'[n]] \in Nat
    <3>1. \A n \in 1..Len(queue') : queue'[n] \in Columns
      BY <1>6, ElementOfSeq
    <3> QED BY <2>1, <3>1 DEF Reached
  <2>3. ASSUME dist'[Nil] = Inf, NEW k \in Columns, Reached(k)'
        PROVE  Queued(k)' \/ Closed(k)'
    <3>1. dist[Nil] = Inf /\ Nil \notin new /\ new = Unseen(j)
      BY <1>7, <2>3 DEF Reached, new, Nearer, IInv, Types
    <3>2. CASE k \in new
      BY <1>5, <1>6, <3>2 DEF Queued
    <3>3. CASE k = j
      <4>1. \A i \in adj[j] : i \in Rows /\ r2c[i] \in Columns \cup {Nil}
        BY <1>3 DEF IInv, Types
      <4>2. ASSUME NEW i \in adj[j] PROVE dist'[r2c[i]] \in Nat
        <5>1. r2c[i] \in Columns \cup {Nil}
          BY <4>1
        <5>2. CASE dist[r2c[i]] = Inf
          BY <1>7, <3>1, <5>1, <5>2 DEF Unseen, Reached
        <5>3. CASE dist[r2c[i]] # Inf
          BY <1>7, <5>1, <5>3 DEF Reached, IInv, Types
        <5> QED BY <5>2, <5>3
      <4> QED BY <1>2, <3>3, <4>2 DEF Closed, Reached, matching
    <3>4. CASE k \notin new /\ k # j
      <4>1. Reached(k)
        BY <1>7, <2>3, <3>4 DEF Reached
      <4>2. Queued(k) \/ Closed(k)
        BY <1>2, <3>1, <4>1 DEF IInv, Search
      <4>3. CASE Closed(k)
        <5>1. \A i \in adj[k] : r2c[i] \in Columns \cup {Nil}
          BY DEF IInv, Types
        <5>2. \A i \in adj[k] : dist'[r2c[i]] \in Nat
          BY <1>7, <4>3, <5>1 DEF Closed, Reached
        <5> QED BY <1>2, <5>2 DEF Closed, Reached, matching
      <4>4. CASE Queued(k)
        <5>1. PICK n \in 1..Len(queue) : queue[n] = k
          BY <4>4 DEF Queued
        <5>2. n # 1
          BY <1>3, <3>4, <5>1
        <5>3. n - 1 \in 1..Len(Tail(queue)) /\ Tail(queue)[n - 1] = queue[(n - 1) + 1]
          BY <1>3, <5>1, <5>2
        <5>4. Tail(queue)[n - 1] = k
          BY <5>1, <5>3
        <5> QED BY <1>6, <5>3, <5>4 DEF Queued
      <4> QED BY <4>2, <4>3, <4>4
    <3> QED BY <3>2, <3>3, <3>4
  <2> QED BY <1>2, <2>2, <2>3 DEF Search, Reached
<1> QED BY <1>8, <1>9, <1>10, <1>11 DEF IInv

LEMMA BfsEndsKeeps == IInv /\ BfsEnds => IInv'
<1> SUFFICES ASSUME IInv, BfsEnds PROVE IInv'
  OBVIOUS
<1> USE Sentinels
<1>1. /\ pc = "bfs" /\ stack = <<>> /\ queue = <<>> /\ col' = 1 /\ 1 \in 1..(NCols + 1)
      /\ pc' = IF dist[Nil] = Inf THEN "done" ELSE "scan"
      /\ UNCHANGED <<adj, matching, dist, queue, stack, last>>
  BY DEF IInv, Root, BfsEnds
<1>2. Types'
  BY <1>1 DEF IInv, Types, matching
<1>3. Arrays' /\ Root' /\ Path' /\ FreeEnd' /\ SizeExact'
  BY <1>1 DEF IInv, matching, Arrays, Root, Path, FreeEnd, SizeExact, Matched
<1>4. \A j \in Columns : ~Queued(j)
  BY <1>1 DEF Queued
<1>5. FreeReached' /\ Resetting' /\ Search'
  BY <1>1, <1>4 DEF IInv, matching, Resetting, FreeReached, Search, Reached, Closed
<1> QED BY <1>2, <1>3, <1>5 DEF IInv

-----------------------------------------------------------------------------
\* The loop over the columns.
LEMMA ScanKeeps == IInv /\ Scan => IInv'
<1> SUFFICES ASSUME IInv, Scan PROVE IInv'
  OBVIOUS
<1> USE Sentinels
<1>1. /\ pc = "scan" /\ stack = <<>> /\ queue = <<>> /\ col \in Columns
      /\ UNCHANGED <<adj, matching, dist, queue, last>>
  BY DEF IInv, Types, Root, FreeReached, Scan, Columns
<1>2. CASE c2r[col] = Nil
  <2>1. /\ stack' = <<Frame(col)>> /\ pc' = "dfs" /\ col' = col
    BY <1>2 DEF Scan
  <2>2. /\ Frame(col) \in Frames /\ Frame(col).col = col /\ Frame(col).row = Nil
        /\ Frame(col).todo = adj[col]
    BY <1>1 DEF Frame, Frames, IInv, Types
  <2>3. stack' \in Seq(Frames) /\ Len(stack') = 1 /\ stack'[1] = Frame(col) /\ stack' # <<>>
    BY <2>1, <2>2
  <2>4. Reached(col)
    BY <1>1, <1>2 DEF IInv, FreeReached, Columns
  <2>5. Types'
    BY <1>1, <2>1, <2>3 DEF IInv, Types, matching
  <2>6. Arrays' /\ FreeEnd' /\ SizeExact'
    BY <1>1, <2>1 DEF IInv, matching, Arrays, FreeEnd, SizeExact, Matched
  <2>7. Root'
    BY <1>1, <1>2, <2>1, <2>2, <2>3 DEF Root, matching, Columns
  <2>8. Path'
    BY <1>1, <2>1, <2>2, <2>3, <2>4 DEF Path, Reached, matching
  <2>9. FreeReached' /\ Resetting' /\ Search'
    BY <1>1, <2>1 DEF IInv, matching, FreeReached, Resetting, Search, Reached
  <2> QED BY <2>5, <2>6, <2>7, <2>8, <2>9 DEF IInv
<1>3. CASE c2r[col] # Nil
  <2>1. col' = col + 1 /\ UNCHANGED <<stack, pc>> /\ col' \in 1..(NCols + 1)
    BY <1>1, <1>3 DEF Scan, Columns
  <2>2. Types'
    BY <1>1, <2>1 DEF IInv, Types, matching
  <2>3. Arrays' /\ Root' /\ Path' /\ FreeEnd' /\ SizeExact'
    BY <1>1, <2>1 DEF IInv, matching, Arrays, Root, Path, FreeEnd, SizeExact, Matched
  <2>4. \A j \in Columns : j >= col' => j >= col
    BY <1>1, <2>1 DEF Columns
  <2>5. FreeReached' /\ Resetting' /\ Search'
    BY <1>1, <2>1, <2>4 DEF IInv, matching, FreeReached, Resetting, Search, Reached
  <2> QED BY <2>2, <2>3, <2>5 DEF IInv
<1> QED BY <1>2, <1>3

LEMMA PhaseEndsKeeps == IInv /\ PhaseEnds => IInv'
<1> SUFFICES ASSUME IInv, PhaseEnds PROVE IInv'
  OBVIOUS
<1> USE Sentinels
<1>1. /\ pc = "scan" /\ pc' = "reset" /\ stack = <<>> /\ queue = <<>> /\ col' = 1
      /\ 1 \in 1..(NCols + 1)
      /\ UNCHANGED <<adj, matching, dist, queue, stack>>
  BY DEF IInv, Root, FreeReached, PhaseEnds
<1>2. Types'
  BY <1>1 DEF IInv, Types, matching
<1>3. Arrays' /\ Root' /\ Path' /\ FreeEnd' /\ SizeExact'
  BY <1>1 DEF IInv, matching, Arrays, Root, Path, FreeEnd, SizeExact, Matched
<1>4. \A j \in Columns : ~(j < 1)
  BY DEF Columns
<1>5. FreeReached' /\ Resetting' /\ Search'
  BY <1>1, <1>4 DEF FreeReached, Resetting, Search
<1> QED BY <1>2, <1>3, <1>5 DEF IInv

-----------------------------------------------------------------------------
\* The depth-first search.
LEMMA OnTop ==
  ASSUME IInv, pc \in {"dfs", "return"}
  PROVE  /\ Len(stack) \in Nat \ {0} /\ stack # <<>> /\ Top \in Frames
         /\ \A k \in 1..Len(stack) : stack[k] \in Frames /\ stack[k].col \in Columns
         /\ Top.col \in Columns /\ Top.row \in Rows \cup {Nil} /\ Top.todo \subseteq Rows
         /\ Reached(Top.col) /\ dist[Top.col] = dist[stack[1].col] + (Len(stack) - 1)
         /\ Pop \in Seq(Frames) /\ Len(Pop) = Len(stack) - 1
         /\ Pop = <<>> <=> Len(stack) = 1
         /\ \A k \in 1..(Len(stack) - 1) : Pop[k] = stack[k]
         /\ \A k \in 1..(Len(stack) - 1) : stack[k].col # Top.col
<1>1. stack \in Seq(Frames) /\ stack # <<>>
  BY DEF IInv, Types, Root
<1>2. /\ Len(stack) \in Nat \ {0} /\ Top \in Frames
      /\ Pop \in Seq(Frames) /\ Len(Pop) = Len(stack) - 1
      /\ Pop = <<>> <=> Len(stack) = 1
      /\ \A k \in 1..(Len(stack) - 1) : Pop[k] = stack[k]
  <2>1. Len(stack) \in Nat \ {0} /\ stack[Len(stack)] \in Frames
    BY <1>1, LenProperties, EmptySeq, ElementOfSeq
  <2> QED BY <1>1, <2>1, TakenOff DEF Top, Pop
<1>3. \A k \in 1..Len(stack) : stack[k] \in Frames /\ stack[k].col \in Columns
  <2>1. \A k \in 1..Len(stack) : stack[k] \in Frames
    BY <1>1, ElementOfSeq
  <2>2. \A f \in Frames : f.col \in Columns
    BY DEF Frames
  <2> QED BY <2>1, <2>2
<1>4. /\ \A k \in 1..Len(stack) : /\ Reached(stack[k].col)
                                 /\ dist[stack[k].col] = dist[stack[1].col] + (k - 1)
      /\ Len(stack) \in 1..Len(stack) /\ 1 \in 1..Len(stack)
      /\ dist[stack[1].col] \in Nat
  BY <1>2 DEF IInv, Path, Reached
<1>5. \A k \in 1..(Len(stack) - 1) : stack[k].col # Top.col
  <2> SUFFICES ASSUME NEW k \in 1..(Len(stack) - 1), stack[k].col = Top.col PROVE FALSE
    OBVIOUS
  <2>1. k \in 1..Len(stack) /\ k # Len(stack) /\ k \in Nat
    BY <1>2
  <2>3. dist[stack[k].col] = dist[stack[1].col] + (k - 1)
    BY <1>4, <2>1
  <2>2. dist[Top.col] = dist[stack[1].col] + (Len(stack) - 1)
    BY <1>4 DEF Top
  <2> QED BY <1>2, <1>4, <2>1, <2>2, <2>3
<1> QED BY <1>1, <1>2, <1>3, <1>4, <1>5 DEF Top, Frames

LEMMA SkipKeeps == \A i \in Rows : IInv /\ Skip(i) => IInv'
<1> SUFFICES ASSUME NEW i \in Rows, IInv, Skip(i) PROVE IInv'
  OBVIOUS
<1> USE Sentinels
<1> DEFINE n == Len(stack)
           e == [Top EXCEPT !.todo = @ \ {i}]
<1>1. /\ pc = "dfs" /\ pc' = "dfs" /\ stack' = Append(Pop, e)
      /\ UNCHANGED <<adj, matching, dist, queue, col, last, pc>>
  BY DEF Skip
<1>2. /\ n \in Nat \ {0} /\ stack # <<>> /\ Top \in Frames /\ stack \in Seq(Frames)
      /\ e \in Frames /\ e.col = Top.col /\ e.row = Top.row /\ e.todo \subseteq Top.todo
  BY <1>1, OnTop DEF Frames, IInv, Types
<1> HIDE DEF e
<1>3. /\ stack' \in Seq(Frames) /\ Len(stack') = n /\ stack'[n] = e /\ stack' # <<>>
      /\ \A k \in 1..(n - 1) : stack'[k] = stack[k]
  BY <1>1, <1>2, TakenOff, EmptySeq DEF Pop
<1>4. \A k \in 1..n : /\ stack'[k].col = stack[k].col /\ stack'[k].row = stack[k].row
                      /\ stack'[k].todo \subseteq stack[k].todo
  BY <1>2, <1>3 DEF Top
<1>5. Types'
  BY <1>1, <1>3 DEF IInv, Types, matching
<1>6. Arrays' /\ FreeEnd' /\ SizeExact'
  BY <1>1 DEF IInv, matching, Arrays, FreeEnd, SizeExact, Matched
<1>7. Root'
  BY <1>1, <1>2, <1>3, <1>4 DEF IInv, Root, matching
<1>8. Path'
  <2>1. 1 \in 1..n /\ \A k \in 1..(n - 1) : k \in 1..n /\ k + 1 \in 1..n
    BY <1>2
  <2>2. ASSUME NEW k \in 1..n
        PROVE  /\ stack'[k].todo \subseteq adj[stack'[k].col]
               /\ stack'[k].row # Nil => stack'[k].row \in adj[stack'[k].col]
               /\ dist[stack'[k].col] \in Nat
               /\ dist[stack'[k].col] = dist[stack'[1].col] + (k - 1)
    BY <1>4, <2>1 DEF IInv, Path, Reached
  <2>3. ASSUME NEW k \in 1..(n - 1)
        PROVE  /\ stack'[k].row # Nil
               /\ stack'[k].row # stack'[k + 1].row
               /\ r2c[stack'[k].row] = stack'[k + 1].col
    BY <1>4, <2>1 DEF IInv, Path
  <2> QED BY <1>1, <1>3, <2>2, <2>3 DEF Path, Reached, matching
<1>9. FreeReached' /\ Resetting' /\ Search'
  BY <1>1 DEF IInv, matching, FreeReached, Resetting, Search, Reached
<1> QED BY <1>5, <1>6, <1>7, <1>8, <1>9 DEF IInv

LEMMA FollowKeeps == \A i \in Rows : IInv /\ Follow(i) => IInv'
<1> SUFFICES ASSUME NEW i \in Rows, IInv, Follow(i) PROVE IInv'
  OBVIOUS
<1> USE Sentinels
<1> DEFINE n == Len(stack)
           e == [Top EXCEPT !.row = i, !.todo = @ \ {i}]
<1>1. /\ pc = "dfs" /\ i \in Top.todo /\ dist[r2c[i]] = dist[Top.col] + 1
      /\ UNCHANGED <<adj, matching, dist, queue, col, last>>
      /\ r2c[i] = Nil => stack' = Append(Pop, e) /\ pc' = "return"
      /\ r2c[i] # Nil => stack' = Append(Append(Pop, e), Frame(r2c[i])) /\ pc' = "dfs"
  BY DEF Follow, OneOn, Take
<1>2. /\ n \in Nat \ {0} /\ stack # <<>> /\ Top \in Frames /\ stack \in Seq(Frames)
      /\ Top.col \in Columns /\ dist[Top.col] \in Nat
      /\ e \in Frames /\ e.col = Top.col /\ e.row = i /\ e.todo \subseteq Top.todo
      /\ 1 \in 1..n /\ \A k \in 1..(n - 1) : k \in 1..n /\ k + 1 \in 1..n
      /\ i \in adj[Top.col]
  <2>1. i \in adj[Top.col]
    BY <1>1, OnTop DEF IInv, Path, Top
  <2>2. /\ n \in Nat \ {0} /\ stack # <<>> /\ Top \in Frames /\ stack \in Seq(Frames)
        /\ Top.col \in Columns /\ dist[Top.col] \in Nat
    BY <1>1, OnTop DEF IInv, Types, Reached
  <2>3. /\ e \in Frames /\ e.col = Top.col /\ e.row = i /\ e.todo \subseteq Top.todo
    BY <2>2 DEF Frames
  <2>4. 1 \in 1..n /\ \A k \in 1..(n - 1) : k \in 1..n /\ k + 1 \in 1..n
    BY <2>2
  <2> QED BY <2>1, <2>2, <2>3, <2>4
<1> HIDE DEF e
<1> DEFINE t == Append(Pop, e)
<1>3. /\ t \in Seq(Frames) /\ Len(t) = n /\ t[n] = e /\ t # <<>>
      /\ \A k \in 1..(n - 1) : t[k] = stack[k]
  BY <1>1, <1>2, TakenOff, EmptySeq DEF Pop
<1> HIDE DEF t
<1>4. /\ \A k \in 1..n : /\ t[k].col = stack[k].col
                         /\ t[k].todo \subseteq stack[k].todo
                         /\ t[k].row = IF k = n THEN i ELSE stack[k].row
  BY <1>2, <1>3 DEF Top
\* The row was not followed by the frame before: its column is not one further on.
<1>5. \A k \in 1..(n - 1) : stack[k].row # i \/ k + 1 # n
  <2> SUFFICES ASSUME NEW k \in 1..(n - 1), stack[k].row = i, k + 1 = n PROVE FALSE
    OBVIOUS
  <2>1. r2c[i] = Top.col
    BY <1>2 DEF IInv, Path, Top
  <2> QED BY <1>1, <1>2, <2>1
<1>6. /\ \A k \in 1..n : /\ t[k].todo \subseteq adj[t[k].col]
                         /\ t[k].row # Nil => t[k].row \in adj[t[k].col]
                         /\ Reached(t[k].col)
                         /\ dist[t[k].col] = dist[t[1].col] + (k - 1)
      /\ \A k \in 1..(n - 1) : /\ t[k].row # Nil
                               /\ t[k].row # t[k + 1].row
                               /\ r2c[t[k].row] = t[k + 1].col
  <2>1. \A k \in 1..n : /\ t[k].todo \subseteq adj[t[k].col]
                        /\ Reached(t[k].col)
                        /\ dist[t[k].col] = dist[t[1].col] + (k - 1)
    BY <1>2, <1>4 DEF IInv, Path
  <2>2. \A k \in 1..n : t[k].row # Nil => t[k].row \in adj[t[k].col]
    BY <1>2, <1>4 DEF IInv, Path, Top
  <2>3. ASSUME NEW k \in 1..(n - 1)
        PROVE  /\ t[k].row # Nil
               /\ t[k].row # t[k + 1].row
               /\ r2c[t[k].row] = t[k + 1].col
    <3>1. /\ k \in 1..n /\ k + 1 \in 1..n /\ k # n
          /\ t[k].row = stack[k].row /\ t[k + 1].col = stack[k + 1].col
          /\ t[k + 1].row = IF k + 1 = n THEN i ELSE stack[k + 1].row
      BY <1>2, <1>4
    <3>2. /\ stack[k].row # Nil /\ stack[k].row # stack[k + 1].row
          /\ r2c[stack[k].row] = stack[k + 1].col
      BY DEF IInv, Path
    <3> QED BY <1>5, <3>1, <3>2
  <2> QED BY <2>1, <2>2, <2>3
<1>7. stack[1].col = col /\ c2r[col] = Nil /\ col <= NCols
  BY <1>2 DEF IInv, Root
<1>8. FreeReached' /\ Resetting' /\ Search' /\ SizeExact'
  BY <1>1 DEF IInv, matching, FreeReached, Resetting, Search, Reached, SizeExact, Matched
<1>9. CASE r2c[i] = Nil
  <2>1. stack' = t /\ pc' = "return"
    BY <1>1, <1>9 DEF t
  <2>2. Types'
    BY <1>1, <1>3, <2>1 DEF IInv, Types, matching
  <2>3. Top' = e
    BY <1>3, <2>1 DEF Top
  <2>4. Arrays'
    BY <1>1, <1>2, <1>9, <2>1, <2>3 DEF IInv, matching, Arrays
  <2>5. FreeEnd'
    BY <1>1, <1>2, <1>9, <2>3 DEF FreeEnd, matching
  <2>6. Root'
    BY <1>1, <1>2, <1>3, <1>4, <1>7, <2>1 DEF Root, matching
  <2>7. Path'
    BY <1>1, <1>3, <1>6, <2>1 DEF Path, Reached, matching
  <2> QED BY <1>8, <2>2, <2>4, <2>5, <2>6, <2>7 DEF IInv
<1>10. CASE r2c[i] # Nil
  <2> DEFINE m == r2c[i]
             f == Frame(m)
  <2>1. m \in Columns /\ dist[m] = dist[Top.col] + 1 /\ dist[m] \in Nat
    BY <1>1, <1>2, <1>10 DEF IInv, Types
  <2>2. f \in Frames /\ f.col = m /\ f.row = Nil /\ f.todo = adj[m]
    BY <2>1 DEF Frame, Frames, IInv, Types
  <2>3. stack' = Append(t, f) /\ pc' = "dfs"
    BY <1>1, <1>10 DEF t
  <2> HIDE DEF f, m
  <2>4. /\ stack' \in Seq(Frames) /\ Len(stack') = n + 1 /\ stack'[n + 1] = f /\ stack' # <<>>
        /\ \A k \in 1..n : stack'[k] = t[k]
    <3>1. stack' \in Seq(Frames) /\ Len(stack') = Len(t) + 1 /\ stack'[Len(t) + 1] = f
      BY <1>3, <2>2, <2>3, AppendProperties
    <3>2. stack' # <<>>
      BY <1>3, <2>2, <2>3, AppendProperties
    <3>3. \A k \in 1..Len(t) : stack'[k] = t[k]
      BY <1>3, <2>2, <2>3, AppendProperties
    <3> QED BY <1>3, <3>1, <3>2, <3>3
  <2>5. Types'
    BY <1>1, <2>3, <2>4 DEF IInv, Types, matching
  <2>6. Arrays' /\ FreeEnd'
    BY <1>1, <2>3 DEF IInv, matching, Arrays, FreeEnd
  <2>7. Root'
    BY <1>1, <1>2, <1>4, <1>7, <2>3, <2>4 DEF Root, matching
  <2>8. Path'
    <3>1. \A k \in 1..(n + 1) : k \in 1..n \/ k = n + 1
      BY <1>2
    <3>2. dist[f.col] = dist[t[1].col] + ((n + 1) - 1)
      <4>1. dist[t[n].col] = dist[t[1].col] + (n - 1) /\ t[n].col = Top.col
            /\ dist[t[1].col] \in Nat
        <5>1. n \in 1..n /\ 1 \in 1..n
          BY <1>2
        <5> QED BY <1>2, <1>3, <1>6, <5>1 DEF Reached
      <4> QED BY <1>2, <2>1, <2>2, <4>1
    <3>3. \A k \in 1..(n + 1) : /\ stack'[k].todo \subseteq adj[stack'[k].col]
                                /\ stack'[k].row # Nil => stack'[k].row \in adj[stack'[k].col]
                                /\ dist[stack'[k].col] \in Nat
                                /\ dist[stack'[k].col] = dist[stack'[1].col] + (k - 1)
      <4>1. ASSUME NEW k \in 1..n
            PROVE  /\ stack'[k].todo \subseteq adj[stack'[k].col]
                   /\ stack'[k].row # Nil => stack'[k].row \in adj[stack'[k].col]
                   /\ dist[stack'[k].col] \in Nat
                   /\ dist[stack'[k].col] = dist[stack'[1].col] + (k - 1)
        BY <1>2, <1>6, <2>4 DEF Reached
      <4>2. /\ stack'[n + 1].todo \subseteq adj[stack'[n + 1].col]
            /\ stack'[n + 1].row # Nil => stack'[n + 1].row \in adj[stack'[n + 1].col]
            /\ dist[stack'[n + 1].col] \in Nat
            /\ dist[stack'[n + 1].col] = dist[stack'[1].col] + ((n + 1) - 1)
        BY <1>2, <2>1, <2>2, <2>4, <3>2
      <4> QED BY <3>1, <4>1, <4>2
    <3>4. ASSUME NEW k \in 1..n
          PROVE  /\ stack'[k].row # Nil
                 /\ stack'[k].row # stack'[k + 1].row
                 /\ r2c[stack'[k].row] = stack'[k + 1].col
      <4>1. CASE k = n
        BY <1>2, <1>4, <2>1, <2>2, <2>4, <4>1 DEF m
      <4>2. CASE k # n
        <5>1. k \in 1..(n - 1) /\ k + 1 \in 1..n
          BY <1>2, <4>2
        <5> QED BY <1>6, <2>4, <5>1
      <4> QED BY <4>1, <4>2
    <3>5. (n + 1) - 1 = n
      BY <1>2
    <3> QED BY <1>1, <2>4, <3>3, <3>4, <3>5 DEF Path, Reached, matching
  <2> QED BY <1>8, <2>5, <2>6, <2>7, <2>8 DEF IInv
<1> QED BY <1>9, <1>10

LEMMA DeadEndKeeps == IInv /\ DeadEnd => IInv'
<1> SUFFICES ASSUME IInv, DeadEnd PROVE IInv'
  OBVIOUS
<1> USE Sentinels
<1> DEFINE n == Len(stack)
           c == Top.col
<1>1. /\ pc = "dfs" /\ stack' = Pop
      /\ dist' = [dist EXCEPT ![c] = Inf]
      /\ pc' = IF Pop = <<>> THEN "scan" ELSE "dfs"
      /\ col' = IF Pop = <<>> THEN col + 1 ELSE col
      /\ UNCHANGED <<adj, matching, queue, last>>
  BY DEF DeadEnd, Leave
<1>2. /\ n \in Nat \ {0} /\ stack # <<>> /\ c \in Columns
      /\ \A k \in 1..n : stack[k].col \in Columns
      /\ stack' \in Seq(Frames) /\ Len(stack') = n - 1
      /\ Pop = <<>> <=> n = 1
      /\ \A k \in 1..(n - 1) : stack'[k] = stack[k]
      /\ \A k \in 1..(n - 1) : stack[k].col # c
  BY <1>1, OnTop
<1>3. /\ stack[1].col = col /\ c2r[col] = Nil /\ col <= NCols /\ col \in Nat
      /\ n = 1 => c = col
  BY <1>2 DEF IInv, Root, Types, Top
<1> HIDE DEF c
<1>4. /\ dist' \in [Columns \cup {Nil} -> Nat \cup {Inf}]
      /\ \A k \in Columns \cup {Nil} : k # c => dist'[k] = dist[k]
  BY <1>1, <1>2 DEF IInv, Types
<1>5. Types'
  BY <1>1, <1>2, <1>3, <1>4 DEF IInv, Types, matching
<1>6. Arrays' /\ FreeEnd' /\ SizeExact'
  BY <1>1 DEF IInv, matching, Arrays, FreeEnd, SizeExact, Matched
<1>7. Root'
  BY <1>1, <1>2, <1>3 DEF Root, matching
<1>8. Path'
  <2>1. ASSUME NEW k \in 1..(n - 1)
        PROVE  /\ stack'[k].todo \subseteq adj[stack'[k].col]
               /\ stack'[k].row # Nil => stack'[k].row \in adj[stack'[k].col]
               /\ dist'[stack'[k].col] \in Nat
               /\ dist'[stack'[k].col] = dist'[stack'[1].col] + (k - 1)
    <3>1. k \in 1..n /\ 1 \in 1..(n - 1) /\ 1 \in 1..n
      BY <1>2
    <3>2. dist'[stack'[k].col] = dist[stack[k].col] /\ dist'[stack'[1].col] = dist[stack[1].col]
      <4>1. ASSUME NEW p \in 1..n, p \in 1..(n - 1) PROVE dist'[stack'[p].col] = dist[stack[p].col]
        <5>1. stack'[p] = stack[p] /\ stack[p].col \in Columns /\ stack[p].col # c
          BY <1>2, <4>1
        <5> QED BY <1>4, <5>1
      <4> QED BY <3>1, <4>1
    <3> QED BY <1>2, <3>1, <3>2 DEF IInv, Path, Reached
  <2>2. ASSUME NEW k \in 1..((n - 1) - 1)
        PROVE  /\ stack'[k].row # Nil
               /\ stack'[k].row # stack'[k + 1].row
               /\ r2c[stack'[k].row] = stack'[k + 1].col
    <3>1. k \in 1..(n - 1) /\ k + 1 \in 1..(n - 1)
      BY <1>2
    <3> QED BY <1>2, <3>1 DEF IInv, Path
  <2> QED BY <1>1, <1>2, <2>1, <2>2 DEF Path, Reached, matching
\* The column is matched, or the loop over the columns has passed it.
<1>9. c2r[c] # Nil \/ (n = 1 /\ c = col /\ col' = col + 1)
  <2>1. CASE n = 1
    BY <1>1, <1>2, <1>3, <2>1
  <2>2. CASE n # 1
    <3>1. n - 1 \in 1..n /\ n - 1 \in 1..(n - 1) /\ (n - 1) + 1 = n
      BY <1>2, <2>2
    <3>2. stack[n - 1].row # Nil /\ r2c[stack[n - 1].row] = c
      BY <3>1 DEF IInv, Path, Top, c
    <3>3. stack[n - 1].row \in Rows
      BY <1>1, <3>1, <3>2, OnTop DEF Frames
    <3>4. c2r[c] = stack[n - 1].row
      BY <1>1, <1>2, <3>2, <3>3 DEF IInv, Arrays
    <3> QED BY <3>3, <3>4
  <2> QED BY <2>1, <2>2
<1>10. FreeReached'
  <2>1. ASSUME NEW j \in Columns, c2r[j] = Nil, j >= col' PROVE j >= col /\ j # c
    <3>1. j \in Nat /\ (col' = col \/ col' = col + 1)
      BY <1>1
    <3>2. j >= col
      BY <1>3, <2>1, <3>1
    <3>3. CASE n = 1
      <4>1. col' = col + 1 /\ c = col
        BY <1>1, <1>2, <1>3, <3>3
      <4> QED BY <1>3, <2>1, <3>1, <3>2, <4>1
    <3>4. CASE n # 1
      BY <1>9, <2>1, <3>2, <3>4
    <3> QED BY <3>3, <3>4
  <2> QED BY <1>1, <1>4, <2>1 DEF IInv, FreeReached, Reached, matching
<1>11. Resetting' /\ Search'
  BY <1>1 DEF Resetting, Search
<1> QED BY <1>5, <1>6, <1>7, <1>8, <1>10, <1>11 DEF IInv

\* One frame of the way back: the only row whose entry is stale is the next one's.
LEMMA AugmentKeeps == IInv /\ Augment => IInv'
<1> SUFFICES ASSUME IInv, Augment PROVE IInv'
  OBVIOUS
<1> USE Sentinels
<1> DEFINE n == Len(stack)
           c == Top.col
           r == Top.row
           q == stack[n - 1].row
<1>1. /\ pc = "return" /\ stack' = Pop
      /\ c2r' = [c2r EXCEPT ![c] = r] /\ r2c' = [r2c EXCEPT ![r] = c]
      /\ size' = IF Pop = <<>> THEN size + 1 ELSE size
      /\ pc' = IF Pop = <<>> THEN "scan" ELSE "return"
      /\ col' = IF Pop = <<>> THEN col + 1 ELSE col
      /\ UNCHANGED <<adj, dist, queue, last>>
  BY DEF Augment, Leave
<1>2. /\ n \in Nat \ {0} /\ stack # <<>> /\ c \in Columns /\ r \in Rows
      /\ \A k \in 1..n : stack[k] \in Frames /\ stack[k].col \in Columns
      /\ stack' \in Seq(Frames) /\ Len(stack') = n - 1
      /\ Pop = <<>> <=> n = 1
      /\ \A k \in 1..(n - 1) : stack'[k] = stack[k]
      /\ \A k \in 1..(n - 1) : stack[k].col # c
      /\ r2c[r] # Nil => c2r[r2c[r]] # r /\ dist[r2c[r]] = dist[c] + 1
  BY <1>1, OnTop DEF IInv, FreeEnd
<1>3. /\ stack[1].col = col /\ c2r[col] = Nil /\ col <= NCols /\ col \in Nat
      /\ n = 1 => c = col
  BY <1>2 DEF IInv, Root, Types, Top
<1>4. /\ r \in adj[c] /\ dist[c] \in Nat /\ dist[c] = dist[stack[1].col] + (n - 1)
      /\ dist[stack[1].col] \in Nat
  <2>1. n \in 1..n /\ 1 \in 1..n
    BY <1>2
  <2> QED BY <1>2, <2>1 DEF IInv, Path, Top, Reached
<1>5. /\ \A j \in Columns : c2r[j] \in Rows \cup {Nil}
      /\ \A i \in Rows : r2c[i] \in Columns \cup {Nil}
      /\ \A j \in Columns : c2r[j] # Nil => c2r[j] \in adj[j] /\ r2c[c2r[j]] = j
      /\ \A i \in Rows : r2c[i] # Nil /\ i # r => c2r[r2c[i]] = i
  BY <1>1 DEF IInv, Types, Arrays
\* Below the top: the frame before has followed the row the column is matched to.
<1>6. n # 1 => q \in Rows /\ q # r /\ r2c[q] = c /\ c2r[c] = q
  <2> SUFFICES ASSUME n # 1 PROVE q \in Rows /\ q # r /\ r2c[q] = c /\ c2r[c] = q
    OBVIOUS
  <2>1. n - 1 \in 1..n /\ n - 1 \in 1..(n - 1) /\ (n - 1) + 1 = n
    BY <1>2
  <2>2. q # Nil /\ q # r /\ r2c[q] = c
    BY <2>1 DEF IInv, Path, Top
  <2>3. q \in Rows
    BY <1>2, <2>1, <2>2 DEF Frames
  <2> QED BY <1>2, <1>5, <2>2, <2>3
<1>7. \A k \in 1..(n - 1) : /\ stack[k].row \in Rows
                           /\ r2c[stack[k].row] = stack[k + 1].col
                           /\ stack[k].row # r
  <2> SUFFICES ASSUME NEW k \in 1..(n - 1)
               PROVE  /\ stack[k].row \in Rows
                      /\ r2c[stack[k].row] = stack[k + 1].col
                      /\ stack[k].row # r
    OBVIOUS
  <2>1. k \in 1..n /\ k + 1 \in 1..n /\ k \in Nat /\ k < n
    BY <1>2
  <2>2. stack[k].row # Nil /\ r2c[stack[k].row] = stack[k + 1].col
    BY DEF IInv, Path
  <2>3. stack[k].row \in Rows
    BY <1>2, <2>1, <2>2 DEF Frames
  <2>4. dist[stack[k + 1].col] = dist[stack[1].col] + ((k + 1) - 1)
    BY <2>1 DEF IInv, Path
  <2>5. ASSUME stack[k].row = r PROVE FALSE
    <3>1. stack[k + 1].col \in Columns
      BY <1>2, <2>1
    <3>2. r2c[r] # Nil /\ dist[r2c[r]] = dist[c] + 1 /\ r2c[r] = stack[k + 1].col
      BY <1>2, <2>2, <2>5, <3>1
    <3> QED BY <1>2, <1>4, <2>1, <2>4, <3>2
  <2> QED BY <2>2, <2>3, <2>5
<1> HIDE DEF c, r
<1>8. /\ c2r' \in [Columns -> Rows \cup {Nil}] /\ r2c' \in [Rows -> Columns \cup {Nil}]
      /\ c2r'[c] = r /\ r2c'[r] = c
      /\ \A j \in Columns : j # c => c2r'[j] = c2r[j]
      /\ \A i \in Rows : i # r => r2c'[i] = r2c[i]
  BY <1>1, <1>2 DEF IInv, Types
<1>9. Types'
  BY <1>1, <1>2, <1>3, <1>8 DEF IInv, Types
<1>10. n # 1 => Top' = stack[n - 1]
  <2>1. n # 1 => n - 1 \in 1..(n - 1)
    BY <1>2
  <2> QED BY <1>2, <2>1 DEF Top
<1>11. Arrays'
  <2>1. ASSUME NEW j \in Columns, c2r'[j] # Nil
        PROVE  c2r'[j] \in adj[j] /\ r2c'[c2r'[j]] = j
    <3>1. CASE j = c
      BY <1>4, <1>8, <3>1 DEF c, r
    <3>2. CASE j # c
      <4>1. c2r'[j] = c2r[j] /\ c2r[j] \in Rows /\ c2r[j] \in adj[j] /\ r2c[c2r[j]] = j
        BY <1>5, <1>8, <2>1, <3>2
      <4>2. c2r[j] # r
        BY <1>2, <4>1
      <4> QED BY <1>8, <4>1, <4>2
    <3> QED BY <3>1, <3>2
  <2>2. ASSUME NEW i \in Rows, r2c'[i] # Nil, ~(pc' = "return" /\ i = Top'.row)
        PROVE  c2r'[r2c'[i]] = i
    <3>1. CASE i = r
      BY <1>8, <3>1
    <3>2. CASE i # r
      <4>1. r2c'[i] = r2c[i] /\ c2r[r2c[i]] = i /\ r2c[i] \in Columns
        BY <1>5, <1>8, <2>2, <3>2
      <4>2. r2c[i] # c
        <5>1. CASE n = 1
          BY <1>3, <4>1, <5>1
        <5>2. CASE n # 1
          BY <1>1, <1>2, <1>6, <1>10, <2>2, <4>1, <5>2
        <5> QED BY <5>1, <5>2
      <4> QED BY <1>8, <4>1, <4>2
    <3> QED BY <3>1, <3>2
  <2> QED BY <1>1, <2>1, <2>2 DEF Arrays
<1>12. Root'
  <2>1. n # 1 => col # c /\ stack'[1] = stack[1] /\ col \in Columns
    <3>1. n # 1 => 1 \in 1..(n - 1)
      BY <1>2
    <3> QED BY <1>2, <1>3, <3>1 DEF Columns
  <2>2. stack' # <<>> <=> n # 1
    BY <1>1, <1>2
  <2> QED BY <1>1, <1>2, <1>3, <1>8, <2>1, <2>2 DEF Root
<1>13. Path'
  <2>1. ASSUME NEW k \in 1..(n - 1)
        PROVE  /\ stack'[k].todo \subseteq adj[stack'[k].col]
               /\ stack'[k].row # Nil => stack'[k].row \in adj[stack'[k].col]
               /\ dist[stack'[k].col] \in Nat
               /\ dist[stack'[k].col] = dist[stack'[1].col] + (k - 1)
    <3>1. k \in 1..n /\ 1 \in 1..(n - 1)
      BY <1>2
    <3> QED BY <1>2, <3>1 DEF IInv, Path, Reached
  <2>2. ASSUME NEW k \in 1..((n - 1) - 1)
        PROVE  /\ stack'[k].row # Nil
               /\ stack'[k].row # stack'[k + 1].row
               /\ r2c'[stack'[k].row] = stack'[k + 1].col
    <3>1. k \in 1..(n - 1) /\ k + 1 \in 1..(n - 1)
      BY <1>2
    <3>2. stack[k].row # Nil /\ stack[k].row # stack[k + 1].row
      BY <3>1 DEF IInv, Path
    <3> QED BY <1>2, <1>7, <1>8, <3>1, <3>2
  <2> QED BY <1>1, <1>2, <2>1, <2>2 DEF Path, Reached
<1>14. FreeEnd'
  <2> SUFFICES ASSUME pc' = "return"
               PROVE  /\ q # Nil
                      /\ r2c'[q] # Nil => /\ c2r'[r2c'[q]] # q
                                          /\ dist[r2c'[q]] = dist[stack[n - 1].col] + 1
    BY <1>1, <1>2, <1>10 DEF FreeEnd
  <2>1. n # 1
    BY <1>1, <1>2
  <2>2. r2c'[q] = c /\ c2r'[c] # q
    BY <1>6, <1>8, <2>1 DEF c, r
  <2>3. dist[c] = dist[stack[n - 1].col] + 1
    <3>1. n - 1 \in 1..n
      BY <1>2, <2>1
    <3>2. dist[stack[n - 1].col] = dist[stack[1].col] + ((n - 1) - 1)
      BY <3>1 DEF IInv, Path
    <3> QED BY <1>2, <1>4, <3>2 DEF c
  <2> QED BY <1>6, <2>1, <2>2, <2>3
<1>15. FreeReached'
  <2>1. \A j \in Columns : c2r'[j] = Nil /\ j >= col' => c2r[j] = Nil /\ j >= col
    BY <1>1, <1>2, <1>3, <1>8
  <2>2. pc = "return" /\ pc' \notin {"bfs", "done"} /\ UNCHANGED <<queue, dist>>
    BY <1>1
  <2>3. queue = <<>> /\ \A j \in Columns : c2r[j] = Nil /\ j >= col => Reached(j)
    BY <2>2 DEF IInv, FreeReached
  <2> QED
    BY <2>1, <2>2, <2>3 DEF FreeReached, Reached
<1>16. Resetting' /\ Search'
  BY <1>1 DEF Resetting, Search
<1>17. SizeExact'
  <2>1. Matched' = Matched \cup {c}
    <3>1. \A j \in Columns : c2r'[j] # Nil <=> c2r[j] # Nil \/ j = c
      BY <1>2, <1>8
    <3> QED BY <1>2, <3>1 DEF Matched
  <2>2. IsFiniteSet(Matched)
    BY FS_Subset DEF Matched
  <2>3. CASE n = 1
    <3>1. c \notin Matched
      BY <1>3, <2>3 DEF Matched
    <3>2. Cardinality(Matched') = Cardinality(Matched) + 1
      BY <2>1, <2>2, <3>1, FS_AddElement
    <3> QED BY <1>1, <1>2, <2>3, <3>2 DEF IInv, SizeExact
  <2>4. CASE n # 1
    <3>1. Matched' = Matched
      BY <1>2, <1>6, <2>1, <2>4 DEF Matched, c
    <3> QED BY <1>1, <1>2, <2>4, <3>1 DEF IInv, SizeExact
  <2> QED BY <2>3, <2>4
<1> QED BY <1>9, <1>11, <1>12, <1>13, <1>14, <1>15, <1>16, <1>17 DEF IInv

-----------------------------------------------------------------------------
\* The invariant: every reachable state satisfies it.
THEOREM MatchingInvariant == Spec => []IInv
<1>1. ASSUME IInv, UNCHANGED vars PROVE IInv'
  BY <1>1 DEF vars, matching, IInv, Types, Arrays, Root, Path, FreeEnd, FreeReached,
              Resetting, Search, SizeExact, Matched, Reached, Queued, Closed, Top
<1>2. IInv /\ [Next]_vars => IInv'
  <2> SUFFICES ASSUME IInv, [Next]_vars PROVE IInv'
    OBVIOUS
  <2>1. CASE Reset
    BY <2>1, ResetKeeps
  <2>2. CASE ResetNil
    BY <2>2, ResetNilKeeps
  <2>3. CASE Visit
    BY <2>3, VisitKeeps
  <2>4. CASE BfsEnds
    BY <2>4, BfsEndsKeeps
  <2>5. CASE Scan
    BY <2>5, ScanKeeps
  <2>6. CASE PhaseEnds
    BY <2>6, PhaseEndsKeeps
  <2>7. ASSUME NEW i \in Rows, Skip(i) PROVE IInv'
    BY <2>7, SkipKeeps
  <2>8. ASSUME NEW i \in Rows, Follow(i) PROVE IInv'
    BY <2>8, FollowKeeps
  <2>9. CASE DeadEnd
    BY <2>9, DeadEndKeeps
  <2>10. CASE Augment
    BY <2>10, AugmentKeeps
  <2>11. CASE Finished
    BY <1>1, <2>11 DEF Finished
  <2>12. CASE UNCHANGED vars
    BY <1>1, <2>12
  <2> QED BY <2>1, <2>2, <2>3, <2>4, <2>5, <2>6, <2>7, <2>8, <2>9, <2>10, <2>11, <2>12 DEF Next
<1> QED BY InitHolds, <1>2, PTL DEF Spec

\* col_to_row and row_to_col agree whenever no path is being unwound, and
\* matching_size is the number of matched columns.
THEOREM ArraysAlwaysAgree == Spec => []ArraysAgree
<1>1. IInv => ArraysAgree
  BY DEF IInv, Arrays, SizeExact, ArraysAgree
<1> QED BY <1>1, MatchingInvariant, PTL

\* The recursion climbs the levels, and never from a column at i32::MAX.
THEOREM RecursionClimbs == Spec => []StackClimbs
<1>1. IInv => StackClimbs
  <2> SUFFICES ASSUME IInv PROVE StackClimbs
    OBVIOUS
  <2>1. DOMAIN stack = 1..Len(stack)
    BY LenProperties DEF IInv, Types
  <2> QED BY <2>1, Sentinels DEF IInv, Path, Reached, StackClimbs
<1> QED BY <1>1, MatchingInvariant, PTL

\* Where the search ended without a free row, no matching has more edges.
LEMMA NoLargerMatching ==
  ASSUME IInv, pc = "done", NEW M \in SUBSET Edges, IsMatching(M)
  PROVE  Cardinality(M) <= size
<1> USE Sentinels
<1> DEFINE f == [e \in M |-> IF Reached(e[1]) THEN r2c[e[2]] ELSE e[1]]
<1>1. /\ \A e \in M : e[1] \in Columns /\ e[2] \in Rows /\ e[2] \in adj[e[1]]
      /\ \A e, g \in M : e[1] = g[1] \/ e[2] = g[2] => e = g
  BY DEF Edges, IsMatching
<1>2. /\ ~Reached(Nil)
      /\ \A j \in Columns : c2r[j] = Nil => Reached(j)
      /\ \A j \in Columns : Reached(j) => \A i \in adj[j] : Reached(r2c[i])
      /\ \A i \in Rows : r2c[i] # Nil => r2c[i] \in Columns /\ c2r[r2c[i]] = i
  BY DEF IInv, Types, Arrays, FreeReached, Search, Closed, Reached
<1>3. \A e \in M : f[e] \in Matched /\ (Reached(f[e]) <=> Reached(e[1]))
  <2> SUFFICES ASSUME NEW e \in M
               PROVE  f[e] \in Matched /\ (Reached(f[e]) <=> Reached(e[1]))
    OBVIOUS
  <2>1. e[1] \in Columns /\ e[2] \in Rows /\ e[2] \in adj[e[1]]
    BY <1>1
  <2>2. CASE Reached(e[1])
    <3>1. f[e] = r2c[e[2]] /\ Reached(r2c[e[2]])
      BY <1>2, <2>1, <2>2
    <3>2. r2c[e[2]] # Nil
      BY <1>2, <3>1
    <3>3. r2c[e[2]] \in Columns /\ c2r[r2c[e[2]]] = e[2]
      BY <1>2, <2>1, <3>2
    <3> QED BY <2>1, <2>2, <3>1, <3>3 DEF Matched
  <2>3. CASE ~Reached(e[1])
    <3>1. f[e] = e[1]
      BY <2>3
    <3> QED BY <1>2, <2>1, <2>3, <3>1 DEF Matched
  <2> QED BY <2>2, <2>3
<1>4. \A e, g \in M : f[e] = f[g] => e = g
  <2> SUFFICES ASSUME NEW e \in M, NEW g \in M, f[e] = f[g] PROVE e = g
    OBVIOUS
  <2>1. Reached(e[1]) <=> Reached(g[1])
    BY <1>3
  <2>2. CASE Reached(e[1])
    <3>1. f[e] = r2c[e[2]] /\ f[g] = r2c[g[2]]
      BY <2>1, <2>2
    <3>2. r2c[e[2]] # Nil
      BY <1>3, <3>1 DEF Matched
    <3>3. e[2] = c2r[r2c[e[2]]] /\ g[2] = c2r[r2c[g[2]]]
      BY <1>1, <1>2, <3>1, <3>2
    <3> QED BY <1>1, <3>1, <3>3
  <2>3. CASE ~Reached(e[1])
    BY <1>1, <2>1, <2>3
  <2> QED BY <2>2, <2>3
<1>5. IsFiniteSet(M) /\ IsFiniteSet(Matched)
  <2>1. IsFiniteSet(Columns \X Rows)
    BY FS_Product
  <2>2. M \subseteq Columns \X Rows /\ Matched \subseteq Columns
    BY DEF Edges, Matched
  <2> QED BY <2>1, <2>2, FS_Subset
<1>6. f \in [M -> Matched]
  BY <1>3
<1> HIDE DEF f
<1>7. ~(Cardinality(M) > Cardinality(Matched))
  BY <1>4, <1>5, <1>6, FS_PigeonHole
<1> QED BY <1>5, <1>7, FS_CardinalityType DEF IInv, SizeExact

\* The result of hopcroft_karp is a maximum matching.
THEOREM MatchingIsMaximum == Spec => []Maximum
<1>1. IInv => Maximum
  BY NoLargerMatching DEF Maximum
<1> QED BY <1>1, MatchingInvariant, PTL
=============================================================================
