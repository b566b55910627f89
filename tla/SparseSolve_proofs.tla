------------------------ MODULE SparseSolve_proofs ------------------------
(***************************************************************************)
(* Theorems about SparseSolve, for every size, every set of patterns and   *)
(* every task: the levels are exact however the threads that compute them  *)
(* interleave, and so is the result of every solve on a device that adds   *)
(* atomically; and the fill of ILU(k) is that of the ways over the         *)
(* matrix's own entries.                                                   *)
(***************************************************************************)
EXTENDS SparseSolve, FiniteSetTheorems, TLAPS

\* The place of a row in the order in which its side is worked off.
Pos(i) == IF task.side = "lower" THEN i ELSE N + 1 - i

Above(l, need, lev) ==
  /\ \A k \in need : lev[k] < l
  /\ l = 0 \/ \E k \in need : lev[k] + 1 = l

Exact(i) == Above(level[i], Needs(i), level)

LevelTypes ==
  /\ task \in Tasks
  /\ pc \in {"fill", "levels", "solve", "done"}
  /\ level \in [Rows -> Nat] /\ before \in [Rows -> Nat]
  /\ todo \subseteq Rows /\ changed \in BOOLEAN
  /\ place \in Nat /\ pass \in Nat

Fresh ==
  pc = "fill" =>
    /\ level = [i \in Rows |-> 0] /\ before = [i \in Rows |-> 0]
    /\ changed = FALSE /\ pass = 1

\* On the host the rows before the loop's have their level.
OnHost ==
  pc = "levels" /\ ~OnDevice => \A i \in Rows : Pos(i) < place => Exact(i)

\* On the device they have it once their position is below the number of passes,
\* and nothing changes it then; the levels of the others are too low at most.
TooLowAtMost ==
  pc = "levels" /\ OnDevice =>
    \A i \in Rows : /\ before[i] <= level[i]
                    /\ level[i] = 0 \/ \E k \in Needs(i) : level[i] <= level[k] + 1

Settled ==
  pc = "levels" /\ OnDevice =>
    \A i \in Rows :
      /\ Pos(i) < pass => before[i] = level[i]
      /\ Pos(i) < pass \/ (Pos(i) = pass /\ i \notin todo) => Exact(i)

\* As long as nobody has raised the flag, whoever has run needs no other row.
QuietMeansDone ==
  pc = "levels" /\ OnDevice /\ ~changed =>
    \A i \in Rows : level[i] = 0 /\ (i \notin todo => Needs(i) = {})

Levelled == pc \in {"solve", "done"} => \A i \in Rows : Exact(i)

LevelInv ==
  /\ LevelTypes /\ Fresh /\ OnHost
  /\ TooLowAtMost /\ Settled /\ QuietMeansDone /\ Levelled
-----------------------------------------------------------------------------
\* What a row needs has a smaller position: no way of rows leads round in a circle.
LEMMA NeedsAreEarlier ==
  ASSUME NEW i \in Rows, NEW k \in Needs(i)
  PROVE  k \in Rows /\ Pos(k) \in Nat /\ Pos(i) \in 1..N /\ Pos(k) < Pos(i)
  BY SparseAssumption DEF Needs, Before, Pos, Rows

\* JustAbove of the levels that were seen is Above.
LEMMA AboveSeen ==
  ASSUME NEW l \in Nat, NEW need, NEW seen, DOMAIN seen = need
  PROVE  JustAbove(l, seen) <=> Above(l, need, seen)
  BY DEF JustAbove, Above

LEMMA ExactIs ==
  ASSUME NEW i \in Rows, NEW l \in Nat
  PROVE  JustAbove(l, LevelsOf(Needs(i))) <=> Above(l, Needs(i), level)
  BY DEF JustAbove, Above, LevelsOf

\* There is one level just above a set of levels.
LEMMA AboveIsUnique ==
  ASSUME NEW need, NEW lev, \A k \in need : lev[k] \in Nat,
         NEW l \in Nat, NEW m \in Nat, Above(l, need, lev), Above(m, need, lev)
  PROVE  l = m
  BY DEF Above

\* Above looks at no level but those of the rows needed.
LEMMA AboveAgrees ==
  ASSUME NEW need, NEW f, NEW g, \A k \in need : f[k] = g[k], NEW l, Above(l, need, f)
  PROVE  Above(l, need, g)
  BY DEF Above

LEMMA LevelInit == Init => LevelInv
<1> SUFFICES ASSUME Init PROVE LevelInv
  OBVIOUS
<1> USE DEF Init
<1>1. pc \in {"fill", "levels"} /\ todo \in {{}, Rows} /\ (pc = "levels" => todo = Rows)
  OBVIOUS
<1>2. LevelTypes
  BY <1>1, Zenon DEF LevelTypes
<1>3. Fresh
  BY DEF Fresh
<1>4. \A i \in Rows : Pos(i) >= 1
  BY SparseAssumption DEF Rows, Pos
<1>5. OnHost
  BY <1>4, SparseAssumption DEF OnHost, Pos, Rows
<1>6. TooLowAtMost
  BY DEF TooLowAtMost
<1>7. Settled
  BY <1>1, <1>4, SparseAssumption DEF Settled, Pos, Rows
<1>8. QuietMeansDone /\ Levelled
  BY <1>1 DEF QuietMeansDone, Levelled
<1> QED
  BY <1>2, <1>3, <1>5, <1>6, <1>7, <1>8 DEF LevelInv

\* What is exact stays so while the matrix and the levels do.
LEMMA ExactStays ==
  ASSUME UNCHANGED <<task, fill, level>>, NEW i
  PROVE  Exact(i)' <=> Exact(i)
  BY DEF Exact, Above, Needs, Before

LEMMA FillStep ==
  ASSUME LevelInv, (\E k \in Rows : FillFrom(k)) \/ NextFillRow
  PROVE  LevelInv'
<1>0. LevelTypes /\ Fresh
  BY DEF LevelInv
<1>1. pc = "fill" /\ pc' \in {"fill", "levels"} /\ task' = task /\ level' = level
      /\ before' = before /\ changed' = changed /\ pass' = pass
  BY DEF FillFrom, NextFillRow, analysis
<1>2. level = [i \in Rows |-> 0] /\ before = level /\ changed = FALSE /\ pass = 1
  BY <1>0, <1>1 DEF Fresh
<1>3. todo' \subseteq Rows /\ (pc' = "levels" => todo' = Rows /\ place' = 1) /\ place' \in Nat
  <2>1. CASE \E k \in Rows : FillFrom(k)
    BY <1>0, <1>1, <2>1 DEF FillFrom, analysis, LevelTypes
  <2>2. CASE NextFillRow
    BY <1>0, <1>1, <2>2 DEF NextFillRow, LevelTypes, Eliminated
  <2> QED
    BY <2>1, <2>2
<1>4. LevelTypes'
  BY <1>0, <1>1, <1>3 DEF LevelTypes
<1>5. Fresh'
  BY <1>1, <1>2 DEF Fresh
<1>6. \A i \in Rows : Pos(i)' \in Nat /\ Pos(i)' >= 1
  BY <1>1, SparseAssumption DEF Rows, Pos
<1>7. OnHost'
  BY <1>1, <1>3, <1>6 DEF OnHost
<1>8. TooLowAtMost'
  BY <1>1, <1>2 DEF TooLowAtMost
<1>9. Settled'
  BY <1>1, <1>2, <1>3, <1>6 DEF Settled
<1>10. QuietMeansDone' /\ Levelled'
  BY <1>1, <1>2, <1>3 DEF QuietMeansDone, Levelled
<1> QED
  BY <1>4, <1>5, <1>7, <1>8, <1>9, <1>10 DEF LevelInv

LEMMA HostStep ==
  ASSUME LevelInv, HostLevel
  PROVE  LevelInv'
<1> DEFINE i == IF task.side = "lower" THEN place ELSE N + 1 - place
<1>1. PICK l \in 0..N : /\ JustAbove(l, LevelsOf(Needs(i)))
                        /\ level' = [level EXCEPT ![i] = l]
  BY DEF HostLevel
<1>2. /\ pc = "levels" /\ pc' = pc /\ ~OnDevice /\ ~OnDevice' /\ place <= N /\ place' = place + 1
      /\ task' = task /\ fill' = fill /\ UNCHANGED <<todo, before, changed, pass>>
  BY DEF HostLevel, OnDevice, Kernel
<1>3. LevelTypes
  BY DEF LevelInv
<1>4. LevelTypes'
  <2> HIDE DEF i
  <2>1. level \in [Rows -> Nat] /\ l \in Nat
    BY <1>3, SparseAssumption DEF LevelTypes
  <2>2. level' \in [Rows -> Nat]
    BY <1>1, <2>1
  <2> QED
    BY <1>2, <1>3, <2>2 DEF LevelTypes
<1>5. Fresh' /\ TooLowAtMost' /\ Settled' /\ QuietMeansDone' /\ Levelled'
  BY <1>2 DEF Fresh, TooLowAtMost, Settled, QuietMeansDone, Levelled
<1>6. \A j : Needs(j)' = Needs(j) /\ Pos(j)' = Pos(j)
  BY <1>2 DEF Needs, Before, Pos
<1>7. ASSUME NEW j \in Rows, Pos(j) < place + 1
      PROVE  Exact(j)'
  <2>1. \A k \in Needs(j) : k \in Rows /\ Pos(k) < place
    BY <1>3, <1>7, NeedsAreEarlier DEF LevelTypes
  <2>2. \A k \in Rows : Pos(k) < place => k # i
    BY <1>3, SparseAssumption DEF LevelTypes, Pos, Rows
  <2>3. \A k \in Needs(j) : level'[k] = level[k]
    BY <1>1, <1>3, <2>1, <2>2 DEF LevelTypes
  <2>4. CASE Pos(j) < place
    <3>1. Exact(j) /\ level'[j] = level[j]
      BY <1>1, <1>2, <1>3, <2>2, <2>4 DEF LevelInv, OnHost, LevelTypes
    <3> QED
      BY <1>6, <2>3, <3>1, AboveAgrees DEF Exact
  <2>5. CASE Pos(j) = place
    <3>1. j = i
      BY <1>2, <1>3, <2>5, SparseAssumption DEF LevelTypes, Pos, Rows
    <3>2. Above(l, Needs(j), level)
      BY <1>1, <3>1, ExactIs
    <3>3. level'[j] = l
      BY <1>1, <1>3, <3>1 DEF LevelTypes
    <3> QED
      BY <1>6, <2>3, <3>2, <3>3, AboveAgrees DEF Exact
  <2> QED
    BY <1>3, <1>7, <2>4, <2>5, SparseAssumption DEF LevelTypes, Pos, Rows
<1>8. OnHost'
  BY <1>2, <1>6, <1>7 DEF OnHost
<1> QED
  BY <1>4, <1>5, <1>8 DEF LevelInv

LEMMA LevelThreadStep ==
  ASSUME LevelInv, NEW i \in Rows, LevelThread(i)
  PROVE  LevelInv'
<1> DEFINE seen(stale) == [k \in Needs(i) |-> IF k \in stale THEN before[k] ELSE level[k]]
<1>1. PICK stale \in SUBSET Needs(i), l \in 0..N :
        /\ JustAbove(l, seen(stale))
        /\ level' = IF level[i] < l THEN [level EXCEPT ![i] = l] ELSE level
        /\ changed' = (changed \/ level[i] < l)
  BY DEF LevelThread
<1>2. /\ pc = "levels" /\ pc' = pc /\ OnDevice /\ OnDevice' /\ i \in todo /\ todo' = todo \ {i}
      /\ task' = task /\ fill' = fill /\ UNCHANGED <<place, before, pass>>
  BY DEF LevelThread, OnDevice, Kernel
<1>3. LevelTypes /\ TooLowAtMost /\ Settled /\ QuietMeansDone
  BY DEF LevelInv
<1>4. LevelTypes'
  BY <1>1, <1>2, <1>3, SparseAssumption DEF LevelTypes
<1>5. Fresh' /\ OnHost' /\ Levelled'
  BY <1>2 DEF Fresh, OnHost, Levelled
<1>6. \A j : Needs(j)' = Needs(j) /\ Pos(j)' = Pos(j)
  BY <1>2 DEF Needs, Before, Pos
<1>7. \A j \in Rows : Needs(j) \subseteq Rows
  BY DEF Needs
<1>8. Above(l, Needs(i), seen(stale))
  BY <1>1, AboveSeen
<1>9. /\ \A j \in Rows : j # i => level'[j] = level[j]
      /\ level'[i] = IF level[i] < l THEN l ELSE level[i]
      /\ \A j \in Rows : level[j] \in Nat /\ level'[j] \in Nat /\ before[j] \in Nat
                         /\ level[j] <= level'[j]
  BY <1>1, <1>3, <1>4 DEF LevelTypes
<1>10. \A k \in Needs(i) : seen(stale)[k] \in Nat /\ seen(stale)[k] <= level[k]
  BY <1>2, <1>3, <1>7, <1>9 DEF TooLowAtMost
<1>11. TooLowAtMost'
  <2> SUFFICES ASSUME NEW j \in Rows
               PROVE  /\ before'[j] <= level'[j]
                      /\ level'[j] = 0 \/ \E k \in Needs(j) : level'[j] <= level'[k] + 1
    BY <1>6 DEF TooLowAtMost
  <2>1. before'[j] <= level'[j]
    BY <1>2, <1>3, <1>9 DEF TooLowAtMost
  <2>2. CASE level'[j] = level[j]
    <3>1. level[j] = 0 \/ \E k \in Needs(j) : level[j] <= level[k] + 1
      BY <1>2, <1>3 DEF TooLowAtMost
    <3> QED
      BY <1>7, <1>9, <2>1, <2>2, <3>1
  <2>3. CASE level'[j] # level[j]
    <3>1. j = i /\ level'[i] = l
      BY <1>9, <2>3
    <3>2. l = 0 \/ \E k \in Needs(i) : seen(stale)[k] + 1 = l
      BY <1>8 DEF Above
    <3>3. l = 0 \/ \E k \in Needs(i) : l <= level'[k] + 1
      BY <1>7, <1>9, <1>10, <3>2
    <3> QED
      BY <2>1, <3>1, <3>3
  <2> QED
    BY <2>2, <2>3
\* The rows this one needs are settled when its turn has come: it sees their levels.
<1>12. Pos(i) <= pass => Above(l, Needs(i), level)
  <2> SUFFICES ASSUME Pos(i) <= pass PROVE Above(l, Needs(i), level)
    OBVIOUS
  <2>1. \A k \in Needs(i) : Pos(k) < pass
    BY <1>3, NeedsAreEarlier DEF LevelTypes
  <2>2. \A k \in Needs(i) : seen(stale)[k] = level[k]
    BY <1>2, <1>3, <1>7, <2>1 DEF Settled
  <2> QED
    BY <1>8, <2>2, AboveAgrees
<1>13. Pos(i) <= pass => level'[i] = l
  <2> SUFFICES ASSUME Pos(i) <= pass PROVE level[i] <= l
    BY <1>9
  <2>1. level[i] = 0 \/ \E k \in Needs(i) : level[i] <= level[k] + 1
    BY <1>2, <1>3 DEF TooLowAtMost
  <2>2. \A k \in Needs(i) : level[k] < l
    BY <1>12 DEF Above
  <2> QED
    BY <1>7, <1>9, <2>1, <2>2
<1>14. Pos(i) < pass => level'[i] = level[i]
  <2> SUFFICES ASSUME Pos(i) < pass PROVE l = level[i]
    BY <1>3, <1>13, SparseAssumption DEF LevelTypes, Pos, Rows
  <2>1. Above(level[i], Needs(i), level)
    BY <1>2, <1>3 DEF Settled, Exact
  <2>2. Above(l, Needs(i), level)
    BY <1>3, <1>12, SparseAssumption DEF LevelTypes, Pos, Rows
  <2> QED
    BY <1>7, <1>9, <2>1, <2>2, AboveIsUnique
<1>15. ASSUME NEW j \in Rows, Pos(j) <= pass
       PROVE  \A k \in Needs(j) : level'[k] = level[k]
  <2> SUFFICES ASSUME NEW k \in Needs(j) PROVE level'[k] = level[k]
    OBVIOUS
  <2>1. k \in Rows /\ Pos(k) < pass
    BY <1>3, <1>15, NeedsAreEarlier DEF LevelTypes
  <2> QED
    BY <1>9, <1>14, <2>1
<1>16. Settled'
  <2> SUFFICES ASSUME NEW j \in Rows
               PROVE  /\ Pos(j) < pass => before[j] = level'[j]
                      /\ Pos(j) < pass \/ (Pos(j) = pass /\ j \notin todo \ {i}) => Exact(j)'
    BY <1>2, <1>6 DEF Settled
  <2>1. Pos(j) < pass => before[j] = level'[j] /\ level'[j] = level[j]
    BY <1>2, <1>3, <1>9, <1>14 DEF Settled
  <2>2. ASSUME Pos(j) <= pass, j = i
        PROVE  Exact(j)'
    BY <1>6, <1>12, <1>13, <1>15, <2>2, AboveAgrees DEF Exact
  <2>3. ASSUME Pos(j) < pass \/ (Pos(j) = pass /\ j \notin todo), j # i
        PROVE  Exact(j)'
    <3>1. Exact(j) /\ level'[j] = level[j]
      BY <1>2, <1>3, <1>9, <2>3 DEF Settled
    <3>2. Pos(j) <= pass
      BY <1>3, <2>3, SparseAssumption DEF LevelTypes, Pos, Rows
    <3> QED
      BY <1>6, <1>15, <3>1, <3>2, AboveAgrees DEF Exact
  <2>4. Pos(j) < pass \/ Pos(j) = pass => Pos(j) <= pass
    BY <1>3, SparseAssumption DEF LevelTypes, Pos, Rows
  <2> QED
    BY <2>1, <2>2, <2>3, <2>4
<1>17. QuietMeansDone'
  <2> SUFFICES ASSUME ~changed', NEW j \in Rows
               PROVE  level'[j] = 0 /\ (j \notin todo \ {i} => Needs(j) = {})
    BY <1>2, <1>6 DEF QuietMeansDone
  <2>1. ~changed /\ ~(level[i] < l) /\ level' = level
    BY <1>1, <1>3 DEF LevelTypes
  <2>2. level'[j] = 0 /\ level[i] = 0 /\ (j \notin todo => Needs(j) = {})
    BY <1>2, <1>3, <2>1 DEF QuietMeansDone
  <2>3. l = 0
    BY <2>1, <2>2
  <2>4. Needs(i) = {}
    BY <1>8, <1>10, <2>3 DEF Above
  <2> QED
    BY <2>2, <2>4
<1> QED
  BY <1>4, <1>5, <1>11, <1>16, <1>17 DEF LevelInv

LEMMA NextPassStep ==
  ASSUME LevelInv, NextPass
  PROVE  LevelInv'
<1>1. /\ pc = "levels" /\ pc' = pc /\ OnDevice /\ OnDevice' /\ todo = {} /\ todo' = Rows
      /\ changed /\ changed' = changed /\ pass' = pass + 1 /\ before' = level
      /\ task' = task /\ fill' = fill /\ level' = level /\ place' = place
  BY DEF NextPass, OnDevice, Kernel
<1>2. LevelTypes /\ TooLowAtMost /\ Settled
  BY DEF LevelInv
<1>3. LevelTypes'
  BY <1>1, <1>2 DEF LevelTypes
<1>4. Fresh' /\ OnHost' /\ Levelled' /\ QuietMeansDone'
  BY <1>1 DEF Fresh, OnHost, Levelled, QuietMeansDone
<1>5. \A j : Needs(j)' = Needs(j) /\ Pos(j)' = Pos(j) /\ (Exact(j)' <=> Exact(j))
  BY <1>1, ExactStays DEF Needs, Before, Pos
<1>6. TooLowAtMost'
  BY <1>1, <1>2, <1>5 DEF TooLowAtMost, LevelTypes
<1>7. \A j \in Rows : Pos(j) < pass + 1 => Exact(j)
  BY <1>1, <1>2, SparseAssumption DEF Settled, LevelTypes, Pos, Rows
<1>8. Settled'
  BY <1>1, <1>5, <1>7 DEF Settled
<1> QED
  BY <1>3, <1>4, <1>6, <1>8 DEF LevelInv

LEMMA GroupStep ==
  ASSUME LevelInv, Group
  PROVE  LevelInv'
<1>1. /\ pc = "levels" /\ pc' = "solve" /\ LevelsReady /\ todo' \subseteq Rows
      /\ UNCHANGED <<task, fill, place, level, before, changed, pass>>
  BY DEF Group, analysis
<1>2. LevelTypes /\ OnHost /\ Settled /\ QuietMeansDone
  BY DEF LevelInv
<1>3. LevelTypes'
  BY <1>1, <1>2 DEF LevelTypes
<1>4. Fresh' /\ OnHost' /\ TooLowAtMost' /\ Settled' /\ QuietMeansDone'
  BY <1>1 DEF Fresh, OnHost, TooLowAtMost, Settled, QuietMeansDone
<1>5. \A j \in Rows : Pos(j) \in 1..N
  BY SparseAssumption DEF Pos, Rows
<1>6. ASSUME NEW j \in Rows
      PROVE  Exact(j)
  <2>1. CASE ~OnDevice
    BY <1>1, <1>2, <1>5, <2>1, SparseAssumption DEF OnHost, LevelsReady
  <2>2. CASE OnDevice /\ changed
    BY <1>1, <1>2, <1>5, <2>2, SparseAssumption DEF Settled, LevelsReady
  <2>3. CASE OnDevice /\ ~changed
    <3>1. level[j] = 0 /\ Needs(j) = {}
      BY <1>1, <1>2, <2>3 DEF QuietMeansDone, LevelsReady
    <3> QED
      BY <3>1 DEF Exact, Above
  <2> QED
    BY <2>1, <2>2, <2>3
<1>7. Levelled'
  BY <1>1, <1>6, ExactStays DEF Levelled
<1> QED
  BY <1>3, <1>4, <1>7 DEF LevelInv

\* The launches leave the levels alone.
LEMMA LaunchedStep ==
  ASSUME LevelInv, pc \in {"solve", "done"}, pc' \in {"solve", "done"},
         UNCHANGED <<task, fill, analysis>>, todo' \subseteq Rows
  PROVE  LevelInv'
<1>1. LevelTypes /\ Levelled
  BY DEF LevelInv
<1>2. LevelTypes'
  BY <1>1 DEF LevelTypes, analysis
<1>3. Fresh' /\ OnHost' /\ TooLowAtMost' /\ Settled' /\ QuietMeansDone'
  BY DEF Fresh, OnHost, TooLowAtMost, Settled, QuietMeansDone
<1>4. level' = level
  BY DEF analysis
<1>5. Levelled'
  BY <1>1, <1>4, ExactStays DEF Levelled
<1> QED
  BY <1>2, <1>3, <1>5 DEF LevelInv

LEMMA ThreadLaunched ==
  ASSUME LevelTypes, NEW i \in Rows, Thread(i)
  PROVE  /\ pc = "solve" /\ pc' = pc /\ todo' \subseteq todo
         /\ UNCHANGED <<task, fill, analysis, launch>>
  BY Zenon
  DEF Thread, RowLoad, RowStore, Eliminate, RowFactored, LoadUnknown, StoreUnknown,
      AtomicSubtract, LoadTarget, StoreTarget, ColumnDone, Running, Step, Exit

LEMMA LevelStep == LevelInv /\ [Next]_vars => LevelInv'
<1> SUFFICES ASSUME LevelInv, [Next]_vars PROVE LevelInv'
  OBVIOUS
<1>1. LevelTypes
  BY DEF LevelInv
<1>2. CASE (\E k \in Rows : FillFrom(k)) \/ NextFillRow
  BY <1>2, FillStep
<1>3. CASE HostLevel
  BY <1>3, HostStep
<1>4. CASE \E i \in Rows : LevelThread(i)
  BY <1>4, LevelThreadStep
<1>5. CASE NextPass
  BY <1>5, NextPassStep
<1>6. CASE Group
  BY <1>6, GroupStep
<1>7. CASE \E i \in Rows : Thread(i)
  <2>1. pc = "solve" /\ pc' = pc /\ todo' \subseteq Rows /\ UNCHANGED <<task, fill, analysis>>
    BY <1>1, <1>7, ThreadLaunched DEF LevelTypes
  <2> QED
    BY <2>1, LaunchedStep
<1>8. CASE NextLaunch
  <2>1. /\ pc = "solve" /\ pc' \in {"solve", "done"} /\ todo' \subseteq Rows
        /\ UNCHANGED <<task, fill, analysis>>
    BY <1>1, <1>8 DEF NextLaunch, LevelTypes
  <2> QED
    BY <2>1, LaunchedStep
<1>9. CASE UNCHANGED vars
  BY <1>9 DEF vars, analysis, LevelInv, LevelTypes, Fresh, OnHost, TooLowAtMost, Settled,
     QuietMeansDone, Levelled, Exact, Above, Needs, Before, Pos, OnDevice, Kernel
<1> QED
  BY <1>2, <1>3, <1>4, <1>5, <1>6, <1>7, <1>8, <1>9 DEF Next, Finished

\* The inductive invariant of the levels: on the host those of the rows behind the
\* loop, on the device those of as many positions as there were passes.
THEOREM LevelInvariant == Spec => []LevelInv
<1>1. Init => LevelInv
  BY LevelInit
<1>2. LevelInv /\ [Next]_vars => LevelInv'
  BY LevelStep
<1> QED
  BY <1>1, <1>2, PTL DEF Spec

\* For every size, pattern and interleaving, each row's level is one more than the
\* highest of those it needs, computed on the host or by threads that race.
THEOREM LevelsAreExact == Spec => []LevelsExact
<1>1. LevelInv => LevelsExact
  BY ExactIs DEF LevelInv, LevelTypes, Levelled, LevelsExact, Exact
<1> QED
  BY <1>1, LevelInvariant, PTL
-----------------------------------------------------------------------------
Shape ==
  /\ thread = [i \in Rows |-> thread[i]] /\ x = [i \in Rows |-> x[i]]
  /\ \A i \in Rows :
       thread[i] = State(thread[i].at, thread[i].left, thread[i].reg, thread[i].old)

Unsolved == pc \in {"fill", "levels"} => launch = 0 /\ \A i \in Rows : x[i] = {}

Done(i) == level[i] < launch \/ (level[i] = launch /\ i \notin todo)

Launched ==
  /\ pc = "solve" => \A i \in todo : level[i] = launch
  /\ pc = "done" => \A i \in Rows : Done(i)

Taken(S) == {<<k, x[k]>> : k \in S}

\* Solving by rows, or factoring: what a thread has taken so far is final, and a
\* row of a later launch has taken nothing.
RowOK(i) ==
  /\ Done(i) => x[i] = Taken(Needs(i))
  /\ ~Done(i) => /\ thread[i].left \subseteq Needs(i)
                 /\ Taken(Needs(i) \ thread[i].left) =
                      IF Kernel = "factor" THEN x[i] ELSE thread[i].reg
  /\ level[i] > launch => thread[i].left = Needs(i)

RowWise == Kernel # "column" /\ pc \in {"solve", "done"} => \A i \in Rows : RowOK(i)

\* Solving by columns: a row has had subtracted what the finished columns, and the
\* running ones that are past it, give.
Gave(i, k) ==
  Done(i) \/ (level[i] = launch /\ thread[i].at \in {"update", "subtract"}
              /\ k \notin thread[i].left)

SumOK(k) == x[k] = Taken({i \in Needs(k) : Gave(i, k)})

ColumnOK(i) ==
  LET t == thread[i] IN
  ~Done(i) =>
    /\ t.left \subseteq NeededBy(i)
    /\ t.at \in {"start", "divided"} => t.left = NeededBy(i)
    /\ t.at # "start" => level[i] = launch /\ t.reg = x[i]
    /\ t.at = "subtract" => ~Atomic /\ \A k : First(k, t.left) => t.old = x[k]

ColumnWise ==
  Kernel = "column" /\ ~Collision /\ pc \in {"solve", "done"} =>
    \A i \in Rows : SumOK(i) /\ ColumnOK(i)

SolveInv == Shape /\ launch \in Nat /\ Unsolved /\ Launched /\ RowWise /\ ColumnWise
-----------------------------------------------------------------------------
LEMMA StateFields ==
  ASSUME NEW a, NEW l, NEW r, NEW o
  PROVE  LET t == State(a, l, r, o) IN t.at = a /\ t.left = l /\ t.reg = r /\ t.old = o
  BY DEF State

\* A step of a thread leaves the other threads as they are.
LEMMA StepSets ==
  ASSUME Shape, NEW i \in Rows, NEW a, NEW l, NEW r, NEW o, Step(i, State(a, l, r, o))
  PROVE  /\ thread'[i].at = a /\ thread'[i].left = l /\ thread'[i].reg = r /\ thread'[i].old = o
         /\ thread' = [j \in Rows |-> thread'[j]]
         /\ \A j \in Rows :
              thread'[j] = State(thread'[j].at, thread'[j].left, thread'[j].reg, thread'[j].old)
         /\ \A j \in Rows \ {i} : thread'[j] = thread[j]
<1>1. thread' = [thread EXCEPT ![i] = State(a, l, r, o)]
  BY DEF Step
<1>2. thread'[i] = State(a, l, r, o) /\ thread' = [j \in Rows |-> thread'[j]]
      /\ \A j \in Rows \ {i} : thread'[j] = thread[j]
  BY <1>1 DEF Shape
<1>3. \A j \in Rows :
        thread'[j] = State(thread'[j].at, thread'[j].left, thread'[j].reg, thread'[j].old)
  BY <1>2, StateFields DEF Shape
<1> QED
  BY <1>2, <1>3, StateFields

LEMMA ExitSets ==
  ASSUME Shape, NEW i \in Rows, Step(i, thread[i])
  PROVE  thread' = thread
  BY DEF Shape, Step

\* The needs of a row are of lower levels.
LEMMA NeedsAreLower ==
  ASSUME LevelTypes, \A i \in Rows : Exact(i), NEW i \in Rows, NEW k \in Needs(i)
  PROVE  k \in Rows /\ k # i /\ level[k] \in Nat /\ level[i] \in Nat /\ level[k] < level[i]
  BY DEF LevelTypes, Exact, Above, Needs

\* What a thread's step of a solve leaves alone.
ThreadContext(i) ==
  /\ LevelTypes /\ launch \in Nat /\ \A j \in Rows : Exact(j)
  /\ i \in Rows /\ i \in todo /\ level[i] = launch
  /\ UNCHANGED <<task, fill, level, launch>>
  /\ \A j \in Rows \ {i} : thread'[j] = thread[j] /\ (j \in todo' <=> j \in todo)

LEMMA ContextFrame ==
  ASSUME NEW i, ThreadContext(i)
  PROVE  /\ Kernel' = Kernel /\ Atomic' = Atomic /\ Collision' = Collision
         /\ ~Done(i) /\ (i \in todo' => ~Done(i)') /\ (i \notin todo' => Done(i)')
         /\ \A j : Needs(j)' = Needs(j) /\ NeededBy(j)' = NeededBy(j)
         /\ \A j \in Rows \ {i} : Done(j)' <=> Done(j)
         /\ \A j \in Rows : Done(j) => level[j] <= launch
         /\ \A j \in Rows : ~Done(j) => level[j] >= launch
<1>1. task' = task /\ fill' = fill /\ level' = level /\ launch' = launch
  BY DEF ThreadContext
<1>2. \A j : Needs(j)' = Needs(j)
  BY <1>1 DEF Needs, Before
<1>3. \A j : NeededBy(j)' = NeededBy(j)
  BY <1>2 DEF NeededBy
<1>4. Kernel' = Kernel /\ Atomic' = Atomic
  BY <1>1 DEF Kernel, Atomic
<1>5. Collision' = Collision
  BY <1>1, <1>3, <1>4 DEF Collision
<1>6. \A j \in Rows : level[j] \in Nat
  BY DEF ThreadContext, LevelTypes
<1>7. /\ ~Done(i) /\ (i \in todo' => ~Done(i)') /\ (i \notin todo' => Done(i)')
      /\ \A j \in Rows \ {i} : Done(j)' <=> Done(j)
      /\ \A j \in Rows : Done(j) => level[j] <= launch
      /\ \A j \in Rows : ~Done(j) => level[j] >= launch
  BY <1>1, <1>6 DEF ThreadContext, Done
<1> QED
  BY <1>2, <1>3, <1>4, <1>5, <1>7

LEMMA RowFrame ==
  ASSUME NEW i, ThreadContext(i), NEW j \in Rows \ {i}, RowOK(j),
         \A k \in Rows \ {i} : x'[k] = x[k]
  PROVE  RowOK(j)'
<1>1. /\ Needs(j)' = Needs(j) /\ (Done(j)' <=> Done(j)) /\ thread'[j] = thread[j]
      /\ Kernel' = Kernel /\ x'[j] = x[j] /\ level' = level /\ launch' = launch
      /\ level[j] \in Nat /\ launch \in Nat
  BY ContextFrame DEF ThreadContext, LevelTypes
<1>2. level[j] <= launch => \A k \in Needs(j) : x'[k] = x[k]
  BY NeedsAreLower DEF ThreadContext
<1>3. level[j] > launch => Needs(j) \ thread[j].left = {}
  BY DEF RowOK
<1>4. Done(j) => level[j] <= launch
  BY ContextFrame
<1>5. Done(j) => Taken(Needs(j))' = Taken(Needs(j))
  <2>1. Done(j) => Taken(Needs(j)') = Taken(Needs(j))
    BY <1>1
  <2> QED
    BY <1>1, <1>2, <1>4 DEF Taken
<1>6. Taken(Needs(j) \ thread[j].left)' = Taken(Needs(j) \ thread[j].left)
  <2>1. \A k \in Needs(j) \ thread[j].left : x'[k] = x[k]
    BY <1>1, <1>2, <1>3
  <2> QED
    BY <1>1, <2>1 DEF Taken
<1> QED
  BY <1>1, <1>5, <1>6 DEF RowOK

LEMMA RowLoadStep ==
  ASSUME NEW i, ThreadContext(i), Shape, RowOK(i), Running(i, "row"), RowLoad(i)
  PROVE  RowOK(i)' /\ x' = x /\ todo' = todo /\ Shape'
<1>0. i \in Rows
  BY DEF ThreadContext
<1>1. PICK k \in thread[i].left :
        Step(i, State("start", thread[i].left \ {k}, thread[i].reg \cup {<<k, x[k]>>}, {}))
  BY DEF RowLoad
<1>2. /\ thread'[i].left = thread[i].left \ {k}
      /\ thread'[i].reg = thread[i].reg \cup {<<k, x[k]>>}
      /\ x' = x /\ todo' = todo /\ Shape'
  BY <1>0, <1>1, StepSets DEF RowLoad, Shape
<1>3. Kernel' = Kernel /\ Kernel # "factor" /\ ~Done(i) /\ ~Done(i)' /\ Needs(i)' = Needs(i)
  BY <1>2, ContextFrame DEF Running, ThreadContext
<1>4. /\ thread[i].left \subseteq Needs(i)
      /\ Taken(Needs(i) \ thread[i].left) = thread[i].reg
  BY <1>3 DEF RowOK
<1>5. Taken(Needs(i) \ thread'[i].left) = thread'[i].reg
  BY <1>2, <1>4 DEF Taken
<1>6. Taken(Needs(i) \ thread[i].left)' = thread'[i].reg
  BY <1>2, <1>3, <1>5 DEF Taken
<1>7. ~(level'[i] > launch')
  BY DEF ThreadContext
<1> QED
  BY <1>2, <1>3, <1>4, <1>6, <1>7 DEF RowOK

LEMMA RowStoreStep ==
  ASSUME NEW i, ThreadContext(i), Shape, RowOK(i), Running(i, "row"), RowStore(i)
  PROVE  RowOK(i)' /\ (\A j \in Rows \ {i} : x'[j] = x[j]) /\ Shape'
<1>0. i \in Rows
  BY DEF ThreadContext
<1>1. /\ thread' = thread /\ x' = [x EXCEPT ![i] = thread[i].reg] /\ thread[i].left = {}
      /\ i \notin todo'
  BY <1>0, ExitSets DEF RowStore, Exit
<1>2. x'[i] = thread[i].reg /\ (\A j \in Rows \ {i} : x'[j] = x[j]) /\ Shape'
  BY <1>0, <1>1 DEF Shape
<1>3. Kernel # "factor" /\ ~Done(i) /\ Done(i)' /\ Needs(i)' = Needs(i)
  BY <1>1, ContextFrame DEF Running
<1>4. x'[i] = Taken(Needs(i))
  BY <1>1, <1>2, <1>3 DEF RowOK
<1>5. \A k \in Needs(i) : x'[k] = x[k]
  BY <1>0, <1>2, NeedsAreLower DEF ThreadContext
<1>6. Taken(Needs(i))' = Taken(Needs(i))
  BY <1>3, <1>5 DEF Taken
<1>7. ~(level'[i] > launch')
  BY DEF ThreadContext
<1> QED
  BY <1>2, <1>3, <1>4, <1>6, <1>7 DEF RowOK

LEMMA EliminateStep ==
  ASSUME NEW i, ThreadContext(i), Shape, RowOK(i), Running(i, "factor"), Eliminate(i)
  PROVE  RowOK(i)' /\ (\A j \in Rows \ {i} : x'[j] = x[j]) /\ todo' = todo /\ Shape'
<1>0. i \in Rows
  BY DEF ThreadContext
<1>1. PICK k \in thread[i].left :
        /\ x' = [x EXCEPT ![i] = @ \cup {<<k, x[k]>>}]
        /\ Step(i, State("start", thread[i].left \ {k}, {}, {}))
  BY DEF Eliminate
<1>2. /\ x'[i] = x[i] \cup {<<k, x[k]>>} /\ (\A j \in Rows \ {i} : x'[j] = x[j])
      /\ x' = [j \in Rows |-> x'[j]]
  BY <1>0, <1>1 DEF Shape
<1>3. thread'[i].left = thread[i].left \ {k} /\ todo' = todo /\ Shape'
  BY <1>0, <1>1, <1>2, StepSets DEF Eliminate, Shape
<1>4. Kernel' = Kernel /\ Kernel = "factor" /\ ~Done(i) /\ ~Done(i)' /\ Needs(i)' = Needs(i)
  BY <1>3, ContextFrame DEF Running, ThreadContext
<1>5. thread[i].left \subseteq Needs(i) /\ Taken(Needs(i) \ thread[i].left) = x[i]
  BY <1>4 DEF RowOK
<1>6. Taken(Needs(i) \ thread'[i].left) = x'[i]
  BY <1>2, <1>3, <1>5 DEF Taken
<1>7. \A j \in Needs(i) : x'[j] = x[j]
  BY <1>0, <1>2, NeedsAreLower DEF ThreadContext
<1>8. Taken(Needs(i) \ thread[i].left)' = x'[i]
  BY <1>4, <1>6, <1>7 DEF Taken
<1>9. ~(level'[i] > launch')
  BY DEF ThreadContext
<1> QED
  BY <1>2, <1>3, <1>4, <1>5, <1>8, <1>9 DEF RowOK

LEMMA RowFactoredStep ==
  ASSUME NEW i, ThreadContext(i), Shape, RowOK(i), Running(i, "factor"), RowFactored(i)
  PROVE  RowOK(i)' /\ x' = x /\ Shape'
<1>0. i \in Rows
  BY DEF ThreadContext
<1>1. thread' = thread /\ x' = x /\ thread[i].left = {} /\ i \notin todo'
  BY <1>0, ExitSets DEF RowFactored, Exit
<1>2. Kernel = "factor" /\ ~Done(i) /\ Done(i)' /\ Needs(i)' = Needs(i)
  BY <1>1, ContextFrame DEF Running
<1>3. x[i] = Taken(Needs(i))
  BY <1>1, <1>2 DEF RowOK
<1>4. Taken(Needs(i))' = Taken(Needs(i))
  BY <1>1, <1>2 DEF Taken
<1>5. ~(level'[i] > launch')
  BY DEF ThreadContext
<1> QED
  BY <1>1, <1>2, <1>3, <1>4, <1>5 DEF RowOK, Shape

LEMMA StepOthers ==
  ASSUME Shape, NEW i \in Rows, NEW t, Step(i, t)
  PROVE  /\ \A j \in Rows \ {i} : thread'[j] = thread[j]
         /\ UNCHANGED <<task, fill, pc, level, launch>>
  BY DEF Shape, Step, analysis

LEMMA ThreadHasContext ==
  ASSUME LevelTypes, \A j \in Rows : Exact(j), SolveInv, NEW i \in Rows, Thread(i)
  PROVE  ThreadContext(i) /\ pc = "solve" /\ pc' = pc /\ todo' \subseteq todo
<1>1. pc = "solve" /\ i \in todo /\ todo' \in {todo, todo \ {i}}
  BY Zenon
  DEF Thread, RowLoad, RowStore, Eliminate, RowFactored, LoadUnknown, StoreUnknown,
      AtomicSubtract, LoadTarget, StoreTarget, ColumnDone, Running, Exit
<1>2. \E t : Step(i, t)
  BY Zenon
  DEF Thread, RowLoad, RowStore, Eliminate, RowFactored, LoadUnknown, StoreUnknown,
      AtomicSubtract, LoadTarget, StoreTarget, ColumnDone
<1>3. /\ \A j \in Rows \ {i} : thread'[j] = thread[j]
      /\ UNCHANGED <<task, fill, pc, level, launch>>
  BY <1>2, StepOthers DEF SolveInv
<1>4. level[i] = launch /\ launch \in Nat
  BY <1>1 DEF SolveInv, Launched
<1> QED
  BY <1>1, <1>3, <1>4 DEF ThreadContext

LEMMA RowWiseStep ==
  ASSUME NEW i, ThreadContext(i), Shape, Kernel # "column", Thread(i),
         \A j \in Rows : RowOK(j)
  PROVE  Shape' /\ \A j \in Rows : RowOK(j)'
<1>0. i \in Rows
  BY DEF ThreadContext
<1>1. RowOK(i)' /\ Shape' /\ \A j \in Rows \ {i} : x'[j] = x[j]
  <2>1. CASE RowLoad(i)
    BY <1>0, <2>1, RowLoadStep DEF RowLoad
  <2>2. CASE RowStore(i)
    BY <1>0, <2>2, RowStoreStep DEF RowStore
  <2>3. CASE Eliminate(i)
    BY <1>0, <2>3, EliminateStep DEF Eliminate
  <2>4. CASE RowFactored(i)
    BY <1>0, <2>4, RowFactoredStep DEF RowFactored
  <2> QED
    BY <2>1, <2>2, <2>3, <2>4
    DEF Thread, LoadUnknown, StoreUnknown, AtomicSubtract, LoadTarget, StoreTarget,
        ColumnDone, Running
<1> QED
  BY <1>1, RowFrame
-----------------------------------------------------------------------------
\* The steps of a column's thread that leave the values as they are, and give nothing.
LEMMA ColumnQuiet ==
  ASSUME NEW i, ThreadContext(i), Shape, \A j \in Rows : SumOK(j) /\ ColumnOK(j),
         x' = x, ColumnOK(i)', \A k \in NeededBy(i) : Gave(i, k)' <=> Gave(i, k)
  PROVE  \A j \in Rows : SumOK(j)' /\ ColumnOK(j)'
<1>1. TAKE j \in Rows
<1>2. \A k \in Rows : \A m \in Needs(k) : Gave(m, k)' <=> Gave(m, k)
  <2> TAKE k \in Rows
  <2> TAKE m \in Needs(k)
  <2>1. m \in Rows /\ k \in NeededBy(m)
    BY DEF Needs, NeededBy
  <2>2. CASE m # i
    BY <2>1, <2>2, ContextFrame DEF Gave, ThreadContext
  <2> QED
    BY <2>1, <2>2
<1>3. SumOK(j)'
  <2>1. Needs(j)' = Needs(j)
    BY ContextFrame
  <2>2. {m \in Needs(j) : Gave(m, j)}' = {m \in Needs(j) : Gave(m, j)}
    BY <1>2, <2>1
  <2>3. Taken({m \in Needs(j) : Gave(m, j)})' = Taken({m \in Needs(j) : Gave(m, j)})
    BY <2>2 DEF Taken
  <2> QED
    BY <2>3 DEF SumOK
<1>4. CASE j # i
  <2>1. /\ thread'[j] = thread[j] /\ (Done(j)' <=> Done(j)) /\ NeededBy(j)' = NeededBy(j)
        /\ Atomic' = Atomic /\ level' = level /\ launch' = launch
    BY <1>4, ContextFrame DEF ThreadContext
  <2>2. ColumnOK(j)
    OBVIOUS
  <2>3. ColumnOK(j)'
    BY <2>1, <2>2 DEF ColumnOK
  <2> QED
    BY <1>3, <2>3
<1> QED
  BY <1>3, <1>4

\* A column subtracts its unknown from one row.
LEMMA ColumnGives ==
  ASSUME NEW i, ThreadContext(i), Shape, Kernel = "column", ~Collision,
         \A j \in Rows : SumOK(j) /\ ColumnOK(j),
         thread[i].at \in {"update", "subtract"}, NEW k \in thread[i].left,
         x' = [x EXCEPT ![k] = x[k] \cup {<<i, thread[i].reg>>}], todo' = todo,
         Step(i, State("update", thread[i].left \ {k}, thread[i].reg, {}))
  PROVE  Shape' /\ \A j \in Rows : SumOK(j)' /\ ColumnOK(j)'
<1> DEFINE given(j) == {m \in Needs(j) : Gave(m, j)}
<1>0. i \in Rows /\ i \in todo /\ level[i] = launch
  BY DEF ThreadContext
<1>1. /\ ~Done(i) /\ ~Done(i)' /\ \A j \in Rows : Done(j)' <=> Done(j)
      /\ \A j : Needs(j)' = Needs(j) /\ NeededBy(j)' = NeededBy(j)
      /\ Atomic' = Atomic /\ level' = level /\ launch' = launch
  BY <1>0, ContextFrame DEF ThreadContext
<1>2. thread[i].left \subseteq NeededBy(i) /\ thread[i].reg = x[i]
  BY <1>0, <1>1 DEF ColumnOK
<1>3. k \in Rows /\ i \in Needs(k) /\ k \in NeededBy(i)
  BY <1>2 DEF NeededBy
<1>4. level[k] > launch /\ level[k] \in Nat /\ launch \in Nat
  BY <1>0, <1>3, NeedsAreLower DEF ThreadContext
<1>5. x'[k] = x[k] \cup {<<i, x[i]>>} /\ (\A j \in Rows \ {k} : x'[j] = x[j])
      /\ x' = [j \in Rows |-> x'[j]]
  BY <1>2, <1>3 DEF Shape
<1>6. /\ thread'[i].at = "update" /\ thread'[i].left = thread[i].left \ {k}
      /\ thread'[i].reg = thread[i].reg
      /\ \A j \in Rows \ {i} : thread'[j] = thread[j]
      /\ Shape'
  BY <1>0, <1>5, StepSets DEF Shape
<1>7. \A j \in Rows : \A m \in given(j) : x'[m] = x[m]
  <2>1. ASSUME NEW j \in Rows, NEW m \in given(j)
        PROVE  m \in Rows /\ m # k
    BY <1>4, <2>1, ContextFrame DEF Needs, Gave
  <2> QED
    BY <1>5, <2>1
<1>8. ASSUME NEW j \in Rows, NEW m \in Needs(j), <<m, j>> # <<i, k>>
      PROVE  Gave(m, j)' <=> Gave(m, j)
  <2>1. m \in Rows
    BY DEF Needs
  <2>2. CASE m # i
    BY <1>1, <1>6, <2>1, <2>2 DEF Gave
  <2>3. CASE m = i
    <3>1. j # k
      BY <1>8, <2>3
    <3> QED
      BY <1>0, <1>1, <1>6, <2>3, <3>1 DEF Gave
  <2> QED
    BY <2>2, <2>3
<1>9. Gave(i, k)'
  BY <1>0, <1>1, <1>6 DEF Gave
<1>10. SumOK(k)'
  <2>1. given(k)' = given(k) \cup {i}
    BY <1>1, <1>3, <1>8, <1>9
  <2>2. i # k /\ x'[i] = x[i]
    BY <1>0, <1>3, <1>4, <1>5
  <2>3. x[k] = Taken(given(k))
    BY <1>3 DEF SumOK
  <2>4. x'[k] = {<<m, x'[m]>> : m \in given(k) \cup {i}}
    BY <1>3, <1>5, <1>7, <2>2, <2>3 DEF Taken
  <2> QED
    BY <2>1, <2>4 DEF SumOK, Taken
<1>11. ASSUME NEW j \in Rows, j # k
       PROVE  SumOK(j)'
  <2>1. given(j)' = given(j)
    BY <1>1, <1>8, <1>11
  <2>2. x[j] = Taken(given(j)) /\ x'[j] = x[j]
    BY <1>5, <1>11 DEF SumOK
  <2>3. x'[j] = {<<m, x'[m]>> : m \in given(j)}
    BY <1>7, <2>2 DEF Taken
  <2> QED
    BY <2>1, <2>3 DEF SumOK, Taken
<1>12. ColumnOK(i)'
  <2>1. x'[i] = x[i]
    BY <1>0, <1>4, <1>5
  <2> QED
    BY <1>0, <1>1, <1>2, <1>6, <2>1 DEF ColumnOK
<1>13. ASSUME NEW j \in Rows, j # i
       PROVE  ColumnOK(j)'
  <2>1. thread'[j] = thread[j] /\ (Done(j)' <=> Done(j)) /\ NeededBy(j)' = NeededBy(j)
    BY <1>1, <1>6, <1>13
  <2>2. level[j] = launch => x'[j] = x[j]
    BY <1>4, <1>5
  \* Without atomics no other running column has this row among those it has left.
  <2>3. ASSUME ~Done(j), thread[j].at = "subtract"
        PROVE  k \notin thread[j].left
    <3>1. ~Atomic /\ level[j] = level[i] /\ thread[j].left \subseteq NeededBy(j)
      BY <1>0, <2>3 DEF ColumnOK
    <3> QED
      BY <1>0, <1>3, <1>13, <3>1 DEF Collision
  <2>4. ASSUME ~Done(j), thread[j].at = "subtract", NEW m, First(m, thread[j].left)
        PROVE  thread[j].old = x'[m]
    <3>1. thread[j].old = x[m] /\ m \in thread[j].left /\ m \in Rows
      BY <2>4 DEF ColumnOK, First, NeededBy
    <3> QED
      BY <1>5, <2>3, <2>4, <3>1
  <2>5. ColumnOK(j)
    OBVIOUS
  <2> QED
    BY <1>1, <2>1, <2>2, <2>4, <2>5 DEF ColumnOK
<1> QED
  BY <1>6, <1>10, <1>11, <1>12, <1>13

\* Whatever a column's thread does, the values and the threads keep their form.
LEMMA ColumnShape ==
  ASSUME NEW i, ThreadContext(i), Shape, Kernel = "column", Thread(i)
  PROVE  Shape'
<1>0. i \in Rows
  BY DEF ThreadContext
<1>1. x' = [j \in Rows |-> x'[j]]
  <2>1. \/ x' = x
        \/ \E k, v : x' = [x EXCEPT ![k] = v]
    BY DEF Thread, RowLoad, RowStore, Eliminate, RowFactored, LoadUnknown, StoreUnknown,
       AtomicSubtract, LoadTarget, StoreTarget, ColumnDone
  <2> QED
    BY <2>1 DEF Shape
<1>2. \/ Step(i, thread[i])
      \/ \E a, l, r, o : Step(i, State(a, l, r, o))
  BY Zenon DEF Thread, RowLoad, RowStore, Eliminate, RowFactored, LoadUnknown, StoreUnknown,
     AtomicSubtract, LoadTarget, StoreTarget, ColumnDone
<1>3. CASE Step(i, thread[i])
  BY <1>0, <1>1, <1>3, ExitSets DEF Shape
<1>4. CASE \E a, l, r, o : Step(i, State(a, l, r, o))
  BY <1>0, <1>1, <1>4, StepSets DEF Shape
<1> QED
  BY <1>2, <1>3, <1>4

LEMMA ColumnWiseStep ==
  ASSUME NEW i, ThreadContext(i), Shape, Kernel = "column", ~Collision, Thread(i),
         \A j \in Rows : SumOK(j) /\ ColumnOK(j)
  PROVE  Shape' /\ \A j \in Rows : SumOK(j)' /\ ColumnOK(j)'
<1>0. i \in Rows /\ i \in todo /\ level[i] = launch /\ ~Done(i) /\ ColumnOK(i)
  BY ContextFrame DEF ThreadContext
<1>1. \A j : NeededBy(j)' = NeededBy(j)
  BY ContextFrame
<1>2. level' = level /\ launch' = launch /\ Atomic' = Atomic /\ (i \in todo' => ~Done(i)')
      /\ (i \notin todo' => Done(i)')
  BY ContextFrame DEF ThreadContext
<1>3. CASE LoadUnknown(i)
  <2>1. /\ x' = x /\ todo' = todo /\ Shape' /\ thread[i].at = "start"
        /\ thread'[i].at = "divided" /\ thread'[i].left = thread[i].left
        /\ thread'[i].reg = x[i]
    BY <1>0, <1>3, StepSets DEF LoadUnknown, Shape
  <2>2. ColumnOK(i)'
    BY <1>0, <1>1, <1>2, <2>1 DEF ColumnOK
  <2>3. \A k \in NeededBy(i) : Gave(i, k)' <=> Gave(i, k)
    BY <1>0, <1>2, <2>1 DEF Gave
  <2> QED
    BY <2>1, <2>2, <2>3, ColumnQuiet
<1>4. CASE StoreUnknown(i)
  <2>1. /\ todo' = todo /\ thread[i].at = "divided" /\ x' = [x EXCEPT ![i] = thread[i].reg]
        /\ thread'[i].at = "update" /\ thread'[i].left = thread[i].left
        /\ thread'[i].reg = thread[i].reg
        /\ thread' = [j \in Rows |-> thread'[j]]
        /\ \A j \in Rows :
              thread'[j] = State(thread'[j].at, thread'[j].left, thread'[j].reg, thread'[j].old)
    BY <1>0, <1>4, StepSets DEF StoreUnknown
  <2>2. thread[i].reg = x[i] /\ thread[i].left = NeededBy(i)
    BY <1>0, <2>1 DEF ColumnOK
  <2>3. x' = x
    BY <1>0, <2>1, <2>2 DEF Shape
  <2>4. Shape'
    BY <2>1, <2>3 DEF Shape
  <2>5. ColumnOK(i)'
    BY <1>0, <1>1, <1>2, <2>1, <2>2, <2>3 DEF ColumnOK
  <2>6. \A k \in NeededBy(i) : Gave(i, k)' <=> Gave(i, k)
    BY <1>0, <1>2, <2>1, <2>2 DEF Gave
  <2> QED
    BY <2>3, <2>4, <2>5, <2>6, ColumnQuiet
<1>5. CASE AtomicSubtract(i)
  <2>1. /\ thread[i].at = "update" /\ todo' = todo
        /\ \E k \in thread[i].left :
             /\ x' = [x EXCEPT ![k] = x[k] \cup {<<i, thread[i].reg>>}]
             /\ Step(i, State("update", thread[i].left \ {k}, thread[i].reg, {}))
    BY <1>5 DEF AtomicSubtract
  <2> QED
    BY <2>1, ColumnGives
<1>6. CASE LoadTarget(i)
  <2>1. PICK k \in thread[i].left :
          /\ First(k, thread[i].left)
          /\ Step(i, State("subtract", thread[i].left, thread[i].reg, x[k]))
    BY <1>6 DEF LoadTarget
  <2>2. /\ x' = x /\ todo' = todo /\ Shape' /\ thread[i].at = "update" /\ ~Atomic
        /\ thread'[i].at = "subtract" /\ thread'[i].left = thread[i].left
        /\ thread'[i].reg = thread[i].reg /\ thread'[i].old = x[k]
    BY <1>0, <1>6, <2>1, StepSets DEF LoadTarget, Shape
  <2>3. \A m : First(m, thread[i].left) => m = k
    <3>1. thread[i].left \subseteq Nat
      BY <1>0 DEF ColumnOK, NeededBy, Rows
    <3> QED
      BY <2>1, <3>1 DEF First
  <2>4. ColumnOK(i)'
    BY <1>0, <1>1, <1>2, <2>2, <2>3 DEF ColumnOK
  <2>5. \A m \in NeededBy(i) : Gave(i, m)' <=> Gave(i, m)
    BY <1>0, <1>2, <2>2 DEF Gave
  <2> QED
    BY <2>2, <2>4, <2>5, ColumnQuiet
<1>7. CASE StoreTarget(i)
  <2>1. PICK k \in thread[i].left :
          /\ First(k, thread[i].left)
          /\ x' = [x EXCEPT ![k] = thread[i].old \cup {<<i, thread[i].reg>>}]
          /\ Step(i, State("update", thread[i].left \ {k}, thread[i].reg, {}))
    BY <1>7 DEF StoreTarget
  <2>2. thread[i].at = "subtract" /\ todo' = todo
    BY <1>7 DEF StoreTarget
  <2>3. thread[i].old = x[k]
    BY <1>0, <2>1, <2>2 DEF ColumnOK
  <2> QED
    BY <2>1, <2>2, <2>3, ColumnGives
<1>8. CASE ColumnDone(i)
  <2>1. thread' = thread /\ x' = x /\ Shape' /\ i \notin todo' /\ thread[i].at = "update"
        /\ thread[i].left = {}
    BY <1>0, <1>8, ExitSets DEF ColumnDone, Exit, Shape
  <2>2. ColumnOK(i)'
    BY <1>2, <2>1 DEF ColumnOK
  <2>3. \A k \in NeededBy(i) : Gave(i, k)' <=> Gave(i, k)
    BY <1>0, <1>2, <2>1 DEF Gave
  <2> QED
    BY <2>1, <2>2, <2>3, ColumnQuiet
<1> QED
  BY <1>3, <1>4, <1>5, <1>6, <1>7, <1>8
  DEF Thread, RowLoad, RowStore, Eliminate, RowFactored, Running
-----------------------------------------------------------------------------
LEMMA ThreadSolves ==
  ASSUME LevelInv, SolveInv, NEW i \in Rows, Thread(i)
  PROVE  SolveInv'
<1>1. LevelTypes /\ (pc = "solve" => \A j \in Rows : Exact(j))
  BY DEF LevelInv, Levelled
<1>2. pc = "solve"
  BY <1>1, ThreadLaunched
<1>3. ThreadContext(i) /\ pc' = pc /\ todo' \subseteq todo
  BY <1>1, <1>2, ThreadHasContext
<1>4. Kernel' = Kernel /\ Collision' = Collision
  BY <1>3, ContextFrame
<1>5. launch' = launch /\ level' = level /\ launch' \in Nat
  BY <1>3 DEF ThreadContext
<1>6. Unsolved' /\ Launched'
  BY <1>2, <1>3, <1>5 DEF SolveInv, Unsolved, Launched
<1>7. Shape'
  <2>1. CASE Kernel # "column"
    BY <1>2, <1>3, <2>1, RowWiseStep DEF SolveInv, RowWise
  <2>2. CASE Kernel = "column"
    BY <1>3, <2>2, ColumnShape DEF SolveInv
  <2> QED
    BY <2>1, <2>2
<1>8. RowWise'
  BY <1>2, <1>3, <1>4, RowWiseStep DEF SolveInv, RowWise
<1>9. ColumnWise'
  BY <1>2, <1>3, <1>4, ColumnWiseStep DEF SolveInv, ColumnWise
<1> QED
  BY <1>5, <1>6, <1>7, <1>8, <1>9 DEF SolveInv

LEMMA GroupSolves ==
  ASSUME LevelInv, SolveInv, Group
  PROVE  SolveInv'
<1>1. /\ pc = "levels" /\ pc' = "solve" /\ todo' = {i \in Rows : level[i] = 0}
      /\ thread' = [i \in Rows |->
           State("start", IF Kernel = "column" THEN NeededBy(i) ELSE Needs(i), {}, {})]
      /\ task' = task /\ fill' = fill /\ level' = level /\ launch' = launch /\ x' = x
  BY DEF Group, analysis
<1>2. launch = 0 /\ (\A i \in Rows : x[i] = {} /\ level[i] \in Nat) /\ Shape
  BY <1>1 DEF LevelInv, LevelTypes, SolveInv, Unsolved
<1>3. \A j : Needs(j)' = Needs(j) /\ NeededBy(j)' = NeededBy(j)
  BY <1>1 DEF Needs, NeededBy, Before
<1>4. Kernel' = Kernel
  BY <1>1 DEF Kernel
<1>5. \A i \in Rows :
        /\ thread'[i] = State("start", IF Kernel = "column" THEN NeededBy(i) ELSE Needs(i), {}, {})
        /\ thread'[i].at = "start" /\ thread'[i].reg = {} /\ thread'[i].old = {}
        /\ thread'[i].left = IF Kernel = "column" THEN NeededBy(i) ELSE Needs(i)
  BY <1>1, StateFields
<1>6. Shape'
  <2>1. \A i \in Rows :
          thread'[i] = State(thread'[i].at, thread'[i].left, thread'[i].reg, thread'[i].old)
    BY <1>5
  <2> QED
    BY <1>1, <1>2, <2>1 DEF Shape
<1>7. Unsolved' /\ Launched'
  BY <1>1, <1>2 DEF Unsolved, Launched
<1>8. \A i \in Rows : ~Done(i)'
  BY <1>1, <1>2 DEF Done
<1>9. ASSUME Kernel # "column", NEW i \in Rows
      PROVE  RowOK(i)'
  <2>1. thread'[i].left = Needs(i)' /\ thread'[i].reg = {} /\ x'[i] = {}
    BY <1>1, <1>2, <1>3, <1>5, <1>9
  <2>2. Taken(Needs(i) \ thread[i].left)' = {}
    BY <2>1 DEF Taken
  <2> QED
    BY <1>8, <2>1, <2>2 DEF RowOK
<1>10. ASSUME Kernel = "column", NEW i \in Rows
       PROVE  SumOK(i)' /\ ColumnOK(i)'
  <2>1. \A m \in Rows : ~Gave(m, i)'
    BY <1>5, <1>8 DEF Gave
  <2>2. {m \in Needs(i) : Gave(m, i)}' = {}
    BY <2>1 DEF Needs
  <2>3. SumOK(i)'
    BY <1>1, <1>2, <2>2 DEF SumOK, Taken
  <2>4. ColumnOK(i)'
    BY <1>3, <1>5, <1>8, <1>10 DEF ColumnOK
  <2> QED
    BY <2>3, <2>4
<1>11. RowWise' /\ ColumnWise'
  BY <1>4, <1>9, <1>10 DEF RowWise, ColumnWise
<1> QED
  BY <1>1, <1>2, <1>6, <1>7, <1>11 DEF SolveInv

LEMMA LaunchSolves ==
  ASSUME N <= BlockSize, LevelInv, SolveInv, NextLaunch
  PROVE  SolveInv'
<1>1. /\ pc = "solve" /\ todo = {} /\ pc' \in {"solve", "done"}
      /\ task' = task /\ fill' = fill /\ level' = level /\ thread' = thread /\ x' = x
  BY DEF NextLaunch, analysis
<1>2. launch \in Nat /\ Shape /\ Launched /\ \A i \in Rows : level[i] \in Nat
  BY DEF LevelInv, LevelTypes, SolveInv
<1>3. \/ pc' = "done" /\ launch' = launch /\ todo' = todo /\ \A i \in Rows : ~(level[i] > launch)
      \/ pc' = "solve" /\ launch' = launch + 1 /\ todo' = {i \in Rows : level[i] = launch'}
  <2>1. \A i \in Rows : i <= BlockSize
    BY SparseAssumption DEF Rows
  <2>2. Reduced = Rows
    BY <2>1 DEF Reduced
  <2> QED
    BY <1>1, <2>2 DEF NextLaunch
<1>4. \A i \in Rows : Done(i)' <=> Done(i)
  BY <1>1, <1>2, <1>3 DEF Done
<1>5. \A j : Needs(j)' = Needs(j) /\ NeededBy(j)' = NeededBy(j)
  BY <1>1 DEF Needs, NeededBy, Before
<1>6. Kernel' = Kernel /\ Atomic' = Atomic /\ Collision' = Collision
  BY <1>1, <1>5 DEF Kernel, Atomic, Collision
<1>7. Shape' /\ Unsolved' /\ launch' \in Nat
  BY <1>1, <1>2, <1>3 DEF Shape, Unsolved
<1>8. Launched'
  <2>1. pc' = "done" => \A i \in Rows : Done(i)
    BY <1>1, <1>2, <1>3 DEF Done
  <2> QED
    BY <1>1, <1>3, <1>4, <2>1 DEF Launched
<1>9. \A i \in Rows : level[i] > launch' => level[i] > launch
  BY <1>2, <1>3
<1>10. \A i \in Rows : Done(i) <=> ~(level[i] > launch)
  BY <1>1, <1>2 DEF Done
<1>11. ASSUME NEW i \in Rows, RowOK(i)
       PROVE  RowOK(i)'
  <2>1. Taken(Needs(i))' = Taken(Needs(i))
    BY <1>1, <1>5 DEF Taken
  <2>2. Taken(Needs(i) \ thread[i].left)' = Taken(Needs(i) \ thread[i].left)
    BY <1>1, <1>5 DEF Taken
  <2> QED
    BY <1>1, <1>4, <1>5, <1>6, <1>9, <1>11, <2>1, <2>2 DEF RowOK
\* The threads of the launches to come have not started.
<1>12. ASSUME NEW i \in Rows, ColumnOK(i), ~Done(i)
       PROVE  thread[i].at = "start"
  BY <1>2, <1>10, <1>12 DEF ColumnOK
<1>13. ASSUME NEW i \in Rows, ColumnOK(i)
       PROVE  ColumnOK(i)' /\ \A k : Gave(i, k)' <=> Gave(i, k)
  <2>1. ColumnOK(i)'
    BY <1>1, <1>4, <1>5, <1>12, <1>13 DEF ColumnOK
  <2>2. \A k : Gave(i, k)' <=> Gave(i, k)
    BY <1>1, <1>4, <1>12, <1>13 DEF Gave
  <2> QED
    BY <2>1, <2>2
<1>14. ASSUME \A j \in Rows : SumOK(j) /\ ColumnOK(j), NEW k \in Rows
       PROVE  SumOK(k)'
  <2>1. {m \in Needs(k) : Gave(m, k)}' = {m \in Needs(k) : Gave(m, k)}
    BY <1>5, <1>13, <1>14 DEF Needs
  <2> QED
    BY <1>1, <1>14, <2>1 DEF SumOK, Taken
<1>15. RowWise'
  BY <1>1, <1>6, <1>11 DEF SolveInv, RowWise
<1>16. ColumnWise'
  BY <1>1, <1>6, <1>13, <1>14 DEF SolveInv, ColumnWise
<1> QED
  BY <1>7, <1>8, <1>15, <1>16 DEF SolveInv

LEMMA SolveStep == N <= BlockSize /\ LevelInv /\ SolveInv /\ [Next]_vars => SolveInv'
<1> SUFFICES ASSUME N <= BlockSize, LevelInv, SolveInv, [Next]_vars PROVE SolveInv'
  OBVIOUS
<1>1. CASE \/ \E k \in Rows : FillFrom(k)
           \/ NextFillRow \/ HostLevel \/ NextPass
           \/ \E i \in Rows : LevelThread(i)
  <2>1. /\ pc \in {"fill", "levels"} /\ pc' \in {"fill", "levels"}
        /\ launch' = launch /\ thread' = thread /\ x' = x
    BY <1>1, Zenon DEF FillFrom, NextFillRow, HostLevel, NextPass, LevelThread
  <2>2. Shape' /\ launch' \in Nat /\ Unsolved' /\ Launched'
    BY <2>1 DEF SolveInv, Shape, Unsolved, Launched
  <2> QED
    BY <2>1, <2>2 DEF SolveInv, RowWise, ColumnWise
<1>2. CASE Group
  BY <1>2, GroupSolves
<1>3. CASE \E i \in Rows : Thread(i)
  BY <1>3, ThreadSolves
<1>4. CASE NextLaunch
  BY <1>4, LaunchSolves
<1>5. CASE UNCHANGED vars
  <2>1. UNCHANGED <<task, fill, pc, todo, level, launch, thread, x>>
    BY <1>5 DEF vars, analysis
  <2>2. \A j : Needs(j)' = Needs(j) /\ NeededBy(j)' = NeededBy(j) /\ (Done(j)' <=> Done(j))
    BY <2>1 DEF Needs, NeededBy, Before, Done
  <2>3. Kernel' = Kernel /\ Atomic' = Atomic /\ Collision' = Collision
    BY <2>1, <2>2 DEF Kernel, Atomic, Collision
  <2>4. Shape' /\ launch' \in Nat /\ Unsolved' /\ Launched'
    BY <2>1, <2>2 DEF SolveInv, Shape, Unsolved, Launched
  <2>5. \A j : RowOK(j)' <=> RowOK(j)
    BY <2>1, <2>2, <2>3 DEF RowOK, Taken
  <2>6. \A j, k : Gave(j, k)' <=> Gave(j, k)
    BY <2>1, <2>2 DEF Gave
  <2>7. \A j : (SumOK(j)' <=> SumOK(j)) /\ (ColumnOK(j)' <=> ColumnOK(j))
    BY <2>1, <2>2, <2>3, <2>6 DEF SumOK, ColumnOK, Taken
  <2> QED
    BY <2>1, <2>3, <2>4, <2>5, <2>7 DEF SolveInv, RowWise, ColumnWise
<1> QED
  BY <1>1, <1>2, <1>3, <1>4, <1>5 DEF Next, Finished

LEMMA SolveInit == Init => SolveInv
<1> SUFFICES ASSUME Init PROVE SolveInv
  OBVIOUS
<1>1. /\ pc \in {"fill", "levels"} /\ launch = 0 /\ x = [i \in Rows |-> {}]
      /\ thread = [i \in Rows |-> State("start", {}, {}, {})]
  BY DEF Init
<1>2. Shape
  BY <1>1, StateFields DEF Shape
<1> QED
  BY <1>1, <1>2 DEF SolveInv, Unsolved, Launched, RowWise, ColumnWise

\* When the levels of all rows are seen, every launch leaves exact rows behind, in
\* whatever order its threads run, as long as no two of them write to one row.
THEOREM SolveInvariant ==
  ASSUME N <= BlockSize
  PROVE  Spec => []SolveInv
<1>1. Init => SolveInv
  BY SolveInit
<1>2. LevelInv /\ SolveInv /\ [Next]_vars => SolveInv'
  BY SolveStep
<1> QED
  BY <1>1, <1>2, LevelInvariant, PTL DEF Spec

\* The result of a solve, or of a factorization, is that of one row after the other.
THEOREM SolveIsExact ==
  ASSUME N <= BlockSize
  PROVE  Spec => []SolveExact
<1>1. SolveInv => SolveExact
  <2> SUFFICES ASSUME SolveInv, pc = "done", ~Collision, NEW i \in Rows
               PROVE  x[i] = Taken(Needs(i))
    BY DEF SolveExact, Solved, Taken
  <2>1. \A j \in Rows : Done(j)
    BY DEF SolveInv, Launched
  <2>2. CASE Kernel # "column"
    BY <2>1, <2>2 DEF SolveInv, RowWise, RowOK
  <2>3. CASE Kernel = "column"
    <3>1. {m \in Needs(i) : Gave(m, i)} = Needs(i)
      BY <2>1 DEF Gave, Needs
    <3> QED
      BY <2>3, <3>1 DEF SolveInv, ColumnWise, SumOK
  <2> QED
    BY <2>2, <2>3
<1> QED
  BY <1>1, SolveInvariant, PTL
-----------------------------------------------------------------------------
(***************************************************************************)
(* The fill of ILU(k)                                                      *)
(***************************************************************************)
\* The matrix's own entries, which are those of level 0, and the ways over them.
Edges == {e \in Rows \X Rows : e[2] \in DOMAIN fill[e[1]] /\ fill[e[1]][e[2]] = 0}

Leads(E, i, j, S) ==
  \A a \in S \cup {i} :
    IF {k \in S : k < a} = {} THEN <<a, j>> \in E
    ELSE \E k \in S : /\ k < a /\ <<a, k>> \in E
                      /\ \A m \in S : m < a => m <= k
Ways(E, i, j) == {S \in SUBSET (1 .. (i - 1)) : j \notin S /\ Leads(E, i, j, S)}

FillTypes ==
  /\ DOMAIN fill = Rows
  /\ \A i \in Rows : DOMAIN fill[i] \subseteq Rows /\ \A j \in DOMAIN fill[i] : fill[i][j] \in Nat

\* Every entry has its level from a way, and every way that is short enough gives
\* its entry at most that level; in the row being eliminated, the ways whose first
\* step has been dealt with.
Sound(i) ==
  \A j \in DOMAIN fill[i] :
    fill[i][j] <= task.maxFill /\ \E S \in Ways(Edges, i, j) : Cardinality(S) = fill[i][j]
Covers(i, j, S) ==
  Cardinality(S) <= task.maxFill => j \in DOMAIN fill[i] /\ fill[i][j] <= Cardinality(S)
FirstStep(S, k) == k \in S /\ \A m \in S : m <= k
Complete(i) == \A j \in Rows : \A S \in Ways(Edges, i, j) : Covers(i, j, S)
CompleteBut(i, left) ==
  \A j \in Rows : \A S \in Ways(Edges, i, j) : (\A k \in left : ~FirstStep(S, k)) => Covers(i, j, S)

Filling ==
  /\ place \in Rows
  /\ \A i \in Rows : i > place => \A j \in DOMAIN fill[i] : fill[i][j] = 0
  /\ \A k \in todo : k \in Rows /\ k < place /\ <<place, k>> \in Edges
  /\ \A i \in Rows : i < place => Complete(i)
  /\ CompleteBut(place, todo)

FillInv ==
  Kernel = "factor" =>
    /\ FillTypes /\ \A i \in Rows : Sound(i)
    /\ IF pc = "fill" THEN Filling ELSE \A i \in Rows : Complete(i)
-----------------------------------------------------------------------------
\* A way of some rows goes to the highest of them first and is a way from there.
LEMMA WayStep ==
  ASSUME NEW E, NEW i \in Nat, NEW j, NEW S \in Ways(E, i, j), S # {}
  PROVE  \E k \in S : /\ k \in Nat /\ k < i /\ <<i, k>> \in E /\ k # j /\ FirstStep(S, k)
                     /\ S \ {k} \in Ways(E, k, j)
<1>1. S \subseteq 1 .. (i - 1) /\ j \notin S /\ Leads(E, i, j, S)
  BY DEF Ways
<1>2. {k \in S : k < i} # {} /\ \A m \in S : m < i /\ m \in Nat /\ m >= 1
  <2>1. \A m \in S : m < i /\ m \in Nat /\ m >= 1
    BY <1>1
  <2>2. PICK m \in S : TRUE
    OBVIOUS
  <2>3. m \in {k \in S : k < i}
    BY <2>1
  <2> QED
    BY <2>1, <2>3
<1>3. PICK k \in S : k < i /\ <<i, k>> \in E /\ \A m \in S : m < i => m <= k
  BY <1>1, <1>2 DEF Leads
<1>4. FirstStep(S, k)
  BY <1>2, <1>3 DEF FirstStep
<1> DEFINE T == S \ {k}
<1>5. T \subseteq 1 .. (k - 1)
  BY <1>2, <1>4 DEF FirstStep
<1>6. ASSUME NEW a \in T \cup {k}
      PROVE  IF {m \in T : m < a} = {} THEN <<a, j>> \in E
             ELSE \E l \in T : l < a /\ <<a, l>> \in E /\ \A m \in T : m < a => m <= l
  <2>1. a \in S /\ a \in Nat /\ a <= k /\ k \in Nat
    BY <1>2, <1>4, <1>6 DEF FirstStep
  <2>2. \A m \in S : m < a => m \in T
    BY <1>2, <2>1
  <2>3. {m \in S : m < a} = {m \in T : m < a}
    BY <2>2
  <2>4. IF {m \in S : m < a} = {} THEN <<a, j>> \in E
        ELSE \E l \in S : l < a /\ <<a, l>> \in E /\ \A m \in S : m < a => m <= l
    BY <1>1, <2>1 DEF Leads
  <2> QED
    BY <2>2, <2>3, <2>4
<1>7. T \in Ways(E, k, j)
  BY <1>1, <1>5, <1>6 DEF Ways, Leads
<1> QED
  BY <1>1, <1>2, <1>3, <1>4, <1>7

\* A way from an entry of the row makes a way of the row.
LEMMA WayFrom ==
  ASSUME NEW E, NEW i \in Nat, NEW k \in 1 .. (i - 1), NEW j, <<i, k>> \in E, k # j,
         NEW T \in Ways(E, k, j)
  PROVE  T \cup {k} \in Ways(E, i, j) /\ k \notin T
<1> DEFINE S == T \cup {k}
<1>1. T \subseteq 1 .. (k - 1) /\ j \notin T /\ Leads(E, k, j, T)
  BY DEF Ways
<1>2. \A m \in T : m \in Nat /\ m >= 1 /\ m < k
  BY <1>1
<1>3. S \subseteq 1 .. (i - 1) /\ j \notin S /\ k \notin T
  BY <1>1, <1>2
<1>4. ASSUME NEW a \in S \cup {i}
      PROVE  IF {m \in S : m < a} = {} THEN <<a, j>> \in E
             ELSE \E l \in S : l < a /\ <<a, l>> \in E /\ \A m \in S : m < a => m <= l
  <2>1. CASE a = i
    <3>1. k \in S /\ k < i /\ <<i, k>> \in E /\ \A m \in S : m <= k
      BY <1>2
    <3> QED
      BY <2>1, <3>1
  <2>2. CASE a # i
    <3>1. a \in T \cup {k} /\ a \in Nat /\ a <= k
      BY <1>2, <1>4, <2>2
    <3>2. \A m \in S : m < a => m \in T
      BY <1>2, <3>1
    <3>3. {m \in S : m < a} = {m \in T : m < a}
      BY <3>2
    <3>4. IF {m \in T : m < a} = {} THEN <<a, j>> \in E
          ELSE \E l \in T : l < a /\ <<a, l>> \in E /\ \A m \in T : m < a => m <= l
      BY <1>1, <3>1 DEF Leads
    <3> QED
      BY <3>2, <3>3, <3>4
  <2> QED
    BY <2>1, <2>2
<1> QED
  BY <1>3, <1>4 DEF Ways, Leads

\* Ways of one row are finite, and shorter by one without their first step.
LEMMA WayLength ==
  ASSUME NEW E, NEW i \in Nat, NEW j, NEW S \in Ways(E, i, j)
  PROVE  /\ IsFiniteSet(S) /\ Cardinality(S) \in Nat
         /\ \A k \in S : Cardinality(S) = Cardinality(S \ {k}) + 1 /\ Cardinality(S \ {k}) \in Nat
         /\ \A k : k \notin S => Cardinality(S \cup {k}) = Cardinality(S) + 1
<1>1. S \subseteq 1 .. (i - 1) /\ i - 1 \in Int
  BY DEF Ways
<1>2. IsFiniteSet(1 .. (i - 1))
  BY <1>1, FS_Interval
<1>3. IsFiniteSet(S)
  BY <1>1, <1>2, FS_Subset
<1>4. Cardinality(S) \in Nat
  BY <1>3, FS_CardinalityType
<1>5. ASSUME NEW k \in S
      PROVE  Cardinality(S) = Cardinality(S \ {k}) + 1 /\ Cardinality(S \ {k}) \in Nat
  <2>1. IsFiniteSet(S \ {k}) /\ Cardinality(S \ {k}) = Cardinality(S) - 1
    BY <1>3, FS_RemoveElement
  <2>2. Cardinality(S \ {k}) \in Nat
    BY <2>1, FS_CardinalityType
  <2> QED
    BY <1>4, <2>1, <2>2
<1>6. ASSUME NEW k, k \notin S PROVE Cardinality(S \cup {k}) = Cardinality(S) + 1
  BY <1>3, <1>6, FS_AddElement
<1> QED
  BY <1>3, <1>4, <1>5, <1>6

\* The direct way is that of an entry of the matrix.
LEMMA DirectWay ==
  ASSUME NEW E, NEW i \in Nat, NEW j
  PROVE  {} \in Ways(E, i, j) <=> <<i, j>> \in E
BY DEF Ways, Leads

\* A matrix of which no entry has been filled in: every entry is a way of its own,
\* and every other way begins with an entry before the diagonal.
LEMMA Untouched ==
  ASSUME FillTypes, LevelTypes, NEW i \in Rows, \A j \in DOMAIN fill[i] : fill[i][j] = 0
  PROVE  Sound(i) /\ CompleteBut(i, Eliminated(i))
<1>1. Cardinality({}) = 0 /\ i \in Nat /\ i >= 1
  BY FS_EmptySet, SparseAssumption DEF Rows
<1>2. task.maxFill \in Nat
  BY SparseAssumption DEF LevelTypes, Task
<1>3. ASSUME NEW j \in DOMAIN fill[i]
      PROVE  fill[i][j] <= task.maxFill /\ \E S \in Ways(Edges, i, j) : Cardinality(S) = fill[i][j]
  <2>1. j \in Rows /\ fill[i][j] = 0
    BY <1>3 DEF FillTypes
  <2>2. <<i, j>> \in Edges
    BY <2>1 DEF Edges
  <2>3. {} \in Ways(Edges, i, j)
    BY <1>1, <2>2, DirectWay
  <2> QED
    BY <1>1, <1>2, <2>1, <2>3
<1>4. ASSUME NEW j \in Rows, NEW S \in Ways(Edges, i, j),
             \A k \in Eliminated(i) : ~FirstStep(S, k)
      PROVE  Covers(i, j, S)
  <2>1. S = {}
    <3> SUFFICES ASSUME S # {} PROVE FALSE
      OBVIOUS
    <3>1. PICK k \in S : k \in Nat /\ k < i /\ <<i, k>> \in Edges /\ FirstStep(S, k)
      BY <1>1, WayStep
    <3>2. k \in Eliminated(i)
      BY <3>1 DEF Edges, Eliminated
    <3> QED
      BY <1>4, <3>1, <3>2
  <2>2. <<i, j>> \in Edges
    BY <1>1, <2>1, DirectWay
  <2> QED
    BY <1>1, <2>1, <2>2 DEF Covers, Edges
<1> QED
  BY <1>3, <1>4 DEF Sound, CompleteBut

\* Nothing is left: every way counts.
LEMMA NothingLeft ==
  ASSUME NEW i, CompleteBut(i, {}) PROVE Complete(i)
BY DEF Complete, CompleteBut
-----------------------------------------------------------------------------
\* Eliminating with one row keeps the matrix's own entries and adds what the ways
\* through that row give.
LEMMA FillFromStep ==
  ASSUME LevelTypes, FillInv, NEW k \in Rows, FillFrom(k)
  PROVE  FillInv'
<1> DEFINE i == place
           old == fill[i]
           new == [j \in DOMAIN fill[k] \ {k} |-> fill[i][k] + fill[k][j] + 1]
           kept == {j \in DOMAIN new : new[j] <= task.maxFill}
           row == [j \in DOMAIN old \cup kept |->
                     IF j \notin kept \/ (j \in DOMAIN old /\ old[j] <= new[j])
                     THEN old[j] ELSE new[j]]
<1>1. /\ pc = "fill" /\ k \in todo /\ todo' = todo \ {k}
      /\ UNCHANGED <<task, pc, place>>
      /\ fill' = [fill EXCEPT ![i] = row]
  BY DEF FillFrom, analysis
<1>2. SUFFICES ASSUME Kernel = "factor"
               PROVE  FillTypes' /\ (\A r \in Rows : Sound(r)') /\ Filling'
  BY <1>1 DEF FillInv, Kernel
<1>3. FillTypes /\ (\A r \in Rows : Sound(r)) /\ Filling
  BY <1>1, <1>2 DEF FillInv
<1>4. i \in Rows /\ i \in Nat /\ k \in Nat /\ k >= 1 /\ k < i /\ <<i, k>> \in Edges /\ k \in 1 .. (i - 1)
  BY <1>1, <1>3, SparseAssumption DEF Filling, Rows
<1>5. task.maxFill \in Nat
  BY SparseAssumption DEF LevelTypes, Task
<1>6. k \in DOMAIN old /\ old[k] = 0
  BY <1>4 DEF Edges
<1>7. /\ DOMAIN new = DOMAIN fill[k] \ {k}
      /\ \A j \in DOMAIN new : new[j] = fill[k][j] + 1 /\ new[j] \in Nat /\ new[j] >= 1 /\ j \in Rows
  BY <1>3, <1>4, <1>6 DEF FillTypes
<1>8. /\ DOMAIN old \subseteq Rows /\ \A j \in DOMAIN old : old[j] \in Nat
      /\ kept \subseteq DOMAIN new
      /\ \A j \in kept : new[j] <= task.maxFill
      /\ \A j \in DOMAIN new : new[j] <= task.maxFill => j \in kept
  BY <1>3, <1>4 DEF FillTypes
<1> HIDE DEF new, kept, old
<1>9. /\ DOMAIN row = DOMAIN old \cup kept
      /\ \A j \in DOMAIN old : row[j] \in Nat /\ row[j] <= old[j]
      /\ \A j \in kept : row[j] \in Nat /\ row[j] <= new[j]
      /\ \A j \in DOMAIN row :
           \/ j \in DOMAIN old /\ row[j] = old[j]
           \/ j \in kept /\ row[j] = new[j]
      /\ \A j \in DOMAIN old : old[j] = 0 => row[j] = 0
  BY <1>7, <1>8
<1>10. \A j \in DOMAIN row : row[j] = 0 => j \in DOMAIN old /\ old[j] = 0
  BY <1>7, <1>8, <1>9
<1> HIDE DEF row
<1>11. /\ DOMAIN fill' = Rows /\ fill'[i] = row
       /\ \A r \in Rows : r # i => fill'[r] = fill[r]
  BY <1>1, <1>3, <1>4 DEF FillTypes
<1>12. FillTypes'
  BY <1>3, <1>7, <1>8, <1>9, <1>11 DEF FillTypes, Rows
<1>13. \A a \in Rows, b \in Rows :
         (b \in DOMAIN fill'[a] /\ fill'[a][b] = 0) <=> (b \in DOMAIN fill[a] /\ fill[a][b] = 0)
  <2> TAKE a \in Rows, b \in Rows
  <2>1. CASE a = i
    BY <1>9, <1>10, <1>11, <2>1 DEF old
  <2>2. CASE a # i
    BY <1>11, <2>2
  <2> QED
    BY <2>1, <2>2
<1>14. Edges' = Edges
  <2>1. \A e \in Rows \X Rows : e[1] \in Rows /\ e[2] \in Rows
    OBVIOUS
  <2> QED
    BY <1>13, <2>1 DEF Edges, Rows
<1>15. Complete(k) /\ Sound(k) /\ Sound(i) /\ CompleteBut(i, todo)
  BY <1>3, <1>4 DEF Filling
\* What is new comes from a way through row k.
<1>16. Sound(i)'
  <2>1. ASSUME NEW j \in DOMAIN row
        PROVE  row[j] <= task.maxFill /\ \E S \in Ways(Edges, i, j) : Cardinality(S) = row[j]
    <3>1. CASE j \in DOMAIN old /\ row[j] = old[j]
      BY <1>15, <3>1 DEF Sound, old
    <3>2. CASE j \in kept /\ row[j] = new[j]
      <4>1. j \in DOMAIN fill[k] /\ j # k /\ row[j] = fill[k][j] + 1 /\ row[j] <= task.maxFill
        BY <1>7, <1>8, <3>2
      <4>2. PICK T \in Ways(Edges, k, j) : Cardinality(T) = fill[k][j]
        BY <1>15, <4>1 DEF Sound
      <4>3. T \cup {k} \in Ways(Edges, i, j) /\ k \notin T
        BY <1>4, <4>1, WayFrom
      <4>4. Cardinality(T \cup {k}) = Cardinality(T) + 1
        BY <1>4, <4>3, WayLength
      <4> QED
        BY <4>1, <4>2, <4>3, <4>4
    <3> QED
      BY <1>9, <3>1, <3>2
  <2> QED
    BY <1>1, <1>11, <1>14, <2>1 DEF Sound
<1>17. \A r \in Rows : Sound(r)'
  <2> SUFFICES ASSUME NEW r \in Rows, r # i PROVE Sound(r)'
    BY <1>1, <1>16
  <2> QED
    BY <1>1, <1>3, <1>11, <1>14 DEF Sound
\* The ways through row k are covered now.
<1>18. CompleteBut(i, todo \ {k})'
  <2> SUFFICES ASSUME NEW j \in Rows, NEW S \in Ways(Edges, i, j),
                      \A l \in todo \ {k} : ~FirstStep(S, l), Cardinality(S) <= task.maxFill
               PROVE  j \in DOMAIN row /\ row[j] <= Cardinality(S)
    BY <1>1, <1>11, <1>14 DEF CompleteBut, Covers, FirstStep, Rows
  <2>0. Cardinality(S) \in Nat
    BY <1>4, WayLength
  <2>1. CASE FirstStep(S, k)
    <3>1. k \in S
      BY <2>1 DEF FirstStep
    <3>2. PICK l \in S : l # j /\ FirstStep(S, l) /\ S \ {l} \in Ways(Edges, l, j) /\ l \in Nat
      BY <1>4, <3>1, WayStep
    <3>3. l = k
      BY <1>4, <2>1, <3>1, <3>2 DEF FirstStep
    <3>4. Cardinality(S) = Cardinality(S \ {k}) + 1 /\ Cardinality(S \ {k}) \in Nat
      BY <1>4, <3>1, WayLength
    <3>5. j \in DOMAIN fill[k] /\ fill[k][j] <= Cardinality(S \ {k})
      <4>1. S \ {k} \in Ways(Edges, k, j)
        BY <3>2, <3>3
      <4>2. Covers(k, j, S \ {k})
        BY <1>15, <4>1 DEF Complete
      <4> QED
        BY <1>5, <3>4, <4>2 DEF Covers
    <3>6. j \in DOMAIN new /\ new[j] <= Cardinality(S)
      <4>1. j # k
        BY <3>2, <3>3
      <4>2. j \in DOMAIN new
        BY <1>7, <3>5, <4>1
      <4>3. new[j] = fill[k][j] + 1 /\ fill[k][j] \in Nat
        BY <1>3, <1>7, <3>5, <4>2 DEF FillTypes
      <4> QED
        BY <3>4, <3>5, <4>2, <4>3
    <3>7. j \in kept
      BY <1>5, <1>7, <1>8, <2>0, <3>6
    <3> QED
      BY <1>7, <1>9, <2>0, <3>6, <3>7
  <2>2. CASE ~FirstStep(S, k)
    <3>1. Covers(i, j, S)
      BY <1>15, <2>2 DEF CompleteBut
    <3>2. j \in DOMAIN old /\ old[j] <= Cardinality(S)
      BY <3>1 DEF Covers, old
    <3> QED
      BY <1>8, <1>9, <2>0, <3>2
  <2> QED
    BY <2>1, <2>2
<1>19. Filling'
  <2>1. \A r \in Rows : r > i => \A j \in DOMAIN fill'[r] : fill'[r][j] = 0
    BY <1>3, <1>4, <1>11 DEF Filling, Rows
  <2>2. \A l \in todo' : l \in Rows /\ l < i /\ <<i, l>> \in Edges'
    BY <1>1, <1>3, <1>14 DEF Filling
  <2>3. ASSUME NEW r \in Rows, r < i PROVE Complete(r)'
    <3>1. Complete(r) /\ r # i
      BY <1>3, <1>4, <2>3 DEF Filling, Rows
    <3> QED
      BY <1>1, <1>11, <1>14, <3>1 DEF Complete, Covers, Rows
  <2>4. CompleteBut(place, todo)'
    BY <1>1, <1>18
  <2> QED
    BY <1>1, <1>4, <2>1, <2>2, <2>3, <2>4 DEF Filling, Rows
<1> QED
  BY <1>12, <1>17, <1>19

\* The next row begins with the rows it has entries for, and none dealt with.
LEMMA NextFillStep ==
  ASSUME LevelTypes, FillInv, NextFillRow
  PROVE  FillInv'
<1>1. pc = "fill" /\ todo = {} /\ task' = task /\ fill' = fill
  BY DEF NextFillRow
<1>2. SUFFICES ASSUME Kernel = "factor" PROVE FillInv'
  BY <1>1 DEF FillInv, Kernel
<1>3. FillTypes /\ (\A r \in Rows : Sound(r)) /\ Filling
  BY <1>1, <1>2 DEF FillInv
<1>4. place \in Rows /\ place \in Nat /\ N \in Nat /\ place <= N
  BY <1>3, SparseAssumption DEF Filling, Rows
<1>5. Edges' = Edges /\ FillTypes' /\ \A r \in Rows : Sound(r)' /\ (Complete(r)' <=> Complete(r))
  <2>1. Edges' = Edges /\ FillTypes'
    BY <1>1, <1>3 DEF Edges, FillTypes, Rows
  <2> QED
    BY <1>1, <1>3, <2>1 DEF Sound, Complete, Covers, Rows
<1>6. ASSUME NEW r \in Rows, r <= place PROVE Complete(r)
  <2>1. CASE r = place
    BY <1>1, <1>3, <2>1, NothingLeft DEF Filling
  <2>2. CASE r # place
    <3>1. r < place
      BY <1>4, <1>6, <2>2 DEF Rows
    <3> QED
      BY <1>3, <3>1 DEF Filling
  <2> QED
    BY <2>1, <2>2
<1>7. CASE place < N
  <2> DEFINE p == place + 1
  <2>1. place' = p /\ todo' = Eliminated(p) /\ pc' = "fill"
    BY <1>1, <1>7 DEF NextFillRow
  <2>2. p \in Rows /\ p > place /\ p \in Nat
    BY <1>4, <1>7 DEF Rows
  <2>3. \A j \in DOMAIN fill[p] : fill[p][j] = 0
    BY <1>3, <2>2 DEF Filling
  <2>4. CompleteBut(p, Eliminated(p))
    BY <1>3, <2>2, <2>3, Untouched
  <2>5. CompleteBut(place, todo)'
    BY <1>1, <1>5, <2>1, <2>4 DEF CompleteBut, Covers, Rows, FirstStep
  <2>6. \A r \in Rows : r > p => \A j \in DOMAIN fill[r] : fill[r][j] = 0
    BY <1>3, <1>4, <2>2 DEF Filling, Rows
  <2>7. \A k \in Eliminated(p) : k \in Rows /\ k < p /\ <<p, k>> \in Edges
    BY <2>2, <2>3 DEF Eliminated, Edges
  <2>8. \A r \in Rows : r < p => Complete(r)'
    BY <1>4, <1>5, <1>6 DEF Rows
  <2>9. Filling'
    BY <1>1, <1>5, <2>1, <2>2, <2>5, <2>6, <2>7, <2>8 DEF Filling, Rows
  <2> QED
    BY <1>5, <2>1, <2>9 DEF FillInv, Rows
<1>8. CASE ~(place < N)
  <2>1. pc' = "levels"
    BY <1>1, <1>8 DEF NextFillRow
  <2>2. \A r \in Rows : r <= place
    BY <1>4, <1>8 DEF Rows
  <2>3. \A r \in Rows : Complete(r)'
    BY <1>5, <1>6, <2>2
  <2> QED
    BY <1>5, <2>1, <2>3 DEF FillInv, Rows
<1> QED
  BY <1>7, <1>8

\* The fill starts with the matrix's own entries, of level 0.
LEMMA FillInit == Init => FillInv
<1> SUFFICES ASSUME Init, Kernel = "factor" PROVE FillInv
  BY DEF FillInv
<1>1. PICK A \in Patterns :
        fill = [i \in Rows |-> [j \in {j \in Rows : <<i, j>> \in A} \cup {i} |-> 0]]
  BY DEF Init
<1>2. /\ DOMAIN fill = Rows
      /\ \A i \in Rows : /\ DOMAIN fill[i] \subseteq Rows
                        /\ \A j \in DOMAIN fill[i] : fill[i][j] = 0
  BY <1>1
<1>3. FillTypes
  BY <1>2 DEF FillTypes
<1>4. LevelTypes
  BY LevelInit DEF LevelInv
<1>5. \A i \in Rows : Sound(i) /\ CompleteBut(i, Eliminated(i))
  BY <1>2, <1>3, <1>4, Untouched
<1>6. pc = "fill" /\ place = 1 /\ todo = {}
  BY DEF Init
<1>7. 1 \in Rows /\ \A i \in Rows : ~(i < 1)
  BY SparseAssumption DEF Rows
<1>8. Eliminated(1) = {}
  BY <1>7 DEF Eliminated
<1>9. CompleteBut(place, todo)
  BY <1>5, <1>6, <1>7, <1>8
<1>10. Filling
  BY <1>2, <1>6, <1>7, <1>9 DEF Filling
<1> QED
  BY <1>3, <1>5, <1>6, <1>10 DEF FillInv

\* Once it is found the fill stays.
LEMMA FillKept ==
  ASSUME FillInv, UNCHANGED <<task, fill>>, pc # "fill", pc' # "fill"
  PROVE  FillInv'
<1>1. Edges' = Edges /\ (Kernel' = Kernel)
  BY DEF Edges, Rows, Kernel
<1> QED
  BY <1>1 DEF FillInv, FillTypes, Sound, Complete, Covers, Rows

LEMMA FillInvStep == LevelInv /\ FillInv /\ [Next]_vars => FillInv'
<1> SUFFICES ASSUME LevelInv, FillInv, [Next]_vars PROVE FillInv'
  OBVIOUS
<1>1. LevelTypes
  BY DEF LevelInv
<1>2. CASE \E k \in Rows : FillFrom(k)
  BY <1>1, <1>2, FillFromStep
<1>3. CASE NextFillRow
  BY <1>1, <1>3, NextFillStep
<1>4. CASE HostLevel \/ NextPass \/ \E i \in Rows : LevelThread(i)
  <2>1. pc = "levels" /\ pc' = pc /\ UNCHANGED <<task, fill>>
    BY <1>4 DEF HostLevel, NextPass, LevelThread
  <2> QED
    BY <2>1, FillKept
<1>5. CASE Group \/ NextLaunch
  <2>1. pc # "fill" /\ pc' # "fill" /\ UNCHANGED <<task, fill>>
    BY <1>5 DEF Group, NextLaunch
  <2> QED
    BY <2>1, FillKept
<1>6. CASE \E i \in Rows : Thread(i)
  <2>1. pc = "solve" /\ pc' = pc /\ UNCHANGED <<task, fill>>
    BY <1>1, <1>6, ThreadLaunched
  <2> QED
    BY <2>1, FillKept
<1>7. CASE UNCHANGED vars
  <2>1. UNCHANGED <<task, fill, pc, place, todo>>
    BY <1>7 DEF vars, analysis
  <2>2. Edges' = Edges /\ Kernel' = Kernel
    BY <2>1 DEF Edges, Rows, Kernel
  <2> QED
    BY <2>1, <2>2 DEF FillInv, FillTypes, Sound, Filling, Complete, CompleteBut, Covers,
       FirstStep, Rows
<1> QED
  BY <1>2, <1>3, <1>4, <1>5, <1>6, <1>7 DEF Next, Finished

\* The inductive invariant of the fill: the rows behind the loop have exactly the
\* entries, and the levels, that the ways over the matrix's own entries give which go
\* to an earlier row with each step until the last.
THEOREM FillInvariant == Spec => []FillInv
<1> QED
  BY FillInit, FillInvStep, LevelInvariant, PTL DEF Spec

\* ILU(k): for every matrix and limit, and whatever the order a row's eliminations
\* come in, the level of an entry that is not the matrix's own is one of the sums of
\* which the documented level is the least, and at most each of those sums that begins
\* with an entry of the matrix: for limits up to 1, the documented level.
THEOREM FillLevelsHold == Spec => []FillLevels
<1>1. LevelInv /\ FillInv => FillLevels
  <2> SUFFICES ASSUME LevelInv, FillInv, Kernel = "factor", pc # "fill",
                      NEW i \in Rows, NEW j \in Rows, i # j
               PROVE
          /\ j \in DOMAIN fill[i] /\ fill[i][j] > 0 =>
               /\ fill[i][j] <= task.maxFill
               /\ \E k \in Through(i, j) : fill[i][j] = LevelThrough(i, j, k)
          /\ \A k \in Through(i, j) :
               fill[i][k] = 0 /\ LevelThrough(i, j, k) <= task.maxFill =>
                 j \in DOMAIN fill[i] /\ fill[i][j] <= LevelThrough(i, j, k)
    BY DEF FillLevels
  <2>1. /\ FillTypes /\ task.maxFill \in Nat /\ i \in Nat /\ \A k \in 1 .. (i - 1) : k \in Rows /\ k < i
        /\ \A k \in Rows : Sound(k) /\ Complete(k) /\ k \in Nat
    BY SparseAssumption DEF LevelInv, LevelTypes, Task, FillInv, Rows
  <2>2. ASSUME NEW k \in Through(i, j), fill[i][k] = 0, LevelThrough(i, j, k) <= task.maxFill
        PROVE  j \in DOMAIN fill[i] /\ fill[i][j] <= LevelThrough(i, j, k)
    <3>1. /\ k \in 1 .. (i - 1) /\ k \in Rows /\ k \in DOMAIN fill[i] /\ j \in DOMAIN fill[k]
          /\ <<i, k>> \in Edges /\ fill[k][j] \in Nat
      BY <2>1, <2>2 DEF Through, Edges, FillTypes
    <3>2. CASE k = j
      BY <2>2, <3>1, <3>2 DEF LevelThrough
    <3>3. CASE k # j
      <4>1. PICK T \in Ways(Edges, k, j) : Cardinality(T) = fill[k][j]
        BY <2>1, <3>1 DEF Sound
      <4>2. T \cup {k} \in Ways(Edges, i, j) /\ k \notin T
        BY <2>1, <3>1, <3>3, <4>1, WayFrom
      <4>3. Cardinality(T \cup {k}) = fill[k][j] + 1
        BY <2>1, <3>1, <4>1, <4>2, WayLength
      <4>4. Covers(i, j, T \cup {k})
        BY <2>1, <4>2 DEF Complete
      <4> QED
        BY <2>2, <3>1, <4>3, <4>4 DEF Covers, LevelThrough
    <3> QED
      BY <3>2, <3>3
  <2>3. ASSUME j \in DOMAIN fill[i], fill[i][j] > 0
        PROVE  /\ fill[i][j] <= task.maxFill
               /\ \E k \in Through(i, j) : fill[i][j] = LevelThrough(i, j, k)
    <3>1. PICK S \in Ways(Edges, i, j) : Cardinality(S) = fill[i][j] /\ fill[i][j] <= task.maxFill
      BY <2>1, <2>3 DEF Sound
    <3>2. S # {} /\ fill[i][j] \in Nat
      BY <2>1, <2>3, <3>1, FS_EmptySet DEF FillTypes
    <3>3. PICK k \in S : /\ k \in Nat /\ k < i /\ <<i, k>> \in Edges
                         /\ S \ {k} \in Ways(Edges, k, j)
      BY <2>1, <3>1, <3>2, WayStep
    <3>4. k \in 1 .. (i - 1) /\ k \in Rows /\ k \in DOMAIN fill[i] /\ fill[i][k] = 0
      BY <2>1, <3>1, <3>3 DEF Edges, Ways
    <3>5. Cardinality(S) = Cardinality(S \ {k}) + 1 /\ Cardinality(S \ {k}) \in Nat
      BY <2>1, <3>1, <3>3, WayLength
    <3>6. Covers(k, j, S \ {k})
      BY <2>1, <3>3, <3>4 DEF Complete
    <3>7. j \in DOMAIN fill[k] /\ fill[k][j] + 1 <= fill[i][j] /\ fill[k][j] \in Nat
      BY <2>1, <3>1, <3>2, <3>4, <3>5, <3>6 DEF Covers, FillTypes
    <3>8. k \in Through(i, j) /\ LevelThrough(i, j, k) = fill[k][j] + 1
      BY <3>4, <3>7 DEF Through, LevelThrough
    <3>9. fill[i][j] <= fill[k][j] + 1
      BY <2>2, <3>1, <3>2, <3>4, <3>7, <3>8, <2>1
    <3> QED
      BY <3>1, <3>2, <3>7, <3>8, <3>9
  <2> QED
    BY <2>2, <2>3
<1> QED
  BY <1>1, FillInvariant, LevelInvariant, PTL
=============================================================================
