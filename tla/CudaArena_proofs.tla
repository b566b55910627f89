-------------------------- MODULE CudaArena_proofs --------------------------
(***************************************************************************)
(* The arena of a capture session never aliases, for every alignment,      *)
(* arena size and request size. The invariants about the issued regions    *)
(* are not inductive alone: IInv adds that every region ends at or below   *)
(* the high-water mark, and that the mark itself is aligned and within the *)
(* buffer.                                                                 *)
(***************************************************************************)
EXTENDS CudaArena, TLAPS

IInv ==
  /\ TypeOK
  /\ arena.highWater <= arena.size
  /\ arena.highWater % Align = 0
  /\ \A i \in 1 .. Len(issued) : issued[i][1] + issued[i][2] <= arena.highWater
  /\ IssuedDisjoint
  /\ IssuedInBounds
-----------------------------------------------------------------------------
\* A sum of two multiples of Align is one.
LEMMA AlignedSum ==
  ASSUME NEW a \in Nat, NEW b \in Nat, a % Align = 0, b % Align = 0
  PROVE  (a + b) % Align = 0
<1> DEFINE x == a \div Align
           y == b \div Align
<1>1. x \in Nat /\ y \in Nat /\ a = Align * x /\ b = Align * y
  BY AlignAssumption
<1>2. a + b = Align * (x + y) + 0
  <2>1. \A p, q, r \in Nat : p * q + p * r = p * (q + r)
    OBVIOUS
  <2>2. Align * x + Align * y = Align * (x + y)
    BY <1>1, <2>1, AlignAssumption, ZenonT(60)
  <2> QED
    BY <1>1, <2>2, AlignAssumption
<1> HIDE DEF x, y
<1>3. QED
  BY <1>1, <1>2, AlignAssumption

\* align_up of a positive number is a positive multiple of the alignment.
LEMMA FootprintAligned ==
  ASSUME NEW n \in Nat
  PROVE  /\ Footprint(n) \in Nat \ {0}
         /\ Footprint(n) % Align = 0
BY AlignAssumption DEF Footprint, AlignUp
-----------------------------------------------------------------------------
\* A new arena has issued nothing and its high-water mark is 0.
LEMMA InitIInv == Init => IInv
<1> SUFFICES ASSUME Init PROVE IInv
  OBVIOUS
<1>1. PICK size \in 0 .. MaxSize : arena = NewArena(0, size)
  BY DEF Init
<1>2. issued = <<>> /\ issued \in Seq(Region) /\ Len(issued) = 0
  BY DEF Init
<1>3. arena.size \in Nat /\ arena.highWater = 0 /\ TypeOK
  BY <1>1, <1>2, MaxSizeAssumption DEF NewArena, TypeOK
<1>4. 0 % Align = 0
  BY AlignAssumption
<1> QED
  BY <1>2, <1>3, <1>4 DEF IInv, IssuedDisjoint, IssuedInBounds

\* An allocation appends one region that starts where all earlier ones end.
LEMMA AllocateIInv ==
  ASSUME IInv, NEW n \in Nat, Allocate(n)
  PROVE  IInv'
<1> DEFINE len == Footprint(n)
           region == <<arena.highWater, len>>
<1>1. len \in Nat \ {0} /\ len % Align = 0
  BY FootprintAligned
<1>2. /\ arena.highWater \in Nat /\ arena.size \in Nat
      /\ issued \in Seq(Region) /\ region \in Region
  BY <1>1 DEF IInv, TypeOK, Region
<1>3. /\ issued' = Append(issued, region)
      /\ arena.highWater + len <= arena.size
      /\ arena' = [arena EXCEPT !.highWater = @ + len, !.live = @ \cup {region}]
  BY DEF Allocate, ArenaFits, ArenaAllocate
<1>4. /\ arena' \in [base : {0}, size : Nat, highWater : Nat, live : SUBSET Region]
      /\ arena'.highWater = arena.highWater + len
      /\ arena'.size = arena.size
  <2> HIDE DEF len, region
  <2> DEFINE mid == [arena EXCEPT !.highWater = @ + len]
  <2>1. /\ mid \in [base : {0}, size : Nat, highWater : Nat, live : SUBSET Region]
        /\ mid.highWater = arena.highWater + len
        /\ mid.size = arena.size
        /\ mid.live = arena.live
    BY <1>1, <1>2 DEF IInv, TypeOK
  <2>2. arena' = [mid EXCEPT !.live = @ \cup {region}]
    BY <1>3
  <2> HIDE DEF mid
  <2>3. mid.live \cup {region} \in SUBSET Region
    BY <2>1, <1>2
  <2> QED
    BY <2>1, <2>2, <2>3
<1>5. /\ issued' \in Seq(Region)
      /\ Len(issued') = Len(issued) + 1
      /\ issued'[Len(issued) + 1] = region
      /\ \A i \in 1 .. Len(issued) : issued'[i] = issued[i]
  BY <1>2, <1>3
<1>6. \A i \in 1 .. Len(issued) : issued[i][1] \in Nat /\ issued[i][2] \in Nat
  <2>1. \A i \in 1 .. Len(issued) : issued[i] \in Region
    BY <1>2
  <2> QED
    BY <2>1 DEF Region
<1>a. /\ issued'[Len(issued) + 1][1] = arena.highWater
      /\ issued'[Len(issued) + 1][2] = len
  BY <1>5
<1> HIDE DEF len, region
<1>7. TypeOK'
  BY <1>4, <1>5 DEF TypeOK
<1>8. arena'.highWater % Align = 0
  BY <1>1, <1>2, <1>4, AlignedSum, ZenonT(60) DEF IInv
<1>9. \A i \in 1 .. Len(issued') : issued'[i][1] + issued'[i][2] <= arena'.highWater
  <2> SUFFICES ASSUME NEW i \in 1 .. Len(issued')
               PROVE  issued'[i][1] + issued'[i][2] <= arena'.highWater
    OBVIOUS
  <2>1. CASE i = Len(issued) + 1
    BY <1>1, <1>2, <1>4, <1>a, <2>1
  <2>2. CASE i \in 1 .. Len(issued)
    <3>1. issued[i][1] + issued[i][2] <= arena.highWater
      BY <2>2 DEF IInv
    <3>2. issued'[i] = issued[i] /\ issued[i][1] \in Nat /\ issued[i][2] \in Nat
      BY <1>5, <1>6, <2>2
    <3> QED
      BY <1>1, <1>2, <1>4, <3>1, <3>2, SMTT(30)
  <2> QED
    BY <1>2, <1>5, <2>1, <2>2
<1>10. IssuedDisjoint'
  <2> SUFFICES ASSUME NEW i \in 1 .. Len(issued'), NEW j \in 1 .. Len(issued'), i < j
               PROVE  issued'[i][1] + issued'[i][2] <= issued'[j][1]
    BY DEF IssuedDisjoint
  <2>1. i \in 1 .. Len(issued) /\ (j \in 1 .. Len(issued) \/ j = Len(issued) + 1)
    BY <1>2, <1>5
  <2>2. CASE j = Len(issued) + 1
    BY <1>2, <1>5, <1>a, <2>1, <2>2 DEF IInv
  <2>3. CASE j \in 1 .. Len(issued)
    BY <1>5, <2>1, <2>3 DEF IInv, IssuedDisjoint
  <2> QED
    BY <2>1, <2>2, <2>3
<1>11. IssuedInBounds'
  <2>1. ASSUME NEW i \in 1 .. Len(issued')
        PROVE  issued'[i][1] % Align = 0
    <3>1. CASE i \in 1 .. Len(issued)
      BY <1>5, <3>1 DEF IInv, IssuedInBounds
    <3>2. CASE i = Len(issued) + 1
      BY <1>a, <3>2 DEF IInv
    <3> QED
      BY <1>2, <1>5, <2>1, <3>1, <3>2
  <2>2. ASSUME NEW i \in 1 .. Len(issued')
        PROVE  issued'[i][1] + issued'[i][2] <= arena'.size
    <3>1. issued'[i][1] \in Nat /\ issued'[i][2] \in Nat
      BY <1>1, <1>2, <1>5, <1>6, <1>a
    <3> QED
      BY <1>1, <1>2, <1>3, <1>4, <1>9, <3>1, SMTT(30)
  <2> QED
    BY <2>1, <2>2 DEF IssuedInBounds
<1> QED
  BY <1>1, <1>2, <1>3, <1>4, <1>7, <1>8, <1>9, <1>10, <1>11 DEF IInv

\* A free only edits live_regions.
LEMMA DeallocateIInv ==
  ASSUME IInv, NEW off \in Nat, Deallocate(off)
  PROVE  IInv'
<1>1. /\ arena' = [arena EXCEPT !.live = {r \in @ : r[1] # off}]
      /\ issued' = issued
  BY DEF Deallocate, ArenaDeallocate
<1>2. /\ arena'.highWater = arena.highWater
      /\ arena'.size = arena.size
      /\ TypeOK'
  BY <1>1 DEF IInv, TypeOK
<1> QED
  BY <1>1, <1>2 DEF IInv, IssuedDisjoint, IssuedInBounds

\* IInv holds in every reachable state, for every alignment and every size.
THEOREM ArenaInvariant == Spec => []IInv
<1>1. IInv /\ [Next]_vars => IInv'
  <2> SUFFICES ASSUME IInv, [Next]_vars PROVE IInv'
    OBVIOUS
  <2>1. ASSUME NEW n \in 0 .. MaxSize, Allocate(n) PROVE IInv'
    BY <2>1, AllocateIInv, MaxSizeAssumption
  <2>2. ASSUME NEW off \in 0 .. MaxSize, Deallocate(off) PROVE IInv'
    BY <2>2, DeallocateIInv, MaxSizeAssumption
  <2>3. CASE UNCHANGED vars
    BY <2>3 DEF vars, IInv, TypeOK, IssuedDisjoint, IssuedInBounds
  <2> QED
    BY <2>1, <2>2, <2>3 DEF Next
<1> QED
  BY InitIInv, <1>1, PTL DEF Spec

\* No two regions issued during one capture session overlap, however requests
\* and frees interleave (arena.rs's reason for never rewinding high_water).
THEOREM ArenaNeverAliases == Spec => []IssuedDisjoint
<1>1. IInv => IssuedDisjoint
  BY DEF IInv
<1> QED
  BY ArenaInvariant, <1>1, PTL

\* Every issued region is aligned and lies inside the arena's device buffer.
THEOREM ArenaInBounds == Spec => []IssuedInBounds
<1>1. IInv => IssuedInBounds
  BY DEF IInv
<1> QED
  BY ArenaInvariant, <1>1, PTL
=============================================================================
