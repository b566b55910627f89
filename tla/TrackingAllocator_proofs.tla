---------------------- MODULE TrackingAllocator_proofs ----------------------
(***************************************************************************)
(* For every set of sizes, 0 among them or not, the tracking allocator     *)
(* never counts fewer live allocations than there are, so that reset is    *)
(* refused while anything is in use, and every address has one owner. When *)
(* 0 is not a size, the counters are exact.                                *)
(***************************************************************************)
EXTENDS TrackingAllocator, FiniteSetTheorems, TLAPS

\* No buffer in use is missing from the count that reset looks at.
NeverUndercounts == Cardinality(Holders) <= activeAllocations

IInv == TypeOK /\ InnerIsOwned /\ NeverUndercounts

USE DEF counters
-----------------------------------------------------------------------------
\* The holders are finitely many, so that counting them makes sense.
LEMMA HoldersFinite ==
  ASSUME TypeOK
  PROVE  IsFiniteSet(Holders) /\ Cardinality(Holders) \in Nat
<1>1. Holders \in SUBSET Owners
  BY DEF Holders, Alive
<1>2. IsFiniteSet(Owners)
  BY TrackingAssumption
<1> QED
  BY <1>1, <1>2, FS_Subset, FS_CardinalityType

\* A new TrackingAllocator counts nothing and owns nothing.
LEMMA InitIInv == Init => IInv
<1> SUFFICES ASSUME Init PROVE IInv
  OBVIOUS
<1>1. TypeOK
  <2>1. owner \in [Owners -> Owned \cup {NoOwner}]
    BY DEF Init
  <2>2. 0 \in 0 .. 0 /\ 0 \in 0 .. MaxAllocations
    BY TrackingAssumption
  <2> QED
    BY <2>1, <2>2 DEF Init, TypeOK
<1>2. Holders = {}
  BY DEF Init, Holders, Alive
<1>3. InnerIsOwned /\ NeverUndercounts
  BY <1>2, FS_EmptySet DEF Init, InnerIsOwned, NeverUndercounts
<1> QED
  BY <1>1, <1>3 DEF IInv

\* A new owner takes an address that is not in use and is counted once.
LEMMA AllocateIInv ==
  ASSUME IInv, NEW o \in Owners, NEW n \in Sizes, NEW kind \in {"guard", "storage"},
         Allocate(o, n, kind)
  PROVE  IInv'
<1> USE DEF IInv
<1>1. PICK p \in InnerAnswers(n) :
        /\ inner' = inner \cup ({p} \ {Null})
        /\ owner' = [owner EXCEPT ![o] = [kind |-> kind, ptr |-> p, size |-> n]]
  BY DEF Allocate
<1>2. p \in (Ptrs \ inner) \cup {Null}
  BY DEF InnerAnswers
<1>3. owner[o] = NoOwner /\ o \notin Holders
  BY DEF Allocate, Holders, Alive
<1>4. [kind |-> kind, ptr |-> p, size |-> n] \in Owned
  BY <1>2 DEF Owned
<1>5. n \in Nat
  BY TrackingAssumption
<1>6. TypeOK'
  <2>1. inner' \in SUBSET Ptrs /\ owner' \in [Owners -> Owned \cup {NoOwner}] /\ frozen' \in BOOLEAN
    BY <1>1, <1>2, <1>4 DEF TypeOK, Allocate
  <2>2. /\ totalAllocations' \in 0 .. MaxAllocations /\ totalBytes' \in Nat
        /\ activeAllocations' \in 0 .. totalAllocations'
        /\ activeBytes' \in 0 .. totalBytes' /\ peakUsage' \in 0 .. totalBytes'
    BY <1>5, TrackingAssumption DEF TypeOK, Allocate, Larger
  <2> QED
    BY <2>1, <2>2 DEF TypeOK
<1>7. \A q \in Owners \ {o} : owner'[q] = owner[q]
  BY <1>1 DEF TypeOK
<1>8. owner'[o] = [kind |-> kind, ptr |-> p, size |-> n]
  BY <1>1 DEF TypeOK
<1>9. owner'[o] # NoOwner
  BY <1>8, <1>4, TrackingAssumption DEF Owned
<1>10. CASE p = Null
  <2>1. Holders' = Holders
    BY <1>3, <1>7, <1>8, <1>10 DEF Holders, Alive
  <2>2. inner' = inner
    BY <1>1, <1>10
  <2>3. \A q \in Holders : owner'[q] = owner[q]
    BY <1>3, <1>7 DEF Holders, Alive
  <2>4. InnerIsOwned'
    BY <2>1, <2>2, <2>3 DEF InnerIsOwned
  <2>5. NeverUndercounts'
    BY <2>1, HoldersFinite DEF NeverUndercounts, Allocate, TypeOK
  <2> QED
    BY <1>6, <2>4, <2>5
<1>11. CASE p # Null
  <2>1. Holders' = Holders \cup {o}
    BY <1>3, <1>7, <1>8, <1>9, <1>11 DEF Holders, Alive
  <2>2. inner' = inner \cup {p} /\ p \notin inner
    BY <1>1, <1>2, <1>11
  <2>3. \A q \in Holders : owner'[q] = owner[q]
    BY <1>3, <1>7 DEF Holders, Alive
  <2>4. owner'[o].ptr = p
    BY <1>8
  <2>5. {owner'[q].ptr : q \in Holders'} = {owner[q].ptr : q \in Holders} \cup {p}
    BY <2>1, <2>3, <2>4
  <2>6. \A q \in Holders : owner[q].ptr # p
    BY <2>2 DEF InnerIsOwned
  <2>7. InnerIsOwned'
    BY <2>1, <2>2, <2>3, <2>4, <2>5, <2>6 DEF InnerIsOwned
  <2>8. NeverUndercounts'
    <3>1. Cardinality(Holders') = Cardinality(Holders) + 1
      BY <2>1, <1>3, HoldersFinite, FS_AddElement
    <3> QED
      BY <3>1, HoldersFinite DEF NeverUndercounts, Allocate, TypeOK
  <2> QED
    BY <1>6, <2>7, <2>8
<1> QED
  BY <1>10, <1>11

\* Release changes who is responsible for the address and nothing else.
LEMMA ReleaseIInv ==
  ASSUME IInv, NEW o \in Owners, Release(o)
  PROVE  IInv'
<1> USE DEF IInv
<1>1. owner[o] \in Owned
  BY DEF Release, TypeOK
<1>2. owner' = [owner EXCEPT ![o] = [owner[o] EXCEPT !.kind = "storage"]]
  BY DEF Release
<1>3. [owner[o] EXCEPT !.kind = "storage"] \in Owned
  BY <1>1 DEF Owned
<1>4. TypeOK'
  BY <1>2, <1>3 DEF Release, TypeOK
<1>5. \A q \in Owners : owner[q] # NoOwner =>
        owner'[q] # NoOwner /\ owner'[q].ptr = owner[q].ptr
  <2> TAKE q \in Owners
  <2>1. CASE q = o
    BY <2>1, <1>1, <1>2, <1>3, TrackingAssumption DEF Owned, TypeOK
  <2>2. CASE q # o
    BY <2>2, <1>2 DEF TypeOK
  <2> QED
    BY <2>1, <2>2
<1>6. \A q \in Owners : owner[q] = NoOwner => owner'[q] = NoOwner
  BY <1>2 DEF TypeOK, Release
<1>7. Holders' = Holders /\ \A q \in Holders : owner'[q].ptr = owner[q].ptr
  BY <1>5, <1>6 DEF Holders, Alive
<1>8. inner' = inner /\ activeAllocations' = activeAllocations
  BY DEF Release
<1>9. {owner'[q].ptr : q \in Holders'} = {owner[q].ptr : q \in Holders}
  BY <1>7
<1> QED
  BY <1>4, <1>7, <1>8, <1>9 DEF InnerIsOwned, NeverUndercounts

\* A drop takes one holder and its address away, or neither.
LEMMA DropIInv ==
  ASSUME IInv, NEW o \in Owners, Drop(o)
  PROVE  IInv'
<1> USE DEF IInv
<1>1. owner' = [owner EXCEPT ![o] = NoOwner]
  BY DEF Drop
<1>2. owner[o] \in Owned /\ o \in Alive /\ owner[o].size \in Nat
  BY TrackingAssumption DEF Drop, TypeOK, Alive, Owned
<1>3. owner'[o] = NoOwner /\ \A q \in Owners \ {o} : owner'[q] = owner[q]
  BY <1>1 DEF TypeOK
<1>4. Holders' = Holders \ {o} /\ \A q \in Holders' : owner'[q] = owner[q]
  BY <1>3 DEF Holders, Alive
<1>5. CASE owner[o].ptr = Null
  <2>1. o \notin Holders /\ UNCHANGED <<inner, counters, frozen>>
    BY <1>5 DEF Holders, Drop
  <2>2. Holders' = Holders
    BY <2>1, <1>4
  <2>3. TypeOK'
    BY <2>1, <1>1 DEF TypeOK
  <2>4. InnerIsOwned' /\ NeverUndercounts'
    BY <2>1, <2>2, <1>4 DEF InnerIsOwned, NeverUndercounts
  <2> QED
    BY <2>3, <2>4
<1>6. CASE owner[o].ptr # Null
  <2>1. Deallocate(owner[o].ptr, owner[o].size) /\ o \in Holders /\ frozen' = frozen
    BY <1>2, <1>6 DEF Drop, Holders
  <2>2. inner' = inner \ {owner[o].ptr}
    BY <2>1 DEF Deallocate
  <2>3. TypeOK'
    <3>1. inner' \in SUBSET Ptrs /\ owner' \in [Owners -> Owned \cup {NoOwner}] /\ frozen' \in BOOLEAN
      BY <2>1, <2>2, <1>1 DEF TypeOK
    <3>2. /\ totalAllocations' \in 0 .. MaxAllocations /\ totalBytes' \in Nat
          /\ activeAllocations' \in 0 .. totalAllocations'
          /\ activeBytes' \in 0 .. totalBytes' /\ peakUsage' \in 0 .. totalBytes'
      BY <2>1, <1>2, TrackingAssumption DEF Deallocate, SaturatingSub, TypeOK
    <3> QED
      BY <3>1, <3>2 DEF TypeOK
  <2>4. InnerIsOwned'
    <3>1. {owner'[q].ptr : q \in Holders'} = {owner[q].ptr : q \in Holders \ {o}}
      BY <1>4
    <3>2. \A q \in Holders \ {o} : owner[q].ptr # owner[o].ptr
      BY <2>1 DEF InnerIsOwned
    <3>3. inner' = {owner[q].ptr : q \in Holders \ {o}}
      BY <2>1, <2>2, <3>2 DEF InnerIsOwned
    <3>4. \A q, r \in Holders' : owner'[q].ptr = owner'[r].ptr => q = r
      BY <1>4 DEF InnerIsOwned
    <3> QED
      BY <3>1, <3>3, <3>4 DEF InnerIsOwned
  <2>5. NeverUndercounts'
    <3>1. Cardinality(Holders') = Cardinality(Holders) - 1
      BY <1>4, <2>1, HoldersFinite, FS_RemoveElement
    <3>2. activeAllocations' = SaturatingSub(activeAllocations, 1)
      BY <2>1 DEF Deallocate
    <3> QED
      BY <3>1, <3>2, HoldersFinite DEF NeverUndercounts, SaturatingSub, TypeOK
  <2> QED
    BY <2>3, <2>4, <2>5
<1> QED
  BY <1>5, <1>6

\* freeze, unfreeze and a reset that succeeds change no owner and no live count.
LEMMA FrozenOrResetIInv ==
  ASSUME IInv, (\E b \in BOOLEAN : SetFrozen(b)) \/ Reset
  PROVE  IInv'
<1> USE DEF IInv
<1>1. UNCHANGED <<inner, activeAllocations, owner>>
  BY DEF SetFrozen, Reset
<1>2. TypeOK'
  BY <1>1, TrackingAssumption DEF TypeOK, SetFrozen, Reset
<1>3. Holders' = Holders
  BY <1>1 DEF Holders, Alive
<1> QED
  BY <1>1, <1>2, <1>3 DEF InnerIsOwned, NeverUndercounts
-----------------------------------------------------------------------------
\* The invariant holds for every set of owners, addresses and sizes.
THEOREM TrackingInvariant == Spec => []IInv
<1>1. IInv /\ [Next]_vars => IInv'
  <2> SUFFICES ASSUME IInv, [Next]_vars PROVE IInv'
    OBVIOUS
  <2>1. ASSUME NEW o \in Owners, NEW n \in Sizes, NEW kind \in {"guard", "storage"},
               Allocate(o, n, kind)
        PROVE  IInv'
    BY <2>1, AllocateIInv
  <2>2. ASSUME NEW o \in Owners, Release(o) PROVE IInv'
    BY <2>2, ReleaseIInv
  <2>3. ASSUME NEW o \in Owners, Drop(o) PROVE IInv'
    BY <2>3, DropIInv
  <2>4. ASSUME (\E b \in BOOLEAN : SetFrozen(b)) \/ Reset PROVE IInv'
    BY <2>4, FrozenOrResetIInv
  <2>5. CASE UNCHANGED vars
    BY <2>5 DEF vars, IInv, TypeOK, InnerIsOwned, NeverUndercounts, Holders, Alive
  <2> QED
    BY <2>1, <2>2, <2>3, <2>4, <2>5 DEF Next
<1> QED
  BY InitIInv, <1>1, PTL DEF Spec

\* An address the wrapped allocator considers allocated belongs to exactly one
\* guard or storage, across release and every error path (AllocGuard).
THEOREM EveryAddressHasOneOwner == Spec => []InnerIsOwned
<1>1. IInv => InnerIsOwned
  BY DEF IInv
<1> QED
  BY <1>1, TrackingInvariant, PTL

\* No live allocation is missing from active_allocations.
THEOREM NothingUncounted == Spec => []NeverUndercounts
<1>1. IInv => NeverUndercounts
  BY DEF IInv
<1> QED
  BY <1>1, TrackingInvariant, PTL

\* reset never succeeds while a guard or storage holds memory (the # Errors
\* section of Allocator::reset).
THEOREM ResetIsSafe == Spec => ResetFreesNothing
<1>1. IInv /\ [Next]_vars => [Reset => Holders = {}]_vars
  <2> SUFFICES ASSUME IInv, Reset PROVE Holders = {}
    OBVIOUS
  <2>1. Cardinality(Holders) = 0
    BY HoldersFinite DEF IInv, NeverUndercounts, Reset, TypeOK
  <2> QED
    BY <2>1, HoldersFinite, FS_EmptySet DEF IInv
<1> QED
  BY <1>1, TrackingInvariant, PTL DEF Spec, ResetFreesNothing

-----------------------------------------------------------------------------
(***************************************************************************)
(* The counters, as long as nobody asks for 0 bytes                        *)
(***************************************************************************)
\* What is counted for a guard, a storage, or nobody.
SizeOf(r) == IF r = NoOwner THEN 0 ELSE r.size

\* Every owner then has an address to give back, so that every drop is counted.
Counted ==
  /\ Alive = Holders
  /\ activeAllocations = Cardinality(Alive)
  /\ activeBytes = OwnedBytes(owner) /\ peakUsage = high /\ high \in Nat

\* What one owner asked for.
LEMMA BytesOfOwner ==
  ASSUME NEW o, NEW r \in Owned \cup {NoOwner}
  PROVE  /\ IsFiniteSet(BytesOf(o, r)) /\ Cardinality(BytesOf(o, r)) = SizeOf(r)
         /\ SizeOf(r) \in Nat
<1>1. CASE r = NoOwner
  BY <1>1, FS_EmptySet DEF BytesOf, SizeOf
<1>2. CASE r # NoOwner
  <2>1. r.size \in Nat
    BY <1>2, TrackingAssumption DEF Owned
  <2>b. /\ IsFiniteSet(1 .. r.size)
        /\ Cardinality(1 .. r.size) = IF 1 > r.size THEN 0 ELSE r.size - 1 + 1
    BY <2>1, FS_Interval
  <2>2. IsFiniteSet(1 .. r.size) /\ Cardinality(1 .. r.size) = r.size
    BY <2>1, <2>b
  <2>a. IsFiniteSet({o}) /\ Cardinality({o}) = 1
    BY FS_Singleton
  <2>3. /\ IsFiniteSet({o} \X (1 .. r.size))
        /\ Cardinality({o} \X (1 .. r.size)) = Cardinality({o}) * Cardinality(1 .. r.size)
    BY <2>2, <2>a, FS_Product
  <2> QED
    BY <1>2, <2>1, <2>2, <2>a, <2>3 DEF BytesOf, SizeOf
<1> QED
  BY <1>1, <1>2

\* One owner apart from the rest.
LEMMA OwnersApart ==
  ASSUME NEW w \in [Owners -> Owned \cup {NoOwner}], NEW o \in Owners,
         NEW rest, rest = UNION {BytesOf(q, w[q]) : q \in Owners \ {o}}
  PROVE  /\ IsFiniteSet(rest) /\ Cardinality(rest) \in Nat /\ SizeOf(w[o]) \in Nat
         /\ OwnedBytes(w) = Cardinality(rest) + SizeOf(w[o])
<1> DEFINE mine == BytesOf(o, w[o])
           others == {BytesOf(q, w[q]) : q \in Owners \ {o}}
<1>1. IsFiniteSet(rest)
  <2>1. IsFiniteSet(Owners \ {o})
    BY TrackingAssumption, FS_Difference
  <2> DEFINE bytes == [q \in Owners \ {o} |-> BytesOf(q, w[q])]
  <2>a. bytes \in Surjection(Owners \ {o}, others)
    BY DEF Surjection
  <2> HIDE DEF bytes
  <2>2. IsFiniteSet(others)
    BY <2>1, <2>a, FS_Surjection
  <2>3. \A s \in others : IsFiniteSet(s)
    BY BytesOfOwner
  <2> HIDE DEF others
  <2>4. IsFiniteSet(UNION others)
    BY <2>2, <2>3, FS_UNION
  <2> QED
    BY <2>4 DEF others
<1>2. IsFiniteSet(mine) /\ Cardinality(mine) = SizeOf(w[o]) /\ SizeOf(w[o]) \in Nat
  BY BytesOfOwner
<1>3. UNION {BytesOf(q, w[q]) : q \in Owners} = rest \cup mine
  OBVIOUS
<1>4. rest \cap mine = {}
  <2>1. \A q, r : \A b \in BytesOf(q, r) : b[1] = q
    BY DEF BytesOf
  <2> QED
    BY <2>1
<1> HIDE DEF mine
<1>5. Cardinality(rest \cup mine) = Cardinality(rest) + Cardinality(mine)
  <2>1. Cardinality(rest \cup mine) = Cardinality(rest) + Cardinality(mine) - Cardinality(rest \cap mine)
    BY <1>1, <1>2, FS_Union
  <2>2. Cardinality(rest \cap mine) = 0
    BY <1>4, FS_EmptySet
  <2>3. Cardinality(rest) \in Nat
    BY <1>1, FS_CardinalityType
  <2> QED
    BY <1>2, <2>1, <2>2, <2>3
<1> QED
  BY <1>1, <1>2, <1>3, <1>5, FS_CardinalityType DEF OwnedBytes

\* When one owner gets or gives back a buffer, the sum moves by its size.
LEMMA OwnerChanges ==
  ASSUME NEW w \in [Owners -> Owned \cup {NoOwner}], NEW v \in [Owners -> Owned \cup {NoOwner}],
         NEW o \in Owners, \A q \in Owners \ {o} : v[q] = w[q]
  PROVE  /\ OwnedBytes(w) \in Nat /\ SizeOf(w[o]) \in Nat /\ SizeOf(v[o]) \in Nat
         /\ SizeOf(w[o]) <= OwnedBytes(w)
         /\ OwnedBytes(v) = OwnedBytes(w) - SizeOf(w[o]) + SizeOf(v[o])
<1>1. PICK rest : rest = UNION {BytesOf(q, w[q]) : q \in Owners \ {o}}
  OBVIOUS
<1>2. rest = UNION {BytesOf(q, v[q]) : q \in Owners \ {o}}
  BY <1>1
<1>3. /\ Cardinality(rest) \in Nat /\ SizeOf(w[o]) \in Nat
      /\ OwnedBytes(w) = Cardinality(rest) + SizeOf(w[o])
  BY <1>1, OwnersApart
<1>4. SizeOf(v[o]) \in Nat /\ OwnedBytes(v) = Cardinality(rest) + SizeOf(v[o])
  BY <1>2, OwnersApart
<1> QED
  BY <1>3, <1>4

\* The sum of a fresh allocator, and of one that was reset.
LEMMA NothingOwned ==
  ASSUME NEW w, \A o \in Owners : w[o] = NoOwner
  PROVE  OwnedBytes(w) = 0
<1>1. UNION {BytesOf(o, w[o]) : o \in Owners} = {}
  BY DEF BytesOf
<1> QED
  BY <1>1, FS_EmptySet DEF OwnedBytes

\* An allocation the wrapped allocator granted is counted once, the peak after it.
LEMMA AllocateCounts ==
  ASSUME 0 \notin Sizes, IInv, Counted, NEW o \in Owners, NEW n \in Sizes,
         NEW kind \in {"guard", "storage"}, Allocate(o, n, kind), IInv'
  PROVE  Counted'
<1>1. PICK p \in InnerAnswers(n) :
        owner' = [owner EXCEPT ![o] = [kind |-> kind, ptr |-> p, size |-> n]]
  BY DEF Allocate
<1>2. p \in Ptrs /\ p # Null
  BY TrackingAssumption DEF InnerAnswers
<1>3. /\ owner \in [Owners -> Owned \cup {NoOwner}] /\ owner' \in [Owners -> Owned \cup {NoOwner}]
      /\ owner[o] = NoOwner /\ o \notin Alive
  BY DEF IInv, TypeOK, Allocate, Alive
<1>4. /\ owner'[o] = [kind |-> kind, ptr |-> p, size |-> n]
      /\ \A q \in Owners \ {o} : owner'[q] = owner[q]
  BY <1>1, <1>3
<1>5. owner'[o] # NoOwner
  BY <1>2, <1>4, TrackingAssumption
<1>6. Alive' = Alive \cup {o}
  BY <1>3, <1>4, <1>5 DEF Alive
<1>7. Holders' = Holders \cup {o}
  BY <1>2, <1>3, <1>4, <1>5, <1>6 DEF Holders, Alive
<1>8. activeAllocations' = Cardinality(Alive')
  <2>1. IsFiniteSet(Alive)
    BY HoldersFinite DEF IInv, Counted
  <2> QED
    BY <1>3, <1>6, <2>1, FS_AddElement DEF Counted, Allocate
<1>9. activeBytes' = OwnedBytes(owner') /\ activeBytes' \in Nat
  <2>1. PICK v : v = owner'
    OBVIOUS
  <2>2. SizeOf(owner[o]) = 0 /\ SizeOf(v[o]) = n
    BY <1>3, <1>4, <1>5, <2>1 DEF SizeOf
  <2>3. OwnedBytes(owner) \in Nat /\ SizeOf(v[o]) \in Nat
        /\ OwnedBytes(v) = OwnedBytes(owner) - SizeOf(owner[o]) + SizeOf(v[o])
    BY <1>3, <1>4, <2>1, OwnerChanges
  <2> QED
    BY <2>1, <2>2, <2>3 DEF Counted, Allocate
<1>10. peakUsage' = high' /\ high' \in Nat
  BY <1>9 DEF Counted, Allocate, Larger
<1> QED
  BY <1>6, <1>7, <1>8, <1>9, <1>10 DEF Counted

\* release moves an address from a guard to a Storage and counts nothing.
LEMMA ReleaseCounts ==
  ASSUME IInv, Counted, NEW o \in Owners, Release(o), IInv'
  PROVE  Counted'
<1>1. /\ owner \in [Owners -> Owned \cup {NoOwner}] /\ owner' \in [Owners -> Owned \cup {NoOwner}]
      /\ owner[o] \in Owned /\ owner[o] # NoOwner
      /\ UNCHANGED <<activeAllocations, activeBytes, peakUsage, high>>
  BY DEF IInv, TypeOK, Release
<1>a. owner' = [owner EXCEPT ![o] = [owner[o] EXCEPT !.kind = "storage"]]
  BY DEF Release
<1>2. /\ owner'[o].size = owner[o].size /\ owner'[o].ptr = owner[o].ptr
      /\ \A q \in Owners \ {o} : owner'[q] = owner[q]
  BY <1>1, <1>a DEF Owned
<1>3. owner'[o] # NoOwner
  <2>1. [owner[o] EXCEPT !.kind = "storage"] \in Owned
    BY <1>1 DEF Owned
  <2> QED
    BY <1>1, <1>a, <2>1, TrackingAssumption DEF Owned
<1>4. Alive' = Alive /\ Holders' = Holders
  BY <1>1, <1>2, <1>3 DEF Alive, Holders
<1>5. OwnedBytes(owner') = OwnedBytes(owner)
  <2>1. \A q \in Owners : BytesOf(q, owner'[q]) = BytesOf(q, owner[q])
    BY <1>1, <1>2, <1>3 DEF BytesOf
  <2> QED
    BY <2>1 DEF OwnedBytes
<1> QED
  BY <1>1, <1>4, <1>5 DEF Counted

\* A drop subtracts no more than was counted, so that saturating_sub subtracts all.
LEMMA DropCounts ==
  ASSUME IInv, Counted, NEW o \in Owners, Drop(o), IInv'
  PROVE  Counted'
<1>1. /\ owner \in [Owners -> Owned \cup {NoOwner}] /\ owner' \in [Owners -> Owned \cup {NoOwner}]
      /\ owner[o] # NoOwner /\ owner' = [owner EXCEPT ![o] = NoOwner] /\ o \in Alive
      /\ high' = high
  BY DEF IInv, TypeOK, Drop, Alive
<1>2. owner[o].ptr # Null
  BY <1>1 DEF Counted, Holders
<1>3. /\ activeAllocations' = SaturatingSub(activeAllocations, 1)
      /\ activeBytes' = SaturatingSub(activeBytes, owner[o].size)
      /\ peakUsage' = peakUsage
  BY <1>2 DEF Drop, Deallocate
<1>4. owner'[o] = NoOwner /\ \A q \in Owners \ {o} : owner'[q] = owner[q]
  BY <1>1
<1>5. Alive' = Alive \ {o} /\ Holders' = Holders \ {o}
  BY <1>4 DEF Alive, Holders
<1>6. activeAllocations' = Cardinality(Alive')
  <2>1. IsFiniteSet(Alive) /\ Cardinality(Alive) \in Nat
    BY HoldersFinite DEF IInv, Counted
  <2>2. Cardinality(Alive') = Cardinality(Alive) - 1 /\ Cardinality(Alive) # 0
    BY <1>1, <1>5, <2>1, FS_RemoveElement, FS_EmptySet
  <2> QED
    BY <1>3, <2>1, <2>2 DEF Counted, SaturatingSub
<1>7. activeBytes' = OwnedBytes(owner')
  <2>1. PICK v : v = owner'
    OBVIOUS
  <2>2. SizeOf(v[o]) = 0 /\ SizeOf(owner[o]) = owner[o].size
    BY <1>1, <1>4, <2>1 DEF SizeOf
  <2>3. /\ OwnedBytes(owner) \in Nat /\ SizeOf(owner[o]) \in Nat
        /\ SizeOf(owner[o]) <= OwnedBytes(owner)
        /\ OwnedBytes(v) = OwnedBytes(owner) - SizeOf(owner[o]) + SizeOf(v[o])
    BY <1>1, <1>4, <2>1, OwnerChanges
  <2> QED
    BY <1>3, <2>1, <2>2, <2>3 DEF Counted, SaturatingSub
<1> QED
  BY <1>1, <1>3, <1>5, <1>6, <1>7 DEF Counted

\* A reset that succeeds finds nobody alive, so that 0 is what is held.
LEMMA ResetCounts ==
  ASSUME IInv, Counted, Reset
  PROVE  Counted'
<1>1. Alive = {}
  BY HoldersFinite, FS_EmptySet DEF IInv, Counted, Reset
<1>2. Alive' = Alive /\ Holders' = Holders /\ OwnedBytes(owner') = OwnedBytes(owner)
  BY DEF Reset, Alive, Holders, OwnedBytes
<1>3. OwnedBytes(owner) = 0
  BY <1>1, NothingOwned DEF Alive
<1> QED
  BY <1>1, <1>2, <1>3 DEF Counted, Reset

\* Requests that fail or are refused, and freezing, leave owners and counters alone.
LEMMA NextCounts ==
  ASSUME 0 \notin Sizes, IInv, Counted, [Next]_vars, IInv'
  PROVE  Counted'
<1>1. ASSUME UNCHANGED <<counters, owner, high>> PROVE Counted'
  BY <1>1 DEF Counted, Alive, Holders, OwnedBytes
<1>2. CASE \E b \in BOOLEAN : SetFrozen(b)
  BY <1>1, <1>2 DEF SetFrozen
<1>3. CASE UNCHANGED vars
  BY <1>1, <1>3 DEF vars
<1> QED
  BY <1>2, <1>3, AllocateCounts, ReleaseCounts, DropCounts, ResetCounts DEF Next

\* While every request is for at least a byte, the counters are what is held and the
\* most that was held at once: an allocation that failed, was refused or was given
\* back on an error path left no trace, and no subtraction ever met its floor.
THEOREM CountersAreExact == ASSUME 0 \notin Sizes PROVE Spec => []CountsExact
<1>1. Init => Counted
  <2> SUFFICES ASSUME Init PROVE Counted
    OBVIOUS
  <2>1. Alive = {} /\ Holders = {} /\ OwnedBytes(owner) = 0
    BY NothingOwned DEF Init, Alive, Holders
  <2> QED
    BY <2>1, FS_EmptySet DEF Init, Counted
<1>2. IInv /\ IInv' /\ Counted /\ [Next]_vars => Counted'
  BY NextCounts
<1>3. Counted => CountsExact
  BY DEF Counted, CountsExact
<1> QED
  BY <1>1, <1>2, <1>3, TrackingInvariant, PTL DEF Spec
=============================================================================
