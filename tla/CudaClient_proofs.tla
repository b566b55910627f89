-------------------------- MODULE CudaClient_proofs --------------------------
(***************************************************************************)
(* Theorems about CudaClient, for any number of threads, clients,          *)
(* dimensions and addresses.                                               *)
(***************************************************************************)
EXTENDS CudaClient, TLAPS

SobolPcs == {"warm", "allocate", "upload", "synchronize", "insert", "launch"}
Carries(t) == call[t].pc \in {"upload", "synchronize", "insert"}

\* Whoever creates under the lock holds it, and the entry stays empty until then.
CreatorHoldsLock == \A t \in Threads : At(t, "createLocked") => lock = t /\ slot = NoClient

\* A Sobol call knows its client and its dimension.
CallsKnowTarget ==
  \A t \in Threads : call[t].pc \in SobolPcs => call[t].client \in Clients /\ call[t].dim \in Dims

\* What is cached is allocated and complete.
CachedIsReady ==
  \A c \in Clients, d \in Dims : dv[c][d] # NoPtr => dv[c][d] \in allocated \cap uploaded

\* A buffer on its way into the cache is allocated, cached nowhere and carried by
\* one call alone, so that a failed copy frees nobody else's.
CarriedIsOwned ==
  \A t \in Threads : Carries(t) =>
    /\ call[t].ptr \in allocated
    /\ \A c \in Clients, d \in Dims : dv[c][d] # call[t].ptr
    /\ \A u \in Threads \ {t} : Carries(u) => call[u].ptr # call[t].ptr
    /\ At(t, "insert") => call[t].ptr \in uploaded

IInv ==
  /\ TypeOK
  /\ CreatorHoldsLock /\ OneClient
  /\ CallsKnowTarget /\ CachedIsReady /\ CarriedIsOwned
  /\ LaunchedStaysValid /\ EntryGuaranteed

\* The call of t has the fields given, and no other call has changed.
CallBecomes(t, pc, client, dim, ptr, launches) ==
  /\ call' \in [Threads -> [pc : Pcs, client : Clients \cup {NoClient}, dim : Dims \cup {NoDim},
                            ptr : Ptrs \cup {NoPtr}, launches : BOOLEAN]]
  /\ call'[t].pc = pc /\ call'[t].client = client /\ call'[t].dim = dim
  /\ call'[t].ptr = ptr /\ call'[t].launches = launches
  /\ \A u \in Threads \ {t} : call'[u] = call[u]

\* What the two ways to change only the pc do.
LEMMA GotoFields ==
  ASSUME TypeOK, NEW t \in Threads, NEW pc \in Pcs, Goto(t, pc)
  PROVE  CallBecomes(t, pc, call[t].client, call[t].dim, call[t].ptr, call[t].launches)
BY DEF TypeOK, Goto, CallBecomes

LEMMA ReturnFields ==
  ASSUME TypeOK, NEW t \in Threads, Return(t)
  PROVE  CallBecomes(t, "idle", NoClient, NoDim, NoPtr, FALSE)
BY DEF TypeOK, Return, Idle, Frame, CallBecomes, Pcs

\* The first state satisfies the inductive invariant.
LEMMA InitIInv == Init => IInv
BY ClientAssumption
DEF Init, IInv, TypeOK, CreatorHoldsLock, OneClient, CallsKnowTarget, CachedIsReady,
    CarriedIsOwned, Carries, LaunchedStaysValid, EntryGuaranteed, Idle, Frame, At, Pcs, SobolPcs

\* The steps by which a thread obtains a client keep the inductive invariant.
LEMMA ObtainKeepsIInv ==
  ASSUME IInv, NEW t \in Threads, ObtainStep(t)
  PROVE  IInv'
<1> USE ClientAssumption
        DEF IInv, TypeOK, CreatorHoldsLock, OneClient, CallsKnowTarget, CachedIsReady,
            CarriedIsOwned, Carries, LaunchedStaysValid, EntryGuaranteed, Idle, At, Pcs,
            SobolPcs, Frame, Goto, Return, Unlocked, Entry, sobolVars, clientVars
<1>1. CASE Cached(t)
  BY <1>1 DEF Cached
<1>2. CASE NewMiss(t)
  BY <1>2 DEF NewMiss
<1>3. CASE NewUncached(t)
  BY <1>3 DEF NewUncached
<1>4. CASE NewFails(t)
  BY <1>4 DEF NewFails
<1>5. CASE Register(t)
  BY <1>5 DEF Register
<1>6. CASE GetMiss(t)
  <2>1. TypeOK'
    BY <1>6, SMTT(60) DEF GetMiss
  <2>2. CreatorHoldsLock' /\ OneClient'
    BY <1>6 DEF GetMiss
  <2>3. CallsKnowTarget' /\ CachedIsReady'
    BY <1>6 DEF GetMiss
  <2>4. CarriedIsOwned'
    BY <1>6 DEF GetMiss
  <2>5. LaunchedStaysValid'
    BY <1>6 DEF GetMiss
  <2>6. EntryGuaranteed'
    BY <1>6 DEF GetMiss
  <2>7. QED
    BY <2>1, <2>2, <2>3, <2>4, <2>5, <2>6
<1>7. CASE CreateLocked(t)
  BY <1>7 DEF CreateLocked
<1>8. CASE CreatePanics(t)
  BY <1>8 DEF CreatePanics
<1> HIDE DEF IInv
<1>9. QED
  BY <1>1, <1>2, <1>3, <1>4, <1>5, <1>6, <1>7, <1>8 DEF ObtainStep

\* The steps of sobol and warmup_sobol keep the inductive invariant.
LEMMA SobolKeepsIInv ==
  ASSUME IInv, NEW t \in Threads, SobolStep(t)
  PROVE  IInv'
<1> USE ClientAssumption
        DEF IInv, TypeOK, CreatorHoldsLock, OneClient, CallsKnowTarget, CachedIsReady,
            CarriedIsOwned, Carries, LaunchedStaysValid, EntryGuaranteed, Idle, At, Pcs,
            SobolPcs, Frame, Goto, Return, Warmed, Entry, Kernel, sobolVars, clientVars
<1>1. ASSUME NEW d \in Dims, SobolHit(t, d) PROVE IInv'
  BY <1>1 DEF SobolHit
<1>2. ASSUME NEW d \in Dims, NEW launches \in BOOLEAN, Warmup(t, d, launches) PROVE IInv'
  BY <1>2 DEF Warmup
<1>3. CASE WarmHit(t)
  <2>1. CASE Goto(t, "launch")
    BY <1>3, <2>1 DEF WarmHit
  <2>2. CASE Return(t)
    BY <1>3, <2>2 DEF WarmHit
  <2>3. QED
    BY <1>3, <2>1, <2>2 DEF WarmHit
<1>4. CASE WarmMiss(t)
  <2>1. TypeOK'
    BY <1>4, SMTT(60) DEF WarmMiss
  <2>2. CreatorHoldsLock' /\ OneClient'
    BY <1>4 DEF WarmMiss
  <2>3. CallsKnowTarget' /\ CachedIsReady'
    BY <1>4 DEF WarmMiss
  <2>4. CarriedIsOwned'
    BY <1>4 DEF WarmMiss
  <2>5. LaunchedStaysValid' /\ EntryGuaranteed'
    BY <1>4 DEF WarmMiss
  <2>6. QED
    BY <2>1, <2>2, <2>3, <2>4, <2>5
<1>5. CASE MemAlloc(t)
  BY <1>5 DEF MemAlloc
<1>6. CASE MemAllocFails(t)
  BY <1>6 DEF MemAllocFails
<1>7. CASE CopyHtoD(t)
  BY <1>7 DEF CopyHtoD
<1>8. CASE CopyFails(t)
  BY <1>8 DEF CopyFails
<1>9. CASE Synchronize(t)
  BY <1>9 DEF Synchronize
<1>10. CASE SynchronizeFails(t)
  BY <1>10 DEF SynchronizeFails
<1>11. CASE Insert(t)
  <2> DEFINE c == call[t].client
             d == call[t].dim
             p == call[t].ptr
  <2>1. /\ At(t, "insert") /\ c \in Clients /\ d \in Dims
        /\ p \in Ptrs /\ p \in allocated \cap uploaded
        /\ UNCHANGED <<slot, lock, made, held, allocated, uploaded, launched>>
    BY <1>11 DEF Insert
  <2>2. /\ dv' \in [Clients -> [Dims -> Ptrs \cup {NoPtr}]]
        /\ dv'[c][d] = IF dv[c][d] = NoPtr THEN p ELSE dv[c][d]
        /\ \A b \in Clients, e \in Dims : b # c \/ e # d => dv'[b][e] = dv[b][e]
    BY <1>11, <2>1 DEF Insert
  <2>3. \A b \in Clients, e \in Dims :
          /\ dv[b][e] # NoPtr => dv'[b][e] = dv[b][e]
          /\ dv'[b][e] = dv[b][e] \/ dv'[b][e] = p
          /\ b = c /\ e = d => dv'[b][e] # NoPtr
    BY <2>1, <2>2
  <2>4. CachedIsReady' /\ LaunchedStaysValid'
    <3>1. CachedIsReady'
      BY <2>1, <2>2
    <3>2. LaunchedStaysValid'
      BY <2>1, <2>2
    <3>3. QED
      BY <3>1, <3>2
  <2>5. CASE CallBecomes(t, "launch", c, d, p, call[t].launches)
    <3>1. TypeOK'
      BY <2>1, <2>2, <2>5 DEF CallBecomes
    <3>2. CreatorHoldsLock' /\ OneClient' /\ CallsKnowTarget'
      BY <2>1, <2>5, ZenonT(60) DEF CallBecomes
    <3>3. CarriedIsOwned'
      <4> SUFFICES ASSUME NEW u \in Threads, Carries(u)'
                   PROVE  /\ u # t /\ Carries(u) /\ call'[u] = call[u]
                          /\ call[u].ptr # p
        BY <2>1, <2>3, <2>5 DEF CallBecomes
      <4>1. QED
        BY <2>1, <2>5 DEF CallBecomes
    <3>4. EntryGuaranteed'
      <4> SUFFICES ASSUME NEW u \in Threads, At(u, "launch")'
                   PROVE  dv'[call'[u].client][call'[u].dim] # NoPtr
        OBVIOUS
      <4>1. CASE u = t
        BY <2>1, <2>3, <4>1, <2>5 DEF CallBecomes
      <4>2. CASE u # t
        BY <2>1, <2>3, <4>2, <2>5 DEF CallBecomes
      <4>3. QED
        BY <4>1, <4>2
    <3>5. QED
      BY <2>4, <3>1, <3>2, <3>3, <3>4
  <2>6. CASE CallBecomes(t, "idle", NoClient, NoDim, NoPtr, FALSE)
    <3>1. TypeOK'
      BY <2>1, <2>2, <2>6 DEF CallBecomes
    <3>2. CreatorHoldsLock' /\ OneClient' /\ CallsKnowTarget'
      BY <2>1, <2>6, ZenonT(60) DEF CallBecomes
    <3>3. CarriedIsOwned'
      <4> SUFFICES ASSUME NEW u \in Threads, Carries(u)'
                   PROVE  /\ u # t /\ Carries(u) /\ call'[u] = call[u]
                          /\ call[u].ptr # p
        BY <2>1, <2>3, <2>6 DEF CallBecomes
      <4>1. QED
        BY <2>1, <2>6 DEF CallBecomes
    <3>4. EntryGuaranteed'
      <4> SUFFICES ASSUME NEW u \in Threads, At(u, "launch")'
                   PROVE  dv'[call'[u].client][call'[u].dim] # NoPtr
        OBVIOUS
      <4>1. CASE u = t
        BY <2>1, <2>3, <4>1, <2>6 DEF CallBecomes
      <4>2. CASE u # t
        BY <2>1, <2>3, <4>2, <2>6 DEF CallBecomes
      <4>3. QED
        BY <4>1, <4>2
    <3>5. QED
      BY <2>4, <3>1, <3>2, <3>3, <3>4
  <2>7. QED
    BY <1>11, <2>5, <2>6, GotoFields, ReturnFields DEF Insert
<1>12. CASE Launch(t)
  <2>1. TypeOK'
    BY <1>12 DEF Launch
  <2>2. CreatorHoldsLock' /\ OneClient'
    BY <1>12 DEF Launch
  <2>3. CallsKnowTarget' /\ CachedIsReady'
    BY <1>12 DEF Launch
  <2>4. CarriedIsOwned'
    BY <1>12 DEF Launch
  <2>5. LaunchedStaysValid'
    BY <1>12 DEF Launch
  <2>6. EntryGuaranteed'
    BY <1>12 DEF Launch
  <2>7. QED
    BY <2>1, <2>2, <2>3, <2>4, <2>5, <2>6
<1> HIDE DEF IInv
<1>13. QED
  BY <1>1, <1>2, <1>3, <1>4, <1>5, <1>6, <1>7, <1>8, <1>9, <1>10, <1>11, <1>12 DEF SobolStep

\* In every reachable state the cache, the calls under way and the kernels
\* launched agree on who owns which buffer (client.rs, sobol_cache.rs).
THEOREM ClientInvariant == Spec => []IInv
<1>1. IInv /\ [Next]_vars => IInv'
  <2> SUFFICES ASSUME IInv, [Next]_vars PROVE IInv'
    OBVIOUS
  <2>1. CASE Next
    BY <2>1, ObtainKeepsIInv, SobolKeepsIInv DEF Next
  <2>2. CASE UNCHANGED vars
    BY <2>2 DEF vars, IInv, TypeOK, CreatorHoldsLock, OneClient, CallsKnowTarget, CachedIsReady,
                CarriedIsOwned, Carries, LaunchedStaysValid, EntryGuaranteed, At, Entry
  <2>3. QED
    BY <2>1, <2>2
<1>2. QED
  BY InitIInv, <1>1, PTL DEF Spec

\* All threads work on one client, however many created one at once.
THEOREM ClientIsCanonical == Spec => []OneClient
<1>1. IInv => OneClient
  BY DEF IInv
<1>2. QED
  BY ClientInvariant, <1>1, PTL

\* The direction vectors a captured graph reads stay where they are.
THEOREM BakedAddressIsStable == Spec => []LaunchedStaysValid
<1>1. IInv => LaunchedStaysValid
  BY DEF IInv
<1>2. QED
  BY ClientInvariant, <1>1, PTL

\* After a warm-up that succeeded the second look-up in sobol finds an entry.
THEOREM SobolNeverPanics == Spec => []EntryGuaranteed
<1>1. IInv => EntryGuaranteed
  BY DEF IInv
<1>2. QED
  BY ClientInvariant, <1>1, PTL
==============================================================================
