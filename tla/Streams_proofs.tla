--------------------------- MODULE Streams_proofs ---------------------------
(***************************************************************************)
(* Theorems about Streams, for any ranks, buffers, collectives and scripts.*)
(*                                                                         *)
(* That a barrier separates the ranks is a matter of counting: a           *)
(* collective runs on all devices at once, so that every rank has issued   *)
(* as many as have run and as many more as are in its queue, and a rank    *)
(* whose queue is empty has issued what has run and no other rank less.    *)
(***************************************************************************)
EXTENDS Streams, FiniteSetTheorems, SequenceTheorems, TLAPS

IsQueue(q) == \E S : q \in Seq(S)
IsDevice(d) ==
  /\ DOMAIN d = {"queue", "events"}
  /\ DOMAIN d.queue = Streams
  /\ \A s \in Streams : IsQueue(d.queue[s])

Collectives(q) == {i \in 1..Len(q) : q[i].op = "allreduce"}
Count(q) == Cardinality(Collectives(q))
Weight(c) == IF c.op = "allreduce" THEN 1 ELSE 0

\* The collectives that wait on a device's communicator stream.
Waiting(d) == Count(d.queue["comm"])
-----------------------------------------------------------------------------
\* The length of a queue, and what is in it.
LEMMA QueueFacts ==
  ASSUME NEW q, IsQueue(q)
  PROVE  /\ Len(q) \in Nat /\ DOMAIN q = 1..Len(q)
         /\ q # <<>> => Len(q) > 0
         /\ IsFiniteSet(Collectives(q)) /\ Count(q) \in Nat
         /\ q = <<>> => Count(q) = 0
  <1>1. PICK S : q \in Seq(S)  BY DEF IsQueue
  <1>2. Len(q) \in Nat /\ DOMAIN q = 1..Len(q) /\ (q # <<>> => Len(q) > 0)
    BY <1>1, EmptySeq
  <1>3. IsFiniteSet(1..Len(q)) /\ Collectives(q) \in SUBSET (1..Len(q))
    BY <1>2, FS_Interval DEF Collectives
  <1>4. IsFiniteSet(Collectives(q))  BY <1>3, FS_Subset
  <1>5. Count(q) \in Nat  BY <1>4, FS_CardinalityType DEF Count
  <1>6. q = <<>> => Collectives(q) = {}  BY <1>2, EmptySeq DEF Collectives
  <1>q. QED  BY <1>2, <1>4, <1>5, <1>6, FS_EmptySet DEF Count

\* A command that is appended counts if it is a collective.
LEMMA AppendCount ==
  ASSUME NEW q, IsQueue(q), NEW c
  PROVE  /\ IsQueue(Append(q, c))
         /\ Count(Append(q, c)) = Count(q) + Weight(c)
  <1>1. PICK S : q \in Seq(S)  BY DEF IsQueue
  <1> DEFINE T == S \cup {c}
             a == Append(q, c)
  <1>2. q \in Seq(T)  BY <1>1, SeqMonotonic
  <1>3. a \in Seq(T) /\ Len(a) = Len(q) + 1 /\ Len(q) \in Nat
        /\ a[Len(q) + 1] = c /\ \A i \in 1..Len(q) : a[i] = q[i]
    BY <1>2, AppendProperties, LenProperties
  <1>4. IsQueue(a)  BY <1>3 DEF IsQueue
  <1>5. IsFiniteSet(Collectives(q)) /\ Count(q) \in Nat  BY QueueFacts
  <1>6. CASE c.op = "allreduce"
    <2>1. Collectives(a) = Collectives(q) \cup {Len(q) + 1}
      BY <1>3, <1>6 DEF Collectives
    <2>2. Len(q) + 1 \notin Collectives(q)  BY <1>3 DEF Collectives
    <2>q. QED  BY <1>4, <1>5, <1>6, <2>1, <2>2, FS_AddElement DEF Count, Weight
  <1>7. CASE c.op # "allreduce"
    <2>1. Collectives(a) = Collectives(q)  BY <1>3, <1>7 DEF Collectives
    <2>q. QED  BY <1>4, <1>5, <1>7, <2>1 DEF Count, Weight
  <1>q. QED  BY <1>6, <1>7

\* A command that is taken counted if it was a collective.
LEMMA TailCount ==
  ASSUME NEW q, IsQueue(q), q # <<>>
  PROVE  /\ IsQueue(Tail(q))
         /\ Count(Tail(q)) = Count(q) - Weight(q[1])
  <1>1. PICK S : q \in Seq(S)  BY DEF IsQueue
  <1> DEFINE t == Tail(q)
             C == Collectives(q) \ {1}
             back == [i \in C |-> i - 1]
  <1>2. Len(q) \in Nat /\ Len(q) > 0  BY QueueFacts
  <1>3. t \in Seq(S) /\ Len(t) = Len(q) - 1 /\ \A i \in 1..Len(t) : t[i] = q[i + 1]
    BY <1>1, HeadTailProperties
  <1>4. IsQueue(t)  BY <1>3 DEF IsQueue
  <1>5. IsFiniteSet(Collectives(q)) /\ Count(q) \in Nat  BY QueueFacts
  <1>6. IsFiniteSet(C) /\ Cardinality(C) = Count(q) - Weight(q[1])
    <2>1. 1 \in Collectives(q) <=> q[1].op = "allreduce"  BY <1>2 DEF Collectives
    <2>q. QED  BY <1>5, <2>1, FS_RemoveElement DEF Count, Weight
  <1>7. back \in Bijection(C, Collectives(t))
    <2>1. C \subseteq 2..Len(q)  BY <1>2 DEF Collectives
    <2>2. \A i \in C : i - 1 \in Collectives(t)
      BY <1>2, <1>3, <2>1 DEF Collectives
    <2>3. back \in [C -> Collectives(t)]  BY <2>2
    <2>4. \A i, j \in C : back[i] = back[j] => i = j  BY <2>1
    <2>5. \A k \in Collectives(t) : k + 1 \in C
      BY <1>2, <1>3 DEF Collectives
    <2>6. \A k \in Collectives(t) : \E i \in C : back[i] = k
      <3> SUFFICES ASSUME NEW k \in Collectives(t) PROVE back[k + 1] = k  BY <2>5
      <3>q. QED  BY <2>5 DEF Collectives
    <2> HIDE DEF back
    <2>7. back \in Injection(C, Collectives(t))  BY <2>3, <2>4 DEF Injection, IsInjective
    <2>8. back \in Surjection(C, Collectives(t))  BY <2>3, <2>6 DEF Surjection
    <2>q. QED  BY <2>7, <2>8 DEF Bijection
  <1>8. ExistsBijection(C, Collectives(t))  BY <1>7 DEF ExistsBijection
  <1>9. Cardinality(Collectives(t)) = Cardinality(C)  BY <1>6, <1>8, FS_Bijection
  <1>q. QED  BY <1>4, <1>6, <1>9 DEF Count
-----------------------------------------------------------------------------
\* Enqueueing on another stream, and any command but a collective, leaves the
\* collectives that wait alone.
LEMMA EnqueueCount ==
  ASSUME NEW d, IsDevice(d), NEW s \in Streams, NEW c
  PROVE  /\ IsDevice(Enqueue(d, s, c))
         /\ Enqueue(d, s, c).events = d.events
         /\ Waiting(Enqueue(d, s, c)) =
              Waiting(d) + (IF s = "comm" THEN Weight(c) ELSE 0)
  <1> DEFINE e == Enqueue(d, s, c)
  <1>1. /\ DOMAIN e = {"queue", "events"} /\ DOMAIN e.queue = Streams
        /\ e.events = d.events
        /\ e.queue[s] = Append(d.queue[s], c)
        /\ \A z \in Streams \ {s} : e.queue[z] = d.queue[z]
    BY DEF Enqueue, IsDevice
  <1>2. IsQueue(d.queue[s]) /\ \A z \in Streams : IsQueue(d.queue[z])  BY DEF IsDevice
  <1>3. IsQueue(e.queue[s]) /\ Count(e.queue[s]) = Count(d.queue[s]) + Weight(c)
    BY <1>1, <1>2, AppendCount
  <1>4. \A z \in Streams : IsQueue(e.queue[z])  BY <1>1, <1>2, <1>3
  <1>5. IsDevice(e)  BY <1>1, <1>4 DEF IsDevice
  <1>6. Waiting(d) \in Nat  BY <1>2, QueueFacts DEF Waiting, Streams
  <1>7. CASE s = "comm"  BY <1>1, <1>3, <1>5, <1>7 DEF Waiting
  <1>8. CASE s # "comm"
    <2>1. e.queue["comm"] = d.queue["comm"]  BY <1>1, <1>8 DEF Streams
    <2>q. QED  BY <1>1, <1>5, <1>6, <1>8, <2>1 DEF Waiting
  <1>q. QED  BY <1>7, <1>8

\* So does what only changes the events.
LEMMA EventsCount ==
  ASSUME NEW d, IsDevice(d), NEW x
  PROVE  /\ IsDevice([d EXCEPT !.events = x])
         /\ Waiting([d EXCEPT !.events = x]) = Waiting(d)
  BY DEF IsDevice, Waiting

\* The driver's calls for events.
LEMMA DestroyCalls ==
  ASSUME NEW d, IsDevice(d), NEW E
  PROVE  IsDevice(DestroyEvents(d, E)) /\ Waiting(DestroyEvents(d, E)) = Waiting(d)
  BY EventsCount DEF DestroyEvents

LEMMA EventCalls ==
  ASSUME NEW d, IsDevice(d), NEW e, NEW s \in Streams
  PROVE  /\ IsDevice(EventCreate(d)) /\ Waiting(EventCreate(d)) = Waiting(d)
         /\ IsDevice(EventRecord(d, e, s)) /\ Waiting(EventRecord(d, e, s)) = Waiting(d)
         /\ IsDevice(StreamWait(d, s, e)) /\ Waiting(StreamWait(d, s, e)) = Waiting(d)
  <1>0. Waiting(d) \in Nat  BY QueueFacts DEF Waiting, Streams, IsDevice
  <1>1. IsDevice(EventCreate(d)) /\ Waiting(EventCreate(d)) = Waiting(d)
    BY EventsCount DEF EventCreate
  <1>2. ASSUME NEW c, c.op # "allreduce"
        PROVE  IsDevice(Enqueue(d, s, c)) /\ Waiting(Enqueue(d, s, c)) = Waiting(d)
    <2>1. Weight(c) = 0  BY <1>2 DEF Weight
    <2>q. QED  BY <1>0, <2>1, EnqueueCount
  <1>3. \A m : /\ Cmd("wait", NoBuffer, NoBuffer, {}, m).op # "allreduce"
              /\ Cmd("record", NoBuffer, NoBuffer, {}, m).op # "allreduce"
    BY DEF Cmd
  <1>4. IsDevice(StreamWait(d, s, e)) /\ Waiting(StreamWait(d, s, e)) = Waiting(d)
    BY <1>2, <1>3 DEF StreamWait
  <1>5. IsDevice(EventRecord(d, e, s)) /\ Waiting(EventRecord(d, e, s)) = Waiting(d)
    <2> DEFINE m == FreshMark(d)
               f == Enqueue(d, s, Cmd("record", NoBuffer, NoBuffer, {}, m))
    <2>1. IsDevice(f) /\ Waiting(f) = Waiting(d)  BY <1>2, <1>3
    <2>2. EventRecord(d, e, s) = [f EXCEPT !.events = [f.events EXCEPT ![e] = m]]
      BY DEF EventRecord
    <2> HIDE DEF f, m
    <2>q. QED  BY <2>1, <2>2, EventsCount
  <1>q. QED  BY <1>1, <1>4, <1>5
-----------------------------------------------------------------------------
(***************************************************************************)
(* Barriers                                                                *)
(***************************************************************************)
IsCall(c) ==
  /\ DOMAIN c = {"pc", "event", "n", "data", "want"}
  /\ c.pc \in {"idle", "compute", "copy", "sync", "barrier", "barrierSync"}

Machines ==
  /\ dev = [r \in Ranks |-> dev[r]] /\ \A r \in Ranks : IsDevice(dev[r])
  /\ host = [r \in Ranks |-> host[r]] /\ \A r \in Ranks : IsCall(host[r])
Counters == issued \in [Ranks -> Nat] /\ left \in [Ranks -> Nat]

\* A barrier that has begun is the next collective, one that waits is the last.
AtBarrier ==
  \A r \in Ranks : /\ At(r, "barrier") => host[r].n = issued[r] + 1
                   /\ At(r, "barrierSync") => host[r].n = issued[r]

\* k collectives have run, on every device; those a rank has issued beyond them
\* are in its queue, and it has returned from none of them.
HaveRun(k) == \A r \in Ranks : issued[r] = k + Waiting(dev[r]) /\ left[r] <= k

Ordered == Machines /\ Counters /\ AtBarrier /\ \E k \in Nat : HaveRun(k)

LEMMA WaitingType == ASSUME NEW d, IsDevice(d) PROVE Waiting(d) \in Nat
  BY QueueFacts DEF Waiting, Streams, IsDevice

LEMMA OrderedInit == Init => Ordered
  <1> SUFFICES ASSUME Init PROVE Ordered  OBVIOUS
  <1>1. IsQueue(<<>>)  BY EmptySeq DEF IsQueue
  <1>2. \A r \in Ranks : IsDevice(dev[r]) /\ Waiting(dev[r]) = 0
    BY <1>1, QueueFacts DEF Init, IsDevice, Waiting, Streams
  <1>3. Machines  BY <1>2 DEF Init, Machines, IsCall, Idle
  <1>4. Counters /\ AtBarrier  BY DEF Init, Counters, AtBarrier, At, Idle
  <1>5. \A r \in Ranks : issued[r] = 0 /\ left[r] = 0  BY DEF Init
  <1>6. HaveRun(0)  BY <1>2, <1>5 DEF HaveRun
  <1>q. QED  BY <1>3, <1>4, <1>6 DEF Ordered

\* What a rank does without issuing a collective or passing a barrier.
LEMMA OtherStep ==
  ASSUME Ordered, NEW r \in Ranks, NEW d, IsDevice(d), Waiting(d) = Waiting(dev[r]),
         dev' = [dev EXCEPT ![r] = d],
         NEW c, IsCall(c), host' = [host EXCEPT ![r] = c],
         c.pc \notin {"barrier", "barrierSync"} \/ (c.pc = host[r].pc /\ c.n = host[r].n),
         issued' = issued, left' = left
  PROVE  Ordered'
  <1>1. Machines'  BY DEF Ordered, Machines
  <1>2. Counters'  BY DEF Ordered, Counters
  <1>3. AtBarrier'  BY DEF Ordered, AtBarrier, At, Machines
  <1>4. \E k \in Nat : HaveRun(k)'  BY DEF Ordered, HaveRun, Machines
  <1>q. QED  BY <1>1, <1>2, <1>3, <1>4 DEF Ordered

\* A rank issues a collective.
LEMMA IssueStep ==
  ASSUME Ordered, NEW r \in Ranks, NEW d, IsDevice(d), Waiting(d) = Waiting(dev[r]) + 1,
         dev' = [dev EXCEPT ![r] = d],
         NEW c, IsCall(c), host' = [host EXCEPT ![r] = c],
         c.pc \in {"idle", "barrierSync"},
         c.pc = "barrierSync" => c.n = issued[r] + 1,
         issued' = [issued EXCEPT ![r] = issued[r] + 1], left' = left
  PROVE  Ordered'
  <1>1. Machines'  BY DEF Ordered, Machines
  <1>2. Counters'  BY DEF Ordered, Counters
  <1>3. AtBarrier'  BY DEF Ordered, AtBarrier, At, Machines, Counters
  <1>4. \A q \in Ranks : Waiting(dev[q]) \in Nat  BY WaitingType DEF Ordered, Machines
  <1>5. PICK k \in Nat : HaveRun(k)  BY DEF Ordered
  <1>6. HaveRun(k)'  BY <1>4, <1>5 DEF Ordered, HaveRun, Machines, Counters
  <1>q. QED  BY <1>1, <1>2, <1>3, <1>6 DEF Ordered

LEMMA ExecuteOrdered ==
  ASSUME Ordered, NEW r \in Ranks, NEW s \in Streams, Execute(r, s)
  PROVE  Ordered'
  <1> DEFINE d == Dequeue(r, s)
             q == Queue(r, s)
  <1>1. IsDevice(dev[r]) /\ IsCall(host[r]) /\ IsQueue(q) /\ q # <<>>
    BY DEF Execute, Ordered, Machines, IsDevice, Queue
  <1>2. /\ DOMAIN d = {"queue", "events"} /\ DOMAIN d.queue = Streams
        /\ d.queue[s] = Tail(q)
        /\ \A z \in Streams \ {s} : d.queue[z] = dev[r].queue[z]
    BY <1>1 DEF Dequeue, Queue, IsDevice
  <1>3. IsQueue(Tail(q)) /\ Count(Tail(q)) = Count(q) - Weight(q[1])  BY <1>1, TailCount
  <1>4. IsDevice(d)  BY <1>1, <1>2, <1>3 DEF IsDevice
  <1>5. Weight(q[1]) = 0  BY DEF Execute, Weight
  <1>6. Count(q) \in Nat  BY <1>1, QueueFacts
  <1>7. Waiting(d) = Waiting(dev[r])
    <2>1. CASE s = "comm"
      BY <1>2, <1>3, <1>5, <1>6, <2>1 DEF Waiting, Queue
    <2>2. CASE s # "comm"  BY <1>2, <2>2 DEF Waiting, Streams
    <2>q. QED  BY <2>1, <2>2
  <1>8. PICK c : /\ IsCall(c) /\ host' = [host EXCEPT ![r] = c]
                 /\ c.pc = host[r].pc /\ c.n = host[r].n
    <2>1. CASE host' = host  BY <1>1, <2>1 DEF Ordered, Machines
    <2>2. CASE host' = [host EXCEPT ![r].data = mem[r][q[1].from]]
      <3> DEFINE c == [host[r] EXCEPT !.data = mem[r][q[1].from]]
      <3>1. IsCall(c) /\ c.pc = host[r].pc /\ c.n = host[r].n  BY <1>1 DEF IsCall
      <3>q. QED  BY <2>2, <3>1
    <2>q. QED  BY <2>1, <2>2 DEF Execute
  <1>9. dev' = [dev EXCEPT ![r] = d] /\ issued' = issued /\ left' = left
    BY DEF Execute, collective
  <1> HIDE DEF d, q
  <1>q. QED  BY <1>4, <1>7, <1>8, <1>9, OtherStep

\* A collective leaves the queues of all devices at once.
LEMMA AllReduceOrdered ==
  ASSUME Ordered, RunAllReduce
  PROVE  Ordered'
  <1>1. ASSUME NEW r \in Ranks
        PROVE  IsDevice(dev'[r]) /\ Waiting(dev'[r]) = Waiting(dev[r]) - 1
    <2> DEFINE q == Queue(r, "comm")
    <2>1. IsDevice(dev[r]) /\ IsQueue(q) /\ q # <<>> /\ q[1].op = "allreduce"
      BY DEF RunAllReduce, Ordered, Machines, IsDevice, Queue, Streams
    <2>2. dev'[r] = Dequeue(r, "comm")  BY DEF RunAllReduce
    <2>3. /\ DOMAIN dev'[r] = {"queue", "events"} /\ DOMAIN dev'[r].queue = Streams
          /\ dev'[r].queue["comm"] = Tail(q)
          /\ \A z \in Streams \ {"comm"} : dev'[r].queue[z] = dev[r].queue[z]
      BY <2>1, <2>2 DEF Dequeue, Queue, IsDevice, Streams
    <2>4. IsQueue(Tail(q)) /\ Count(Tail(q)) = Count(q) - 1
      BY <2>1, TailCount DEF Weight
    <2>5. IsDevice(dev'[r])  BY <2>1, <2>3, <2>4 DEF IsDevice
    <2>q. QED  BY <2>3, <2>4, <2>5 DEF Waiting, Queue
  <1>2. dev' = [r \in Ranks |-> dev'[r]] /\ UNCHANGED <<host, issued, left>>
    BY DEF RunAllReduce, collective
  <1>3. Machines'  BY <1>1, <1>2 DEF Ordered, Machines
  <1>4. Counters' /\ AtBarrier'  BY <1>2 DEF Ordered, Counters, AtBarrier, At
  <1>5. \A r \in Ranks : Waiting(dev[r]) \in Nat  BY WaitingType DEF Ordered, Machines
  <1>6. PICK k \in Nat : HaveRun(k)  BY DEF Ordered
  <1>7. HaveRun(k + 1)'  BY <1>1, <1>2, <1>5, <1>6 DEF Ordered, Counters, HaveRun
  <1>8. k + 1 \in Nat  OBVIOUS
  <1>q. QED  BY <1>3, <1>4, <1>7, <1>8 DEF Ordered

\* Actions that only append to the compute or the copy stream, or make and destroy
\* events.
LEMMA CopiesOrdered ==
  ASSUME Ordered, NEW r \in Ranks, Copies(r)
  PROVE  Ordered'
  <1> USE DEF At
  <1>1. /\ IsDevice(dev[r]) /\ IsCall(host[r]) /\ Waiting(dev[r]) \in Nat
        /\ dev = [dev EXCEPT ![r] = dev[r]] /\ host = [host EXCEPT ![r] = host[r]]
    BY WaitingType DEF Ordered, Machines
  <1>2. ASSUME NEW d, IsDevice(d), NEW s \in Streams, NEW c, c.op # "allreduce"
        PROVE  IsDevice(Enqueue(d, s, c)) /\ Waiting(Enqueue(d, s, c)) = Waiting(d)
    <2>1. Weight(c) = 0  BY <1>2 DEF Weight
    <2>q. QED  BY <1>2, <2>1, EnqueueCount, WaitingType
  <1>3. \A b, a, v : /\ Cmd("write", b, NoBuffer, v, 0).op # "allreduce"
                    /\ Cmd("copy", b, a, {}, 0).op # "allreduce"
                    /\ Cmd("read", NoBuffer, b, {}, 0).op # "allreduce"
    BY DEF Cmd
  <1>4. IsCall(Idle) /\ Idle.pc = "idle"  BY DEF IsCall, Idle
  <1>5. ASSUME NEW b \in Buffers, CopyToDevice(r, b) PROVE Ordered'
    <2> DEFINE x == Cmd("write", b, NoBuffer, {<<r, spent[r].uploads + 1>>}, 0)
               d == Enqueue(dev[r], "compute", x)
    <2>1. IsDevice(d) /\ Waiting(d) = Waiting(dev[r])
      <3>1. x.op # "allreduce"  BY <1>3
      <3> HIDE DEF x
      <3>q. QED  BY <1>1, <1>2, <3>1 DEF Streams
    <2>2. dev' = [dev EXCEPT ![r] = d]  BY <1>5 DEF CopyToDevice
    <2> HIDE DEF d
    <2>q. QED  BY <1>1, <1>5, <2>1, <2>2, OtherStep DEF CopyToDevice, collective
  <1>6. ASSUME NEW a \in Buffers, NEW b \in Buffers, CopyWithinDevice(r, a, b) PROVE Ordered'
    <2> DEFINE x == Cmd("copy", b, a, {}, 0)
               d == Enqueue(dev[r], "compute", x)
    <2>1. IsDevice(d) /\ Waiting(d) = Waiting(dev[r])
      <3>1. x.op # "allreduce"  BY <1>3
      <3> HIDE DEF x
      <3>q. QED  BY <1>1, <1>2, <3>1 DEF Streams
    <2>2. dev' = [dev EXCEPT ![r] = d]  BY <1>6 DEF CopyWithinDevice
    <2> HIDE DEF d
    <2>q. QED  BY <1>1, <1>6, <2>1, <2>2, OtherStep DEF CopyWithinDevice, collective
  <1>7. ASSUME NEW b \in Buffers, CopyFromDevice(r, b) PROVE Ordered'
    <2> DEFINE x == Cmd("read", NoBuffer, b, {}, 0)
               d == Enqueue(dev[r], "compute", x)
               c == [Idle EXCEPT !.pc = "compute", !.want = logical[r][b]]
    <2>1. IsDevice(d) /\ Waiting(d) = Waiting(dev[r])
      <3>1. x.op # "allreduce"  BY <1>3
      <3> HIDE DEF x
      <3>q. QED  BY <1>1, <1>2, <3>1 DEF Streams
    <2>2. IsCall(c) /\ c.pc = "compute"  BY DEF IsCall, Idle
    <2>3. dev' = [dev EXCEPT ![r] = d] /\ host' = [host EXCEPT ![r] = c]
      BY <1>7 DEF CopyFromDevice
    <2> HIDE DEF d, c
    <2>q. QED  BY <1>7, <2>1, <2>2, <2>3, OtherStep DEF CopyFromDevice, collective
  <1>8. ASSUME CopyDone(r) PROVE Ordered'
    <2> DEFINE d == DestroyEvent(dev[r], host[r].event)
    <2>1. IsDevice(d) /\ Waiting(d) = Waiting(dev[r])
      BY <1>1, DestroyCalls DEF DestroyEvent
    <2>2. dev' = [dev EXCEPT ![r] = d]  BY <1>8 DEF CopyDone
    <2> HIDE DEF d
    <2>q. QED  BY <1>4, <1>8, <2>1, <2>2, OtherStep DEF CopyDone, Return, collective
  <1>9. ASSUME NEW b \in Buffers, RecordEvent(r, b) PROVE Ordered'
    <2> DEFINE d == RecordEventOnCompute(dev[r], FreshEvent(dev[r]))
    <2>1. IsDevice(d) /\ Waiting(d) = Waiting(dev[r])
      BY <1>1, EventCalls DEF RecordEventOnCompute, Streams
    <2>2. dev' = [dev EXCEPT ![r] = d]  BY <1>9 DEF RecordEvent
    <2> HIDE DEF d
    <2>q. QED  BY <1>1, <1>9, <2>1, <2>2, OtherStep DEF RecordEvent, collective
  <1>10. ASSUME NEW b \in Buffers, CopyFromDevicePipelined(r, b) PROVE Ordered'
    <2> DEFINE w == CopyStreamWaitEvent(dev[r], recorded[r][b].event)
               d == Enqueue(w, "copy", Cmd("read", NoBuffer, b, {}, 0))
               c == [Idle EXCEPT !.pc = "copy", !.event = recorded[r][b].event,
                                 !.want = recorded[r][b].want]
    <2>1. IsDevice(w) /\ Waiting(w) = Waiting(dev[r])
      BY <1>1, EventCalls DEF CopyStreamWaitEvent, Streams
    <2>2. IsCall(c) /\ c.pc = "copy"  BY DEF IsCall, Idle
    <2>3. dev' = [dev EXCEPT ![r] = d] /\ host' = [host EXCEPT ![r] = c]
      BY <1>10 DEF CopyFromDevicePipelined
    <2> HIDE DEF w
    <2>4. IsDevice(d) /\ Waiting(d) = Waiting(dev[r])  BY <1>2, <1>3, <2>1 DEF Streams
    <2> HIDE DEF d, c
    <2>q. QED  BY <1>10, <2>2, <2>3, <2>4, OtherStep
                DEF CopyFromDevicePipelined, Pipelined, collective
  <1>11. ASSUME NEW b \in Buffers, PipelinedFails(r, b) PROVE Ordered'
    <2> DEFINE e == recorded[r][b].event
               w == CopyStreamWaitEvent(dev[r], e)
    <2>1. IsDevice(w) /\ Waiting(w) = Waiting(dev[r])
      BY <1>1, EventCalls DEF CopyStreamWaitEvent, Streams
    <2>2. \A d \in {dev[r], w} :
            IsDevice(DestroyEvent(d, e)) /\ Waiting(DestroyEvent(d, e)) = Waiting(d)
      BY <1>1, <2>1, DestroyCalls DEF DestroyEvent
    <2>3. \E d \in {dev[r], w} : dev' = [dev EXCEPT ![r] = DestroyEvent(d, e)]
      BY <1>11 DEF PipelinedFails
    <2> HIDE DEF w
    <2>4. PICK f : IsDevice(f) /\ Waiting(f) = Waiting(dev[r]) /\ dev' = [dev EXCEPT ![r] = f]
      BY <2>1, <2>2, <2>3
    <2>q. QED  BY <1>1, <1>11, <2>4, OtherStep DEF PipelinedFails, Pipelined, collective
  <1>12. ASSUME NEW b \in Buffers, PipelinedEmpty(r, b) PROVE Ordered'
    BY <1>1, <1>12, OtherStep DEF PipelinedEmpty, Pipelined, collective
  <1>q. QED
    BY <1>5, <1>6, <1>7, <1>8, <1>9, <1>10, <1>11, <1>12
    DEF Copies, Synchronize, SynchronizeFails

LEMMA CollectivelyOrdered ==
  ASSUME Ordered, NEW r \in Ranks, Collectively(r)
  PROVE  Ordered'
  <1> USE DEF At
  <1>1. /\ IsDevice(dev[r]) /\ IsCall(host[r]) /\ Waiting(dev[r]) \in Nat
        /\ dev = [dev EXCEPT ![r] = dev[r]] /\ host = [host EXCEPT ![r] = host[r]]
        /\ issued[r] \in Nat /\ left[r] \in Nat
    BY WaitingType DEF Ordered, Machines, Counters
  <1>2. IsCall(Idle) /\ Idle.pc = "idle"  BY DEF IsCall, Idle
  <1>3. ASSUME NEW d, IsDevice(d), NEW b
        PROVE  IsDevice(AllReduce(d, b)) /\ Waiting(AllReduce(d, b)) = Waiting(d) + 1
    <2>1. Weight(Cmd("allreduce", b, NoBuffer, {}, 0)) = 1  BY DEF Weight, Cmd
    <2>q. QED  BY <1>3, <2>1, EnqueueCount DEF AllReduce, Streams
  <1>4. ASSUME NEW b \in Buckets, ReduceBucket(r, b) PROVE Ordered'
    <2> DEFINE e == FreshEvent(dev[r])
               made == EventCreate(dev[r])
               recd == RecordOnStream(made, e)
               ready == CommStreamWaitEvent(recd, e)
               sent == AllReduce(ready, b)
               d == RecordOnCommStream(sent, e)
    <2>1. dev' = [dev EXCEPT ![r] = d]  BY <1>4 DEF ReduceBucket
    <2>2. IsDevice(made) /\ Waiting(made) = Waiting(dev[r])
      BY <1>1, EventCalls DEF Streams
    <2> HIDE DEF made, e
    <2>3. IsDevice(recd) /\ Waiting(recd) = Waiting(dev[r])
      BY <2>2, EventCalls DEF RecordOnStream, Streams
    <2> HIDE DEF recd
    <2>4. IsDevice(ready) /\ Waiting(ready) = Waiting(dev[r])
      BY <2>3, EventCalls DEF CommStreamWaitEvent, Streams
    <2> HIDE DEF ready
    <2>5. IsDevice(sent) /\ Waiting(sent) = Waiting(dev[r]) + 1  BY <1>3, <2>4
    <2> HIDE DEF sent
    <2>6. IsDevice(d) /\ Waiting(d) = Waiting(dev[r]) + 1
      BY <2>5, EventCalls DEF RecordOnCommStream, Streams
    <2> HIDE DEF d
    <2>q. QED  BY <1>1, <1>4, <2>1, <2>6, IssueStep DEF ReduceBucket
  <1>5. ASSUME NEW b \in Buckets, AwaitBucket(r, b) PROVE Ordered'
    <2> DEFINE e == flight[r][b].event
               w == StreamWaitEvent(dev[r], e)
               d == DestroyEvent(w, e)
    <2>1. dev' = [dev EXCEPT ![r] = d]  BY <1>5 DEF AwaitBucket
    <2>2. IsDevice(w) /\ Waiting(w) = Waiting(dev[r])
      BY <1>1, EventCalls DEF StreamWaitEvent, Streams
    <2> HIDE DEF w, e
    <2>3. IsDevice(d) /\ Waiting(d) = Waiting(dev[r])
      BY <2>2, DestroyCalls DEF DestroyEvent
    <2> HIDE DEF d
    <2>q. QED  BY <1>1, <1>5, <2>1, <2>3, OtherStep DEF AwaitBucket, collective
  <1>6. ASSUME CallSync(r) PROVE Ordered'
    <2> DEFINE c == [host[r] EXCEPT !.pc = "sync"]
    <2>1. IsCall(c) /\ c.pc = "sync"  BY <1>1 DEF IsCall
    <2>2. host' = [host EXCEPT ![r] = c]  BY <1>6 DEF CallSync
    <2> HIDE DEF c
    <2>q. QED  BY <1>1, <1>6, <2>1, <2>2, OtherStep DEF CallSync, collective
  <1>7. ASSUME Synced(r)
        PROVE  \E d : /\ IsDevice(d) /\ Waiting(d) = Waiting(dev[r])
                      /\ dev' = [dev EXCEPT ![r] = d]
    BY <1>1, <1>7, DestroyCalls DEF Synced
  <1>8. ASSUME Sync(r) PROVE Ordered'
    <2>1. Synced(r)  BY <1>8 DEF Sync
    <2>2. PICK d : /\ IsDevice(d) /\ Waiting(d) = Waiting(dev[r])
                   /\ dev' = [dev EXCEPT ![r] = d]
      BY <1>7, <2>1
    <2>q. QED  BY <1>2, <1>8, <2>2, OtherStep DEF Sync, Synced, Return, collective
  <1>9. ASSUME Barrier(r) PROVE Ordered'
    <2> DEFINE c == [Idle EXCEPT !.pc = "barrier", !.n = issued[r] + 1]
    <2>1. IsCall(c) /\ c.pc = "barrier" /\ c.n = issued[r] + 1  BY DEF IsCall, Idle
    <2>2. host' = [host EXCEPT ![r] = c] /\ UNCHANGED <<dev, issued, left>>
      BY <1>9 DEF Barrier, collective
    <2> HIDE DEF c
    <2>3. Machines' /\ Counters'  BY <2>1, <2>2 DEF Ordered, Machines, Counters
    <2>4. AtBarrier'  BY <2>1, <2>2 DEF Ordered, AtBarrier, Machines
    <2>5. \E k \in Nat : HaveRun(k)'  BY <2>2 DEF Ordered, HaveRun
    <2>q. QED  BY <2>3, <2>4, <2>5 DEF Ordered
  <1>10. ASSUME BarrierReduce(r) PROVE Ordered'
    <2> DEFINE c == [host[r] EXCEPT !.pc = "barrierSync"]
               d == AllReduce(dev[r], NoBuffer)
    <2>1. host[r].n = issued[r] + 1  BY <1>10 DEF BarrierReduce, Ordered, AtBarrier
    <2>2. IsCall(c) /\ c.pc = "barrierSync" /\ c.n = issued[r] + 1  BY <1>1, <2>1 DEF IsCall
    <2>3. IsDevice(d) /\ Waiting(d) = Waiting(dev[r]) + 1  BY <1>1, <1>3
    <2>4. /\ host' = [host EXCEPT ![r] = c] /\ dev' = [dev EXCEPT ![r] = d]
          /\ issued' = [issued EXCEPT ![r] = issued[r] + 1] /\ left' = left
      BY <1>10, <2>1 DEF BarrierReduce
    <2> HIDE DEF c, d
    <2>q. QED  BY <2>2, <2>3, <2>4, IssueStep
  \* Nothing waits on the stream: what the rank has issued has run.
  <1>11. ASSUME BarrierReturns(r) PROVE Ordered'
    <2>1. Synced(r) /\ host[r].pc = "barrierSync"  BY <1>11 DEF BarrierReturns
    <2>2. PICK d : /\ IsDevice(d) /\ Waiting(d) = Waiting(dev[r])
                   /\ dev' = [dev EXCEPT ![r] = d]
      BY <1>7, <2>1
    <2>3. /\ host' = [host EXCEPT ![r] = Idle] /\ issued' = issued
          /\ left' = [left EXCEPT ![r] = issued[r]]
      BY <1>11, <2>1 DEF BarrierReturns, Synced, Return, Ordered, AtBarrier
    <2>4. Waiting(dev[r]) = 0
      BY <1>1, <2>1, QueueFacts DEF Synced, CommIdle, Queue, Waiting, IsDevice, Streams
    <2>5. Machines'  BY <1>2, <2>2, <2>3 DEF Ordered, Machines
    <2>6. Counters'  BY <2>3 DEF Ordered, Counters
    <2>7. AtBarrier'  BY <1>2, <2>3 DEF Ordered, AtBarrier, Machines
    <2>8. PICK k \in Nat : HaveRun(k)  BY DEF Ordered
    <2>9. issued[r] = k  BY <2>4, <2>8 DEF HaveRun
    <2>10. HaveRun(k)'
      BY <2>2, <2>3, <2>8, <2>9 DEF Ordered, HaveRun, Machines, Counters
    <2>q. QED  BY <2>5, <2>6, <2>7, <2>10 DEF Ordered
  <1>q. QED
    BY <1>4, <1>5, <1>6, <1>8, <1>9, <1>10, <1>11 DEF Collectively

LEMMA OrderedNext == Ordered /\ [Next]_vars => Ordered'
  <1>1. ASSUME Ordered, UNCHANGED vars PROVE Ordered'
    BY <1>1 DEF vars, collective, Ordered, Machines, Counters, AtBarrier, At, HaveRun
  <1>q. QED
    BY <1>1, ExecuteOrdered, AllReduceOrdered, CopiesOrdered, CollectivelyOrdered
    DEF Next, HostStep

\* A rank that has left a barrier has left behind no rank that has not come to it.
LEMMA OrderedSeparates == Ordered => BarrierSeparates
  <1> SUFFICES ASSUME Ordered, NEW r \in Ranks, NEW q \in Ranks, NEW n \in 1..left[r]
               PROVE  issued[q] >= n
    BY DEF BarrierSeparates
  <1>1. PICK k \in Nat : HaveRun(k)  BY DEF Ordered
  <1>2. Waiting(dev[q]) \in Nat  BY WaitingType DEF Ordered, Machines
  <1>q. QED  BY <1>1, <1>2 DEF HaveRun, Ordered, Counters

(***************************************************************************)
(* No rank leaves a barrier, whatever it copies and reduces, before every  *)
(* rank has come to it.                                                    *)
(***************************************************************************)
THEOREM BarriersSeparate == Spec => []BarrierSeparates
  <1>1. Spec => []Ordered  BY OrderedInit, OrderedNext, PTL DEF Spec
  <1>q. QED  BY <1>1, OrderedSeparates, PTL
-----------------------------------------------------------------------------
(***************************************************************************)
(* Events. A holder is an entry of rec (an event recorded for a read) or   *)
(* of fl (a bucket in flight), a call (e, or 0), or nobody (L); every      *)
(* event of D has exactly one.                                             *)
(***************************************************************************)
EventsIn(f) == {f[b].event : b \in DOMAIN f}
OneEach(f) == \A b, c \in DOMAIN f : f[b].event = f[c].event => b = c

OneHolder(D, rec, fl, e, L) ==
  /\ IsFiniteSet(D) /\ D \subseteq Nat \ {0}
  /\ D = EventsIn(rec) \cup EventsIn(fl) \cup ({e} \ {0}) \cup L
  /\ OneEach(rec) /\ OneEach(fl)
  /\ EventsIn(rec) \cap EventsIn(fl) = {}
  /\ e \notin EventsIn(rec) \cup EventsIn(fl) \cup L
  /\ (EventsIn(rec) \cup EventsIn(fl)) \cap L = {}

Without(f, S) == Restrict(f, DOMAIN f \ S)

LEMMA ExtendEvents ==
  ASSUME NEW f, NEW b, b \notin DOMAIN f, NEW y
  PROVE  /\ EventsIn(Extend(f, b, y)) = EventsIn(f) \cup {y.event}
         /\ OneEach(f) /\ y.event \notin EventsIn(f) => OneEach(Extend(f, b, y))
  <1> DEFINE g == Extend(f, b, y)
  <1>1. DOMAIN g = DOMAIN f \cup {b} /\ g[b] = y /\ \A z \in DOMAIN f : g[z] = f[z]
    BY DEF Extend
  <1> HIDE DEF g
  <1>2. EventsIn(g) = EventsIn(f) \cup {y.event}  BY <1>1 DEF EventsIn
  <1>3. OneEach(f) /\ y.event \notin EventsIn(f) => OneEach(g)
    BY <1>1 DEF EventsIn, OneEach
  <1>q. QED  BY <1>2, <1>3 DEF g

LEMMA WithoutEvents ==
  ASSUME NEW f, OneEach(f), NEW S \in SUBSET DOMAIN f
  PROVE  /\ EventsIn(Without(f, S)) = EventsIn(f) \ {f[b].event : b \in S}
         /\ OneEach(Without(f, S))
         /\ {f[b].event : b \in S} \subseteq EventsIn(f)
  <1> DEFINE g == Without(f, S)
  <1>1. DOMAIN g = DOMAIN f \ S /\ \A z \in DOMAIN g : g[z] = f[z]
    BY DEF Without, Restrict
  <1> HIDE DEF g
  <1>2. EventsIn(g) = EventsIn(f) \ {f[b].event : b \in S}
    BY <1>1 DEF EventsIn, OneEach
  <1>3. OneEach(g)  BY <1>1 DEF OneEach
  <1>4. {f[b].event : b \in S} \subseteq EventsIn(f)  BY DEF EventsIn
  <1>q. QED  BY <1>2, <1>3, <1>4 DEF g

\* Among one more number than there are events, one is no event.
LEMMA FreshEventIsFresh ==
  ASSUME NEW d, IsFiniteSet(DOMAIN d.events)
  PROVE  FreshEvent(d) \in Nat \ {0} /\ FreshEvent(d) \notin DOMAIN d.events
  <1> DEFINE D == DOMAIN d.events
             N == Cardinality(D) + 1
  <1>1. Cardinality(D) \in Nat  BY FS_CardinalityType
  <1>2. Cardinality(1..N) = N
    <2>1. N \in Nat /\ N >= 1  BY <1>1
    <2> HIDE DEF N
    <2>q. QED  BY <2>1, FS_Interval
  <1>3. ~(1..N \subseteq D)
    <2> SUFFICES ASSUME 1..N \in SUBSET D PROVE FALSE  OBVIOUS
    <2>1. Cardinality(1..N) <= Cardinality(D)  BY FS_Subset
    <2>q. QED  BY <1>1, <1>2, <2>1
  <1>4. FreshEvent(d) \in 1..N /\ FreshEvent(d) \notin D  BY <1>3 DEF FreshEvent
  <1>q. QED  BY <1>1, <1>4
-----------------------------------------------------------------------------
\* What the calls do to holders.
LEMMA HoldRead ==
  ASSUME NEW D, NEW rec, NEW fl, NEW L, OneHolder(D, rec, fl, 0, L),
         NEW x \in Nat \ {0}, x \notin D, NEW b, NEW y, y.event = x
  PROVE  /\ b \notin DOMAIN rec => OneHolder(D \cup {x}, Extend(rec, b, y), fl, 0, L)
         /\ b \notin DOMAIN fl => OneHolder(D \cup {x}, rec, Extend(fl, b, y), 0, L)
  <1>1. IsFiniteSet(D \cup {x})  BY FS_AddElement DEF OneHolder
  <1>2. x \notin EventsIn(rec) \cup EventsIn(fl) \cup L  BY DEF OneHolder
  <1>3. ASSUME b \notin DOMAIN rec PROVE OneHolder(D \cup {x}, Extend(rec, b, y), fl, 0, L)
    <2>1. EventsIn(Extend(rec, b, y)) = EventsIn(rec) \cup {x} /\ OneEach(Extend(rec, b, y))
      BY <1>2, <1>3, ExtendEvents DEF OneHolder
    <2>q. QED  BY <1>1, <1>2, <2>1 DEF OneHolder
  <1>4. ASSUME b \notin DOMAIN fl PROVE OneHolder(D \cup {x}, rec, Extend(fl, b, y), 0, L)
    <2>1. EventsIn(Extend(fl, b, y)) = EventsIn(fl) \cup {x} /\ OneEach(Extend(fl, b, y))
      BY <1>2, <1>4, ExtendEvents DEF OneHolder
    <2>q. QED  BY <1>1, <1>2, <2>1 DEF OneHolder
  <1>q. QED  BY <1>3, <1>4

LEMMA PassRead ==
  ASSUME NEW D, NEW rec, NEW fl, NEW L, OneHolder(D, rec, fl, 0, L), NEW b \in DOMAIN rec
  PROVE  /\ OneHolder(D, Without(rec, {b}), fl, rec[b].event, L)
         /\ OneHolder(D, Without(rec, {b}), fl, 0, L \cup {rec[b].event})
         /\ OneHolder(D \ {rec[b].event}, Without(rec, {b}), fl, 0, L)
  <1> DEFINE x == rec[b].event
             f == Without(rec, {b})
  <1>1. {rec[c].event : c \in {b}} = {x}  OBVIOUS
  <1>2. EventsIn(f) = EventsIn(rec) \ {x} /\ OneEach(f) /\ x \in EventsIn(rec)
    BY <1>1, WithoutEvents DEF OneHolder
  <1> HIDE DEF x, f
  <1>3. IsFiniteSet(D \ {x})  BY FS_RemoveElement DEF OneHolder
  <1>4. x # 0 /\ x \in D /\ x \notin EventsIn(fl) \cup L  BY <1>2 DEF OneHolder
  <1>5. OneHolder(D, f, fl, x, L)  BY <1>2, <1>4 DEF OneHolder
  <1>6. OneHolder(D, f, fl, 0, L \cup {x})  BY <1>2, <1>4 DEF OneHolder
  <1>7. OneHolder(D \ {x}, f, fl, 0, L)  BY <1>2, <1>3, <1>4 DEF OneHolder
  <1>q. QED  BY <1>5, <1>6, <1>7 DEF x, f

LEMMA DropSums ==
  ASSUME NEW D, NEW rec, NEW fl, NEW L, OneHolder(D, rec, fl, 0, L), NEW S \in SUBSET DOMAIN fl
  PROVE  OneHolder(D \ {fl[b].event : b \in S}, rec, Without(fl, S), 0, L)
  <1> DEFINE X == {fl[b].event : b \in S}
             f == Without(fl, S)
  <1>1. EventsIn(f) = EventsIn(fl) \ X /\ OneEach(f) /\ X \subseteq EventsIn(fl)
    BY WithoutEvents DEF OneHolder
  <1> HIDE DEF X, f
  <1>2. IsFiniteSet(D \ X)  BY FS_Subset DEF OneHolder
  <1>3. OneHolder(D \ X, rec, f, 0, L)  BY <1>1, <1>2 DEF OneHolder
  <1>q. QED  BY <1>3 DEF X, f

LEMMA EndCall ==
  ASSUME NEW D, NEW rec, NEW fl, NEW e, NEW L, OneHolder(D, rec, fl, e, L)
  PROVE  OneHolder(D \ {e}, rec, fl, 0, L)
  <1>1. IsFiniteSet(D \ {e})  BY FS_RemoveElement DEF OneHolder
  <1>q. QED  BY <1>1 DEF OneHolder
-----------------------------------------------------------------------------
\* What the driver's calls do to the events that exist.
LEMMA EventDomains ==
  ASSUME NEW d, IsDevice(d), NEW s \in Streams, NEW e, NEW E, NEW c
  PROVE  /\ DOMAIN EventCreate(d).events = DOMAIN d.events \cup {FreshEvent(d)}
         /\ DOMAIN EventRecord(d, e, s).events = DOMAIN d.events
         /\ DOMAIN StreamWait(d, s, e).events = DOMAIN d.events
         /\ DOMAIN DestroyEvents(d, E).events = DOMAIN d.events \ E
         /\ DOMAIN Enqueue(d, s, c).events = DOMAIN d.events
  <1>1. \A z : Enqueue(d, s, z).events = d.events  BY EnqueueCount
  <1>2. \A z : IsDevice(Enqueue(d, s, z))  BY EnqueueCount
  <1>3. DOMAIN EventCreate(d).events = DOMAIN d.events \cup {FreshEvent(d)}
    BY DEF EventCreate, Extend, IsDevice
  <1>4. DOMAIN DestroyEvents(d, E).events = DOMAIN d.events \ E
    BY DEF DestroyEvents, Restrict, IsDevice
  <1>5. DOMAIN StreamWait(d, s, e).events = DOMAIN d.events  BY <1>1 DEF StreamWait
  <1>6. DOMAIN EventRecord(d, e, s).events = DOMAIN d.events
    <2> DEFINE m == FreshMark(d)
               f == Enqueue(d, s, Cmd("record", NoBuffer, NoBuffer, {}, m))
    <2>1. IsDevice(f) /\ f.events = d.events  BY <1>1, <1>2
    <2>2. EventRecord(d, e, s) = [f EXCEPT !.events = [f.events EXCEPT ![e] = m]]
      BY DEF EventRecord
    <2> HIDE DEF f, m
    <2>q. QED  BY <2>1, <2>2 DEF IsDevice
  <1>q. QED  BY <1>1, <1>3, <1>4, <1>5, <1>6

Owned ==
  /\ recorded = [r \in Ranks |-> recorded[r]]
  /\ flight = [r \in Ranks |-> flight[r]]
  /\ lost = [r \in Ranks |-> lost[r]]
  /\ \A r \in Ranks :
       /\ DOMAIN lost[r] = {"events", "sync"}
       /\ OneHolder(DOMAIN dev[r].events, recorded[r], flight[r], host[r].event, lost[r].events)
       /\ host[r].pc # "copy" => host[r].event = 0

LEMMA OwnedInit == Init => Owned
  <1> SUFFICES ASSUME Init PROVE Owned  OBVIOUS
  <1>1. EventsIn(<<>>) = {} /\ OneEach(<<>>) /\ DOMAIN <<>> = {}
    BY EmptySeq DEF EventsIn, OneEach
  <1>2. OneHolder({}, <<>>, <<>>, 0, {})  BY <1>1, FS_EmptySet DEF OneHolder
  <1>q. QED  BY <1>1, <1>2 DEF Init, Owned, Idle

\* A rank's step concerns its own events.
Moves(r, d, c, rec, fl, l) ==
  /\ dev' = [dev EXCEPT ![r] = d] /\ host' = [host EXCEPT ![r] = c]
  /\ recorded' = [recorded EXCEPT ![r] = rec] /\ flight' = [flight EXCEPT ![r] = fl]
  /\ lost' = [lost EXCEPT ![r] = l]

LEMMA OwnedStep ==
  ASSUME Owned, Machines, NEW r \in Ranks, NEW d, NEW c, NEW rec, NEW fl, NEW l,
         Moves(r, d, c, rec, fl, l), DOMAIN l = {"events", "sync"},
         OneHolder(DOMAIN d.events, rec, fl, c.event, l.events),
         c.pc # "copy" => c.event = 0
  PROVE  Owned'
  <1>1. /\ recorded' = [q \in Ranks |-> recorded'[q]]
        /\ flight' = [q \in Ranks |-> flight'[q]]
        /\ lost' = [q \in Ranks |-> lost'[q]]
    BY DEF Owned, Moves
  <1>2. ASSUME NEW q \in Ranks
        PROVE  /\ DOMAIN lost'[q] = {"events", "sync"}
               /\ OneHolder(DOMAIN dev'[q].events, recorded'[q], flight'[q], host'[q].event,
                            lost'[q].events)
               /\ host'[q].pc # "copy" => host'[q].event = 0
    <2>1. CASE q = r
      <3>1. /\ dev'[q] = d /\ host'[q] = c /\ recorded'[q] = rec
            /\ flight'[q] = fl /\ lost'[q] = l
        BY <2>1 DEF Owned, Machines, Moves
      <3>q. QED  BY <3>1
    <2>2. CASE q # r
      <3>1. /\ dev'[q] = dev[q] /\ host'[q] = host[q] /\ recorded'[q] = recorded[q]
            /\ flight'[q] = flight[q] /\ lost'[q] = lost[q]
        BY <2>2 DEF Owned, Machines, Moves
      <3>q. QED  BY <3>1 DEF Owned
    <2>q. QED  BY <2>1, <2>2
  <1>q. QED  BY <1>1, <1>2 DEF Owned, OneHolder, EventsIn, OneEach

\* What nothing changes but the device's queues and a call's data.
LEMMA OwnedKept ==
  ASSUME Owned, UNCHANGED <<recorded, flight, lost>>,
         \A r \in Ranks : /\ DOMAIN dev'[r].events = DOMAIN dev[r].events
                          /\ host'[r].event = host[r].event
                          /\ host'[r].pc = "copy" <=> host[r].pc = "copy"
  PROVE  Owned'
  <1>1. ASSUME NEW r \in Ranks
        PROVE  /\ DOMAIN lost'[r] = {"events", "sync"}
               /\ OneHolder(DOMAIN dev'[r].events, recorded'[r], flight'[r], host'[r].event,
                            lost'[r].events)
               /\ host'[r].pc # "copy" => host'[r].event = 0
    BY DEF Owned
  <1>q. QED  BY <1>1 DEF Owned, OneHolder, EventsIn, OneEach

LEMMA DeviceOwned ==
  ASSUME Owned, Machines
  PROVE  /\ \A r \in Ranks, s \in Streams : Execute(r, s) => Owned'
         /\ RunAllReduce => Owned'
  <1>1. \A r \in Ranks, s \in Streams : Dequeue(r, s).events = dev[r].events
    BY DEF Dequeue, Machines, IsDevice
  <1>2. ASSUME NEW r \in Ranks, NEW s \in Streams, Execute(r, s) PROVE Owned'
    <2>1. \A q \in Ranks : dev'[q].events = dev[q].events
      BY <1>1, <1>2 DEF Execute, Machines
    <2>2. \A q \in Ranks : host'[q].event = host[q].event /\ host'[q].pc = host[q].pc
      BY <1>2 DEF Execute, Machines, IsCall
    <2>q. QED  BY <1>2, <2>1, <2>2, OwnedKept DEF Execute
  <1>3. ASSUME RunAllReduce PROVE Owned'
    <2>1. \A q \in Ranks : dev'[q].events = dev[q].events
      BY <1>1, <1>3 DEF RunAllReduce, Streams
    <2>q. QED  BY <1>3, <2>1, OwnedKept DEF RunAllReduce
  <1>q. QED  BY <1>2, <1>3

\* What a rank's step starts from.
LEMMA OwnedBefore ==
  ASSUME Owned, Machines, NEW r \in Ranks
  PROVE  /\ IsDevice(dev[r]) /\ IsCall(host[r])
         /\ dev = [dev EXCEPT ![r] = dev[r]] /\ host = [host EXCEPT ![r] = host[r]]
         /\ recorded = [recorded EXCEPT ![r] = recorded[r]]
         /\ flight = [flight EXCEPT ![r] = flight[r]]
         /\ lost = [lost EXCEPT ![r] = lost[r]]
         /\ DOMAIN lost[r] = {"events", "sync"}
         /\ OneHolder(DOMAIN dev[r].events, recorded[r], flight[r], host[r].event,
                      lost[r].events)
         /\ host[r].pc # "copy" => host[r].event = 0
  BY DEF Owned, Machines

LEMMA CopiesOwned ==
  ASSUME Owned, Machines, NEW r \in Ranks, Copies(r)
  PROVE  Owned'
  <1> USE DEF At
  <1> DEFINE Events == DOMAIN dev[r].events
  <1>1. /\ IsDevice(dev[r]) /\ IsCall(host[r])
        /\ dev = [dev EXCEPT ![r] = dev[r]] /\ host = [host EXCEPT ![r] = host[r]]
        /\ recorded = [recorded EXCEPT ![r] = recorded[r]]
        /\ flight = [flight EXCEPT ![r] = flight[r]]
        /\ lost = [lost EXCEPT ![r] = lost[r]]
        /\ DOMAIN lost[r] = {"events", "sync"}
        /\ OneHolder(Events, recorded[r], flight[r], host[r].event, lost[r].events)
        /\ host[r].pc # "copy" => host[r].event = 0
    BY OwnedBefore
  <1>2. ASSUME NEW b \in Buffers, CopyToDevice(r, b) PROVE Owned'
    <2> DEFINE d == Enqueue(dev[r], "compute",
                            Cmd("write", b, NoBuffer, {<<r, spent[r].uploads + 1>>}, 0))
    <2>1. DOMAIN d.events = Events  BY <1>1, EventDomains DEF Streams
    <2>2. Moves(r, d, host[r], recorded[r], flight[r], lost[r])
      BY <1>1, <1>2 DEF CopyToDevice, Moves
    <2> HIDE DEF d
    <2>q. QED  BY <1>1, <2>1, <2>2, OwnedStep
  <1>3. ASSUME NEW a \in Buffers, NEW b \in Buffers, CopyWithinDevice(r, a, b) PROVE Owned'
    <2> DEFINE d == Enqueue(dev[r], "compute", Cmd("copy", b, a, {}, 0))
    <2>1. DOMAIN d.events = Events  BY <1>1, EventDomains DEF Streams
    <2>2. Moves(r, d, host[r], recorded[r], flight[r], lost[r])
      BY <1>1, <1>3 DEF CopyWithinDevice, Moves
    <2> HIDE DEF d
    <2>q. QED  BY <1>1, <2>1, <2>2, OwnedStep
  <1>4. ASSUME NEW b \in Buffers, CopyFromDevice(r, b) PROVE Owned'
    <2> DEFINE d == Enqueue(dev[r], "compute", Cmd("read", NoBuffer, b, {}, 0))
               c == [Idle EXCEPT !.pc = "compute", !.want = logical[r][b]]
    <2>1. DOMAIN d.events = Events  BY <1>1, EventDomains DEF Streams
    <2>2. c.event = 0  BY DEF Idle
    <2>3. Moves(r, d, c, recorded[r], flight[r], lost[r])
      BY <1>1, <1>4 DEF CopyFromDevice, Moves
    <2>4. host[r].event = 0  BY <1>1, <1>4 DEF CopyFromDevice
    <2> HIDE DEF d, c
    <2>q. QED  BY <1>1, <2>1, <2>2, <2>3, <2>4, OwnedStep
  <1>5. ASSUME CopyDone(r), NEW l, lost' = [lost EXCEPT ![r] = l],
               DOMAIN l = {"events", "sync"}, l.events = lost[r].events
        PROVE  Owned'
    <2> DEFINE d == DestroyEvent(dev[r], host[r].event)
    <2>1. DOMAIN d.events = Events \ {host[r].event}
      BY <1>1, EventDomains DEF DestroyEvent, Streams
    <2>2. Moves(r, d, Idle, recorded[r], flight[r], l)
      BY <1>1, <1>5 DEF CopyDone, Return, Moves
    <2>3. Idle.event = 0  BY DEF Idle
    <2>4. OneHolder(DOMAIN d.events, recorded[r], flight[r], Idle.event, l.events)
      BY <1>1, <1>5, <2>1, <2>3, EndCall
    <2> HIDE DEF d
    <2>q. QED  BY <1>5, <2>2, <2>3, <2>4, OwnedStep
  <1>6. ASSUME Synchronize(r) \/ SynchronizeFails(r) PROVE Owned'
    <2>1. CopyDone(r)  BY <1>6 DEF Synchronize, SynchronizeFails
    <2>2. \E l : /\ lost' = [lost EXCEPT ![r] = l] /\ DOMAIN l = {"events", "sync"}
                 /\ l.events = lost[r].events
      <3>1. CASE lost' = lost  BY <1>1, <3>1
      <3>2. CASE lost' = [lost EXCEPT ![r] = [lost[r] EXCEPT !.sync = TRUE]]
        <4> DEFINE l == [lost[r] EXCEPT !.sync = TRUE]
        <4>1. DOMAIN l = {"events", "sync"} /\ l.events = lost[r].events  BY <1>1
        <4> HIDE DEF l
        <4>q. QED  BY <3>2, <4>1 DEF l
      <3>q. QED  BY <1>6, <3>1, <3>2 DEF Synchronize, SynchronizeFails
    <2>3. PICK l : /\ lost' = [lost EXCEPT ![r] = l] /\ DOMAIN l = {"events", "sync"}
                   /\ l.events = lost[r].events
      BY <2>2
    <2>q. QED  BY <1>5, <2>1, <2>3
  <1>7. ASSUME NEW b \in Buffers, RecordEvent(r, b) PROVE Owned'
    <2> DEFINE e == FreshEvent(dev[r])
               y == [event |-> e, want |-> logical[r][b]]
               made == EventCreate(dev[r])
               d == EventRecord(made, e, "compute")
    <2>1. e \in Nat \ {0} /\ e \notin Events
      BY <1>1, FreshEventIsFresh DEF OneHolder
    <2>2. IsDevice(made) /\ DOMAIN made.events = Events \cup {e}
      BY <1>1, EventCalls, EventDomains DEF Streams
    <2>3. /\ dev' = [dev EXCEPT ![r] = d]
          /\ recorded' = [recorded EXCEPT ![r] = Extend(recorded[r], b, y)]
          /\ b \notin DOMAIN recorded[r] /\ host[r].pc = "idle"
          /\ UNCHANGED <<host, flight, lost>>
      BY <1>7 DEF RecordEvent, RecordEventOnCompute
    <2>4. y.event = e  OBVIOUS
    <2> HIDE DEF made, y, e
    <2>5. DOMAIN d.events = Events \cup {e}  BY <2>2, EventDomains DEF Streams
    <2>6. host[r].event = 0  BY <1>1, <2>3
    <2>7. OneHolder(Events \cup {e}, Extend(recorded[r], b, y), flight[r], 0, lost[r].events)
      BY <1>1, <2>1, <2>3, <2>4, <2>6, HoldRead
    <2>8. Moves(r, d, host[r], Extend(recorded[r], b, y), flight[r], lost[r])
      BY <1>1, <2>3 DEF Moves
    <2> HIDE DEF d
    <2>q. QED  BY <1>1, <2>5, <2>6, <2>7, <2>8, OwnedStep
  \* What a pipelined copy makes of the event it is given.
  <1>8. ASSUME NEW b \in Buffers, Pipelined(r, b)
        PROVE  /\ b \in DOMAIN recorded[r] /\ host[r].event = 0 /\ host[r].pc = "idle"
               /\ recorded' = [recorded EXCEPT ![r] = Without(recorded[r], {b})]
               /\ flight' = flight
    BY <1>1, <1>8 DEF Pipelined, Without
  <1>9. ASSUME NEW b \in Buffers, CopyFromDevicePipelined(r, b) PROVE Owned'
    <2> DEFINE e == recorded[r][b].event
               w == CopyStreamWaitEvent(dev[r], e)
               d == Enqueue(w, "copy", Cmd("read", NoBuffer, b, {}, 0))
               c == [Idle EXCEPT !.pc = "copy", !.event = e, !.want = recorded[r][b].want]
    <2>1. Pipelined(r, b) /\ lost' = lost  BY <1>9 DEF CopyFromDevicePipelined
    <2>2. IsDevice(w) /\ DOMAIN w.events = Events
      BY <1>1, EventCalls, EventDomains DEF CopyStreamWaitEvent, Streams
    <2>3. c.event = e /\ c.pc = "copy"  BY DEF Idle
    <2>4. dev' = [dev EXCEPT ![r] = d] /\ host' = [host EXCEPT ![r] = c]
      BY <1>9 DEF CopyFromDevicePipelined
    <2> HIDE DEF w
    <2>5. DOMAIN d.events = Events  BY <2>2, EventDomains DEF Streams
    <2> HIDE DEF d, c
    <2>6. OneHolder(Events, Without(recorded[r], {b}), flight[r], e, lost[r].events)
      BY <1>1, <1>8, <2>1, PassRead
    <2>7. Moves(r, d, c, Without(recorded[r], {b}), flight[r], lost[r])
      BY <1>1, <1>8, <2>1, <2>4 DEF Moves
    <2>q. QED  BY <1>1, <2>3, <2>5, <2>6, <2>7, OwnedStep
  <1>10. ASSUME NEW b \in Buffers, PipelinedFails(r, b) PROVE Owned'
    <2> DEFINE e == recorded[r][b].event
               w == CopyStreamWaitEvent(dev[r], e)
    <2>1. Pipelined(r, b) /\ lost' = lost /\ host' = host  BY <1>10 DEF PipelinedFails
    <2>2. IsDevice(w) /\ DOMAIN w.events = Events
      BY <1>1, EventCalls, EventDomains DEF CopyStreamWaitEvent, Streams
    <2>3. \A d \in {dev[r], w} : DOMAIN DestroyEvent(d, e).events = Events \ {e}
      BY <1>1, <2>2, EventDomains DEF DestroyEvent, Streams
    <2>4. \E d \in {dev[r], w} : dev' = [dev EXCEPT ![r] = DestroyEvent(d, e)]
      BY <1>10 DEF PipelinedFails
    <2> HIDE DEF w
    <2>5. PICK f : DOMAIN f.events = Events \ {e} /\ dev' = [dev EXCEPT ![r] = f]
      BY <2>3, <2>4
    <2>6. OneHolder(Events \ {e}, Without(recorded[r], {b}), flight[r], 0, lost[r].events)
      <3>1. OneHolder(Events, recorded[r], flight[r], 0, lost[r].events) /\ b \in DOMAIN recorded[r]
        BY <1>1, <1>8, <2>1
      <3> HIDE DEF Events
      <3>q. QED  BY <3>1, PassRead
    <2>7. Moves(r, f, host[r], Without(recorded[r], {b}), flight[r], lost[r])
      BY <1>1, <1>8, <2>1, <2>5 DEF Moves
    <2>8. host[r].event = 0  BY <1>8, <2>1
    <2>q. QED  BY <1>1, <2>5, <2>6, <2>7, <2>8, OwnedStep
  <1>11. ASSUME NEW b \in Buffers, PipelinedEmpty(r, b) PROVE Owned'
    <2> DEFINE e == recorded[r][b].event
               l == [lost[r] EXCEPT !.events = @ \cup {e}]
    <2>1. Pipelined(r, b) /\ dev' = dev /\ host' = host /\ lost' = [lost EXCEPT ![r] = l]
      BY <1>11 DEF PipelinedEmpty
    <2>2. DOMAIN l = {"events", "sync"} /\ l.events = lost[r].events \cup {e}  BY <1>1
    <2>3. OneHolder(Events, Without(recorded[r], {b}), flight[r], 0, lost[r].events \cup {e})
      <3>1. OneHolder(Events, recorded[r], flight[r], 0, lost[r].events) /\ b \in DOMAIN recorded[r]
        BY <1>1, <1>8, <2>1
      <3> HIDE DEF Events
      <3>q. QED  BY <3>1, PassRead
    <2>4. Moves(r, dev[r], host[r], Without(recorded[r], {b}), flight[r], l)
      BY <1>1, <1>8, <2>1 DEF Moves
    <2>5. host[r].event = 0  BY <1>8, <2>1
    <2> HIDE DEF l
    <2>q. QED  BY <2>2, <2>3, <2>4, <2>5, OwnedStep
  <1>q. QED  BY <1>2, <1>3, <1>4, <1>6, <1>7, <1>9, <1>10, <1>11 DEF Copies

LEMMA CollectivelyOwned ==
  ASSUME Owned, Machines, NEW r \in Ranks, Collectively(r)
  PROVE  Owned'
  <1> USE DEF At
  <1> DEFINE Events == DOMAIN dev[r].events
  <1>1. /\ IsDevice(dev[r]) /\ IsCall(host[r])
        /\ dev = [dev EXCEPT ![r] = dev[r]] /\ host = [host EXCEPT ![r] = host[r]]
        /\ recorded = [recorded EXCEPT ![r] = recorded[r]]
        /\ flight = [flight EXCEPT ![r] = flight[r]]
        /\ lost = [lost EXCEPT ![r] = lost[r]]
        /\ DOMAIN lost[r] = {"events", "sync"}
        /\ OneHolder(Events, recorded[r], flight[r], host[r].event, lost[r].events)
        /\ host[r].pc # "copy" => host[r].event = 0
    BY OwnedBefore
  <1>2. ASSUME NEW b \in Buckets, ReduceBucket(r, b) PROVE Owned'
    <2> DEFINE e == FreshEvent(dev[r])
               y == [event |-> e, n |-> issued[r] + 1]
               made == EventCreate(dev[r])
               recd == RecordOnStream(made, e)
               ready == CommStreamWaitEvent(recd, e)
               sent == AllReduce(ready, b)
               d == RecordOnCommStream(sent, e)
    <2>1. e \in Nat \ {0} /\ e \notin Events
      BY <1>1, FreshEventIsFresh DEF OneHolder
    <2>2. y.event = e  OBVIOUS
    <2>3. /\ Moves(r, d, host[r], recorded[r], Extend(flight[r], b, y), lost[r])
          /\ b \notin DOMAIN flight[r] /\ host[r].pc = "idle"
      BY <1>1, <1>2 DEF ReduceBucket, Moves, Writable, Lent
    <2>4. IsDevice(made) /\ DOMAIN made.events = Events \cup {e}
      BY <1>1, EventCalls, EventDomains DEF Streams
    <2> HIDE DEF made, y, e
    <2>5. IsDevice(recd) /\ DOMAIN recd.events = Events \cup {e}
      BY <2>4, EventCalls, EventDomains DEF RecordOnStream, Streams
    <2> HIDE DEF recd
    <2>6. IsDevice(ready) /\ DOMAIN ready.events = Events \cup {e}
      BY <2>5, EventCalls, EventDomains DEF CommStreamWaitEvent, Streams
    <2> HIDE DEF ready
    <2>7. IsDevice(sent) /\ DOMAIN sent.events = Events \cup {e}
      BY <2>6, EnqueueCount, EventDomains DEF AllReduce, Streams
    <2> HIDE DEF sent
    <2>8. DOMAIN d.events = Events \cup {e}
      BY <2>7, EventDomains DEF RecordOnCommStream, Streams
    <2> HIDE DEF d
    <2>9. host[r].event = 0  BY <1>1, <2>3
    <2>10. OneHolder(Events \cup {e}, recorded[r], Extend(flight[r], b, y), 0, lost[r].events)
      BY <1>1, <2>1, <2>2, <2>3, <2>9, HoldRead
    <2>q. QED  BY <1>1, <2>3, <2>8, <2>9, <2>10, OwnedStep
  <1>3. ASSUME NEW b \in Buckets, AwaitBucket(r, b) PROVE Owned'
    <2> DEFINE e == flight[r][b].event
               w == StreamWaitEvent(dev[r], e)
               d == DestroyEvent(w, e)
    <2>1. /\ Moves(r, d, host[r], recorded[r], Without(flight[r], {b}), lost[r])
          /\ b \in DOMAIN flight[r] /\ host[r].pc = "idle"
      BY <1>1, <1>3 DEF AwaitBucket, Moves, Rejoin, Lent, Without
    <2>2. IsDevice(w) /\ DOMAIN w.events = Events
      BY <1>1, EventCalls, EventDomains DEF StreamWaitEvent, Streams
    <2> HIDE DEF w
    <2>3. DOMAIN d.events = Events \ {e}  BY <2>2, EventDomains DEF DestroyEvent, Streams
    <2> HIDE DEF d
    <2>4. host[r].event = 0  BY <1>1, <2>1
    <2>5. OneHolder(Events \ {e}, recorded[r], Without(flight[r], {b}), 0, lost[r].events)
      <3>1. OneHolder(Events, recorded[r], flight[r], 0, lost[r].events)
            /\ {b} \in SUBSET DOMAIN flight[r]
        BY <1>1, <2>1, <2>4
      <3>2. {flight[r][c].event : c \in {b}} = {e}  OBVIOUS
      <3> HIDE DEF Events
      <3>q. QED  BY <3>1, <3>2, DropSums
    <2>q. QED  BY <1>1, <2>1, <2>3, <2>4, <2>5, OwnedStep
  <1>4. ASSUME CallSync(r) PROVE Owned'
    <2> DEFINE c == [host[r] EXCEPT !.pc = "sync"]
    <2>1. c.pc = "sync" /\ c.event = 0 /\ host[r].event = 0
      BY <1>1, <1>4 DEF CallSync, IsCall
    <2>2. Moves(r, dev[r], c, recorded[r], flight[r], lost[r])
      BY <1>1, <1>4 DEF CallSync, Moves
    <2> HIDE DEF c
    <2>q. QED  BY <1>1, <2>1, <2>2, OwnedStep
  <1>5. ASSUME Synced(r), host[r].pc # "copy", UNCHANGED <<recorded, lost>> PROVE Owned'
    <2> DEFINE S == DOMAIN flight[r]
               X == {flight[r][b].event : b \in S}
               d == DestroyEvents(dev[r], X)
    <2>1. Moves(r, d, Idle, recorded[r], Without(flight[r], S), lost[r])
      BY <1>1, <1>5 DEF Synced, Moves, Rejoin, Without, Return
    <2>2. DOMAIN d.events = Events \ X  BY <1>1, EventDomains DEF Streams
    <2>3. Idle.event = 0  BY DEF Idle
    <2>4. OneHolder(Events \ X, recorded[r], Without(flight[r], S), 0, lost[r].events)
      <3>1. OneHolder(Events, recorded[r], flight[r], 0, lost[r].events) /\ S \in SUBSET S
        BY <1>1, <1>5
      <3> HIDE DEF Events
      <3>q. QED  BY <3>1, DropSums
    <2> HIDE DEF d
    <2>q. QED  BY <1>1, <2>1, <2>2, <2>3, <2>4, OwnedStep
  <1>6. Sync(r) \/ BarrierReturns(r) => Owned'  BY <1>5 DEF Sync, BarrierReturns
  <1>7. ASSUME Barrier(r) PROVE Owned'
    <2> DEFINE c == [Idle EXCEPT !.pc = "barrier", !.n = issued[r] + 1]
    <2>1. c.pc = "barrier" /\ c.event = 0 /\ host[r].event = 0
      BY <1>1, <1>7 DEF Barrier, Idle
    <2>2. Moves(r, dev[r], c, recorded[r], flight[r], lost[r])
      BY <1>1, <1>7 DEF Barrier, Moves
    <2> HIDE DEF c
    <2>q. QED  BY <1>1, <2>1, <2>2, OwnedStep
  <1>8. ASSUME BarrierReduce(r) PROVE Owned'
    <2> DEFINE c == [host[r] EXCEPT !.pc = "barrierSync"]
               d == AllReduce(dev[r], NoBuffer)
    <2>1. c.pc = "barrierSync" /\ c.event = 0 /\ host[r].event = 0
      BY <1>1, <1>8 DEF BarrierReduce, IsCall
    <2>2. Moves(r, d, c, recorded[r], flight[r], lost[r])
      BY <1>1, <1>8 DEF BarrierReduce, Moves
    <2>3. DOMAIN d.events = Events  BY <1>1, EventDomains DEF AllReduce, Streams
    <2> HIDE DEF c, d
    <2>q. QED  BY <1>1, <2>1, <2>2, <2>3, OwnedStep
  <1>q. QED  BY <1>2, <1>3, <1>4, <1>6, <1>7, <1>8 DEF Collectively

LEMMA OwnedNext == Owned /\ Machines /\ [Next]_vars => Owned'
  <1>1. ASSUME Owned, UNCHANGED vars PROVE Owned'
    <2>1. UNCHANGED <<dev, host, recorded, flight, lost>>  BY <1>1 DEF vars
    <2>q. QED  BY <1>1, <2>1, OwnedKept
  <1>q. QED  BY <1>1, DeviceOwned, CopiesOwned, CollectivelyOwned DEF Next, HostStep
-----------------------------------------------------------------------------
\* As many entries as events they hold.
LEMMA CountEvents ==
  ASSUME NEW f, OneEach(f), IsFiniteSet(EventsIn(f))
  PROVE  Cardinality(EventsIn(f)) = Cardinality(DOMAIN f) /\ Cardinality(DOMAIN f) \in Nat
  <1> DEFINE D == DOMAIN f
             g == [b \in D |-> f[b].event]
  <1>1. g \in [D -> EventsIn(f)]  BY DEF EventsIn
  <1>2. \A b, c \in D : g[b] = g[c] => b = c  BY DEF OneEach
  <1>3. \A x \in EventsIn(f) : \E b \in D : g[b] = x  BY DEF EventsIn
  <1> HIDE DEF g
  <1>4. g \in Injection(D, EventsIn(f))  BY <1>1, <1>2 DEF Injection, IsInjective
  <1>5. g \in Surjection(D, EventsIn(f))  BY <1>1, <1>3 DEF Surjection
  <1>6. IsFiniteSet(D)  BY <1>4, FS_Injection
  <1>7. ExistsBijection(D, EventsIn(f))  BY <1>4, <1>5 DEF ExistsBijection, Bijection
  <1>q. QED  BY <1>6, <1>7, FS_Bijection, FS_CardinalityType

LEMMA OwnedIsHeld == Owned => EventsHeld
  <1> SUFFICES ASSUME Owned, NEW r \in Ranks
               PROVE  LET reads == {recorded[r][b].event : b \in DOMAIN recorded[r]}
                          sums == {flight[r][b].event : b \in DOMAIN flight[r]}
                          call == {host[r].event} \ {0} IN
                      /\ DOMAIN dev[r].events = reads \cup sums \cup call \cup lost[r].events
                      /\ Cardinality(DOMAIN dev[r].events) =
                           Cardinality(DOMAIN recorded[r]) + Cardinality(DOMAIN flight[r])
                           + Cardinality(call) + Cardinality(lost[r].events)
    BY DEF EventsHeld
  <1> DEFINE D == DOMAIN dev[r].events
             reads == EventsIn(recorded[r])
             sums == EventsIn(flight[r])
             call == {host[r].event} \ {0}
             L == lost[r].events
  <1>1. OneHolder(D, recorded[r], flight[r], host[r].event, L)  BY DEF Owned
  <1>2. IsFiniteSet(D) /\ D = reads \cup sums \cup call \cup L  BY <1>1 DEF OneHolder
  <1>3. /\ reads \cap sums = {} /\ (reads \cup sums) \cap call = {}
        /\ (reads \cup sums \cup call) \cap L = {}
    BY <1>1 DEF OneHolder
  <1>4. OneEach(recorded[r]) /\ OneEach(flight[r])  BY <1>1 DEF OneHolder
  <1> HIDE DEF call, L, D
  <1>5. /\ IsFiniteSet(reads) /\ IsFiniteSet(sums) /\ IsFiniteSet(call) /\ IsFiniteSet(L)
        /\ IsFiniteSet(reads \cup sums) /\ IsFiniteSet(reads \cup sums \cup call)
    BY <1>2, FS_Subset
  <1>6. /\ Cardinality(reads) = Cardinality(DOMAIN recorded[r])
        /\ Cardinality(sums) = Cardinality(DOMAIN flight[r])
    BY <1>4, <1>5, CountEvents
  <1> HIDE DEF reads, sums
  <1>7. ASSUME NEW A, NEW B, IsFiniteSet(A), IsFiniteSet(B), A \cap B = {}
        PROVE  /\ Cardinality(A \cup B) = Cardinality(A) + Cardinality(B)
               /\ Cardinality(A) \in Nat /\ Cardinality(B) \in Nat
    <2>1. Cardinality(A) \in Nat /\ Cardinality(B) \in Nat  BY <1>7, FS_CardinalityType
    <2>2. Cardinality(A \cup B) = Cardinality(A) + Cardinality(B) - Cardinality(A \cap B)
      BY <1>7, FS_Union
    <2>3. Cardinality(A \cap B) = 0  BY <1>7, FS_EmptySet
    <2>q. QED  BY <2>1, <2>2, <2>3
  <1>8. Cardinality(reads \cup sums) = Cardinality(reads) + Cardinality(sums)
    BY <1>3, <1>5, <1>7
  <1>9. Cardinality(reads \cup sums \cup call) = Cardinality(reads \cup sums) + Cardinality(call)
    BY <1>3, <1>5, <1>7
  <1>10. Cardinality(D) = Cardinality(reads \cup sums \cup call) + Cardinality(L)
    BY <1>2, <1>3, <1>5, <1>7
  <1>q. QED  BY <1>2, <1>6, <1>8, <1>9, <1>10 DEF D, L, call, reads, sums, EventsIn

(***************************************************************************)
(* Every event a rank has created has exactly one holder who will destroy  *)
(* it, whichever of its copies fail; only those that PipelinedEmpty left   *)
(* behind have none.                                                       *)
(***************************************************************************)
THEOREM EventsHaveHolders == Spec => []EventsHeld
  <1>1. Spec => []Ordered  BY OrderedInit, OrderedNext, PTL DEF Spec
  <1>2. Ordered => Machines  BY DEF Ordered
  <1>3. Spec => []Owned  BY <1>1, <1>2, OwnedInit, OwnedNext, PTL DEF Spec
  <1>q. QED  BY <1>3, OwnedIsHeld, PTL

(***************************************************************************)
(* The contents of buffers, as what the commands issued so far will make of *)
(* them. First, values.                                                    *)
(***************************************************************************)
\* A value of uploads and of sums up to the i-th.
Known(v, i) == \A x \in v : x[1] \in Ranks \/ (x[1] = 0 /\ x[2] \in 1..i)

\* What is given to a sum speaks of earlier sums only.
Given(g, r) == \A n \in DOMAIN Order : Known(g[n][r], n - 1)

\* A value speaks of the sums it names.
LEMMA KnownSums ==
  ASSUME NEW v, NEW i \in Nat, Known(v, i)
  PROVE  SumsIn(v) \subseteq 1..i
  <1>1. 0 \notin Ranks  BY StreamsAssumption
  <1>q. QED  BY <1>1 DEF Known, SumsIn

\* A value of the first i sums is one of the first j.
LEMMA KnownLater ==
  ASSUME NEW v, NEW i \in Int, NEW j \in Int, i <= j, Known(v, i)
  PROVE  Known(v, j)
  BY DEF Known

\* The collectives are numbered from 1.
LEMMA OrderDomain == DOMAIN Order = 1..Len(Order) /\ Len(Order) \in Nat
  BY StreamsAssumption

\* Giving to a later sum does not change a value of earlier ones.
LEMMA ResolveKept ==
  ASSUME NEW g, NEW h, NEW D \in 0..Len(Order),
         \A r \in Ranks : Given(g, r),
         \A n \in 1..D, r \in Ranks : h[n][r] = g[n][r],
         NEW v, Known(v, D)
  PROVE  Resolve(h, v) = Resolve(g, v)
  <1>1. DOMAIN Order = 1..Len(Order) /\ Len(Order) \in Nat  BY OrderDomain
  <1>2. SumsIn(v) \subseteq 1..D  BY KnownSums
  <1>3. \A n \in 1..D, r \in Ranks : SumsIn(g[n][r]) \subseteq 1..D
    <2> SUFFICES ASSUME NEW n \in 1..D, NEW r \in Ranks PROVE SumsIn(g[n][r]) \subseteq 1..D
      OBVIOUS
    <2>1. Known(g[n][r], n - 1) /\ n - 1 \in Nat  BY <1>1 DEF Given
    <2>2. SumsIn(g[n][r]) \subseteq 1..(n - 1)  BY <2>1, KnownSums
    <2>q. QED  BY <2>2
  <1>4. 1..D \in SUBSET DOMAIN Order  BY <1>1
  <1>5. Closed(g, 1..D) /\ Closed(h, 1..D)  BY <1>3 DEF Closed
  <1>6. Reached(g, v) \subseteq 1..D /\ Reached(h, v) \subseteq 1..D
    BY <1>2, <1>4, <1>5 DEF Reached
  <1>7. ASSUME NEW S \in SUBSET DOMAIN Order
        PROVE  /\ Closed(g, S) => Closed(h, S \cap 1..D)
               /\ Closed(h, S) => Closed(g, S \cap 1..D)
    BY <1>3 DEF Closed
  <1>8. ASSUME NEW n \in Reached(g, v) PROVE n \in Reached(h, v)
    <2> SUFFICES ASSUME NEW S \in SUBSET DOMAIN Order, SumsIn(v) \subseteq S, Closed(h, S)
                 PROVE  n \in S
      BY <1>8 DEF Reached
    <2>1. Closed(g, S \cap 1..D) /\ SumsIn(v) \subseteq S \cap 1..D
          /\ S \cap 1..D \in SUBSET DOMAIN Order
      BY <1>2, <1>7
    <2>q. QED  BY <1>8, <2>1 DEF Reached
  <1>9. ASSUME NEW n \in Reached(h, v) PROVE n \in Reached(g, v)
    <2> SUFFICES ASSUME NEW S \in SUBSET DOMAIN Order, SumsIn(v) \subseteq S, Closed(g, S)
                 PROVE  n \in S
      BY <1>9 DEF Reached
    <2>1. Closed(h, S \cap 1..D) /\ SumsIn(v) \subseteq S \cap 1..D
          /\ S \cap 1..D \in SUBSET DOMAIN Order
      BY <1>2, <1>7
    <2>q. QED  BY <1>9, <2>1 DEF Reached
  <1>10. Reached(h, v) = Reached(g, v)  BY <1>8, <1>9
  <1>11. \A n \in Reached(g, v), r \in Ranks : h[n][r] = g[n][r]  BY <1>6
  <1>q. QED  BY <1>10, <1>11 DEF Resolve

\* An upload stands for itself.
LEMMA ResolveUploads ==
  ASSUME NEW g, NEW v, Known(v, 0)
  PROVE  Resolve(g, v) = v
  <1>1. SumsIn(v) \subseteq 1..0  BY KnownSums
  <1>2. Closed(g, {}) /\ SumsIn(v) = {}  BY <1>1 DEF Closed
  <1>3. Reached(g, v) = {}  BY <1>2 DEF Reached
  <1>4. \A x \in v : x[1] # 0  BY StreamsAssumption DEF Known
  <1>q. QED  BY <1>3, <1>4 DEF Resolve

\* A sum stands for what the values given to it stand for.
LEMMA ResolveSum ==
  ASSUME NEW g, \A r \in Ranks : Given(g, r), NEW n \in DOMAIN Order
  PROVE  Resolve(g, {<<0, n>>}) = UNION {Resolve(g, g[n][r]) : r \in Ranks}
  <1> DEFINE s == {<<0, n>>}
  <1>1. SumsIn(s) = {n}
    <2>1. {y \in s : y[1] = 0} = s  OBVIOUS
    <2>2. {y[2] : y \in s} = {n}  OBVIOUS
    <2>q. QED  BY <2>1, <2>2 DEF SumsIn
  <1>2. \A r \in Ranks : SumsIn(g[n][r]) \subseteq DOMAIN Order
    <2> SUFFICES ASSUME NEW r \in Ranks PROVE SumsIn(g[n][r]) \subseteq DOMAIN Order
      OBVIOUS
    <2>1. Known(g[n][r], n - 1) /\ n - 1 \in Nat  BY OrderDomain DEF Given
    <2>2. SumsIn(g[n][r]) \subseteq 1..(n - 1)  BY <2>1, KnownSums
    <2>q. QED  BY <2>2, OrderDomain
  <1>3. n \in Reached(g, s)  BY <1>1 DEF Reached
  <1> HIDE DEF s
  <1>4. ASSUME NEW r \in Ranks, NEW m \in Reached(g, g[n][r]) PROVE m \in Reached(g, s)
    <2> SUFFICES ASSUME NEW S \in SUBSET DOMAIN Order, SumsIn(s) \subseteq S, Closed(g, S)
                 PROVE  m \in S
      BY <1>4 DEF Reached
    <2>1. SumsIn(g[n][r]) \subseteq S  BY <1>1 DEF Closed
    <2>q. QED  BY <1>4, <2>1 DEF Reached
  <1> DEFINE R == UNION {Reached(g, g[n][r]) : r \in Ranks}
  <1>5. \A r \in Ranks : Reached(g, g[n][r]) \subseteq R  OBVIOUS
  <1>6. R \subseteq DOMAIN Order  BY DEF Reached
  <1>7. \A r \in Ranks : SumsIn(g[n][r]) \subseteq R
    <2> SUFFICES ASSUME NEW r \in Ranks, NEW m \in SumsIn(g[n][r]) PROVE m \in R
      OBVIOUS
    <2>1. m \in Reached(g, g[n][r])  BY <1>2 DEF Reached
    <2>q. QED  BY <2>1
  <1>8. ASSUME NEW r \in Ranks, NEW m \in Reached(g, g[n][r]), NEW q \in Ranks
        PROVE  SumsIn(g[m][q]) \subseteq Reached(g, g[n][r])
    <2> SUFFICES ASSUME NEW k \in SumsIn(g[m][q]) PROVE k \in Reached(g, g[n][r])
      OBVIOUS
    <2>1. m \in DOMAIN Order  BY <1>8 DEF Reached
    <2>2. k \in DOMAIN Order
      <3>1. Known(g[m][q], m - 1) /\ m - 1 \in Nat  BY <2>1, OrderDomain DEF Given
      <3>2. SumsIn(g[m][q]) \subseteq 1..(m - 1)  BY <3>1, KnownSums
      <3>q. QED  BY <2>1, <3>2, OrderDomain
    <2>3. ASSUME NEW S \in SUBSET DOMAIN Order, SumsIn(g[n][r]) \subseteq S, Closed(g, S)
          PROVE  k \in S
      <3>1. m \in S  BY <1>8, <2>3 DEF Reached
      <3>q. QED  BY <2>3, <3>1 DEF Closed
    <2>q. QED  BY <2>2, <2>3 DEF Reached
  <1>9. \A m \in R, q \in Ranks : SumsIn(g[m][q]) \subseteq R  BY <1>8
  <1> HIDE DEF R
  <1>10. Closed(g, R \cup {n})  BY <1>7, <1>9 DEF Closed
  <1>11. Reached(g, s) \subseteq R \cup {n}
    BY <1>1, <1>6, <1>10 DEF Reached
  <1>12. ASSUME NEW x \in Resolve(g, s)
         PROVE  x \in UNION {Resolve(g, g[n][r]) : r \in Ranks}
    <2>1. x[1] # 0 /\ x \notin s  BY <1>12 DEF Resolve, s
    <2>2. PICK m \in Reached(g, s), q \in Ranks : x \in g[m][q]  BY <1>12, <2>1 DEF Resolve
    <2>3. CASE m = n
      <3>1. x \in Resolve(g, g[n][q])  BY <2>1, <2>2, <2>3 DEF Resolve
      <3>q. QED  BY <3>1
    <2>4. CASE m # n
      <3>1. m \in R  BY <1>11, <2>4
      <3>2. PICK r \in Ranks : m \in Reached(g, g[n][r])  BY <3>1 DEF R
      <3>3. x \in Resolve(g, g[n][r])  BY <2>1, <2>2, <3>2 DEF Resolve
      <3>q. QED  BY <3>3
    <2>q. QED  BY <2>3, <2>4
  <1>13. ASSUME NEW r \in Ranks, NEW x \in Resolve(g, g[n][r]) PROVE x \in Resolve(g, s)
    <2>1. x[1] # 0  BY <1>13 DEF Resolve
    <2>2. CASE x \in g[n][r]  BY <1>3, <2>1, <2>2 DEF Resolve
    <2>3. CASE x \notin g[n][r]
      <3>1. PICK m \in Reached(g, g[n][r]), q \in Ranks : x \in g[m][q]
        BY <1>13, <2>3 DEF Resolve
      <3>2. m \in Reached(g, s)  BY <1>4, <3>1
      <3>q. QED  BY <2>1, <3>1, <3>2 DEF Resolve
    <2>q. QED  BY <2>2, <2>3
  <1>q. QED  BY <1>12, <1>13 DEF s

(***************************************************************************)
(* What a rank's queues will do. D collectives have run and i are issued: the *)
(* others are live, and those of them that reduce a buffer have it on loan. *)
(* A proof speaks of a rank's streams through                              *)
(*   q, C, K  the queues of its compute, communicator and copy streams;    *)
(*   E        what the buffers hold, as the compute stream sees them: E[k] just *)
(*            before its k-th command, E[Len(q) + 1] after the last;       *)
(*   P        where in q the record stands that lends the n-th collective its *)
(*            buffer, 0 when it has been taken;                            *)
(*   A        where in C the n-th collective stands;                       *)
(*   N        the collectives that have a buffer on loan;                  *)
(*   M        its memory, L what its program takes the buffers to hold;    *)
(*   F, rec   its buckets in flight and its recorded buffers, ev its events; *)
(*   g        what the ranks gave to the collectives, r the rank.          *)
(***************************************************************************)
\* The collectives issued that have not run; those of them that reduce a buffer.
Live(D, i) == (D + 1)..i
Loans(D, i) == {n \in Live(D, i) : Order[n] \in Buffers}

\* The mark of the record that follows the n-th collective on the communicator's stream.
Final(C, A, n) == C[A[n] + 1].mark
\* Before its k-th command, the compute stream waits for the n-th collective.
Awaited(q, C, A, n, k) ==
  \E j \in 1..Len(q) : j < k /\ q[j].op = "wait" /\ q[j].mark = Final(C, A, n)
\* A command reads or writes the buffer b.
Uses(c, b) ==
  \/ c.op = "write" /\ c.buf = b
  \/ c.op = "copy" /\ b \in {c.buf, c.from}
  \/ c.op = "read" /\ c.from = b
\* What a command of the compute stream makes of the buffers.
After(c, V) ==
  CASE c.op = "write" -> [V EXCEPT ![c.buf] = c.val]
    [] c.op = "copy"  -> [V EXCEPT ![c.buf] = V[c.from]]
    [] OTHER          -> V

\* The commands a program puts on each stream.
ComputeShape(q) ==
  \A k \in 1..Len(q) :
    /\ q[k].op = "write" => q[k].buf \in Buffers /\ Known(q[k].val, 0)
    /\ q[k].op = "copy" => q[k].buf \in Buffers /\ q[k].from \in Buffers
    /\ q[k].op = "read" => q[k].from \in Buffers
CommShape(C) == \A k \in 1..Len(C) : C[k].op \in {"wait", "record", "allreduce"}
CopyShape(K) == \A k \in 1..Len(K) : K[k].op \in {"wait", "read"}

\* The views are of buffers, and of sums already issued.
Views(q, E, i) ==
  \A k \in 1..(Len(q) + 1) : /\ DOMAIN E[k] = Buffers
                             /\ \A b \in Buffers : Known(E[k][b], i)
\* Each command makes the next view, except the records that lend a buffer.
Evolves(q, E, P, N) ==
  \A k \in 1..Len(q) : (\A n \in N : P[n] # k) => E[k + 1] = After(q[k], E[k])
\* A record that lends a buffer finds what the rank gave there, and leaves the sum to come.
Lends(q, E, P, N, g, r) ==
  \A n \in N : P[n] # 0 =>
    /\ P[n] \in 1..Len(q) /\ q[P[n]].op = "record"
    /\ E[P[n]][Order[n]] = g[n][r]
    /\ E[P[n] + 1] = [E[P[n]] EXCEPT ![Order[n]] = {<<0, n>>}]
\* No command uses a buffer on loan, and none lends it again, before a wait for its collective.
Guarded(q, C, P, A, N) ==
  \A n \in N, k \in 1..Len(q) :
    /\ P[n] < k
    /\ \/ Uses(q[k], Order[n])
       \/ \E m \in N : m # n /\ P[m] = k /\ Order[m] = Order[n]
    => Awaited(q, C, A, n, k)
\* The live collectives stand in order on the communicator's stream, each that reduces a
\* buffer between the wait for the record that lends it and the record of its completion.
Queued(q, C, P, A, D, i) ==
  /\ \A n \in Live(D, i) :
       /\ A[n] \in 1..Len(C) /\ C[A[n]].op = "allreduce" /\ C[A[n]].buf = Order[n]
       /\ \A m \in Live(D, i) : n < m => A[n] < A[m]
  /\ \A p \in 1..Len(C) : C[p].op = "allreduce" => \E n \in Live(D, i) : A[n] = p
  /\ \A n \in Loans(D, i) :
       /\ A[n] + 1 \in 1..Len(C) /\ C[A[n] + 1].op = "record"
       /\ P[n] # 0 => /\ A[n] > 1 /\ C[A[n] - 1].op = "wait"
                      /\ C[A[n] - 1].mark = q[P[n]].mark
\* A loan is in flight or awaited, a bucket in flight will hold its sum, and every other
\* buffer will hold what the program takes it to.
Flies(q, C, A, E, N, F, L, ev, i) ==
  /\ \A n \in N : \/ Order[n] \in DOMAIN F /\ F[Order[n]].n = n
                  \/ Awaited(q, C, A, n, Len(q) + 1)
  /\ DOMAIN F \subseteq Buffers
  /\ \A b \in DOMAIN F :
       /\ F[b].n \in 1..i
       /\ E[Len(q) + 1][b] = {<<0, F[b].n>>}
       /\ F[b].n \in N => ev[F[b].event] = Final(C, A, F[b].n)
  /\ \A b \in Buffers \ DOMAIN F : E[Len(q) + 1][b] = L[b]
\* The memory is the first view, except that a buffer whose loan has begun still holds what
\* its rank gave.
Remembers(E, P, N, M, g, r, D) ==
  /\ \A n \in N : P[n] = 0 => /\ E[1][Order[n]] = {<<0, n>>}
                              /\ M[Order[n]] = Resolve(g, g[n][r])
                              /\ Known(g[n][r], D)
  /\ \A b \in Buffers : (\A n \in N : P[n] = 0 => Order[n] # b) =>
       M[b] = Resolve(g, E[1][b]) /\ Known(E[1][b], D)
\* The k-th command records the mark m.
Records(q, k, m) == q[k].op = "record" /\ q[k].mark = m
\* From the record of m on, or from now when it is taken, b holds w and is on loan to no one.
Stays(q, C, A, N, E, b, m, w) ==
  \E j \in 0..Len(q) :
    /\ j # 0 => Records(q, j, m)
    /\ \A k \in 1..Len(q) : Records(q, k, m) => k = j
    /\ \A k \in 1..(Len(q) + 1) : j <= k => E[k][b] = w
    /\ \A n \in N : Order[n] = b => Awaited(q, C, A, n, j)
\* A recorded buffer still holds, and will hold, what it held at record_event.
Recalls(q, C, A, N, E, rec, ev) ==
  \A b \in DOMAIN rec : /\ b \in Buffers
                        /\ Stays(q, C, A, N, E, b, ev[rec[b].event], rec[b].want)
\* The host has what it came for.
Answered(h, g, D) == h.data = Resolve(g, h.want) /\ Known(h.want, D)
\* No copy to the host is on the queue.
Silent(q) == \A k \in 1..Len(q) : q[k].op # "read"
\* The copy that the host waits for is the last command of its stream, and will find what
\* the host wants; no other copy to the host is on any stream.
Reads(h, q, C, K, A, N, E, ev, g, D) ==
  /\ h.pc # "compute" => Silent(q)
  /\ h.pc # "copy" => Silent(K)
  /\ h.pc = "compute" /\ Len(q) = 0 => Answered(h, g, D)
  /\ h.pc = "compute" /\ Len(q) # 0 =>
       LET c == q[Len(q)] IN c.op = "read" /\ E[Len(q)][c.from] = h.want
  /\ h.pc = "copy" /\ Len(K) = 0 => Answered(h, g, D)
  /\ h.pc = "copy" /\ Len(K) # 0 =>
       LET c == K[Len(K)]
           m == ev[h.event] IN
       /\ c.op = "read" /\ c.from \in Buffers
       /\ Stays(q, C, A, N, E, c.from, m, h.want)
       /\ IF Len(K) = 1 THEN \A k \in 1..Len(q) : ~Records(q, k, m)
          ELSE K[Len(K) - 1].op = "wait" /\ K[Len(K) - 1].mark = m
-----------------------------------------------------------------------------
\* t is q without its first command; the views and places move with it.
IsTail(q, t) ==
  /\ Len(q) \in Nat \ {0} /\ Len(t) = Len(q) - 1
  /\ \A k \in 1..Len(t) : t[k] = q[k + 1]
Shift(E) == [k \in Nat |-> E[k + 1]]
Down(P) == [n \in Nat |-> IF P[n] = 0 THEN 0 ELSE P[n] - 1]

\* The places are numbers.
Ghosts(P, A, N) == P \in [Nat -> Nat] /\ A \in [Nat -> Nat] /\ N \in SUBSET Nat
\* A wait that is taken is for no live collective: its mark would still be on a stream.
NotAwaited(c, C, A, N) == c.op = "wait" => \A n \in N : c.mark # Final(C, A, n)

\* Places when the first command is gone.
LEMMA DownFacts ==
  ASSUME NEW P \in [Nat -> Nat]
  PROVE  /\ Down(P) \in [Nat -> Nat]
         /\ \A n \in Nat : Down(P)[n] = IF P[n] = 0 THEN 0 ELSE P[n] - 1
         /\ \A n \in Nat, k \in Nat \ {0} : Down(P)[n] = k <=> P[n] = k + 1
         /\ \A n \in Nat, k \in Nat \ {0} : Down(P)[n] < k => P[n] < k + 1
  BY DEF Down

\* Views when the first command is gone.
LEMMA ShiftFacts == ASSUME NEW E PROVE \A k \in Nat : Shift(E)[k] = E[k + 1]
  BY DEF Shift

\* A wait that is not taken still comes before what it came before.
LEMMA TailAwaited ==
  ASSUME NEW q, NEW t, IsTail(q, t), NEW C, NEW A, NEW N, NotAwaited(q[1], C, A, N),
         NEW n \in N, NEW k \in Nat
  PROVE  /\ Awaited(q, C, A, n, k + 1) => Awaited(t, C, A, n, k)
         /\ ~Awaited(q, C, A, n, 1) /\ ~Awaited(q, C, A, n, 0)
  <1>1. ASSUME Awaited(q, C, A, n, k + 1) PROVE Awaited(t, C, A, n, k)
    <2>1. PICK j \in 1..Len(q) : j < k + 1 /\ q[j].op = "wait" /\ q[j].mark = Final(C, A, n)
      BY <1>1 DEF Awaited
    <2>2. j # 1  BY <2>1 DEF NotAwaited
    <2>3. j - 1 \in 1..Len(t) /\ t[j - 1] = q[j] /\ j - 1 < k
      BY <2>1, <2>2 DEF IsTail
    <2>q. QED  BY <2>1, <2>3 DEF Awaited
  <1>2. ~Awaited(q, C, A, n, 1) /\ ~Awaited(q, C, A, n, 0)  BY DEF Awaited, IsTail
  <1>q. QED  BY <1>1, <1>2

\* What each conjunct says of the queue, it says of the rest of it.
LEMMA TailViews ==
  ASSUME NEW q, NEW t, IsTail(q, t), NEW E, NEW i, ComputeShape(q), Views(q, E, i)
  PROVE  ComputeShape(t) /\ Views(t, Shift(E), i)
  <1>1. \A k \in 1..Len(t) : k + 1 \in 1..Len(q) /\ t[k] = q[k + 1]  BY DEF IsTail
  <1>2. ComputeShape(t)  BY <1>1 DEF ComputeShape
  <1>3. \A k \in 1..(Len(t) + 1) : k + 1 \in 1..(Len(q) + 1) /\ Shift(E)[k] = E[k + 1]
    BY ShiftFacts DEF IsTail
  <1>4. Views(t, Shift(E), i)  BY <1>3 DEF Views
  <1>q. QED  BY <1>2, <1>4

\* The same of the steps from view to view, and of the loans,
LEMMA TailEvolves ==
  ASSUME NEW q, NEW t, IsTail(q, t), NEW E, NEW P, NEW A, NEW N, Ghosts(P, A, N),
         NEW g, NEW r, Evolves(q, E, P, N), Lends(q, E, P, N, g, r)
  PROVE  Evolves(t, Shift(E), Down(P), N) /\ Lends(t, Shift(E), Down(P), N, g, r)
  <1>1. P \in [Nat -> Nat] /\ N \in SUBSET Nat  BY DEF Ghosts
  <1>2. \A k \in 1..Len(t) : /\ k \in Nat \ {0} /\ k + 1 \in 1..Len(q) /\ t[k] = q[k + 1]
                             /\ Shift(E)[k] = E[k + 1] /\ Shift(E)[k + 1] = E[k + 2]
    <2> SUFFICES ASSUME NEW k \in 1..Len(t)
                 PROVE  /\ k \in Nat \ {0} /\ k + 1 \in 1..Len(q) /\ t[k] = q[k + 1]
                        /\ Shift(E)[k] = E[k + 1] /\ Shift(E)[k + 1] = E[k + 2]
      OBVIOUS
    <2>1. k \in Nat \ {0} /\ k + 1 \in 1..Len(q) /\ t[k] = q[k + 1]  BY DEF IsTail
    <2>2. k + 1 \in Nat /\ (k + 1) + 1 = k + 2  BY <2>1
    <2>3. Shift(E)[k] = E[k + 1]  BY <2>1, ShiftFacts
    <2>4. Shift(E)[k + 1] = E[(k + 1) + 1]  BY <2>2, ShiftFacts
    <2>q. QED  BY <2>1, <2>2, <2>3, <2>4
  <1>3. Evolves(t, Shift(E), Down(P), N)
    <2> SUFFICES ASSUME NEW k \in 1..Len(t), \A n \in N : Down(P)[n] # k
                 PROVE  Shift(E)[k + 1] = After(t[k], Shift(E)[k])
      BY DEF Evolves
    <2>1. \A n \in N : P[n] # k + 1
      <3>1. k \in Nat \ {0}  BY <1>2
      <3>2. \A n \in Nat : Down(P)[n] = k <=> P[n] = k + 1  BY ZenonT(60), <1>1, <3>1, DownFacts
      <3>q. QED  BY <1>1, <3>2
    <2>2. E[k + 1 + 1] = After(q[k + 1], E[k + 1])  BY <1>2, <2>1 DEF Evolves
    <2>3. k + 1 + 1 = k + 2  OBVIOUS
    <2>q. QED  BY <1>2, <2>2, <2>3
  <1>4. Lends(t, Shift(E), Down(P), N, g, r)
    <2> SUFFICES ASSUME NEW n \in N, Down(P)[n] # 0
                 PROVE  /\ Down(P)[n] \in 1..Len(t) /\ t[Down(P)[n]].op = "record"
                        /\ Shift(E)[Down(P)[n]][Order[n]] = g[n][r]
                        /\ Shift(E)[Down(P)[n] + 1] =
                             [Shift(E)[Down(P)[n]] EXCEPT ![Order[n]] = {<<0, n>>}]
      BY DEF Lends
    <2>1. P[n] \in Nat /\ P[n] # 0 /\ Down(P)[n] = P[n] - 1  BY <1>1, DownFacts
    <2>2. /\ P[n] \in 1..Len(q) /\ q[P[n]].op = "record"
          /\ E[P[n]][Order[n]] = g[n][r]
          /\ E[P[n] + 1] = [E[P[n]] EXCEPT ![Order[n]] = {<<0, n>>}]
      BY <2>1 DEF Lends
    <2> DEFINE k == P[n] - 1
    <2>3. k \in 1..Len(t) /\ k + 1 = P[n] /\ k + 2 = P[n] + 1  BY <2>1, <2>2 DEF IsTail
    <2>4. t[k] = q[P[n]] /\ Shift(E)[k] = E[P[n]] /\ Shift(E)[k + 1] = E[P[n] + 1]
      BY <1>2, <2>3
    <2>q. QED  BY <2>1, <2>2, <2>3, <2>4
  <1>q. QED  BY <1>3, <1>4

\* of the waits before the uses of a buffer on loan,
LEMMA TailGuarded ==
  ASSUME NEW q, NEW t, IsTail(q, t), NEW C, NEW P, NEW A, NEW N, Ghosts(P, A, N),
         NotAwaited(q[1], C, A, N), Guarded(q, C, P, A, N)
  PROVE  Guarded(t, C, Down(P), A, N)
  <1>1. P \in [Nat -> Nat] /\ N \in SUBSET Nat  BY DEF Ghosts
  <1> SUFFICES ASSUME NEW n \in N, NEW k \in 1..Len(t), Down(P)[n] < k,
                      \/ Uses(t[k], Order[n])
                      \/ \E m \in N : m # n /\ Down(P)[m] = k /\ Order[m] = Order[n]
               PROVE  Awaited(t, C, A, n, k)
    BY DEF Guarded
  <1>2. k \in Nat \ {0} /\ k + 1 \in 1..Len(q) /\ t[k] = q[k + 1]  BY DEF IsTail
  <1>3. P[n] < k + 1  BY <1>1, <1>2, DownFacts
  <1>4. \/ Uses(q[k + 1], Order[n])
        \/ \E m \in N : m # n /\ P[m] = k + 1 /\ Order[m] = Order[n]
    <2>0. k \in Nat \ {0}  BY <1>2
    <2>1. \A m \in Nat : P[m] = k + 1 <=> Down(P)[m] = k
      <3> SUFFICES ASSUME NEW m \in Nat PROVE P[m] = k + 1 <=> Down(P)[m] = k  OBVIOUS
      <3>1. P[m] \in Nat  BY <1>1
      <3>q. QED  BY <2>0, <3>1 DEF Down
    <2>q. QED  BY <1>1, <1>2, <2>1
  <1>5. Awaited(q, C, A, n, k + 1)  BY <1>2, <1>3, <1>4 DEF Guarded
  <1>q. QED  BY <1>2, <1>5, TailAwaited

\* of the collectives, whose record may now be taken,
LEMMA TailQueued ==
  ASSUME NEW q, NEW t, IsTail(q, t), NEW C, NEW P, NEW A, NEW D, NEW i,
         Ghosts(P, A, Loans(D, i)), NEW E, NEW g, NEW r, Lends(q, E, P, Loans(D, i), g, r),
         Queued(q, C, P, A, D, i)
  PROVE  Queued(t, C, Down(P), A, D, i)
  <1>1. P \in [Nat -> Nat] /\ Loans(D, i) \in SUBSET Nat  BY DEF Ghosts
  <1>2. ASSUME NEW n \in Loans(D, i), Down(P)[n] # 0
        PROVE  P[n] # 0 /\ t[Down(P)[n]] = q[P[n]]
    <2>1. P[n] # 0 /\ Down(P)[n] = P[n] - 1 /\ P[n] \in Nat  BY <1>1, <1>2, DownFacts
    <2>2. P[n] \in 1..Len(q)  BY <2>1 DEF Lends
    <2>3. P[n] - 1 \in 1..Len(t) /\ (P[n] - 1) + 1 = P[n]  BY <1>2, <2>1, <2>2 DEF IsTail
    <2>q. QED  BY <2>1, <2>3 DEF IsTail
  <1>q. QED  BY <1>2 DEF Queued

\* of what the buffers will hold when all has run,
LEMMA TailFlies ==
  ASSUME NEW q, NEW t, IsTail(q, t), NEW C, NEW A, NEW E, NEW N, NEW F, NEW L, NEW ev, NEW i,
         NotAwaited(q[1], C, A, N), Flies(q, C, A, E, N, F, L, ev, i)
  PROVE  Flies(t, C, A, Shift(E), N, F, L, ev, i)
  <1>1. Len(t) \in Nat /\ Len(q) = Len(t) + 1 /\ Len(t) + 1 \in Nat  BY DEF IsTail
  <1>2. Shift(E)[Len(t) + 1] = E[Len(q) + 1]  BY <1>1, ShiftFacts
  <1>3. \A n \in N : Awaited(q, C, A, n, Len(q) + 1) => Awaited(t, C, A, n, Len(t) + 1)
    <2> SUFFICES ASSUME NEW n \in N, Awaited(q, C, A, n, Len(q) + 1)
                 PROVE  Awaited(t, C, A, n, Len(t) + 1)
      OBVIOUS
    <2>1. Awaited(q, C, A, n, (Len(t) + 1) + 1)  BY <1>1
    <2>q. QED  BY <1>1, <2>1, TailAwaited
  <1>q. QED  BY <1>2, <1>3 DEF Flies

\* and of a buffer that keeps its contents.
LEMMA TailStays ==
  ASSUME NEW q, NEW t, IsTail(q, t), NEW C, NEW A, NEW E, NEW N, NEW b, NEW m, NEW w,
         NotAwaited(q[1], C, A, N), Stays(q, C, A, N, E, b, m, w)
  PROVE  Stays(t, C, A, N, Shift(E), b, m, w)
  <1>1. PICK j \in 0..Len(q) :
          /\ j # 0 => Records(q, j, m)
          /\ \A k \in 1..Len(q) : Records(q, k, m) => k = j
          /\ \A k \in 1..(Len(q) + 1) : j <= k => E[k][b] = w
          /\ \A n \in N : Order[n] = b => Awaited(q, C, A, n, j)
    BY DEF Stays
  <1> DEFINE i == IF j = 0 THEN 0 ELSE j - 1
  <1>2. i \in 0..Len(t) /\ Len(t) \in Nat  BY DEF IsTail
  <1>3. \A k \in 1..Len(t) : k + 1 \in 1..Len(q) /\ (Records(t, k, m) <=> Records(q, k + 1, m))
    BY DEF IsTail, Records
  <1>4. i # 0 => Records(t, i, m)  BY <1>1, <1>2, <1>3 DEF IsTail
  <1>5. \A k \in 1..Len(t) : Records(t, k, m) => k = i  BY <1>1, <1>3
  <1>6. \A k \in 1..(Len(t) + 1) : i <= k => Shift(E)[k][b] = w
    <2> SUFFICES ASSUME NEW k \in 1..(Len(t) + 1), i <= k PROVE Shift(E)[k][b] = w
      OBVIOUS
    <2>1. k + 1 \in 1..(Len(q) + 1) /\ j <= k + 1 /\ Shift(E)[k] = E[k + 1]
      BY ShiftFacts DEF IsTail
    <2>q. QED  BY <1>1, <2>1
  <1>7. \A n \in N : Order[n] = b => Awaited(t, C, A, n, i)
    <2> SUFFICES ASSUME NEW n \in N, Order[n] = b PROVE Awaited(t, C, A, n, i)
      OBVIOUS
    <2>1. Awaited(q, C, A, n, j)  BY <1>1
    <2>2. ~Awaited(q, C, A, n, 0)  BY TailAwaited
    <2>3. j # 0  BY <2>1, <2>2
    <2>4. i + 1 = j /\ i \in Nat  BY <2>3 DEF IsTail
    <2> HIDE DEF i
    <2>5. Awaited(q, C, A, n, i + 1)  BY <2>1, <2>4
    <2>q. QED  BY <2>4, <2>5, TailAwaited
  <1> HIDE DEF i
  <1>q. QED  BY <1>2, <1>4, <1>5, <1>6, <1>7 DEF Stays

\* A command changes no buffer but the one it writes.
LEMMA AfterFacts ==
  ASSUME NEW c, NEW V, DOMAIN V = Buffers, NEW b \in Buffers
  PROVE  /\ DOMAIN After(c, V) = Buffers
         /\ ~Uses(c, b) => After(c, V)[b] = V[b]
         /\ c.op = "write" /\ c.buf = b => After(c, V)[b] = c.val
         /\ c.op = "copy" /\ c.buf = b => After(c, V)[b] = V[c.from]
         /\ c.op = "write" /\ c.buf # b => After(c, V)[b] = V[b]
         /\ c.op = "copy" /\ c.buf # b => After(c, V)[b] = V[b]
         /\ c.op \notin {"write", "copy"} => After(c, V) = V
  BY DEF After, Uses

\* What the compute stream does next finds what it uses in the hands of no collective.
LEMMA HeadIsFree ==
  ASSUME NEW q, NEW t, IsTail(q, t), NEW C, NEW P, NEW A, NEW N, Ghosts(P, A, N),
         NotAwaited(q[1], C, A, N), Guarded(q, C, P, A, N), NEW n \in N, P[n] = 0
  PROVE  /\ ~Uses(q[1], Order[n])
         /\ \A m \in N : P[m] = 1 => Order[m] # Order[n]
  <1>1. ~Awaited(q, C, A, n, 1)  BY TailAwaited
  <1>2. 1 \in 1..Len(q)  BY DEF IsTail
  <1>3. ~(\/ Uses(q[1], Order[n])
          \/ \E m \in N : m # n /\ P[m] = 1 /\ Order[m] = Order[n])
    BY <1>1, <1>2 DEF Guarded
  <1>q. QED  BY <1>3

\* The command that is taken makes of the memory what it makes of the first view.
LEMMA TailRemembers ==
  ASSUME NEW q, NEW t, IsTail(q, t), NEW C, NEW P, NEW A, NEW D, NEW i, NEW N,
         N = Loans(D, i), Ghosts(P, A, N),
         NotAwaited(q[1], C, A, N), Guarded(q, C, P, A, N), ComputeShape(q),
         NEW E, Views(q, E, i), Evolves(q, E, P, N), NEW g, NEW r, Lends(q, E, P, N, g, r),
         NEW M, DOMAIN M = Buffers, Remembers(E, P, N, M, g, r, D), D \in Nat
  PROVE  Remembers(Shift(E), Down(P), N, After(q[1], M), g, r, D)
  <1>1. P \in [Nat -> Nat] /\ N \in SUBSET Nat  BY DEF Ghosts
  <1>2. Shift(E)[1] = E[2]
    <2>1. 1 \in Nat /\ 1 + 1 = 2  OBVIOUS
    <2>q. QED  BY <2>1, ShiftFacts
  <1>3. \A n \in N : Down(P)[n] = 0 <=> P[n] = 0 \/ P[n] = 1  BY <1>1, DownFacts
  <1>4. DOMAIN E[1] = Buffers
    <2>1. 1 \in 1..(Len(q) + 1)  BY DEF IsTail
    <2>q. QED  BY <2>1 DEF Views
  <1>5. \A n \in N : Order[n] \in Buffers  BY DEF Loans
  <1>6. ASSUME NEW n \in N, P[n] = 1
        PROVE  /\ q[1].op = "record" /\ After(q[1], M) = M
               /\ E[1][Order[n]] = g[n][r]
               /\ E[2] = [E[1] EXCEPT ![Order[n]] = {<<0, n>>}]
    <2>1. /\ q[1].op = "record" /\ E[1][Order[n]] = g[n][r]
          /\ E[1 + 1] = [E[1] EXCEPT ![Order[n]] = {<<0, n>>}]
      BY <1>6 DEF Lends
    <2>2. After(q[1], M) = M  BY <2>1 DEF After
    <2>q. QED  BY <2>1, <2>2
  <1>7. ASSUME \A n \in N : P[n] # 1 PROVE E[2] = After(q[1], E[1])
    <2>1. 1 \in 1..Len(q) /\ 1 + 1 = 2  BY DEF IsTail
    <2>2. E[1 + 1] = After(q[1], E[1])  BY <1>7, <2>1 DEF Evolves
    <2>q. QED  BY <2>1, <2>2
  <1>8. ASSUME NEW n \in N, P[n] = 0
        PROVE  /\ E[2][Order[n]] = {<<0, n>>}
               /\ After(q[1], M)[Order[n]] = Resolve(g, g[n][r])
               /\ Known(g[n][r], D)
    <2>1. ~Uses(q[1], Order[n]) /\ \A m \in N : P[m] = 1 => Order[m] # Order[n]
      BY <1>8, HeadIsFree
    <2>2. /\ E[1][Order[n]] = {<<0, n>>} /\ M[Order[n]] = Resolve(g, g[n][r])
          /\ Known(g[n][r], D)
      BY <1>8 DEF Remembers
    <2>3. E[2][Order[n]] = E[1][Order[n]]
      <3>1. CASE \E m \in N : P[m] = 1
        <4>1. PICK m \in N : P[m] = 1  BY <3>1
        <4>2. E[2] = [E[1] EXCEPT ![Order[m]] = {<<0, m>>}]  BY <1>6, <4>1
        <4>q. QED  BY <1>4, <1>5, <2>1, <4>1, <4>2
      <3>2. CASE \A m \in N : P[m] # 1  BY <1>4, <1>5, <1>7, <2>1, <3>2, AfterFacts
      <3>q. QED  BY <3>1, <3>2
    <2>4. After(q[1], M)[Order[n]] = M[Order[n]]  BY <1>5, <2>1, AfterFacts
    <2>q. QED  BY <2>2, <2>3, <2>4
  <1>9. \A n \in N : P[n] = 0 => ~Uses(q[1], Order[n])  BY HeadIsFree
  <1>10. ASSUME NEW b \in Buffers, \A n \in N : P[n] = 0 => Order[n] # b
         PROVE  M[b] = Resolve(g, E[1][b]) /\ Known(E[1][b], D)
    BY <1>10 DEF Remembers
  <1>11. ASSUME NEW n \in N, P[n] = 1
         PROVE  /\ E[2][Order[n]] = {<<0, n>>}
                /\ After(q[1], M)[Order[n]] = Resolve(g, g[n][r])
                /\ Known(g[n][r], D)
    <2>1. \A m \in N : P[m] = 0 => Order[m] # Order[n]
      <3> SUFFICES ASSUME NEW m \in N, P[m] = 0 PROVE Order[m] # Order[n]  OBVIOUS
      <3>q. QED  BY <1>11, HeadIsFree
    <2>2. M[Order[n]] = Resolve(g, E[1][Order[n]]) /\ Known(E[1][Order[n]], D)
      BY <1>5, <1>10, <2>1
    <2>3. /\ After(q[1], M) = M /\ E[1][Order[n]] = g[n][r]
          /\ E[2] = [E[1] EXCEPT ![Order[n]] = {<<0, n>>}]
      BY <1>6, <1>11
    <2>q. QED  BY <1>4, <1>5, <2>2, <2>3
  <1>12. ASSUME NEW b \in Buffers, \A n \in N : P[n] = 0 \/ P[n] = 1 => Order[n] # b
         PROVE  After(q[1], M)[b] = Resolve(g, E[2][b]) /\ Known(E[2][b], D)
    <2>1. M[b] = Resolve(g, E[1][b]) /\ Known(E[1][b], D)  BY <1>10, <1>12
    <2>2. CASE \E m \in N : P[m] = 1
      <3>1. PICK m \in N : P[m] = 1  BY <2>2
      <3>2. E[2] = [E[1] EXCEPT ![Order[m]] = {<<0, m>>}] /\ After(q[1], M) = M
        BY <1>6, <3>1
      <3>3. E[2][b] = E[1][b]  BY <1>4, <1>12, <3>1, <3>2
      <3>q. QED  BY <2>1, <3>2, <3>3
    <2>3. CASE \A m \in N : P[m] # 1
      <3>1. E[2] = After(q[1], E[1])  BY <1>7, <2>3
      <3>2. CASE q[1].op = "write" /\ q[1].buf = b
        <4>1. E[2][b] = q[1].val /\ After(q[1], M)[b] = q[1].val
          BY <1>4, <3>1, <3>2, AfterFacts
        <4>2. Known(q[1].val, 0)  BY <3>2 DEF ComputeShape, IsTail
        <4>3. Known(q[1].val, D)  BY <4>2, KnownLater
        <4>q. QED  BY <4>1, <4>2, <4>3, ResolveUploads
      <3>3. CASE q[1].op = "copy" /\ q[1].buf = b
        <4> DEFINE a == q[1].from
        <4>1. a \in Buffers  BY <3>3 DEF ComputeShape, IsTail
        <4>2. E[2][b] = E[1][a] /\ After(q[1], M)[b] = M[a]
          BY <1>4, <3>1, <3>3, AfterFacts
        <4>3. Uses(q[1], a)  BY <3>3 DEF Uses
        <4>4. \A n \in N : P[n] = 0 => Order[n] # a  BY <1>9, <4>3
        <4>5. M[a] = Resolve(g, E[1][a]) /\ Known(E[1][a], D)  BY <1>10, <4>1, <4>4
        <4>q. QED  BY <4>2, <4>5
      <3>4. CASE ~(q[1].op \in {"write", "copy"} /\ q[1].buf = b)
        <4>1. E[2][b] = E[1][b] /\ After(q[1], M)[b] = M[b]
          BY <1>4, <3>1, <3>4, AfterFacts
        <4>q. QED  BY <2>1, <4>1
      <3>q. QED  BY <3>2, <3>3, <3>4
    <2>q. QED  BY <2>2, <2>3
  <1>q. QED  BY <1>2, <1>3, <1>8, <1>11, <1>12 DEF Remembers

\* A read that runs hands over what the call wants.
LEMMA TailReads ==
  ASSUME NEW q, NEW t, IsTail(q, t), NEW C, NEW K, NEW P, NEW A, NEW D, NEW i, NEW N,
         N = Loans(D, i), Ghosts(P, A, N),
         NotAwaited(q[1], C, A, N), Guarded(q, C, P, A, N), ComputeShape(q),
         NEW E, NEW g, NEW r, NEW M, Remembers(E, P, N, M, g, r, D), NEW ev,
         NEW h, IsCall(h), Reads(h, q, C, K, A, N, E, ev, g, D),
         NEW h2, h2 = IF q[1].op = "read" /\ h.pc \in {"compute", "copy"}
                      THEN [h EXCEPT !.data = M[q[1].from]] ELSE h
  PROVE  Reads(h2, t, C, K, A, N, Shift(E), ev, g, D)
  <1>1. h2.pc = h.pc /\ h2.want = h.want /\ h2.event = h.event  BY DEF IsCall
  <1>2. /\ 1 \in 1..Len(q) /\ Len(q) # 0 /\ Len(t) \in Nat /\ Len(q) = Len(t) + 1
        /\ \A k \in 1..Len(t) : k + 1 \in 1..Len(q) /\ t[k] = q[k + 1]
    BY DEF IsTail
  <1>3. Silent(q) => Silent(t)  BY <1>2 DEF Silent
  <1>4. \A m : (\A k \in 1..Len(q) : ~Records(q, k, m)) => \A k \in 1..Len(t) : ~Records(t, k, m)
    BY <1>2 DEF Records
  <1>5. \A b, m, w : Stays(q, C, A, N, E, b, m, w) => Stays(t, C, A, N, Shift(E), b, m, w)
    BY TailStays
  <1>6. CASE h.pc = "compute"
    <2>1. q[Len(q)].op = "read" /\ E[Len(q)][q[Len(q)].from] = h.want /\ Silent(K)
      BY <1>2, <1>6 DEF Reads
    <2>2. CASE Len(t) = 0
      <3>1. Len(q) = 1  BY <1>2, <2>2
      <3>2. q[1].op = "read" /\ E[1][q[1].from] = h.want  BY <2>1, <3>1
      <3>3. q[1].from \in Buffers /\ Uses(q[1], q[1].from)
        BY <1>2, <3>2 DEF ComputeShape, Uses
      <3>4. \A n \in N : P[n] = 0 => Order[n] # q[1].from  BY <3>3, HeadIsFree
      <3>5. M[q[1].from] = Resolve(g, h.want) /\ Known(h.want, D)
        BY <3>2, <3>3, <3>4 DEF Remembers
      <3>6. h2.data = M[q[1].from]  BY <1>6, <3>2 DEF IsCall
      <3>7. Answered(h2, g, D)  BY <1>1, <3>5, <3>6 DEF Answered
      <3>q. QED  BY <1>1, <1>6, <2>1, <2>2, <3>7 DEF Reads
    <2>3. CASE Len(t) # 0
      <3>1. Len(t) \in 1..Len(t) /\ Len(t) \in Nat  BY <1>2, <2>3
      <3>2. t[Len(t)] = q[Len(q)] /\ Shift(E)[Len(t)] = E[Len(q)]  BY <1>2, <3>1, ShiftFacts
      <3>q. QED  BY <1>1, <1>6, <2>1, <2>3, <3>2 DEF Reads
    <2>q. QED  BY <2>2, <2>3
  <1>7. CASE h.pc # "compute"
    <2>1. Silent(q)  BY <1>7 DEF Reads
    <2>2. h2 = h  BY <1>2, <2>1 DEF Silent
    <2>q. QED  BY <1>3, <1>4, <1>5, <1>7, <2>1, <2>2 DEF Reads
  <1>q. QED  BY <1>6, <1>7

(***************************************************************************)
(* The communicator's stream takes a command.                              *)
(***************************************************************************)
\* What is said of the marks of the completions only.
LEMMA FinalsKept ==
  ASSUME NEW q, NEW C, NEW C2, NEW A, NEW A2, NEW N, NEW N2 \in SUBSET N,
         \A n \in N2 : Final(C2, A2, n) = Final(C, A, n)
  PROVE  /\ \A n \in N2 : \A k : Awaited(q, C2, A2, n, k) <=> Awaited(q, C, A, n, k)
         /\ \A P : Guarded(q, C, P, A, N) => Guarded(q, C2, P, A2, N2)
         /\ \A E, F, L, ev, i : Flies(q, C, A, E, N, F, L, ev, i)
                                  => Flies(q, C2, A2, E, N2, F, L, ev, i)
         /\ \A E, b, m, w : Stays(q, C, A, N, E, b, m, w) => Stays(q, C2, A2, N2, E, b, m, w)
         /\ \A E, rec, ev : Recalls(q, C, A, N, E, rec, ev) => Recalls(q, C2, A2, N2, E, rec, ev)
  <1>1. \A n \in N2 : \A k : Awaited(q, C2, A2, n, k) <=> Awaited(q, C, A, n, k)  BY DEF Awaited
  <1>2. \A P : Guarded(q, C, P, A, N) => Guarded(q, C2, P, A2, N2)
    <2> SUFFICES ASSUME NEW P, Guarded(q, C, P, A, N), NEW n \in N2, NEW k \in 1..Len(q),
                        P[n] < k,
                        \/ Uses(q[k], Order[n])
                        \/ \E m \in N2 : m # n /\ P[m] = k /\ Order[m] = Order[n]
                 PROVE  Awaited(q, C2, A2, n, k)
      BY DEF Guarded
    <2>1. Awaited(q, C, A, n, k)  BY DEF Guarded
    <2>q. QED  BY <1>1, <2>1
  <1>3. \A E, F, L, ev, i : Flies(q, C, A, E, N, F, L, ev, i)
                              => Flies(q, C2, A2, E, N2, F, L, ev, i)
    <2> SUFFICES ASSUME NEW E, NEW F, NEW L, NEW ev, NEW i, Flies(q, C, A, E, N, F, L, ev, i)
                 PROVE  Flies(q, C2, A2, E, N2, F, L, ev, i)
      OBVIOUS
    <2>1. \A n \in N2 : \/ Order[n] \in DOMAIN F /\ F[Order[n]].n = n
                        \/ Awaited(q, C2, A2, n, Len(q) + 1)
      BY <1>1 DEF Flies
    <2>2. \A b \in DOMAIN F : F[b].n \in N2 => ev[F[b].event] = Final(C2, A2, F[b].n)
      BY DEF Flies
    <2>q. QED  BY <2>1, <2>2 DEF Flies
  <1>4. \A E, b, m, w : Stays(q, C, A, N, E, b, m, w) => Stays(q, C2, A2, N2, E, b, m, w)
    <2> SUFFICES ASSUME NEW E, NEW b, NEW m, NEW w, Stays(q, C, A, N, E, b, m, w)
                 PROVE  Stays(q, C2, A2, N2, E, b, m, w)
      OBVIOUS
    <2>1. PICK j \in 0..Len(q) :
            /\ j # 0 => Records(q, j, m)
            /\ \A k \in 1..Len(q) : Records(q, k, m) => k = j
            /\ \A k \in 1..(Len(q) + 1) : j <= k => E[k][b] = w
            /\ \A n \in N : Order[n] = b => Awaited(q, C, A, n, j)
      BY DEF Stays
    <2>2. \A n \in N2 : Order[n] = b => Awaited(q, C2, A2, n, j)  BY <1>1, <2>1
    <2>q. QED  BY <2>1, <2>2 DEF Stays
  <1>5. \A E, rec, ev : Recalls(q, C, A, N, E, rec, ev) => Recalls(q, C2, A2, N2, E, rec, ev)
    BY <1>4 DEF Recalls
  <1>q. QED  BY <1>1, <1>2, <1>3, <1>4, <1>5

\* The same of the copy the host waits for, when more collectives have run.
LEMMA ReadsKept ==
  ASSUME NEW h, NEW q, NEW K, NEW C, NEW C2, NEW A, NEW A2, NEW N, NEW N2 \in SUBSET N,
         \A n \in N2 : Final(C2, A2, n) = Final(C, A, n),
         NEW E, NEW ev, NEW g, NEW D \in Nat, NEW D2 \in Nat, D <= D2,
         Reads(h, q, C, K, A, N, E, ev, g, D)
  PROVE  Reads(h, q, C2, K, A2, N2, E, ev, g, D2)
  <1>1. \A b, m, w : Stays(q, C, A, N, E, b, m, w) => Stays(q, C2, A2, N2, E, b, m, w)
    BY FinalsKept
  <1>2. Answered(h, g, D) => Answered(h, g, D2)  BY KnownLater DEF Answered
  <1>q. QED  BY <1>1, <1>2 DEF Reads
-----------------------------------------------------------------------------
\* The communicator's stream takes a wait or a record.
LEMMA CommTail ==
  ASSUME NEW q, NEW C, NEW C2, IsTail(C, C2), C[1].op # "allreduce",
         NEW P, NEW A, NEW D \in Nat, NEW i \in Nat, Ghosts(P, A, Loans(D, i)),
         NEW E, NEW g, NEW r, Lends(q, E, P, Loans(D, i), g, r),
         C[1].op = "wait" => \A k \in 1..Len(q) : ~Records(q, k, C[1].mark),
         Queued(q, C, P, A, D, i)
  PROVE  /\ \A n \in Loans(D, i) : Final(C2, Down(A), n) = Final(C, A, n)
         /\ Queued(q, C2, P, Down(A), D, i)
  <1>1. A \in [Nat -> Nat] /\ P \in [Nat -> Nat]  BY DEF Ghosts
  <1>2. ASSUME NEW n \in Live(D, i)
        PROVE  /\ A[n] \in 2..Len(C) /\ Down(A)[n] = A[n] - 1 /\ A[n] - 1 \in 1..Len(C2)
               /\ C2[A[n] - 1] = C[A[n]]
    <2>1. n \in Nat  BY DEF Live
    <2>2. A[n] \in 1..Len(C) /\ C[A[n]].op = "allreduce"  BY DEF Queued
    <2>3. A[n] # 1  BY <2>2
    <2>4. A[n] \in 2..Len(C)  BY <2>2, <2>3
    <2>5. Down(A)[n] = A[n] - 1  BY <1>1, <2>1, <2>4 DEF Down
    <2>6. A[n] - 1 \in 1..Len(C2) /\ (A[n] - 1) + 1 = A[n]  BY <2>4 DEF IsTail
    <2>7. C2[A[n] - 1] = C[A[n]]  BY <2>6 DEF IsTail
    <2>q. QED  BY <2>4, <2>5, <2>6, <2>7
  <1>3. Loans(D, i) \subseteq Live(D, i)  BY DEF Loans
  <1>4. ASSUME NEW n \in Loans(D, i)
        PROVE  /\ Final(C2, Down(A), n) = Final(C, A, n)
               /\ Down(A)[n] + 1 \in 1..Len(C2) /\ C2[Down(A)[n] + 1].op = "record"
               /\ P[n] # 0 => /\ Down(A)[n] > 1 /\ C2[Down(A)[n] - 1].op = "wait"
                              /\ C2[Down(A)[n] - 1].mark = q[P[n]].mark
    <2>1. A[n] \in 2..Len(C) /\ Down(A)[n] = A[n] - 1 /\ Len(C2) = Len(C) - 1 /\ Len(C) \in Nat
      BY <1>2, <1>3 DEF IsTail
    <2>2. A[n] + 1 \in 1..Len(C) /\ C[A[n] + 1].op = "record"  BY DEF Queued
    <2>3. A[n] \in 1..Len(C2) /\ C2[A[n]] = C[A[n] + 1]  BY <2>1, <2>2 DEF IsTail
    <2>4. Down(A)[n] + 1 = A[n]  BY <2>1
    <2>5. Final(C2, Down(A), n) = Final(C, A, n)  BY <2>3, <2>4 DEF Final
    <2>6. ASSUME P[n] # 0
          PROVE  /\ Down(A)[n] > 1 /\ C2[Down(A)[n] - 1].op = "wait"
                 /\ C2[Down(A)[n] - 1].mark = q[P[n]].mark
      <3>1. C[A[n] - 1].op = "wait" /\ C[A[n] - 1].mark = q[P[n]].mark  BY <2>6 DEF Queued
      <3>2. P[n] \in 1..Len(q) /\ q[P[n]].op = "record"  BY <2>6 DEF Lends
      <3>3. Records(q, P[n], q[P[n]].mark)  BY <3>2 DEF Records
      <3>4. A[n] # 2
        <4>1. A[n] = 2 => A[n] - 1 = 1  OBVIOUS
        <4>q. QED  BY <3>1, <3>2, <3>3, <4>1
      <3>5. A[n] - 2 \in 1..Len(C2) /\ (A[n] - 2) + 1 = A[n] - 1 /\ Down(A)[n] - 1 = A[n] - 2
            /\ Down(A)[n] > 1
        BY <2>1, <3>4
      <3>6. C2[A[n] - 2] = C[A[n] - 1]  BY <3>5 DEF IsTail
      <3>q. QED  BY <3>1, <3>5, <3>6
    <2>q. QED  BY <2>2, <2>3, <2>4, <2>5, <2>6
  <1>5. ASSUME NEW n \in Live(D, i)
        PROVE  /\ Down(A)[n] \in 1..Len(C2) /\ C2[Down(A)[n]].op = "allreduce"
               /\ C2[Down(A)[n]].buf = Order[n]
               /\ \A m \in Live(D, i) : n < m => Down(A)[n] < Down(A)[m]
    <2>1. \A m \in Live(D, i) : n < m => Down(A)[n] < Down(A)[m]
      <3> SUFFICES ASSUME NEW m \in Live(D, i), n < m PROVE Down(A)[n] < Down(A)[m]
        OBVIOUS
      <3>1. A[n] < A[m]  BY DEF Queued
      <3>2. Down(A)[n] = A[n] - 1 /\ Down(A)[m] = A[m] - 1  BY <1>2
      <3>3. A[n] \in 2..Len(C) /\ A[m] \in 2..Len(C)  BY <1>2
      <3>q. QED  BY <3>1, <3>2, <3>3
    <2>2. C[A[n]].op = "allreduce" /\ C[A[n]].buf = Order[n]  BY DEF Queued
    <2>q. QED  BY <1>2, <2>1, <2>2
  <1>6. ASSUME NEW p \in 1..Len(C2), C2[p].op = "allreduce"
        PROVE  \E n \in Live(D, i) : Down(A)[n] = p
    <2>1. p + 1 \in 1..Len(C) /\ C[p + 1].op = "allreduce" /\ p \in Nat  BY <1>6 DEF IsTail
    <2>2. PICK n \in Live(D, i) : A[n] = p + 1  BY <2>1 DEF Queued
    <2>3. Down(A)[n] = p  BY <1>2, <2>1, <2>2
    <2>q. QED  BY <2>3
  <1>q. QED  BY <1>4, <1>5, <1>6 DEF Queued
-----------------------------------------------------------------------------
\* The collective at the head of a queue is the one every rank has next.
LEMMA HeadIsNext ==
  ASSUME NEW q, NEW C, Len(C) \in Nat \ {0}, C[1].op = "allreduce",
         NEW P, NEW A, NEW D \in Nat, NEW i \in Nat, Queued(q, C, P, A, D, i)
  PROVE  /\ D + 1 \in Live(D, i) /\ A[D + 1] = 1 /\ C[1].buf = Order[D + 1]
         /\ D + 1 \in Loans(D, i) => P[D + 1] = 0
  <1>1. PICK n \in Live(D, i) : A[n] = 1  BY DEF Queued
  <1>2. D + 1 \in Live(D, i)  BY DEF Live
  <1>3. A[D + 1] = 1
    <2>1. CASE n = D + 1  BY <1>1, <2>1
    <2>2. CASE n # D + 1
      <3>1. D + 1 < n  BY <2>2 DEF Live
      <3>2. A[D + 1] < A[n] /\ A[D + 1] \in 1..Len(C)  BY <1>2, <3>1 DEF Queued
      <3>q. QED  BY <1>1, <3>2
    <2>q. QED  BY <2>1, <2>2
  <1>4. C[1].buf = Order[D + 1]
    <2>1. C[A[D + 1]].buf = Order[D + 1]  BY <1>2 DEF Queued
    <2>q. QED  BY <1>3, <2>1
  <1>5. D + 1 \in Loans(D, i) => P[D + 1] = 0
    <2>1. D + 1 \in Loans(D, i) /\ P[D + 1] # 0 => A[D + 1] > 1  BY DEF Queued
    <2>q. QED  BY <1>3, <2>1
  <1>q. QED  BY <1>2, <1>3, <1>4, <1>5

\* The next collective is live no more once it has run.
LEMMA LaterLoans ==
  ASSUME NEW D \in Nat, NEW i \in Nat
  PROVE  /\ Live(D + 1, i) = Live(D, i) \ {D + 1}
         /\ Loans(D + 1, i) = Loans(D, i) \ {D + 1}
  <1>1. Live(D + 1, i) = Live(D, i) \ {D + 1}  BY DEF Live
  <1>q. QED  BY <1>1 DEF Loans

\* The next collective leaves the stream.
LEMMA RunQueued ==
  ASSUME NEW q, NEW C, NEW C2, IsTail(C, C2), C[1].op = "allreduce",
         NEW P, NEW A, NEW D \in Nat, NEW i \in Nat, Ghosts(P, A, Loans(D, i)),
         Queued(q, C, P, A, D, i)
  PROVE  /\ \A n \in Loans(D + 1, i) : Final(C2, Down(A), n) = Final(C, A, n)
         /\ Queued(q, C2, P, Down(A), D + 1, i)
  <1>0. D + 1 \in Live(D, i) /\ A[D + 1] = 1  BY HeadIsNext DEF IsTail
  <1>1. A \in [Nat -> Nat] /\ P \in [Nat -> Nat]  BY DEF Ghosts
  <1>2. ASSUME NEW n \in Live(D + 1, i)
        PROVE  /\ n \in Live(D, i) /\ A[n] \in 2..Len(C) /\ Down(A)[n] = A[n] - 1
               /\ A[n] - 1 \in 1..Len(C2) /\ C2[A[n] - 1] = C[A[n]]
    <2>1. n \in Nat /\ n \in Live(D, i) /\ D + 1 < n  BY DEF Live
    <2>2. A[n] \in 1..Len(C) /\ A[D + 1] < A[n]  BY <1>0, <2>1 DEF Queued
    <2>4. A[n] \in 2..Len(C)  BY <1>0, <2>2
    <2>5. Down(A)[n] = A[n] - 1  BY <1>1, <2>1, <2>4 DEF Down
    <2>6. A[n] - 1 \in 1..Len(C2) /\ (A[n] - 1) + 1 = A[n]  BY <2>4 DEF IsTail
    <2>7. C2[A[n] - 1] = C[A[n]]  BY <2>6 DEF IsTail
    <2>q. QED  BY <2>1, <2>4, <2>5, <2>6, <2>7
  <1>3. Loans(D + 1, i) \subseteq Live(D + 1, i) /\ Loans(D + 1, i) \subseteq Loans(D, i)
    BY LaterLoans DEF Loans
  <1>4. ASSUME NEW n \in Loans(D + 1, i)
        PROVE  /\ Final(C2, Down(A), n) = Final(C, A, n)
               /\ Down(A)[n] + 1 \in 1..Len(C2) /\ C2[Down(A)[n] + 1].op = "record"
               /\ P[n] # 0 => /\ Down(A)[n] > 1 /\ C2[Down(A)[n] - 1].op = "wait"
                              /\ C2[Down(A)[n] - 1].mark = q[P[n]].mark
    <2>1. A[n] \in 2..Len(C) /\ Down(A)[n] = A[n] - 1 /\ Len(C2) = Len(C) - 1 /\ Len(C) \in Nat
      BY <1>2, <1>3 DEF IsTail
    <2>2. A[n] + 1 \in 1..Len(C) /\ C[A[n] + 1].op = "record"  BY <1>3 DEF Queued
    <2>3. A[n] \in 1..Len(C2) /\ C2[A[n]] = C[A[n] + 1]  BY <2>1, <2>2 DEF IsTail
    <2>4. Down(A)[n] + 1 = A[n]  BY <2>1
    <2>5. Final(C2, Down(A), n) = Final(C, A, n)  BY <2>3, <2>4 DEF Final
    <2>6. ASSUME P[n] # 0
          PROVE  /\ Down(A)[n] > 1 /\ C2[Down(A)[n] - 1].op = "wait"
                 /\ C2[Down(A)[n] - 1].mark = q[P[n]].mark
      <3>1. C[A[n] - 1].op = "wait" /\ C[A[n] - 1].mark = q[P[n]].mark
        BY <1>3, <2>6 DEF Queued
      <3>4. A[n] # 2
        <4>1. A[n] = 2 => A[n] - 1 = 1  OBVIOUS
        <4>q. QED  BY <3>1, <4>1
      <3>5. A[n] - 2 \in 1..Len(C2) /\ (A[n] - 2) + 1 = A[n] - 1 /\ Down(A)[n] - 1 = A[n] - 2
            /\ Down(A)[n] > 1
        BY <2>1, <3>4
      <3>6. C2[A[n] - 2] = C[A[n] - 1]  BY <3>5 DEF IsTail
      <3>q. QED  BY <3>1, <3>5, <3>6
    <2>q. QED  BY <2>2, <2>3, <2>4, <2>5, <2>6
  <1>5. ASSUME NEW n \in Live(D + 1, i)
        PROVE  /\ Down(A)[n] \in 1..Len(C2) /\ C2[Down(A)[n]].op = "allreduce"
               /\ C2[Down(A)[n]].buf = Order[n]
               /\ \A m \in Live(D + 1, i) : n < m => Down(A)[n] < Down(A)[m]
    <2>1. \A m \in Live(D + 1, i) : n < m => Down(A)[n] < Down(A)[m]
      <3> SUFFICES ASSUME NEW m \in Live(D + 1, i), n < m PROVE Down(A)[n] < Down(A)[m]
        OBVIOUS
      <3>0. n \in Live(D, i) /\ m \in Live(D, i)  BY <1>2
      <3>1. A[n] < A[m]  BY <3>0 DEF Queued
      <3>2. Down(A)[n] = A[n] - 1 /\ Down(A)[m] = A[m] - 1  BY <1>2
      <3>3. A[n] \in 2..Len(C) /\ A[m] \in 2..Len(C)  BY <1>2
      <3>q. QED  BY <3>1, <3>2, <3>3
    <2>2. C[A[n]].op = "allreduce" /\ C[A[n]].buf = Order[n]  BY <1>2 DEF Queued
    <2>q. QED  BY <1>2, <2>1, <2>2
  <1>6. ASSUME NEW p \in 1..Len(C2), C2[p].op = "allreduce"
        PROVE  \E n \in Live(D + 1, i) : Down(A)[n] = p
    <2>1. p + 1 \in 1..Len(C) /\ C[p + 1].op = "allreduce" /\ p \in Nat /\ p # 0
      BY <1>6 DEF IsTail
    <2>2. PICK n \in Live(D, i) : A[n] = p + 1  BY <2>1 DEF Queued
    <2>3. n # D + 1  BY <1>0, <2>1, <2>2
    <2>4. n \in Live(D + 1, i)  BY <2>3, LaterLoans
    <2>5. Down(A)[n] = p  BY <1>2, <2>1, <2>2, <2>4
    <2>q. QED  BY <2>4, <2>5
  <1>q. QED  BY <1>4, <1>5, <1>6 DEF Queued

\* The memory before and after the next reduction.
Summed(M, M2, g, D) ==
  \E sum : /\ M2 = [b \in Buffers |-> IF b = Order[D + 1] THEN sum ELSE M[b]]
           /\ Order[D + 1] \in Buffers => sum = Resolve(g, {<<0, D + 1>>})

\* The next collective puts its sum where the compute stream already sees it.
LEMMA RunRemembers ==
  ASSUME NEW E, NEW P, NEW D \in Nat, NEW i \in Nat, NEW M, NEW g, NEW r,
         Remembers(E, P, Loans(D, i), M, g, r, D),
         D + 1 \in Live(D, i), D + 1 \in Loans(D, i) => P[D + 1] = 0,
         NEW M2, Summed(M, M2, g, D)
  PROVE  Remembers(E, P, Loans(D + 1, i), M2, g, r, D + 1)
  <1> DEFINE N == Loans(D, i)
             N2 == Loans(D + 1, i)
             o == Order[D + 1]
  <1>1. PICK sum : /\ M2 = [b \in Buffers |-> IF b = o THEN sum ELSE M[b]]
                   /\ o \in Buffers => sum = Resolve(g, {<<0, D + 1>>})
    BY DEF Summed
  <1>2. N2 = N \ {D + 1} /\ \A n \in N : Order[n] \in Buffers  BY LaterLoans DEF Loans
  <1>3. o \in Buffers => D + 1 \in N /\ P[D + 1] = 0  BY DEF Loans
  <1>4. \A n \in N : P[n] = 0 => /\ E[1][Order[n]] = {<<0, n>>}
                                /\ M[Order[n]] = Resolve(g, g[n][r])
                                /\ Known(g[n][r], D)
    BY DEF Remembers
  <1>5. \A b \in Buffers : (\A n \in N : P[n] = 0 => Order[n] # b) =>
          M[b] = Resolve(g, E[1][b]) /\ Known(E[1][b], D)
    BY DEF Remembers
  <1>6. \A v : Known(v, D) => Known(v, D + 1)  BY KnownLater
  <1>7. Known({<<0, D + 1>>}, D + 1)  BY DEF Known
  <1> HIDE DEF N, N2
  <1>8. ASSUME NEW n \in N2, P[n] = 0
        PROVE  /\ E[1][Order[n]] = {<<0, n>>} /\ M2[Order[n]] = Resolve(g, g[n][r])
               /\ Known(g[n][r], D + 1)
    <2>1. n \in N /\ n # D + 1 /\ Order[n] \in Buffers  BY <1>2
    <2>2. Order[n] # o
      <3> SUFFICES ASSUME Order[n] = o PROVE FALSE  OBVIOUS
      <3>1. E[1][o] = {<<0, D + 1>>} /\ E[1][o] = {<<0, n>>}  BY <1>3, <1>4, <1>8, <2>1
      <3>2. <<0, D + 1>> = <<0, n>>  BY <3>1
      <3>q. QED  BY <2>1, <3>2
    <2>3. M2[Order[n]] = M[Order[n]]  BY <1>1, <2>1, <2>2
    <2>q. QED  BY <1>4, <1>6, <1>8, <2>1, <2>3
  <1>9. ASSUME NEW b \in Buffers, \A n \in N2 : P[n] = 0 => Order[n] # b
        PROVE  M2[b] = Resolve(g, E[1][b]) /\ Known(E[1][b], D + 1)
    <2>1. CASE b = o
      <3>1. E[1][b] = {<<0, D + 1>>}  BY <1>3, <1>4, <2>1
      <3>2. M2[b] = Resolve(g, {<<0, D + 1>>})  BY <1>1, <2>1
      <3>q. QED  BY <1>7, <3>1, <3>2
    <2>2. CASE b # o
      <3>1. \A n \in N : P[n] = 0 => Order[n] # b  BY <1>2, <1>9, <2>2
      <3>2. M2[b] = M[b]  BY <1>1, <2>2
      <3>q. QED  BY <1>5, <1>6, <3>1, <3>2
    <2>q. QED  BY <2>1, <2>2
  <1>q. QED  BY <1>8, <1>9 DEF Remembers, N2

(***************************************************************************)
(* A command is enqueued on the compute stream: a is q with c at its end.  *)
(***************************************************************************)
\* a is q with the command c at its end.
IsAppend(q, c, a) ==
  /\ Len(q) \in Nat /\ Len(a) = Len(q) + 1 /\ a[Len(q) + 1] = c
  /\ \A k \in 1..Len(q) : a[k] = q[k]
\* The view V follows the last command of q.
Seen(E, q, V) == [E EXCEPT ![Len(q) + 2] = V]

\* The views of the earlier commands are the same.
LEMMA SeenFacts ==
  ASSUME NEW E, DOMAIN E = Nat, NEW q, Len(q) \in Nat, NEW V
  PROVE  /\ DOMAIN Seen(E, q, V) = Nat
         /\ Seen(E, q, V)[Len(q) + 2] = V
         /\ \A k \in 1..(Len(q) + 1) : Seen(E, q, V)[k] = E[k]
  BY DEF Seen

\* A wait at the end comes before what will be enqueued next.
LEMMA AppendAwaited ==
  ASSUME NEW q, NEW c, NEW a, IsAppend(q, c, a), NEW C, NEW A, NEW n
  PROVE  /\ \A k : Awaited(q, C, A, n, k) => Awaited(a, C, A, n, k)
         /\ Awaited(q, C, A, n, Len(q) + 1) => Awaited(a, C, A, n, Len(a) + 1)
         /\ c.op = "wait" /\ c.mark = Final(C, A, n) => Awaited(a, C, A, n, Len(a) + 1)
  <1>1. ASSUME NEW k, Awaited(q, C, A, n, k) PROVE Awaited(a, C, A, n, k)
    <2>1. PICK p \in 1..Len(q) : p < k /\ q[p].op = "wait" /\ q[p].mark = Final(C, A, n)
      BY <1>1 DEF Awaited
    <2>2. p \in 1..Len(a) /\ a[p] = q[p]  BY <2>1 DEF IsAppend
    <2>q. QED  BY <2>1, <2>2 DEF Awaited
  <1>3. ASSUME Awaited(q, C, A, n, Len(q) + 1) PROVE Awaited(a, C, A, n, Len(a) + 1)
    <2>1. PICK p \in 1..Len(q) :
            p < Len(q) + 1 /\ q[p].op = "wait" /\ q[p].mark = Final(C, A, n)
      BY <1>3 DEF Awaited
    <2>2. p \in 1..Len(a) /\ a[p] = q[p] /\ p < Len(a) + 1  BY <2>1 DEF IsAppend
    <2>q. QED  BY <2>1, <2>2 DEF Awaited
  <1>2. ASSUME c.op = "wait", c.mark = Final(C, A, n) PROVE Awaited(a, C, A, n, Len(a) + 1)
    <2>1. Len(a) \in 1..Len(a) /\ a[Len(a)] = c /\ Len(a) < Len(a) + 1  BY DEF IsAppend
    <2>q. QED  BY <1>2, <2>1 DEF Awaited
  <1>q. QED  BY <1>1, <1>2, <1>3

\* A command is one of q's, or the last.
LEMMA AppendIndex ==
  ASSUME NEW q, NEW c, NEW a, IsAppend(q, c, a), NEW k \in 1..Len(a)
  PROVE  (k \in 1..Len(q) /\ a[k] = q[k]) \/ (k = Len(q) + 1 /\ a[k] = c)
  BY DEF IsAppend

\* What each conjunct says of the queue, it says of the longer one: of the views,
LEMMA AppendViews ==
  ASSUME NEW q, NEW c, NEW a, IsAppend(q, c, a), NEW E, DOMAIN E = Nat, NEW V, NEW i,
         ComputeShape(q), Views(q, E, i), DOMAIN V = Buffers, \A b \in Buffers : Known(V[b], i),
         c.op = "write" => c.buf \in Buffers /\ Known(c.val, 0),
         c.op = "copy" => c.buf \in Buffers /\ c.from \in Buffers,
         c.op = "read" => c.from \in Buffers
  PROVE  ComputeShape(a) /\ Views(a, Seen(E, q, V), i)
  <1>1. ComputeShape(a)  BY AppendIndex DEF ComputeShape
  <1>2. ASSUME NEW k \in 1..(Len(a) + 1)
        PROVE  /\ DOMAIN Seen(E, q, V)[k] = Buffers
               /\ \A b \in Buffers : Known(Seen(E, q, V)[k][b], i)
    <2>1. Len(q) \in Nat /\ (k \in 1..(Len(q) + 1) \/ k = Len(q) + 2)  BY DEF IsAppend
    <2>2. CASE k \in 1..(Len(q) + 1)
      <3>1. Seen(E, q, V)[k] = E[k]  BY <2>1, <2>2, SeenFacts
      <3>q. QED  BY <2>2, <3>1 DEF Views
    <2>3. CASE k = Len(q) + 2
      <3>1. Seen(E, q, V)[k] = V  BY <2>1, <2>3, SeenFacts
      <3>q. QED  BY <3>1
    <2>q. QED  BY <2>1, <2>2, <2>3
  <1>3. Views(a, Seen(E, q, V), i)  BY <1>2 DEF Views
  <1>q. QED  BY <1>1, <1>3

\* of the steps from view to view, and of the loans,
LEMMA AppendEvolves ==
  ASSUME NEW q, NEW c, NEW a, IsAppend(q, c, a), NEW E, DOMAIN E = Nat, NEW V,
         NEW P, NEW N, NEW g, NEW r, Evolves(q, E, P, N), Lends(q, E, P, N, g, r),
         V = After(c, E[Len(q) + 1])
  PROVE  /\ Evolves(a, Seen(E, q, V), P, N) /\ Lends(a, Seen(E, q, V), P, N, g, r)
         /\ \A n \in N : P[n] # Len(q) + 1
  <1>1. Len(q) \in Nat /\ Len(q) + 1 + 1 = Len(q) + 2  BY DEF IsAppend
  <1>2. ASSUME NEW k \in 1..Len(a), \A n \in N : P[n] # k
        PROVE  Seen(E, q, V)[k + 1] = After(a[k], Seen(E, q, V)[k])
    <2>1. CASE k \in 1..Len(q) /\ a[k] = q[k]
      <3>1. k \in 1..(Len(q) + 1) /\ k + 1 \in 1..(Len(q) + 1)  BY <1>1, <2>1
      <3>2. Seen(E, q, V)[k] = E[k] /\ Seen(E, q, V)[k + 1] = E[k + 1]
        BY <1>1, <3>1, SeenFacts
      <3>q. QED  BY <1>2, <2>1, <3>2 DEF Evolves
    <2>2. CASE k = Len(q) + 1 /\ a[k] = c
      <3>1. k \in 1..(Len(q) + 1) /\ k + 1 = Len(q) + 2  BY <1>1, <2>2
      <3>2. Seen(E, q, V)[k] = E[k] /\ Seen(E, q, V)[k + 1] = V
        BY <1>1, <3>1, SeenFacts
      <3>q. QED  BY <2>2, <3>2
    <2>q. QED  BY <2>1, <2>2, AppendIndex
  <1>3. ASSUME NEW n \in N, P[n] # 0
        PROVE  /\ P[n] \in 1..Len(a) /\ P[n] # Len(q) + 1 /\ a[P[n]].op = "record"
               /\ Seen(E, q, V)[P[n]][Order[n]] = g[n][r]
               /\ Seen(E, q, V)[P[n] + 1] =
                    [Seen(E, q, V)[P[n]] EXCEPT ![Order[n]] = {<<0, n>>}]
    <2>1. /\ P[n] \in 1..Len(q) /\ q[P[n]].op = "record"
          /\ E[P[n]][Order[n]] = g[n][r]
          /\ E[P[n] + 1] = [E[P[n]] EXCEPT ![Order[n]] = {<<0, n>>}]
      BY <1>3 DEF Lends
    <2>2. /\ P[n] \in 1..(Len(q) + 1) /\ P[n] + 1 \in 1..(Len(q) + 1)
          /\ P[n] \in 1..Len(a) /\ P[n] # Len(q) + 1 /\ a[P[n]] = q[P[n]]
      BY <1>1, <2>1 DEF IsAppend
    <2>3. Seen(E, q, V)[P[n]] = E[P[n]] /\ Seen(E, q, V)[P[n] + 1] = E[P[n] + 1]
      BY <1>1, <2>2, SeenFacts
    <2>q. QED  BY <2>1, <2>2, <2>3
  <1>4. Evolves(a, Seen(E, q, V), P, N)  BY <1>2 DEF Evolves
  <1>5. Lends(a, Seen(E, q, V), P, N, g, r)  BY <1>3 DEF Lends
  <1>6. \A n \in N : P[n] # Len(q) + 1
    <2> SUFFICES ASSUME NEW n \in N PROVE P[n] # Len(q) + 1  OBVIOUS
    <2>1. CASE P[n] = 0  BY <1>1, <2>1
    <2>2. CASE P[n] # 0  BY <1>3, <2>2
    <2>q. QED  BY <2>1, <2>2
  <1>q. QED  BY <1>4, <1>5, <1>6

\* of the waits before the uses of a buffer on loan, when the command comes after them,
LEMMA AppendGuarded ==
  ASSUME NEW q, NEW c, NEW a, IsAppend(q, c, a), NEW C, NEW P, NEW A, NEW N,
         Guarded(q, C, P, A, N), \A n \in N : P[n] # Len(q) + 1,
         \A n \in N : Uses(c, Order[n]) => Awaited(q, C, A, n, Len(q) + 1)
  PROVE  Guarded(a, C, P, A, N)
  <1> SUFFICES ASSUME NEW n \in N, NEW k \in 1..Len(a), P[n] < k,
                      \/ Uses(a[k], Order[n])
                      \/ \E m \in N : m # n /\ P[m] = k /\ Order[m] = Order[n]
               PROVE  Awaited(a, C, A, n, k)
    BY DEF Guarded
  <1>1. k \in Int /\ Len(q) \in Nat  BY DEF IsAppend
  <1>2. CASE k \in 1..Len(q) /\ a[k] = q[k]
    <2>1. Awaited(q, C, A, n, k)  BY <1>2 DEF Guarded
    <2>q. QED  BY <1>1, <2>1, AppendAwaited
  <1>3. CASE k = Len(q) + 1 /\ a[k] = c
    <2>1. Awaited(q, C, A, n, k)  BY <1>3
    <2>q. QED  BY <1>1, <2>1, AppendAwaited
  <1>q. QED  BY <1>2, <1>3, AppendIndex

\* of the collectives,
LEMMA AppendQueued ==
  ASSUME NEW q, NEW c, NEW a, IsAppend(q, c, a), NEW C, NEW P, NEW A, NEW D, NEW i,
         NEW E, NEW g, NEW r, Lends(q, E, P, Loans(D, i), g, r), Queued(q, C, P, A, D, i)
  PROVE  Queued(a, C, P, A, D, i)
  <1>1. \A n \in Loans(D, i) : P[n] # 0 => a[P[n]] = q[P[n]]  BY DEF Lends, IsAppend
  <1>q. QED  BY <1>1 DEF Queued

\* of what the buffers will hold, when the program knows what the command makes of them,
LEMMA AppendFlies ==
  ASSUME NEW q, NEW c, NEW a, IsAppend(q, c, a), NEW C, NEW A, NEW E, DOMAIN E = Nat, NEW N,
         NEW F, NEW L, NEW L2, NEW ev, NEW ev2, NEW i, NEW V,
         Flies(q, C, A, E, N, F, L, ev, i),
         \A b \in DOMAIN F : V[b] = E[Len(q) + 1][b] /\ ev2[F[b].event] = ev[F[b].event],
         \A b \in Buffers \ DOMAIN F : V[b] = L2[b]
  PROVE  Flies(a, C, A, Seen(E, q, V), N, F, L2, ev2, i)
  <1>1. Len(q) \in Nat /\ Len(a) + 1 = Len(q) + 2 /\ Len(q) + 1 \in Int /\ Len(a) + 1 \in Int
        /\ Len(q) + 1 <= Len(a) + 1
    BY DEF IsAppend
  <1>2. Seen(E, q, V)[Len(a) + 1] = V  BY <1>1, SeenFacts
  <1>3. \A n \in N : Awaited(q, C, A, n, Len(q) + 1) => Awaited(a, C, A, n, Len(a) + 1)
    BY <1>1, AppendAwaited
  <1>q. QED  BY <1>2, <1>3 DEF Flies

\* and of a buffer that keeps its contents, when the command keeps them.
LEMMA AppendStays ==
  ASSUME NEW q, NEW c, NEW a, IsAppend(q, c, a), NEW C, NEW A, NEW E, DOMAIN E = Nat, NEW N,
         NEW V, NEW b, NEW m, NEW w, Stays(q, C, A, N, E, b, m, w),
         V[b] = E[Len(q) + 1][b], ~(c.op = "record" /\ c.mark = m)
  PROVE  Stays(a, C, A, N, Seen(E, q, V), b, m, w)
  <1>1. PICK j \in 0..Len(q) :
          /\ j # 0 => Records(q, j, m)
          /\ \A k \in 1..Len(q) : Records(q, k, m) => k = j
          /\ \A k \in 1..(Len(q) + 1) : j <= k => E[k][b] = w
          /\ \A n \in N : Order[n] = b => Awaited(q, C, A, n, j)
    BY DEF Stays
  <1>2. j \in 0..Len(a) /\ j \in Int /\ Len(q) \in Nat /\ Len(a) + 1 = Len(q) + 2
    BY DEF IsAppend
  <1>3. j # 0 => Records(a, j, m)  BY <1>1 DEF Records, IsAppend
  <1>4. \A k \in 1..Len(a) : Records(a, k, m) => k = j  BY <1>1, AppendIndex DEF Records
  <1>5. \A k \in 1..(Len(a) + 1) : j <= k => Seen(E, q, V)[k][b] = w
    <2> SUFFICES ASSUME NEW k \in 1..(Len(a) + 1), j <= k PROVE Seen(E, q, V)[k][b] = w
      OBVIOUS
    <2>1. k \in 1..(Len(q) + 1) \/ k = Len(q) + 2  BY <1>2
    <2>2. CASE k \in 1..(Len(q) + 1)
      <3>1. Seen(E, q, V)[k] = E[k]  BY <1>2, <2>2, SeenFacts
      <3>q. QED  BY <1>1, <2>2, <3>1
    <2>3. CASE k = Len(q) + 2
      <3>1. Seen(E, q, V)[k] = V  BY <1>2, <2>3, SeenFacts
      <3>2. Len(q) + 1 \in 1..(Len(q) + 1) /\ j <= Len(q) + 1  BY <1>2
      <3>q. QED  BY <1>1, <3>1, <3>2
    <2>q. QED  BY <2>1, <2>2, <2>3
  <1>6. \A n \in N : Order[n] = b => Awaited(a, C, A, n, j)
    <2> SUFFICES ASSUME NEW n \in N, Order[n] = b PROVE Awaited(a, C, A, n, j)  OBVIOUS
    <2>1. Awaited(q, C, A, n, j)  BY <1>1
    <2>q. QED  BY <1>2, <2>1, AppendAwaited
  <1>q. QED  BY <1>2, <1>3, <1>4, <1>5, <1>6 DEF Stays

\* A recorded buffer that the command leaves alone keeps its contents.
LEMMA AppendRecalls ==
  ASSUME NEW q, NEW c, NEW a, IsAppend(q, c, a), NEW C, NEW A, NEW E, DOMAIN E = Nat, NEW N,
         NEW V, NEW rec, NEW ev, NEW ev2, Recalls(q, C, A, N, E, rec, ev),
         \A b \in DOMAIN rec : /\ V[b] = E[Len(q) + 1][b]
                               /\ ev2[rec[b].event] = ev[rec[b].event]
                               /\ ~(c.op = "record" /\ c.mark = ev[rec[b].event])
  PROVE  Recalls(a, C, A, N, Seen(E, q, V), rec, ev2)
  <1> SUFFICES ASSUME NEW b \in DOMAIN rec
               PROVE  /\ b \in Buffers
                      /\ Stays(a, C, A, N, Seen(E, q, V), b, ev[rec[b].event], rec[b].want)
    BY DEF Recalls
  <1>1. b \in Buffers /\ Stays(q, C, A, N, E, b, ev[rec[b].event], rec[b].want)
    BY DEF Recalls
  <1>q. QED  BY <1>1, AppendStays

\* A record on the compute stream fixes what a buffer holds then.
LEMMA RecordStays ==
  ASSUME NEW q, NEW c, NEW a, IsAppend(q, c, a), NEW C, NEW A, NEW E, DOMAIN E = Nat, NEW N,
         NEW V, NEW b, NEW m, c.op = "record", c.mark = m,
         \A k \in 1..Len(q) : q[k].mark # m, V[b] = E[Len(q) + 1][b],
         \A n \in N : Order[n] = b => Awaited(q, C, A, n, Len(q) + 1)
  PROVE  Stays(a, C, A, N, Seen(E, q, V), b, m, V[b])
  <1> DEFINE j == Len(q) + 1
  <1>1. j \in 0..Len(a) /\ j \in Int /\ j # 0 /\ Len(q) \in Nat /\ Len(a) + 1 = Len(q) + 2
        /\ a[j] = c
    BY DEF IsAppend
  <1>2. Records(a, j, m)  BY <1>1 DEF Records
  <1>3. \A k \in 1..Len(a) : Records(a, k, m) => k = j  BY AppendIndex DEF Records
  <1>4. \A k \in 1..(Len(a) + 1) : j <= k => Seen(E, q, V)[k][b] = V[b]
    <2> SUFFICES ASSUME NEW k \in 1..(Len(a) + 1), j <= k PROVE Seen(E, q, V)[k][b] = V[b]
      OBVIOUS
    <2>1. k = Len(q) + 1 \/ k = Len(q) + 2  BY <1>1
    <2>2. Len(q) + 1 \in 1..(Len(q) + 1)  BY <1>1
    <2>3. Seen(E, q, V)[Len(q) + 1] = E[Len(q) + 1] /\ Seen(E, q, V)[Len(q) + 2] = V
      BY <1>1, <2>2, SeenFacts
    <2>q. QED  BY <2>1, <2>3
  <1>5. \A n \in N : Order[n] = b => Awaited(a, C, A, n, j)  BY ZenonT(60), <1>1, AppendAwaited
  <1> HIDE DEF j
  <1>q. QED  BY <1>1, <1>2, <1>3, <1>4, <1>5 DEF Stays

(***************************************************************************)
(* Buckets are lent and come back.                                         *)
(***************************************************************************)
\* The program has the buckets in X back, with their sums.
Rejoins(F, F2, L, L2, X) ==
  /\ DOMAIN F2 = DOMAIN F \ X /\ \A b \in DOMAIN F2 : F2[b] = F[b]
  /\ \A b \in Buffers : L2[b] = IF b \in X THEN {<<0, F[b].n>>} ELSE L[b]
\* The events of the buffers in F are the same.
SameEvents(ev, ev2, F) == \A b \in DOMAIN F : ev2[F[b].event] = ev[F[b].event]

\* The compute stream waits for a bucket, which the program has back.
LEMMA AwaitFlies ==
  ASSUME NEW q, NEW c, NEW a, IsAppend(q, c, a), NEW C, NEW A, NEW E, DOMAIN E = Nat, NEW N,
         NEW F, NEW F2, NEW L, NEW L2, NEW ev, NEW ev2, NEW i,
         Flies(q, C, A, E, N, F, L, ev, i),
         NEW b \in DOMAIN F, c.op = "wait", c.mark = ev[F[b].event],
         Rejoins(F, F2, L, L2, {b}), SameEvents(ev, ev2, F2)
  PROVE  Flies(a, C, A, Seen(E, q, E[Len(q) + 1]), N, F2, L2, ev2, i)
  <1>1. Len(q) \in Nat /\ Len(a) + 1 = Len(q) + 2  BY DEF IsAppend
  <1>2. Seen(E, q, E[Len(q) + 1])[Len(a) + 1] = E[Len(q) + 1]  BY <1>1, SeenFacts
  <1>3. /\ DOMAIN F2 = DOMAIN F \ {b} /\ \A x \in DOMAIN F2 : F2[x] = F[x]
        /\ \A x \in Buffers : L2[x] = IF x = b THEN {<<0, F[x].n>>} ELSE L[x]
    BY DEF Rejoins
  <1>4. DOMAIN F \subseteq Buffers  BY DEF Flies
  <1>5. ASSUME NEW n \in N
        PROVE  (Order[n] \in DOMAIN F2 /\ F2[Order[n]].n = n) \/ Awaited(a, C, A, n, Len(a) + 1)
    <2>1. CASE Awaited(q, C, A, n, Len(q) + 1)  BY <2>1, AppendAwaited
    <2>2. CASE Order[n] \in DOMAIN F /\ F[Order[n]].n = n
      <3>1. CASE Order[n] = b
        <4>1. c.mark = Final(C, A, n)  BY <2>2, <3>1 DEF Flies
        <4>q. QED  BY <4>1, AppendAwaited
      <3>2. CASE Order[n] # b  BY <1>3, <2>2, <3>2
      <3>q. QED  BY <3>1, <3>2
    <2>q. QED  BY <2>1, <2>2 DEF Flies
  <1>6. ASSUME NEW x \in DOMAIN F2
        PROVE  /\ F2[x].n \in 1..i
               /\ E[Len(q) + 1][x] = {<<0, F2[x].n>>}
               /\ F2[x].n \in N => ev2[F2[x].event] = Final(C, A, F2[x].n)
    <2>1. x \in DOMAIN F \ {b} /\ F2[x] = F[x]  BY <1>3
    <2>2. /\ F[x].n \in 1..i /\ E[Len(q) + 1][x] = {<<0, F[x].n>>}
          /\ F[x].n \in N => ev[F[x].event] = Final(C, A, F[x].n)
      BY <2>1 DEF Flies
    <2>3. ev2[F[x].event] = ev[F[x].event]  BY <2>1 DEF SameEvents
    <2>q. QED  BY <2>1, <2>2, <2>3
  <1>7. ASSUME NEW x \in Buffers \ DOMAIN F2 PROVE E[Len(q) + 1][x] = L2[x]
    <2>1. CASE x = b
      <3>1. E[Len(q) + 1][b] = {<<0, F[b].n>>}  BY DEF Flies
      <3>q. QED  BY <1>3, <1>7, <2>1, <3>1
    <2>2. CASE x # b
      <3>1. E[Len(q) + 1][x] = L[x]  BY <1>3, <1>7, <2>2 DEF Flies
      <3>q. QED  BY <1>3, <1>7, <2>2, <3>1
    <2>q. QED  BY <2>1, <2>2
  <1>q. QED  BY <1>2, <1>3, <1>4, <1>5, <1>6, <1>7 DEF Flies

\* With nothing in flight on the stream, the program has all buckets back.
LEMMA SyncFlies ==
  ASSUME NEW q, NEW C, NEW A, NEW E, NEW N, N = {}, NEW F, NEW F2, NEW L, NEW L2,
         NEW ev, NEW ev2, NEW i, Flies(q, C, A, E, N, F, L, ev, i),
         Rejoins(F, F2, L, L2, DOMAIN F)
  PROVE  Flies(q, C, A, E, N, F2, L2, ev2, i)
  <1>1. ASSUME NEW x \in Buffers PROVE E[Len(q) + 1][x] = L2[x]
    <2>1. CASE x \in DOMAIN F  BY <2>1 DEF Flies, Rejoins
    <2>2. CASE x \notin DOMAIN F  BY <2>2 DEF Flies, Rejoins
    <2>q. QED  BY <2>1, <2>2
  <1>2. DOMAIN F2 = {}  BY DEF Rejoins
  <1>q. QED  BY <1>1, <1>2 DEF Flies

\* On an empty stream no collective is left.
LEMMA NoneLive ==
  ASSUME NEW q, NEW C, Len(C) = 0, NEW P, NEW A, NEW D \in Nat, NEW i \in Nat, D <= i,
         Queued(q, C, P, A, D, i)
  PROVE  Live(D, i) = {} /\ Loans(D, i) = {} /\ D = i
  <1>1. \A n \in Live(D, i) : A[n] \in 1..0  BY DEF Queued
  <1>2. Live(D, i) = {}  BY <1>1
  <1>3. D < i => i \in Live(D, i)  BY DEF Live
  <1>q. QED  BY <1>2, <1>3 DEF Loans

\* What a rank gives to a collective that has not run changes no value of those that have.
LEMMA GivenKept ==
  ASSUME NEW g, NEW g2, NEW D \in 0..Len(Order), \A z \in Ranks : Given(g, z),
         \A n \in 1..D, z \in Ranks : g2[n][z] = g[n][z],
         NEW r, NEW N, \A n \in N : g2[n][r] = g[n][r]
  PROVE  /\ \A E, P, M : Remembers(E, P, N, M, g, r, D) => Remembers(E, P, N, M, g2, r, D)
         /\ \A q, E, P : Lends(q, E, P, N, g, r) => Lends(q, E, P, N, g2, r)
         /\ \A h, q, C, K, A, E, ev : Reads(h, q, C, K, A, N, E, ev, g, D)
                                        => Reads(h, q, C, K, A, N, E, ev, g2, D)
  <1>1. \A v : Known(v, D) => Resolve(g2, v) = Resolve(g, v)  BY ResolveKept
  <1>2. \A h : Answered(h, g, D) => Answered(h, g2, D)  BY <1>1 DEF Answered
  <1>3. \A E, P, M : Remembers(E, P, N, M, g, r, D) => Remembers(E, P, N, M, g2, r, D)
    <2> SUFFICES ASSUME NEW E, NEW P, NEW M, Remembers(E, P, N, M, g, r, D)
                 PROVE  Remembers(E, P, N, M, g2, r, D)
      OBVIOUS
    <2>1. \A n \in N : P[n] = 0 => /\ E[1][Order[n]] = {<<0, n>>}
                                  /\ M[Order[n]] = Resolve(g2, g2[n][r])
                                  /\ Known(g2[n][r], D)
      BY <1>1 DEF Remembers
    <2>2. \A b \in Buffers : (\A n \in N : P[n] = 0 => Order[n] # b) =>
            M[b] = Resolve(g2, E[1][b]) /\ Known(E[1][b], D)
      BY <1>1 DEF Remembers
    <2>q. QED  BY <2>1, <2>2 DEF Remembers
  <1>4. \A q, E, P : Lends(q, E, P, N, g, r) => Lends(q, E, P, N, g2, r)  BY DEF Lends
  <1>5. \A h, q, C, K, A, E, ev : Reads(h, q, C, K, A, N, E, ev, g, D)
                                    => Reads(h, q, C, K, A, N, E, ev, g2, D)
    BY <1>2 DEF Reads
  <1>q. QED  BY <1>3, <1>4, <1>5
-----------------------------------------------------------------------------
\* A bucket is lent to the n-th collective: a record on the compute stream; a wait
\* for it, the collective and a record on the communicator's.
Issue(q, c, a, C, C2, b, m) ==
  /\ IsAppend(q, c, a) /\ c.op = "record"
  /\ Len(C) \in Nat /\ Len(C2) = Len(C) + 3
  /\ \A k \in 1..Len(C) : C2[k] = C[k]
  /\ C2[Len(C) + 1].op = "wait" /\ C2[Len(C) + 1].mark = c.mark
  /\ C2[Len(C) + 2].op = "allreduce" /\ C2[Len(C) + 2].buf = b
  /\ C2[Len(C) + 3].op = "record" /\ C2[Len(C) + 3].mark = m

\* The collective issued is the next one of the order.
Issues(q, c, a, C, C2, b, m, P, A, P2, A2, D, i) ==
  /\ Issue(q, c, a, C, C2, b, m) /\ b \in Buffers /\ Order[i + 1] = b
  /\ D \in Nat /\ i \in Nat /\ D <= i
  /\ Ghosts(P, A, Loans(D, i)) /\ Queued(q, C, P, A, D, i)
  /\ P2 = [P EXCEPT ![i + 1] = Len(q) + 1]
  /\ A2 = [A EXCEPT ![i + 1] = Len(C) + 2]

\* The collective issued is a new loan; the others stand where they stood.
LEMMA IssueGhosts ==
  ASSUME NEW q, NEW c, NEW a, NEW C, NEW C2, NEW b, NEW m, NEW P, NEW A, NEW P2, NEW A2,
         NEW D, NEW i, Issues(q, c, a, C, C2, b, m, P, A, P2, A2, D, i)
  PROVE  /\ Ghosts(P2, A2, Loans(D, i + 1))
         /\ Live(D, i + 1) = Live(D, i) \cup {i + 1} /\ i + 1 \notin Live(D, i)
         /\ Loans(D, i + 1) = Loans(D, i) \cup {i + 1} /\ i + 1 \notin Loans(D, i)
         /\ P2[i + 1] = Len(q) + 1 /\ A2[i + 1] = Len(C) + 2
         /\ \A n \in Live(D, i) : P2[n] = P[n] /\ A2[n] = A[n]
         /\ \A n \in Loans(D, i) : /\ P2[n] = P[n] /\ A2[n] = A[n]
                                  /\ Final(C2, A2, n) = Final(C, A, n)
         /\ Final(C2, A2, i + 1) = m
  <1>z. /\ Issue(q, c, a, C, C2, b, m) /\ b \in Buffers /\ Order[i + 1] = b
        /\ D \in Nat /\ i \in Nat /\ D <= i
        /\ Ghosts(P, A, Loans(D, i)) /\ Queued(q, C, P, A, D, i)
        /\ P2 = [P EXCEPT ![i + 1] = Len(q) + 1]
        /\ A2 = [A EXCEPT ![i + 1] = Len(C) + 2]
    BY DEF Issues
  <1>a. P \in [Nat -> Nat] /\ A \in [Nat -> Nat]  BY <1>z DEF Ghosts
  <1>b. Len(q) \in Nat /\ Len(C) \in Nat  BY <1>z DEF Issue, IsAppend
  <1>1. /\ P \in [Nat -> Nat] /\ A \in [Nat -> Nat] /\ Len(q) \in Nat /\ Len(C) \in Nat
        /\ i + 1 \in Nat /\ Len(q) + 1 \in Nat /\ Len(C) + 2 \in Nat
    <2>1. i + 1 \in Nat  BY <1>z
    <2>2. \A k \in Nat : k + 1 \in Nat /\ k + 2 \in Nat  OBVIOUS
    <2>q. QED  BY <1>a, <1>b, <2>1, <2>2
  <1>2. P2 \in [Nat -> Nat] /\ A2 \in [Nat -> Nat]  BY <1>1, <1>z
  <1>3. Live(D, i + 1) = Live(D, i) \cup {i + 1} /\ i + 1 \notin Live(D, i)
        /\ Live(D, i + 1) \subseteq Nat
    BY <1>z DEF Live
  <1>4. Loans(D, i + 1) = Loans(D, i) \cup {i + 1} /\ i + 1 \notin Loans(D, i)
        /\ Loans(D, i + 1) \subseteq Nat
    BY <1>3, <1>z DEF Loans
  <1>5. P2[i + 1] = Len(q) + 1 /\ A2[i + 1] = Len(C) + 2  BY <1>1, <1>z
  <1>6. \A n \in Live(D, i) : P2[n] = P[n] /\ A2[n] = A[n]  BY <1>1, <1>3, <1>z
  <1>7. ASSUME NEW n \in Loans(D, i)
        PROVE  P2[n] = P[n] /\ A2[n] = A[n] /\ Final(C2, A2, n) = Final(C, A, n)
    <2>1. P2[n] = P[n] /\ A2[n] = A[n]  BY <1>6, <1>7 DEF Loans
    <2>2. A[n] + 1 \in 1..Len(C)  BY <1>z DEF Queued
    <2>3. C2[A[n] + 1] = C[A[n] + 1]  BY <1>z, <2>2 DEF Issue
    <2>q. QED  BY <2>1, <2>3 DEF Final
  <1>8. Final(C2, A2, i + 1) = m
    <2>1. A2[i + 1] + 1 = Len(C) + 3  BY <1>1, <1>5
    <2>q. QED  BY <1>z, <2>1 DEF Final, Issue
  <1>q. QED  BY <1>2, <1>3, <1>4, <1>5, <1>6, <1>7, <1>8 DEF Ghosts

\* The earlier loans are awaited where they were.
LEMMA IssueAwaited ==
  ASSUME NEW q, NEW c, NEW a, NEW C, NEW C2, NEW b, NEW m, NEW P, NEW A, NEW P2, NEW A2,
         NEW D, NEW i, Issues(q, c, a, C, C2, b, m, P, A, P2, A2, D, i),
         NEW n \in Loans(D, i)
  PROVE  /\ \A k : Awaited(q, C, A, n, k) => Awaited(a, C2, A2, n, k)
         /\ Awaited(q, C, A, n, Len(q) + 1) => Awaited(a, C2, A2, n, Len(a) + 1)
  <1>1. Final(C2, A2, n) = Final(C, A, n)  BY IssueGhosts
  <1>2. IsAppend(q, c, a)  BY DEF Issues, Issue
  <1>3. \A k : Awaited(a, C, A, n, k) => Awaited(a, C2, A2, n, k)  BY <1>1 DEF Awaited
  <1>q. QED  BY <1>2, <1>3, AppendAwaited

\* The record lends the bucket: its view is the sum to come.
LEMMA IssueLends ==
  ASSUME NEW q, NEW c, NEW a, NEW C, NEW C2, NEW b, NEW m, NEW P, NEW A, NEW P2, NEW A2,
         NEW D, NEW i, Issues(q, c, a, C, C2, b, m, P, A, P2, A2, D, i),
         NEW E, DOMAIN E = Nat, NEW V, V = [E[Len(q) + 1] EXCEPT ![b] = {<<0, i + 1>>}],
         NEW g, NEW r, Evolves(q, E, P, Loans(D, i)), Lends(q, E, P, Loans(D, i), g, r),
         NEW g2, \A n \in Loans(D, i) : g2[n][r] = g[n][r],
         g2[i + 1][r] = E[Len(q) + 1][b]
  PROVE  /\ Evolves(a, Seen(E, q, V), P2, Loans(D, i + 1))
         /\ Lends(a, Seen(E, q, V), P2, Loans(D, i + 1), g2, r)
         /\ \A n \in Loans(D, i) : P[n] # Len(q) + 1
  <1> DEFINE N == Loans(D, i)
             N2 == Loans(D, i + 1)
             S == Seen(E, q, V)
  <1>1. IsAppend(q, c, a) /\ c.op = "record" /\ Order[i + 1] = b  BY DEF Issues, Issue
  <1>2. Len(q) \in Nat /\ Len(q) + 1 + 1 = Len(q) + 2 /\ Len(a) = Len(q) + 1
    BY <1>1 DEF IsAppend
  <1>3. /\ N2 = N \cup {i + 1} /\ P2[i + 1] = Len(q) + 1
        /\ \A n \in N : P2[n] = P[n] /\ n # i + 1
    BY IssueGhosts
  <1>4. S[Len(q) + 2] = V /\ \A k \in 1..(Len(q) + 1) : S[k] = E[k]  BY <1>2, SeenFacts
  <1> HIDE DEF N2, S
  <1>5. ASSUME NEW k \in 1..Len(a), \A n \in N2 : P2[n] # k
        PROVE  S[k + 1] = After(a[k], S[k])
    <2>1. k # Len(q) + 1  BY <1>3, <1>5
    <2>2. k \in 1..Len(q) /\ a[k] = q[k]  BY <1>1, <2>1, AppendIndex
    <2>3. k \in 1..(Len(q) + 1) /\ k + 1 \in 1..(Len(q) + 1)  BY <1>2, <2>2
    <2>4. S[k] = E[k] /\ S[k + 1] = E[k + 1]  BY <1>4, <2>3
    <2>5. \A n \in N : P[n] # k  BY <1>3, <1>5
    <2>6. E[k + 1] = After(q[k], E[k])  BY <2>2, <2>5 DEF Evolves
    <2>q. QED  BY <2>2, <2>4, <2>6
  <1>6. ASSUME NEW n \in N, P[n] # 0
        PROVE  /\ P[n] \in 1..Len(a) /\ P[n] # Len(q) + 1 /\ a[P[n]].op = "record"
               /\ S[P[n]][Order[n]] = g2[n][r]
               /\ S[P[n] + 1] = [S[P[n]] EXCEPT ![Order[n]] = {<<0, n>>}]
    <2>1. /\ P[n] \in 1..Len(q) /\ q[P[n]].op = "record"
          /\ E[P[n]][Order[n]] = g[n][r]
          /\ E[P[n] + 1] = [E[P[n]] EXCEPT ![Order[n]] = {<<0, n>>}]
      BY <1>6 DEF Lends
    <2>2. /\ P[n] \in 1..(Len(q) + 1) /\ P[n] + 1 \in 1..(Len(q) + 1)
          /\ P[n] \in 1..Len(a) /\ P[n] # Len(q) + 1
      BY <1>2, <2>1
    <2>3. a[P[n]] = q[P[n]]  BY <1>1, <2>1 DEF IsAppend
    <2>4. S[P[n]] = E[P[n]] /\ S[P[n] + 1] = E[P[n] + 1]  BY <1>4, <2>2
    <2>q. QED  BY <2>1, <2>2, <2>3, <2>4
  <1>7. /\ Len(q) + 1 \in 1..Len(a) /\ a[Len(q) + 1].op = "record"
        /\ S[Len(q) + 1][b] = g2[i + 1][r]
        /\ S[Len(q) + 1 + 1] = [S[Len(q) + 1] EXCEPT ![b] = {<<0, i + 1>>}]
    <2>1. Len(q) + 1 \in 1..Len(a) /\ Len(q) + 1 \in 1..(Len(q) + 1)  BY <1>2
    <2>2. a[Len(q) + 1] = c  BY <1>1 DEF IsAppend
    <2>3. S[Len(q) + 1] = E[Len(q) + 1] /\ S[Len(q) + 1 + 1] = V  BY <1>2, <1>4, <2>1
    <2>q. QED  BY <1>1, <2>1, <2>2, <2>3
  <1>8. Evolves(a, S, P2, N2)  BY <1>5 DEF Evolves
  <1>9. Lends(a, S, P2, N2, g2, r)
    <2> SUFFICES ASSUME NEW n \in N2, P2[n] # 0
                 PROVE  /\ P2[n] \in 1..Len(a) /\ a[P2[n]].op = "record"
                        /\ S[P2[n]][Order[n]] = g2[n][r]
                        /\ S[P2[n] + 1] = [S[P2[n]] EXCEPT ![Order[n]] = {<<0, n>>}]
      BY DEF Lends
    <2>1. CASE n \in N  BY <1>3, <1>6, <2>1
    <2>2. CASE n = i + 1  BY <1>1, <1>3, <1>7, <2>2
    <2>q. QED  BY <1>3, <2>1, <2>2
  <1>10. ASSUME NEW n \in N PROVE P[n] # Len(q) + 1
    <2>1. CASE P[n] = 0  BY <1>2, <2>1
    <2>2. CASE P[n] # 0  BY <1>6, <2>2
    <2>q. QED  BY <2>1, <2>2
  <1>q. QED  BY <1>8, <1>9, <1>10 DEF S, N2

\* The earlier loans of the bucket are awaited before it.
LEMMA IssueGuarded ==
  ASSUME NEW q, NEW c, NEW a, NEW C, NEW C2, NEW b, NEW m, NEW P, NEW A, NEW P2, NEW A2,
         NEW D, NEW i, Issues(q, c, a, C, C2, b, m, P, A, P2, A2, D, i),
         Guarded(q, C, P, A, Loans(D, i)), \A n \in Loans(D, i) : P[n] # Len(q) + 1,
         \A n \in Loans(D, i) : Order[n] = b => Awaited(q, C, A, n, Len(q) + 1)
  PROVE  Guarded(a, C2, P2, A2, Loans(D, i + 1))
  <1> DEFINE N == Loans(D, i)
             N2 == Loans(D, i + 1)
  <1>1. IsAppend(q, c, a) /\ c.op = "record" /\ Order[i + 1] = b  BY DEF Issues, Issue
  <1>2. Len(q) \in Nat /\ Len(a) = Len(q) + 1  BY <1>1 DEF IsAppend
  <1>3. /\ N2 = N \cup {i + 1} /\ P2[i + 1] = Len(q) + 1
        /\ \A n \in N : P2[n] = P[n] /\ n # i + 1
    BY IssueGhosts
  <1>4. \A x : ~Uses(c, x)  BY <1>1 DEF Uses
  <1>5. \A n \in N : \A k : Awaited(q, C, A, n, k) => Awaited(a, C2, A2, n, k)
    BY IssueAwaited
  <1> HIDE DEF N, N2
  <1> SUFFICES ASSUME NEW n \in N2, NEW k \in 1..Len(a), P2[n] < k,
                      \/ Uses(a[k], Order[n])
                      \/ \E x \in N2 : x # n /\ P2[x] = k /\ Order[x] = Order[n]
               PROVE  Awaited(a, C2, A2, n, k)
    BY DEF Guarded, N2
  <1>6. n \in N
    <2>1. ~(Len(q) + 1 < k)  BY <1>2
    <2>q. QED  BY <1>3, <2>1
  <1>7. CASE k \in 1..Len(q) /\ a[k] = q[k]
    <2>1. k # Len(q) + 1  BY <1>2, <1>7
    <2>2. \/ Uses(q[k], Order[n])
          \/ \E x \in N : x # n /\ P[x] = k /\ Order[x] = Order[n]
      BY <1>3, <1>7, <2>1
    <2>3. P[n] < k  BY <1>3, <1>6
    <2>4. Awaited(q, C, A, n, k)  BY <1>6, <1>7, <2>2, <2>3 DEF Guarded, N
    <2>q. QED  BY <1>5, <1>6, <2>4
  <1>8. CASE k = Len(q) + 1 /\ a[k] = c
    <2>1. PICK x \in N2 : x # n /\ P2[x] = k /\ Order[x] = Order[n]  BY <1>4, <1>8
    <2>2. x = i + 1  BY <1>3, <1>8, <2>1 DEF N
    <2>3. Order[n] = b  BY <1>1, <2>1, <2>2
    <2>4. Awaited(q, C, A, n, k)  BY <1>6, <1>8, <2>3 DEF N
    <2>q. QED  BY <1>5, <1>6, <2>4
  <1>q. QED  BY <1>1, <1>7, <1>8, AppendIndex

\* The collective is the last of the communicator's stream.
LEMMA IssueQueued ==
  ASSUME NEW q, NEW c, NEW a, NEW C, NEW C2, NEW b, NEW m, NEW P, NEW A, NEW P2, NEW A2,
         NEW D, NEW i, Issues(q, c, a, C, C2, b, m, P, A, P2, A2, D, i),
         NEW E, NEW g, NEW r, Lends(q, E, P, Loans(D, i), g, r)
  PROVE  Queued(a, C2, P2, A2, D, i + 1)
  <1> DEFINE N == Loans(D, i)
             N2 == Loans(D, i + 1)
             X == Live(D, i)
             X2 == Live(D, i + 1)
  <1>1. /\ IsAppend(q, c, a) /\ Order[i + 1] = b /\ Queued(q, C, P, A, D, i)
        /\ Issue(q, c, a, C, C2, b, m) /\ i \in Nat
    BY DEF Issues, Issue
  <1>2. Len(q) \in Nat /\ Len(C) \in Nat /\ Len(C2) = Len(C) + 3
    BY <1>1 DEF IsAppend, Issue
  <1>3. /\ N2 = N \cup {i + 1} /\ P2[i + 1] = Len(q) + 1
        /\ X2 = X \cup {i + 1} /\ A2[i + 1] = Len(C) + 2
        /\ \A n \in N : P2[n] = P[n]
        /\ \A n \in X : A2[n] = A[n]
    BY IssueGhosts
  <1>4. \A n \in X : n \in Int /\ n < i + 1 /\ A[n] \in 1..Len(C)
    BY <1>1 DEF Queued, Live
  <1>5. \A n \in N : n \in X /\ (P[n] # 0 => a[P[n]] = q[P[n]])
    BY <1>1 DEF Lends, IsAppend, Loans
  <1>6. \A k \in 1..Len(C) : k \in 1..Len(C2) /\ C2[k] = C[k]  BY <1>1, <1>2 DEF Issue
  <1> HIDE DEF N, N2, X, X2
  <1>7. ASSUME NEW n \in X2
        PROVE  /\ A2[n] \in 1..Len(C2) /\ C2[A2[n]].op = "allreduce" /\ C2[A2[n]].buf = Order[n]
               /\ \A z \in X2 : n < z => A2[n] < A2[z]
    <2>1. CASE n \in X
      <3>1. A2[n] = A[n] /\ A[n] \in 1..Len(C)  BY <1>3, <1>4, <2>1
      <3>2. C[A[n]].op = "allreduce" /\ C[A[n]].buf = Order[n]
        BY <1>1, <2>1 DEF Queued, X
      <3>3. ASSUME NEW z \in X2, n < z PROVE A2[n] < A2[z]
        <4>1. CASE z \in X
          <5>1. A[n] < A[z]  BY <1>1, <2>1, <3>3, <4>1 DEF Queued, X
          <5>q. QED  BY <1>3, <3>1, <4>1, <5>1
        <4>2. CASE z = i + 1  BY <1>2, <1>3, <3>1, <4>2
        <4>q. QED  BY <1>3, <4>1, <4>2
      <3>q. QED  BY <1>6, <3>1, <3>2, <3>3
    <2>2. CASE n = i + 1
      <3>1. A2[n] = Len(C) + 2 /\ Len(C) + 2 \in 1..Len(C2)  BY <1>2, <1>3, <2>2
      <3>2. \A z \in X2 : ~(n < z)  BY <1>1, <1>3, <1>4, <2>2
      <3>q. QED  BY <1>1, <2>2, <3>1, <3>2 DEF Issue
    <2>q. QED  BY <1>3, <2>1, <2>2
  <1>8. ASSUME NEW p \in 1..Len(C2), C2[p].op = "allreduce" PROVE \E n \in X2 : A2[n] = p
    <2>1. CASE p \in 1..Len(C)
      <3>1. C[p].op = "allreduce"  BY <1>6, <1>8, <2>1
      <3>2. PICK n \in X : A[n] = p  BY <1>1, <2>1, <3>1 DEF Queued, X
      <3>q. QED  BY <1>3, <3>2
    <2>2. CASE p \notin 1..Len(C)
      <3>1. p = Len(C) + 1 \/ p = Len(C) + 2 \/ p = Len(C) + 3  BY <1>2, <2>2
      <3>2. p = Len(C) + 2  BY <1>1, <1>8, <3>1 DEF Issue
      <3>q. QED  BY <1>3, <3>2
    <2>q. QED  BY <2>1, <2>2
  <1>9. ASSUME NEW n \in N2
        PROVE  /\ A2[n] + 1 \in 1..Len(C2) /\ C2[A2[n] + 1].op = "record"
               /\ P2[n] # 0 => /\ A2[n] > 1 /\ C2[A2[n] - 1].op = "wait"
                               /\ C2[A2[n] - 1].mark = a[P2[n]].mark
    <2>1. CASE n \in N
      <3>1. A2[n] = A[n] /\ P2[n] = P[n] /\ A[n] \in 1..Len(C)  BY <1>3, <1>4, <1>5, <2>1
      <3>2. /\ A[n] + 1 \in 1..Len(C) /\ C[A[n] + 1].op = "record"
            /\ P[n] # 0 => /\ A[n] > 1 /\ C[A[n] - 1].op = "wait"
                           /\ C[A[n] - 1].mark = q[P[n]].mark
        BY <1>1, <2>1 DEF Queued, N
      <3>3. P[n] # 0 => A[n] - 1 \in 1..Len(C)  BY <3>1, <3>2
      <3>q. QED  BY <1>5, <1>6, <2>1, <3>1, <3>2, <3>3
    <2>2. CASE n = i + 1
      <3>1. /\ A2[n] + 1 = Len(C) + 3 /\ A2[n] - 1 = Len(C) + 1 /\ A2[n] > 1
            /\ A2[n] + 1 \in 1..Len(C2)
        BY <1>2, <1>3, <2>2
      <3>2. a[P2[n]] = c  BY <1>1, <1>3, <2>2 DEF IsAppend
      <3>q. QED  BY <1>1, <3>1, <3>2 DEF Issue
    <2>q. QED  BY <1>3, <2>1, <2>2
  <1>q. QED  BY <1>7, <1>8, <1>9 DEF Queued, X2, N2

\* The view names the collective issued and no later one.
LEMMA IssueViews ==
  ASSUME NEW q, NEW c, NEW a, IsAppend(q, c, a), c.op = "record",
         NEW E, DOMAIN E = Nat, NEW i \in Nat, NEW b \in Buffers,
         NEW V, V = [E[Len(q) + 1] EXCEPT ![b] = {<<0, i + 1>>}],
         ComputeShape(q), Views(q, E, i)
  PROVE  ComputeShape(a) /\ Views(a, Seen(E, q, V), i + 1)
  <1>1. Len(q) + 1 \in 1..(Len(q) + 1)  BY DEF IsAppend
  <1>2. DOMAIN E[Len(q) + 1] = Buffers  BY <1>1 DEF Views
  <1>3. \A v : Known(v, i) => Known(v, i + 1)  BY KnownLater
  <1>4. Views(q, E, i + 1)  BY <1>3 DEF Views
  <1>5. Known({<<0, i + 1>>}, i + 1)  BY DEF Known
  <1>6. DOMAIN V = Buffers /\ \A x \in Buffers : Known(V[x], i + 1)
    <2> SUFFICES ASSUME NEW x \in Buffers PROVE Known(V[x], i + 1)  BY <1>2
    <2>1. CASE x = b  BY <1>2, <1>5, <2>1
    <2>2. CASE x # b
      <3>1. V[x] = E[Len(q) + 1][x]  BY <1>2, <2>2
      <3>q. QED  BY <1>1, <1>4, <3>1 DEF Views
    <2>q. QED  BY <2>1, <2>2
  <1>7. c.op # "write" /\ c.op # "copy" /\ c.op # "read"  OBVIOUS
  <1>q. QED  BY ONLY <1>4, <1>6, <1>7, IsAppend(q, c, a), DOMAIN E = Nat, ComputeShape(q),
                AppendViews

\* The bucket is in flight, and will hold the sum.
LEMMA IssueFlies ==
  ASSUME NEW q, NEW c, NEW a, NEW C, NEW C2, NEW b, NEW m, NEW P, NEW A, NEW P2, NEW A2,
         NEW D, NEW i, Issues(q, c, a, C, C2, b, m, P, A, P2, A2, D, i),
         NEW E, DOMAIN E = Nat, NEW V, V = [E[Len(q) + 1] EXCEPT ![b] = {<<0, i + 1>>}],
         DOMAIN E[Len(q) + 1] = Buffers,
         NEW F, NEW L, NEW ev, NEW ev2, NEW e,
         Flies(q, C, A, E, Loans(D, i), F, L, ev, i), b \notin DOMAIN F,
         ev2[e] = m, \A x \in DOMAIN F : ev2[F[x].event] = ev[F[x].event]
  PROVE  Flies(a, C2, A2, Seen(E, q, V), Loans(D, i + 1),
               Extend(F, b, [event |-> e, n |-> i + 1]), L, ev2, i + 1)
  <1> DEFINE N == Loans(D, i)
             N2 == Loans(D, i + 1)
             F2 == Extend(F, b, [event |-> e, n |-> i + 1])
             S == Seen(E, q, V)
  <1>1. /\ IsAppend(q, c, a) /\ Order[i + 1] = b /\ i \in Nat /\ b \in Buffers
    BY DEF Issues, Issue
  <1>2. Len(q) \in Nat /\ Len(a) + 1 = Len(q) + 2  BY <1>1 DEF IsAppend
  <1>3. /\ N2 = N \cup {i + 1} /\ Final(C2, A2, i + 1) = m
        /\ \A n \in N : Final(C2, A2, n) = Final(C, A, n)
        /\ i + 1 \notin N
    BY IssueGhosts
  <1>4. S[Len(a) + 1] = V  BY <1>2, SeenFacts
  <1>5. /\ DOMAIN F2 = DOMAIN F \cup {b} /\ F2[b].event = e /\ F2[b].n = i + 1
        /\ \A x \in DOMAIN F : F2[x] = F[x]
    BY DEF Extend
  <1>6. /\ DOMAIN F \subseteq Buffers
        /\ \A n \in N : (Order[n] \in DOMAIN F /\ F[Order[n]].n = n)
                        \/ Awaited(q, C, A, n, Len(q) + 1)
        /\ \A x \in DOMAIN F : /\ F[x].n \in 1..i
                               /\ E[Len(q) + 1][x] = {<<0, F[x].n>>}
                               /\ F[x].n \in N => ev[F[x].event] = Final(C, A, F[x].n)
        /\ \A x \in Buffers \ DOMAIN F : E[Len(q) + 1][x] = L[x]
    BY DEF Flies
  <1>7. \A n \in N : Awaited(q, C, A, n, Len(q) + 1) => Awaited(a, C2, A2, n, Len(a) + 1)
    BY IssueAwaited
  <1> HIDE DEF N, N2, S, F2
  <1>8. \A n \in N2 : (Order[n] \in DOMAIN F2 /\ F2[Order[n]].n = n)
                      \/ Awaited(a, C2, A2, n, Len(a) + 1)
    BY <1>1, <1>3, <1>5, <1>6, <1>7
  <1>9. ASSUME NEW x \in DOMAIN F2
        PROVE  /\ F2[x].n \in 1..(i + 1) /\ S[Len(a) + 1][x] = {<<0, F2[x].n>>}
               /\ F2[x].n \in N2 => ev2[F2[x].event] = Final(C2, A2, F2[x].n)
    <2>1. CASE x = b
      <3>1. S[Len(a) + 1][x] = {<<0, i + 1>>}  BY <1>1, <1>4, <2>1
      <3>2. i + 1 \in 1..(i + 1)  BY <1>1
      <3>q. QED  BY <1>3, <1>5, <2>1, <3>1, <3>2
    <2>2. CASE x # b
      <3>1. x \in DOMAIN F /\ F2[x] = F[x]  BY <1>5, <2>2
      <3>2. F[x].n \in 1..(i + 1) /\ F[x].n # i + 1  BY <1>1, <1>6, <3>1
      <3>3. S[Len(a) + 1][x] = E[Len(q) + 1][x]  BY <1>4, <1>6, <2>2, <3>1
      <3>4. F[x].n \in N2 => F[x].n \in N  BY <1>3, <3>2
      <3>5. F[x].n \in N => ev2[F[x].event] = Final(C2, A2, F[x].n)  BY <1>3, <1>6, <3>1
      <3>q. QED  BY <1>6, <3>1, <3>2, <3>3, <3>4, <3>5
    <2>q. QED  BY <2>1, <2>2
  <1>10. \A x \in Buffers \ DOMAIN F2 : S[Len(a) + 1][x] = L[x]  BY <1>4, <1>5, <1>6
  <1>11. DOMAIN F2 \subseteq Buffers  BY <1>1, <1>5, <1>6
  <1>12. Flies(a, C2, A2, S, N2, F2, L, ev2, i + 1)  BY <1>8, <1>9, <1>10, <1>11 DEF Flies
  <1>q. QED  BY <1>12 DEF S, N2, F2

\* The memory does not change.
LEMMA IssueRemembers ==
  ASSUME NEW q, NEW c, NEW a, NEW C, NEW C2, NEW b, NEW m, NEW P, NEW A, NEW P2, NEW A2,
         NEW D, NEW i, Issues(q, c, a, C, C2, b, m, P, A, P2, A2, D, i),
         NEW E, DOMAIN E = Nat, NEW V, NEW M, NEW g, NEW r,
         Remembers(E, P, Loans(D, i), M, g, r, D)
  PROVE  Remembers(Seen(E, q, V), P2, Loans(D, i + 1), M, g, r, D)
  <1>1. IsAppend(q, c, a)  BY DEF Issues, Issue
  <1>2. Len(q) \in Nat  BY <1>1 DEF IsAppend
  <1>3. 1 \in 1..(Len(q) + 1)  BY <1>2
  <1>4. Seen(E, q, V)[1] = E[1]  BY <1>2, <1>3, SeenFacts
  <1>5. /\ Loans(D, i + 1) = Loans(D, i) \cup {i + 1} /\ P2[i + 1] = Len(q) + 1
        /\ \A n \in Loans(D, i) : P2[n] = P[n]
    BY IssueGhosts
  <1>6. P2[i + 1] # 0  BY <1>2, <1>5
  <1>7. \A n \in Loans(D, i + 1) : P2[n] = 0 <=> n \in Loans(D, i) /\ P[n] = 0
    BY <1>5, <1>6
  <1>q. QED  BY <1>4, <1>5, <1>7 DEF Remembers

\* Nor does it when any command is enqueued.
LEMMA AppendRemembers ==
  ASSUME NEW q, NEW c, NEW a, IsAppend(q, c, a), NEW P, NEW N,
         NEW E, DOMAIN E = Nat, NEW V, NEW M, NEW g, NEW r, NEW D,
         Remembers(E, P, N, M, g, r, D)
  PROVE  Remembers(Seen(E, q, V), P, N, M, g, r, D)
  <1>2. Len(q) \in Nat  BY DEF IsAppend
  <1>3. 1 \in 1..(Len(q) + 1)  BY <1>2
  <1>4. Seen(E, q, V)[1] = E[1]  BY <1>2, <1>3, SeenFacts
  <1>q. QED  BY <1>4 DEF Remembers

\* The recorded buffers, which are not lent, keep their contents.
LEMMA IssueRecalls ==
  ASSUME NEW q, NEW c, NEW a, NEW C, NEW C2, NEW b, NEW m, NEW P, NEW A, NEW P2, NEW A2,
         NEW D, NEW i, Issues(q, c, a, C, C2, b, m, P, A, P2, A2, D, i),
         NEW E, DOMAIN E = Nat, NEW V, V = [E[Len(q) + 1] EXCEPT ![b] = {<<0, i + 1>>}],
         NEW rec, NEW ev, NEW ev2, Recalls(q, C, A, Loans(D, i), E, rec, ev), b \notin DOMAIN rec,
         \A x \in DOMAIN rec : /\ ev2[rec[x].event] = ev[rec[x].event]
                               /\ c.mark # ev[rec[x].event]
  PROVE  Recalls(a, C2, A2, Loans(D, i + 1), Seen(E, q, V), rec, ev2)
  <1>1. IsAppend(q, c, a) /\ Order[i + 1] = b  BY DEF Issues, Issue
  <1>2. \A x \in DOMAIN rec : V[x] = E[Len(q) + 1][x]  OBVIOUS
  <1>a. \A x \in DOMAIN rec : /\ V[x] = E[Len(q) + 1][x]
                             /\ ev2[rec[x].event] = ev[rec[x].event]
                             /\ ~(c.op = "record" /\ c.mark = ev[rec[x].event])
    BY <1>2
  <1>3. Recalls(a, C, A, Loans(D, i), Seen(E, q, V), rec, ev2)
    BY ONLY <1>1, <1>a, Recalls(q, C, A, Loans(D, i), E, rec, ev), DOMAIN E = Nat, AppendRecalls
  <1>4. /\ Loans(D, i + 1) = Loans(D, i) \cup {i + 1}
        /\ \A n \in Loans(D, i) : Final(C2, A2, n) = Final(C, A, n)
    BY IssueGhosts
  <1>5. Recalls(a, C2, A2, Loans(D, i), Seen(E, q, V), rec, ev2)  BY <1>3, <1>4, FinalsKept
  <1> SUFFICES ASSUME NEW x \in DOMAIN rec
               PROVE  /\ x \in Buffers
                      /\ Stays(a, C2, A2, Loans(D, i + 1), Seen(E, q, V), x,
                               ev2[rec[x].event], rec[x].want)
    BY DEF Recalls
  <1>6. x \in Buffers /\ Order[i + 1] # x
        /\ Stays(a, C2, A2, Loans(D, i), Seen(E, q, V), x, ev2[rec[x].event], rec[x].want)
    BY <1>1, <1>5 DEF Recalls
  <1>7. \A n \in Loans(D, i + 1) : Order[n] = x => n \in Loans(D, i)  BY <1>4, <1>6
  <1>q. QED  BY <1>6, <1>7 DEF Stays
-----------------------------------------------------------------------------
\* A barrier's collective finds the stream empty.
LEMMA BarrierQueued ==
  ASSUME NEW D \in Nat, Order[D + 1] \notin Buffers, NEW q, NEW C, Len(C) = 0,
         NEW C2, Len(C2) = 1, C2[1].op = "allreduce", C2[1].buf = Order[D + 1], NEW P, NEW A,
         NEW A2, A2 = [A EXCEPT ![D + 1] = 1], A \in [Nat -> Nat]
  PROVE  Queued(q, C2, P, A2, D, D + 1) /\ Loans(D, D + 1) = {}
  <1>1. Live(D, D + 1) = {D + 1}  BY DEF Live
  <1>2. Loans(D, D + 1) = {}  BY <1>1 DEF Loans
  <1>3. A2[D + 1] = 1  OBVIOUS
  <1>4. 1..Len(C2) = {1}  OBVIOUS
  <1>5. ~(D + 1 < D + 1)  OBVIOUS
  <1>q. QED  BY <1>1, <1>2, <1>3, <1>4, <1>5 DEF Queued

(***************************************************************************)
(* The queues of the model are queues.                                     *)
(***************************************************************************)
\* What is left of a queue when its first command is taken.
LEMMA TailIsTail ==
  ASSUME NEW q, IsQueue(q), q # <<>>
  PROVE  IsTail(q, Tail(q)) /\ IsQueue(Tail(q))
  <1>1. PICK S : q \in Seq(S)  BY DEF IsQueue
  <1>2. Len(q) \in Nat /\ Len(q) > 0  BY QueueFacts
  <1>3. Tail(q) \in Seq(S) /\ Len(Tail(q)) = Len(q) - 1
        /\ \A k \in 1..Len(Tail(q)) : Tail(q)[k] = q[k + 1]
    BY <1>1, <1>2, HeadTailProperties
  <1>q. QED  BY <1>2, <1>3 DEF IsTail, IsQueue

\* A command enqueued is the last.
LEMMA AppendIsAppend ==
  ASSUME NEW q, IsQueue(q), NEW c
  PROVE  IsAppend(q, c, Append(q, c)) /\ IsQueue(Append(q, c))
  <1>1. PICK S : q \in Seq(S)  BY DEF IsQueue
  <1> DEFINE T == S \cup {c}
             a == Append(q, c)
  <1>2. q \in Seq(T)  BY <1>1, SeqMonotonic
  <1>3. a \in Seq(T) /\ Len(a) = Len(q) + 1 /\ Len(q) \in Nat
        /\ a[Len(q) + 1] = c /\ \A k \in 1..Len(q) : a[k] = q[k]
    BY <1>2, AppendProperties, LenProperties
  <1> HIDE DEF a, T
  <1>4. IsAppend(q, c, a) /\ IsQueue(a)  BY <1>3 DEF IsAppend, IsQueue
  <1>q. QED  BY <1>4 DEF a

\* A command of a queue is a command of the device.
LEMMA InCommands ==
  ASSUME NEW d, IsDevice(d), NEW s \in Streams, NEW k \in 1..Len(d.queue[s])
  PROVE  d.queue[s][k] \in Commands(d)
  <1>1. IsQueue(d.queue[s])  BY DEF IsDevice
  <1>2. DOMAIN d.queue[s] = 1..Len(d.queue[s])  BY <1>1, QueueFacts
  <1>3. d.queue[s][k] \in ToSet(d.queue[s])  BY <1>2 DEF ToSet
  <1>q. QED  BY <1>3 DEF Commands

\* A new record's mark is none that is waited for, recorded or remembered.
LEMMA FreshMarkIsFresh ==
  ASSUME NEW d, IsDevice(d), IsFiniteSet(DOMAIN d.events)
  PROVE  /\ \A s \in Streams : \A k \in 1..Len(d.queue[s]) : d.queue[s][k].mark # FreshMark(d)
         /\ \A e \in DOMAIN d.events : d.events[e] # FreshMark(d)
  <1> DEFINE K == Commands(d)
             R == {c.mark : c \in K}
             G == Range(d.events)
             X == DOMAIN d.events
             T == Cardinality(K) + Cardinality(X) + 1
  <1>1. ASSUME NEW s \in Streams
        PROVE  IsFiniteSet(ToSet(d.queue[s]))
    <2>1. IsQueue(d.queue[s])  BY DEF IsDevice
    <2>2. DOMAIN d.queue[s] = 1..Len(d.queue[s]) /\ Len(d.queue[s]) \in Nat
      BY <2>1, QueueFacts
    <2>3. IsFiniteSet(1..Len(d.queue[s]))
      <3>1. 1 \in Int /\ Len(d.queue[s]) \in Int  BY <2>2
      <3>q. QED  BY <3>1, FS_Interval
    <2>4. d.queue[s] \in Surjection(DOMAIN d.queue[s], ToSet(d.queue[s]))
      <3>1. PICK S : d.queue[s] \in Seq(S)  BY <2>1 DEF IsQueue
      <3>2. d.queue[s] = [k \in DOMAIN d.queue[s] |-> d.queue[s][k]]
        BY <2>2, <3>1, LenProperties
      <3> DEFINE f == d.queue[s]
      <3> HIDE DEF f
      <3>3. f \in [DOMAIN f -> ToSet(f)]  BY <3>2 DEF ToSet, f
      <3>4. \A x \in ToSet(f) : \E k \in DOMAIN f : f[k] = x  BY DEF ToSet
      <3>5. f \in Surjection(DOMAIN f, ToSet(f))  BY <3>3, <3>4 DEF Surjection
      <3>q. QED  BY <3>5 DEF f
    <2>q. QED  BY <2>2, <2>3, <2>4, FS_Surjection
  <1>2. K = ToSet(d.queue["compute"]) \cup ToSet(d.queue["copy"]) \cup ToSet(d.queue["comm"])
    BY DEF Commands, Streams
  <1>3. IsFiniteSet(K)  BY <1>1, <1>2, FS_Union DEF Streams
  <1> HIDE DEF K
  <1>4. IsFiniteSet(R) /\ Cardinality(R) <= Cardinality(K)
    <2> DEFINE f == [c \in K |-> c.mark]
    <2>1. f \in [K -> R] /\ \A x \in R : \E c \in K : f[c] = x  OBVIOUS
    <2> HIDE DEF f, R
    <2>2. f \in Surjection(K, R)  BY <2>1 DEF Surjection
    <2>q. QED  BY <1>3, <2>2, FS_Surjection
  <1>5. G = {d.events[e] : e \in X}  BY DEF Range
  <1>6. IsFiniteSet(G) /\ Cardinality(G) <= Cardinality(X)
    <2> DEFINE f == [e \in X |-> d.events[e]]
    <2>1. f \in [X -> G] /\ \A x \in G : \E e \in X : f[e] = x  BY <1>5
    <2>2. IsFiniteSet(X)  OBVIOUS
    <2> HIDE DEF f, G, X
    <2>3. f \in Surjection(X, G)  BY <2>1 DEF Surjection
    <2>q. QED  BY <2>2, <2>3, FS_Surjection
  <1> HIDE DEF R, G, X
  <1>7. IsFiniteSet(R \cup G) /\ Cardinality(R \cup G) <= Cardinality(R) + Cardinality(G)
    <2>1. /\ IsFiniteSet(R \cup G)
          /\ Cardinality(R \cup G) = Cardinality(R) + Cardinality(G) - Cardinality(R \cap G)
      BY <1>4, <1>6, FS_Union
    <2>2. IsFiniteSet(R \cap G)  BY <1>4, FS_Subset
    <2>3. Cardinality(R \cap G) \in Nat /\ Cardinality(R) \in Nat /\ Cardinality(G) \in Nat
      BY <1>4, <1>6, <2>2, FS_CardinalityType
    <2>q. QED  BY <2>1, <2>3
  <1>8. /\ Cardinality(R) \in Nat /\ Cardinality(G) \in Nat /\ Cardinality(K) \in Nat
        /\ Cardinality(X) \in Nat /\ Cardinality(R \cup G) \in Nat
    BY <1>3, <1>4, <1>6, <1>7, FS_CardinalityType DEF X
  <1>9. T \in Nat /\ T > Cardinality(R \cup G)  BY <1>4, <1>6, <1>7, <1>8
  <1> HIDE DEF T
  <1>10. Cardinality(1..T) = T  BY <1>9, FS_Interval
  <1>11. ~(1..T \subseteq R \cup G)
    <2> SUFFICES ASSUME 1..T \in SUBSET (R \cup G) PROVE FALSE  OBVIOUS
    <2>1. Cardinality(1..T) <= Cardinality(R \cup G)  BY <1>7, FS_Subset
    <2>q. QED  BY <1>8, <1>9, <1>10, <2>1
  <1>12. FreshMark(d) \notin R \cup G
    BY <1>11 DEF FreshMark, R, G, T, X, K
  <1>13. ASSUME NEW s \in Streams, NEW k \in 1..Len(d.queue[s])
         PROVE  d.queue[s][k].mark # FreshMark(d)
    <2>1. d.queue[s][k] \in K  BY InCommands DEF K
    <2>q. QED  BY <1>12, <2>1 DEF R
  <1>14. \A e \in DOMAIN d.events : d.events[e] # FreshMark(d)
    BY <1>5, <1>12 DEF X
  <1>q. QED  BY <1>13, <1>14

(***************************************************************************)
(* One rank: q and C are the queues of its compute and communicator        *)
(* streams, ev its events, M its memory, L what its program takes the      *)
(* buffers to hold, F its buckets in flight, rec its recorded buffers, i   *)
(* how many collectives it has issued.                                     *)
(***************************************************************************)
Tracks(q, C, ev, M, L, F, rec, i, g, r, D, E, P, A) ==
  /\ D \in Nat /\ i \in Nat /\ D <= i
  /\ DOMAIN E = Nat /\ Ghosts(P, A, Loans(D, i)) /\ DOMAIN M = Buffers
  /\ ComputeShape(q) /\ CommShape(C) /\ Views(q, E, i)
  /\ Evolves(q, E, P, Loans(D, i)) /\ Lends(q, E, P, Loans(D, i), g, r)
  /\ Guarded(q, C, P, A, Loans(D, i)) /\ Queued(q, C, P, A, D, i)
  /\ Flies(q, C, A, E, Loans(D, i), F, L, ev, i)
  /\ Remembers(E, P, Loans(D, i), M, g, r, D)
  /\ Recalls(q, C, A, Loans(D, i), E, rec, ev)

\* A command keeps the set of the buffers.
LEMMA AfterDomain ==
  ASSUME NEW c, NEW V, DOMAIN V = Buffers PROVE DOMAIN After(c, V) = Buffers
  BY DEF After

\* The compute stream takes a command.
LEMMA ComputeTracks ==
  ASSUME NEW q, NEW t, IsTail(q, t), NEW C, NEW ev, NEW M, NEW L, NEW F, NEW rec, NEW i,
         NEW g, NEW r, NEW D, NEW E, NEW P, NEW A,
         Tracks(q, C, ev, M, L, F, rec, i, g, r, D, E, P, A),
         NotAwaited(q[1], C, A, Loans(D, i))
  PROVE  Tracks(t, C, ev, After(q[1], M), L, F, rec, i, g, r, D, Shift(E), Down(P), A)
  <1> DEFINE N == Loans(D, i)
  <1>1. /\ D \in Nat /\ i \in Nat /\ D <= i
        /\ DOMAIN E = Nat /\ Ghosts(P, A, N) /\ DOMAIN M = Buffers
        /\ ComputeShape(q) /\ CommShape(C) /\ Views(q, E, i)
        /\ Evolves(q, E, P, N) /\ Lends(q, E, P, N, g, r)
        /\ Guarded(q, C, P, A, N) /\ Queued(q, C, P, A, D, i)
        /\ Flies(q, C, A, E, N, F, L, ev, i)
        /\ Remembers(E, P, N, M, g, r, D)
        /\ Recalls(q, C, A, N, E, rec, ev)
    BY DEF Tracks
  <1>2. Ghosts(Down(P), A, N) /\ DOMAIN Shift(E) = Nat
    BY <1>1, DownFacts DEF Ghosts, Shift
  <1>3. DOMAIN After(q[1], M) = Buffers  BY <1>1, AfterDomain
  <1>4. ComputeShape(t) /\ Views(t, Shift(E), i)  BY <1>1, TailViews
  <1>5. Evolves(t, Shift(E), Down(P), N) /\ Lends(t, Shift(E), Down(P), N, g, r)
    BY <1>1, TailEvolves
  <1>6. Guarded(t, C, Down(P), A, N)  BY <1>1, TailGuarded
  <1>7. Queued(t, C, Down(P), A, D, i)  BY <1>1, TailQueued
  <1>8. Flies(t, C, A, Shift(E), N, F, L, ev, i)  BY <1>1, TailFlies
  <1>9. Remembers(Shift(E), Down(P), N, After(q[1], M), g, r, D)  BY <1>1, TailRemembers
  <1>10. Recalls(t, C, A, N, Shift(E), rec, ev)  BY <1>1, TailStays DEF Recalls
  <1> HIDE DEF N
  <1>q. QED
    BY <1>1, <1>2, <1>3, <1>4, <1>5, <1>6, <1>7, <1>8, <1>9, <1>10 DEF Tracks, N

\* The communicator's stream takes a wait or a record.
LEMMA CommTracks ==
  ASSUME NEW q, NEW C, NEW C2, IsTail(C, C2), C[1].op # "allreduce",
         NEW ev, NEW M, NEW L, NEW F, NEW rec, NEW i, NEW g, NEW r, NEW D, NEW E, NEW P, NEW A,
         Tracks(q, C, ev, M, L, F, rec, i, g, r, D, E, P, A),
         C[1].op = "wait" => \A k \in 1..Len(q) : ~Records(q, k, C[1].mark)
  PROVE  /\ Tracks(q, C2, ev, M, L, F, rec, i, g, r, D, E, P, Down(A))
         /\ \A n \in Loans(D, i) : Final(C2, Down(A), n) = Final(C, A, n)
  <1> DEFINE N == Loans(D, i)
  <1>1. /\ D \in Nat /\ i \in Nat /\ D <= i
        /\ DOMAIN E = Nat /\ Ghosts(P, A, N) /\ DOMAIN M = Buffers
        /\ ComputeShape(q) /\ CommShape(C) /\ Views(q, E, i)
        /\ Evolves(q, E, P, N) /\ Lends(q, E, P, N, g, r)
        /\ Guarded(q, C, P, A, N) /\ Queued(q, C, P, A, D, i)
        /\ Flies(q, C, A, E, N, F, L, ev, i)
        /\ Remembers(E, P, N, M, g, r, D)
        /\ Recalls(q, C, A, N, E, rec, ev)
    BY DEF Tracks
  <1>2. Ghosts(P, Down(A), N)  BY <1>1, DownFacts DEF Ghosts
  <1>3. CommShape(C2)  BY <1>1 DEF CommShape, IsTail
  <1>4. /\ \A n \in N : Final(C2, Down(A), n) = Final(C, A, n)
        /\ Queued(q, C2, P, Down(A), D, i)
    BY <1>1, CommTail
  <1>5. N \in SUBSET N  OBVIOUS
  <1> HIDE DEF N
  <1>6. /\ Guarded(q, C2, P, Down(A), N) /\ Flies(q, C2, Down(A), E, N, F, L, ev, i)
        /\ Recalls(q, C2, Down(A), N, E, rec, ev)
    BY <1>1, <1>4, <1>5, FinalsKept
  <1>q. QED  BY <1>1, <1>2, <1>3, <1>4, <1>6 DEF Tracks, N

\* The next collective runs.
LEMMA RunTracks ==
  ASSUME NEW q, NEW C, NEW C2, IsTail(C, C2), C[1].op = "allreduce",
         NEW ev, NEW M, NEW L, NEW F, NEW rec, NEW i, NEW g, NEW r, NEW D, NEW E, NEW P, NEW A,
         Tracks(q, C, ev, M, L, F, rec, i, g, r, D, E, P, A),
         NEW M2, Summed(M, M2, g, D)
  PROVE  /\ Tracks(q, C2, ev, M2, L, F, rec, i, g, r, D + 1, E, P, Down(A))
         /\ \A n \in Loans(D + 1, i) : Final(C2, Down(A), n) = Final(C, A, n)
  <1> DEFINE N == Loans(D, i)
             N2 == Loans(D + 1, i)
  <1>1. /\ D \in Nat /\ i \in Nat /\ D <= i
        /\ DOMAIN E = Nat /\ Ghosts(P, A, N) /\ DOMAIN M = Buffers
        /\ ComputeShape(q) /\ CommShape(C) /\ Views(q, E, i)
        /\ Evolves(q, E, P, N) /\ Lends(q, E, P, N, g, r)
        /\ Guarded(q, C, P, A, N) /\ Queued(q, C, P, A, D, i)
        /\ Flies(q, C, A, E, N, F, L, ev, i)
        /\ Remembers(E, P, N, M, g, r, D)
        /\ Recalls(q, C, A, N, E, rec, ev)
    BY DEF Tracks
  <1>2. N2 \in SUBSET N /\ N2 = N \ {D + 1}  BY <1>1, LaterLoans
  <1>3. Ghosts(P, Down(A), N2)  BY <1>1, <1>2, DownFacts DEF Ghosts
  <1>4. CommShape(C2)  BY <1>1 DEF CommShape, IsTail
  <1>5. D + 1 \in Live(D, i) /\ (D + 1 \in N => P[D + 1] = 0)
    BY <1>1, HeadIsNext DEF IsTail
  <1>6. D + 1 \in Nat /\ D + 1 <= i  BY <1>1, <1>5 DEF Live
  <1>7. /\ \A n \in N2 : Final(C2, Down(A), n) = Final(C, A, n)
        /\ Queued(q, C2, P, Down(A), D + 1, i)
    BY <1>1, RunQueued
  <1>8. Remembers(E, P, N2, M2, g, r, D + 1)  BY <1>1, <1>5, RunRemembers
  <1> HIDE DEF N, N2
  <1>9. /\ Guarded(q, C2, P, Down(A), N2) /\ Flies(q, C2, Down(A), E, N2, F, L, ev, i)
        /\ Recalls(q, C2, Down(A), N2, E, rec, ev)
    <2>1. N2 \in SUBSET N  BY <1>2
    <2>2. \A n \in N2 : Final(C2, Down(A), n) = Final(C, A, n)  BY <1>7 DEF N2
    <2>q. QED  BY ONLY <1>1, <2>1, <2>2, FinalsKept
  \* A collective that has run was not waiting for its loan.
  <1>10. Evolves(q, E, P, N2)
    <2> SUFFICES ASSUME NEW k \in 1..Len(q), \A n \in N2 : P[n] # k
                 PROVE  E[k + 1] = After(q[k], E[k])
      BY DEF Evolves
    <2>1. \A n \in N : P[n] # k  BY <1>2, <1>5
    <2>q. QED  BY <1>1, <2>1 DEF Evolves
  <1>11. Lends(q, E, P, N2, g, r)  BY <1>1, <1>2 DEF Lends
  <1>12. DOMAIN M2 = Buffers  BY DEF Summed
  <1>q. QED
    BY <1>1, <1>3, <1>4, <1>6, <1>7, <1>8, <1>9, <1>10, <1>11, <1>12 DEF Tracks, N2

\* What a command would have to be for the program to enqueue it.
Permitted(c, F, rec) ==
  /\ c.op = "write" => c.buf \in Buffers /\ Known(c.val, 0)
  /\ c.op = "copy" => c.buf \in Buffers /\ c.from \in Buffers
  /\ c.op = "read" => c.from \in Buffers
  /\ \A b \in DOMAIN F : ~Uses(c, b)
  /\ c.op \in {"write", "copy"} => c.buf \notin DOMAIN rec

\* What the program takes buffers to hold is what they will hold.
LEMMA LastView ==
  ASSUME NEW q, NEW C, NEW ev, NEW M, NEW L, NEW F, NEW rec, NEW i,
         NEW g, NEW r, NEW D, NEW E, NEW P, NEW A, Len(q) \in Nat,
         Tracks(q, C, ev, M, L, F, rec, i, g, r, D, E, P, A)
  PROVE  /\ DOMAIN E[Len(q) + 1] = Buffers
         /\ \A b \in Buffers : Known(E[Len(q) + 1][b], i)
         /\ \A b \in Buffers \ DOMAIN F : E[Len(q) + 1][b] = L[b]
         /\ \A n \in Loans(D, i) : Order[n] \notin DOMAIN F => Awaited(q, C, A, n, Len(q) + 1)
  <1>1. Len(q) + 1 \in 1..(Len(q) + 1)  OBVIOUS
  <1>2. Views(q, E, i) /\ Flies(q, C, A, E, Loans(D, i), F, L, ev, i)  BY DEF Tracks
  <1>q. QED  BY <1>1, <1>2 DEF Views, Flies

\* The program enqueues a command it may.
LEMMA AppendTracks ==
  ASSUME NEW q, NEW c, NEW a, IsAppend(q, c, a), NEW C, NEW ev, NEW ev2, NEW M, NEW L, NEW L2,
         NEW F, NEW rec, NEW i, NEW g, NEW r, NEW D, NEW E, NEW P, NEW A,
         Tracks(q, C, ev, M, L, F, rec, i, g, r, D, E, P, A),
         Permitted(c, F, rec), SameEvents(ev, ev2, F), SameEvents(ev, ev2, rec),
         c.op = "record" => \A b \in DOMAIN rec : c.mark # ev[rec[b].event],
         NEW V, V = After(c, E[Len(q) + 1]), \A b \in Buffers \ DOMAIN F : V[b] = L2[b]
  PROVE  Tracks(a, C, ev2, M, L2, F, rec, i, g, r, D, Seen(E, q, V), P, A)
  <1> DEFINE N == Loans(D, i)
  <1>0. Len(q) \in Nat  BY DEF IsAppend
  <1>1. /\ D \in Nat /\ i \in Nat /\ D <= i
        /\ DOMAIN E = Nat /\ Ghosts(P, A, N) /\ DOMAIN M = Buffers
        /\ ComputeShape(q) /\ CommShape(C) /\ Views(q, E, i)
        /\ Evolves(q, E, P, N) /\ Lends(q, E, P, N, g, r)
        /\ Guarded(q, C, P, A, N) /\ Queued(q, C, P, A, D, i)
        /\ Flies(q, C, A, E, N, F, L, ev, i)
        /\ Remembers(E, P, N, M, g, r, D)
        /\ Recalls(q, C, A, N, E, rec, ev)
    BY DEF Tracks
  <1> DEFINE W == E[Len(q) + 1]
  <1>2. /\ DOMAIN W = Buffers /\ \A b \in Buffers : Known(W[b], i)
        /\ \A n \in N : Order[n] \notin DOMAIN F => Awaited(q, C, A, n, Len(q) + 1)
    BY <1>0, LastView
  <1>3. DOMAIN Seen(E, q, V) = Nat  BY <1>0, <1>1, SeenFacts
  <1>4. DOMAIN V = Buffers  BY <1>2, AfterDomain
  <1>5. DOMAIN F \subseteq Buffers /\ DOMAIN rec \subseteq Buffers
    BY <1>1 DEF Flies, Recalls
  <1> HIDE DEF N, W
  <1>6. \A b \in DOMAIN F : V[b] = W[b]
    BY <1>2, <1>5, AfterFacts DEF Permitted, W
  <1>7. \A b \in DOMAIN rec : V[b] = W[b]
    <2> SUFFICES ASSUME NEW b \in DOMAIN rec PROVE V[b] = W[b]  OBVIOUS
    <2>1. b \in Buffers /\ ~(c.op \in {"write", "copy"} /\ c.buf = b)  BY <1>5 DEF Permitted
    <2>q. QED  BY <1>2, <2>1, AfterFacts DEF W
  <1>8. \A b \in Buffers : Known(V[b], i)
    <2> SUFFICES ASSUME NEW b \in Buffers PROVE Known(V[b], i)  OBVIOUS
    <2>1. CASE c.op = "write" /\ c.buf = b
      <3>1. V[b] = c.val /\ Known(c.val, 0)  BY <1>2, <2>1, AfterFacts DEF Permitted, W
      <3>q. QED  BY <1>1, <3>1, KnownLater
    <2>2. CASE c.op = "copy" /\ c.buf = b
      <3>1. V[b] = W[c.from] /\ c.from \in Buffers
        BY <1>2, <2>2, AfterFacts DEF Permitted, W
      <3>q. QED  BY <1>2, <3>1
    <2>3. CASE ~(c.op \in {"write", "copy"} /\ c.buf = b)
      <3>1. V[b] = W[b]  BY <1>2, <2>3, AfterFacts DEF W
      <3>q. QED  BY <1>2, <3>1
    <2>q. QED  BY <2>1, <2>2, <2>3
  <1>9. ComputeShape(a) /\ Views(a, Seen(E, q, V), i)
    BY <1>1, <1>4, <1>8, AppendViews DEF Permitted
  <1>10. /\ Evolves(a, Seen(E, q, V), P, N) /\ Lends(a, Seen(E, q, V), P, N, g, r)
         /\ \A n \in N : P[n] # Len(q) + 1
    BY <1>1, AppendEvolves
  <1>11. Guarded(a, C, P, A, N)
    <2>1. \A n \in N : Uses(c, Order[n]) => Awaited(q, C, A, n, Len(q) + 1)
      BY <1>2 DEF Permitted
    <2>q. QED  BY <1>1, <1>10, <2>1, AppendGuarded
  <1>12. Queued(a, C, P, A, D, i)  BY <1>1, AppendQueued DEF N
  <1>13. Flies(a, C, A, Seen(E, q, V), N, F, L2, ev2, i)
    <2>1. \A b \in DOMAIN F : V[b] = E[Len(q) + 1][b] /\ ev2[F[b].event] = ev[F[b].event]
      BY <1>6 DEF SameEvents, W
    <2>q. QED  BY <1>1, <2>1, AppendFlies
  <1>14. Remembers(Seen(E, q, V), P, N, M, g, r, D)  BY <1>1, AppendRemembers
  <1>15. Recalls(a, C, A, N, Seen(E, q, V), rec, ev2)
    <2>1. \A b \in DOMAIN rec : /\ V[b] = E[Len(q) + 1][b]
                               /\ ev2[rec[b].event] = ev[rec[b].event]
                               /\ ~(c.op = "record" /\ c.mark = ev[rec[b].event])
      BY <1>7 DEF SameEvents, W
    <2>q. QED  BY <1>1, <2>1, AppendRecalls
  <1>q. QED
    BY <1>1, <1>3, <1>9, <1>10, <1>11, <1>12, <1>13, <1>14, <1>15 DEF Tracks, N

\* A buffer is recorded, to be read later.
LEMMA RecordTracks ==
  ASSUME NEW q, NEW c, NEW a, IsAppend(q, c, a), NEW C, NEW ev, NEW ev2, NEW M, NEW L,
         NEW F, NEW rec, NEW i, NEW g, NEW r, NEW D, NEW E, NEW P, NEW A,
         Tracks(q, C, ev, M, L, F, rec, i, g, r, D, E, P, A),
         c.op = "record", \A k \in 1..Len(q) : q[k].mark # c.mark,
         \A b \in DOMAIN rec : c.mark # ev[rec[b].event],
         SameEvents(ev, ev2, F), SameEvents(ev, ev2, rec),
         NEW b \in Buffers \ DOMAIN F, b \notin DOMAIN rec, NEW e, ev2[e] = c.mark
  PROVE  Tracks(a, C, ev2, M, L, F, Extend(rec, b, [event |-> e, want |-> L[b]]), i, g, r, D,
                Seen(E, q, E[Len(q) + 1]), P, A)
  <1> DEFINE N == Loans(D, i)
             V == E[Len(q) + 1]
             S == Seen(E, q, V)
             rec2 == Extend(rec, b, [event |-> e, want |-> L[b]])
  <1>1. After(c, V) = V /\ Permitted(c, F, rec)  BY DEF After, Permitted, Uses
  <1>2. Len(q) \in Nat  BY DEF IsAppend
  <1>3. /\ DOMAIN V = Buffers
        /\ \A x \in Buffers \ DOMAIN F : V[x] = L[x]
        /\ \A n \in N : Order[n] \notin DOMAIN F => Awaited(q, C, A, n, Len(q) + 1)
    BY <1>2, LastView
  <1>4. DOMAIN E = Nat  BY DEF Tracks
  <1>5. Tracks(a, C, ev2, M, L, F, rec, i, g, r, D, S, P, A)
    BY <1>1, <1>3, AppendTracks
  <1>6. Stays(a, C, A, N, S, b, c.mark, V[b])
    <2>1. \A n \in N : Order[n] = b => Awaited(q, C, A, n, Len(q) + 1)  BY <1>3
    <2>q. QED  BY <1>4, <2>1, RecordStays
  <1>7. V[b] = L[b]  BY <1>3
  <1>8. /\ DOMAIN rec2 = DOMAIN rec \cup {b}
        /\ rec2[b].event = e /\ rec2[b].want = L[b]
        /\ \A x \in DOMAIN rec : rec2[x] = rec[x]
    BY DEF Extend
  <1>9. Recalls(a, C, A, N, S, rec, ev2)  BY <1>5 DEF Tracks
  <1> HIDE DEF N, V, S, rec2
  <1>10. Recalls(a, C, A, N, S, rec2, ev2)
    BY <1>6, <1>7, <1>8, <1>9 DEF Recalls
  <1>11. Tracks(a, C, ev2, M, L, F, rec2, i, g, r, D, S, P, A)
    BY <1>5, <1>10 DEF Tracks, N
  <1>q. QED  BY <1>11 DEF rec2, S, V

\* Events are destroyed, or recorded buffers forgotten.
LEMMA KeepTracks ==
  ASSUME NEW q, NEW C, NEW ev, NEW ev2, NEW M, NEW L,
         NEW F, NEW rec, NEW rec2, NEW i, NEW g, NEW r, NEW D, NEW E, NEW P, NEW A,
         Tracks(q, C, ev, M, L, F, rec, i, g, r, D, E, P, A),
         DOMAIN rec2 \subseteq DOMAIN rec, \A b \in DOMAIN rec2 : rec2[b] = rec[b],
         SameEvents(ev, ev2, F), SameEvents(ev, ev2, rec2)
  PROVE  Tracks(q, C, ev2, M, L, F, rec2, i, g, r, D, E, P, A)
  <1> DEFINE N == Loans(D, i)
  <1>1. Flies(q, C, A, E, N, F, L, ev, i) /\ Recalls(q, C, A, N, E, rec, ev)  BY DEF Tracks
  <1> HIDE DEF N
  <1>2. Flies(q, C, A, E, N, F, L, ev2, i)  BY <1>1 DEF Flies, SameEvents
  <1>3. Recalls(q, C, A, N, E, rec2, ev2)  BY <1>1 DEF Recalls, SameEvents
  <1>q. QED  BY <1>2, <1>3 DEF Tracks, N

\* The compute stream waits for a bucket, which the program has back.
LEMMA AwaitTracks ==
  ASSUME NEW q, NEW c, NEW a, IsAppend(q, c, a), NEW C, NEW ev, NEW ev2, NEW M, NEW L, NEW L2,
         NEW F, NEW F2, NEW rec, NEW i, NEW g, NEW r, NEW D, NEW E, NEW P, NEW A,
         Tracks(q, C, ev, M, L, F, rec, i, g, r, D, E, P, A),
         NEW b \in DOMAIN F, c.op = "wait", c.mark = ev[F[b].event],
         Rejoins(F, F2, L, L2, {b}), SameEvents(ev, ev2, F2), SameEvents(ev, ev2, rec)
  PROVE  Tracks(a, C, ev2, M, L2, F2, rec, i, g, r, D, Seen(E, q, E[Len(q) + 1]), P, A)
  <1> DEFINE N == Loans(D, i)
             V == E[Len(q) + 1]
             S == Seen(E, q, V)
  <1>1. After(c, V) = V /\ Permitted(c, F, rec)  BY DEF After, Permitted, Uses
  <1>2. Len(q) \in Nat /\ DOMAIN E = Nat /\ Flies(q, C, A, E, N, F, L, ev, i)
    BY DEF IsAppend, Tracks
  \* With the events as they were, and the views in place of the program's.
  <1>3. Tracks(a, C, ev, M, V, F, rec, i, g, r, D, S, P, A)
    <2>1. SameEvents(ev, ev, F) /\ SameEvents(ev, ev, rec)  BY DEF SameEvents
    <2>q. QED  BY <1>1, <2>1, AppendTracks
  <1>5. Flies(a, C, A, S, N, F2, L2, ev2, i)  BY <1>2, AwaitFlies
  <1>6. Recalls(a, C, A, N, S, rec, ev)  BY <1>3 DEF Tracks
  <1> HIDE DEF N, V, S
  <1>7. Recalls(a, C, A, N, S, rec, ev2)  BY <1>6 DEF Recalls, SameEvents
  <1>8. Tracks(a, C, ev2, M, L2, F2, rec, i, g, r, D, S, P, A)
    BY <1>3, <1>5, <1>7 DEF Tracks, N
  <1>q. QED  BY <1>8 DEF S, V

\* With nothing on the stream, the program has all its buckets back.
LEMMA SyncTracks ==
  ASSUME NEW q, NEW C, Len(C) = 0, NEW ev, NEW ev2, NEW M, NEW L, NEW L2,
         NEW F, NEW F2, NEW rec, NEW i, NEW g, NEW r, NEW D, NEW E, NEW P, NEW A,
         Tracks(q, C, ev, M, L, F, rec, i, g, r, D, E, P, A),
         Rejoins(F, F2, L, L2, DOMAIN F), SameEvents(ev, ev2, rec)
  PROVE  Tracks(q, C, ev2, M, L2, F2, rec, i, g, r, D, E, P, A)
  <1> DEFINE N == Loans(D, i)
  <1>1. /\ D \in Nat /\ i \in Nat /\ D <= i /\ Queued(q, C, P, A, D, i)
        /\ Flies(q, C, A, E, N, F, L, ev, i) /\ Recalls(q, C, A, N, E, rec, ev)
    BY DEF Tracks
  <1>2. N = {}  BY <1>1, NoneLive
  <1> HIDE DEF N
  <1>3. Flies(q, C, A, E, N, F2, L2, ev2, i)  BY <1>1, <1>2, SyncFlies
  <1>4. Recalls(q, C, A, N, E, rec, ev2)  BY <1>1 DEF Recalls, SameEvents
  <1>q. QED  BY <1>3, <1>4 DEF Tracks, N

\* A barrier's collective is issued with nothing on the stream.
LEMMA BarrierTracks ==
  ASSUME NEW q, NEW C, Len(C) = 0, NEW C2, Len(C2) = 1, C2[1].op = "allreduce",
         NEW ev, NEW M, NEW L, NEW F, NEW rec, NEW i, NEW g, NEW r, NEW D, NEW E, NEW P, NEW A,
         Tracks(q, C, ev, M, L, F, rec, i, g, r, D, E, P, A),
         C2[1].buf = Order[i + 1], Order[i + 1] \notin Buffers,
         NEW A2, A2 = [A EXCEPT ![i + 1] = 1]
  PROVE  /\ Tracks(q, C2, ev, M, L, F, rec, i + 1, g, r, D, E, P, A2)
         /\ Loans(D, i) = {} /\ Loans(D, i + 1) = {}
  <1>1. /\ D \in Nat /\ i \in Nat /\ D <= i /\ Queued(q, C, P, A, D, i)
        /\ DOMAIN E = Nat /\ Ghosts(P, A, Loans(D, i)) /\ DOMAIN M = Buffers
        /\ ComputeShape(q) /\ Views(q, E, i)
        /\ Evolves(q, E, P, Loans(D, i)) /\ Lends(q, E, P, Loans(D, i), g, r)
        /\ Flies(q, C, A, E, Loans(D, i), F, L, ev, i)
        /\ Remembers(E, P, Loans(D, i), M, g, r, D)
        /\ Recalls(q, C, A, Loans(D, i), E, rec, ev)
    BY DEF Tracks
  <1>2. Loans(D, i) = {} /\ D = i  BY <1>1, NoneLive
  <1>3. A \in [Nat -> Nat] /\ P \in [Nat -> Nat]  BY <1>1 DEF Ghosts
  <1>4. Queued(q, C2, P, A2, D, D + 1) /\ Loans(D, D + 1) = {}
    BY <1>1, <1>2, <1>3, BarrierQueued
  <1>5. Queued(q, C2, P, A2, D, i + 1) /\ Loans(D, i + 1) = {}  BY <1>2, <1>4
  <1>6. A2 \in [Nat -> Nat]  BY <1>3
  <1>7. Ghosts(P, A2, {})  BY <1>3, <1>6 DEF Ghosts
  <1>8. CommShape(C2)
    <2>1. \A k \in 1..Len(C2) : k = 1  OBVIOUS
    <2>q. QED  BY <2>1 DEF CommShape
  <1>9. \A v : Known(v, i) => Known(v, i + 1)  BY <1>1, KnownLater
  <1>10. Views(q, E, i + 1)  BY <1>1, <1>9 DEF Views
  <1>11. Evolves(q, E, P, {}) /\ Lends(q, E, P, {}, g, r) /\ Guarded(q, C2, P, A2, {})
    BY <1>1, <1>2 DEF Lends, Guarded
  <1>12. Flies(q, C2, A2, E, {}, F, L, ev, i + 1)
    <2>1. \A b \in DOMAIN F : F[b].n \in 1..(i + 1)  BY <1>1 DEF Flies
    <2>q. QED  BY <1>1, <2>1 DEF Flies
  <1>13. Remembers(E, P, {}, M, g, r, D)  BY <1>1, <1>2
  <1>14. Recalls(q, C2, A2, {}, E, rec, ev)
    <2>1. Recalls(q, C, A, {}, E, rec, ev)  BY <1>1, <1>2
    <2>q. QED  BY <2>1 DEF Recalls, Stays
  <1>15. i + 1 \in Nat /\ D <= i + 1  BY <1>1
  <1>q. QED
    BY <1>1, <1>2, <1>5, <1>7, <1>8, <1>10, <1>11, <1>12, <1>13, <1>14, <1>15 DEF Tracks

\* The bucket b is lent to the next collective, whose completion has the mark m.
Hands(E, q, b, i) == Seen(E, q, [E[Len(q) + 1] EXCEPT ![b] = {<<0, i + 1>>}])
Lending(b, i, F, F2, rec, L, g, r, c, m, ev, ev2) ==
  /\ b \in Buffers /\ Order[i + 1] = b /\ b \notin DOMAIN F /\ b \notin DOMAIN rec
  /\ g[i + 1][r] = L[b] /\ SameEvents(ev, ev2, F) /\ SameEvents(ev, ev2, rec)
  /\ \E e : F2 = Extend(F, b, [event |-> e, n |-> i + 1]) /\ ev2[e] = m
  /\ \A x \in DOMAIN rec : c.mark # ev[rec[x].event]

\* A bucket is lent to the next collective.
LEMMA IssueTracks ==
  ASSUME NEW q, NEW c, NEW a, NEW C, NEW C2, NEW b, NEW m, NEW P, NEW A, NEW P2, NEW A2,
         NEW D, NEW i, Issues(q, c, a, C, C2, b, m, P, A, P2, A2, D, i),
         NEW ev, NEW ev2, NEW M, NEW L, NEW F, NEW F2, NEW rec, NEW g, NEW g2, NEW r, NEW E,
         Tracks(q, C, ev, M, L, F, rec, i, g, r, D, E, P, A),
         Lending(b, i, F, F2, rec, L, g2, r, c, m, ev, ev2),
         \A n \in Loans(D, i) : g2[n][r] = g[n][r], Remembers(E, P, Loans(D, i), M, g2, r, D)
  PROVE  Tracks(a, C2, ev2, M, L, F2, rec, i + 1, g2, r, D, Hands(E, q, b, i), P2, A2)
  <1>1. PICK e : F2 = Extend(F, b, [event |-> e, n |-> i + 1]) /\ ev2[e] = m  BY DEF Lending
  <1>2. /\ b \in Buffers /\ Order[i + 1] = b /\ b \notin DOMAIN F /\ b \notin DOMAIN rec
        /\ g2[i + 1][r] = L[b] /\ SameEvents(ev, ev2, F) /\ SameEvents(ev, ev2, rec)
        /\ \A x \in DOMAIN rec : c.mark # ev[rec[x].event]
    BY DEF Lending
  <1> DEFINE N == Loans(D, i)
             N2 == Loans(D, i + 1)
             V == [E[Len(q) + 1] EXCEPT ![b] = {<<0, i + 1>>}]
             S == Seen(E, q, V)
  <1>3. /\ D \in Nat /\ i \in Nat /\ D <= i
        /\ DOMAIN E = Nat /\ Ghosts(P, A, N) /\ DOMAIN M = Buffers
        /\ ComputeShape(q) /\ CommShape(C) /\ Views(q, E, i)
        /\ Evolves(q, E, P, N) /\ Lends(q, E, P, N, g, r)
        /\ Guarded(q, C, P, A, N) /\ Queued(q, C, P, A, D, i)
        /\ Flies(q, C, A, E, N, F, L, ev, i)
        /\ Recalls(q, C, A, N, E, rec, ev)
    BY DEF Tracks
  <1>4. IsAppend(q, c, a) /\ c.op = "record" /\ Len(q) \in Nat /\ Len(C) \in Nat
    BY DEF Issues, Issue, IsAppend
  <1>5. Issue(q, c, a, C, C2, b, m)  BY DEF Issues
  <1>6. Ghosts(P2, A2, N2)  BY IssueGhosts
  <1>7. /\ DOMAIN E[Len(q) + 1] = Buffers /\ E[Len(q) + 1][b] = L[b]
        /\ \A n \in N : Order[n] \notin DOMAIN F => Awaited(q, C, A, n, Len(q) + 1)
    BY <1>2, <1>4, LastView
  <1>8. DOMAIN S = Nat  BY <1>3, <1>4, SeenFacts
  <1> HIDE DEF N, N2, S, V
  <1>9. ComputeShape(a) /\ Views(a, S, i + 1)  BY <1>2, <1>3, <1>4, IssueViews DEF S, V
  <1>10. CommShape(C2)
    <2> SUFFICES ASSUME NEW k \in 1..Len(C2)
                 PROVE  C2[k].op \in {"wait", "record", "allreduce"}
      BY DEF CommShape
    <2>1. CASE k \in 1..Len(C)  BY <1>3, <1>5, <2>1 DEF Issue, CommShape
    <2>2. CASE k \notin 1..Len(C)
      <3>1. k = Len(C) + 1 \/ k = Len(C) + 2 \/ k = Len(C) + 3  BY <1>4, <1>5, <2>2 DEF Issue
      <3>q. QED  BY <1>5, <3>1 DEF Issue
    <2>q. QED  BY <2>1, <2>2
  <1>11. /\ Evolves(a, S, P2, N2) /\ Lends(a, S, P2, N2, g2, r)
        /\ \A n \in N : P[n] # Len(q) + 1
    <2>1. g2[i + 1][r] = E[Len(q) + 1][b]  BY <1>2, <1>7
    <2>2. V = [E[Len(q) + 1] EXCEPT ![b] = {<<0, i + 1>>}]
          /\ \A n \in Loans(D, i) : g2[n][r] = g[n][r]
      BY DEF V
    <2>3. DOMAIN E = Nat /\ Evolves(q, E, P, Loans(D, i)) /\ Lends(q, E, P, Loans(D, i), g, r)
      BY <1>3 DEF N
    <2>4. Issues(q, c, a, C, C2, b, m, P, A, P2, A2, D, i)  OBVIOUS
    <2>q. QED  BY ONLY <2>4, <2>1, <2>2, <2>3, IssueLends DEF N, N2, S
  <1>12. Guarded(a, C2, P2, A2, N2)
    <2>1. \A n \in N : Order[n] = b => Awaited(q, C, A, n, Len(q) + 1)  BY <1>2, <1>7
    <2>q. QED  BY <1>3, <1>11, <2>1, IssueGuarded DEF N, N2
  <1>13. Queued(a, C2, P2, A2, D, i + 1)  BY <1>3, IssueQueued DEF N
  <1>14. Flies(a, C2, A2, S, N2, F2, L, ev2, i + 1)
    <2>1. V = [E[Len(q) + 1] EXCEPT ![b] = {<<0, i + 1>>}]  BY DEF V
    <2>2. \A x \in DOMAIN F : ev2[F[x].event] = ev[F[x].event]  BY <1>2 DEF SameEvents
    <2>3. /\ DOMAIN E = Nat /\ DOMAIN E[Len(q) + 1] = Buffers
          /\ Flies(q, C, A, E, Loans(D, i), F, L, ev, i)
      BY <1>3, <1>7 DEF N
    <2>4. Issues(q, c, a, C, C2, b, m, P, A, P2, A2, D, i)  OBVIOUS
    <2>5. b \notin DOMAIN F /\ ev2[e] = m  BY <1>1, <1>2
    <2>q. QED  BY ONLY <1>1, <2>1, <2>2, <2>3, <2>4, <2>5, IssueFlies DEF N2, S
  <1>15. Remembers(S, P2, N2, M, g2, r, D)  BY <1>3, IssueRemembers DEF N2, S
  <1>16. Recalls(a, C2, A2, N2, S, rec, ev2)
    <2>1. \A x \in DOMAIN rec : ev2[rec[x].event] = ev[rec[x].event] /\ c.mark # ev[rec[x].event]
      BY <1>2 DEF SameEvents
    <2>2. V = [E[Len(q) + 1] EXCEPT ![b] = {<<0, i + 1>>}] /\ b \notin DOMAIN rec
      BY <1>2 DEF V
    <2>3. DOMAIN E = Nat /\ Recalls(q, C, A, Loans(D, i), E, rec, ev)  BY <1>3 DEF N
    <2>4. Issues(q, c, a, C, C2, b, m, P, A, P2, A2, D, i)  OBVIOUS
    <2>q. QED  BY ONLY <2>4, <2>1, <2>2, <2>3, IssueRecalls DEF N2, S
  <1>17. i + 1 \in Nat /\ D <= i + 1  BY <1>3
  <1>18. Tracks(a, C2, ev2, M, L, F2, rec, i + 1, g2, r, D, S, P2, A2)
    BY <1>3, <1>6, <1>8, <1>9, <1>10, <1>11, <1>12, <1>13, <1>14, <1>15, <1>16, <1>17
    DEF Tracks, N2
  <1>q. QED  BY <1>18 DEF S, V, Hands

\* A rank that waits for no copy has none under way.
LEMMA IdleReads ==
  ASSUME NEW h, h.pc \notin {"compute", "copy"}, NEW q, NEW C, NEW K, NEW A, NEW N, NEW E,
         NEW ev, NEW g, NEW D
  PROVE  Reads(h, q, C, K, A, N, E, ev, g, D) <=> Silent(q) /\ Silent(K)
  BY DEF Reads

\* The copy stream takes a command; a read of a pipelined copy that runs hands over
\* what the buffer held at record_event.
LEMMA CopyReads ==
  ASSUME NEW q, Len(q) \in Nat, NEW C, NEW K, NEW K2, IsTail(K, K2), NEW P, NEW A, NEW D, NEW i,
         NEW N, N = Loans(D, i),
         NEW E, NEW g, NEW r, NEW M, Remembers(E, P, N, M, g, r, D), NEW ev,
         K[1].op = "wait" => \A k \in 1..Len(q) : ~Records(q, k, K[1].mark),
         NEW h, IsCall(h), Reads(h, q, C, K, A, N, E, ev, g, D),
         NEW h2, h2 = IF K[1].op = "read" /\ h.pc \in {"compute", "copy"}
                      THEN [h EXCEPT !.data = M[K[1].from]] ELSE h
  PROVE  Reads(h2, q, C, K2, A, N, E, ev, g, D)
  <1>1. h2.pc = h.pc /\ h2.want = h.want /\ h2.event = h.event  BY DEF IsCall
  <1>2. /\ 1 \in 1..Len(K) /\ Len(K) # 0 /\ Len(K2) \in Nat /\ Len(K) = Len(K2) + 1
        /\ \A k \in 1..Len(K2) : k + 1 \in 1..Len(K) /\ K2[k] = K[k + 1]
    BY DEF IsTail
  <1>3. Silent(K) => Silent(K2) /\ h2 = h  BY <1>2 DEF Silent
  <1>4. CASE h.pc = "copy"
    <2> DEFINE c == K[Len(K)]
               m == ev[h.event]
    <2>1. /\ Silent(q) /\ c.op = "read" /\ c.from \in Buffers
          /\ Stays(q, C, A, N, E, c.from, m, h.want)
          /\ IF Len(K) = 1 THEN \A k \in 1..Len(q) : ~Records(q, k, m)
             ELSE K[Len(K) - 1].op = "wait" /\ K[Len(K) - 1].mark = m
      BY <1>2, <1>4 DEF Reads
    <2> HIDE DEF c, m
    <2>2. CASE Len(K2) = 0
      <3>1. Len(K) = 1  BY <1>2, <2>2
      <3>2. PICK j \in 0..Len(q) :
              /\ j # 0 => Records(q, j, m)
              /\ \A k \in 1..(Len(q) + 1) : j <= k => E[k][c.from] = h.want
              /\ \A n \in N : Order[n] = c.from => Awaited(q, C, A, n, j)
        BY <2>1 DEF Stays
      <3>3. j = 0  BY <2>1, <3>1, <3>2
      <3>4. E[1][c.from] = h.want
        <4>1. 1 \in 1..(Len(q) + 1) /\ 0 <= 1  OBVIOUS
        <4>q. QED  BY <3>2, <3>3, <4>1
      <3>5. \A n : ~Awaited(q, C, A, n, 0)  BY DEF Awaited
      <3>6. \A n \in N : Order[n] # c.from  BY <3>2, <3>3, <3>5
      <3>7. M[c.from] = Resolve(g, h.want) /\ Known(h.want, D)
        BY <2>1, <3>4, <3>6 DEF Remembers
      <3>8. h2.data = M[c.from]  BY <1>4, <2>1, <3>1 DEF IsCall, c
      <3>9. Answered(h2, g, D)  BY <1>1, <3>7, <3>8 DEF Answered
      <3>q. QED  BY <1>1, <1>4, <2>1, <2>2, <3>9 DEF Reads
    <2>3. CASE Len(K2) # 0
      <3>1. Len(K2) \in 1..Len(K2) /\ K2[Len(K2)] = c  BY <1>2, <2>3 DEF c
      <3>2. CASE Len(K2) = 1
        <4>1. Len(K) = 2 /\ Len(K) - 1 = 1  BY <1>2, <3>2
        <4>2. K[1].op = "wait" /\ K[1].mark = m  BY <2>1, <4>1
        <4>3. \A k \in 1..Len(q) : ~Records(q, k, m)  BY <4>2
        <4>q. QED  BY <1>1, <1>4, <2>1, <2>3, <3>1, <3>2, <4>3 DEF Reads, m
      <3>3. CASE Len(K2) # 1
        <4>1. Len(K2) - 1 \in 1..Len(K2) /\ (Len(K2) - 1) + 1 = Len(K) - 1 /\ Len(K) # 1
          <5>1. Len(K2) \in Nat /\ Len(K) = Len(K2) + 1 /\ Len(K2) # 0 /\ Len(K2) # 1
            BY <1>2, <2>3, <3>3
          <5>2. \A x \in Nat \ {0, 1} : x - 1 \in 1..x /\ (x - 1) + 1 = (x + 1) - 1 /\ x + 1 # 1
            OBVIOUS
          <5>q. QED  BY <5>1, <5>2
        <4>2. K2[Len(K2) - 1] = K[Len(K) - 1]  BY <1>2, <4>1
        <4>3. K2[Len(K2) - 1].op = "wait" /\ K2[Len(K2) - 1].mark = m  BY <2>1, <4>1, <4>2
        <4>q. QED  BY <1>1, <1>4, <2>1, <2>3, <3>1, <3>3, <4>3 DEF Reads, m
      <3>q. QED  BY <3>2, <3>3
    <2>q. QED  BY <2>2, <2>3
  <1>5. CASE h.pc # "copy"
    <2>1. Silent(K)  BY <1>5 DEF Reads
    <2>q. QED  BY <1>3, <1>5, <2>1 DEF Reads
  <1>q. QED  BY <1>4, <1>5
-----------------------------------------------------------------------------
(***************************************************************************)
(* All ranks                                                               *)
(***************************************************************************)
\* One rank's queues and the copy it waits for: as it sees its device d, memory m and the rest.
Traced(r, d, m, h, rec, fl, i, lg, sy, g, D, E, P, A) ==
  /\ Tracks(d.queue["compute"], d.queue["comm"], d.events, m, lg, fl, rec, i, g, r, D, E, P, A)
  /\ CopyShape(d.queue["copy"])
  /\ ~sy => Reads(h, d.queue["compute"], d.queue["comm"], d.queue["copy"], A, Loans(D, i), E,
                  d.events, g, D)

\* What a rank's streams will do to its buffers, when D collectives have run.
Foreseen(r, D) ==
  \E E, P, A : Traced(r, dev[r], mem[r], host[r], recorded[r], flight[r], issued[r], logical[r],
                      lost[r].sync, given, D, E, P, A)

\* The state has the form of its functions, and what is given speaks of earlier sums.
Valued ==
  /\ mem = [r \in Ranks |-> mem[r]] /\ logical = [r \in Ranks |-> logical[r]]
  /\ DOMAIN given = DOMAIN Order
  /\ \A n \in DOMAIN Order : given[n] = [r \in Ranks |-> given[n][r]]
  /\ \A r \in Ranks :
       /\ DOMAIN logical[r] = Buffers
       /\ Given(given, r) /\ issued[r] <= Len(Order)
       /\ At(r, "barrier") => issued[r] < Len(Order) /\ Order[issued[r] + 1] = NoBuffer

\* The queues tell what the buffers will hold, on every rank.
Told == Valued /\ \E D \in Nat : \A r \in Ranks : Foreseen(r, D)
\* The inductive invariant.
Streamed == Owned /\ Ordered /\ Told

\* A step of one rank.
Becomes(r, d, m, h, rec, fl, i, lg, l) ==
  /\ dev' = [dev EXCEPT ![r] = d] /\ mem' = [mem EXCEPT ![r] = m]
  /\ host' = [host EXCEPT ![r] = h] /\ recorded' = [recorded EXCEPT ![r] = rec]
  /\ flight' = [flight EXCEPT ![r] = fl] /\ issued' = [issued EXCEPT ![r] = i]
  /\ logical' = [logical EXCEPT ![r] = lg] /\ lost' = [lost EXCEPT ![r] = l]

\* It gives to no collective but its next.
GivesNext(r) ==
  /\ DOMAIN given' = DOMAIN Order
  /\ \A n \in DOMAIN Order : given'[n] = [z \in Ranks |-> given'[n][z]]
  /\ \A n \in DOMAIN Order, z \in Ranks :
       z # r \/ n <= issued[r] => given'[n][z] = given[n][z]

\* No more collectives have run than were issued.
LEMMA TracedFacts ==
  ASSUME NEW r, NEW d, NEW m, NEW h, NEW rec, NEW fl, NEW i, NEW lg, NEW sy, NEW g,
         NEW D, NEW E, NEW P, NEW A, Traced(r, d, m, h, rec, fl, i, lg, sy, g, D, E, P, A)
  PROVE  D \in Nat /\ i \in Nat /\ D <= i
  BY DEF Traced, Tracks

\* What the ranks are given does not depend on what a rank gives later.
LEMMA TracedGiven ==
  ASSUME NEW r \in Ranks, NEW d, NEW m, NEW h, NEW rec, NEW fl, NEW i, NEW lg, NEW sy, NEW g,
         NEW D, NEW E, NEW P, NEW A, Traced(r, d, m, h, rec, fl, i, lg, sy, g, D, E, P, A),
         D \in 0..Len(Order), NEW g2, \A z \in Ranks : Given(g, z),
         \A n \in 1..D, z \in Ranks : g2[n][z] = g[n][z],
         \A n \in Loans(D, i) : g2[n][r] = g[n][r]
  PROVE  /\ Traced(r, d, m, h, rec, fl, i, lg, sy, g2, D, E, P, A)
         /\ Remembers(E, P, Loans(D, i), m, g2, r, D)
  <1> DEFINE N == Loans(D, i)
  <1> HIDE DEF N
  <1>1. \A n \in N : g2[n][r] = g[n][r]  BY DEF N
  <1>2. /\ \A M : Remembers(E, P, N, M, g, r, D) => Remembers(E, P, N, M, g2, r, D)
        /\ \A q : Lends(q, E, P, N, g, r) => Lends(q, E, P, N, g2, r)
        /\ \A q, C, K, ev : Reads(h, q, C, K, A, N, E, ev, g, D)
                              => Reads(h, q, C, K, A, N, E, ev, g2, D)
    BY <1>1, GivenKept
  <1>q. QED  BY <1>2 DEF Traced, Tracks, N

\* A step of one rank leaves the others as they were.
LEMMA ForeseenStep ==
  ASSUME Owned, Ordered, Valued, NEW D \in Nat, \A z \in Ranks : Foreseen(z, D),
         NEW r \in Ranks, NEW d, NEW m, NEW h, NEW rec, NEW fl, NEW i, NEW lg, NEW l,
         Becomes(r, d, m, h, rec, fl, i, lg, l), GivesNext(r),
         \E E, P, A : Traced(r, d, m, h, rec, fl, i, lg, l.sync, given', D, E, P, A)
  PROVE  \A z \in Ranks : Foreseen(z, D)'
  <1>1. \A z \in Ranks : D <= issued[z] /\ issued[z] \in Nat
    BY TracedFacts DEF Foreseen
  <1>2. D \in 0..Len(Order)
    <2>1. Len(Order) \in Nat /\ issued[r] <= Len(Order)  BY OrderDomain DEF Valued
    <2>q. QED  BY <1>1, <2>1
  <1>3. Foreseen(r, D)'
    <2>1. /\ dev'[r] = d /\ mem'[r] = m /\ host'[r] = h /\ recorded'[r] = rec
          /\ flight'[r] = fl /\ issued'[r] = i /\ logical'[r] = lg /\ lost'[r] = l
      BY DEF Becomes, Owned, Ordered, Machines, Counters, Valued
    <2>q. QED  BY <2>1 DEF Foreseen
  <1>4. ASSUME NEW z \in Ranks, z # r PROVE Foreseen(z, D)'
    <2>1. /\ dev'[z] = dev[z] /\ mem'[z] = mem[z] /\ host'[z] = host[z]
          /\ recorded'[z] = recorded[z] /\ flight'[z] = flight[z] /\ issued'[z] = issued[z]
          /\ logical'[z] = logical[z] /\ lost'[z] = lost[z]
      BY <1>4 DEF Becomes, Owned, Ordered, Machines, Counters, Valued
    <2>2. PICK E, P, A : Traced(z, dev[z], mem[z], host[z], recorded[z], flight[z], issued[z],
                                logical[z], lost[z].sync, given, D, E, P, A)
      BY DEF Foreseen
    <2>3. \A n \in 1..D, x \in Ranks : given'[n][x] = given[n][x]
      <3>1. \A n \in 1..D : n \in DOMAIN Order /\ n <= issued[r]
        <4>1. DOMAIN Order = 1..Len(Order) /\ Len(Order) \in Nat  BY OrderDomain
        <4>q. QED  BY <1>1, <1>2, <4>1
      <3>q. QED  BY <3>1 DEF GivesNext
    <2>4. \A n \in Loans(D, issued[z]) : given'[n][z] = given[n][z]
      <3>1. \A n \in Loans(D, issued[z]) : n \in DOMAIN Order
        <4>1. DOMAIN Order = 1..Len(Order) /\ Len(Order) \in Nat  BY OrderDomain
        <4>2. issued[z] \in Nat /\ issued[z] <= Len(Order)  BY <1>1 DEF Valued
        <4>q. QED  BY <4>1, <4>2 DEF Loans, Live
      <3>q. QED  BY <1>4, <3>1 DEF GivesNext
    <2>5. \A x \in Ranks : Given(given, x)  BY DEF Valued
    <2>6. Traced(z, dev[z], mem[z], host[z], recorded[z], flight[z], issued[z],
                 logical[z], lost[z].sync, given', D, E, P, A)
      BY <1>2, <2>2, <2>3, <2>4, <2>5, TracedGiven
    <2>q. QED  BY <2>1, <2>6 DEF Foreseen
  <1>q. QED  BY <1>3, <1>4

\* A step of one rank after which its streams will do what its program takes them to.
LEMMA RankStep ==
  ASSUME Owned, Ordered, Valued, NEW D \in Nat, \A z \in Ranks : Foreseen(z, D),
         NEW r \in Ranks, NEW d, NEW m, NEW h, NEW rec, NEW fl, NEW i, NEW lg, NEW l,
         Becomes(r, d, m, h, rec, fl, i, lg, l), GivesNext(r), Given(given', r),
         DOMAIN lg = Buffers, i <= Len(Order),
         h.pc = "barrier" => i < Len(Order) /\ Order[i + 1] = NoBuffer,
         \E E, P, A : Traced(r, d, m, h, rec, fl, i, lg, l.sync, given', D, E, P, A)
  PROVE  Told'
  <1>1. \A z \in Ranks : Foreseen(z, D)'  BY ForeseenStep
  <1>2. /\ mem' = [z \in Ranks |-> mem'[z]] /\ logical' = [z \in Ranks |-> logical'[z]]
        /\ DOMAIN given' = DOMAIN Order
        /\ \A n \in DOMAIN Order : given'[n] = [z \in Ranks |-> given'[n][z]]
    BY DEF Becomes, GivesNext, Valued
  <1>3. ASSUME NEW z \in Ranks
        PROVE  /\ DOMAIN logical'[z] = Buffers
               /\ Given(given', z) /\ issued'[z] <= Len(Order)
               /\ At(z, "barrier")' => issued'[z] < Len(Order) /\ Order[issued'[z] + 1] = NoBuffer
    <2>1. CASE z = r
      <3>1. logical'[z] = lg /\ issued'[z] = i /\ host'[z] = h
        BY <2>1 DEF Becomes, Ordered, Machines, Counters, Valued
      <3>q. QED  BY <2>1, <3>1 DEF At
    <2>2. CASE z # r
      <3>1. logical'[z] = logical[z] /\ issued'[z] = issued[z] /\ host'[z] = host[z]
        BY <2>2 DEF Becomes, Ordered, Machines, Counters, Valued
      <3>2. \A n \in DOMAIN Order : given'[n][z] = given[n][z]  BY <2>2 DEF GivesNext
      <3>3. Given(given', z)  BY <3>2 DEF Given, Valued
      <3>q. QED  BY <3>1, <3>3 DEF At, Valued
    <2>q. QED  BY <2>1, <2>2
  <1>4. Valued'  BY <1>2, <1>3 DEF Valued
  <1>q. QED  BY <1>1, <1>4 DEF Told

\* A step that gives to no collective.
LEMMA QuietStep ==
  ASSUME Owned, Ordered, Valued, NEW D \in Nat, \A z \in Ranks : Foreseen(z, D),
         NEW r \in Ranks, NEW d, NEW m, NEW h, NEW rec, NEW fl, NEW lg, NEW l,
         Becomes(r, d, m, h, rec, fl, issued[r], lg, l), given' = given,
         DOMAIN lg = Buffers, h.pc = "barrier" => At(r, "barrier") \/ Due(r, NoBuffer),
         \E E, P, A : Traced(r, d, m, h, rec, fl, issued[r], lg, l.sync, given, D, E, P, A)
  PROVE  Told'
  <1>1. GivesNext(r) /\ Given(given', r) /\ issued[r] <= Len(Order)  BY DEF GivesNext, Valued
  <1>2. h.pc = "barrier" => issued[r] < Len(Order) /\ Order[issued[r] + 1] = NoBuffer
    BY DEF Valued, Due
  <1>q. QED  BY <1>1, <1>2, RankStep

(***************************************************************************)
(* The streams run.                                                        *)
(***************************************************************************)
\* A rank's queues, and what is known of its other state.
LEMMA RankFacts ==
  ASSUME Owned, Ordered, Valued, NEW r \in Ranks
  PROVE  /\ IsDevice(dev[r]) /\ IsCall(host[r]) /\ issued[r] \in Nat
         /\ \A s \in Streams : IsQueue(Queue(r, s)) /\ Len(Queue(r, s)) \in Nat
         /\ dev = [dev EXCEPT ![r] = dev[r]] /\ mem = [mem EXCEPT ![r] = mem[r]]
         /\ host = [host EXCEPT ![r] = host[r]] /\ recorded = [recorded EXCEPT ![r] = recorded[r]]
         /\ flight = [flight EXCEPT ![r] = flight[r]]
         /\ issued = [issued EXCEPT ![r] = issued[r]]
         /\ logical = [logical EXCEPT ![r] = logical[r]] /\ lost = [lost EXCEPT ![r] = lost[r]]
         /\ DOMAIN logical[r] = Buffers
         /\ IsFiniteSet(DOMAIN dev[r].events)
         /\ OneHolder(DOMAIN dev[r].events, recorded[r], flight[r], host[r].event, lost[r].events)
         /\ host[r].pc # "copy" => host[r].event = 0
  <1>1. IsDevice(dev[r]) /\ IsCall(host[r])  BY DEF Ordered, Machines
  <1>2. \A s \in Streams : IsQueue(Queue(r, s))  BY <1>1 DEF IsDevice, Queue
  <1>3. \A s \in Streams : Len(Queue(r, s)) \in Nat  BY <1>2, QueueFacts
  <1>4. issued[r] \in Nat /\ issued = [issued EXCEPT ![r] = issued[r]]
    BY DEF Ordered, Counters
  <1>5. dev = [dev EXCEPT ![r] = dev[r]] /\ host = [host EXCEPT ![r] = host[r]]
    BY DEF Ordered, Machines
  <1>6. mem = [mem EXCEPT ![r] = mem[r]] /\ logical = [logical EXCEPT ![r] = logical[r]]
        /\ DOMAIN logical[r] = Buffers
    BY DEF Valued
  <1>7. /\ recorded = [recorded EXCEPT ![r] = recorded[r]]
        /\ flight = [flight EXCEPT ![r] = flight[r]] /\ lost = [lost EXCEPT ![r] = lost[r]]
        /\ OneHolder(DOMAIN dev[r].events, recorded[r], flight[r], host[r].event, lost[r].events)
        /\ (host[r].pc # "copy" => host[r].event = 0)
    BY DEF Owned
  <1>8. IsFiniteSet(DOMAIN dev[r].events)  BY <1>7 DEF OneHolder
  <1>q. QED  BY <1>1, <1>2, <1>3, <1>4, <1>5, <1>6, <1>7, <1>8

\* What a wait that is taken waited for is on no stream.
LEMMA NotPending ==
  ASSUME NEW d, IsDevice(d), NEW m, ~Pending(d, m), NEW s \in Streams
  PROVE  \A k \in 1..Len(d.queue[s]) : ~Records(d.queue[s], k, m)
  <1> SUFFICES ASSUME NEW k \in 1..Len(d.queue[s]) PROVE ~Records(d.queue[s], k, m)  OBVIOUS
  <1>1. d.queue[s][k] \in Commands(d)  BY InCommands
  <1>q. QED  BY <1>1 DEF Pending, Records

\* A stream that takes a command leaves the others and the events alone.
LEMMA DequeueFacts ==
  ASSUME NEW d, IsDevice(d), NEW s \in Streams, d.queue[s] # <<>>
  PROVE  LET e == [d EXCEPT !.queue[s] = Tail(@)] IN
         /\ e.events = d.events /\ IsTail(d.queue[s], e.queue[s])
         /\ \A z \in Streams \ {s} : e.queue[z] = d.queue[z]
  <1>1. IsQueue(d.queue[s]) /\ DOMAIN d = {"queue", "events"} /\ DOMAIN d.queue = Streams
    BY DEF IsDevice
  <1>2. IsTail(d.queue[s], Tail(d.queue[s]))  BY <1>1, TailIsTail
  <1>q. QED  BY <1>1, <1>2

\* The compute stream runs its next command.
LEMMA ExecuteCompute ==
  ASSUME Owned, Ordered, Valued, NEW D \in Nat, \A z \in Ranks : Foreseen(z, D),
         NEW r \in Ranks, Execute(r, "compute")
  PROVE  Told'
  <1> DEFINE q == Queue(r, "compute")
             C == Queue(r, "comm")
             K == Queue(r, "copy")
             d == Dequeue(r, "compute")
             t == d.queue["compute"]
             i == issued[r]
             ev == dev[r].events
             m == After(q[1], mem[r])
             h == IF q[1].op = "read" /\ host[r].pc \in {"compute", "copy"}
                  THEN [host[r] EXCEPT !.data = mem[r][q[1].from]] ELSE host[r]
  <1>1. PICK E, P, A : Traced(r, dev[r], mem[r], host[r], recorded[r], flight[r], i, logical[r],
                              lost[r].sync, given, D, E, P, A)
    BY DEF Foreseen
  <1>2. /\ Tracks(q, C, ev, mem[r], logical[r], flight[r], recorded[r], i, given, r, D, E, P, A)
        /\ CopyShape(K)
        /\ ~lost[r].sync => Reads(host[r], q, C, K, A, Loans(D, i), E, ev, given, D)
    BY <1>1 DEF Traced, Queue
  <1>3. IsDevice(dev[r]) /\ IsCall(host[r]) /\ q # <<>>  BY RankFacts DEF Execute
  <1>4. /\ d.events = ev /\ IsTail(q, t) /\ d.queue["comm"] = C /\ d.queue["copy"] = K
    BY <1>3, DequeueFacts DEF Dequeue, Queue, Streams
  \* No collective's completion has come to pass that is not over.
  <1>5. NotAwaited(q[1], C, A, Loans(D, i))
    <2> SUFFICES ASSUME q[1].op = "wait", NEW n \in Loans(D, i), q[1].mark = Final(C, A, n)
                 PROVE  FALSE
      BY DEF NotAwaited
    <2>1. ~Pending(dev[r], q[1].mark)  BY DEF Execute
    <2>2. A[n] + 1 \in 1..Len(C) /\ C[A[n] + 1].op = "record"  BY <1>2 DEF Tracks, Queued
    <2>3. Records(C, A[n] + 1, q[1].mark)  BY <2>2 DEF Records, Final
    <2>q. QED  BY <1>3, <2>1, <2>2, <2>3, NotPending DEF Queue, Streams
  <1>6. Tracks(t, C, ev, m, logical[r], flight[r], recorded[r], i, given, r, D,
               Shift(E), Down(P), A)
    BY <1>2, <1>4, <1>5, ComputeTracks
  <1>7. ~lost[r].sync => Reads(h, t, C, K, A, Loans(D, i), Shift(E), ev, given, D)
    <2> SUFFICES ASSUME ~lost[r].sync
                 PROVE  Reads(h, t, C, K, A, Loans(D, i), Shift(E), ev, given, D)
      OBVIOUS
    <2>1. /\ Ghosts(P, A, Loans(D, i)) /\ Guarded(q, C, P, A, Loans(D, i)) /\ ComputeShape(q)
          /\ Remembers(E, P, Loans(D, i), mem[r], given, r, D)
          /\ Reads(host[r], q, C, K, A, Loans(D, i), E, ev, given, D)
      BY <1>2 DEF Tracks
    <2> HIDE DEF q, t, C, K, d, i, ev
    <2>q. QED  BY <1>3, <1>4, <1>5, <2>1, TailReads
  <1>8. Traced(r, d, m, h, recorded[r], flight[r], i, logical[r], lost[r].sync, given, D,
               Shift(E), Down(P), A)
    BY <1>2, <1>4, <1>6, <1>7 DEF Traced
  <1>9. mem' = [mem EXCEPT ![r] = m]
    <2>1. mem = [mem EXCEPT ![r] = mem[r]]  BY RankFacts
    <2>2. mem' = CASE q[1].op = "write" -> [mem EXCEPT ![r][q[1].buf] = q[1].val]
                   [] q[1].op = "copy" -> [mem EXCEPT ![r][q[1].buf] = mem[r][q[1].from]]
                   [] OTHER -> mem
      BY DEF Execute
    <2>3. CASE q[1].op = "write"  BY <2>2, <2>3 DEF After
    <2>4. CASE q[1].op = "copy"  BY <2>2, <2>4 DEF After
    <2>5. CASE q[1].op \notin {"write", "copy"}  BY <2>1, <2>2, <2>5 DEF After
    <2>q. QED  BY <2>3, <2>4, <2>5
  <1>10. host' = [host EXCEPT ![r] = h]
    <2>1. host = [host EXCEPT ![r] = host[r]]  BY RankFacts
    <2>q. QED  BY <2>1 DEF Execute
  <1>11. dev' = [dev EXCEPT ![r] = d]  BY DEF Execute
  <1> HIDE DEF q, C, K, d, t, i, ev, m, h
  <1>12. Becomes(r, d, m, h, recorded[r], flight[r], issued[r], logical[r], lost[r])
    BY <1>9, <1>10, <1>11, RankFacts DEF Becomes, Execute, collective
  <1>13. h.pc = host[r].pc  BY <1>3 DEF h, IsCall
  <1>14. given' = given  BY DEF Execute, collective
  <1>15. DOMAIN logical[r] = Buffers  BY RankFacts
  <1>16. h.pc = "barrier" => At(r, "barrier") \/ Due(r, NoBuffer)  BY <1>13 DEF At
  <1>17. \E E2, P2, A2 : Traced(r, d, m, h, recorded[r], flight[r], issued[r], logical[r],
                                lost[r].sync, given, D, E2, P2, A2)
    BY ONLY <1>8 DEF i
  <1>q. QED
    BY ONLY <1>12, <1>14, <1>15, <1>16, <1>17, QuietStep, Owned, Ordered, Valued, D \in Nat,
            r \in Ranks, \A z \in Ranks : Foreseen(z, D)

\* The copy stream runs its next command.
LEMMA ExecuteCopy ==
  ASSUME Owned, Ordered, Valued, NEW D \in Nat, \A z \in Ranks : Foreseen(z, D),
         NEW r \in Ranks, Execute(r, "copy")
  PROVE  Told'
  <1> DEFINE q == Queue(r, "compute")
             C == Queue(r, "comm")
             K == Queue(r, "copy")
             d == Dequeue(r, "copy")
             t == d.queue["copy"]
             i == issued[r]
             ev == dev[r].events
             h == IF K[1].op = "read" /\ host[r].pc \in {"compute", "copy"}
                  THEN [host[r] EXCEPT !.data = mem[r][K[1].from]] ELSE host[r]
  <1>1. PICK E, P, A : Traced(r, dev[r], mem[r], host[r], recorded[r], flight[r], i, logical[r],
                              lost[r].sync, given, D, E, P, A)
    BY DEF Foreseen
  <1>2. /\ Tracks(q, C, ev, mem[r], logical[r], flight[r], recorded[r], i, given, r, D, E, P, A)
        /\ CopyShape(K)
        /\ ~lost[r].sync => Reads(host[r], q, C, K, A, Loans(D, i), E, ev, given, D)
    BY <1>1 DEF Traced, Queue
  <1>3. IsDevice(dev[r]) /\ IsCall(host[r]) /\ K # <<>> /\ Len(q) \in Nat
    BY RankFacts DEF Execute, Streams
  <1>4. /\ d.events = ev /\ IsTail(K, t) /\ d.queue["comm"] = C /\ d.queue["compute"] = q
    BY <1>3, DequeueFacts DEF Dequeue, Queue, Streams
  <1>5. K[1].op = "wait" => \A k \in 1..Len(q) : ~Records(q, k, K[1].mark)
    <2> SUFFICES ASSUME K[1].op = "wait" PROVE \A k \in 1..Len(q) : ~Records(q, k, K[1].mark)
      OBVIOUS
    <2>1. ~Pending(dev[r], K[1].mark)  BY DEF Execute
    <2>q. QED  BY <1>3, <2>1, NotPending DEF Queue, Streams
  <1>6. CopyShape(t) /\ K[1].op \in {"wait", "read"}
    BY SMTT(20), <1>2, <1>4 DEF CopyShape, IsTail
  <1>7. ~lost[r].sync => Reads(h, q, C, t, A, Loans(D, i), E, ev, given, D)
    <2> SUFFICES ASSUME ~lost[r].sync
                 PROVE  Reads(h, q, C, t, A, Loans(D, i), E, ev, given, D)
      OBVIOUS
    <2>1. /\ Remembers(E, P, Loans(D, i), mem[r], given, r, D)
          /\ Reads(host[r], q, C, K, A, Loans(D, i), E, ev, given, D)
      BY <1>2 DEF Tracks
    <2> HIDE DEF q, t, C, K, d, i, ev
    <2>q. QED  BY <1>3, <1>4, <1>5, <2>1, CopyReads
  <1>8. Traced(r, d, mem[r], h, recorded[r], flight[r], i, logical[r], lost[r].sync, given, D,
               E, P, A)
    BY <1>2, <1>4, <1>6, <1>7 DEF Traced
  <1>9. mem' = mem  BY <1>6 DEF Execute
  <1>10. host' = [host EXCEPT ![r] = h]
    <2>1. host = [host EXCEPT ![r] = host[r]]  BY RankFacts
    <2>q. QED  BY <2>1 DEF Execute
  <1>11. dev' = [dev EXCEPT ![r] = d]  BY DEF Execute
  <1> HIDE DEF q, C, K, d, t, i, ev, h
  <1>12. Becomes(r, d, mem[r], h, recorded[r], flight[r], issued[r], logical[r], lost[r])
    BY <1>9, <1>10, <1>11, RankFacts DEF Becomes, Execute, collective
  <1>13. h.pc = host[r].pc  BY <1>3 DEF h, IsCall
  <1>14. given' = given  BY DEF Execute, collective
  <1>q. QED  BY ZenonT(60), <1>8, <1>12, <1>13, <1>14, RankFacts, QuietStep DEF At, i

\* The communicator's stream runs a wait or a record.
LEMMA ExecuteComm ==
  ASSUME Owned, Ordered, Valued, NEW D \in Nat, \A z \in Ranks : Foreseen(z, D),
         NEW r \in Ranks, Execute(r, "comm")
  PROVE  Told'
  <1> DEFINE q == Queue(r, "compute")
             C == Queue(r, "comm")
             K == Queue(r, "copy")
             d == Dequeue(r, "comm")
             t == d.queue["comm"]
             i == issued[r]
             ev == dev[r].events
  <1>1. PICK E, P, A : Traced(r, dev[r], mem[r], host[r], recorded[r], flight[r], i, logical[r],
                              lost[r].sync, given, D, E, P, A)
    BY DEF Foreseen
  <1>2. /\ Tracks(q, C, ev, mem[r], logical[r], flight[r], recorded[r], i, given, r, D, E, P, A)
        /\ CopyShape(K)
        /\ ~lost[r].sync => Reads(host[r], q, C, K, A, Loans(D, i), E, ev, given, D)
    BY <1>1 DEF Traced, Queue
  <1>3. IsDevice(dev[r]) /\ C # <<>> /\ C[1].op # "allreduce"  BY RankFacts DEF Execute
  <1>4. /\ d.events = ev /\ IsTail(C, t) /\ d.queue["copy"] = K /\ d.queue["compute"] = q
    BY <1>3, DequeueFacts DEF Dequeue, Queue, Streams
  <1>5. C[1].op = "wait" => \A k \in 1..Len(q) : ~Records(q, k, C[1].mark)
    <2> SUFFICES ASSUME C[1].op = "wait" PROVE \A k \in 1..Len(q) : ~Records(q, k, C[1].mark)
      OBVIOUS
    <2>1. ~Pending(dev[r], C[1].mark)  BY DEF Execute
    <2>q. QED  BY <1>3, <2>1, NotPending DEF Queue, Streams
  <1>6. C[1].op \in {"wait", "record"}
    <2>1. CommShape(C) /\ 1 \in 1..Len(C)  BY <1>2, <1>4 DEF Tracks, IsTail
    <2>q. QED  BY <1>3, <2>1 DEF CommShape
  <1>7. /\ Tracks(q, t, ev, mem[r], logical[r], flight[r], recorded[r], i, given, r, D,
                  E, P, Down(A))
        /\ \A n \in Loans(D, i) : Final(t, Down(A), n) = Final(C, A, n)
    <2>1. Tracks(q, C, ev, mem[r], logical[r], flight[r], recorded[r], i, given, r, D, E, P, A)
      BY <1>2
    <2>2. IsTail(C, t)  BY <1>4
    <2> HIDE DEF q, t, C, K, d, i, ev
    <2>3. C[1].op # "allreduce"  BY <1>3
    <2> DEFINE M == mem[r]
               L == logical[r]
               F == flight[r]
               X == recorded[r]
    <2>4. Tracks(q, C, ev, M, L, F, X, i, given, r, D, E, P, A)  BY <2>1
    <2> HIDE DEF M, L, F, X
    <2>5. /\ Tracks(q, t, ev, M, L, F, X, i, given, r, D, E, P, Down(A))
          /\ \A n \in Loans(D, i) : Final(t, Down(A), n) = Final(C, A, n)
      BY ONLY <2>4, <2>2, <2>3, <1>5, CommTracks
    <2>q. QED  BY ONLY <2>5 DEF M, L, F, X
  <1>8. ~lost[r].sync => Reads(host[r], q, t, K, Down(A), Loans(D, i), E, ev, given, D)
    <2>1. Loans(D, i) \in SUBSET Loans(D, i) /\ D <= D  OBVIOUS
    <2> HIDE DEF q, t, C, K, d, i, ev
    <2>q. QED  BY <1>2, <1>7, <2>1, ReadsKept
  <1>9. Traced(r, d, mem[r], host[r], recorded[r], flight[r], i, logical[r], lost[r].sync, given,
               D, E, P, Down(A))
    BY <1>2, <1>4, <1>7, <1>8 DEF Traced
  <1>10. mem' = mem /\ host' = host  BY <1>6 DEF Execute
  <1>11. dev' = [dev EXCEPT ![r] = d]  BY DEF Execute
  <1> HIDE DEF q, C, K, d, t, i, ev
  <1>12. Becomes(r, d, mem[r], host[r], recorded[r], flight[r], issued[r], logical[r], lost[r])
    BY <1>10, <1>11, RankFacts DEF Becomes, Execute, collective
  <1>13. given' = given  BY DEF Execute, collective
  <1>q. QED  BY <1>9, <1>12, <1>13, RankFacts, QuietStep DEF At, i

\* A collective is at the head of every rank's stream: it is the next one, on every
\* rank, and its sum is what the ranks gave to it.
LEMMA HeadsAreNext ==
  ASSUME Owned, Ordered, Valued, NEW D \in Nat, \A z \in Ranks : Foreseen(z, D),
         \A z \in Ranks : Queue(z, "comm") # <<>> /\ Queue(z, "comm")[1].op = "allreduce"
  PROVE  /\ D + 1 \in DOMAIN Order
         /\ \A z \in Ranks : Queue(z, "comm")[1].buf = Order[D + 1]
         /\ Order[D + 1] \in Buffers =>
              UNION {mem[z][Order[D + 1]] : z \in Ranks} = Resolve(given, {<<0, D + 1>>})
  <1>1. ASSUME NEW r \in Ranks
        PROVE  /\ Queue(r, "comm")[1].buf = Order[D + 1]
               /\ D + 1 \in 1..issued[r] /\ issued[r] \in Nat
               /\ Order[D + 1] \in Buffers => mem[r][Order[D + 1]] = Resolve(given, given[D + 1][r])
    <2> DEFINE q == Queue(r, "compute")
               C == Queue(r, "comm")
               i == issued[r]
    <2>1. PICK E, P, A : Traced(r, dev[r], mem[r], host[r], recorded[r], flight[r], i, logical[r],
                                lost[r].sync, given, D, E, P, A)
      BY DEF Foreseen
    <2>2. Tracks(q, C, dev[r].events, mem[r], logical[r], flight[r], recorded[r], i, given, r, D,
                 E, P, A)
      BY <2>1 DEF Traced, Queue
    <2>3. i \in Nat /\ Queued(q, C, P, A, D, i) /\ Remembers(E, P, Loans(D, i), mem[r], given, r, D)
      BY <2>2 DEF Tracks
    <2>4. Len(C) \in Nat \ {0} /\ C[1].op = "allreduce"
      <3>1. IsQueue(C) /\ C # <<>>  BY RankFacts DEF Streams
      <3>q. QED  BY <3>1, QueueFacts
    <2> HIDE DEF q, C, i
    <2>5. /\ D + 1 \in Live(D, i) /\ C[1].buf = Order[D + 1]
          /\ D + 1 \in Loans(D, i) => P[D + 1] = 0
      BY <2>3, <2>4, HeadIsNext
    <2>6. D + 1 \in 1..i  BY <2>3, <2>5 DEF Live
    <2>7. Order[D + 1] \in Buffers => mem[r][Order[D + 1]] = Resolve(given, given[D + 1][r])
      BY <2>3, <2>5 DEF Loans, Remembers
    <2>q. QED  BY <2>3, <2>5, <2>6, <2>7 DEF C, i
  <1>2. D + 1 \in DOMAIN Order
    <2>1. PICK r \in Ranks : TRUE  BY StreamsAssumption
    <2>2. Len(Order) \in Nat /\ DOMAIN Order = 1..Len(Order) /\ issued[r] <= Len(Order)
      BY OrderDomain DEF Valued
    <2>q. QED  BY <1>1, <2>2
  <1>3. Order[D + 1] \in Buffers =>
          UNION {mem[z][Order[D + 1]] : z \in Ranks} = Resolve(given, {<<0, D + 1>>})
    <2> SUFFICES ASSUME Order[D + 1] \in Buffers
                 PROVE  UNION {mem[z][Order[D + 1]] : z \in Ranks} = Resolve(given, {<<0, D + 1>>})
      OBVIOUS
    <2>1. \A z \in Ranks : mem[z][Order[D + 1]] = Resolve(given, given[D + 1][z])  BY <1>1
    <2>2. \A z \in Ranks : Given(given, z)  BY DEF Valued
    <2>3. Resolve(given, {<<0, D + 1>>}) = UNION {Resolve(given, given[D + 1][z]) : z \in Ranks}
      BY <1>2, <2>2, ResolveSum
    <2>q. QED  BY ZenonT(60), <2>1, <2>3
  <1>q. QED  BY <1>1, <1>2, <1>3

\* A collective runs on every rank at once.
LEMMA RunTold ==
  ASSUME Owned, Ordered, Valued, NEW D \in Nat, \A z \in Ranks : Foreseen(z, D), RunAllReduce
  PROVE  Told'
  <1> DEFINE x == Order[D + 1]
             sum == UNION {mem[z][x] : z \in Ranks}
             M(r) == [b \in Buffers |-> IF b = x THEN sum ELSE mem[r][b]]
  <1>1. \A z \in Ranks : Queue(z, "comm") # <<>> /\ Queue(z, "comm")[1].op = "allreduce"
    BY DEF RunAllReduce
  <1>2. /\ D + 1 \in DOMAIN Order
        /\ \A z \in Ranks : Queue(z, "comm")[1].buf = x
        /\ x \in Buffers => sum = Resolve(given, {<<0, D + 1>>})
    BY <1>1, HeadsAreNext
  <1>3. mem' = [r \in Ranks |-> M(r)]
    <2> DEFINE c == [r \in Ranks |-> Queue(r, "comm")[1]]
               s == UNION {mem[r][c[r].buf] : r \in {z \in Ranks : c[z].buf # NoBuffer}}
    <2>1. mem' = [r \in Ranks |-> [b \in Buffers |-> IF b = c[r].buf THEN s ELSE mem[r][b]]]
      BY DEF RunAllReduce
    <2>2. \A r \in Ranks : c[r].buf = x  BY <1>2
    <2>3. CASE x \in Buffers
      <3>1. x # NoBuffer  BY <2>3, StreamsAssumption
      <3>2. {z \in Ranks : c[z].buf # NoBuffer} = Ranks  BY <2>2, <3>1
      <3>3. s = sum  BY <2>2, <3>2
      <3>q. QED  BY <2>1, <2>2, <3>3
    <2>4. CASE x \notin Buffers
      <3>1. \A r \in Ranks, b \in Buffers : b # x /\ b # c[r].buf  BY <2>2, <2>4
      <3> HIDE DEF x, sum, c, s
      <3>q. QED  BY <2>1, <3>1
    <2>q. QED  BY <2>3, <2>4
  <1>4. \A r \in Ranks : Foreseen(r, D + 1)'
    <2> SUFFICES ASSUME NEW r \in Ranks PROVE Foreseen(r, D + 1)'  OBVIOUS
    <2> DEFINE q == Queue(r, "compute")
               C == Queue(r, "comm")
               K == Queue(r, "copy")
               d == Dequeue(r, "comm")
               t == d.queue["comm"]
               i == issued[r]
               ev == dev[r].events
    <2>1. PICK E, P, A : Traced(r, dev[r], mem[r], host[r], recorded[r], flight[r], i, logical[r],
                                lost[r].sync, given, D, E, P, A)
      BY DEF Foreseen
    <2>2. /\ Tracks(q, C, ev, mem[r], logical[r], flight[r], recorded[r], i, given, r, D, E, P, A)
          /\ CopyShape(K)
          /\ ~lost[r].sync => Reads(host[r], q, C, K, A, Loans(D, i), E, ev, given, D)
      BY <2>1 DEF Traced, Queue
    <2>3. IsDevice(dev[r]) /\ C # <<>> /\ C[1].op = "allreduce"  BY <1>1, RankFacts
    <2>4. /\ d.events = ev /\ IsTail(C, t) /\ d.queue["copy"] = K /\ d.queue["compute"] = q
      BY <2>3, DequeueFacts DEF Dequeue, Queue, Streams
    <2>5. i \in Nat  BY <2>2 DEF Tracks
    <2>6. Summed(mem[r], M(r), given, D)  BY <1>2 DEF Summed
    <2>7. /\ Tracks(q, t, ev, M(r), logical[r], flight[r], recorded[r], i, given, r, D + 1,
                    E, P, Down(A))
          /\ \A n \in Loans(D + 1, i) : Final(t, Down(A), n) = Final(C, A, n)
      <3> DEFINE m == mem[r]
                 m2 == M(r)
                 L == logical[r]
                 F == flight[r]
                 X == recorded[r]
      <3>1. Tracks(q, C, ev, m, L, F, X, i, given, r, D, E, P, A)  BY <2>2
      <3>2. IsTail(C, t) /\ C[1].op = "allreduce"  BY <2>3, <2>4
      <3>3. Summed(m, m2, given, D)  BY <2>6
      <3> HIDE DEF q, t, C, K, d, i, ev, m, m2, L, F, X
      <3>4. /\ Tracks(q, t, ev, m2, L, F, X, i, given, r, D + 1, E, P, Down(A))
            /\ \A n \in Loans(D + 1, i) : Final(t, Down(A), n) = Final(C, A, n)
        BY ONLY <3>1, <3>2, <3>3, RunTracks
      <3>q. QED  BY ONLY <3>4 DEF m, m2, L, F, X
    <2>8. ~lost[r].sync => Reads(host[r], q, t, K, Down(A), Loans(D + 1, i), E, ev, given, D + 1)
      <3>1. Loans(D + 1, i) \in SUBSET Loans(D, i) /\ D <= D + 1 /\ D + 1 \in Nat
        BY <2>5, LaterLoans
      <3> HIDE DEF q, t, C, K, d, i, ev
      <3>q. QED  BY <2>2, <2>7, <3>1, ReadsKept
    <2>9. Traced(r, d, M(r), host[r], recorded[r], flight[r], i, logical[r], lost[r].sync, given,
                 D + 1, E, P, Down(A))
      BY <2>2, <2>4, <2>7, <2>8 DEF Traced
    <2>10. /\ dev'[r] = d /\ mem'[r] = M(r) /\ host'[r] = host[r] /\ recorded'[r] = recorded[r]
           /\ flight'[r] = flight[r] /\ issued'[r] = i /\ logical'[r] = logical[r]
           /\ lost'[r].sync = lost[r].sync /\ given' = given
      BY <1>3 DEF RunAllReduce, collective
    <2> HIDE DEF q, t, C, K, d, i, ev, M
    <2>q. QED  BY <2>9, <2>10 DEF Foreseen
  <1>5. Valued'
    <2>1. /\ logical' = logical /\ given' = given /\ issued' = issued /\ host' = host
      BY DEF RunAllReduce, collective
    <2>2. mem' = [r \in Ranks |-> mem'[r]]  BY <1>3
    <2>q. QED  BY <2>1, <2>2 DEF Valued, At
  <1>q. QED  BY <1>4, <1>5 DEF Told

(***************************************************************************)
(* The host's calls.                                                       *)
(***************************************************************************)
\* A command enqueued on a stream leaves the others and the events alone.
LEMMA EnqueueFacts ==
  ASSUME NEW d, IsDevice(d), NEW s \in Streams, NEW c
  PROVE  LET e == Enqueue(d, s, c) IN
         /\ IsDevice(e) /\ e.events = d.events /\ IsAppend(d.queue[s], c, e.queue[s])
         /\ \A z \in Streams \ {s} : e.queue[z] = d.queue[z]
  <1>1. IsQueue(d.queue[s]) /\ DOMAIN d = {"queue", "events"} /\ DOMAIN d.queue = Streams
    BY DEF IsDevice
  <1>2. IsAppend(d.queue[s], c, Append(d.queue[s], c))  BY <1>1, AppendIsAppend
  <1>3. IsDevice(Enqueue(d, s, c))  BY EnqueueCount
  <1>q. QED  BY <1>1, <1>2, <1>3 DEF Enqueue

\* No copy to the host is on a stream after a command that is none.
LEMMA AppendSilent ==
  ASSUME NEW q, NEW c, NEW a, IsAppend(q, c, a), c.op # "read", Silent(q)
  PROVE  Silent(a)
  <1> SUFFICES ASSUME NEW k \in 1..Len(a) PROVE a[k].op # "read"  BY DEF Silent
  <1>1. (k \in 1..Len(q) /\ a[k] = q[k]) \/ (k = Len(q) + 1 /\ a[k] = c)  BY AppendIndex
  <1>q. QED  BY <1>1 DEF Silent

\* A command makes of what the program takes the buffers to hold, except those it
\* has lent, what it takes them to hold then.
Makes(c, L, L2, F) ==
  \A V : DOMAIN V = Buffers /\ (\A b \in Buffers \ DOMAIN F : V[b] = L[b])
           => \A b \in Buffers \ DOMAIN F : After(c, V)[b] = L2[b]

\* The program enqueues c and takes the buffers to hold L2.
Puts(r, c, L2) ==
  /\ dev' = [dev EXCEPT ![r] = Enqueue(dev[r], "compute", c)]
  /\ logical' = [logical EXCEPT ![r] = L2]
  /\ UNCHANGED <<mem, host, recorded, flight, collective, lost>>

\* An idle host enqueues a write or a copy.
LEMMA WriteTold ==
  ASSUME Owned, Ordered, Valued, NEW D \in Nat, \A z \in Ranks : Foreseen(z, D),
         NEW r \in Ranks, At(r, "idle"), NEW c, c.op \in {"write", "copy"},
         Permitted(c, flight[r], recorded[r]),
         NEW L2, DOMAIN L2 = Buffers, Makes(c, logical[r], L2, flight[r]), Puts(r, c, L2)
  PROVE  Told'
  <1> DEFINE q == Queue(r, "compute")
             C == Queue(r, "comm")
             K == Queue(r, "copy")
             d == Enqueue(dev[r], "compute", c)
             a == d.queue["compute"]
             i == issued[r]
             ev == dev[r].events
             m == mem[r]
             L == logical[r]
             F == flight[r]
             X == recorded[r]
  <1>1. PICK E, P, A : Traced(r, dev[r], m, host[r], X, F, i, L, lost[r].sync, given, D, E, P, A)
    BY DEF Foreseen
  <1>2. /\ Tracks(q, C, ev, m, L, F, X, i, given, r, D, E, P, A)
        /\ CopyShape(K)
        /\ ~lost[r].sync => Reads(host[r], q, C, K, A, Loans(D, i), E, ev, given, D)
    BY <1>1 DEF Traced, Queue
  <1>3. IsDevice(dev[r]) /\ Len(q) \in Nat  BY RankFacts DEF Streams
  <1>4. /\ d.events = ev /\ IsAppend(q, c, a) /\ d.queue["comm"] = C /\ d.queue["copy"] = K
    BY <1>3, EnqueueFacts DEF Queue, Streams
  <1> DEFINE V == After(c, E[Len(q) + 1])
             E2 == Seen(E, q, V)
  <1>5. Permitted(c, F, X) /\ Makes(c, L, L2, F)  OBVIOUS
  <1>6. d.events = dev[r].events  BY <1>4
  <1>7. DOMAIN L2 = Buffers /\ L2 = L2  OBVIOUS
  <1>8. /\ dev' = [dev EXCEPT ![r] = d] /\ given' = given
        /\ Becomes(r, d, m, host[r], X, F, issued[r], L2, lost[r])
    BY RankFacts DEF Becomes, collective, Puts
  <1> HIDE DEF q, C, K, d, a, i, ev, m, L, F, X, V, E2
  <1>9. \A b \in Buffers \ DOMAIN F : V[b] = L2[b]
    <2>1. /\ DOMAIN E[Len(q) + 1] = Buffers
          /\ \A b \in Buffers \ DOMAIN F : E[Len(q) + 1][b] = L[b]
      BY <1>2, <1>3, LastView
    <2>q. QED  BY <1>5, <2>1 DEF Makes, V
  <1>10. SameEvents(ev, ev, F) /\ SameEvents(ev, ev, X)  BY DEF SameEvents
  <1>11. Tracks(a, C, ev, m, L2, F, X, i, given, r, D, E2, P, A)
    <2>1. c.op # "record"  OBVIOUS
    <2>2. V = After(c, E[Len(q) + 1])  BY DEF V
    <2>q. QED  BY ONLY <1>2, <1>4, <1>5, <1>9, <1>10, <2>1, <2>2, AppendTracks DEF E2
  <1>12. ~lost[r].sync => Reads(host[r], a, C, K, A, Loans(D, i), E2, ev, given, D)
    <2>1. host[r].pc \notin {"compute", "copy"}  BY DEF At
    <2>2. Silent(q) => Silent(a)  BY <1>4, AppendSilent
    <2>q. QED  BY <1>2, <2>1, <2>2, IdleReads
  <1>13. Traced(r, d, m, host[r], X, F, issued[r], L2, lost[r].sync, given, D, E2, P, A)
    BY <1>2, <1>4, <1>11, <1>12 DEF Traced, i, a
  <1>14. host[r].pc = "barrier" => At(r, "barrier") \/ Due(r, NoBuffer)  BY DEF At
  <1>15. \E E3, P3, A3 : Traced(r, d, m, host[r], X, F, issued[r], L2, lost[r].sync, given, D,
                                E3, P3, A3)
    BY ONLY <1>13
  <1>q. QED
    BY ONLY <1>7, <1>8, <1>14, <1>15, QuietStep, Owned, Ordered, Valued, D \in Nat,
            r \in Ranks, \A z \in Ranks : Foreseen(z, D)

\* copy_to_device, copy_within_device and copy_from_device enqueue commands that make of
\* the buffers what the program takes them to hold.
LEMMA CopyToDeviceTold ==
  ASSUME Owned, Ordered, Valued, NEW D \in Nat, \A z \in Ranks : Foreseen(z, D),
         NEW r \in Ranks, NEW b \in Buffers, CopyToDevice(r, b)
  PROVE  Told'
  <1> DEFINE v == {<<r, spent[r].uploads + 1>>}
             c == Cmd("write", b, NoBuffer, v, 0)
             L2 == [logical[r] EXCEPT ![b] = v]
  <1>1. c.op = "write" /\ c.buf = b /\ c.val = v  BY DEF Cmd
  <1>2. Known(v, 0)  BY DEF Known
  <1>3. b \notin DOMAIN flight[r] /\ b \notin DOMAIN recorded[r]
    BY DEF CopyToDevice, Writable, Lent
  <1>4. DOMAIN logical[r] = Buffers  BY RankFacts
  <1> HIDE DEF v
  <1>5. At(r, "idle") /\ Puts(r, c, L2)
    BY DEF Puts, CopyToDevice, v
  <1>6. DOMAIN L2 = Buffers  BY <1>4
  <1> HIDE DEF c
  <1>7. Permitted(c, flight[r], recorded[r])  BY <1>1, <1>2, <1>3 DEF Permitted, Uses
  <1>8. Makes(c, logical[r], L2, flight[r])
    <2> SUFFICES ASSUME NEW V, DOMAIN V = Buffers, NEW x \in Buffers, V[x] = logical[r][x]
                 PROVE  After(c, V)[x] = L2[x]
      BY DEF Makes
    <2>q. QED  BY <1>1, <1>4 DEF After
  <1> HIDE DEF L2
  <1>9. c.op \in {"write", "copy"}  BY <1>1
  <1>q. QED  BY <1>5, <1>6, <1>7, <1>8, <1>9, WriteTold

\* The copy within the device.
LEMMA CopyWithinTold ==
  ASSUME Owned, Ordered, Valued, NEW D \in Nat, \A z \in Ranks : Foreseen(z, D),
         NEW r \in Ranks, NEW a \in Buffers, NEW b \in Buffers, CopyWithinDevice(r, a, b)
  PROVE  Told'
  <1> DEFINE c == Cmd("copy", b, a, {}, 0)
             L2 == [logical[r] EXCEPT ![b] = logical[r][a]]
  <1>1. c.op = "copy" /\ c.buf = b /\ c.from = a  BY DEF Cmd
  <1>3. /\ b \notin DOMAIN flight[r] /\ b \notin DOMAIN recorded[r]
        /\ a \notin DOMAIN flight[r]
    BY DEF CopyWithinDevice, Writable, Lent
  <1>4. DOMAIN logical[r] = Buffers  BY RankFacts
  <1>5. At(r, "idle") /\ Puts(r, c, L2)
    BY DEF Puts, CopyWithinDevice
  <1>6. DOMAIN L2 = Buffers  BY <1>4
  <1> HIDE DEF c
  <1>7. Permitted(c, flight[r], recorded[r])  BY <1>1, <1>3 DEF Permitted, Uses
  <1>8. Makes(c, logical[r], L2, flight[r])
    <2> SUFFICES ASSUME NEW V, DOMAIN V = Buffers, V[a] = logical[r][a],
                        NEW x \in Buffers, V[x] = logical[r][x]
                 PROVE  After(c, V)[x] = L2[x]
      BY <1>3 DEF Makes
    <2>q. QED  BY <1>1, <1>4 DEF After
  <1> HIDE DEF L2
  <1>9. c.op \in {"write", "copy"}  BY <1>1
  <1>q. QED  BY <1>5, <1>6, <1>7, <1>8, <1>9, WriteTold

\* The read on the compute stream is the last command there, of what the program takes the
\* buffer to hold.
LEMMA CopyFromDeviceTold ==
  ASSUME Owned, Ordered, Valued, NEW D \in Nat, \A z \in Ranks : Foreseen(z, D),
         NEW r \in Ranks, NEW b \in Buffers, CopyFromDevice(r, b)
  PROVE  Told'
  <1> DEFINE q == Queue(r, "compute")
             C == Queue(r, "comm")
             K == Queue(r, "copy")
             c == Cmd("read", NoBuffer, b, {}, 0)
             d == Enqueue(dev[r], "compute", c)
             a == d.queue["compute"]
             i == issued[r]
             ev == dev[r].events
             m == mem[r]
             L == logical[r]
             F == flight[r]
             X == recorded[r]
             h == [Idle EXCEPT !.pc = "compute", !.want = L[b]]
  <1>1. PICK E, P, A : Traced(r, dev[r], m, host[r], X, F, i, L, lost[r].sync, given, D, E, P, A)
    BY DEF Foreseen
  <1>2. /\ Tracks(q, C, ev, m, L, F, X, i, given, r, D, E, P, A)
        /\ CopyShape(K)
        /\ ~lost[r].sync => Reads(host[r], q, C, K, A, Loans(D, i), E, ev, given, D)
    BY <1>1 DEF Traced, Queue
  <1>3. IsDevice(dev[r]) /\ Len(q) \in Nat  BY RankFacts DEF Streams
  <1>4. /\ d.events = ev /\ IsAppend(q, c, a) /\ d.queue["comm"] = C /\ d.queue["copy"] = K
    BY <1>3, EnqueueFacts DEF Queue, Streams
  <1> DEFINE V == E[Len(q) + 1]
             E2 == Seen(E, q, V)
  <1>5. c.op = "read" /\ c.from = b  BY DEF Cmd
  <1>6. b \notin DOMAIN F  BY DEF CopyFromDevice, Lent
  <1>7. DOMAIN L = Buffers  BY RankFacts
  <1>8. /\ given' = given /\ Becomes(r, d, m, h, X, F, issued[r], L, lost[r])
    BY RankFacts DEF Becomes, collective, CopyFromDevice
  <1>9. h.pc = "compute" /\ h.want = L[b]  BY DEF Idle
  <1>10. host[r].pc \notin {"compute", "copy"}  BY DEF At, CopyFromDevice
  <1> HIDE DEF q, C, K, c, d, a, i, ev, m, L, F, X, V, E2, h
  <1>11. Permitted(c, F, X)  BY <1>5, <1>6 DEF Permitted, Uses
  <1>12. \A x \in Buffers \ DOMAIN F : V[x] = L[x]
    BY <1>2, <1>3, LastView DEF V
  <1>13. SameEvents(ev, ev, F) /\ SameEvents(ev, ev, X)  BY DEF SameEvents
  <1>14. Tracks(a, C, ev, m, L, F, X, i, given, r, D, E2, P, A)
    <2>1. c.op # "record"  BY <1>5
    <2>2. V = After(c, E[Len(q) + 1])  BY <1>5 DEF V, After
    <2>q. QED  BY ONLY <1>2, <1>4, <1>11, <1>12, <1>13, <2>1, <2>2, AppendTracks DEF E2
  <1>15. ~lost[r].sync => Reads(h, a, C, K, A, Loans(D, i), E2, ev, given, D)
    <2> SUFFICES ASSUME ~lost[r].sync
                 PROVE  Reads(h, a, C, K, A, Loans(D, i), E2, ev, given, D)
      OBVIOUS
    <2>1. Silent(K)  BY <1>2, <1>10, IdleReads
    <2>2. Len(a) = Len(q) + 1 /\ Len(a) # 0 /\ a[Len(a)] = c  BY <1>3, <1>4 DEF IsAppend
    <2>3. E2[Len(a)] = V
      <3>1. DOMAIN E = Nat /\ Len(q) + 1 \in 1..(Len(q) + 1)  BY <1>2, <1>3 DEF Tracks
      <3>q. QED  BY <1>3, <2>2, <3>1, SeenFacts DEF E2, V
    <2>4. E2[Len(a)][c.from] = h.want  BY <1>5, <1>6, <1>9, <1>12, <2>3
    <2>q. QED  BY <1>5, <1>9, <2>1, <2>2, <2>4 DEF Reads
  <1>16. Traced(r, d, m, h, X, F, issued[r], L, lost[r].sync, given, D, E2, P, A)
    BY <1>2, <1>4, <1>14, <1>15 DEF Traced, i, a
  <1>17. h.pc = "barrier" => At(r, "barrier") \/ Due(r, NoBuffer)  BY <1>9
  <1>18. \E E3, P3, A3 : Traced(r, d, m, h, X, F, issued[r], L, lost[r].sync, given, D,
                                E3, P3, A3)
    BY ONLY <1>16
  <1>q. QED
    BY ONLY <1>7, <1>8, <1>17, <1>18, QuietStep, Owned, Ordered, Valued, D \in Nat,
            r \in Ranks, \A z \in Ranks : Foreseen(z, D)

\* Events that are destroyed are not those still held.
LEMMA DestroyFacts ==
  ASSUME NEW d, IsDevice(d), NEW S
  PROVE  LET e == DestroyEvents(d, S) IN
         /\ e.queue = d.queue
         /\ \A x \in DOMAIN d.events \ S : e.events[x] = d.events[x]
         /\ \A F : (\A b \in DOMAIN F : F[b].event \in DOMAIN d.events \ S)
                     => SameEvents(d.events, e.events, F)
  <1> DEFINE e == DestroyEvents(d, S)
  <1>1. DOMAIN d = {"queue", "events"}  BY DEF IsDevice
  <1>2. e.queue = d.queue /\ e.events = Restrict(d.events, DOMAIN d.events \ S)
    BY <1>1 DEF DestroyEvents
  <1> HIDE DEF e
  <1>3. \A x \in DOMAIN d.events \ S : e.events[x] = d.events[x]  BY <1>2 DEF Restrict
  <1>4. ASSUME NEW F, \A b \in DOMAIN F : F[b].event \in DOMAIN d.events \ S
        PROVE  SameEvents(d.events, e.events, F)
    BY <1>3, <1>4 DEF SameEvents
  <1>q. QED  BY <1>2, <1>3, <1>4 DEF e

\* The events of the buffers recorded and in flight exist; a call's is none of them.
LEMMA HeldEvents ==
  ASSUME Owned, NEW r \in Ranks
  PROVE  /\ \A b \in DOMAIN recorded[r] :
              recorded[r][b].event \in DOMAIN dev[r].events \ {host[r].event}
         /\ \A b \in DOMAIN flight[r] :
              flight[r][b].event \in DOMAIN dev[r].events \ {host[r].event}
  <1>1. OneHolder(DOMAIN dev[r].events, recorded[r], flight[r], host[r].event, lost[r].events)
    BY DEF Owned
  <1>2. /\ \A b \in DOMAIN recorded[r] : recorded[r][b].event \in EventsIn(recorded[r])
        /\ \A b \in DOMAIN flight[r] : flight[r][b].event \in EventsIn(flight[r])
    BY DEF EventsIn
  <1>q. QED  BY <1>1, <1>2 DEF OneHolder

\* A call returns; the event it held is destroyed.
LEMMA DoneTold ==
  ASSUME Owned, Ordered, Valued, NEW D \in Nat, \A z \in Ranks : Foreseen(z, D),
         NEW r \in Ranks, CopyDone(r), NEW l, lost' = [lost EXCEPT ![r] = l],
         ~l.sync => ~lost[r].sync /\ (host[r].pc \in {"compute", "copy"}
                                        => Queue(r, host[r].pc) = <<>>)
  PROVE  Told'
  <1> DEFINE q == Queue(r, "compute")
             C == Queue(r, "comm")
             K == Queue(r, "copy")
             d == DestroyEvent(dev[r], host[r].event)
             i == issued[r]
             ev == dev[r].events
             m == mem[r]
             L == logical[r]
             F == flight[r]
             X == recorded[r]
  <1>1. PICK E, P, A : Traced(r, dev[r], m, host[r], X, F, i, L, lost[r].sync, given, D, E, P, A)
    BY DEF Foreseen
  <1>2. /\ Tracks(q, C, ev, m, L, F, X, i, given, r, D, E, P, A)
        /\ CopyShape(K)
        /\ ~lost[r].sync => Reads(host[r], q, C, K, A, Loans(D, i), E, ev, given, D)
    BY <1>1 DEF Traced, Queue
  <1>3. IsDevice(dev[r])  BY RankFacts
  <1>4. /\ d.queue["compute"] = q /\ d.queue["comm"] = C /\ d.queue["copy"] = K
        /\ SameEvents(ev, d.events, F) /\ SameEvents(ev, d.events, X)
    BY <1>3, DestroyFacts, HeldEvents DEF DestroyEvent, Queue
  <1>5. host[r].pc \in {"compute", "copy"}  BY DEF CopyDone
  <1>6. ~l.sync => Silent(q) /\ Silent(K)
    <2> SUFFICES ASSUME ~l.sync PROVE Silent(q) /\ Silent(K)  OBVIOUS
    <2>1. Reads(host[r], q, C, K, A, Loans(D, i), E, ev, given, D)  BY <1>2
    <2>2. CASE host[r].pc = "compute"
      <3>1. q = <<>>  BY <2>2
      <3>2. Silent(q)  BY <3>1 DEF Silent
      <3>q. QED  BY <2>1, <2>2, <3>2 DEF Reads
    <2>3. CASE host[r].pc = "copy"
      <3>1. K = <<>>  BY <2>3
      <3>2. Silent(K)  BY <3>1 DEF Silent
      <3>q. QED  BY <2>1, <2>3, <3>2 DEF Reads
    <2>q. QED  BY <1>5, <2>2, <2>3
  <1>7. /\ given' = given /\ Becomes(r, d, m, Idle, X, F, issued[r], L, l)
        /\ DOMAIN logical[r] = Buffers
    BY RankFacts DEF Becomes, collective, CopyDone, Return
  <1>8. Idle.pc = "idle"  BY DEF Idle
  <1> HIDE DEF q, C, K, d, i, ev, m, L, F, X
  <1>9. Tracks(q, C, d.events, m, L, F, X, i, given, r, D, E, P, A)
    <2>1. DOMAIN X \subseteq DOMAIN X /\ \A b \in DOMAIN X : X[b] = X[b]  OBVIOUS
    <2>q. QED  BY ONLY <1>2, <1>4, <2>1, KeepTracks
  <1>10. ~l.sync => Reads(Idle, q, C, K, A, Loans(D, i), E, d.events, given, D)
    BY <1>6, <1>8, IdleReads
  <1>11. Traced(r, d, m, Idle, X, F, issued[r], L, l.sync, given, D, E, P, A)
    BY <1>2, <1>4, <1>9, <1>10 DEF Traced, i
  <1>12. Idle.pc = "barrier" => At(r, "barrier") \/ Due(r, NoBuffer)  BY <1>8
  <1>13. DOMAIN L = Buffers  BY <1>7 DEF L
  <1>14. \E E3, P3, A3 : Traced(r, d, m, Idle, X, F, issued[r], L, l.sync, given, D, E3, P3, A3)
    BY ONLY <1>11
  <1>q. QED
    BY ONLY <1>7, <1>12, <1>13, <1>14, QuietStep, Owned, Ordered, Valued, D \in Nat,
            r \in Ranks, \A z \in Ranks : Foreseen(z, D)

\* A call returns when its stream has run dry, or with an error while it has not.
LEMMA SynchronizeTold ==
  ASSUME Owned, Ordered, Valued, NEW D \in Nat, \A z \in Ranks : Foreseen(z, D),
         NEW r \in Ranks, Synchronize(r) \/ SynchronizeFails(r)
  PROVE  Told'
  <1>1. CASE Synchronize(r)
    <2>1. CopyDone(r) /\ lost' = lost /\ Queue(r, host[r].pc) = <<>>  BY <1>1 DEF Synchronize
    <2>2. lost' = [lost EXCEPT ![r] = lost[r]]  BY <2>1, RankFacts
    <2>q. QED  BY <2>1, <2>2, DoneTold
  <1>2. CASE SynchronizeFails(r)
    <2> DEFINE l == [lost[r] EXCEPT !.sync = TRUE]
    <2>1. CopyDone(r) /\ lost' = [lost EXCEPT ![r] = l]  BY <1>2 DEF SynchronizeFails
    <2>2. l.sync  BY DEF Owned
    <2> HIDE DEF l
    <2>q. QED  BY <2>1, <2>2, DoneTold
  <1>q. QED  BY <1>1, <1>2

\* A copy that has waited has what it came for.
LEMMA SynchronizeExact ==
  ASSUME Owned, Ordered, Told, NEW r \in Ranks, Synchronize(r), ~lost[r].sync
  PROVE  host[r].data = Resolve(given, host[r].want)
  <1>1. PICK D \in Nat : Foreseen(r, D)  BY DEF Told
  <1>2. PICK E, P, A : Traced(r, dev[r], mem[r], host[r], recorded[r], flight[r], issued[r],
                              logical[r], lost[r].sync, given, D, E, P, A)
    BY <1>1 DEF Foreseen
  <1>3. Reads(host[r], Queue(r, "compute"), Queue(r, "comm"), Queue(r, "copy"), A,
              Loans(D, issued[r]), E, dev[r].events, given, D)
    BY <1>2 DEF Traced, Queue
  <1>4. host[r].pc \in {"compute", "copy"} /\ Queue(r, host[r].pc) = <<>>
    BY DEF Synchronize, CopyDone
  <1>5. Len(Queue(r, host[r].pc)) = 0  BY <1>4
  <1>q. QED  BY <1>3, <1>4, <1>5 DEF Reads, Answered

\* A new event is none of the others.
LEMMA CreateFacts ==
  ASSUME NEW d, IsDevice(d), IsFiniteSet(DOMAIN d.events)
  PROVE  LET e == EventCreate(d) IN
         /\ IsDevice(e) /\ e.queue = d.queue
         /\ DOMAIN e.events = DOMAIN d.events \cup {FreshEvent(d)}
         /\ FreshEvent(d) \notin DOMAIN d.events
         /\ \A x \in DOMAIN d.events : e.events[x] = d.events[x]
         /\ IsFiniteSet(DOMAIN e.events)
  <1> DEFINE e == EventCreate(d)
             x == FreshEvent(d)
  <1>1. IsDevice(e) /\ DOMAIN e.events = DOMAIN d.events \cup {x}
    BY EventCalls, EventDomains DEF Streams
  <1>2. x \notin DOMAIN d.events  BY FreshEventIsFresh
  <1>3. DOMAIN d = {"queue", "events"}  BY DEF IsDevice
  <1>4. e.queue = d.queue /\ e.events = Extend(d.events, x, 0)  BY <1>3 DEF EventCreate
  <1> HIDE DEF e, x
  <1>5. IsFiniteSet(DOMAIN e.events)
    <2>1. IsFiniteSet({x})  BY FS_Singleton
    <2>q. QED  BY <1>1, <2>1, FS_Union
  <1>6. \A y \in DOMAIN d.events : e.events[y] = d.events[y]  BY <1>2, <1>4 DEF Extend
  <1>q. QED  BY <1>1, <1>2, <1>4, <1>5, <1>6 DEF e, x

\* A record puts a new mark on a stream and on the event.
MarkCmd(d) == Cmd("record", NoBuffer, NoBuffer, {}, FreshMark(d))
Marked(d, f, e, s, c) ==
  /\ IsDevice(f) /\ IsAppend(d.queue[s], c, f.queue[s])
  /\ \A z \in Streams \ {s} : f.queue[z] = d.queue[z]
  /\ c.op = "record"
  /\ DOMAIN f.events = DOMAIN d.events /\ f.events[e] = c.mark
  /\ \A x \in DOMAIN d.events \ {e} : f.events[x] = d.events[x]
  /\ \A z \in Streams : \A k \in 1..Len(d.queue[z]) : d.queue[z][k].mark # c.mark
  /\ \A x \in DOMAIN d.events : d.events[x] # c.mark

\* Recording an event that exists does so.
LEMMA MarkFacts ==
  ASSUME NEW d, IsDevice(d), IsFiniteSet(DOMAIN d.events), NEW e \in DOMAIN d.events,
         NEW s \in Streams
  PROVE  Marked(d, EventRecord(d, e, s), e, s, MarkCmd(d))
  <1> DEFINE f == EventRecord(d, e, s)
             m == FreshMark(d)
             c == MarkCmd(d)
             g == Enqueue(d, s, c)
  <1>1. c.op = "record" /\ c.mark = m  BY DEF Cmd, MarkCmd
  <1>2. /\ IsDevice(g) /\ g.events = d.events /\ IsAppend(d.queue[s], c, g.queue[s])
        /\ \A z \in Streams \ {s} : g.queue[z] = d.queue[z]
    BY EnqueueFacts
  <1>3. f = [g EXCEPT !.events[e] = m]  BY DEF EventRecord, MarkCmd
  <1>4. IsDevice(f)  BY EventCalls
  <1>5. /\ \A z \in Streams : \A k \in 1..Len(d.queue[z]) : d.queue[z][k].mark # m
        /\ \A x \in DOMAIN d.events : d.events[x] # m
    BY FreshMarkIsFresh
  <1> HIDE DEF f, m, c, g
  <1>6. f.queue = g.queue /\ f.events = [d.events EXCEPT ![e] = m]
    <2>1. DOMAIN g = {"queue", "events"}  BY <1>2 DEF IsDevice
    <2>q. QED  BY <1>2, <1>3, <2>1
  <1>7. Marked(d, f, e, s, c)  BY <1>1, <1>2, <1>4, <1>5, <1>6 DEF Marked
  <1>q. QED  BY <1>7 DEF f, c

\* record_event remembers what the buffer will hold when the record is taken.
LEMMA RecordEventTold ==
  ASSUME Owned, Ordered, Valued, NEW D \in Nat, \A z \in Ranks : Foreseen(z, D),
         NEW r \in Ranks, NEW b \in Buffers, RecordEvent(r, b)
  PROVE  Told'
  <1> DEFINE q == Queue(r, "compute")
             C == Queue(r, "comm")
             K == Queue(r, "copy")
             e == FreshEvent(dev[r])
             d1 == EventCreate(dev[r])
             d == EventRecord(d1, e, "compute")
             a == d.queue["compute"]
             c == MarkCmd(d1)
             i == issued[r]
             ev == dev[r].events
             m == mem[r]
             L == logical[r]
             F == flight[r]
             X == recorded[r]
             X2 == Extend(X, b, [event |-> e, want |-> L[b]])
  <1>1. PICK E, P, A : Traced(r, dev[r], m, host[r], X, F, i, L, lost[r].sync, given, D, E, P, A)
    BY DEF Foreseen
  <1>2. /\ Tracks(q, C, ev, m, L, F, X, i, given, r, D, E, P, A)
        /\ CopyShape(K)
        /\ ~lost[r].sync => Reads(host[r], q, C, K, A, Loans(D, i), E, ev, given, D)
    BY <1>1 DEF Traced, Queue
  <1>3. IsDevice(dev[r]) /\ Len(q) \in Nat /\ IsFiniteSet(DOMAIN ev)  BY RankFacts DEF Streams
  <1>4. /\ IsDevice(d1) /\ d1.queue = dev[r].queue /\ IsFiniteSet(DOMAIN d1.events)
        /\ DOMAIN d1.events = DOMAIN ev \cup {e} /\ e \notin DOMAIN ev
        /\ \A x \in DOMAIN ev : d1.events[x] = ev[x]
    BY <1>3, CreateFacts
  <1>5. /\ IsAppend(q, c, a) /\ d.queue["comm"] = C /\ d.queue["copy"] = K
        /\ c.op = "record" /\ d.events[e] = c.mark
        /\ \A x \in DOMAIN d1.events \ {e} : d.events[x] = d1.events[x]
        /\ \A k \in 1..Len(q) : q[k].mark # c.mark
        /\ \A x \in DOMAIN d1.events : d1.events[x] # c.mark
    <2>1. "compute" \in Streams /\ {"comm", "copy"} \subseteq Streams \ {"compute"}  BY DEF Streams
    <2>2. e \in DOMAIN d1.events  BY <1>4
    <2> HIDE DEF e, d1
    <2>3. Marked(d1, d, e, "compute", c)  BY ONLY <1>4, <2>1, <2>2, MarkFacts DEF d, c
    <2> HIDE DEF d, c
    <2>q. QED  BY <1>4, <2>1, <2>3 DEF Queue, Marked
  <1>6. b \notin DOMAIN F /\ b \notin DOMAIN X /\ host[r].pc \notin {"compute", "copy"}
        /\ host[r].pc = "idle"
    BY DEF RecordEvent, Lent, At
  <1>7. /\ given' = given /\ Becomes(r, d, m, host[r], X2, F, issued[r], L, lost[r])
        /\ DOMAIN L = Buffers
    BY RankFacts DEF Becomes, collective, RecordEvent, RecordEventOnCompute
  <1>8. /\ \A x \in DOMAIN F : F[x].event \in DOMAIN ev
        /\ \A x \in DOMAIN X : X[x].event \in DOMAIN ev
    BY HeldEvents
  <1> HIDE DEF q, C, K, e, d1, d, a, c, i, ev, m, L, F, X, X2
  <1>9. SameEvents(ev, d.events, F) /\ SameEvents(ev, d.events, X)
    BY <1>4, <1>5, <1>8 DEF SameEvents
  <1>10. \A x \in DOMAIN X : c.mark # ev[X[x].event]  BY <1>4, <1>5, <1>8
  <1>11. Tracks(a, C, d.events, m, L, F, X2, i, given, r, D, Seen(E, q, E[Len(q) + 1]), P, A)
    <2>1. b \in Buffers \ DOMAIN F  BY <1>6
    <2>q. QED  BY ONLY <1>2, <1>5, <1>6, <1>9, <1>10, <2>1, RecordTracks DEF X2
  <1> DEFINE E2 == Seen(E, q, E[Len(q) + 1])
  <1> HIDE DEF E2
  <1>12. ~lost[r].sync => Reads(host[r], a, C, K, A, Loans(D, i), E2, d.events, given, D)
    <2>1. Silent(q) => Silent(a)  BY <1>5, AppendSilent
    <2>q. QED  BY <1>2, <1>6, <2>1, IdleReads
  <1>13. Traced(r, d, m, host[r], X2, F, issued[r], L, lost[r].sync, given, D, E2, P, A)
    BY <1>2, <1>5, <1>11, <1>12 DEF Traced, i, a, E2
  <1>14. host[r].pc = "barrier" => At(r, "barrier") \/ Due(r, NoBuffer)  BY <1>6
  <1>15. \E E3, P3, A3 : Traced(r, d, m, host[r], X2, F, issued[r], L, lost[r].sync, given, D,
                                E3, P3, A3)
    BY ONLY <1>13
  <1>q. QED
    BY ONLY <1>7, <1>14, <1>15, QuietStep, Owned, Ordered, Valued, D \in Nat,
            r \in Ranks, \A z \in Ranks : Foreseen(z, D)

\* What a call then waits for on the copy stream is what was remembered for it.
Answers(r, h, d) ==
  \A A, N, E, D :
    /\ Reads(host[r], Queue(r, "compute"), Queue(r, "comm"), Queue(r, "copy"), A, N, E,
             dev[r].events, given, D)
    /\ Recalls(Queue(r, "compute"), Queue(r, "comm"), A, N, E, recorded[r], dev[r].events)
    => Reads(h, Queue(r, "compute"), Queue(r, "comm"), d.queue["copy"], A, N, E,
             d.events, given, D)

\* The host does something on the copy stream with what was recorded for b.
Takes(r, b, d, h, l) ==
  /\ dev' = [dev EXCEPT ![r] = d] /\ host' = [host EXCEPT ![r] = h]
  /\ lost' = [lost EXCEPT ![r] = l] /\ l.sync = lost[r].sync /\ h.pc # "barrier"
  /\ d.queue["compute"] = Queue(r, "compute") /\ d.queue["comm"] = Queue(r, "comm")
  /\ CopyShape(Queue(r, "copy")) => CopyShape(d.queue["copy"])
  /\ SameEvents(dev[r].events, d.events, flight[r])
  /\ SameEvents(dev[r].events, d.events, Without(recorded[r], {b}))

\* The host does something on the copy stream, which moves no contents.
LEMMA TakesTold ==
  ASSUME Owned, Ordered, Valued, NEW D \in Nat, \A z \in Ranks : Foreseen(z, D),
         NEW r \in Ranks, NEW b, Pipelined(r, b), NEW d, NEW h, NEW l, Takes(r, b, d, h, l),
         Answers(r, h, d)
  PROVE  Told'
  <1> DEFINE q == Queue(r, "compute")
             C == Queue(r, "comm")
             K == Queue(r, "copy")
             i == issued[r]
             ev == dev[r].events
             m == mem[r]
             L == logical[r]
             F == flight[r]
             X == recorded[r]
             X2 == Without(X, {b})
  <1>1. PICK E, P, A : Traced(r, dev[r], m, host[r], X, F, i, L, lost[r].sync, given, D, E, P, A)
    BY DEF Foreseen
  <1>2. /\ Tracks(q, C, ev, m, L, F, X, i, given, r, D, E, P, A)
        /\ CopyShape(K)
        /\ ~lost[r].sync => Reads(host[r], q, C, K, A, Loans(D, i), E, ev, given, D)
    BY <1>1 DEF Traced, Queue
  <1>3. /\ given' = given /\ Becomes(r, d, m, h, X2, F, issued[r], L, l)
        /\ DOMAIN L = Buffers
    BY RankFacts DEF Becomes, collective, Pipelined, Takes, Without
  <1>4. /\ d.queue["compute"] = q /\ d.queue["comm"] = C /\ CopyShape(d.queue["copy"])
        /\ SameEvents(ev, d.events, F) /\ SameEvents(ev, d.events, X2)
    BY <1>2 DEF Takes
  <1>5. DOMAIN X2 \subseteq DOMAIN X /\ \A x \in DOMAIN X2 : X2[x] = X[x]
    BY DEF Without, Restrict
  <1>6. ~l.sync => Reads(h, q, C, d.queue["copy"], A, Loans(D, i), E, d.events, given, D)
    <2>1. Recalls(q, C, A, Loans(D, i), E, X, ev)  BY <1>2 DEF Tracks
    <2>2. l.sync = lost[r].sync  BY DEF Takes
    <2>q. QED  BY <1>2, <2>1, <2>2 DEF Answers
  <1>7. h.pc = "barrier" => At(r, "barrier") \/ Due(r, NoBuffer)  BY DEF Takes
  <1> HIDE DEF q, C, K, i, ev, m, L, F, X, X2
  <1>8. Tracks(q, C, d.events, m, L, F, X2, i, given, r, D, E, P, A)
    BY ONLY <1>2, <1>4, <1>5, KeepTracks
  <1>9. Traced(r, d, m, h, X2, F, issued[r], L, l.sync, given, D, E, P, A)
    BY <1>4, <1>6, <1>8 DEF Traced, i
  <1>10. \E E3, P3, A3 : Traced(r, d, m, h, X2, F, issued[r], L, l.sync, given, D, E3, P3, A3)
    BY ONLY <1>9
  <1>q. QED
    BY ONLY <1>3, <1>7, <1>10, QuietStep, Owned, Ordered, Valued, D \in Nat,
            r \in Ranks, \A z \in Ranks : Foreseen(z, D)

\* Events that do not change are the same.
LEMMA SameAll ==
  ASSUME NEW ev, NEW F PROVE SameEvents(ev, ev, F)
  BY DEF SameEvents

\* A wait for an event that exists waits for its mark.
LEMMA WaitFacts ==
  ASSUME NEW d, IsDevice(d), NEW s \in Streams, NEW e \in DOMAIN d.events
  PROVE  LET f == StreamWait(d, s, e) IN
         /\ IsDevice(f) /\ f.events = d.events
         /\ \A z \in Streams \ {s} : f.queue[z] = d.queue[z]
         /\ \E c : /\ IsAppend(d.queue[s], c, f.queue[s])
                   /\ c.op = "wait" /\ c.mark = d.events[e]
  <1> DEFINE c == Cmd("wait", NoBuffer, NoBuffer, {}, d.events[e])
             f == StreamWait(d, s, e)
  <1>1. c.op = "wait" /\ c.mark = d.events[e]  BY DEF Cmd
  <1>2. f = Enqueue(d, s, c)  BY DEF StreamWait
  <1> HIDE DEF c, f
  <1>3. /\ IsDevice(f) /\ f.events = d.events /\ IsAppend(d.queue[s], c, f.queue[s])
        /\ \A z \in Streams \ {s} : f.queue[z] = d.queue[z]
    BY <1>2, EnqueueFacts
  <1>q. QED  BY <1>1, <1>3 DEF f

\* The pipelined copy waits for the record and reads what was remembered.
LEMMA PipelinedTold ==
  ASSUME Owned, Ordered, Valued, NEW D \in Nat, \A z \in Ranks : Foreseen(z, D),
         NEW r \in Ranks, NEW b \in Buffers, CopyFromDevicePipelined(r, b)
  PROVE  Told'
  <1> DEFINE X == recorded[r]
             e == X[b].event
             w == StreamWait(dev[r], "copy", e)
             c == Cmd("read", NoBuffer, b, {}, 0)
             d == Enqueue(w, "copy", c)
             K == Queue(r, "copy")
             K2 == d.queue["copy"]
             h == [Idle EXCEPT !.pc = "copy", !.event = e, !.want = X[b].want]
  <1>1. b \in DOMAIN X /\ e \in DOMAIN dev[r].events /\ Pipelined(r, b)
    BY HeldEvents DEF CopyFromDevicePipelined, Pipelined
  <1>2. IsDevice(dev[r]) /\ Len(K) \in Nat  BY RankFacts DEF Streams
  <1>3. "copy" \in Streams /\ {"compute", "comm"} \subseteq Streams \ {"copy"}  BY DEF Streams
  <1>4. /\ IsDevice(w) /\ w.events = dev[r].events
        /\ \A z \in Streams \ {"copy"} : w.queue[z] = dev[r].queue[z]
        /\ \E y : /\ IsAppend(dev[r].queue["copy"], y, w.queue["copy"])
                  /\ y.op = "wait" /\ y.mark = dev[r].events[e]
    BY <1>1, <1>2, <1>3, WaitFacts
  <1>5. c.op = "read" /\ c.from = b  BY DEF Cmd
  <1>6. h.pc = "copy" /\ h.event = e /\ h.want = X[b].want  BY DEF Idle
  <1>7. /\ dev' = [dev EXCEPT ![r] = d] /\ host' = [host EXCEPT ![r] = h]
        /\ lost' = [lost EXCEPT ![r] = lost[r]]
    BY RankFacts DEF CopyFromDevicePipelined, CopyStreamWaitEvent
  <1>8. host[r].pc \notin {"compute", "copy"}  BY DEF CopyFromDevicePipelined, Pipelined, At
  <1> HIDE DEF X, e, w, c, h
  <1>9. /\ d.events = w.events /\ IsAppend(w.queue["copy"], c, d.queue["copy"])
        /\ \A z \in Streams \ {"copy"} : d.queue[z] = w.queue[z]
    BY <1>3, <1>4, EnqueueFacts
  <1> HIDE DEF d
  <1>10. /\ Len(K2) = Len(K) + 2 /\ \A k \in 1..Len(K) : K2[k] = K[k]
         /\ K2[Len(K) + 1].op = "wait" /\ K2[Len(K) + 1].mark = dev[r].events[e]
         /\ K2[Len(K) + 2] = c
    <2> DEFINE W == w.queue["copy"]
    <2>1. PICK y : IsAppend(K, y, W) /\ y.op = "wait" /\ y.mark = dev[r].events[e]
      BY <1>4 DEF Queue
    <2>2. IsAppend(W, c, K2)  BY <1>9
    <2> HIDE DEF K, K2, W
    <2>3. Len(W) = Len(K) + 1 /\ Len(K2) = Len(W) + 1  BY <2>1, <2>2 DEF IsAppend
    <2>4. \A k \in 1..Len(K) : k \in 1..Len(W)  BY <1>2, <2>3
    <2>5. Len(K) + 1 \in 1..Len(W)  BY <1>2, <2>3
    <2>6. \A k \in 1..Len(W) : K2[k] = W[k]  BY <2>2 DEF IsAppend
    <2>7. K2[Len(K) + 1] = W[Len(K) + 1]  BY <2>5, <2>6
    <2>8. Len(K2) = Len(K) + 2 /\ Len(W) + 1 = Len(K) + 2  BY <1>2, <2>3
    <2>q. QED  BY <2>1, <2>2, <2>4, <2>6, <2>7, <2>8 DEF IsAppend
  <1>11. ASSUME CopyShape(K) PROVE CopyShape(K2)
    <2> SUFFICES ASSUME NEW k \in 1..Len(K2) PROVE K2[k].op \in {"wait", "read"}
      BY DEF CopyShape
    <2>1. k \in 1..Len(K) \/ k = Len(K) + 1 \/ k = Len(K) + 2  BY <1>2, <1>10
    <2>q. QED  BY <1>5, <1>10, <1>11, <2>1 DEF CopyShape
  <1>12. Takes(r, b, d, h, lost[r])
    <2>1. /\ d.queue["compute"] = Queue(r, "compute") /\ d.queue["comm"] = Queue(r, "comm")
          /\ d.events = dev[r].events
      BY <1>3, <1>4, <1>9 DEF Queue
    <2>q. QED  BY <1>6, <1>7, <1>11, <2>1, SameAll DEF Takes
  <1>13. Answers(r, h, d)
    <2> DEFINE q == Queue(r, "compute")
               C == Queue(r, "comm")
               ev == dev[r].events
    <2> HIDE DEF q, C, ev, K
    <2> SUFFICES ASSUME NEW A, NEW N, NEW E, NEW G,
                        Reads(host[r], q, C, K, A, N, E, ev, given, G),
                        Recalls(q, C, A, N, E, X, ev)
                 PROVE  Reads(h, q, C, K2, A, N, E, d.events, given, G)
      BY DEF Answers, q, C, K, ev, X
    <2>1. Silent(q)  BY <1>8, IdleReads
    <2>2. Stays(q, C, A, N, E, b, ev[e], X[b].want)  BY <1>1 DEF Recalls, e
    <2>3. d.events = ev  BY <1>4, <1>9 DEF ev
    <2>4. /\ Len(K2) # 0 /\ Len(K2) # 1 /\ Len(K2) - 1 = Len(K) + 1 /\ K2[Len(K2)] = c
          /\ K2[Len(K) + 1].op = "wait" /\ K2[Len(K) + 1].mark = ev[e]
      BY <1>2, <1>10 DEF ev
    <2> HIDE DEF K2
    <2>q. QED  BY <1>5, <1>6, <2>1, <2>2, <2>3, <2>4 DEF Reads
  <1> HIDE DEF K, K2
  <1>q. QED
    BY ONLY <1>1, <1>12, <1>13, TakesTold, Owned, Ordered, Valued, D \in Nat,
            r \in Ranks, \A z \in Ranks : Foreseen(z, D)

\* The event given up is not one still held.
LEMMA GivenUp ==
  ASSUME Owned, NEW r \in Ranks, NEW b \in DOMAIN recorded[r]
  PROVE  /\ \A x \in DOMAIN Without(recorded[r], {b}) :
              /\ x \in DOMAIN recorded[r] /\ Without(recorded[r], {b})[x] = recorded[r][x]
              /\ recorded[r][x].event \in DOMAIN dev[r].events \ {recorded[r][b].event}
         /\ \A x \in DOMAIN flight[r] :
              flight[r][x].event \in DOMAIN dev[r].events \ {recorded[r][b].event}
  <1>1. OneHolder(DOMAIN dev[r].events, recorded[r], flight[r], host[r].event, lost[r].events)
    BY DEF Owned
  <1>2. /\ \A x \in DOMAIN recorded[r] : recorded[r][x].event \in EventsIn(recorded[r])
        /\ \A x \in DOMAIN flight[r] : flight[r][x].event \in EventsIn(flight[r])
    BY DEF EventsIn
  <1>3. \A x \in DOMAIN Without(recorded[r], {b}) :
          /\ x \in DOMAIN recorded[r] /\ x # b
          /\ Without(recorded[r], {b})[x] = recorded[r][x]
    BY DEF Without, Restrict
  <1>4. \A x \in DOMAIN recorded[r] : x # b => recorded[r][x].event # recorded[r][b].event
    BY <1>1 DEF OneHolder, OneEach
  <1>5. \A x \in DOMAIN flight[r] : flight[r][x].event # recorded[r][b].event
    BY <1>1, <1>2 DEF OneHolder
  <1>q. QED  BY <1>3, <1>4, <1>5, HeldEvents

\* An idle host waits for no copy.
LEMMA IdleAnswers ==
  ASSUME NEW r, At(r, "idle"), NEW d,
         Silent(Queue(r, "copy")) => Silent(d.queue["copy"])
  PROVE  Answers(r, host[r], d)
  <1>1. host[r].pc \notin {"compute", "copy"}  BY DEF At
  <1>q. QED  BY <1>1, IdleReads DEF Answers

\* The pipelined copy fails: the event is given up.
LEMMA PipelinedFailsTold ==
  ASSUME Owned, Ordered, Valued, NEW D \in Nat, \A z \in Ranks : Foreseen(z, D),
         NEW r \in Ranks, NEW b \in Buffers, PipelinedFails(r, b)
  PROVE  Told'
  <1> DEFINE X == recorded[r]
             e == X[b].event
             w == StreamWait(dev[r], "copy", e)
             K == Queue(r, "copy")
             ev == dev[r].events
  <1>1. /\ b \in DOMAIN X /\ e \in DOMAIN ev /\ Pipelined(r, b) /\ At(r, "idle")
        /\ lost' = lost /\ host' = host
    BY HeldEvents DEF PipelinedFails, Pipelined
  <1>2. IsDevice(dev[r]) /\ Len(K) \in Nat  BY RankFacts DEF Streams
  <1>3. "copy" \in Streams /\ {"compute", "comm"} \subseteq Streams \ {"copy"}  BY DEF Streams
  <1>4. /\ IsDevice(w) /\ w.events = ev
        /\ \A z \in Streams \ {"copy"} : w.queue[z] = dev[r].queue[z]
        /\ \E y : /\ IsAppend(dev[r].queue["copy"], y, w.queue["copy"])
                  /\ y.op = "wait" /\ y.mark = ev[e]
    BY <1>1, <1>2, <1>3, WaitFacts
  <1>5. /\ Silent(K) => Silent(w.queue["copy"])
        /\ CopyShape(K) => CopyShape(w.queue["copy"])
    <2> DEFINE W == w.queue["copy"]
    <2>1. PICK y : IsAppend(K, y, W) /\ y.op = "wait"  BY <1>4 DEF Queue
    <2> HIDE DEF K, W
    <2>2. Silent(K) => Silent(W)  BY <2>1, AppendSilent
    <2>3. ASSUME CopyShape(K) PROVE CopyShape(W)
      <3> SUFFICES ASSUME NEW k \in 1..Len(W) PROVE W[k].op \in {"wait", "read"}
        BY DEF CopyShape
      <3>1. (k \in 1..Len(K) /\ W[k] = K[k]) \/ (k = Len(K) + 1 /\ W[k] = y)
        BY <2>1, AppendIndex
      <3>q. QED  BY <2>1, <2>3, <3>1 DEF CopyShape
    <2>q. QED  BY <2>2, <2>3 DEF W
  <1> HIDE DEF K, w
  <1>6. \E d \in {dev[r], w} : dev' = [dev EXCEPT ![r] = DestroyEvent(d, e)]
    BY DEF PipelinedFails, CopyStreamWaitEvent, w
  <1>7. PICK f \in {dev[r], w} : dev' = [dev EXCEPT ![r] = DestroyEvent(f, e)]  BY <1>6
  <1> DEFINE d == DestroyEvent(f, e)
  <1>8. /\ IsDevice(f) /\ f.events = ev
        /\ \A z \in Streams \ {"copy"} : f.queue[z] = dev[r].queue[z]
        /\ Silent(K) => Silent(f.queue["copy"])
        /\ CopyShape(K) => CopyShape(f.queue["copy"])
    BY <1>2, <1>4, <1>5 DEF K, Queue
  <1>9. /\ d.queue = f.queue
        /\ \A x \in DOMAIN ev \ {e} : d.events[x] = ev[x]
    BY <1>8, DestroyFacts DEF DestroyEvent
  <1>10. SameEvents(ev, d.events, flight[r]) /\ SameEvents(ev, d.events, Without(X, {b}))
    <2> HIDE DEF d, ev
    <2>1. \A x \in DOMAIN flight[r] : flight[r][x].event \in DOMAIN ev \ {e}
      BY <1>1, GivenUp DEF ev
    <2>2. \A x \in DOMAIN Without(X, {b}) : Without(X, {b})[x].event \in DOMAIN ev \ {e}
      BY ZenonT(60), <1>1, GivenUp DEF ev
    <2>q. QED  BY <1>9, <2>1, <2>2 DEF SameEvents
  <1>11. /\ dev' = [dev EXCEPT ![r] = d] /\ host' = [host EXCEPT ![r] = host[r]]
         /\ lost' = [lost EXCEPT ![r] = lost[r]] /\ host[r].pc # "barrier"
    BY <1>1, <1>7, RankFacts DEF At
  <1> HIDE DEF d
  <1>12. Takes(r, b, d, host[r], lost[r])
    BY <1>3, <1>8, <1>9, <1>10, <1>11 DEF Takes, K, Queue
  <1>13. Answers(r, host[r], d)  BY <1>1, <1>8, <1>9, IdleAnswers DEF K
  <1>q. QED
    BY ONLY <1>1, <1>12, <1>13, TakesTold, Owned, Ordered, Valued, D \in Nat,
            r \in Ranks, \A z \in Ranks : Foreseen(z, D)

\* The pipelined copy of no bytes returns at once.
LEMMA PipelinedEmptyTold ==
  ASSUME Owned, Ordered, Valued, NEW D \in Nat, \A z \in Ranks : Foreseen(z, D),
         NEW r \in Ranks, NEW b \in Buffers, PipelinedEmpty(r, b)
  PROVE  Told'
  <1> DEFINE l == [lost[r] EXCEPT !.events = @ \cup {recorded[r][b].event}]
  <1>1. Pipelined(r, b) /\ At(r, "idle") /\ host[r].pc # "barrier"
    BY DEF PipelinedEmpty, Pipelined, At
  <1>2. /\ dev' = [dev EXCEPT ![r] = dev[r]] /\ host' = [host EXCEPT ![r] = host[r]]
        /\ lost' = [lost EXCEPT ![r] = l]
    BY RankFacts DEF PipelinedEmpty
  <1>3. l.sync = lost[r].sync  BY DEF Owned
  <1> HIDE DEF l
  <1>4. Takes(r, b, dev[r], host[r], l)  BY <1>1, <1>2, <1>3, SameAll DEF Takes, Queue
  <1>5. Answers(r, host[r], dev[r])  BY <1>1, IdleAnswers DEF Queue
  <1>q. QED  BY <1>1, <1>4, <1>5, TakesTold

\* Every call of the copies keeps the invariant.
LEMMA CopiesTold ==
  ASSUME Owned, Ordered, Told, NEW r \in Ranks, Copies(r)
  PROVE  Told'
  <1>1. Valued /\ \E D \in Nat : \A z \in Ranks : Foreseen(z, D)  BY DEF Told
  <1>2. PICK D \in Nat : \A z \in Ranks : Foreseen(z, D)  BY <1>1
  <1>3. CASE \E b \in Buffers : CopyToDevice(r, b)  BY <1>1, <1>2, <1>3, CopyToDeviceTold
  <1>4. CASE \E b \in Buffers : CopyFromDevice(r, b)  BY <1>1, <1>2, <1>4, CopyFromDeviceTold
  <1>5. CASE \E a, b \in Buffers : CopyWithinDevice(r, a, b)
    BY <1>1, <1>2, <1>5, CopyWithinTold
  <1>6. CASE Synchronize(r) \/ SynchronizeFails(r)  BY <1>1, <1>2, <1>6, SynchronizeTold
  <1>7. CASE \E b \in Buffers : RecordEvent(r, b)  BY <1>1, <1>2, <1>7, RecordEventTold
  <1>8. CASE \E b \in Buffers : CopyFromDevicePipelined(r, b)
    BY <1>1, <1>2, <1>8, PipelinedTold
  <1>9. CASE \E b \in Buffers : PipelinedFails(r, b)
    BY <1>1, <1>2, <1>9, PipelinedFailsTold
  <1>10. CASE \E b \in Buffers : PipelinedEmpty(r, b)
    BY <1>1, <1>2, <1>10, PipelinedEmptyTold
  <1>q. QED
    BY <1>3, <1>4, <1>5, <1>6, <1>7, <1>8, <1>9, <1>10 DEF Copies

(***************************************************************************)
(* The communicator's calls.                                               *)
(***************************************************************************)
\* Steps 1 to 5 of the life cycle: a record on the compute stream; the wait for it,
\* the collective and the record of its completion on the communicator's.
Reduced(d, f, e, b, c, m) ==
  /\ Issue(d.queue["compute"], c, f.queue["compute"], d.queue["comm"], f.queue["comm"], b, m)
  /\ f.queue["copy"] = d.queue["copy"]
  /\ f.events[e] = m /\ \A x \in DOMAIN d.events : f.events[x] = d.events[x] /\ c.mark # d.events[x]

\* AllReduce on a bucket issues those commands.
LEMMA ReduceFacts ==
  ASSUME NEW d, IsDevice(d), IsFiniteSet(DOMAIN d.events), NEW b, NEW e, e = FreshEvent(d),
         NEW f, f = RecordOnCommStream(AllReduce(CommStreamWaitEvent(
                      RecordOnStream(EventCreate(d), e), e), b), e)
  PROVE  \E c, m : Reduced(d, f, e, b, c, m)
  <1> DEFINE d1 == EventCreate(d)
             d2 == EventRecord(d1, e, "compute")
             d3 == StreamWait(d2, "comm", e)
             x == Cmd("allreduce", b, NoBuffer, {}, 0)
             d4 == Enqueue(d3, "comm", x)
             c == MarkCmd(d1)
             y == MarkCmd(d4)
  <1>1. f = EventRecord(d4, e, "comm")
    BY DEF RecordOnCommStream, AllReduce, CommStreamWaitEvent, RecordOnStream
  <1>2. x.op = "allreduce" /\ x.buf = b  BY DEF Cmd
  <1>3. /\ "compute" \in Streams /\ "comm" \in Streams /\ "copy" \in Streams
        /\ "comm" \in Streams \ {"compute"} /\ "copy" \in Streams \ {"compute"}
        /\ "compute" \in Streams \ {"comm"} /\ "copy" \in Streams \ {"comm"}
    BY DEF Streams
  <1>4. /\ IsDevice(d1) /\ d1.queue = d.queue
        /\ DOMAIN d1.events = DOMAIN d.events \cup {e} /\ e \notin DOMAIN d.events
        /\ \A z \in DOMAIN d.events : d1.events[z] = d.events[z]
        /\ IsFiniteSet(DOMAIN d1.events)
    BY CreateFacts
  <1> HIDE DEF d1
  <1>5. Marked(d1, d2, e, "compute", c)  BY <1>3, <1>4, MarkFacts
  <1> HIDE DEF d2, c
  <1>6. /\ IsDevice(d2) /\ DOMAIN d2.events = DOMAIN d1.events /\ d2.events[e] = c.mark
        /\ e \in DOMAIN d2.events
    BY <1>4, <1>5 DEF Marked
  <1>7. /\ IsDevice(d3) /\ d3.events = d2.events
        /\ \A z \in Streams \ {"comm"} : d3.queue[z] = d2.queue[z]
        /\ \E w : /\ IsAppend(d2.queue["comm"], w, d3.queue["comm"])
                  /\ w.op = "wait" /\ w.mark = d2.events[e]
    BY <1>3, <1>6, WaitFacts
  <1> HIDE DEF d3, x
  <1>8. /\ IsDevice(d4) /\ d4.events = d3.events
        /\ IsAppend(d3.queue["comm"], x, d4.queue["comm"])
        /\ \A z \in Streams \ {"comm"} : d4.queue[z] = d3.queue[z]
    BY <1>3, <1>7, EnqueueFacts
  <1> HIDE DEF d4
  <1>9. Marked(d4, f, e, "comm", y)
    <2>1. IsFiniteSet(DOMAIN d4.events) /\ e \in DOMAIN d4.events  BY <1>4, <1>6, <1>7, <1>8
    <2>q. QED  BY <1>1, <1>3, <1>8, <2>1, MarkFacts
  <1> HIDE DEF y
  <1> DEFINE q == d.queue["compute"]
             a == f.queue["compute"]
             C == d.queue["comm"]
             C2 == d3.queue["comm"]
             C3 == d4.queue["comm"]
             C4 == f.queue["comm"]
  <1>10. IsAppend(q, c, a) /\ c.op = "record"
    <2>1. f.queue["compute"] = d2.queue["compute"]  BY <1>3, <1>7, <1>8, <1>9 DEF Marked
    <2>q. QED  BY <1>4, <1>5, <2>1 DEF Marked
  <1>11. f.queue["copy"] = d.queue["copy"]
    BY <1>3, <1>4, <1>5, <1>7, <1>8, <1>9 DEF Marked
  <1>12. PICK w : IsAppend(C, w, C2) /\ w.op = "wait" /\ w.mark = c.mark
    <2>1. d2.queue["comm"] = C  BY <1>3, <1>4, <1>5 DEF Marked
    <2>q. QED  BY <1>6, <1>7, <2>1
  <1>13. IsAppend(C2, x, C3) /\ IsAppend(C3, y, C4) /\ y.op = "record"
    BY <1>8, <1>9 DEF Marked
  <1>14. f.events[e] = y.mark
         /\ \A z \in DOMAIN d.events : f.events[z] = d.events[z] /\ c.mark # d.events[z]
    <2>1. f.events[e] = y.mark  BY <1>9 DEF Marked
    <2>2. ASSUME NEW z \in DOMAIN d.events
          PROVE  f.events[z] = d.events[z] /\ c.mark # d.events[z]
      <3>1. z \in DOMAIN d1.events \ {e} /\ d1.events[z] = d.events[z]  BY <1>4
      <3>2. d2.events[z] = d1.events[z] /\ d1.events[z] # c.mark  BY <1>5, <3>1 DEF Marked
      <3>3. z \in DOMAIN d4.events \ {e} /\ d4.events[z] = d2.events[z]
        BY <1>6, <1>7, <1>8, <3>1
      <3>4. f.events[z] = d4.events[z]  BY <1>9, <3>3 DEF Marked
      <3>q. QED  BY <3>1, <3>2, <3>3, <3>4
    <2>q. QED  BY <2>1, <2>2
  <1> HIDE DEF q, a, C, C2, C3, C4
  <1>15. /\ Len(C) \in Nat /\ Len(C4) = Len(C) + 3
         /\ \A k \in 1..Len(C) : C4[k] = C[k]
         /\ C4[Len(C) + 1] = w /\ C4[Len(C) + 2] = x /\ C4[Len(C) + 3] = y
    <2>1. Len(C) \in Nat /\ Len(C2) = Len(C) + 1 /\ Len(C3) = Len(C2) + 1 /\ Len(C4) = Len(C3) + 1
      BY <1>12, <1>13 DEF IsAppend
    <2>2. /\ \A k \in 1..Len(C) : C2[k] = C[k]
          /\ \A k \in 1..Len(C2) : C3[k] = C2[k]
          /\ \A k \in 1..Len(C3) : C4[k] = C3[k]
          /\ C2[Len(C) + 1] = w /\ C3[Len(C2) + 1] = x /\ C4[Len(C3) + 1] = y
      BY <1>12, <1>13 DEF IsAppend
    <2>3. /\ \A k \in 1..Len(C) : k \in 1..Len(C2)
          /\ \A k \in 1..Len(C2) : k \in 1..Len(C3)
          /\ Len(C) + 1 \in 1..Len(C2) /\ Len(C2) + 1 \in 1..Len(C3)
          /\ Len(C2) + 1 = Len(C) + 2 /\ Len(C3) + 1 = Len(C) + 3 /\ Len(C4) = Len(C) + 3
      BY <2>1
    <2>4. C4[Len(C) + 1] = w
      <3>1. Len(C) + 1 \in 1..Len(C3)  BY <2>3
      <3>q. QED  BY <2>2, <2>3, <3>1
    <2>5. C4[Len(C2) + 1] = x /\ C4[Len(C3) + 1] = y  BY <2>2, <2>3
    <2>q. QED  BY <2>1, <2>2, <2>3, <2>4, <2>5
  <1>16. Issue(q, c, a, C, C4, b, y.mark)
    BY <1>2, <1>10, <1>12, <1>13, <1>15 DEF Issue
  <1>17. Reduced(d, f, e, b, c, y.mark)  BY <1>11, <1>14, <1>16 DEF Reduced, q, a, C, C4
  <1>q. QED  BY <1>17

\* A bucket is lent to the next collective, for some views and places.
LEMMA ReduceTracks ==
  ASSUME NEW q, NEW c, NEW a, NEW C, NEW C2, NEW b, NEW m, Issue(q, c, a, C, C2, b, m),
         NEW ev, NEW ev2, NEW M, NEW L, NEW F, NEW F2, NEW rec, NEW i, NEW g, NEW g2, NEW r,
         NEW D, NEW E, NEW P, NEW A, Tracks(q, C, ev, M, L, F, rec, i, g, r, D, E, P, A),
         Lending(b, i, F, F2, rec, L, g2, r, c, m, ev, ev2),
         \A n \in Loans(D, i) : g2[n][r] = g[n][r], Remembers(E, P, Loans(D, i), M, g2, r, D)
  PROVE  \E E2, P2, A2 : Tracks(a, C2, ev2, M, L, F2, rec, i + 1, g2, r, D, E2, P2, A2)
  <1> DEFINE P2 == [P EXCEPT ![i + 1] = Len(q) + 1]
             A2 == [A EXCEPT ![i + 1] = Len(C) + 2]
  <1>1. Issues(q, c, a, C, C2, b, m, P, A, P2, A2, D, i)  BY DEF Issues, Tracks, Lending
  <1> HIDE DEF P2, A2
  <1>2. Tracks(a, C2, ev2, M, L, F2, rec, i + 1, g2, r, D, Hands(E, q, b, i), P2, A2)
    BY <1>1, IssueTracks
  <1>q. QED  BY <1>2

\* A full bucket is lent, with what the program takes it to hold as the rank's gift.
LEMMA ReduceBucketTold ==
  ASSUME Owned, Ordered, Valued, NEW D \in Nat, \A z \in Ranks : Foreseen(z, D),
         NEW r \in Ranks, NEW b \in Buckets, ReduceBucket(r, b)
  PROVE  Told'
  <1> DEFINE q == Queue(r, "compute")
             C == Queue(r, "comm")
             K == Queue(r, "copy")
             e == FreshEvent(dev[r])
             d == RecordOnCommStream(AllReduce(CommStreamWaitEvent(
                    RecordOnStream(EventCreate(dev[r]), e), e), b), e)
             a == d.queue["compute"]
             C2 == d.queue["comm"]
             i == issued[r]
             ev == dev[r].events
             m == mem[r]
             L == logical[r]
             F == flight[r]
             X == recorded[r]
             F2 == Extend(F, b, [event |-> e, n |-> i + 1])
             g2 == given'
  <1>1. PICK E, P, A : Traced(r, dev[r], m, host[r], X, F, i, L, lost[r].sync, given, D, E, P, A)
    BY DEF Foreseen
  <1>2. IsDevice(dev[r]) /\ Len(q) \in Nat /\ IsFiniteSet(DOMAIN ev) /\ i \in Nat
        /\ DOMAIN L = Buffers
    BY RankFacts DEF Streams
  <1>3. PICK c, x : Reduced(dev[r], d, e, b, c, x)
    <2> HIDE DEF d, e
    <2>1. e = FreshEvent(dev[r])  BY DEF e
    <2>2. d = RecordOnCommStream(AllReduce(CommStreamWaitEvent(
                RecordOnStream(EventCreate(dev[r]), e), e), b), e)
      BY DEF d
    <2>q. QED  BY ONLY <1>2, <2>1, <2>2, ReduceFacts
  <1>4. /\ b \notin DOMAIN F /\ b \notin DOMAIN X /\ b \in Buffers
        /\ i < Len(Order) /\ Order[i + 1] = b /\ host[r].pc = "idle"
    BY StreamsAssumption DEF ReduceBucket, Writable, Lent, Due, At
  <1>5. /\ Becomes(r, d, m, host[r], X, F2, i + 1, L, lost[r])
        /\ given' = [given EXCEPT ![i + 1][r] = L[b]]
    BY RankFacts DEF Becomes, ReduceBucket
  <1>6. /\ i + 1 \in DOMAIN Order /\ i + 1 <= Len(Order)
    <2>1. DOMAIN Order = 1..Len(Order) /\ Len(Order) \in Nat  BY OrderDomain
    <2>q. QED  BY <1>2, <1>4, <2>1
  <1>7. /\ \A x1 \in DOMAIN F : F[x1].event \in DOMAIN ev
        /\ \A x1 \in DOMAIN X : X[x1].event \in DOMAIN ev
    BY HeldEvents
  <1>8. /\ Issue(q, c, a, C, C2, b, x) /\ d.queue["copy"] = K /\ d.events[e] = x
        /\ SameEvents(ev, d.events, F) /\ SameEvents(ev, d.events, X)
        /\ \A y \in DOMAIN X : c.mark # ev[X[y].event]
    <2> HIDE DEF d, e
    <2>q. QED  BY <1>3, <1>7 DEF Reduced, SameEvents, Queue
  \* What it gives is what its bucket will hold.
  <1>9. /\ DOMAIN g2 = DOMAIN Order /\ g2[i + 1][r] = L[b]
        /\ \A n \in DOMAIN Order : g2[n] = [z \in Ranks |-> g2[n][z]]
        /\ \A n \in DOMAIN Order, z \in Ranks : z # r \/ n # i + 1 => g2[n][z] = given[n][z]
    <2>1. DOMAIN given = DOMAIN Order
          /\ \A n \in DOMAIN Order : given[n] = [z \in Ranks |-> given[n][z]]
      BY DEF Valued
    <2> HIDE DEF i, L
    <2>q. QED  BY <1>5, <1>6, <2>1
  <1> HIDE DEF q, C, K, e, d, a, C2, i, ev, m, L, F, X, F2, g2
  <1>10. D <= i /\ Tracks(q, C, ev, m, L, F, X, i, given, r, D, E, P, A)
    BY <1>1 DEF Traced, Tracks, Queue, q, C, ev
  <1>11. D \in 0..Len(Order)
    <2>1. Len(Order) \in Nat  BY OrderDomain
    <2>q. QED  BY <1>2, <1>6, <1>10, <2>1
  <1>12. \A n \in Loans(D, i) : g2[n][r] = given[n][r]
    <2>1. \A n \in Loans(D, i) : n \in DOMAIN Order /\ n # i + 1
      <3>1. DOMAIN Order = 1..Len(Order) /\ Len(Order) \in Nat  BY OrderDomain
      <3>q. QED  BY <1>2, <1>6, <1>10, <3>1 DEF Loans, Live
    <2>q. QED  BY <1>9, <2>1
  <1>13. \A n \in 1..D, z \in Ranks : g2[n][z] = given[n][z]
    <2>1. \A n \in 1..D : n \in DOMAIN Order /\ n # i + 1
      <3>1. DOMAIN Order = 1..Len(Order) /\ Len(Order) \in Nat  BY OrderDomain
      <3>q. QED  BY <1>2, <1>10, <1>11, <3>1
    <2>q. QED  BY <1>9, <2>1
  <1>14. /\ Traced(r, dev[r], m, host[r], X, F, i, L, lost[r].sync, g2, D, E, P, A)
         /\ Remembers(E, P, Loans(D, i), m, g2, r, D)
    <2>1. \A z \in Ranks : Given(given, z)  BY DEF Valued
    <2>q. QED  BY <1>1, <1>11, <1>12, <1>13, <2>1, TracedGiven
  <1>15. /\ CopyShape(K)
         /\ ~lost[r].sync => Silent(q) /\ Silent(K)
    <2>1. host[r].pc \notin {"compute", "copy"}  BY <1>4
    <2>q. QED  BY <1>1, <2>1, IdleReads DEF Traced, Queue, q, K
  <1> DEFINE j == i + 1
  <1>16. PICK E2, P2, A2 : Tracks(a, C2, d.events, m, L, F2, X, j, g2, r, D, E2, P2, A2)
    <2>1. Lending(b, i, F, F2, X, L, g2, r, c, x, ev, d.events)
      BY <1>4, <1>8, <1>9 DEF Lending, F2
    <2> DEFINE ev2 == d.events
    <2> HIDE DEF ev2
    <2>2. Lending(b, i, F, F2, X, L, g2, r, c, x, ev, ev2)  BY <2>1 DEF ev2
    <2>3. \E E2, P2, A2 : Tracks(a, C2, ev2, m, L, F2, X, i + 1, g2, r, D, E2, P2, A2)
      BY ONLY <1>8, <1>10, <1>12, <1>14, <2>2, ReduceTracks
    <2>q. QED  BY <2>3 DEF ev2
  <1>17. ~lost[r].sync => Reads(host[r], a, C2, K, A2, Loans(D, i + 1), E2, d.events, g2, D)
    <2>1. host[r].pc \notin {"compute", "copy"}  BY <1>4
    <2>2. Silent(q) => Silent(a)  BY <1>8, AppendSilent DEF Issue
    <2>q. QED  BY <1>15, <2>1, <2>2, IdleReads
  <1>18. Traced(r, d, m, host[r], X, F2, i + 1, L, lost[r].sync, g2, D, E2, P2, A2)
    BY <1>8, <1>15, <1>16, <1>17 DEF Traced, a, C2
  <1>19. GivesNext(r)
    <2>1. \A n \in DOMAIN Order : n <= i => n # i + 1  BY <1>2, OrderDomain
    <2>q. QED  BY <1>9, <2>1 DEF GivesNext, g2, i
  <1>20. Given(g2, r)
    <2> SUFFICES ASSUME NEW n \in DOMAIN Order PROVE Known(g2[n][r], n - 1)  BY DEF Given
    <2>1. CASE n = i + 1
      <3>1. L[b] = E[Len(q) + 1][b] /\ Known(E[Len(q) + 1][b], i)
        BY <1>2, <1>4, <1>10, LastView
      <3>2. n - 1 = i  BY <1>2, <2>1
      <3>q. QED  BY <1>9, <2>1, <3>1, <3>2
    <2>2. CASE n # i + 1
      <3>1. g2[n][r] = given[n][r]  BY <1>9, <2>2
      <3>q. QED  BY <3>1 DEF Valued, Given
    <2>q. QED  BY <2>1, <2>2
  <1>21. \E E3, P3, A3 : Traced(r, d, m, host[r], X, F2, i + 1, L, lost[r].sync, given', D,
                                E3, P3, A3)
    BY ONLY <1>18 DEF g2
  <1>22. host[r].pc = "barrier" => i + 1 < Len(Order) /\ Order[(i + 1) + 1] = NoBuffer
    BY <1>4
  <1>23. Given(given', r)  BY <1>20 DEF g2
  <1> HIDE DEF g2
  <1>q. QED
    BY ONLY <1>2, <1>5, <1>6, <1>19, <1>21, <1>22, <1>23, RankStep, Owned, Ordered, Valued,
            D \in Nat, r \in Ranks, \A z \in Ranks : Foreseen(z, D)

\* Events a program destroys with the buckets it has back are not those still held.
LEMMA Rejoined ==
  ASSUME Owned, Valued, NEW r \in Ranks, NEW S \in SUBSET DOMAIN flight[r], Rejoin(r, S)
  PROVE  /\ flight' = [flight EXCEPT ![r] = flight'[r]]
         /\ logical' = [logical EXCEPT ![r] = logical'[r]]
         /\ DOMAIN logical'[r] = Buffers
         /\ Rejoins(flight[r], flight'[r], logical[r], logical'[r], S)
         /\ \A x \in DOMAIN flight'[r] :
              flight'[r][x].event \in DOMAIN dev[r].events \ {flight[r][b].event : b \in S}
         /\ \A x \in DOMAIN recorded[r] :
              recorded[r][x].event \in DOMAIN dev[r].events \ {flight[r][b].event : b \in S}
  <1> DEFINE F == flight[r]
             L == logical[r]
             F2 == Without(F, S)
             L2 == [b \in Buffers |-> IF b \in S THEN {<<0, F[b].n>>} ELSE L[b]]
  <1>1. flight' = [flight EXCEPT ![r] = F2] /\ logical' = [logical EXCEPT ![r] = L2]
    BY DEF Rejoin, Without
  <1>2. flight'[r] = F2 /\ logical'[r] = L2  BY <1>1 DEF Owned, Valued
  <1>3. \A x \in DOMAIN F2 : x \in DOMAIN F \ S /\ F2[x] = F[x]  BY DEF Without, Restrict
  <1>4. DOMAIN F2 = DOMAIN F \ S  BY DEF Without, Restrict
  <1>5. OneHolder(DOMAIN dev[r].events, recorded[r], F, host[r].event, lost[r].events)
    BY DEF Owned
  <1>6. /\ \A x \in DOMAIN F : F[x].event \in EventsIn(F)
        /\ \A x \in DOMAIN recorded[r] : recorded[r][x].event \in EventsIn(recorded[r])
    BY DEF EventsIn
  <1>7. /\ \A x \in DOMAIN F \ S, b \in S : F[x].event # F[b].event
        /\ \A x \in DOMAIN recorded[r], b \in S : recorded[r][x].event # F[b].event
    BY <1>5, <1>6 DEF OneHolder, OneEach
  <1>8. /\ \A x \in DOMAIN F : F[x].event \in DOMAIN dev[r].events
        /\ \A x \in DOMAIN recorded[r] : recorded[r][x].event \in DOMAIN dev[r].events
    BY HeldEvents
  <1>9. DOMAIN L2 = Buffers /\ \A b \in Buffers : L2[b] = IF b \in S THEN {<<0, F[b].n>>} ELSE L[b]
    OBVIOUS
  <1> HIDE DEF F2, L2
  <1>10. Rejoins(F, F2, L, L2, S)  BY <1>3, <1>4, <1>9 DEF Rejoins
  <1>11. /\ \A x \in DOMAIN F2 : F2[x].event \in DOMAIN dev[r].events \ {F[b].event : b \in S}
         /\ \A x \in DOMAIN recorded[r] :
              recorded[r][x].event \in DOMAIN dev[r].events \ {F[b].event : b \in S}
    BY <1>3, <1>7, <1>8
  <1>q. QED  BY <1>1, <1>2, <1>9, <1>10, <1>11

\* The compute stream waits for a bucket in flight, which is back.
LEMMA AwaitBucketTold ==
  ASSUME Owned, Ordered, Valued, NEW D \in Nat, \A z \in Ranks : Foreseen(z, D),
         NEW r \in Ranks, NEW b, AwaitBucket(r, b)
  PROVE  Told'
  <1> DEFINE q == Queue(r, "compute")
             C == Queue(r, "comm")
             K == Queue(r, "copy")
             F == flight[r]
             e == F[b].event
             w == StreamWait(dev[r], "compute", e)
             d == DestroyEvent(w, e)
             a == d.queue["compute"]
             i == issued[r]
             ev == dev[r].events
             m == mem[r]
             L == logical[r]
             X == recorded[r]
             F2 == flight'[r]
             L2 == logical'[r]
  <1>1. PICK E, P, A : Traced(r, dev[r], m, host[r], X, F, i, L, lost[r].sync, given, D, E, P, A)
    BY DEF Foreseen
  <1>2. /\ Tracks(q, C, ev, m, L, F, X, i, given, r, D, E, P, A)
        /\ CopyShape(K)
        /\ ~lost[r].sync => Reads(host[r], q, C, K, A, Loans(D, i), E, ev, given, D)
    BY <1>1 DEF Traced, Queue
  <1>3. IsDevice(dev[r]) /\ Len(q) \in Nat  BY RankFacts DEF Streams
  <1>4. b \in DOMAIN F /\ Rejoin(r, {b}) /\ host[r].pc = "idle" /\ e \in DOMAIN ev
    BY HeldEvents DEF AwaitBucket, Lent, At
  <1>5. /\ "compute" \in Streams
        /\ "comm" \in Streams \ {"compute"} /\ "copy" \in Streams \ {"compute"}
    BY DEF Streams
  <1>6. /\ flight' = [flight EXCEPT ![r] = F2] /\ logical' = [logical EXCEPT ![r] = L2]
        /\ DOMAIN L2 = Buffers /\ Rejoins(F, F2, L, L2, {b})
        /\ \A x \in DOMAIN F2 : F2[x].event \in DOMAIN ev \ {e}
        /\ \A x \in DOMAIN X : X[x].event \in DOMAIN ev \ {e}
    <2>1. {b} \in SUBSET DOMAIN flight[r] /\ {flight[r][x].event : x \in {b}} = {e}  BY <1>4
    <2>q. QED  BY <1>4, <2>1, Rejoined
  <1>7. /\ dev' = [dev EXCEPT ![r] = d] /\ given' = given
        /\ Becomes(r, d, m, host[r], X, F2, issued[r], L2, lost[r])
    BY <1>6, RankFacts DEF Becomes, AwaitBucket, collective, StreamWaitEvent
  <1> HIDE DEF e, w
  <1>8. /\ IsDevice(w) /\ w.events = ev
        /\ \A z \in Streams \ {"compute"} : w.queue[z] = dev[r].queue[z]
        /\ \E c : /\ IsAppend(dev[r].queue["compute"], c, w.queue["compute"])
                  /\ c.op = "wait" /\ c.mark = ev[e]
    BY <1>3, <1>4, <1>5, WaitFacts DEF w
  <1>9. d.queue = w.queue /\ \A x \in DOMAIN ev \ {e} : d.events[x] = ev[x]
    BY <1>8, DestroyFacts DEF DestroyEvent
  <1> HIDE DEF d
  <1>10. d.queue["comm"] = C /\ d.queue["copy"] = K  BY <1>5, <1>8, <1>9 DEF Queue
  <1>11. PICK c : IsAppend(q, c, a) /\ c.op = "wait" /\ c.mark = ev[e]
    BY <1>8, <1>9 DEF Queue
  <1> HIDE DEF q, C, K, a, i, ev, m, L, F, X, F2, L2
  <1>12. SameEvents(ev, d.events, F2) /\ SameEvents(ev, d.events, X)
    BY <1>6, <1>9 DEF SameEvents
  <1> DEFINE E2 == Seen(E, q, E[Len(q) + 1])
  <1>13. Tracks(a, C, d.events, m, L2, F2, X, i, given, r, D, E2, P, A)
    <2>1. c.mark = ev[F[b].event]  BY <1>11 DEF e, F
    <2>q. QED  BY ONLY <1>2, <1>4, <1>6, <1>11, <1>12, <2>1, AwaitTracks
  <1> HIDE DEF E2
  <1>14. ~lost[r].sync => Reads(host[r], a, C, K, A, Loans(D, i), E2, d.events, given, D)
    <2>1. host[r].pc \notin {"compute", "copy"} /\ c.op # "read"  BY <1>4, <1>11
    <2>2. Silent(q) => Silent(a)  BY <1>11, <2>1, AppendSilent
    <2>q. QED  BY <1>2, <2>1, <2>2, IdleReads
  <1>15. Traced(r, d, m, host[r], X, F2, issued[r], L2, lost[r].sync, given, D, E2, P, A)
    BY <1>2, <1>10, <1>13, <1>14 DEF Traced, i, a
  <1>16. host[r].pc = "barrier" => At(r, "barrier") \/ Due(r, NoBuffer)  BY <1>4
  <1>17. \E E3, P3, A3 : Traced(r, d, m, host[r], X, F2, issued[r], L2, lost[r].sync, given, D,
                                E3, P3, A3)
    BY ONLY <1>15
  <1>q. QED
    BY ONLY <1>6, <1>7, <1>16, <1>17, QuietStep, Owned, Ordered, Valued, D \in Nat,
            r \in Ranks, \A z \in Ranks : Foreseen(z, D)

\* The communicator's stream has run dry and all buckets are back.
LEMMA SyncedTold ==
  ASSUME Owned, Ordered, Valued, NEW D \in Nat, \A z \in Ranks : Foreseen(z, D),
         NEW r \in Ranks, Synced(r), host[r].pc \notin {"compute", "copy"},
         UNCHANGED <<mem, recorded, issued, given, lost>>
  PROVE  Told'
  <1> DEFINE q == Queue(r, "compute")
             C == Queue(r, "comm")
             K == Queue(r, "copy")
             F == flight[r]
             S == DOMAIN F
             Z == {F[b].event : b \in S}
             d == DestroyEvents(dev[r], Z)
             i == issued[r]
             ev == dev[r].events
             m == mem[r]
             L == logical[r]
             X == recorded[r]
             F2 == flight'[r]
             L2 == logical'[r]
  <1>1. PICK E, P, A : Traced(r, dev[r], m, host[r], X, F, i, L, lost[r].sync, given, D, E, P, A)
    BY DEF Foreseen
  <1>2. /\ Tracks(q, C, ev, m, L, F, X, i, given, r, D, E, P, A)
        /\ CopyShape(K)
        /\ ~lost[r].sync => Reads(host[r], q, C, K, A, Loans(D, i), E, ev, given, D)
    BY <1>1 DEF Traced, Queue
  <1>3. IsDevice(dev[r])  BY RankFacts
  <1>4. Rejoin(r, S) /\ Len(C) = 0 /\ dev' = [dev EXCEPT ![r] = d]
        /\ host' = [host EXCEPT ![r] = Idle]
    BY DEF Synced, CommIdle, Return
  <1>5. /\ flight' = [flight EXCEPT ![r] = F2] /\ logical' = [logical EXCEPT ![r] = L2]
        /\ DOMAIN L2 = Buffers /\ Rejoins(F, F2, L, L2, S)
        /\ \A x \in DOMAIN X : X[x].event \in DOMAIN ev \ Z
    <2>1. S \in SUBSET DOMAIN flight[r]  OBVIOUS
    <2>q. QED  BY <1>4, <2>1, Rejoined
  <1>6. Becomes(r, d, m, Idle, X, F2, issued[r], L2, lost[r]) /\ given' = given
    BY <1>4, <1>5, RankFacts DEF Becomes
  <1>7. /\ d.queue["compute"] = q /\ d.queue["comm"] = C /\ d.queue["copy"] = K
        /\ SameEvents(ev, d.events, X)
    BY <1>3, <1>5, DestroyFacts DEF Queue
  <1>8. Idle.pc = "idle"  BY DEF Idle
  <1> HIDE DEF q, C, K, d, i, ev, m, L, X, F2, L2, Z
  <1>9. Tracks(q, C, d.events, m, L2, F2, X, i, given, r, D, E, P, A)
    <2>1. Rejoins(F, F2, L, L2, DOMAIN F)  BY <1>5
    <2> HIDE DEF F
    <2>q. QED  BY ONLY <1>2, <1>4, <1>7, <2>1, SyncTracks
  <1>10. ~lost[r].sync => Reads(Idle, q, C, K, A, Loans(D, i), E, d.events, given, D)
    BY <1>2, <1>8, IdleReads
  <1>11. Traced(r, d, m, Idle, X, F2, issued[r], L2, lost[r].sync, given, D, E, P, A)
    BY <1>2, <1>7, <1>9, <1>10 DEF Traced, i
  <1>12. Idle.pc = "barrier" => At(r, "barrier") \/ Due(r, NoBuffer)  BY <1>8
  <1>13. \E E3, P3, A3 : Traced(r, d, m, Idle, X, F2, issued[r], L2, lost[r].sync, given, D,
                                E3, P3, A3)
    BY ONLY <1>11
  <1>q. QED
    BY ONLY <1>5, <1>6, <1>12, <1>13, QuietStep, Owned, Ordered, Valued, D \in Nat,
            r \in Ranks, \A z \in Ranks : Foreseen(z, D)

\* A call that begins to wait for the communicator.
LEMMA WaitingTold ==
  ASSUME Owned, Ordered, Valued, NEW D \in Nat, \A z \in Ranks : Foreseen(z, D),
         NEW r \in Ranks, CallSync(r) \/ Barrier(r)
  PROVE  Told'
  <1> DEFINE h == host'[r]
  <1>1. /\ host' = [host EXCEPT ![r] = h] /\ h.pc \in {"sync", "barrier"}
        /\ h.pc = "barrier" => Due(r, NoBuffer)
        /\ host[r].pc = "idle"
        /\ UNCHANGED <<dev, mem, recorded, flight, collective, spent, logical, lost>>
    <2>1. host = [z \in Ranks |-> host[z]] /\ IsCall(host[r])  BY DEF Ordered, Machines
    <2>2. CASE CallSync(r)  BY <2>1, <2>2 DEF CallSync, At, IsCall
    <2>3. CASE Barrier(r)  BY <2>1, <2>3 DEF Barrier, At, Idle
    <2>q. QED  BY <2>2, <2>3
  <1> HIDE DEF h
  <1>2. PICK E, P, A : Traced(r, dev[r], mem[r], host[r], recorded[r], flight[r], issued[r],
                              logical[r], lost[r].sync, given, D, E, P, A)
    BY DEF Foreseen
  <1>3. Traced(r, dev[r], mem[r], h, recorded[r], flight[r], issued[r], logical[r], lost[r].sync,
               given, D, E, P, A)
    <2>1. host[r].pc \notin {"compute", "copy"} /\ h.pc \notin {"compute", "copy"}  BY <1>1
    <2>q. QED  BY <1>2, <2>1, IdleReads DEF Traced
  <1>4. /\ given' = given /\ DOMAIN logical[r] = Buffers
        /\ Becomes(r, dev[r], mem[r], h, recorded[r], flight[r], issued[r], logical[r], lost[r])
    BY <1>1, RankFacts DEF Becomes, collective
  <1>5. \E E3, P3, A3 : Traced(r, dev[r], mem[r], h, recorded[r], flight[r], issued[r],
                               logical[r], lost[r].sync, given, D, E3, P3, A3)
    BY ONLY <1>3
  <1>6. h.pc = "barrier" => At(r, "barrier") \/ Due(r, NoBuffer)  BY <1>1
  <1>q. QED
    BY ONLY <1>4, <1>5, <1>6, QuietStep, Owned, Ordered, Valued, D \in Nat,
            r \in Ranks, \A z \in Ranks : Foreseen(z, D)

\* A barrier's collective reduces no buffer.
LEMMA BarrierReduceTold ==
  ASSUME Owned, Ordered, Valued, NEW D \in Nat, \A z \in Ranks : Foreseen(z, D),
         NEW r \in Ranks, BarrierReduce(r)
  PROVE  Told'
  <1> DEFINE q == Queue(r, "compute")
             C == Queue(r, "comm")
             K == Queue(r, "copy")
             x == Cmd("allreduce", NoBuffer, NoBuffer, {}, 0)
             d == Enqueue(dev[r], "comm", x)
             C2 == d.queue["comm"]
             i == issued[r]
             ev == dev[r].events
             m == mem[r]
             L == logical[r]
             F == flight[r]
             X == recorded[r]
             h == [host[r] EXCEPT !.pc = "barrierSync"]
  <1>1. PICK E, P, A : Traced(r, dev[r], m, host[r], X, F, i, L, lost[r].sync, given, D, E, P, A)
    BY DEF Foreseen
  <1>2. /\ Tracks(q, C, ev, m, L, F, X, i, given, r, D, E, P, A)
        /\ CopyShape(K)
        /\ ~lost[r].sync => Reads(host[r], q, C, K, A, Loans(D, i), E, ev, given, D)
    BY <1>1 DEF Traced, Queue
  <1>3. IsDevice(dev[r]) /\ IsCall(host[r]) /\ i \in Nat /\ DOMAIN L = Buffers  BY RankFacts
  <1>4. /\ Len(C) = 0 /\ host[r].pc = "barrier" /\ i < Len(Order) /\ Order[i + 1] = NoBuffer
        /\ host[r].n = i + 1
    BY DEF BarrierReduce, CommIdle, At, Valued, Ordered, AtBarrier
  <1>5. x.op = "allreduce" /\ x.buf = NoBuffer  BY DEF Cmd
  <1>6. /\ "comm" \in Streams
        /\ "compute" \in Streams \ {"comm"} /\ "copy" \in Streams \ {"comm"}
    BY DEF Streams
  <1>7. h.pc = "barrierSync"  BY <1>3 DEF IsCall
  <1>8. /\ Becomes(r, d, m, h, X, F, i + 1, L, lost[r]) /\ given' = given
    BY <1>4, RankFacts DEF Becomes, BarrierReduce, AllReduce
  <1> HIDE DEF x, h
  <1>9. /\ d.events = ev /\ IsAppend(C, x, C2) /\ d.queue["compute"] = q /\ d.queue["copy"] = K
    BY <1>3, <1>6, EnqueueFacts DEF Queue
  <1> HIDE DEF q, C, K, d, C2, i, ev, m, L, F, X
  <1>10. Len(C2) = 1 /\ C2[1].op = "allreduce" /\ C2[1].buf = Order[i + 1]
         /\ Order[i + 1] \notin Buffers
    <2>1. Len(C2) = 1 /\ C2[1] = x  BY <1>4, <1>9 DEF IsAppend
    <2>q. QED  BY <1>4, <1>5, <2>1, StreamsAssumption
  <1> DEFINE A2 == [A EXCEPT ![i + 1] = 1]
  <1>11. A2 = [A EXCEPT ![i + 1] = 1]  OBVIOUS
  <1> HIDE DEF A2
  <1>12. Tracks(q, C2, ev, m, L, F, X, i + 1, given, r, D, E, P, A2)
    BY ONLY <1>2, <1>4, <1>10, <1>11, BarrierTracks
  <1>13. ~lost[r].sync => Reads(h, q, C2, K, A2, Loans(D, i + 1), E, ev, given, D)
    <2>1. host[r].pc \notin {"compute", "copy"} /\ h.pc \notin {"compute", "copy"}
      BY <1>4, <1>7
    <2>q. QED  BY <1>2, <2>1, IdleReads
  <1>14. Traced(r, d, m, h, X, F, i + 1, L, lost[r].sync, given, D, E, P, A2)
    BY <1>2, <1>9, <1>12, <1>13 DEF Traced, C2
  <1>15. /\ GivesNext(r) /\ Given(given', r)
         /\ i + 1 <= Len(Order)
    <2>1. Len(Order) \in Nat  BY OrderDomain
    <2>q. QED  BY <1>3, <1>4, <1>8, <2>1 DEF GivesNext, Valued
  <1>16. \E E3, P3, A3 : Traced(r, d, m, h, X, F, i + 1, L, lost[r].sync, given', D, E3, P3, A3)
    BY <1>8, <1>14
  <1>17. h.pc = "barrier" => i + 1 < Len(Order) /\ Order[(i + 1) + 1] = NoBuffer  BY <1>7
  <1>q. QED
    BY ONLY <1>3, <1>8, <1>15, <1>16, <1>17, RankStep, Owned, Ordered, Valued,
            D \in Nat, r \in Ranks, \A z \in Ranks : Foreseen(z, D)

(***************************************************************************)
(* The invariant of the streams' contents.                                 *)
(***************************************************************************)
\* Nothing has happened, and nothing will.
LEMMA ToldInit == Init => Told
  <1> SUFFICES ASSUME Init PROVE Told  OBVIOUS
  <1> DEFINE B == [b \in Buffers |-> {}]
             E == [k \in Nat |-> B]
             Z == [n \in Nat |-> 0]
  <1>1. /\ mem = [r \in Ranks |-> B] /\ logical = [r \in Ranks |-> B]
        /\ given = [n \in DOMAIN Order |-> [r \in Ranks |-> {}]]
        /\ issued = [r \in Ranks |-> 0] /\ host = [r \in Ranks |-> Idle]
    BY DEF Init
  <1>2. Idle.pc = "idle"  BY DEF Idle
  <1>3. Valued
    <2>1. Len(Order) \in Nat  BY OrderDomain
    <2>2. \A r \in Ranks : Given(given, r)  BY <1>1 DEF Given, Known
    <2>3. \A r \in Ranks : /\ DOMAIN logical[r] = Buffers
                            /\ issued[r] <= Len(Order) /\ ~At(r, "barrier")
      BY <1>1, <1>2, <2>1 DEF At
    <2>4. /\ mem = [r \in Ranks |-> mem[r]] /\ logical = [r \in Ranks |-> logical[r]]
          /\ DOMAIN given = DOMAIN Order
          /\ \A n \in DOMAIN Order : given[n] = [r \in Ranks |-> given[n][r]]
      BY <1>1
    <2>q. QED  BY <2>2, <2>3, <2>4 DEF Valued
  <1>4. ASSUME NEW r \in Ranks PROVE Foreseen(r, 0)
    <2> DEFINE q == dev[r].queue["compute"]
               C == dev[r].queue["comm"]
               K == dev[r].queue["copy"]
    <2>1. q = <<>> /\ C = <<>> /\ K = <<>>  BY DEF Init, Streams
    <2>2. Len(q) = 0 /\ Len(C) = 0 /\ Len(K) = 0  BY <2>1
    <2>3. recorded[r] = <<>> /\ flight[r] = <<>> /\ issued[r] = 0 /\ mem[r] = B /\ logical[r] = B
          /\ host[r] = Idle
      BY <1>1 DEF Init
    <2>4. Live(0, 0) = {} /\ Loans(0, 0) = {}  BY DEF Live, Loans
    <2>5. DOMAIN recorded[r] = {} /\ DOMAIN flight[r] = {}  BY <2>3
    <2>6. /\ DOMAIN E = Nat /\ Z \in [Nat -> Nat] /\ DOMAIN B = Buffers
          /\ E[1] = B /\ \A b \in Buffers : B[b] = {}
      OBVIOUS
    <2>7. Resolve(given, {}) = {} /\ Known({}, 0)
      <3>1. Known({}, 0)  BY DEF Known
      <3>q. QED  BY <3>1, ResolveUploads
    <2> HIDE DEF q, C, K, B, E, Z
    <2>8. Ghosts(Z, Z, Loans(0, 0))  BY <2>4, <2>6 DEF Ghosts
    <2>9. ComputeShape(q) /\ CommShape(C) /\ CopyShape(K) /\ Silent(q) /\ Silent(K)
      BY <2>2 DEF ComputeShape, CommShape, CopyShape, Silent
    <2>10. Views(q, E, 0)
      <3>1. \A k \in 1..(Len(q) + 1) : k = 1  BY <2>2
      <3>q. QED  BY <2>6, <2>7, <3>1 DEF Views
    <2>11. /\ Evolves(q, E, Z, Loans(0, 0)) /\ Lends(q, E, Z, Loans(0, 0), given, r)
           /\ Guarded(q, C, Z, Z, Loans(0, 0)) /\ Queued(q, C, Z, Z, 0, 0)
      BY <2>2, <2>4 DEF Evolves, Lends, Guarded, Queued
    <2>12. Flies(q, C, Z, E, Loans(0, 0), flight[r], logical[r], dev[r].events, 0)
      <3>1. Len(q) + 1 = 1  BY <2>2
      <3>q. QED  BY <2>3, <2>4, <2>5, <2>6, <3>1 DEF Flies
    <2>13. Remembers(E, Z, Loans(0, 0), mem[r], given, r, 0)
      BY <2>3, <2>4, <2>6, <2>7 DEF Remembers
    <2>14. Recalls(q, C, Z, Loans(0, 0), E, recorded[r], dev[r].events)
      BY <2>5 DEF Recalls
    <2>15. Tracks(q, C, dev[r].events, mem[r], logical[r], flight[r], recorded[r], issued[r],
                  given, r, 0, E, Z, Z)
      BY <2>3, <2>6, <2>8, <2>9, <2>10, <2>11, <2>12, <2>13, <2>14 DEF Tracks
    <2>16. Reads(host[r], q, C, K, Z, Loans(0, issued[r]), E, dev[r].events, given, 0)
      BY <1>2, <2>3, <2>9, IdleReads
    <2>17. Traced(r, dev[r], mem[r], host[r], recorded[r], flight[r], issued[r], logical[r],
                  lost[r].sync, given, 0, E, Z, Z)
      BY <2>9, <2>15, <2>16 DEF Traced, q, C, K
    <2>q. QED  BY <2>17 DEF Foreseen
  <1>q. QED  BY <1>3, <1>4 DEF Told

\* Every call of the communicator keeps the invariant.
LEMMA CollectivelyTold ==
  ASSUME Owned, Ordered, Told, NEW r \in Ranks, Collectively(r)
  PROVE  Told'
  <1>1. Valued /\ \E D \in Nat : \A z \in Ranks : Foreseen(z, D)  BY DEF Told
  <1>2. PICK D \in Nat : \A z \in Ranks : Foreseen(z, D)  BY <1>1
  <1>3. CASE \E b \in Buckets : ReduceBucket(r, b)  BY <1>1, <1>2, <1>3, ReduceBucketTold
  <1>4. CASE \E b \in Buckets : AwaitBucket(r, b)  BY <1>1, <1>2, <1>4, AwaitBucketTold
  <1>5. CASE CallSync(r) \/ Barrier(r)  BY <1>1, <1>2, <1>5, WaitingTold
  <1>6. CASE Sync(r) \/ BarrierReturns(r)
    <2>1. /\ Synced(r) /\ host[r].pc \notin {"compute", "copy"}
          /\ UNCHANGED <<mem, recorded, issued, given, lost>>
      BY <1>6 DEF Sync, BarrierReturns, At, collective
    <2>q. QED  BY <1>1, <1>2, <2>1, SyncedTold
  <1>7. CASE BarrierReduce(r)  BY <1>1, <1>2, <1>7, BarrierReduceTold
  <1>q. QED  BY <1>3, <1>4, <1>5, <1>6, <1>7 DEF Collectively

\* Every step keeps the invariant.
LEMMA ToldNext ==
  ASSUME Owned, Ordered, Told, [Next]_vars
  PROVE  Told'
  <1>1. Valued /\ \E D \in Nat : \A z \in Ranks : Foreseen(z, D)  BY DEF Told
  <1>2. PICK D \in Nat : \A z \in Ranks : Foreseen(z, D)  BY <1>1
  <1>3. CASE UNCHANGED vars
    BY <1>3 DEF vars, collective, Told, Valued, At, Foreseen
  <1>4. ASSUME NEW r \in Ranks, NEW s \in Streams, Execute(r, s) PROVE Told'
    <2>1. CASE s = "compute"  BY <1>1, <1>2, <1>4, <2>1, ExecuteCompute
    <2>2. CASE s = "copy"  BY <1>1, <1>2, <1>4, <2>2, ExecuteCopy
    <2>3. CASE s = "comm"  BY <1>1, <1>2, <1>4, <2>3, ExecuteComm
    <2>q. QED  BY <2>1, <2>2, <2>3 DEF Streams
  <1>5. CASE RunAllReduce  BY <1>1, <1>2, <1>5, RunTold
  <1>6. ASSUME NEW r \in Ranks, HostStep(r) PROVE Told'
    BY <1>6, CopiesTold, CollectivelyTold DEF HostStep
  <1>q. QED  BY <1>3, <1>4, <1>5, <1>6 DEF Next

\* In every reachable state the queues tell what every buffer will hold, and what every
\* copy that is waited for will return.
LEMMA StreamedNext == Streamed /\ [Next]_vars => Streamed'
  <1> SUFFICES ASSUME Streamed, [Next]_vars PROVE Streamed'  OBVIOUS
  <1>1. Owned /\ Ordered /\ Told /\ Machines  BY DEF Streamed, Ordered
  <1>2. Owned'  BY <1>1, OwnedNext
  <1>3. Ordered'  BY <1>1, OrderedNext
  <1>4. Told'  BY <1>1, ToldNext
  <1>q. QED  BY <1>2, <1>3, <1>4 DEF Streamed

\* In every reachable state the queues tell what every buffer will hold when they have run, in
\* whatever order the streams and the ranks take their commands, and what every copy that a
\* host waits for will return.
THEOREM StreamInvariant == Spec => []Streamed
  <1>1. Init => Streamed  BY OwnedInit, OrderedInit, ToldInit DEF Streamed
  <1>2. Streamed /\ [Next]_vars => Streamed'  BY StreamedNext
  <1>q. QED  BY <1>1, <1>2, PTL DEF Spec

\* A copy to the host that has waited returns what the program takes the buffer to hold.
THEOREM CopiesAreExact == Spec => CopyExact
  <1> DEFINE Exact == \A r \in Ranks :
               Synchronize(r) /\ ~lost[r].sync => host[r].data = Resolve(given, host[r].want)
  <1>1. Streamed => Exact  BY SynchronizeExact DEF Streamed
  <1>2. Spec => []Streamed  BY StreamInvariant
  <1>3. Streamed => [Exact]_vars  BY <1>1
  <1>4. CopyExact <=> [][Exact]_vars  BY DEF CopyExact
  <1> HIDE DEF Exact
  <1>q. QED  BY <1>2, <1>3, <1>4, PTL
=============================================================================
