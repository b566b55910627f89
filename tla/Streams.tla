------------------------------ MODULE Streams ------------------------------
(***************************************************************************)
(* What a host thread puts on the streams of its device:                   *)
(* src/src/runtime/cuda/runtime.rs (copies), client.rs (events of the      *)
(* pipelined copy) and communicator.rs (NcclCommunicator and its           *)
(* StreamSyncOps). A client has a compute stream and a copy stream; a      *)
(* communicator has a stream of its own. Calls append commands and return; *)
(* the device takes the commands of one stream in order, and those of      *)
(* different streams in any order that events do not forbid.               *)
(*                                                                         *)
(* One rank is one process with one device; its program copies, and goes   *)
(* through the event life cycle of StreamSyncOps for each bucket of        *)
(* gradients it reduces. A method that only appends commands is a function *)
(* of the device, and an action makes the calls up to the next one that    *)
(* waits: the device cannot tell when in between they were made.           *)
(*                                                                         *)
(* A value is the set of the uploads that went into it, <<rank, number>>;  *)
(* the n-th collective's sum, which the host may speak of before it is     *)
(* known, is <<0, n>>.                                                     *)
(***************************************************************************)
EXTENDS Naturals, Sequences, FiniteSets, SequencesExt, Functions

CONSTANTS
  Ranks,          \* positive numbers
  Buffers,        \* device buffers each rank's program works with
  Buckets,        \* those it reduces
  NoBuffer,
  Failing,        \* the driver calls of the copies that may return an error
  Order,          \* the collectives every rank takes part in: a bucket, or NoBuffer for a barrier
  Script          \* bound: what each rank's program uploads, copies and reads, each in order

ASSUME StreamsAssumption ==
  /\ Ranks \subseteq Nat \ {0} /\ IsFiniteSet(Ranks) /\ Ranks # {}
  /\ Buckets \subseteq Buffers /\ NoBuffer \notin Buffers
  /\ Failing \subseteq {"wait", "copy", "sync"}
  /\ Order \in Seq(Buckets \cup {NoBuffer})
  /\ Script \in [Ranks -> [uploads : Seq(Buffers), copies : Seq(Buffers \X Buffers),
                           reads : Seq(Buffers)]]

VARIABLES
  dev,        \* each rank's device: the queues of its streams, the events that exist
  mem,        \* the contents of the buffers
  host,       \* the call each rank's thread waits in
  recorded,   \* the buffers an event was recorded for, to read them later
  flight,     \* the buckets whose reduction the program has issued
  issued,     \* how many of the collectives each rank has issued
  left,       \* the last barrier among them each rank has returned from
  spent,      \* how much of its script each rank has done
  logical,    \* history: what the program takes the buffers to hold
  given,      \* history: what each rank gave to each collective
  lost        \* history: events nobody will destroy, and whether a synchronize failed

collective == <<issued, left, given>>
vars == <<dev, mem, host, recorded, flight, collective, spent, logical, lost>>

Streams == {"compute", "copy", "comm"}
Idle == [pc |-> "idle", event |-> 0, n |-> 0, data |-> {}, want |-> {}]
At(r, pc) == host[r].pc = pc
Return(r) == host' = [host EXCEPT ![r] = Idle]

\* f @@ (x :> y) for a new x, in a form TLAPS can expand.
Extend(f, x, y) == [z \in DOMAIN f \cup {x} |-> IF z = x THEN y ELSE f[z]]

Init ==
  /\ dev = [r \in Ranks |-> [queue |-> [s \in Streams |-> <<>>], events |-> <<>>]]
  /\ mem = [r \in Ranks |-> [b \in Buffers |-> {}]]
  /\ host = [r \in Ranks |-> Idle]
  /\ recorded = [r \in Ranks |-> <<>>]
  /\ flight = [r \in Ranks |-> <<>>]
  /\ issued = [r \in Ranks |-> 0]
  /\ left = [r \in Ranks |-> 0]
  /\ spent = [r \in Ranks |-> [uploads |-> 0, copies |-> 0, reads |-> 0]]
  /\ logical = mem
  /\ given = [n \in DOMAIN Order |-> [r \in Ranks |-> {}]]
  /\ lost = [r \in Ranks |-> [events |-> {}, sync |-> FALSE]]
-----------------------------------------------------------------------------
(***************************************************************************)
(* Commands and the driver's events, as functions of a device d. A wait is *)
(* for the record made last before it was enqueued, and for nothing if     *)
(* there is none; destroying an event leaves enqueued commands alone.      *)
(***************************************************************************)
Cmd(op, buf, from, val, mark) ==
  [op |-> op, buf |-> buf, from |-> from, val |-> val, mark |-> mark]
Enqueue(d, s, c) == [d EXCEPT !.queue[s] = Append(@, c)]

Commands(d) == UNION {ToSet(d.queue[s]) : s \in Streams}
Pending(d, m) == \E c \in Commands(d) : c.op = "record" /\ c.mark = m

FreshMark(d) ==
  CHOOSE m \in 1..(Cardinality(Commands(d)) + Cardinality(DOMAIN d.events) + 1) :
    m \notin {c.mark : c \in Commands(d)} \cup Range(d.events)
FreshEvent(d) ==
  CHOOSE e \in 1..(Cardinality(DOMAIN d.events) + 1) : e \notin DOMAIN d.events

EventCreate(d) == [d EXCEPT !.events = Extend(@, FreshEvent(d), 0)]
EventRecord(d, e, s) ==
  LET m == FreshMark(d) IN
  [Enqueue(d, s, Cmd("record", NoBuffer, NoBuffer, {}, m)) EXCEPT !.events[e] = m]
StreamWait(d, s, e) ==
  Enqueue(d, s, Cmd("wait", NoBuffer, NoBuffer, {},
                    IF e \in DOMAIN d.events THEN d.events[e] ELSE 0))

\* CudaClient
DestroyEvents(d, E) == [d EXCEPT !.events = Restrict(@, DOMAIN @ \ E)]
DestroyEvent(d, e) == DestroyEvents(d, {e})
RecordEventOnCompute(d, e) == EventRecord(EventCreate(d), e, "compute")
CopyStreamWaitEvent_Skipped(d, e) == d
CopyStreamWaitEvent(d, e) == StreamWait(d, "copy", e)

\* NcclCommunicator
RecordOnStream(d, e) == EventRecord(d, e, "compute")
RecordOnCommStream(d, e) == EventRecord(d, e, "comm")
CommStreamWaitEvent(d, e) == StreamWait(d, "comm", e)
StreamWaitEvent(d, e) == StreamWait(d, "compute", e)
AllReduce(d, b) == Enqueue(d, "comm", Cmd("allreduce", b, NoBuffer, {}, 0))
-----------------------------------------------------------------------------
(***************************************************************************)
(* The device                                                              *)
(***************************************************************************)
Queue(r, s) == dev[r].queue[s]
Dequeue(r, s) == [dev[r] EXCEPT !.queue[s] = Tail(@)]

\* What is read goes to host memory that is there only as long as the call is.
Execute(r, s) ==
  LET c == Queue(r, s)[1] IN
  /\ Queue(r, s) # <<>> /\ c.op # "allreduce"
  /\ c.op = "wait" => ~Pending(dev[r], c.mark)
  /\ dev' = [dev EXCEPT ![r] = Dequeue(r, s)]
  /\ mem' = CASE c.op = "write" -> [mem EXCEPT ![r][c.buf] = c.val]
              [] c.op = "copy"  -> [mem EXCEPT ![r][c.buf] = mem[r][c.from]]
              [] OTHER          -> mem
  /\ host' = IF c.op = "read" /\ host[r].pc \in {"compute", "copy"}
             THEN [host EXCEPT ![r].data = mem[r][c.from]] ELSE host
  /\ UNCHANGED <<recorded, flight, collective, spent, logical, lost>>

\* NCCL matches collectives by the order of submission: one runs when it is at
\* the head of every rank's stream.
RunAllReduce ==
  LET c == [r \in Ranks |-> Queue(r, "comm")[1]] IN
  /\ \A r \in Ranks : Queue(r, "comm") # <<>> /\ c[r].op = "allreduce"
  /\ dev' = [r \in Ranks |-> Dequeue(r, "comm")]
  /\ LET sum == UNION {mem[r][c[r].buf] : r \in {q \in Ranks : c[q].buf # NoBuffer}} IN
     mem' = [r \in Ranks |-> [b \in Buffers |-> IF b = c[r].buf THEN sum ELSE mem[r][b]]]
  /\ UNCHANGED <<host, recorded, flight, collective, spent, logical, lost>>
-----------------------------------------------------------------------------
(***************************************************************************)
(* Copies on the compute stream. The program leaves a bucket alone while   *)
(* the communicator works on it, and does not write a buffer it will read. *)
(***************************************************************************)
Lent(r, b) == b \in DOMAIN flight[r]
Writable(r, b) == ~Lent(r, b) /\ b \notin DOMAIN recorded[r]

Spend(r, kind, x) ==
  LET k == spent[r][kind] + 1 IN
  /\ k <= Len(Script[r][kind]) /\ Script[r][kind][k] = x
  /\ spent' = [spent EXCEPT ![r][kind] = k]

\* From pageable host memory: the driver has taken the bytes when it returns.
CopyToDevice(r, b) ==
  LET v == {<<r, spent[r].uploads + 1>>} IN
  /\ At(r, "idle") /\ Writable(r, b)
  /\ Spend(r, "uploads", b)
  /\ dev' = [dev EXCEPT ![r] = Enqueue(@, "compute", Cmd("write", b, NoBuffer, v, 0))]
  /\ logical' = [logical EXCEPT ![r][b] = v]
  /\ UNCHANGED <<mem, host, recorded, flight, collective, lost>>

\* Also any kernel that makes one buffer from another.
CopyWithinDevice(r, a, b) ==
  /\ At(r, "idle") /\ Writable(r, b) /\ ~Lent(r, a) /\ a # b
  /\ Spend(r, "copies", <<a, b>>)
  /\ dev' = [dev EXCEPT ![r] = Enqueue(@, "compute", Cmd("copy", b, a, {}, 0))]
  /\ logical' = [logical EXCEPT ![r][b] = logical[r][a]]
  /\ UNCHANGED <<mem, host, recorded, flight, collective, lost>>

\* The host waits for one stream, which its pc names.
CopyFromDevice(r, b) ==
  /\ At(r, "idle") /\ ~Lent(r, b)
  /\ Spend(r, "reads", b)
  /\ dev' = [dev EXCEPT ![r] = Enqueue(@, "compute", Cmd("read", NoBuffer, b, {}, 0))]
  /\ host' = [host EXCEPT ![r] = [Idle EXCEPT !.pc = "compute", !.want = logical[r][b]]]
  /\ UNCHANGED <<mem, recorded, flight, collective, logical, lost>>

\* Then a pipelined copy destroys its event, and both return Ok.
CopyDone(r) ==
  /\ host[r].pc \in {"compute", "copy"}
  /\ dev' = [dev EXCEPT ![r] = DestroyEvent(@, host[r].event)]
  /\ Return(r)
  /\ UNCHANGED <<mem, recorded, flight, collective, spent, logical>>

Synchronize(r) ==
  /\ CopyDone(r)
  /\ Queue(r, host[r].pc) = <<>>
  /\ UNCHANGED lost

\* An error of synchronize is ignored: the copy returns without having waited.
SynchronizeFails(r) ==
  /\ CopyDone(r) /\ "sync" \in Failing
  /\ lost' = [lost EXCEPT ![r].sync = TRUE]
-----------------------------------------------------------------------------
(***************************************************************************)
(* Tensor::record_event, then more work, then to_vec_pipelined             *)
(***************************************************************************)
\* An event that could not be created or recorded leaves nothing behind.
RecordEvent(r, b) ==
  LET e == FreshEvent(dev[r]) IN
  /\ At(r, "idle") /\ ~Lent(r, b) /\ b \notin DOMAIN recorded[r]
  /\ Spend(r, "reads", b)
  /\ dev' = [dev EXCEPT ![r] = RecordEventOnCompute(@, e)]
  /\ recorded' = [recorded EXCEPT ![r] = Extend(@, b, [event |-> e, want |-> logical[r][b]])]
  /\ UNCHANGED <<mem, host, flight, collective, logical, lost>>

Pipelined(r, b) ==
  /\ At(r, "idle") /\ b \in DOMAIN recorded[r]
  /\ recorded' = [recorded EXCEPT ![r] = Restrict(@, DOMAIN @ \ {b})]
  /\ UNCHANGED <<mem, flight, collective, spent, logical>>

CopyFromDevicePipelined(r, b) ==
  LET rec == recorded[r][b]
      waiting == CopyStreamWaitEvent(dev[r], rec.event) IN
  /\ Pipelined(r, b)
  /\ dev' = [dev EXCEPT ![r] = Enqueue(waiting, "copy", Cmd("read", NoBuffer, b, {}, 0))]
  /\ host' = [host EXCEPT ![r] = [Idle EXCEPT !.pc = "copy", !.event = rec.event, !.want = rec.want]]
  /\ UNCHANGED lost

\* An error of the wait or of the copy destroys the event and returns.
PipelinedFails_Keeps(r, b) ==
  LET e == recorded[r][b].event IN
  /\ Pipelined(r, b)
  /\ \/ "wait" \in Failing /\ dev' = [dev EXCEPT ![r] = DestroyEvent(@, e)]
     \/ "copy" \in Failing /\ dev' = [dev EXCEPT ![r] = CopyStreamWaitEvent(@, e)]
  /\ UNCHANGED <<host, lost>>
PipelinedFails(r, b) ==
  LET e == recorded[r][b].event IN
  /\ Pipelined(r, b)
  /\ \/ "wait" \in Failing /\ dev' = [dev EXCEPT ![r] = DestroyEvent(@, e)]
     \/ "copy" \in Failing /\ dev' = [dev EXCEPT ![r] = DestroyEvent(CopyStreamWaitEvent(@, e), e)]
  /\ UNCHANGED <<host, lost>>

\* A tensor without elements, or not contiguous: an early return leaves the event
\* as it is.
PipelinedEmpty(r, b) ==
  /\ Pipelined(r, b)
  /\ lost' = [lost EXCEPT ![r].events = @ \cup {recorded[r][b].event}]
  /\ UNCHANGED <<dev, host>>
-----------------------------------------------------------------------------
(***************************************************************************)
(* Reduction of a bucket while the compute stream goes on: the life cycle  *)
(* of StreamSyncOps around all_reduce. Every rank issues the same          *)
(* collectives in the same order.                                          *)
(***************************************************************************)
Due(r, b) == issued[r] < Len(Order) /\ Order[issued[r] + 1] = b

\* Steps 1 to 5: create, record on the compute stream, wait on the communicator's,
\* reduce, record the completion.
ReduceBucket(r, b) ==
  LET n == issued[r] + 1
      e == FreshEvent(dev[r])
      ready == CommStreamWaitEvent(RecordOnStream(EventCreate(dev[r]), e), e) IN
  /\ At(r, "idle") /\ Writable(r, b)
  /\ Due(r, b)
  /\ dev' = [dev EXCEPT ![r] = RecordOnCommStream(AllReduce(ready, b), e)]
  /\ issued' = [issued EXCEPT ![r] = n]
  /\ given' = [given EXCEPT ![n][r] = logical[r][b]]
  /\ flight' = [flight EXCEPT ![r] = Extend(@, b, [event |-> e, n |-> n])]
  /\ UNCHANGED <<mem, host, recorded, left, spent, logical, lost>>

\* From here on the program takes the buckets in S to hold their sums.
Rejoin(r, S) ==
  /\ flight' = [flight EXCEPT ![r] = Restrict(@, DOMAIN @ \ S)]
  /\ logical' = [logical EXCEPT ![r] =
       [b \in Buffers |-> IF b \in S THEN {<<0, flight[r][b].n>>} ELSE @[b]]]

\* Steps 6 and 7: the compute stream waits for the completion.
AwaitBucket(r, b) ==
  LET e == flight[r][b].event IN
  /\ At(r, "idle") /\ Lent(r, b)
  /\ dev' = [dev EXCEPT ![r] = DestroyEvent(StreamWaitEvent(@, e), e)]
  /\ Rejoin(r, {b})
  /\ UNCHANGED <<mem, host, recorded, collective, spent, lost>>
-----------------------------------------------------------------------------
(***************************************************************************)
(* NcclCommunicator::sync, and barrier: sync, an all_reduce of no bytes,   *)
(* sync again                                                              *)
(***************************************************************************)
CommIdle(r) == Queue(r, "comm") = <<>>

\* What was in flight is reduced; the program destroys the events.
Synced(r) ==
  LET S == DOMAIN flight[r] IN
  /\ CommIdle(r)
  /\ Rejoin(r, S)
  /\ dev' = [dev EXCEPT ![r] = DestroyEvents(@, {flight[r][b].event : b \in S})]
  /\ Return(r)

CallSync(r) ==
  /\ At(r, "idle") /\ flight[r] # <<>>
  /\ host' = [host EXCEPT ![r].pc = "sync"]
  /\ UNCHANGED <<dev, mem, recorded, flight, collective, spent, logical, lost>>

Sync(r) ==
  /\ At(r, "sync")
  /\ Synced(r)
  /\ UNCHANGED <<mem, recorded, collective, spent, lost>>

Barrier(r) ==
  /\ At(r, "idle")
  /\ Due(r, NoBuffer)
  /\ host' = [host EXCEPT ![r] = [Idle EXCEPT !.pc = "barrier", !.n = issued[r] + 1]]
  /\ UNCHANGED <<dev, mem, recorded, flight, collective, spent, logical, lost>>

BarrierReduce_OnlyIfPending(r) ==
  /\ At(r, "barrier") /\ CommIdle(r)
  /\ dev' = [dev EXCEPT ![r] = IF flight[r] = <<>> THEN @ ELSE AllReduce(@, NoBuffer)]
  /\ issued' = [issued EXCEPT ![r] = host[r].n]
  /\ host' = [host EXCEPT ![r].pc = "barrierSync"]
  /\ UNCHANGED <<mem, recorded, flight, left, given, spent, logical, lost>>
BarrierReduce_IdleReturns(r) ==
  /\ At(r, "barrier") /\ CommIdle(r)
  /\ issued' = [issued EXCEPT ![r] = host[r].n]
  /\ IF flight[r] = <<>> THEN Return(r) /\ UNCHANGED dev
     ELSE /\ dev' = [dev EXCEPT ![r] = AllReduce(@, NoBuffer)]
          /\ host' = [host EXCEPT ![r].pc = "barrierSync"]
  /\ UNCHANGED <<mem, recorded, flight, left, given, spent, logical, lost>>
BarrierReduce(r) ==
  /\ At(r, "barrier") /\ CommIdle(r)
  /\ dev' = [dev EXCEPT ![r] = AllReduce(@, NoBuffer)]
  /\ issued' = [issued EXCEPT ![r] = host[r].n]
  /\ host' = [host EXCEPT ![r].pc = "barrierSync"]
  /\ UNCHANGED <<mem, recorded, flight, left, given, spent, logical, lost>>

BarrierReturns(r) ==
  /\ At(r, "barrierSync")
  /\ Synced(r)
  /\ left' = [left EXCEPT ![r] = host[r].n]
  /\ UNCHANGED <<mem, recorded, issued, given, spent, lost>>
-----------------------------------------------------------------------------
Copies(r) ==
  \/ \E b \in Buffers : CopyToDevice(r, b) \/ CopyFromDevice(r, b)
  \/ \E a, b \in Buffers : CopyWithinDevice(r, a, b)
  \/ Synchronize(r) \/ SynchronizeFails(r)
  \/ \E b \in Buffers : \/ RecordEvent(r, b) \/ CopyFromDevicePipelined(r, b)
                        \/ PipelinedFails(r, b) \/ PipelinedEmpty(r, b)

Collectively(r) ==
  \/ \E b \in Buckets : ReduceBucket(r, b) \/ AwaitBucket(r, b)
  \/ CallSync(r) \/ Sync(r)
  \/ Barrier(r) \/ BarrierReduce(r) \/ BarrierReturns(r)

HostStep(r) == Copies(r) \/ Collectively(r)

Next ==
  \/ \E r \in Ranks, s \in Streams : Execute(r, s)
  \/ RunAllReduce
  \/ \E r \in Ranks : HostStep(r)

\* Devices and programs go on as long as one of them can.
Fairness == WF_vars(Next)

Spec == Init /\ [][Next]_vars
FairSpec == Spec /\ Fairness
-----------------------------------------------------------------------------
\* A value names a sum; what it stands for, once every rank has given its part, are
\* its own uploads and those given to the sums it names, to the sums these name, and so on.
SumsIn(v) == {x[2] : x \in {y \in v : y[1] = 0}}
Closed(g, S) == \A n \in S, r \in Ranks : SumsIn(g[n][r]) \subseteq S
Reached(g, v) ==
  {n \in DOMAIN Order :
     \A S \in SUBSET DOMAIN Order : SumsIn(v) \subseteq S /\ Closed(g, S) => n \in S}
Resolve(g, v) ==
  {x \in v \cup UNION {g[n][r] : n \in Reached(g, v), r \in Ranks} : x[1] # 0}

\* A copy to the host that has waited returns what the program takes the buffer
\* to hold at the call, or at record_event for a pipelined one: the last write
\* before it, the gradients of all ranks for a bucket that was reduced, whatever
\* the streams have done in between.
CopyExact ==
  [][\A r \in Ranks :
       Synchronize(r) /\ ~lost[r].sync => host[r].data = Resolve(given, host[r].want)]_vars

\* Every event that exists has one holder who will destroy it; only the early
\* return of an empty pipelined copy leaves one behind.
EventsHeld ==
  \A r \in Ranks :
    LET reads == {recorded[r][b].event : b \in DOMAIN recorded[r]}
        sums == {flight[r][b].event : b \in DOMAIN flight[r]}
        call == {host[r].event} \ {0} IN
    /\ DOMAIN dev[r].events = reads \cup sums \cup call \cup lost[r].events
    /\ Cardinality(DOMAIN dev[r].events) =
         Cardinality(DOMAIN recorded[r]) + Cardinality(DOMAIN flight[r])
         + Cardinality(call) + Cardinality(lost[r].events)

\* No rank leaves a barrier before every rank has come to it and its earlier
\* collectives are done.
BarrierSeparates ==
  \A r, q \in Ranks : \A n \in 1..left[r] : Order[n] = NoBuffer => issued[q] >= n

\* Every call returns and every command is executed, whatever the copies met: no
\* rank waits for ever for an event, for its device or for another rank.
AllComplete ==
  <>[]\A r \in Ranks :
       /\ At(r, "idle") /\ issued[r] = Len(Order) /\ flight[r] = <<>>
       /\ \A s \in Streams : Queue(r, s) = <<>>
=============================================================================
