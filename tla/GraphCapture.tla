---------------------------- MODULE GraphCapture ----------------------------
(***************************************************************************)
(* Graph capture, src/src/runtime/cuda/runtime.rs and                      *)
(* src/src/runtime/captured_graph.rs: capture_graph_into and its variant   *)
(* with an arena drive the allocator of CudaAllocator through a freeze     *)
(* window while the program's closure runs, and the CapturedGraph they     *)
(* return keeps the buffers its kernels address alive.                     *)
(*                                                                         *)
(* One thread makes calls: install_arena's documentation makes capture on  *)
(* a client neither re-entrant nor thread-safe. The program holds one      *)
(* CapturedGraph at a time.                                                *)
(***************************************************************************)
EXTENDS CudaAllocator

CONSTANTS
  Capturer,         \* the thread
  NoGraph,
  BeginMayFail,     \* whether stream.begin_capture can return an error
  MayDropForeign    \* whether a block from outside may be freed in an arena window

\* A CapturedGraph: the tensors it keeps, the blocks these were at capture, and the
\* addresses the window gave out for the closure's own tensors, with the arena's
\* high-water mark at the end of it. Its kernels address all of these.
Graphs == [io : SUBSET Handles, arena : Handles \cup {NoHandle}, withArena : BOOLEAN,
           held : UNION {[kept -> Blocks] : kept \in SUBSET Handles},
           window : SUBSET (Ptrs \X Nat), top : Nat]

ASSUME GraphAssumption ==
  /\ Capturer \in Threads
  /\ {BeginMayFail, MayDropForeign} \subseteq BOOLEAN
  /\ NoGraph \notin Graphs

VARIABLES
  refs,         \* who holds an Arc of each handle's Storage
  cap,          \* progress of a capture call, or of a CapturedGraph's drop
  graph,        \* the CapturedGraph the program holds: its I/O and arena handles
  recording,    \* whether the stream is in capture mode
  faults        \* history: which of the two faults above have happened

gvars == <<vars, refs, cap, graph, recording, faults>>

NoCapture == [pc |-> "idle", arena |-> NoHandle, io |-> {}, withArena |-> FALSE, ok |-> FALSE,
              window |-> {}, top |-> 0]

CapAt(pc) == cap.pc = pc /\ At(Capturer, "idle")
CapGoto(pc) == cap' = [cap EXCEPT !.pc = pc]

GInit ==
  /\ Init
  /\ refs = [h \in Handles |-> {}]
  /\ cap = NoCapture
  /\ graph = NoGraph
  /\ recording = FALSE
  /\ faults = {}

\* Drop of one reference; StorageInner::drop runs with the last one.
Drop(h, who) ==
  /\ refs' = [refs EXCEPT ![h] = @ \ {who}]
  /\ IF refs[h] = {who} THEN Deallocate(Capturer, h) ELSE UNCHANGED vars
-----------------------------------------------------------------------------
(***************************************************************************)
(* The program, outside and inside the closure                             *)
(***************************************************************************)
InProgram == cap.pc \in {"idle", "closure"}

Create(h, n) ==
  /\ InProgram
  /\ Allocate(Capturer, h, n)
  /\ refs' = [refs EXCEPT ![h] = {"user"}]
  /\ UNCHANGED <<cap, graph, recording, faults>>

\* What the program keeps to: the arena's own buffer stays allocated until the
\* window has closed (install_arena), and blocks of a window are freed inside it
\* (capture_graph_into's contract).
Foreign(h) == frozen /\ ~storage[h].graph
MayFree(h) ==
  LET b == storage[h] IN
  /\ arena # NoArena => b.graph \/ b.ptr # arena.base
  /\ Foreign(h) => MayDropForeign /\ arena # NoArena
  /\ b.graph => frozen

\* The tensors handed to a capture are borrowed until it returns.
Forget(h) ==
  /\ InProgram /\ At(Capturer, "idle")
  /\ cap.pc = "closure" => h \notin cap.io
  /\ h \in Live /\ "user" \in refs[h]
  /\ refs[h] = {"user"} => MayFree(h)
  /\ Drop(h, "user")
  /\ faults' = IF refs[h] = {"user"} /\ Foreign(h) THEN faults \cup {"foreign"} ELSE faults
  /\ UNCHANGED <<cap, graph, recording>>

\* A step of the allocator call that is under way, whoever made it.
Continue ==
  /\ Step(Capturer) \/ FrozenStep(Capturer)
  /\ UNCHANGED <<refs, cap, graph, recording, faults>>
-----------------------------------------------------------------------------
(***************************************************************************)
(* capture_graph_into and capture_graph_into_with_arena                    *)
(***************************************************************************)
Capture(io, withArena) ==
  /\ CapAt("idle") /\ graph = NoGraph
  /\ \A h \in io : h \in Live /\ ~storage[h].graph /\ "user" \in refs[h]
  /\ withArena => \E h \in Handles : Unused(h)   \* bound: a name for the arena tensor
  /\ cap' = [NoCapture EXCEPT !.io = io, !.withArena = withArena,
                              !.pc = IF withArena THEN "arenaTensor" ELSE "freeze"]
  /\ UNCHANGED <<vars, refs, graph, recording, faults>>

\* The arena's buffer is an ordinary tensor, allocated before the window.
ArenaTensor(h, n) ==
  /\ CapAt("arenaTensor")
  /\ Allocate(Capturer, h, n)
  /\ refs' = [refs EXCEPT ![h] = {"capture"}]
  /\ cap' = [cap EXCEPT !.pc = "install", !.arena = h]
  /\ UNCHANGED <<graph, recording, faults>>

ArenaTensorFailed ==
  /\ CapAt("install") /\ storage[cap.arena] = NoBlock
  /\ cap' = NoCapture
  /\ UNCHANGED <<vars, refs, graph, recording, faults>>

Install ==
  /\ CapAt("install")
  /\ InstallArena(Capturer, cap.arena)
  /\ CapGoto("freeze")
  /\ UNCHANGED <<refs, graph, recording, faults>>

\* An arena is installed already: the error drops arena_tensor.
InstallRefused ==
  /\ CapAt("install") /\ storage[cap.arena] # NoBlock
  /\ arena # NoArena
  /\ Drop(cap.arena, "capture")
  /\ cap' = NoCapture
  /\ UNCHANGED <<graph, recording, faults>>

\* owned_inputs and owned_outputs are cloned, then the allocator is frozen.
CloneAndFreeze ==
  /\ CapAt("freeze")
  /\ Freeze(Capturer)
  /\ refs' = [h \in Handles |-> IF h \in cap.io THEN refs[h] \cup {"capture"} ELSE refs[h]]
  /\ CapGoto("begin")
  /\ UNCHANGED <<graph, recording, faults>>

BeginCapture ==
  /\ CapAt("begin")
  /\ recording' = TRUE
  /\ CapGoto("closure")
  /\ UNCHANGED <<vars, refs, graph, faults>>

\* begin_capture()? : the locals are dropped and nothing else happens.
BeginCaptureFails ==
  /\ CapAt("begin") /\ BeginMayFail
  /\ CapGoto("unwind")
  /\ faults' = faults \cup {"begin"}
  /\ UNCHANGED <<vars, refs, graph, recording>>

\* The closure returns Ok or Err, and end_capture a graph, None or an error;
\* ok: both went well. Both results are looked at after unfreeze. The program
\* keeps nothing of what the closure allocated; the recorded kernels still have
\* the addresses.
Top == IF arena = NoArena THEN 0 ELSE arena.highWater

EndCapture_ReturnsEarly ==
  /\ CapAt("closure")
  /\ \A h \in Live : "user" \in refs[h] => ~storage[h].graph
  /\ recording' = FALSE
  /\ \E ok \in BOOLEAN :
       cap' = [cap EXCEPT !.pc = IF ok THEN "unfreeze" ELSE "unwind", !.ok = ok,
                          !.window = captured, !.top = Top]
  /\ UNCHANGED <<vars, refs, graph, faults>>
EndCapture ==
  /\ CapAt("closure")
  /\ \A h \in Live : "user" \in refs[h] => ~storage[h].graph
  /\ recording' = FALSE
  /\ \E ok \in BOOLEAN :
       cap' = [cap EXCEPT !.pc = "unfreeze", !.ok = ok, !.window = captured, !.top = Top]
  /\ UNCHANGED <<vars, refs, graph, faults>>

Restore ==
  /\ CapAt("unfreeze")
  /\ Unfreeze(Capturer)
  /\ CapGoto(IF cap.ok THEN "wrap" ELSE "unwind")
  /\ UNCHANGED <<refs, graph, recording, faults>>

\* The clones and the arena tensor move into the CapturedGraph.
Wrap_KeepsNoIO ==
  LET kept == cap.io \cup (IF cap.withArena THEN {cap.arena} ELSE {}) IN
  /\ CapAt("wrap")
  /\ graph' = [io |-> {}, arena |-> cap.arena, withArena |-> cap.withArena,
               held |-> [h \in kept |-> storage[h]], window |-> cap.window, top |-> cap.top]
  /\ refs' = [h \in Handles |-> IF h = cap.arena THEN {"graph"} ELSE refs[h] \ {"capture"}]
  /\ cap' = NoCapture
  /\ UNCHANGED <<vars, recording, faults>>
Wrap ==
  LET kept == cap.io \cup (IF cap.withArena THEN {cap.arena} ELSE {}) IN
  /\ CapAt("wrap")
  /\ graph' = [io |-> cap.io, arena |-> cap.arena, withArena |-> cap.withArena,
               held |-> [h \in kept |-> storage[h]], window |-> cap.window, top |-> cap.top]
  /\ refs' = [h \in Handles |-> IF h \in kept THEN (refs[h] \ {"capture"}) \cup {"graph"}
                                ELSE refs[h]]
  /\ cap' = NoCapture
  /\ UNCHANGED <<vars, recording, faults>>

\* Locals of a failed call drop in reverse order of declaration: the clones,
\* which are never the last reference since the caller still has its own, then
\* the arena tensor.
Unwind ==
  /\ CapAt("unwind")
  /\ cap' = NoCapture
  /\ LET dropped == [h \in Handles |-> IF h \in cap.io THEN refs[h] \ {"capture"} ELSE refs[h]] IN
     IF cap.withArena
     THEN /\ refs' = [dropped EXCEPT ![cap.arena] = {}]
          /\ Deallocate(Capturer, cap.arena)
     ELSE refs' = dropped /\ UNCHANGED vars
  /\ UNCHANGED <<graph, recording, faults>>
-----------------------------------------------------------------------------
(***************************************************************************)
(* Drop of the CapturedGraph, in declaration order: the graph handle, the  *)
(* inputs and outputs, the arena                                           *)
(***************************************************************************)
DropGraph ==
  /\ CapAt("idle") /\ graph # NoGraph
  /\ graph' = NoGraph
  /\ cap' = [NoCapture EXCEPT !.pc = "dropIO", !.io = graph.io, !.arena = graph.arena,
                              !.withArena = graph.withArena]
  /\ UNCHANGED <<vars, refs, recording, faults>>

DropIO(h) ==
  /\ CapAt("dropIO") /\ h \in cap.io
  /\ Drop(h, "graph")
  /\ cap' = [cap EXCEPT !.io = @ \ {h}]
  /\ UNCHANGED <<graph, recording, faults>>

DropArena ==
  /\ CapAt("dropIO") /\ cap.io = {}
  /\ IF cap.withArena THEN Drop(cap.arena, "graph") ELSE UNCHANGED <<vars, refs>>
  /\ cap' = NoCapture
  /\ UNCHANGED <<graph, recording, faults>>
-----------------------------------------------------------------------------
Program ==
  \/ \E h \in Handles, n \in Sizes : Create(h, n)
  \/ \E h \in Handles : Forget(h)
  \/ Continue

CaptureStep ==
  \/ \E io \in SUBSET Handles, withArena \in BOOLEAN : Capture(io, withArena)
  \/ \E h \in Handles, n \in Sizes : ArenaTensor(h, n)
  \/ ArenaTensorFailed \/ Install \/ InstallRefused \/ CloneAndFreeze
  \/ BeginCapture \/ BeginCaptureFails \/ EndCapture \/ Restore \/ Wrap \/ Unwind

DropStep == DropGraph \/ (\E h \in Handles : DropIO(h)) \/ DropArena

GNext == Program \/ CaptureStep \/ DropStep

GSpec == GInit /\ [][GNext]_gvars
-----------------------------------------------------------------------------
\* While a CapturedGraph can be launched, or its handle can be destroyed, its inputs,
\* its outputs and its arena are the memory they were at capture: still allocated,
\* still under the same handles, and of no other block (captured_graph.rs). Of a capture
\* with an arena these are all the memory the kernels address: every address the window
\* gave out is a piece of the arena. Of a capture without one the closure's own tensors
\* are missing from it: the driver frees them with the closure (arena.rs).
GraphMemoryHeld ==
  graph # NoGraph =>
    /\ \A h \in DOMAIN graph.held :
         /\ storage[h] = graph.held[h] /\ driver[storage[h].ptr] # 0
         /\ \A g \in Live \ {h} : ~Overlap(storage[g], storage[h])
    /\ graph.withArena /\ "begin" \notin faults =>
         LET buffer == graph.held[graph.arena] IN
         /\ graph.top <= buffer.size
         /\ \A a \in graph.window : a[1] = buffer.ptr /\ a[2] < graph.top

\* Never two tensors with a byte of device memory in common, except the arena's own
\* buffer and the tensors of the window that are allocated from it, whatever fault
\* has happened.
NoAlias ==
  \A g, h \in Live :
    g # h /\ Overlap(storage[g], storage[h]) => cap.arena \in {g, h} /\ arena # NoArena

\* When no capture is under way the allocator caches again, holds no arena and
\* the stream is out of capture mode, whatever way the last capture ended, as long
\* as begin_capture never failed.
RestoredOnReturn ==
  CapAt("idle") /\ "begin" \notin faults => ~frozen /\ arena = NoArena /\ captured = {} /\ ~recording

\* Captures and drops keep OneOwner, as long as neither fault happened.
OneOwnerUnlessFaulted == faults = {} => OneOwner

\* install_arena is only refused while another capture is in progress.
RefusedMeansOverlap == [][InstallRefused => recording]_gvars
=============================================================================
