----------------------------- MODULE CudaClient -----------------------------
(***************************************************************************)
(* The CUDA clients of one device as threads obtain and use them:          *)
(* src/src/runtime/cuda/cache.rs and client.rs, where a global map keeps   *)
(* one canonical client for each device, and sobol_cache.rs with           *)
(* ops/cuda/quasirandom.rs, where the client keeps device buffers whose    *)
(* addresses are baked into captured graphs.                               *)
(*                                                                         *)
(* Devices do not touch each other, so one is enough. The map is a static: *)
(* the client in it is never dropped.                                      *)
(***************************************************************************)
EXTENDS Naturals

CONSTANTS
  Threads, Clients,
  Dims,             \* Sobol dimensions
  Ptrs,             \* device addresses
  NoThread, NoClient, NoDim, NoPtr

ASSUME ClientAssumption ==
  /\ NoThread \notin Threads /\ NoClient \notin Clients
  /\ NoDim \notin Dims /\ NoPtr \notin Ptrs

VARIABLES
  slot,         \* the device's entry in CLIENT_CACHE
  lock,         \* holder of the map's mutex while it creates a client
  made,         \* the clients that were ever created
  held,         \* the client each thread has obtained last
  dv,           \* sobol_dv_cache of each client
  allocated,    \* addresses the driver has handed out for direction vectors
  uploaded,     \* those whose content has arrived
  launched,     \* history: (client, dimension, address) of each Sobol kernel
  call          \* what each thread is executing

vars == <<slot, lock, made, held, dv, allocated, uploaded, launched, call>>

Frame(pc, client, dim, ptr, launches) ==
  [pc |-> pc, client |-> client, dim |-> dim, ptr |-> ptr, launches |-> launches]
Idle == Frame("idle", NoClient, NoDim, NoPtr, FALSE)

At(t, pc) == call[t].pc = pc
Goto(t, pc) == call' = [call EXCEPT ![t].pc = pc]
Return(t) == call' = [call EXCEPT ![t] = Idle]
Unlocked == lock = NoThread

Init ==
  /\ slot = NoClient /\ lock = NoThread /\ made = {}
  /\ held = [t \in Threads |-> NoClient]
  /\ dv = [c \in Clients |-> [d \in Dims |-> NoPtr]]
  /\ allocated = {} /\ uploaded = {} /\ launched = {}
  /\ call = [t \in Threads |-> Idle]

sobolVars == <<dv, allocated, uploaded, launched>>
clientVars == <<slot, lock, made, held>>
-----------------------------------------------------------------------------
(***************************************************************************)
(* CudaClient::new and get_or_create_client                                *)
(***************************************************************************)
\* Either finds the entry.
Cached(t) ==
  /\ At(t, "idle") /\ Unlocked /\ slot # NoClient
  /\ held' = [held EXCEPT ![t] = slot]
  /\ UNCHANGED <<slot, lock, made, sobolVars, call>>

\* new creates its client outside the lock, and may fail.
NewMiss(t) ==
  /\ At(t, "idle") /\ Unlocked /\ slot = NoClient
  /\ Goto(t, "create")
  /\ UNCHANGED <<clientVars, sobolVars>>

NewUncached(t) ==
  /\ At(t, "create")
  /\ \E c \in Clients \ made :
       /\ made' = made \cup {c}
       /\ call' = [call EXCEPT ![t] = Frame("register", c, NoDim, NoPtr, FALSE)]
  /\ UNCHANGED <<slot, lock, held, sobolVars>>

NewFails(t) ==
  /\ At(t, "create")
  /\ Return(t)
  /\ UNCHANGED <<clientVars, sobolVars>>

\* register_or_get_client: the first one stays, and a later one is dropped.
Register_KeepsOwn(t) ==
  /\ At(t, "register") /\ Unlocked
  /\ slot' = IF slot = NoClient THEN call[t].client ELSE slot
  /\ held' = [held EXCEPT ![t] = call[t].client]
  /\ Return(t)
  /\ UNCHANGED <<lock, made, sobolVars>>
Register(t) ==
  /\ At(t, "register") /\ Unlocked
  /\ slot' = IF slot = NoClient THEN call[t].client ELSE slot
  /\ held' = [held EXCEPT ![t] = slot']
  /\ Return(t)
  /\ UNCHANGED <<lock, made, sobolVars>>

\* get_or_create_client creates its client under the lock. A failure is a panic,
\* and the next one to lock recovers the poisoned mutex.
GetMiss(t) ==
  /\ At(t, "idle") /\ Unlocked /\ slot = NoClient
  /\ lock' = t
  /\ Goto(t, "createLocked")
  /\ UNCHANGED <<slot, made, held, sobolVars>>

CreateLocked(t) ==
  /\ At(t, "createLocked")
  /\ \E c \in Clients \ made :
       /\ made' = made \cup {c}
       /\ slot' = c
       /\ held' = [held EXCEPT ![t] = c]
  /\ lock' = NoThread
  /\ Return(t)
  /\ UNCHANGED sobolVars

CreatePanics(t) ==
  /\ At(t, "createLocked")
  /\ lock' = NoThread
  /\ Return(t)
  /\ UNCHANGED <<slot, made, held, sobolVars>>
-----------------------------------------------------------------------------
(***************************************************************************)
(* sobol and warmup_sobol. Between the look-up and the insertion there is  *)
(* no lock, so several threads may warm up one dimension.                  *)
(***************************************************************************)
Entry(t) == dv[call[t].client][call[t].dim]

Kernel(c, d, p) == [client |-> c, dim |-> d, ptr |-> p]

\* sobol of a cached dimension. Inside a capture this is the only case that
\* launches: of an uncached one it is an error that changes nothing.
SobolHit(t, d) ==
  LET c == held[t] IN
  /\ At(t, "idle") /\ c # NoClient /\ dv[c][d] # NoPtr
  /\ launched' = launched \cup {Kernel(c, d, dv[c][d])}
  /\ UNCHANGED <<clientVars, dv, allocated, uploaded, call>>

\* warmup_sobol, by the program or by sobol of an uncached dimension.
Warmup(t, d, launches) ==
  LET c == held[t] IN
  /\ At(t, "idle") /\ c # NoClient
  /\ launches => dv[c][d] = NoPtr
  /\ call' = [call EXCEPT ![t] = Frame("warm", c, d, NoPtr, launches)]
  /\ UNCHANGED <<clientVars, sobolVars>>

Warmed(t) == IF call[t].launches THEN Goto(t, "launch") ELSE Return(t)

WarmHit(t) ==
  /\ At(t, "warm") /\ Entry(t) # NoPtr
  /\ Warmed(t)
  /\ UNCHANGED <<clientVars, sobolVars>>

WarmMiss(t) ==
  /\ At(t, "warm") /\ Entry(t) = NoPtr
  /\ Goto(t, "allocate")
  /\ UNCHANGED <<clientVars, sobolVars>>

MemAlloc(t) ==
  /\ At(t, "allocate")
  /\ \E p \in Ptrs \ allocated :
       /\ allocated' = allocated \cup {p}
       /\ uploaded' = uploaded \ {p}
       /\ call' = [call EXCEPT ![t] = Frame("upload", @.client, @.dim, p, @.launches)]
  /\ UNCHANGED <<clientVars, dv, launched>>

MemAllocFails(t) ==
  /\ At(t, "allocate")
  /\ Return(t)
  /\ UNCHANGED <<clientVars, sobolVars>>

CopyHtoD(t) ==
  /\ At(t, "upload")
  /\ Goto(t, "synchronize")
  /\ UNCHANGED <<clientVars, sobolVars>>

\* The copy fails: the buffer is given back.
CopyFails(t) ==
  /\ At(t, "upload")
  /\ allocated' = allocated \ {call[t].ptr}
  /\ Return(t)
  /\ UNCHANGED <<clientVars, dv, uploaded, launched>>

Synchronize(t) ==
  /\ At(t, "synchronize")
  /\ uploaded' = uploaded \cup {call[t].ptr}
  /\ Goto(t, "insert")
  /\ UNCHANGED <<clientVars, dv, allocated, launched>>

\* It fails: the buffer is not given back.
SynchronizeFails_ReturnsOk(t) ==
  /\ At(t, "synchronize")
  /\ Warmed(t)
  /\ UNCHANGED <<clientVars, sobolVars>>
SynchronizeFails(t) ==
  /\ At(t, "synchronize")
  /\ Return(t)
  /\ UNCHANGED <<clientVars, sobolVars>>

\* or_insert: the first writer wins; nobody frees a later one's buffer.
Insert_Overwrites(t) ==
  /\ At(t, "insert")
  /\ dv' = [dv EXCEPT ![call[t].client][call[t].dim] = call[t].ptr]
  /\ Warmed(t)
  /\ UNCHANGED <<clientVars, allocated, uploaded, launched>>
Insert(t) ==
  /\ At(t, "insert")
  /\ dv' = [dv EXCEPT ![call[t].client][call[t].dim] = IF @ = NoPtr THEN call[t].ptr ELSE @]
  /\ Warmed(t)
  /\ UNCHANGED <<clientVars, allocated, uploaded, launched>>

\* sobol looks the entry up again; that there is none is a panic.
Launch(t) ==
  /\ At(t, "launch") /\ Entry(t) # NoPtr
  /\ launched' = launched \cup {Kernel(call[t].client, call[t].dim, Entry(t))}
  /\ Return(t)
  /\ UNCHANGED <<clientVars, dv, allocated, uploaded>>
-----------------------------------------------------------------------------
ObtainStep(t) ==
  \/ Cached(t) \/ NewMiss(t) \/ NewUncached(t) \/ NewFails(t) \/ Register(t)
  \/ GetMiss(t) \/ CreateLocked(t) \/ CreatePanics(t)

SobolStep(t) ==
  \/ \E d \in Dims : SobolHit(t, d)
  \/ \E d \in Dims, launches \in BOOLEAN : Warmup(t, d, launches)
  \/ WarmHit(t) \/ WarmMiss(t) \/ MemAlloc(t) \/ MemAllocFails(t)
  \/ CopyHtoD(t) \/ CopyFails(t) \/ Synchronize(t) \/ SynchronizeFails(t)
  \/ Insert(t) \/ Launch(t)

Next == \E t \in Threads : ObtainStep(t) \/ SobolStep(t)

Spec == Init /\ [][Next]_vars
-----------------------------------------------------------------------------
Pcs == {"idle", "create", "register", "createLocked", "warm", "allocate", "upload",
        "synchronize", "insert", "launch"}

TypeOK ==
  /\ slot \in Clients \cup {NoClient}
  /\ lock \in Threads \cup {NoThread}
  /\ made \subseteq Clients
  /\ held \in [Threads -> Clients \cup {NoClient}]
  /\ dv \in [Clients -> [Dims -> Ptrs \cup {NoPtr}]]
  /\ allocated \subseteq Ptrs /\ uploaded \subseteq Ptrs
  /\ launched \subseteq [client : Clients, dim : Dims, ptr : Ptrs]
  /\ call \in [Threads -> [pc : Pcs, client : Clients \cup {NoClient}, dim : Dims \cup {NoDim},
                           ptr : Ptrs \cup {NoPtr}, launches : BOOLEAN]]

\* Whoever obtained a client, by whichever way, has the one in the map: kernels
\* and allocations share one stream (CudaClient::new).
OneClient == \A t \in Threads : held[t] # NoClient => held[t] = slot

\* The address a Sobol kernel was launched with, and a graph may replay, stays the
\* cached one of its dimension, allocated and complete, whatever races or fails.
LaunchedStaysValid ==
  \A k \in launched : dv[k.client][k.dim] = k.ptr /\ k.ptr \in allocated \cap uploaded

\* The second look-up in sobol never panics.
EntryGuaranteed == \A t \in Threads : At(t, "launch") => Entry(t) # NoPtr
=============================================================================
