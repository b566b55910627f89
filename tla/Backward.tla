------------------------------ MODULE Backward ------------------------------
(***************************************************************************)
(* Reverse-mode differentiation, src/src/autograd/backward.rs: the         *)
(* depth-first topological sort of the graph under the loss, the pre-pass  *)
(* that marks the nodes on a path to a wanted gradient, and the sweep that *)
(* calls every node's backward and accumulates into the GradStore.         *)
(* backward, backward_wrt and backward_with_graph are the three modes.     *)
(*                                                                         *)
(* A node is a TensorId with the ids of its grad_fn's inputs, none for a   *)
(* leaf; ids grow, so a node's inputs are older. A gradient is the         *)
(* sequence of the contributions added into it, <<consumer, slot>>: what a *)
(* sum is made of, and in which order, is all that a float result depends  *)
(* on. validate_loss has accepted the loss.                                *)
(***************************************************************************)
EXTENDS Integers, Sequences

CONSTANTS
  N,            \* ids 1 .. N; the loss is the youngest, N
  MaxInputs     \* most inputs of one operation

ASSUME BackwardAssumption == N \in Nat \ {0} /\ MaxInputs \in Nat

Ids == 1 .. N
Loss == N
Seed == <<N, 0>>              \* dL/dL = 1

VARIABLES
  inputs,       \* the graph: the input ids of each id's grad_fn
  mode,         \* "all": backward, "wrt": backward_wrt, "graph": backward_with_graph
  wanted,       \* backward_wrt's ids
  silent,       \* <<id, slot>> for which the op returns None
  pc,
  stack,        \* the calls of dfs under way: [id, next input to visit]
  visited, result,
  needed,       \* the ids is_needed answers true for
  pos, slot,    \* the loops over topo_order and over one node's inputs
  store,        \* GradStore
  hooks         \* on_leaf_grad_ready calls so far

vars == <<inputs, mode, wanted, silent, pc, stack, visited, result, needed, pos,
          slot, store, hooks>>
args == <<mode, wanted, silent>>

InputSeqs == UNION {[1 .. k -> Ids] : k \in 0 .. MaxInputs}
Slots(id) == 1 .. Len(inputs[id])
Positions == 1 .. Len(result)

\* The arguments that only matter after the sort are fixed when it is over.
Init ==
  /\ inputs \in [Ids -> InputSeqs]
  /\ \A id \in Ids : \A s \in Slots(id) : inputs[id][s] < id
  /\ mode = "all" /\ wanted = {} /\ silent = {}
  /\ pc = "sort"
  /\ stack = <<[id |-> Loss, next |-> 1]>>
  /\ visited = {Loss}
  /\ result = <<>>
  /\ needed = {}
  /\ pos = 0 /\ slot = 0
  /\ store = [id \in Ids |-> IF id = Loss THEN <<Seed>> ELSE <<>>]
  /\ hooks = <<>>
-----------------------------------------------------------------------------
(***************************************************************************)
(* topological_sort                                                        *)
(***************************************************************************)
Top == stack[Len(stack)]
Child == inputs[Top.id][Top.next]
Advanced == [stack EXCEPT ![Len(stack)].next = @ + 1]

Visit_PreOrder ==
  /\ pc = "sort" /\ stack # <<>>
  /\ Top.next \in Slots(Top.id) /\ Child \notin visited
  /\ visited' = visited \cup {Child}
  /\ stack' = Append(Advanced, [id |-> Child, next |-> Len(inputs[Child]) + 1])
  /\ UNCHANGED <<inputs, args, pc, result, needed, pos, slot, store, hooks>>
Visit ==
  /\ pc = "sort" /\ stack # <<>>
  /\ Top.next \in Slots(Top.id) /\ Child \notin visited
  /\ visited' = visited \cup {Child}
  /\ stack' = Append(Advanced, [id |-> Child, next |-> 1])
  /\ UNCHANGED <<inputs, args, pc, result, needed, pos, slot, store, hooks>>

\* The call for a visited input returns at once.
SkipVisited ==
  /\ pc = "sort" /\ stack # <<>>
  /\ Top.next \in Slots(Top.id) /\ Child \in visited
  /\ stack' = Advanced
  /\ UNCHANGED <<inputs, args, pc, visited, result, needed, pos, slot, store, hooks>>

\* All inputs visited: the node is pushed behind them and its call returns.
Finish ==
  /\ pc = "sort" /\ stack # <<>>
  /\ Top.next \notin Slots(Top.id)
  /\ result' = Append(result, Top.id)
  /\ stack' = SubSeq(stack, 1, Len(stack) - 1)
  /\ UNCHANGED <<inputs, args, pc, visited, needed, pos, slot, store, hooks>>
-----------------------------------------------------------------------------
(***************************************************************************)
(* compute_needed                                                          *)
(***************************************************************************)
AllSlots == UNION {{id} \X Slots(id) : id \in Ids}

\* bound: at most one slot of the graph is one whose op returns None.
Sorted ==
  /\ pc = "sort" /\ stack = <<>>
  /\ mode' \in {"all", "wrt", "graph"}
  /\ wanted' \in IF mode' = "wrt" THEN SUBSET Ids ELSE {{}}
  /\ silent' \in {{}} \cup {{e} : e \in AllSlots}
  /\ IF mode' = "wrt"
     THEN pc' = "mark" /\ needed' = {} /\ pos' = 1
     ELSE pc' = "reverse" /\ needed' = Ids /\ pos' = Len(result)
  /\ UNCHANGED <<inputs, stack, visited, result, slot, store, hooks>>

OnPath(id) == id \in wanted \/ \E s \in Slots(id) : inputs[id][s] \in needed

Mark ==
  LET id == result[pos] IN
  /\ pc = "mark" /\ pos \in Positions
  /\ needed' = IF OnPath(id) THEN needed \cup {id} ELSE needed
  /\ pos' = pos + 1
  /\ UNCHANGED <<inputs, args, pc, stack, visited, result, slot, store, hooks>>

Marked ==
  /\ pc = "mark" /\ pos \notin Positions
  /\ pc' = "reverse" /\ pos' = Len(result)
  /\ UNCHANGED <<inputs, args, stack, visited, result, needed, slot, store, hooks>>
-----------------------------------------------------------------------------
(***************************************************************************)
(* The reverse sweep                                                       *)
(***************************************************************************)
Node == result[pos]
Reading == pc = "reverse" /\ pos \in Positions

\* Nothing wanted below the node, or no gradient has reached it.
SkipNode ==
  /\ Reading
  /\ Node \notin needed \/ store[Node] = <<>>
  /\ pos' = pos - 1
  /\ UNCHANGED <<inputs, args, pc, stack, visited, result, needed, slot, store, hooks>>

\* backward_with_graph has no hooks.
Leaf ==
  /\ Reading
  /\ Node \in needed /\ store[Node] # <<>>
  /\ inputs[Node] = <<>>
  /\ hooks' = IF mode = "graph" THEN hooks ELSE Append(hooks, Node)
  /\ pos' = pos - 1
  /\ UNCHANGED <<inputs, args, pc, stack, visited, result, needed, slot, store>>

\* grad_fn.backward, which may fail; its results are then accumulated in order.
Backprop ==
  /\ Reading
  /\ Node \in needed /\ store[Node] # <<>>
  /\ inputs[Node] # <<>>
  /\ pc' = "accumulate" /\ slot' = 1
  /\ UNCHANGED <<inputs, args, stack, visited, result, needed, pos, store, hooks>>

Accumulate_Overwrites ==
  LET id == inputs[Node][slot] IN
  /\ pc = "accumulate" /\ slot \in Slots(Node)
  /\ store' = IF id \in needed /\ <<Node, slot>> \notin silent
              THEN [store EXCEPT ![id] = <<<<Node, slot>>>>] ELSE store
  /\ slot' = slot + 1
  /\ UNCHANGED <<inputs, args, pc, stack, visited, result, needed, pos, hooks>>
Accumulate_HooksEarly ==
  LET id == inputs[Node][slot] IN
  /\ pc = "accumulate" /\ slot \in Slots(Node)
  /\ store' = IF id \in needed /\ <<Node, slot>> \notin silent
              THEN [store EXCEPT ![id] = Append(@, <<Node, slot>>)] ELSE store
  /\ hooks' = IF inputs[id] = <<>> THEN Append(hooks, id) ELSE hooks
  /\ slot' = slot + 1
  /\ UNCHANGED <<inputs, args, pc, stack, visited, result, needed, pos>>
Accumulate ==
  LET id == inputs[Node][slot] IN
  /\ pc = "accumulate" /\ slot \in Slots(Node)
  /\ store' = IF id \in needed /\ <<Node, slot>> \notin silent
              THEN [store EXCEPT ![id] = Append(@, <<Node, slot>>)] ELSE store
  /\ slot' = slot + 1
  /\ UNCHANGED <<inputs, args, pc, stack, visited, result, needed, pos, hooks>>

NodeDone ==
  /\ pc = "accumulate" /\ slot \notin Slots(Node)
  /\ pc' = "reverse" /\ pos' = pos - 1
  /\ UNCHANGED <<inputs, args, stack, visited, result, needed, slot, store, hooks>>

\* backward or an addition returns Err: the store is dropped with the call.
Fail ==
  /\ pc = "accumulate"
  /\ pc' = "failed"
  /\ UNCHANGED <<inputs, args, stack, visited, result, needed, pos, slot, store, hooks>>

Return ==
  /\ pc = "reverse" /\ pos = 0
  /\ pc' = "done"
  /\ UNCHANGED <<inputs, args, stack, visited, result, needed, pos, slot, store, hooks>>

Next ==
  \/ Visit \/ SkipVisited \/ Finish
  \/ Sorted \/ Mark \/ Marked
  \/ SkipNode \/ Leaf \/ Backprop \/ Accumulate \/ NodeDone \/ Fail \/ Return

Spec == Init /\ [][Next]_vars
-----------------------------------------------------------------------------
TypeOK ==
  /\ inputs \in [Ids -> Seq(Ids)]
  /\ \A id \in Ids : \A s \in Slots(id) : inputs[id][s] < id
  /\ mode \in {"all", "wrt", "graph"}
  /\ wanted \in SUBSET Ids
  /\ silent \in SUBSET (Ids \X Nat)
  /\ pc \in {"sort", "mark", "reverse", "accumulate", "done", "failed"}
  /\ stack \in Seq([id : Ids, next : Nat \ {0}])
  /\ visited \in SUBSET Ids
  /\ result \in Seq(Ids)
  /\ needed \in SUBSET Ids
  /\ pos \in 0 .. Len(result) + 1 /\ slot \in Nat
  /\ pc = "accumulate" => pos \in Positions
  /\ store \in [Ids -> Seq(Ids \X Nat)]
  /\ hooks \in Seq(Ids)

\* topo_order lists every node once and its inputs before it, at any time of the
\* sort; when it is over the loss is last and every other node is the input of a
\* later one: the list is the graph under the loss and nothing else.
ListedOnce == \A i, j \in Positions : result[i] = result[j] => i = j
InputsFirst ==
  \A i \in Positions : \A s \in Slots(result[i]) :
    \E j \in 1 .. i - 1 : result[j] = inputs[result[i]][s]
LossLast == result # <<>> /\ result[Len(result)] = Loss
EachIsRead ==
  \A i \in 1 .. Len(result) - 1 : \E j \in i + 1 .. Len(result) :
    \E s \in Slots(result[j]) : inputs[result[j]][s] = result[i]
TopoOrder == ListedOnce /\ InputsFirst /\ (pc # "sort" => LossLast /\ EachIsRead)

\* The ids that edges lead to from the loss, the least set closed under them: all
\* of the graph, or what a gradient flows to when nothing is pruned.
Closed(S, edges) ==
  Loss \in S /\ \A e \in edges : e[1] \in S => inputs[e[1]][e[2]] \in S
Reached(edges) == {id \in Ids : \A S \in SUBSET Ids : Closed(S, edges) => id \in S}
Cone == Reached(AllSlots)
Flows == Reached(AllSlots \ silent)

Sweeping == pc \in {"reverse", "accumulate", "done"}

\* What the plain, unpruned pass adds into a gradient: the contributions of the
\* consumers from the last of topo_order to the first, each by ascending slot.
Contributions(id) ==
  {e \in AllSlots \ silent : e[1] \in Flows /\ inputs[e[1]][e[2]] = id}
  \cup (IF id = Loss THEN {Seed} ELSE {})
Before(e, f) ==
  \E i, j \in Positions :
    /\ result[i] = e[1] /\ result[j] = f[1]
    /\ (i > j) \/ (i = j /\ e[2] < f[2])
Lists(q, S) ==
  /\ {q[k] : k \in 1 .. Len(q)} = S
  /\ \A k, m \in 1 .. Len(q) : k < m => Before(q[k], q[m])
Exact(id) == Lists(store[id], Contributions(id))

\* A gradient that is read, and every wanted gradient at the end, is the sum of
\* the unpruned pass, term by term and in the same order; a node that is pruned
\* receives nothing.
PrunedIsExact ==
  Sweeping =>
    /\ \A i \in Positions : result[i] \in needed /\ i >= pos => Exact(result[i])
    /\ \A id \in Ids \ (needed \cup {Loss}) : store[id] = <<>>
    /\ pc = "done" => \A id \in wanted \cap Cone : Exact(id)

\* The hook has been called for every leaf passed that is wanted and has a gradient,
\* and for nothing else.
HooksExact ==
  Sweeping /\ mode # "graph" =>
    /\ \A i, j \in 1 .. Len(hooks) : hooks[i] = hooks[j] => i = j
    /\ {hooks[i] : i \in 1 .. Len(hooks)} =
         {id \in {result[i] : i \in Positions \cap (pos + 1 .. Len(result))} :
            inputs[id] = <<>> /\ id \in Flows /\ (mode = "wrt" => id \in wanted)}

\* A leaf's gradient never changes again once its hook was called, so a bucket
\* that is sent at that moment is complete (BackwardHook).
NoLateGradient ==
  [][\A i \in 1 .. Len(hooks) : store'[hooks[i]] = store[hooks[i]]]_vars
=============================================================================
