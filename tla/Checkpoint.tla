----------------------------- MODULE Checkpoint -----------------------------
(***************************************************************************)
(* Activation checkpointing, src/src/autograd/checkpoint.rs and capture.rs, *)
(* against the backward pass of backward.rs. A program builds a graph out  *)
(* of leaves, operations and checkpointed segments, then asks for          *)
(* gradients; checkpointing must not be visible in them.                   *)
(*                                                                         *)
(* Here a node is what the code passes around, an id together with a       *)
(* grad_fn: one id may have two of them in one graph. Every operation is   *)
(* a + 2*b, so that a gradient is an integer that tells the paths apart,   *)
(* and every Var carries its true derivative d by the leaves, computed     *)
(* forwards with no regard to ids and segments.                            *)
(***************************************************************************)
EXTENDS Integers, SequencesExt, TLC

CONSTANTS
  Leaves,           \* number of leaves of the program
  MaxVars,          \* most Vars of the program, leaves included
  MaxSegments,      \* most checkpointed segments
  MaxOps,           \* most operations inside a segment
  MayRepeat,        \* whether a segment may list one value twice
  MayPassThrough,   \* whether a segment may return a listed result as it is
  MayReachListed,   \* whether a capture's history may pass through a listed value
  MayBeConstant,    \* whether a segment may read nothing differentiable
  MayFreeze         \* whether set_requires_grad(false) is called on a Var in use

ASSUME CheckpointAssumption ==
  /\ Leaves \in Nat \ {0} /\ MaxVars \in Nat /\ MaxSegments \in Nat /\ MaxOps \in 0 .. 2
  /\ {MayRepeat, MayPassThrough, MayReachListed, MayBeConstant, MayFreeze} \subseteq BOOLEAN

VARIABLES
  vars,         \* the program's Vars, oldest first
  nextId,       \* TensorId's NEXT_ID
  segments,     \* number of segments built
  wanted,       \* the leaves asked for, once backward was called
  answer        \* what backward returned

state == <<vars, nextId, segments, wanted, answer>>

LeafIds == 1 .. Leaves
Later == 1000           \* bound: ids minted by a recompute start here
-----------------------------------------------------------------------------
(***************************************************************************)
(* Vars and grad_fns. A grad_fn with no inputs stands for None; one with a *)
(* body is a CheckpointBackward, whose first inputs are the listed ones.   *)
(***************************************************************************)
NoBody == [ops |-> <<>>, ret |-> <<>>]
NoFn == [inputs |-> <<>>, listed |-> 0, body |-> NoBody]
Constant == [x \in LeafIds |-> 0]

Ref(v) == [id |-> v.id, fn |-> v.fn]
IsLeaf(r) == r.fn.inputs = <<>>
Leaf(id, rg, d) == [id |-> id, rg |-> rg, fn |-> NoFn, d |-> d]

\* Var::from_op if either operand requires a gradient.
VarOp(a, b, id) ==
  IF a.rg \/ b.rg
  THEN [id |-> id, rg |-> TRUE,
        fn |-> [NoFn EXCEPT !.inputs = <<Ref(a), Ref(b)>>],
        d |-> [x \in LeafIds |-> a.d[x] + 2 * b.d[x]]]
  ELSE Leaf(id, FALSE, Constant)

\* Var::clone: a fresh id for the same grad_fn. The clone of a leaf is another leaf.
CloneOf(v, id) == [v EXCEPT !.id = id, !.d = IF IsLeaf(v) THEN Constant ELSE @]

(***************************************************************************)
(* A closure: operations whose operands are the values it is passed, the   *)
(* ones it captured, the results of its earlier operations, or a trainable *)
(* leaf it makes itself, and the operand it returns; what it does not own  *)
(* it returns as a clone. Ids from base on are minted by the run.          *)
(***************************************************************************)
Input(i) == [from |-> "input", index |-> i]
Captured(v) == [from |-> "capture", var |-> v]
Result(k) == [from |-> "result", index |-> k]
Minted == [from |-> "minted"]

Operand(o, ins, results, base) ==
  CASE o.from = "input"   -> ins[o.index]
    [] o.from = "capture" -> o.var
    [] o.from = "result"  -> results[o.index]
    [] o.from = "minted"  -> Leaf(base, TRUE, Constant)

Run(body, ins, base) ==
  LET step(results, op) ==
        Append(results, VarOp(Operand(op[1], ins, results, base),
                              Operand(op[2], ins, results, base),
                              base + 1 + Len(results)))
      results == FoldLeft(step, <<>>, body.ops)
      ret == Operand(body.ret, ins, results, base)
  IN IF body.ret.from \in {"input", "capture"} THEN CloneOf(ret, base) ELSE ret
-----------------------------------------------------------------------------
(***************************************************************************)
(* collect_captures: the leaves the retained graph reaches that are older  *)
(* than the segment and not known. The stack's last entry is popped first. *)
(***************************************************************************)
RECURSIVE Walk(_, _, _, _)
Walk(stack, visited, boundary, known) ==
  IF stack = <<>> THEN <<>> ELSE
  LET r == Last(stack)
      rest == Front(stack)
      seen == visited \cup {r.id}
      captured == IF r.id < boundary /\ r.id \notin known THEN <<r.id>> ELSE <<>>
  IN IF r.id \in visited THEN Walk(rest, visited, boundary, known)
     ELSE IF IsLeaf(r) THEN captured \o Walk(rest, seen, boundary, known)
     ELSE Walk(rest \o r.fn.inputs, seen, boundary, known)

CollectCaptures_StopsAtOlder(output, boundary, known) ==
  SetToSeq({r.id : r \in {i \in Range(output.fn.inputs) : i.id < boundary}} \ known)
CollectCaptures(output, boundary, known) == Walk(<<Ref(output)>>, {}, boundary, known)

(***************************************************************************)
(* topological_sort and compute_needed, as in Backward, over references    *)
(***************************************************************************)
RECURSIVE Dfs(_, _)
Dfs(r, acc) ==
  IF r.id \in acc.visited THEN acc ELSE
  LET entered == [acc EXCEPT !.visited = @ \cup {r.id}]
      below == FoldLeft(LAMBDA a, i : Dfs(i, a), entered, r.fn.inputs)
  IN [below EXCEPT !.order = Append(@, r)]

TopologicalSort(r) == Dfs(r, [visited |-> {}, order |-> <<>>]).order

InputIds(r) == {r.fn.inputs[s].id : s \in DOMAIN r.fn.inputs}

ComputeNeeded(order, ids) ==
  FoldLeft(LAMBDA needed, r :
             IF r.id \in ids \/ InputIds(r) \cap needed # {} THEN needed \cup {r.id} ELSE needed,
           {}, order)

(***************************************************************************)
(* backward_driver and CheckpointBackward::backward, which call each other *)
(***************************************************************************)
RECURSIVE BackwardDriver(_, _, _)

\* The gradients of a node's inputs; a slot that has none is an empty set.
OpBackward(g) == [ok |-> TRUE, grads |-> <<{g}, {2 * g}>>]

\* The listed inputs are rebuilt as leaves with their own ids, the closure runs
\* again, and a nested backward_wrt starts at its output. That the output does
\* not require a gradient is an error.
SegmentBackward_ListedOnly(fn, g, slots) ==
  LET id(s) == fn.inputs[s].id
      rebuilt == [i \in 1 .. fn.listed |-> Leaf(id(i), TRUE, Constant)]
      output == Run(fn.body, rebuilt, Later)
      nested == BackwardDriver(Ref(output), g, {id(s) : s \in slots})
  IN [ok |-> nested.ok,
      grads |-> [s \in DOMAIN fn.inputs |->
                   IF s \in slots \cap 1 .. fn.listed /\ id(s) \in DOMAIN nested.store
                   THEN {nested.store[id(s)]} ELSE {}]]
SegmentBackward(fn, g, slots) ==
  LET id(s) == fn.inputs[s].id
      rebuilt == [i \in 1 .. fn.listed |-> Leaf(id(i), TRUE, Constant)]
      output == Run(fn.body, rebuilt, Later)
      nested == BackwardDriver(Ref(output), g, {id(s) : s \in slots})
  IN CASE slots = {} -> [ok |-> TRUE, grads |-> [s \in DOMAIN fn.inputs |-> {}]]
       [] slots # {} /\ ~output.rg -> [ok |-> FALSE, grads |-> <<>>]
       [] OTHER ->
            [ok |-> nested.ok,
             grads |-> [s \in DOMAIN fn.inputs |->
                          IF s \in slots /\ id(s) \in DOMAIN nested.store
                          THEN {nested.store[id(s)]} ELSE {}]]

Accumulate(store, id, grad) ==
  IF grad = {} THEN store
  ELSE LET g == CHOOSE v \in grad : TRUE IN
       IF id \in DOMAIN store THEN [store EXCEPT ![id] = @ + g] ELSE store @@ (id :> g)

BackwardDriver(loss, seed, ids) ==
  LET order == TopologicalSort(loss)
      needed == ComputeNeeded(order, ids)
      visit(r, acc) ==
        IF ~acc.ok \/ r.id \notin needed \/ r.id \notin DOMAIN acc.store \/ IsLeaf(r) THEN acc
        ELSE LET g == acc.store[r.id]
                 slots == {s \in DOMAIN r.fn.inputs : r.fn.inputs[s].id \in needed}
                 back == IF r.fn.listed = 0 THEN OpBackward(g) ELSE SegmentBackward(r.fn, g, slots)
                 add(store, s) == IF s \in slots
                                  THEN Accumulate(store, r.fn.inputs[s].id, back.grads[s])
                                  ELSE store
             IN [ok |-> back.ok,
                 store |-> IF back.ok
                           THEN FoldLeft(add, acc.store, [s \in DOMAIN r.fn.inputs |-> s])
                           ELSE acc.store]
  IN FoldRight(visit, order, [ok |-> TRUE, store |-> loss.id :> seed])
-----------------------------------------------------------------------------
(***************************************************************************)
(* The program                                                             *)
(***************************************************************************)
Unit(id, rg) == [x \in LeafIds |-> IF x = id /\ rg THEN 1 ELSE 0]

Init ==
  /\ \E rg \in [LeafIds -> BOOLEAN] :
       /\ rg[1]
       /\ vars = [i \in LeafIds |-> Leaf(i, rg[i], Unit(i, rg[i]))]
  /\ nextId = Leaves + 1
  /\ segments = 0
  /\ wanted = {}
  /\ answer = [ok |-> TRUE, store |-> <<>>]

Building == wanted = {}
Indices == 1 .. Len(vars)

Apply(i, j) ==
  /\ Building /\ Len(vars) < MaxVars
  /\ vars' = Append(vars, VarOp(vars[i], vars[j], nextId))
  /\ nextId' = nextId + 1
  /\ UNCHANGED <<segments, wanted, answer>>

Clone(i) ==
  /\ Building /\ Len(vars) < MaxVars
  /\ vars' = Append(vars, CloneOf(vars[i], nextId))
  /\ nextId' = nextId + 1
  /\ UNCHANGED <<segments, wanted, answer>>

IdsBelow(v) == {r.id : r \in Range(TopologicalSort(Ref(v)))}

\* set_requires_grad(false): the id stays. Bound: before the first segment.
Freeze(i) ==
  /\ Building /\ segments = 0
  /\ MayFreeze \/ IsLeaf(vars[i]) \/ \A j \in Indices \ {i} : vars[i].id \notin IdsBelow(vars[j])
  /\ vars' = [vars EXCEPT ![i] = Leaf(@.id, FALSE, Constant)]
  /\ UNCHANGED <<nextId, segments, wanted, answer>>

\* Bound: a segment lists one value or two, oldest first.
Listings == {<<i>> : i \in Indices} \cup {l \in Indices \X Indices : l[1] < l[2] \/ (MayRepeat /\ l[1] = l[2])}

\* Bodies over n inputs: each operation after the first uses the one before it.
Operands(n) == {Input(i) : i \in 1 .. n} \cup {Captured(vars[i]) : i \in Indices} \cup {Minted}
Bodies(n) ==
  {[ops |-> <<>>, ret |-> o] : o \in Operands(n)}
  \cup (IF MaxOps >= 1
        THEN {[ops |-> <<op>>, ret |-> Result(1)] : op \in Operands(n) \X Operands(n)} ELSE {})
  \cup (IF MaxOps >= 2
        THEN {[ops |-> <<op, <<Result(1), o>>>>, ret |-> Result(2)] :
                op \in Operands(n) \X Operands(n), o \in Operands(n) \cup {Result(1)}}
        ELSE {})

OperandsOf(body) == {body.ret} \cup UNION {{body.ops[k][1], body.ops[k][2]} : k \in DOMAIN body.ops}
CapturedBy(body) == {o.var : o \in {p \in OperandsOf(body) : p.from = "capture"}}

\* The uses of the four kinds that the May constants allow.
Permitted(inputs, body) ==
  /\ body.ret.from = "input" => MayPassThrough \/ IsLeaf(inputs[body.ret.index])
  /\ MayReachListed \/ \A v \in CapturedBy(body) : \A i \in DOMAIN inputs :
                         inputs[i].id \in IdsBelow(v) => IsLeaf(inputs[i])
  /\ MayBeConstant \/ \E o \in OperandsOf(body) : o.from # "result" /\ (o.from = "capture" => o.var.rg)

\* checkpoint_with_client.
Segment(listing, body) ==
  LET inputs == [k \in DOMAIN listing |-> vars[listing[k]]]
      detached == [k \in DOMAIN inputs |-> Leaf(nextId + k, FALSE, Constant)]
      known == {detached[k].id : k \in DOMAIN inputs} \cup {inputs[k].id : k \in DOMAIN inputs}
      boundary == nextId + Len(inputs) + 1
      output == Run(body, detached, boundary + 1)
      captures == CollectCaptures(output, boundary, known)
      fn == [inputs |-> [k \in DOMAIN inputs |-> Ref(inputs[k])]
                        \o [k \in DOMAIN captures |-> [id |-> captures[k], fn |-> NoFn]],
             listed |-> Len(inputs), body |-> body]
      id == boundary + MaxOps + 2
  IN
  /\ Building /\ Len(vars) < MaxVars /\ segments < MaxSegments
  /\ Permitted(inputs, body)
  /\ vars' = Append(vars, [id |-> id, rg |-> TRUE, fn |-> fn, d |-> Run(body, inputs, Later).d])
  /\ nextId' = id + 1
  /\ segments' = segments + 1
  /\ UNCHANGED <<wanted, answer>>

\* backward_wrt of the youngest Var. Asking for every leaf is what backward does.
Backward(ids) ==
  /\ Building
  /\ ids # {}
  /\ Last(vars).rg
  /\ wanted' = ids
  /\ answer' = BackwardDriver(Ref(Last(vars)), 1, ids)
  /\ UNCHANGED <<vars, nextId, segments>>

Next ==
  \/ \E i, j \in Indices : Apply(i, j)
  \/ \E i \in Indices : Clone(i) \/ Freeze(i)
  \/ \E listing \in Listings : \E body \in Bodies(Len(listing)) : Segment(listing, body)
  \/ \E ids \in SUBSET LeafIds : Backward(ids)

Spec == Init /\ [][Next]_state
-----------------------------------------------------------------------------
Gradient(x) == IF x \in DOMAIN answer.store THEN answer.store[x] ELSE 0

\* Checkpointing is transparent to gradients (checkpoint.rs): whatever a segment
\* lists, captures or makes itself, every trainable leaf gets its derivative.
Transparent ==
  ~Building =>
    /\ answer.ok
    /\ \A x \in wanted : vars[x].rg => Gradient(x) = Last(vars).d[x]
=============================================================================
