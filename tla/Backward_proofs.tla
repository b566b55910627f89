-------------------------- MODULE Backward_proofs --------------------------
(***************************************************************************)
(* For every graph, of any size and with any number of inputs per node:    *)
(* topological_sort lists the graph under the loss with inputs first;      *)
(* because of that no gradient changes after its hook was called, and what *)
(* is pruned changes no gradient that is kept.                             *)
(*                                                                         *)
(* The argument for the sort is about the calls of dfs under way: their    *)
(* nodes get strictly older, so an input that was visited before is not    *)
(* one of them and has been listed already; and an input that was passed   *)
(* is listed, or is the call just above.                                   *)
(*                                                                         *)
(* The argument for the sums: a gradient holds what the slots passed so    *)
(* far contribute to it, in their order. The consumers of a node are       *)
(* listed behind it, so at the node all of its slots are passed; and it is *)
(* left out only when no gradient flows to it, or when none of its inputs  *)
(* is needed.                                                              *)
(***************************************************************************)
EXTENDS Backward, SequenceTheorems, TLAPS

Frame == [id : Ids, next : Nat \ {0}]
Frames == 1 .. Len(stack)
Listed(id) == \E i \in Positions : result[i] = id
Open(id) == \E k \in Frames : stack[k].id = id

\* The nodes of the stack get older from call to call and are not listed yet.
StackAges == \A j, k \in Frames : j < k => stack[k].id < stack[j].id
OpenNotListed == \A k \in Frames : ~Listed(stack[k].id)

\* A call made another one for the input it passed last, and the first call is
\* the one for the loss.
StackLinked ==
  /\ \A k \in 1 .. Len(stack) - 1 :
       /\ stack[k].next - 1 \in Slots(stack[k].id)
       /\ inputs[stack[k].id][stack[k].next - 1] = stack[k + 1].id
  /\ stack # <<>> => stack[1].id = Loss
  /\ stack = <<>> => LossLast

VisitedIsKnown == \A id \in visited : Listed(id) \/ Open(id)
KnownIsVisited ==
  /\ \A i \in Positions : result[i] \in visited
  /\ \A k \in Frames : stack[k].id \in visited

\* The inputs a call has passed are listed, but for the one being visited.
PassedListed ==
  \A k \in Frames : \A s \in Slots(stack[k].id) :
    s < stack[k].next =>
      \/ Listed(inputs[stack[k].id][s])
      \/ k < Len(stack) /\ s = stack[k].next - 1

\* Every listed node but the loss is an input of one listed later or still open.
ReadLater ==
  \A i \in Positions :
    \/ i = Len(result) /\ result[i] = Loss /\ stack = <<>>
    \/ \E j \in i + 1 .. Len(result) : \E s \in Slots(result[j]) :
         inputs[result[j]][s] = result[i]
    \/ \E k \in Frames : \E s \in Slots(stack[k].id) :
         inputs[stack[k].id][s] = result[i]

SortInv ==
  /\ StackAges /\ OpenNotListed /\ StackLinked
  /\ VisitedIsKnown /\ KnownIsVisited /\ PassedListed /\ ReadLater
  /\ ListedOnce /\ InputsFirst
  /\ pc # "sort" => stack = <<>>

\* The hooked leaves lie behind the sweep.
HooksPassed ==
  /\ hooks # <<>> => pc \notin {"sort", "mark"}
  /\ \A i \in 1 .. Len(hooks) : \E p \in pos + 1 .. Len(result) : result[p] = hooks[i]

IInv == TypeOK /\ SortInv /\ HooksPassed
-----------------------------------------------------------------------------
\* What the top of the stack is, and what the two ways to change it do.
LEMMA TopFacts ==
  ASSUME TypeOK, stack # <<>>
  PROVE  /\ Len(stack) \in Nat \ {0} /\ Len(stack) \in Frames
         /\ Top \in Frame /\ Top.id \in Ids /\ Top.next \in Nat \ {0}
         /\ inputs[Top.id] \in Seq(Ids)
         /\ Top.next \in Slots(Top.id) => Child \in Ids /\ Child < Top.id
<1>1. stack \in Seq(Frame)
  BY DEF TypeOK, Frame
<1>2. Len(stack) \in Nat \ {0}
  BY <1>1, EmptySeq
<1>3. Len(stack) \in Frames
  BY <1>2 DEF Frames
<1>4. Top \in Frame
  BY <1>1, <1>3, ElementOfSeq DEF Top, Frames
<1>5. Top.id \in Ids /\ Top.next \in Nat \ {0} /\ inputs[Top.id] \in Seq(Ids)
  BY <1>4 DEF Frame, TypeOK
<1>6. ASSUME Top.next \in Slots(Top.id)
      PROVE  Child \in Ids /\ Child < Top.id
  <2>1. Child \in Ids
    BY <1>5, <1>6, ElementOfSeq DEF Child, Slots
  <2> QED
    BY <2>1, <1>5, <1>6 DEF Child, TypeOK
<1> QED
  BY <1>2, <1>3, <1>4, <1>5, <1>6

\* The ids on the stack, in topo_order and of every input are ids.
LEMMA ElementTypes ==
  ASSUME TypeOK
  PROVE  /\ \A k \in Frames : stack[k].id \in Ids /\ stack[k].next \in Nat \ {0}
         /\ \A i \in Positions : result[i] \in Ids
         /\ Len(stack) \in Nat /\ Len(result) \in Nat
<1>1. stack \in Seq(Frame) /\ result \in Seq(Ids)
  BY DEF TypeOK, Frame
<1>2. \A k \in Frames : stack[k] \in Frame
  BY <1>1, ElementOfSeq DEF Frames
<1>3. \A i \in Positions : result[i] \in Ids
  BY <1>1, ElementOfSeq DEF Positions
<1> QED
  BY <1>1, <1>2, <1>3, LenProperties DEF Frame

\* Moving the top call to its next input changes nothing else on the stack.
LEMMA AdvancedFacts ==
  ASSUME TypeOK, stack # <<>>
  PROVE  /\ Advanced \in Seq(Frame) /\ Len(Advanced) = Len(stack)
         /\ \A k \in Frames : Advanced[k].id = stack[k].id
         /\ \A k \in Frames : k # Len(stack) => Advanced[k] = stack[k]
         /\ Advanced[Len(stack)].next = Top.next + 1
<1> DEFINE e == [Top EXCEPT !.next = @ + 1]
<1>1. stack \in Seq(Frame) /\ Len(stack) \in 1 .. Len(stack) /\ Top \in Frame
  BY TopFacts DEF TypeOK, Frame, Frames
<1>2. e \in Frame /\ e.id = Top.id /\ e.next = Top.next + 1
  BY <1>1, SMTT(30) DEF Frame
<1>3. Advanced = [stack EXCEPT ![Len(stack)] = e]
  BY DEF Advanced, Top
<1> HIDE DEF e
<1>4. /\ Advanced \in Seq(Frame) /\ Len(Advanced) = Len(stack)
      /\ \A k \in 1 .. Len(stack) : Advanced[k] = IF k = Len(stack) THEN e ELSE stack[k]
  BY <1>1, <1>2, <1>3, ExceptSeq
<1> QED
  BY <1>1, <1>2, <1>4 DEF Frames, Top

\* A call for an input goes on top of the advanced stack.
LEMMA PushFacts ==
  ASSUME TypeOK, stack # <<>>, Top.next \in Slots(Top.id),
         stack' = Append(Advanced, [id |-> Child, next |-> 1])
  PROVE  /\ stack' \in Seq(Frame) /\ Len(stack') = Len(stack) + 1
         /\ \A k \in Frames : stack'[k].id = stack[k].id
         /\ \A k \in Frames : k # Len(stack) => stack'[k] = stack[k]
         /\ stack'[Len(stack)].next = Top.next + 1
         /\ stack'[Len(stack) + 1].id = Child /\ stack'[Len(stack) + 1].next = 1
<1>1. [id |-> Child, next |-> 1] \in Frame
  BY TopFacts DEF Frame
<1>2. Len(stack) \in Frames
  BY TopFacts
<1>3. Advanced \in Seq(Frame) /\ Len(Advanced) = Len(stack)
  BY AdvancedFacts
<1>4. /\ stack' \in Seq(Frame) /\ Len(stack') = Len(stack) + 1
      /\ \A k \in 1 .. Len(stack) : stack'[k] = Advanced[k]
      /\ stack'[Len(stack) + 1] = [id |-> Child, next |-> 1]
  BY <1>1, <1>3, AppendProperties
<1> QED
  BY <1>2, <1>4, AdvancedFacts DEF Frames

\* A call that returns leaves the calls below it as they were.
LEMMA PopFacts ==
  ASSUME TypeOK, stack # <<>>, stack' = SubSeq(stack, 1, Len(stack) - 1)
  PROVE  /\ stack' \in Seq(Frame) /\ Len(stack') = Len(stack) - 1
         /\ \A k \in 1 .. Len(stack) - 1 : stack'[k] = stack[k]
<1> DEFINE n == Len(stack) - 1
<1>1. stack \in Seq(Frame) /\ n \in Nat /\ n \in Int /\ 1 \in Int
  BY TopFacts DEF TypeOK, Frame
<1>2. \A k \in 1 .. n : stack[k] \in Frame
  BY <1>1, ElementOfSeq
<1> HIDE DEF n
<1>3. /\ SubSeq(stack, 1, n) \in Seq(Frame)
      /\ Len(SubSeq(stack, 1, n)) = IF 1 <= n THEN n - 1 + 1 ELSE 0
      /\ \A k \in 1 .. n - 1 + 1 : SubSeq(stack, 1, n)[k] = stack[1 + k - 1]
  BY <1>1, <1>2, SubSeqProperties
<1>4. Len(SubSeq(stack, 1, n)) = n /\ \A k \in 1 .. n : SubSeq(stack, 1, n)[k] = stack[k]
  BY <1>1, <1>3
<1> QED
  BY <1>3, <1>4 DEF n

\* Appending a node to topo_order moves no node listed before.
LEMMA ResultFacts ==
  ASSUME TypeOK, NEW id \in Ids, result' = Append(result, id)
  PROVE  /\ result' \in Seq(Ids) /\ Len(result') = Len(result) + 1
         /\ \A i \in Positions : result'[i] = result[i]
         /\ result'[Len(result) + 1] = id
BY AppendProperties DEF TypeOK, Positions
-----------------------------------------------------------------------------
\* dfs starts with one call, for the loss, and nothing listed.
LEMMA InitIInv == Init => IInv
<1> SUFFICES ASSUME Init PROVE IInv
  OBVIOUS
<1> USE BackwardAssumption
<1>1. InputSeqs \subseteq Seq(Ids)
  BY DEF InputSeqs
<1>2. Loss \in Ids
  BY DEF Loss, Ids
<1>3. stack = <<[id |-> Loss, next |-> 1]>> /\ Len(stack) = 1 /\ result = <<>> /\ Len(result) = 0
  BY DEF Init
<1>4. TypeOK
  <2>1. inputs \in [Ids -> Seq(Ids)]
    BY <1>1 DEF Init
  <2>2. stack \in Seq([id : Ids, next : Nat \ {0}])
    BY <1>2, <1>3
  <2>3. store \in [Ids -> Seq(Ids \X Nat)]
    <3>1. <<Seed>> \in Seq(Ids \X Nat) /\ <<>> \in Seq(Ids \X Nat)
      BY <1>2 DEF Seed, Loss
    <3> QED
      BY <3>1 DEF Init
  <2>4. visited \in SUBSET Ids
    BY <1>2 DEF Init
  <2>5. /\ pc = "sort" /\ mode = "all" /\ wanted = {} /\ silent = {} /\ needed = {}
        /\ pos = 0 /\ slot = 0 /\ hooks = <<>>
        /\ \A id \in Ids : \A s \in Slots(id) : inputs[id][s] < id
    BY DEF Init
  <2> QED
    BY <1>3, <2>1, <2>2, <2>3, <2>4, <2>5 DEF TypeOK
<1>5. SortInv
  <2>1. stack[1].id = Loss /\ stack[1].next = 1 /\ visited = {Loss} /\ pc = "sort"
    BY <1>3 DEF Init
  <2>2. Frames = {1} /\ Positions = {}
    BY <1>3 DEF Frames, Positions
  <2>3. StackAges /\ OpenNotListed /\ StackLinked
    BY <1>3, <2>1, <2>2 DEF StackAges, OpenNotListed, StackLinked, Listed
  <2>4. VisitedIsKnown /\ KnownIsVisited
    BY <2>1, <2>2 DEF VisitedIsKnown, KnownIsVisited, Open
  <2>5. PassedListed /\ ReadLater
    BY <2>1, <2>2 DEF PassedListed, ReadLater, Slots
  <2>6. ListedOnce /\ InputsFirst
    BY <2>2 DEF ListedOnce, InputsFirst
  <2> QED
    BY <2>1, <2>3, <2>4, <2>5, <2>6 DEF SortInv
<1>6. HooksPassed
  BY DEF Init, HooksPassed
<1> QED
  BY <1>4, <1>5, <1>6 DEF IInv

\* Every step of backward keeps the types.
LEMMA TypeStep == TypeOK /\ [Next]_vars => TypeOK'
<1> SUFFICES ASSUME TypeOK, [Next]_vars PROVE TypeOK'
  OBVIOUS
<1>1. CASE Visit
  <2>1. stack # <<>> /\ Top.next \in Slots(Top.id)
    BY <1>1 DEF Visit
  <2>2. stack' \in Seq(Frame)
    BY <1>1, <2>1, PushFacts DEF Visit
  <2>3. Child \in Ids
    BY <2>1, TopFacts
  <2> QED
    BY <1>1, <2>2, <2>3 DEF TypeOK, Visit, args, Frame, Slots
<1>2. CASE SkipVisited
  <2>1. stack' \in Seq(Frame)
    BY <1>2, AdvancedFacts DEF SkipVisited
  <2> QED
    BY <1>2, <2>1 DEF TypeOK, SkipVisited, args, Frame, Slots
<1>3. CASE Finish
  <2>1. stack' \in Seq(Frame) /\ Top.id \in Ids
    BY <1>3, PopFacts, TopFacts DEF Finish
  <2>2. result' \in Seq(Ids) /\ Len(result') = Len(result) + 1
    BY <1>3, <2>1, ResultFacts DEF Finish
  <2>3. pos' \in 0 .. Len(result') + 1
    BY <1>3, <2>2 DEF Finish, TypeOK
  <2> QED
    BY <1>3, <2>1, <2>2, <2>3 DEF TypeOK, Finish, args, Frame, Slots
<1>4. CASE Sorted
  <2>1. wanted' \in SUBSET Ids
    BY <1>4 DEF Sorted
  <2>2. AllSlots \subseteq Ids \X Nat
    <3>1. ASSUME NEW id \in Ids PROVE {id} \X Slots(id) \subseteq Ids \X Nat
      <4>1. Slots(id) \subseteq Nat
        BY DEF Slots
      <4> QED
        BY <4>1
    <3> QED
      BY <3>1 DEF AllSlots
  <2>3. silent' \in SUBSET (Ids \X Nat)
    BY <1>4, <2>2 DEF Sorted
  <2>4. pos' \in 0 .. Len(result) + 1 /\ needed' \in SUBSET Ids /\ pc' \in {"mark", "reverse"}
    BY <1>4 DEF Sorted, TypeOK
  <2> QED
    BY <1>4, <2>1, <2>3, <2>4 DEF TypeOK, Sorted, Slots
<1>5. CASE Mark
  <2>1. result[pos] \in Ids /\ pos + 1 \in 0 .. Len(result) + 1
    BY <1>5, ElementOfSeq DEF Mark, TypeOK, Positions
  <2> QED
    BY <1>5, <2>1 DEF TypeOK, Mark, args, Slots
<1>6. CASE Marked
  <2>1. Len(result) \in 0 .. Len(result) + 1
    BY DEF TypeOK
  <2> QED
    BY <1>6, <2>1 DEF TypeOK, Marked, args, Slots
<1>7. ASSUME pos \in Positions PROVE pos - 1 \in 0 .. Len(result) + 1 /\ Node \in Ids
  BY <1>7, ElementOfSeq DEF TypeOK, Positions, Node
<1>8. CASE SkipNode
  BY <1>7, <1>8 DEF TypeOK, SkipNode, Reading, args, Slots, Positions
<1>9. CASE Leaf
  <2>1. pos \in Positions
    BY <1>9 DEF Leaf, Reading
  <2>2. hooks' \in Seq(Ids)
    BY <1>7, <1>9, <2>1, AppendProperties DEF Leaf, TypeOK
  <2> QED
    BY <1>7, <1>9, <2>1, <2>2 DEF TypeOK, Leaf, Reading, args, Slots, Positions
<1>10. CASE Backprop
  BY <1>10 DEF TypeOK, Backprop, Reading, args, Slots, Positions
<1>11. ASSUME pc = "accumulate" PROVE pos \in Positions /\ Node \in Ids
  BY <1>7, <1>11 DEF TypeOK
<1>12. CASE Accumulate
  <2> DEFINE id == inputs[Node][slot]
             grown == Append(store[id], <<Node, slot>>)
  <2>1. pc = "accumulate" /\ Node \in Ids /\ slot \in Slots(Node)
    BY <1>11, <1>12 DEF Accumulate
  <2>2. id \in Ids /\ <<Node, slot>> \in Ids \X Nat
    BY <2>1, ElementOfSeq DEF TypeOK, Slots
  <2>3. grown \in Seq(Ids \X Nat)
    BY <2>2, AppendProperties DEF TypeOK
  <2>4. store' \in [Ids -> Seq(Ids \X Nat)]
    <3>1. store' = [store EXCEPT ![id] = grown] \/ store' = store
      BY <1>12 DEF Accumulate
    <3> QED
      BY <2>3, <3>1 DEF TypeOK
  <2>5. slot' \in Nat
    BY <1>12 DEF Accumulate, TypeOK
  <2> QED
    BY <1>12, <2>4, <2>5 DEF TypeOK, Accumulate, args, Slots, Positions
<1>13. CASE NodeDone
  <2>1. pos' \in 0 .. Len(result) + 1
    BY <1>7, <1>11, <1>13 DEF NodeDone
  <2> QED
    BY <1>13, <2>1 DEF TypeOK, NodeDone, args, Slots
<1>14. CASE Fail
  BY <1>14 DEF TypeOK, Fail, args, Slots
<1>15. CASE Return
  BY <1>15 DEF TypeOK, Return, args, Slots
<1>16. CASE UNCHANGED vars
  BY <1>16 DEF TypeOK, vars, args, Slots, Positions
<1> QED
  BY <1>1, <1>2, <1>3, <1>4, <1>5, <1>6, <1>8, <1>9, <1>10, <1>12, <1>13, <1>14, <1>15,
     <1>16 DEF Next
-----------------------------------------------------------------------------
(***************************************************************************)
(* The sort                                                                *)
(***************************************************************************)
\* An input of the top that was visited before is listed: it is older than
\* the top, and no open call is.
LEMMA VisitedChildListed ==
  ASSUME TypeOK, SortInv, stack # <<>>, Top.next \in Slots(Top.id), Child \in visited
  PROVE  Listed(Child)
<1>1. Child < Top.id /\ Top.id \in Ids /\ Child \in Ids /\ Len(stack) \in Frames
  BY TopFacts
<1>2. ASSUME NEW k \in Frames, stack[k].id = Child PROVE FALSE
  <2>1. k < Len(stack) \/ k = Len(stack)
    BY ElementTypes DEF Frames
  <2>2. stack[k].id \in Ids
    BY ElementTypes
  <2>3. Top.id <= stack[k].id
    BY <1>1, <2>1, <2>2 DEF SortInv, StackAges, Top, Ids
  <2> QED
    BY <1>1, <1>2, <2>3 DEF Ids
<1> QED
  BY <1>2 DEF SortInv, VisitedIsKnown, Open

\* dfs enters an input it has not visited: the sort's bookkeeping holds with the new call.
LEMMA VisitSort ==
  ASSUME TypeOK, SortInv, Visit
  PROVE  SortInv'
<1> USE DEF Slots
<1> DEFINE n == Len(stack)
<1>1. stack # <<>> /\ Top.next \in Slots(Top.id) /\ Child \notin visited
  BY DEF Visit
<1>2. /\ Len(stack') = n + 1 /\ n \in Nat \ {0}
      /\ \A k \in 1 .. n : stack'[k].id = stack[k].id
      /\ \A k \in 1 .. n : k # n => stack'[k] = stack[k]
      /\ stack'[n].next = Top.next + 1
      /\ stack'[n + 1].id = Child /\ stack'[n + 1].next = 1
  BY <1>1, PushFacts, TopFacts DEF Visit, Frames
<1>3. /\ inputs' = inputs /\ result' = result /\ visited' = visited \cup {Child} /\ pc' = pc
      /\ pc = "sort"
  BY DEF Visit
<1>4. Child < Top.id /\ Child \in Ids /\ Top.id \in Ids /\ Top.next \in Nat \ {0}
  BY <1>1, TopFacts
<1>5. Top = stack[n] /\ Child = inputs[stack[n].id][stack[n].next]
  BY DEF Top, Child
<1>6. \A k \in Frames : stack[k].id \in Ids /\ stack[k].next \in Nat \ {0}
  BY ElementTypes
<1>7. Frames' = 1 .. n + 1 /\ Frames = 1 .. n /\ Positions' = Positions
  BY <1>2, <1>3 DEF Frames, Positions
<1>8. \A id : Listed(id)' <=> Listed(id)
  BY <1>3, <1>7 DEF Listed
<1>9. PICK c \in Ids : c = Child
  BY <1>4
<1> HIDE DEF n
<1>10. StackAges'
  <2> SUFFICES ASSUME NEW j \in 1 .. n + 1, NEW k \in 1 .. n + 1, j < k
               PROVE  stack'[k].id < stack'[j].id
    BY <1>7 DEF StackAges
  <2>1. CASE k # n + 1
    BY <1>2, <1>7, <2>1 DEF SortInv, StackAges
  <2>2. CASE k = n + 1
    <3>1. j \in 1 .. n /\ stack'[j].id = stack[j].id
      BY <1>2, <2>2
    <3>2. Top.id <= stack[j].id
      <4>1. j = n \/ j < n
        BY <1>2, <3>1
      <4> QED
        BY <1>2, <1>4, <1>5, <1>6, <1>7, <3>1, <4>1 DEF SortInv, StackAges, Ids
    <3> QED
      BY <1>2, <1>4, <1>6, <1>7, <2>2, <3>1, <3>2 DEF Ids
  <2> QED
    BY <2>1, <2>2
<1>11. OpenNotListed'
  <2>1. ~Listed(Child)
    BY <1>1, <1>3 DEF SortInv, KnownIsVisited, Listed
  <2> QED
    BY <1>2, <1>7, <1>8, <2>1 DEF SortInv, OpenNotListed
<1>12. StackLinked'
  <2>1. ASSUME NEW k \in 1 .. n
        PROVE  /\ stack'[k].next - 1 \in Slots(stack'[k].id)
               /\ inputs[stack'[k].id][stack'[k].next - 1] = stack'[k + 1].id
    <3>1. CASE k = n
      <4>1. stack'[k].next - 1 = Top.next /\ stack'[k].id = Top.id
        BY <1>2, <1>4, <1>5, <3>1
      <4> QED
        BY <1>1, <1>2, <1>4, <1>5, <1>9, <3>1, <4>1
    <3>2. CASE k # n
      <4>1. k \in 1 .. n - 1 /\ k + 1 \in 1 .. n /\ k \in Frames
        BY <1>2, <1>7, <3>2
      <4>2. stack'[k] = stack[k] /\ stack'[k + 1].id = stack[k + 1].id
        BY <1>2, <4>1
      <4> QED
        BY <1>6, <1>9, <4>1, <4>2 DEF SortInv, StackLinked, n
    <3> QED
      BY <3>1, <3>2
  <2>2. stack'[1].id = Loss
    BY <1>1, <1>2 DEF SortInv, StackLinked
  <2>3. stack' # <<>>
    <3>1. stack' \in Seq(Frame)
      BY <1>1, PushFacts DEF Visit
    <3> QED
      BY <1>2, <3>1, EmptySeq
  <2>4. (Loss)' = Loss
    BY DEF Loss
  <2> QED
    BY <1>2, <1>3, <2>1, <2>2, <2>3, <2>4 DEF StackLinked
<1>13. VisitedIsKnown' /\ KnownIsVisited'
  <2>1. \A id : Open(id) => Open(id)'
    BY <1>2, <1>7 DEF Open
  <2>2. Open(c)'
    <3>1. n + 1 \in Frames' /\ stack'[n + 1].id = c
      BY <1>2, <1>7, <1>9
    <3> QED
      BY <3>1 DEF Open
  <2>3. VisitedIsKnown'
    BY <1>3, <1>8, <1>9, <2>1, <2>2 DEF SortInv, VisitedIsKnown
  <2>4. KnownIsVisited'
    BY <1>2, <1>3, <1>7 DEF SortInv, KnownIsVisited
  <2> QED
    BY <2>3, <2>4
<1>14. PassedListed'
  <2> SUFFICES ASSUME NEW k \in 1 .. n + 1, NEW s \in Slots(stack'[k].id),
                      s < stack'[k].next
               PROVE  \/ Listed(inputs[stack'[k].id][s])
                      \/ k < n + 1 /\ s = stack'[k].next - 1
    BY <1>2, <1>3, <1>7, <1>8 DEF PassedListed
  <2>0. s \in Nat \ {0}
    BY DEF Slots
  <2>1. CASE k = n + 1
    BY <1>2, <2>0, <2>1
  <2>2. CASE k = n
    <3>1. s = Top.next \/ s < Top.next
      BY <1>2, <1>4, <2>0, <2>2
    <3>2. stack'[k].id = stack[k].id /\ s \in Slots(stack[k].id) /\ k \in Frames
      BY <1>2, <1>6, <1>7, <1>9, <2>2
    <3> QED
      BY <1>2, <1>4, <1>5, <2>2, <3>1, <3>2 DEF SortInv, PassedListed, n
  <2>3. CASE k < n
    <3>1. stack'[k] = stack[k] /\ k \in Frames
      BY <1>2, <1>7, <2>3
    <3>2. s \in Slots(stack[k].id)
      BY <1>6, <1>9, <3>1
    <3> QED
      BY <1>2, <2>3, <3>1, <3>2 DEF SortInv, PassedListed, n
  <2> QED
    BY <1>2, <2>1, <2>2, <2>3
<1>15. ReadLater'
  <2> SUFFICES ASSUME NEW i \in Positions
               PROVE  \/ \E j \in i + 1 .. Len(result) : \E s \in Slots(result[j]) :
                           inputs[result[j]][s] = result[i]
                      \/ \E k \in 1 .. n + 1 : \E s \in Slots(stack'[k].id) :
                           inputs[stack'[k].id][s] = result[i]
    BY <1>3, <1>7 DEF ReadLater
  <2>1. \A j \in i + 1 .. Len(result) : result[j] \in Ids
    BY ElementTypes DEF Positions
  <2>2. CASE \E j \in i + 1 .. Len(result) : \E s \in Slots(result[j]) :
               inputs[result[j]][s] = result[i]
    BY <2>1, <2>2
  <2>3. CASE \E k \in Frames : \E s \in Slots(stack[k].id) :
               inputs[stack[k].id][s] = result[i]
    BY <1>2, <1>6, <1>7, <2>3
  <2> QED
    BY <1>1, <2>2, <2>3 DEF SortInv, ReadLater
<1>16. ListedOnce' /\ InputsFirst'
  <2>1. \A i \in Positions : result[i] \in Ids
    BY ElementTypes DEF Positions
  <2> QED
    BY <1>3, <1>7, <1>9, <2>1 DEF SortInv, ListedOnce, InputsFirst
<1> QED
  BY <1>3, <1>10, <1>11, <1>12, <1>13, <1>14, <1>15, <1>16 DEF SortInv

\* dfs returns at once from a visited input, which by then is listed.
LEMMA SkipSort ==
  ASSUME TypeOK, SortInv, SkipVisited
  PROVE  SortInv'
<1> USE DEF Slots
<1> DEFINE n == Len(stack)
<1>1. stack # <<>> /\ Top.next \in Slots(Top.id) /\ Child \in visited /\ stack' = Advanced
  BY DEF SkipVisited
<1>2. /\ Len(stack') = n /\ n \in Nat \ {0}
      /\ \A k \in 1 .. n : stack'[k].id = stack[k].id
      /\ \A k \in 1 .. n : k # n => stack'[k] = stack[k]
      /\ stack'[n].next = Top.next + 1
      /\ stack' \in Seq(Frame)
  BY <1>1, AdvancedFacts, TopFacts DEF Frames
<1>3. inputs' = inputs /\ result' = result /\ visited' = visited /\ pc' = pc /\ pc = "sort"
  BY DEF SkipVisited
<1>4. Top = stack[n] /\ Child = inputs[stack[n].id][stack[n].next]
  BY DEF Top, Child
<1>5. \A k \in Frames : stack[k].id \in Ids /\ stack[k].next \in Nat \ {0}
  BY ElementTypes
<1>6. Frames' = 1 .. n /\ Frames = 1 .. n /\ Positions' = Positions
  BY <1>2, <1>3 DEF Frames, Positions
<1>7. \A id : (Listed(id)' <=> Listed(id)) /\ (Open(id)' <=> Open(id))
  BY <1>2, <1>3, <1>6 DEF Listed, Open
<1>8. stack' # <<>> /\ Loss' = Loss
  BY <1>2, EmptySeq DEF Loss
<1> HIDE DEF n
<1>9. StackAges' /\ OpenNotListed'
  BY <1>2, <1>6, <1>7 DEF SortInv, StackAges, OpenNotListed
<1>10. StackLinked'
  <2>1. \A k \in 1 .. n - 1 : k \in 1 .. n /\ k + 1 \in 1 .. n /\ k # n
    BY <1>2
  <2> QED
    BY <1>1, <1>2, <1>3, <1>8, <2>1, SMTT(30) DEF SortInv, StackLinked, n
<1>11. VisitedIsKnown' /\ KnownIsVisited'
  BY <1>2, <1>3, <1>6, <1>7 DEF SortInv, VisitedIsKnown, KnownIsVisited
<1>12. PassedListed'
  <2> SUFFICES ASSUME NEW k \in 1 .. n, NEW s \in Slots(stack'[k].id),
                      s < stack'[k].next
               PROVE  \/ Listed(inputs[stack'[k].id][s])
                      \/ k < n /\ s = stack'[k].next - 1
    BY <1>2, <1>3, <1>6, <1>7 DEF PassedListed
  <2>1. CASE k = n
    <3>1. s = Top.next \/ s < Top.next
      BY <1>1, <1>2, <2>1
    <3>2. Listed(Child)
      BY <1>1, VisitedChildListed
    <3>3. s < Top.next => Listed(inputs[stack[n].id][s])
      BY <1>2, <1>4, <1>6, <2>1 DEF SortInv, PassedListed, n
    <3> QED
      BY <1>2, <1>4, <2>1, <3>1, <3>2, <3>3
  <2>2. CASE k # n
    BY <1>2, <1>6, <2>2 DEF SortInv, PassedListed, n
  <2> QED
    BY <2>1, <2>2
<1>13. ReadLater'
  BY <1>1, <1>2, <1>3, <1>6, <1>8, SMTT(30) DEF SortInv, ReadLater
<1>14. ListedOnce' /\ InputsFirst'
  BY <1>3, <1>6 DEF SortInv, ListedOnce, InputsFirst
<1> QED
  BY <1>3, <1>9, <1>10, <1>11, <1>12, <1>13, <1>14 DEF SortInv

\* When the top returns, all of its inputs are listed, for there is no call above it.
LEMMA FinishSort ==
  ASSUME TypeOK, SortInv, Finish
  PROVE  SortInv'
<1> USE DEF Slots
<1> DEFINE n == Len(stack)
           m == Len(result)
<1>1. stack # <<>> /\ Top.next \notin Slots(Top.id)
  BY DEF Finish
<1>2. /\ Len(stack') = n - 1 /\ n \in Nat \ {0} /\ stack' \in Seq(Frame)
      /\ \A k \in 1 .. n - 1 : stack'[k] = stack[k]
  BY <1>1, PopFacts, TopFacts DEF Finish
<1>3. /\ inputs' = inputs /\ visited' = visited /\ pc' = pc /\ pc = "sort"
  BY DEF Finish
<1>4. PICK t \in Ids : t = Top.id /\ t = stack[n].id
  BY <1>1, TopFacts DEF Top
<1>5. /\ Len(result') = m + 1 /\ m \in Nat /\ result' \in Seq(Ids)
      /\ \A i \in 1 .. m : result'[i] = result[i]
      /\ result'[m + 1] = t
  BY <1>4, ResultFacts, ElementTypes DEF Finish, Positions
<1>6. /\ Frames' = 1 .. n - 1 /\ Frames = 1 .. n
      /\ Positions' = 1 .. m + 1 /\ Positions = 1 .. m
  BY <1>2, <1>5 DEF Frames, Positions
<1>7. \A id : Listed(id)' <=> (Listed(id) \/ id = t)
  BY <1>5, <1>6 DEF Listed
<1>8. ~Listed(t)
  BY <1>2, <1>4, <1>6 DEF SortInv, OpenNotListed
<1>9. \A s \in Slots(t) : \E j \in 1 .. m : result[j] = inputs[t][s]
  <2>1. TAKE s \in Slots(t)
  <2>2. s < Top.next
    BY <1>1, <1>4, TopFacts
  <2>3. Listed(inputs[t][s])
    BY <1>2, <1>4, <1>6, <2>2 DEF SortInv, PassedListed, Top, n
  <2> QED
    BY <1>6, <2>3 DEF Listed
<1>10. Loss' = Loss
  BY DEF Loss
<1> HIDE DEF n, m
<1>11. \A k \in Frames' : k \in Frames /\ k < n /\ stack'[k] = stack[k]
  BY <1>2, <1>6
<1>12. StackAges'
  BY <1>11 DEF SortInv, StackAges
<1>13. OpenNotListed'
  <2>1. \A k \in Frames' : stack[k].id # t
    <3>1. n \in Frames
      BY <1>2, <1>6
    <3>2. \A k \in Frames' : t < stack[k].id /\ stack[k].id \in Ids
      BY <1>4, <1>11, <3>1, ElementTypes DEF SortInv, StackAges
    <3> QED
      BY <3>2, BackwardAssumption DEF Ids
  <2> QED
    BY <1>7, <1>11, <2>1 DEF SortInv, OpenNotListed
<1>14. StackLinked'
  <2>1. \A k \in 1 .. n - 2 : k \in 1 .. n - 1 /\ k + 1 \in 1 .. n - 1
    BY <1>2
  <2>2. \A k \in 1 .. Len(stack') - 1 :
          /\ stack'[k].next - 1 \in Slots(stack'[k].id)
          /\ inputs[stack'[k].id][stack'[k].next - 1] = stack'[k + 1].id
    BY <1>2, <2>1 DEF SortInv, StackLinked, n
  <2>3. ASSUME stack' # <<>> PROVE stack'[1].id = Loss
    <3>1. 1 \in 1 .. n - 1
      BY <1>2, <2>3, EmptySeq
    <3> QED
      BY <1>1, <1>2, <3>1 DEF SortInv, StackLinked
  <2>4. ASSUME stack' = <<>> PROVE result' # <<>> /\ result'[Len(result')] = Loss
    <3>1. n = 1
      BY <1>2, <2>4, EmptySeq
    <3>2. t = Loss
      BY <1>1, <1>4, <3>1 DEF SortInv, StackLinked
    <3> QED
      BY <1>5, <3>2, EmptySeq
  <2> QED
    BY <1>3, <1>10, <2>2, <2>3, <2>4 DEF StackLinked, LossLast
<1>15. VisitedIsKnown' /\ KnownIsVisited'
  <2>1. \A id : Open(id) => Open(id)' \/ id = t
    BY <1>2, <1>4, <1>6 DEF Open
  <2>2. t \in visited
    BY <1>2, <1>4, <1>6 DEF SortInv, KnownIsVisited
  <2>3. VisitedIsKnown'
    BY <1>3, <1>7, <2>1 DEF SortInv, VisitedIsKnown
  <2>4. KnownIsVisited'
    BY <1>3, <1>5, <1>6, <1>11, <2>2 DEF SortInv, KnownIsVisited
  <2> QED
    BY <2>3, <2>4
<1>16. PassedListed'
  <2> SUFFICES ASSUME NEW k \in 1 .. n - 1, NEW s \in Slots(stack[k].id),
                      s < stack[k].next
               PROVE  \/ Listed(inputs[stack[k].id][s]) \/ inputs[stack[k].id][s] = t
                      \/ k < n - 1 /\ s = stack[k].next - 1
    BY <1>2, <1>3, <1>6, <1>7 DEF PassedListed
  <2>1. CASE Listed(inputs[stack[k].id][s])
    BY <2>1
  <2>2. CASE s = stack[k].next - 1
    <3>1. inputs[stack[k].id][s] = stack[k + 1].id
      BY <2>2 DEF SortInv, StackLinked, n
    <3> QED
      BY <1>2, <1>4, <2>2, <3>1
  <2> QED
    BY <1>2, <1>6, <2>1, <2>2 DEF SortInv, PassedListed
<1>17. ReadLater'
  <2>0. Len(result') = m + 1 /\ stack \in Seq(Frame)
    BY <1>5 DEF TypeOK, Frame
  <2>1. \A i \in 1 .. m : \A j \in i + 1 .. m : j \in 1 .. m /\ j \in i + 1 .. m + 1
    BY <1>5
  <2>2. \A i \in 1 .. m :
          \/ \E j \in i + 1 .. m + 1 : \E s \in Slots(result'[j]) :
               inputs[result'[j]][s] = result'[i]
          \/ \E k \in 1 .. n - 1 : \E s \in Slots(stack'[k].id) :
               inputs[stack'[k].id][s] = result'[i]
    <3> TAKE i \in 1 .. m
    <3>1. CASE \E j \in i + 1 .. m : \E s \in Slots(result[j]) :
                 inputs[result[j]][s] = result[i]
      BY <1>5, <2>1, <3>1
    <3>2. CASE \E k \in Frames : \E s \in Slots(stack[k].id) :
                 inputs[stack[k].id][s] = result[i]
      <4>1. PICK k \in Frames : \E s \in Slots(stack[k].id) :
                                inputs[stack[k].id][s] = result[i]
        BY <3>2
      <4>2. CASE k = n
        <5>1. m + 1 \in i + 1 .. m + 1
          BY <1>5
        <5>2. \E s \in Slots(t) : inputs[t][s] = result[i]
          BY <1>4, <4>1, <4>2
        <5>3. result'[m + 1] = t /\ result'[i] = result[i]
          BY <1>5
        <5>4. \E s \in Slots(result'[m + 1]) : inputs[result'[m + 1]][s] = result'[i]
          BY <5>2, <5>3
        <5> HIDE DEF Slots
        <5> QED
          BY <5>1, <5>4
      <4>3. CASE k # n
        <5>1. k \in 1 .. n - 1
          BY <1>2, <1>6, <4>3
        <5>2. stack'[k] = stack[k] /\ result'[i] = result[i]
          BY <1>2, <1>5, <5>1
        <5>3. \E s \in Slots(stack'[k].id) : inputs[stack'[k].id][s] = result'[i]
          BY <4>1, <5>2
        <5> HIDE DEF Slots
        <5> QED
          BY <5>1, <5>3
      <4> QED
        BY <4>2, <4>3
    <3> QED
      BY <1>1, <1>6, <3>1, <3>2 DEF SortInv, ReadLater, m
  <2>3. \/ t = Loss /\ stack' = <<>>
        \/ \E k \in 1 .. n - 1 : \E s \in Slots(stack'[k].id) : inputs[stack'[k].id][s] = t
    <3>1. CASE n = 1
      <4>1. stack' = <<>>
        BY <1>2, <3>1, EmptySeq
      <4>2. t = Loss
        BY <1>1, <1>4, <3>1 DEF SortInv, StackLinked
      <4> QED
        BY <4>1, <4>2
    <3>2. CASE n # 1
      <4>1. n - 1 \in 1 .. n - 1
        BY <1>2, <3>2
      <4>2. /\ stack[n - 1].next - 1 \in Slots(stack[n - 1].id)
            /\ inputs[stack[n - 1].id][stack[n - 1].next - 1] = stack[n - 1 + 1].id
        BY <4>1 DEF SortInv, StackLinked, n
      <4>3. n - 1 + 1 = n
        BY <1>2
      <4> QED
        BY <1>2, <1>4, <4>1, <4>2, <4>3
    <3> QED
      BY <3>1, <3>2
  <2>4. \A i \in 1 .. m + 1 : i = m + 1 \/ i \in 1 .. m
    BY <1>5
  <2>5. \A i \in 1 .. m + 1 :
          \/ i = m + 1 /\ result'[i] = Loss /\ stack' = <<>>
          \/ \E j \in i + 1 .. m + 1 : \E s \in Slots(result'[j]) :
               inputs[result'[j]][s] = result'[i]
          \/ \E k \in 1 .. n - 1 : \E s \in Slots(stack'[k].id) :
               inputs[stack'[k].id][s] = result'[i]
    <3> TAKE i \in 1 .. m + 1
    <3>1. CASE i = m + 1
      BY <1>5, <2>3, <3>1
    <3>2. CASE i \in 1 .. m
      BY <2>2, <3>2
    <3> QED
      BY <2>4, <3>1, <3>2
  <2> SUFFICES ASSUME NEW i \in 1 .. m + 1
               PROVE  (\/ i = Len(result) /\ result[i] = Loss /\ stack = <<>>
                       \/ \E j \in i + 1 .. Len(result) : \E s \in Slots(result[j]) :
                            inputs[result[j]][s] = result[i]
                       \/ \E k \in Frames : \E s \in Slots(stack[k].id) :
                            inputs[stack[k].id][s] = result[i])'
    BY <1>6 DEF ReadLater
  <2>6. CASE i = m + 1 /\ result'[i] = Loss /\ stack' = <<>>
    BY <1>10, <2>0, <2>6
  <2>7. ASSUME NEW j \in i + 1 .. m + 1, NEW s \in Slots(result'[j]),
               inputs[result'[j]][s] = result'[i]
        PROVE  \E jj \in i + 1 .. Len(result') : \E ss \in Slots(result[jj])' :
                 inputs'[result'[jj]][ss] = result'[i]
    BY <1>3, <2>0, <2>7
  <2>8. ASSUME NEW k \in 1 .. n - 1, NEW s \in Slots(stack'[k].id),
               inputs[stack'[k].id][s] = result'[i]
        PROVE  \E kk \in Frames' : \E ss \in Slots(stack[kk].id)' :
                 inputs'[stack'[kk].id][ss] = result'[i]
    BY <1>3, <1>6, <2>8
  <2> QED
    BY <2>5, <2>6, <2>7, <2>8
<1>18. ListedOnce'
  <2>1. \A i \in 1 .. m + 1 : i = m + 1 \/ i \in 1 .. m
    BY <1>5
  <2>2. \A i \in 1 .. m : result[i] # t
    BY <1>6, <1>8 DEF Listed
  <2> QED
    BY <1>5, <1>6, <2>1, <2>2 DEF SortInv, ListedOnce
<1>19. InputsFirst'
  <2>1. ASSUME NEW i \in 1 .. m + 1, NEW s \in Slots(result'[i])
        PROVE  \E j \in 1 .. i - 1 : result'[j] = inputs[result'[i]][s]
    <3>1. CASE i = m + 1
      <4>1. PICK j \in 1 .. m : result[j] = inputs[t][s]
        BY <1>5, <1>9, <2>1, <3>1
      <4>2. j \in 1 .. i - 1
        BY <1>5, <3>1
      <4> QED
        BY <1>5, <3>1, <4>1, <4>2
    <3>2. CASE i # m + 1
      <4>1. i \in 1 .. m /\ result'[i] = result[i]
        BY <1>5, <3>2
      <4>2. PICK j \in 1 .. i - 1 : result[j] = inputs[result[i]][s]
        BY <1>6, <2>1, <4>1 DEF SortInv, InputsFirst
      <4>3. j \in 1 .. m
        BY <1>5, <4>1
      <4> QED
        BY <1>5, <4>1, <4>2, <4>3
    <3> QED
      BY <3>1, <3>2
  <2> QED
    BY <1>3, <1>6, <2>1 DEF InputsFirst
<1> QED
  BY <1>3, <1>12, <1>13, <1>14, <1>15, <1>16, <1>17, <1>18, <1>19 DEF SortInv

\* After the sort nothing of it changes any more.
LEMMA SortKept ==
  ASSUME TypeOK, SortInv, pc # "sort" \/ stack = <<>>,
         UNCHANGED <<inputs, stack, visited, result>>
  PROVE  SortInv'
<1> USE DEF Slots
<1>1. stack' = <<>> /\ stack = <<>>
  BY DEF SortInv
<1>2. Frames' = Frames /\ Positions' = Positions /\ Loss' = Loss
  BY DEF Frames, Positions, Loss
<1>3. \A id : (Listed(id)' <=> Listed(id)) /\ (Open(id)' <=> Open(id))
  BY <1>2 DEF Listed, Open
<1>4. (StackAges /\ OpenNotListed /\ StackLinked)'
  BY <1>2, <1>3 DEF SortInv, StackAges, OpenNotListed, StackLinked, LossLast
<1>5. (VisitedIsKnown /\ KnownIsVisited /\ PassedListed)'
  BY <1>2, <1>3 DEF SortInv, VisitedIsKnown, KnownIsVisited, PassedListed
<1>6. (ReadLater /\ ListedOnce /\ InputsFirst)'
  BY <1>2 DEF SortInv, ReadLater, ListedOnce, InputsFirst
<1> QED
  BY <1>1, <1>4, <1>5, <1>6 DEF SortInv

\* Every step keeps the bookkeeping of the sort.
LEMMA SortStep == TypeOK /\ SortInv /\ [Next]_vars => SortInv'
<1> SUFFICES ASSUME TypeOK, SortInv, [Next]_vars PROVE SortInv'
  OBVIOUS
<1>1. CASE Visit \/ SkipVisited \/ Finish
  BY <1>1, VisitSort, SkipSort, FinishSort
<1>2. CASE Sorted
  BY <1>2, SortKept DEF Sorted
<1>3. CASE Mark \/ Marked
  BY <1>3, SortKept DEF Mark, Marked
<1>4. CASE SkipNode \/ Leaf \/ Backprop
  BY <1>4, SortKept DEF SkipNode, Leaf, Backprop, Reading
<1>5. CASE Accumulate \/ NodeDone \/ Fail \/ Return
  BY <1>5, SortKept DEF Accumulate, NodeDone, Fail, Return
<1>6. CASE UNCHANGED vars
  <2>1. UNCHANGED <<inputs, stack, visited, result, pc>>
    BY <1>6 DEF vars
  <2> USE DEF Slots
  <2>2. Frames' = Frames /\ Positions' = Positions /\ Loss' = Loss
    BY <2>1 DEF Frames, Positions, Loss
  <2>3. \A id : (Listed(id)' <=> Listed(id)) /\ (Open(id)' <=> Open(id))
    BY <2>1, <2>2 DEF Listed, Open
  <2>4. (StackAges /\ OpenNotListed /\ StackLinked)'
    BY <2>1, <2>2, <2>3 DEF SortInv, StackAges, OpenNotListed, StackLinked, LossLast
  <2>5. (VisitedIsKnown /\ KnownIsVisited /\ PassedListed)'
    BY <2>1, <2>2, <2>3 DEF SortInv, VisitedIsKnown, KnownIsVisited, PassedListed
  <2>6. (ReadLater /\ ListedOnce /\ InputsFirst)'
    BY <2>1, <2>2 DEF SortInv, ReadLater, ListedOnce, InputsFirst
  <2> QED
    BY <2>1, <2>4, <2>5, <2>6 DEF SortInv
<1> QED
  BY <1>1, <1>2, <1>3, <1>4, <1>5, <1>6 DEF Next
-----------------------------------------------------------------------------
(***************************************************************************)
(* The sweep                                                               *)
(***************************************************************************)
\* A hook is only called for the leaf the sweep is leaving behind (on_leaf_grad_ready).
LEMMA HooksStep == TypeOK /\ HooksPassed /\ [Next]_vars => HooksPassed'
<1> SUFFICES ASSUME TypeOK, HooksPassed, [Next]_vars PROVE HooksPassed'
  OBVIOUS
<1>1. pos \in Nat /\ Len(result) \in Nat
  BY ElementTypes DEF TypeOK
<1>2. CASE pc \in {"sort", "mark"} /\ UNCHANGED hooks
  <2>1. hooks = <<>> /\ Len(hooks) = 0
    BY <1>2 DEF HooksPassed
  <2> QED
    BY <1>2, <2>1 DEF HooksPassed
<1>3. ASSUME UNCHANGED <<hooks, result>>, pos' = pos \/ pos' = pos - 1, pc \notin {"sort", "mark"},
             pc' \notin {"sort", "mark"}
      PROVE  HooksPassed'
  BY <1>1, <1>3 DEF HooksPassed
<1>4. CASE Leaf
  <2>1. pos \in Positions /\ pos' = pos - 1 /\ result' = result /\ pc' = pc /\ pc = "reverse"
    BY <1>4 DEF Leaf, Reading
  <2>2. hooks \in Seq(Ids) /\ Node \in Ids
    BY <2>1, ElementTypes DEF TypeOK, Node
  <2>3. CASE hooks' = hooks
    BY <1>3, <2>1, <2>3
  <2>4. CASE hooks' = Append(hooks, Node)
    <3>1. /\ Len(hooks') = Len(hooks) + 1 /\ hooks'[Len(hooks) + 1] = result[pos]
          /\ \A i \in 1 .. Len(hooks) : hooks'[i] = hooks[i]
      BY <2>2, <2>4, AppendProperties DEF Node
    <3>2. Len(hooks) \in Nat
      BY <2>2
    <3>3. \A i \in 1 .. Len(hooks') : \E p \in pos' + 1 .. Len(result') : result'[p] = hooks'[i]
      <4>1. \A i \in 1 .. Len(hooks') : i = Len(hooks) + 1 \/ i \in 1 .. Len(hooks)
        BY <3>1, <3>2
      <4>2. pos \in pos' + 1 .. Len(result')
        BY <1>1, <2>1 DEF Positions
      <4>3. \A p \in pos + 1 .. Len(result) : p \in pos' + 1 .. Len(result')
        BY <1>1, <2>1
      <4> QED
        BY <2>1, <3>1, <4>1, <4>2, <4>3 DEF HooksPassed
    <3> QED
      BY <2>1, <3>3 DEF HooksPassed
  <2> QED
    BY <1>4, <2>3, <2>4 DEF Leaf
<1>5. CASE Visit \/ SkipVisited \/ Finish \/ Sorted \/ Mark \/ Marked
  BY <1>2, <1>5 DEF Visit, SkipVisited, Finish, Sorted, Mark, Marked
<1>6. CASE SkipNode \/ Backprop \/ Accumulate \/ NodeDone \/ Fail \/ Return
  BY <1>3, <1>6 DEF SkipNode, Backprop, Reading, Accumulate, NodeDone, Fail, Return
<1>7. CASE UNCHANGED vars
  BY <1>7 DEF vars, HooksPassed
<1> QED
  BY <1>4, <1>5, <1>6, <1>7 DEF Next

\* Contributions go to inputs of the node at pos, which are listed before it;
\* the hooked leaves are listed behind it, and nothing is listed twice.
LEMMA GradientStep ==
  IInv /\ [Next]_vars => \A i \in 1 .. Len(hooks) : store'[hooks[i]] = store[hooks[i]]
<1> SUFFICES ASSUME IInv, [Next]_vars, NEW i \in 1 .. Len(hooks)
             PROVE  store'[hooks[i]] = store[hooks[i]]
  OBVIOUS
<1>1. CASE Accumulate
  <2> DEFINE id == inputs[Node][slot]
  <2>1. pos \in Positions /\ slot \in Slots(Node)
    BY <1>1 DEF Accumulate, IInv, TypeOK
  <2>2. PICK j \in 1 .. pos - 1 : result[j] = id
    BY <2>1 DEF IInv, SortInv, InputsFirst, Node
  <2>3. PICK p \in pos + 1 .. Len(result) : result[p] = hooks[i]
    BY DEF IInv, HooksPassed
  <2>4. j \in Positions /\ p \in Positions /\ j # p
    BY <2>1, <2>2, <2>3, ElementTypes DEF IInv, Positions
  <2>5. id # hooks[i]
    BY <2>2, <2>3, <2>4 DEF IInv, SortInv, ListedOnce
  <2>6. store' = store \/ store' = [store EXCEPT ![id] = Append(@, <<Node, slot>>)]
    BY <1>1 DEF Accumulate
  <2>7. DOMAIN store = Ids /\ hooks[i] \in Ids
    <3>1. hooks \in Seq(Ids)
      BY DEF IInv, TypeOK
    <3> QED
      BY <3>1, ElementOfSeq DEF IInv, TypeOK
  <2> HIDE DEF id
  <2> QED
    BY <2>5, <2>6, <2>7
<1>2. CASE store' = store
  BY <1>2
<1> QED
  BY <1>1, <1>2 DEF Next, vars, Visit, SkipVisited, Finish, Sorted, Mark, Marked, SkipNode,
     Leaf, Backprop, NodeDone, Fail, Return
-----------------------------------------------------------------------------
\* The inductive invariant of backward: types, the bookkeeping of the sort, and
\* the hooked leaves being behind the sweep.
THEOREM BackwardInvariant == Spec => []IInv
<1>1. IInv /\ [Next]_vars => IInv'
  BY TypeStep, SortStep, HooksStep DEF IInv
<1> QED
  BY InitIInv, <1>1, PTL DEF Spec

\* topological_sort: when it is over, topo_order lists every node of the graph
\* under the loss exactly once, inputs first, and nothing else.
THEOREM TopologicalOrder == Spec => []TopoOrder
<1>1. IInv => TopoOrder
  <2> SUFFICES ASSUME IInv PROVE TopoOrder
    OBVIOUS
  <2>1. ListedOnce /\ InputsFirst
    BY DEF IInv, SortInv
  <2>2. ASSUME pc # "sort" PROVE LossLast /\ EachIsRead
    <3>1. stack = <<>> /\ Frames = {}
      BY <2>2 DEF IInv, SortInv, Frames
    <3>2. LossLast
      BY <3>1 DEF IInv, SortInv, StackLinked
    <3>3. \A i \in 1 .. Len(result) - 1 : i \in Positions /\ i # Len(result)
      BY ElementTypes DEF IInv, Positions
    <3>4. EachIsRead
      BY <3>1, <3>3 DEF IInv, SortInv, ReadLater, EachIsRead
    <3> QED
      BY <3>2, <3>4
  <2> QED
    BY <2>1, <2>2 DEF TopoOrder
<1> QED
  BY BackwardInvariant, <1>1, PTL

\* BackwardHook's contract: the gradient a hook was called with is complete.
THEOREM HookedGradientIsFinal == Spec => NoLateGradient
<1>1. IInv /\ [Next]_vars =>
        [\A i \in 1 .. Len(hooks) : store'[hooks[i]] = store[hooks[i]]]_vars
  BY GradientStep
<1> QED
  BY BackwardInvariant, <1>1, PTL DEF Spec, NoLateGradient
-----------------------------------------------------------------------------
(***************************************************************************)
(* What the sweep adds up                                                  *)
(***************************************************************************)
\* The slots whose contribution the sweep has dealt with.
Passed(e) ==
  \E i \in Positions :
    /\ result[i] = e[1]
    /\ (i > pos) \/ (i = pos /\ pc = "accumulate" /\ e[2] < slot)

\* is_needed: everything without wanted ids; otherwise the nodes on a path to one,
\* and while they are marked, those so far.
MarkInv ==
  /\ pc # "sort" /\ mode # "wrt" => needed = Ids /\ wanted = {}
  /\ pc = "mark" => /\ mode = "wrt" /\ pos >= 1
                    /\ \A id \in needed : \E j \in Positions : j < pos /\ result[j] = id
  /\ pc # "sort" /\ mode = "wrt" =>
       \A i \in Positions : i < pos \/ pc # "mark" => (result[i] \in needed <=> OnPath(result[i]))

\* A node whose backward was called is one a gradient has reached.
NodeInv ==
  /\ pc = "accumulate" => slot >= 1 /\ inputs[Node] # <<>> /\ Node \in needed /\ Node \in Flows
  /\ pc = "done" => pos = 0

\* A gradient is the sum of what was passed, in order; what is pruned gets nothing.
StoreInv ==
  /\ pc \in {"sort", "mark"} => store = [id \in Ids |-> IF id = Loss THEN <<Seed>> ELSE <<>>]
  /\ store[Loss] = <<Seed>>
  /\ \A id \in Ids \ {Loss} : id \notin needed => store[id] = <<>>
  /\ Sweeping => \A id \in needed \ {Loss} :
       Lists(store[id], {e \in Contributions(id) : Passed(e)})

\* The leaves that were passed, are wanted and have a gradient.
IsDue(id) == inputs[id] = <<>> /\ id \in Flows /\ (mode = "wrt" => id \in wanted)
DueHooks == {id \in {result[i] : i \in Positions \cap (pos + 1 .. Len(result))} : IsDue(id)}
HookInv ==
  Sweeping /\ mode # "graph" =>
    /\ \A i, j \in 1 .. Len(hooks) : hooks[i] = hooks[j] => i = j
    /\ {hooks[i] : i \in 1 .. Len(hooks)} = DueHooks

SumInv == MarkInv /\ NodeInv /\ StoreInv /\ HookInv
-----------------------------------------------------------------------------
\* The slots of the graph are the input positions of its nodes.
LEMMA SlotFacts ==
  ASSUME TypeOK
  PROVE  /\ \A id \in Ids : \A s \in Slots(id) :
              /\ <<id, s>> \in AllSlots /\ s \in Nat /\ s >= 1
              /\ inputs[id][s] \in Ids /\ inputs[id][s] < id
         /\ \A e \in AllSlots : e[1] \in Ids /\ e[2] \in Slots(e[1]) /\ e = <<e[1], e[2]>>
<1>1. ASSUME NEW id \in Ids, NEW s \in Slots(id)
      PROVE  /\ <<id, s>> \in AllSlots /\ s \in Nat /\ s >= 1
             /\ inputs[id][s] \in Ids /\ inputs[id][s] < id
  <2>1. inputs[id] \in Seq(Ids)
    BY DEF TypeOK
  <2>2. inputs[id][s] \in Ids
    BY <2>1, <1>1, ElementOfSeq DEF Slots
  <2>3. s \in Nat /\ s >= 1
    BY <2>1, LenProperties DEF Slots
  <2>4. <<id, s>> \in {id} \X Slots(id)
    OBVIOUS
  <2>5. <<id, s>> \in AllSlots
    BY <2>4 DEF AllSlots
  <2> QED
    BY <2>2, <2>3, <2>5 DEF TypeOK
<1>2. ASSUME NEW e \in AllSlots
      PROVE  e[1] \in Ids /\ e[2] \in Slots(e[1]) /\ e = <<e[1], e[2]>>
  <2>1. PICK id \in Ids : e \in {id} \X Slots(id)
    BY DEF AllSlots
  <2> QED
    BY <2>1
<1> QED
  BY <1>1, <1>2

\* The numbers the sweep counts with, and the nodes it deals with.
LEMMA SweepTypes ==
  ASSUME IInv
  PROVE  /\ TypeOK /\ pos \in Nat /\ slot \in Nat /\ Len(result) \in Nat
         /\ \A i \in Positions : result[i] \in Ids
         /\ \A id \in needed : id \in Ids
<1>1. TypeOK
  BY DEF IInv
<1>2. \A id \in needed : id \in Ids
  BY <1>1 DEF TypeOK
<1>3. pos \in Nat /\ slot \in Nat
  BY <1>1, ElementTypes DEF TypeOK
<1> QED
  BY <1>1, <1>2, <1>3, ElementTypes

\* The loss is reached.
LEMMA LossReached == ASSUME NEW E PROVE Loss \in Reached(E)
<1>1. Loss \in Ids
  BY BackwardAssumption DEF Loss, Ids
<1> QED
  BY <1>1 DEF Reached, Closed

\* What an edge leads to from a reached node is reached.
LEMMA ReachedNext ==
  ASSUME TypeOK, NEW E \in SUBSET AllSlots, NEW e \in E, e[1] \in Reached(E)
  PROVE  inputs[e[1]][e[2]] \in Reached(E)
<1>1. inputs[e[1]][e[2]] \in Ids
  BY SlotFacts
<1> QED
  BY <1>1 DEF Reached, Closed

\* Every reached node but the loss is reached by an edge from one: without it the
\* set would still be closed.
LEMMA ReachedFrom ==
  ASSUME TypeOK, NEW E \in SUBSET AllSlots, NEW x \in Reached(E), x # Loss
  PROVE  \E e \in E : e[1] \in Reached(E) /\ inputs[e[1]][e[2]] = x
<1> DEFINE S == Reached(E) \ {x}
<1> SUFFICES ASSUME \A e \in E : e[1] \in Reached(E) => inputs[e[1]][e[2]] # x
             PROVE  FALSE
  OBVIOUS
<1>1. S \in SUBSET Ids
  BY DEF Reached
<1>2. Loss \in S
  BY LossReached
<1>3. \A e \in E : e[1] \in S => inputs[e[1]][e[2]] \in S
  BY ReachedNext
<1>4. Closed(S, E)
  BY <1>2, <1>3 DEF Closed
<1>5. x \in S
  BY <1>1, <1>4 DEF Reached
<1> QED
  BY <1>5

\* topo_order is closed: whatever is reached is listed.
LEMMA ReachedListed ==
  ASSUME IInv, pc # "sort", NEW E \in SUBSET AllSlots, NEW x \in Reached(E)
  PROVE  x \in Ids /\ \E i \in Positions : result[i] = x
<1> DEFINE S == {result[i] : i \in Positions}
<1>0. TypeOK
  BY DEF IInv
<1>1. S \in SUBSET Ids
  BY <1>0, ElementTypes
<1>2. Loss \in S
  <2>1. stack = <<>> /\ LossLast
    BY DEF IInv, SortInv, StackLinked
  <2>2. result \in Seq(Ids) /\ result # <<>>
    BY <2>1, <1>0 DEF LossLast, TypeOK
  <2>3. Len(result) \in Positions
    BY <2>2, EmptySeq DEF Positions
  <2> QED
    BY <2>1, <2>3 DEF LossLast
<1>3. ASSUME NEW e \in E, e[1] \in S PROVE inputs[e[1]][e[2]] \in S
  <2>1. PICK i \in Positions : result[i] = e[1]
    BY <1>3
  <2>2. e[2] \in Slots(result[i])
    BY <1>0, <2>1, SlotFacts
  <2>3. PICK j \in 1 .. i - 1 : result[j] = inputs[result[i]][e[2]]
    BY <2>2 DEF IInv, SortInv, InputsFirst
  <2>4. j \in Positions
    BY <1>0, <2>3, ElementTypes DEF Positions
  <2> QED
    BY <2>1, <2>3, <2>4
<1>4. Closed(S, E)
  BY <1>2, <1>3 DEF Closed
<1>5. x \in S
  BY <1>1, <1>4 DEF Reached
<1> QED
  BY <1>1, <1>5

\* The contributions of a node that is not the loss come from the flows' slots.
LEMMA ContributionFacts ==
  ASSUME TypeOK, NEW id \in Ids, id # Loss, NEW e \in Contributions(id)
  PROVE  /\ e \in AllSlots /\ e \notin silent /\ e[1] \in Flows /\ inputs[e[1]][e[2]] = id
         /\ e[1] \in Ids /\ e[2] \in Slots(e[1]) /\ e = <<e[1], e[2]>>
<1>1. e \in AllSlots /\ e \notin silent /\ e[1] \in Flows /\ inputs[e[1]][e[2]] = id
  BY DEF Contributions
<1> QED
  BY <1>1, SlotFacts

\* A node other than the loss is reached by a gradient if and only if something
\* is contributed to it.
LEMMA FlowsContributed ==
  ASSUME TypeOK, NEW id \in Ids, id # Loss
  PROVE  id \in Flows <=> Contributions(id) # {}
<1> DEFINE E == AllSlots \ silent
<1>1. E \in SUBSET AllSlots /\ Flows = Reached(E)
  BY DEF Flows
<1>2. ASSUME id \in Flows PROVE Contributions(id) # {}
  <2>1. PICK e \in E : e[1] \in Reached(E) /\ inputs[e[1]][e[2]] = id
    BY <1>1, <1>2, ReachedFrom
  <2>2. e \in Contributions(id)
    BY <1>1, <2>1 DEF Contributions
  <2> QED
    BY <2>2
<1>3. ASSUME NEW e \in Contributions(id) PROVE id \in Flows
  <2>1. e \in E /\ e[1] \in Reached(E) /\ inputs[e[1]][e[2]] = id
    BY <1>1, ContributionFacts
  <2> QED
    BY <1>1, <2>1, ReachedNext
<1> QED
  BY <1>2, <1>3

\* The consumers a gradient comes from are listed behind the node: once the
\* sweep is at the node, all its contributions are passed.
LEMMA AllPassed ==
  ASSUME IInv, Sweeping, NEW i \in Positions, i >= pos, result[i] # Loss,
         NEW e \in Contributions(result[i])
  PROVE  Passed(e)
<1>0. TypeOK /\ pos \in Nat /\ Len(result) \in Nat /\ result[i] \in Ids
  BY SweepTypes
<1>1. e[1] \in Flows /\ inputs[e[1]][e[2]] = result[i] /\ e[2] \in Slots(e[1])
  BY <1>0, ContributionFacts
<1>2. PICK j \in Positions : result[j] = e[1]
  BY <1>1, ReachedListed DEF Sweeping, Flows
<1>3. PICK k \in 1 .. j - 1 : result[k] = inputs[result[j]][e[2]]
  BY <1>1, <1>2 DEF IInv, SortInv, InputsFirst
<1>4. k \in Positions
  BY <1>0, <1>3 DEF Positions
<1>5. k = i
  BY <1>1, <1>2, <1>3, <1>4 DEF IInv, SortInv, ListedOnce
<1>6. j > pos
  BY <1>0, <1>3, <1>5 DEF Positions
<1> QED
  BY <1>2, <1>6 DEF Passed

\* A gradient that is read is complete, and it is there if and only if one flows
\* to the node.
LEMMA ReadIsExact ==
  ASSUME IInv, StoreInv, Sweeping, NEW i \in Positions, i >= pos, result[i] \in needed
  PROVE  /\ Exact(result[i])
         /\ store[result[i]] # <<>> <=> result[i] \in Flows
<1>0. TypeOK /\ result[i] \in Ids
  BY ElementTypes DEF IInv
<1>1. CASE result[i] = Loss
  <2>1. store[Loss] = <<Seed>> /\ Loss \in Flows
    BY LossReached DEF StoreInv, Flows
  <2>2. ASSUME NEW e \in AllSlots, inputs[e[1]][e[2]] = Loss PROVE FALSE
    <3>1. e[1] \in Ids /\ Loss < e[1]
      BY <1>0, <2>2, SlotFacts
    <3> QED
      BY <3>1, BackwardAssumption DEF Ids, Loss
  <2>3. Contributions(Loss) = {Seed}
    BY <2>2 DEF Contributions
  <2>4. Lists(<<Seed>>, {Seed})
    BY DEF Lists
  <2> QED
    BY <1>1, <2>1, <2>3, <2>4 DEF Exact
<1>2. CASE result[i] # Loss
  <2> DEFINE id == result[i]
             C == {e \in Contributions(id) : Passed(e)}
  <2>1. C = Contributions(id)
    BY <1>2, AllPassed
  <2>2. Lists(store[id], C)
    BY <1>2 DEF StoreInv
  <2>3. Exact(id)
    BY <2>1, <2>2 DEF Exact
  <2>4. store[id] # <<>> <=> Contributions(id) # {}
    <3>1. store[id] \in Seq(Ids \X Nat)
      BY <1>0 DEF TypeOK
    <3>2. {store[id][k] : k \in 1 .. Len(store[id])} = Contributions(id)
      BY <2>3 DEF Exact, Lists
    <3>3. store[id] = <<>> <=> Len(store[id]) = 0
      BY <3>1, EmptySeq
    <3>4. Len(store[id]) \in Nat
      BY <3>1
    <3> HIDE DEF id
    <3>5. CASE store[id] = <<>>
      BY <3>2, <3>3, <3>5
    <3>6. CASE store[id] # <<>>
      <4>1. 1 \in 1 .. Len(store[id])
        BY <3>3, <3>4, <3>6
      <4> QED
        BY <3>2, <3>6, <4>1
    <3> QED
      BY <3>5, <3>6
  <2>5. id \in Flows <=> Contributions(id) # {}
    BY <1>0, <1>2, FlowsContributed
  <2> QED
    BY <2>3, <2>4, <2>5
<1> QED
  BY <1>1, <1>2
-----------------------------------------------------------------------------
\* is_needed answers as before while the graph, the ids and the answers stay.
LEMMA MarkKept ==
  ASSUME MarkInv, pc \notin {"sort", "mark"}, pc' \notin {"sort", "mark"},
         UNCHANGED <<inputs, mode, wanted, result, needed>>
  PROVE  MarkInv'
BY DEF MarkInv, OnPath, Slots, Positions

\* compute_needed: the marks of the inputs are made before the node's own.
LEMMA MarkStep == IInv /\ MarkInv /\ [Next]_vars => MarkInv'
<1> SUFFICES ASSUME IInv, MarkInv, [Next]_vars PROVE MarkInv'
  OBVIOUS
<1>0. TypeOK /\ pos \in Nat /\ Len(result) \in Nat
  BY SweepTypes
<1>1. CASE Visit \/ SkipVisited \/ Finish
  <2>1. pc' = "sort"
    BY <1>1 DEF Visit, SkipVisited, Finish
  <2> QED
    BY <2>1 DEF MarkInv
<1>2. CASE Sorted
  <2>1. /\ Positions' = Positions /\ pc' # "sort"
        /\ pc' = "mark" <=> mode' = "wrt"
        /\ mode' = "wrt" => pos' = 1 /\ needed' = {}
        /\ mode' # "wrt" => needed' = Ids /\ wanted' = {}
    BY <1>2 DEF Sorted, Positions
  <2>2. \A i \in Positions : ~(i < 1)
    BY <1>0 DEF Positions
  <2>3. (pc # "sort" /\ mode # "wrt" => needed = Ids /\ wanted = {})'
    BY <2>1 DEF Ids
  <2> QED
    BY <2>1, <2>2, <2>3 DEF MarkInv
<1>3. CASE Mark
  <2> DEFINE id == result[pos]
  <2>1. /\ pc = "mark" /\ mode = "wrt" /\ pos \in Positions /\ id \in Ids
        /\ \A x \in needed : \E j \in Positions : j < pos /\ result[j] = x
        /\ \A i \in Positions : i < pos => (result[i] \in needed <=> OnPath(result[i]))
    BY <1>0, <1>3, ElementTypes DEF Mark, MarkInv
  <2>2. /\ UNCHANGED <<inputs, mode, wanted, result, pc>> /\ pos' = pos + 1
        /\ needed' = IF OnPath(id) THEN needed \cup {id} ELSE needed
        /\ Positions' = Positions
    BY <1>3 DEF Mark, args, Positions
  <2>3. \A x \in needed' : \E j \in Positions' : j < pos' /\ result'[j] = x
    <3> SUFFICES ASSUME NEW x \in needed' PROVE \E j \in Positions : j < pos + 1 /\ result[j] = x
      BY <2>2
    <3>1. x \in needed \/ x = id
      BY <2>2
    <3>2. CASE x \in needed
      <4>1. PICK j \in Positions : j < pos /\ result[j] = x
        BY <2>1, <3>2
      <4> QED
        BY <1>0, <4>1 DEF Positions
    <3>3. CASE x = id
      <4>1. pos < pos + 1
        BY <1>0
      <4> QED
        BY <2>1, <3>3, <4>1
    <3> QED
      BY <3>1, <3>2, <3>3
  <2>4. id \notin needed
    <3> SUFFICES ASSUME id \in needed PROVE FALSE
      OBVIOUS
    <3>1. PICK j \in Positions : j < pos /\ result[j] = id
      BY <2>1
    <3>2. j = pos
      BY <2>1, <3>1 DEF IInv, SortInv, ListedOnce
    <3> QED
      BY <1>0, <3>1, <3>2
  \* No node listed so far reads the one marked now.
  <2>5. ASSUME NEW i \in Positions, i < pos + 1
        PROVE  OnPath(result[i])' <=> OnPath(result[i])
    <3>1. ASSUME NEW s \in Slots(result[i]) PROVE inputs[result[i]][s] # id
      <4>1. PICK j \in 1 .. i - 1 : result[j] = inputs[result[i]][s]
        BY <3>1 DEF IInv, SortInv, InputsFirst
      <4>2. j \in Positions /\ j < pos
        BY <1>0, <2>1, <2>5, <4>1 DEF Positions
      <4>3. result[j] # id
        BY <1>0, <2>1, <4>2 DEF IInv, SortInv, ListedOnce
      <4> QED
        BY <4>1, <4>3
    <3>2. \A s \in Slots(result[i]) :
            inputs[result[i]][s] \in needed' <=> inputs[result[i]][s] \in needed
      BY <2>2, <3>1
    <3>3. Slots(result[i])' = Slots(result[i]) /\ UNCHANGED <<inputs, wanted, result>>
      BY <2>2 DEF Slots
    <3> QED
      BY <3>2, <3>3 DEF OnPath
  <2>6. \A i \in Positions' : i < pos' => (result'[i] \in needed' <=> OnPath(result[i])')
    <3> SUFFICES ASSUME NEW i \in Positions, i < pos + 1
                 PROVE  result[i] \in needed' <=> OnPath(result[i])
      BY <2>2, <2>5
    <3>1. i < pos \/ i = pos
      BY <1>0 DEF Positions
    <3>2. CASE i < pos
      <4>1. result[i] # id
        BY <1>0, <2>1, <3>2 DEF IInv, SortInv, ListedOnce
      <4> QED
        BY <2>1, <2>2, <3>2, <4>1
    <3>3. CASE i = pos
      BY <2>2, <2>4, <3>3
    <3> QED
      BY <3>1, <3>2, <3>3
  <2>7. pos' >= 1
    BY <1>0, <2>2
  <2> QED
    BY <2>1, <2>2, <2>3, <2>6, <2>7 DEF MarkInv
<1>4. CASE Marked
  <2>1. pc = "mark" /\ pos >= 1 /\ pos \notin Positions /\ mode = "wrt"
    BY <1>4 DEF Marked, MarkInv
  <2>2. \A i \in Positions : i < pos
    BY <1>0, <2>1 DEF Positions
  <2>3. /\ UNCHANGED <<inputs, mode, wanted, result, needed>> /\ Positions' = Positions
        /\ pc' # "mark"
    BY <1>4 DEF Marked, args, Positions
  <2>4. \A i \in Positions : result[i] \in needed <=> OnPath(result[i])
    BY <2>1, <2>2 DEF MarkInv
  <2>5. \A id : OnPath(id)' <=> OnPath(id)
    BY <2>3 DEF OnPath, Slots
  <2> QED
    BY <2>1, <2>3, <2>4, <2>5 DEF MarkInv
<1>5. CASE SkipNode \/ Leaf \/ Backprop \/ Accumulate \/ NodeDone \/ Fail \/ Return
  BY <1>5, MarkKept DEF SkipNode, Leaf, Backprop, Accumulate, NodeDone, Fail, Return, Reading, args
<1>6. CASE UNCHANGED vars
  BY <1>6 DEF MarkInv, OnPath, Slots, Positions, vars, args
<1> QED
  BY <1>1, <1>2, <1>3, <1>4, <1>5, <1>6 DEF Next
-----------------------------------------------------------------------------
\* What the plain pass adds depends on the graph and the silent slots alone, and
\* its order on topo_order.
LEMMA GraphKept ==
  ASSUME UNCHANGED <<inputs, silent, result>>
  PROVE  /\ AllSlots' = AllSlots /\ Flows' = Flows /\ Positions' = Positions
         /\ \A id : Contributions(id)' = Contributions(id)
         /\ \A e, f : Before(e, f)' <=> Before(e, f)
<1>1. AllSlots' = AllSlots /\ Positions' = Positions
  BY DEF AllSlots, Slots, Positions
<1>2. Flows' = Flows
  BY <1>1 DEF Flows, Reached, Closed, Loss, Ids
<1>3. \A id : Contributions(id)' = Contributions(id)
  BY <1>1, <1>2 DEF Contributions, Loss, Seed
<1> QED
  BY <1>1, <1>2, <1>3 DEF Before

\* grad_fn.backward is called for a node with inputs that a gradient has reached.
LEMMA NodeStep == IInv /\ NodeInv /\ StoreInv /\ [Next]_vars => NodeInv'
<1> SUFFICES ASSUME IInv, NodeInv, StoreInv, [Next]_vars PROVE NodeInv'
  OBVIOUS
<1>1. CASE Backprop
  <2>1. /\ pos \in Positions /\ Sweeping
        /\ Node \in needed /\ store[Node] # <<>> /\ inputs[Node] # <<>>
        /\ pc' = "accumulate" /\ slot' = 1 /\ UNCHANGED <<inputs, silent, result, pos, needed>>
    BY <1>1 DEF Backprop, Reading, Sweeping, args
  <2>2. pos >= pos
    BY <2>1 DEF Positions
  <2>3. Node \in Flows
    BY <2>1, <2>2, ReadIsExact DEF Node
  <2>4. Flows' = Flows /\ Node' = Node
    BY <2>1, GraphKept DEF Node
  <2> QED
    BY <2>1, <2>3, <2>4 DEF NodeInv
<1>2. CASE Accumulate
  <2>1. /\ pc = "accumulate" /\ slot' = slot + 1
        /\ UNCHANGED <<inputs, silent, result, pos, needed, pc>>
    BY <1>2 DEF Accumulate, args
  <2>2. Flows' = Flows /\ Node' = Node
    BY <2>1, GraphKept DEF Node
  <2>3. slot' >= 1
    BY <2>1 DEF NodeInv, IInv, TypeOK
  <2> QED
    BY <2>1, <2>2, <2>3 DEF NodeInv
<1>3. CASE Visit \/ SkipVisited \/ Finish
  BY <1>3 DEF Visit, SkipVisited, Finish, NodeInv
<1>4. CASE Sorted \/ Mark \/ Marked \/ NodeDone \/ Fail \/ Return
  BY <1>4 DEF Sorted, Mark, Marked, NodeDone, Fail, Return, NodeInv
<1>5. CASE SkipNode \/ Leaf
  BY <1>5 DEF SkipNode, Leaf, Reading, NodeInv
<1>6. CASE UNCHANGED vars
  <2>1. UNCHANGED <<inputs, silent, result, pos, needed, slot, pc>>
    BY <1>6 DEF vars, args
  <2>2. Flows' = Flows /\ Node' = Node
    BY <2>1, GraphKept DEF Node
  <2> QED
    BY <2>1, <2>2 DEF NodeInv
<1> QED
  BY <1>1, <1>2, <1>3, <1>4, <1>5, <1>6 DEF Next

\* Nothing is contributed by a node that the sweep leaves out.
LEMMA SkippedContributesNothing ==
  ASSUME IInv, MarkInv, StoreInv, SkipNode, NEW id \in needed, id # Loss,
         NEW e \in Contributions(id)
  PROVE  e[1] # Node
<1> SUFFICES ASSUME e[1] = Node PROVE FALSE
  OBVIOUS
<1>1. /\ pos \in Positions /\ pos >= pos /\ pc = "reverse" /\ Sweeping
      /\ Node \notin needed \/ store[Node] = <<>>
  BY DEF SkipNode, Reading, Sweeping, Positions
<1>2. TypeOK /\ Node \in Ids /\ id \in Ids
  BY <1>1, ElementTypes DEF IInv, Node, TypeOK
<1>3. inputs[Node][e[2]] = id /\ e[2] \in Slots(Node) /\ Node \in Flows
  BY <1>2, ContributionFacts
<1>4. CASE Node \in needed
  BY <1>1, <1>3, <1>4, ReadIsExact DEF Node
<1>5. CASE Node \notin needed
  <2>1. mode = "wrt"
    BY <1>1, <1>2, <1>5 DEF MarkInv
  <2>2. ~OnPath(Node)
    BY <1>1, <1>5, <2>1 DEF MarkInv, Node
  <2> QED
    BY <1>3, <2>2 DEF OnPath
<1> QED
  BY <1>4, <1>5

\* Between two contributions the sweep passes none: it leaves a node only when all
\* its slots are through, and one it leaves out contributes nothing.
LEMMA PassedKept ==
  ASSUME IInv, MarkInv, NodeInv, StoreInv,
         SkipNode \/ Leaf \/ Backprop \/ NodeDone \/ Return,
         NEW id \in needed, id # Loss, NEW e \in Contributions(id)
  PROVE  Passed(e)' <=> Passed(e)
<1>0. TypeOK /\ pos \in Nat /\ Len(result) \in Nat /\ slot \in Nat /\ id \in Ids
  BY SweepTypes
<1>1. e[1] \in Ids /\ e[2] \in Slots(e[1]) /\ e[2] \in Nat /\ e[2] >= 1 /\ inputs[e[1]] \in Seq(Ids)
  <2>1. e[1] \in Ids /\ e[2] \in Slots(e[1])
    BY <1>0, ContributionFacts
  <2>2. e[2] \in Nat /\ e[2] >= 1
    BY <1>0, <2>1, SlotFacts
  <2> QED
    BY <2>1, <2>2, <1>0 DEF TypeOK
<1>2. CASE SkipNode
  <2>1. e[1] # Node
    BY <1>2, SkippedContributesNothing
  <2>2. pc = "reverse" /\ pc' = pc /\ pos' = pos - 1 /\ result' = result
    BY <1>2 DEF SkipNode, Reading
  <2> QED
    BY <1>0, <2>1, <2>2 DEF Passed, Positions, Node
<1>3. CASE Leaf
  <2>1. inputs[Node] = <<>> /\ pc = "reverse" /\ pc' = pc /\ pos' = pos - 1 /\ result' = result
    BY <1>3 DEF Leaf, Reading
  <2>2. e[1] # Node
    BY <1>1, <2>1 DEF Slots
  <2> QED
    BY <1>0, <2>1, <2>2 DEF Passed, Positions, Node
<1>4. CASE Backprop
  <2>1. pc = "reverse" /\ pc' = "accumulate" /\ slot' = 1 /\ pos' = pos /\ result' = result
    BY <1>4 DEF Backprop, Reading
  <2> QED
    BY <1>0, <1>1, <2>1 DEF Passed, Positions
<1>5. CASE NodeDone
  <2>1. /\ pc = "accumulate" /\ slot \notin Slots(Node) /\ slot >= 1
        /\ pc' = "reverse" /\ pos' = pos - 1 /\ result' = result
    BY <1>5 DEF NodeDone, NodeInv
  <2>2. e[1] = Node => e[2] < slot
    <3>1. Len(inputs[e[1]]) \in Nat
      BY <1>1
    <3> QED
      BY <1>0, <1>1, <2>1, <3>1 DEF Slots
  <2> QED
    BY <1>0, <2>1, <2>2 DEF Passed, Positions, Node
<1>6. CASE Return
  <2>1. pc = "reverse" /\ pc' = "done" /\ pos = 0 /\ pos' = 0 /\ result' = result
    BY <1>6 DEF Return
  <2> QED
    BY <1>0, <2>1 DEF Passed, Positions
<1> QED
  BY <1>2, <1>3, <1>4, <1>5, <1>6

\* The sweep starts with the seed alone, and nothing passed.
LEMMA StoreStart ==
  ASSUME TypeOK', StoreInv, pc \in {"sort", "mark"}, UNCHANGED store,
         \/ pc' \in {"sort", "mark"}
         \/ pc' = "reverse" /\ pos' = Len(result')
  PROVE  StoreInv'
<1>1. /\ store' = [id \in Ids |-> IF id = Loss THEN <<Seed>> ELSE <<>>]
      /\ store'[Loss] = <<Seed>> /\ \A id \in Ids \ {Loss} : store'[id] = <<>>
  BY DEF StoreInv
<1>2. Ids' = Ids /\ Loss' = Loss /\ Seed' = Seed
  BY DEF Ids, Loss, Seed
<1>3. ASSUME pc' = "reverse", pos' = Len(result'), NEW id \in needed' \ {Loss}, id \in Ids
      PROVE  Lists(store[id], {e \in Contributions(id) : Passed(e)})'
  <2>1. ASSUME NEW e, Passed(e)' PROVE FALSE
    <3>1. PICK i \in Positions' : i > pos' \/ pc' = "accumulate"
      BY <2>1 DEF Passed
    <3>2. Len(result') \in Nat
      BY DEF TypeOK
    <3> QED
      BY <1>3, <3>1, <3>2 DEF Positions
  <2>2. {e \in Contributions(id) : Passed(e)}' = {}
    BY <2>1
  <2>3. store'[id] = <<>> /\ Len(<<>>) = 0
    BY <1>1, <1>3
  <2> QED
    BY <2>2, <2>3 DEF Lists
<1>4. needed' \subseteq Ids
  BY DEF TypeOK, Ids
<1>5. Sweeping' => pc' = "reverse" /\ pos' = Len(result')
  BY DEF Sweeping
<1>6. \A id \in needed' \ {Loss} : Sweeping' =>
        Lists(store[id], {e \in Contributions(id) : Passed(e)})'
  BY <1>3, <1>4, <1>5
<1> QED
  BY <1>1, <1>2, <1>6 DEF StoreInv

\* A contribution goes to the end of its gradient, behind those of the nodes
\* listed later and of the node's earlier slots; all other gradients stay.
LEMMA StoreAccumulate ==
  ASSUME IInv, MarkInv, NodeInv, StoreInv, Accumulate
  PROVE  StoreInv'
<1> DEFINE to == inputs[Node][slot]
           e0 == <<Node, slot>>
<1>0. TypeOK /\ pos \in Nat /\ Len(result) \in Nat /\ slot \in Nat
  BY SweepTypes
<1>1. /\ pc = "accumulate" /\ slot \in Slots(Node) /\ slot' = slot + 1
      /\ store' = IF to \in needed /\ e0 \notin silent
                  THEN [store EXCEPT ![to] = Append(store[to], e0)] ELSE store
      /\ UNCHANGED <<inputs, silent, result, pos, pc, needed>> /\ pos \in Positions
  BY <1>0 DEF Accumulate, args, TypeOK
<1>2. Node \in Ids /\ Node \in Flows
  BY <1>0, <1>1, ElementTypes DEF Node, NodeInv
<1>3. e0 \in AllSlots /\ to \in Ids /\ to < Node
  BY <1>0, <1>1, <1>2, SlotFacts
<1>4. to # Loss
  BY <1>2, <1>3, BackwardAssumption DEF Ids, Loss
<1>5. /\ AllSlots' = AllSlots /\ Flows' = Flows /\ Positions' = Positions
      /\ \A id : Contributions(id)' = Contributions(id)
      /\ \A e, f : Before(e, f)' <=> Before(e, f)
  BY <1>1, GraphKept
<1>6. \A e : e[1] = Node /\ e[2] \in Nat => (Passed(e)' <=> e[2] <= slot)
  <2> SUFFICES ASSUME NEW e, e[1] = Node, e[2] \in Nat PROVE Passed(e)' <=> e[2] <= slot
    OBVIOUS
  <2>1. \A i \in Positions : result[i] = Node => i = pos
    BY <1>1 DEF Node, IInv, SortInv, ListedOnce
  <2> QED
    BY <1>0, <1>1, <1>5, <2>1 DEF Passed, Positions, Node
<1>7. \A e : e[1] = Node /\ e[2] \in Nat => (Passed(e) <=> e[2] < slot)
  <2> SUFFICES ASSUME NEW e, e[1] = Node, e[2] \in Nat PROVE Passed(e) <=> e[2] < slot
    OBVIOUS
  <2>1. \A i \in Positions : result[i] = Node => i = pos
    BY <1>1 DEF Node, IInv, SortInv, ListedOnce
  <2> QED
    BY <1>0, <1>1, <2>1 DEF Passed, Positions, Node
<1>8. \A e : e[1] # Node => (Passed(e)' <=> Passed(e))
  BY <1>0, <1>1, <1>5 DEF Passed, Positions, Node
<1>9. \A e \in AllSlots : Passed(e)' <=> (Passed(e) \/ e = e0)
  <2> SUFFICES ASSUME NEW e \in AllSlots PROVE Passed(e)' <=> (Passed(e) \/ e = e0)
    OBVIOUS
  <2>1. e[2] \in Nat /\ e = <<e[1], e[2]>>
    BY <1>0, SlotFacts
  <2>2. CASE e[1] = Node
    <3>1. e[2] <= slot <=> (e[2] < slot \/ e[2] = slot)
      BY <1>0, <2>1
    <3>2. e = e0 <=> e[2] = slot
      BY <2>1, <2>2
    <3> QED
      BY <1>6, <1>7, <2>1, <2>2, <3>1, <3>2
  <2>3. CASE e[1] # Node
    BY <1>8, <2>3
  <2> QED
    BY <2>2, <2>3
\* What was passed comes before.
<1>10. ASSUME NEW e \in AllSlots, Passed(e) PROVE Before(e, e0)
  <2>1. PICK i \in Positions : /\ result[i] = e[1]
                               /\ (i > pos) \/ (i = pos /\ e[2] < slot)
    BY <1>10 DEF Passed
  <2>2. e0[1] = result[pos] /\ e0[2] = slot
    BY DEF Node
  <2> HIDE DEF e0
  <2> QED
    BY <1>1, <2>1, <2>2 DEF Before
<1> HIDE DEF to, e0
<1>11. /\ store'[Loss] = <<Seed>>
       /\ \A id \in Ids \ {Loss} : id \notin needed' => store'[id] = <<>>
  <2>1. \A id \in Ids : id \notin needed \/ id = Loss => store'[id] = store[id]
    BY <1>1, <1>4, <1>0 DEF TypeOK
  <2>2. Loss \in Ids
    BY BackwardAssumption DEF Loss, Ids
  <2> QED
    BY <1>1, <2>1, <2>2 DEF StoreInv
<1>12. ASSUME NEW id \in needed, id # Loss
       PROVE  Lists(store'[id], {e \in Contributions(id) : Passed(e)'})
  <2> DEFINE P == {e \in Contributions(id) : Passed(e)}
             Q == {e \in Contributions(id) : Passed(e)'}
             q == store[id]
  <2>1. id \in Ids /\ q \in Seq(Ids \X Nat)
    BY <1>0 DEF TypeOK
  <2>2. Lists(q, P)
    BY <1>1, <1>12 DEF StoreInv, Sweeping
  <2>3. \A e \in Contributions(id) : e \in AllSlots
    BY <1>0, <1>12, <2>1, ContributionFacts
  <2>4. CASE id = to /\ e0 \notin silent
    <3>1. e0 \in Contributions(id)
      BY <1>2, <1>3, <2>4 DEF Contributions, e0, to
    <3>2. Q = P \cup {e0}
      BY <1>9, <2>3, <3>1
    <3>3. e0 \in Ids \X Nat
      BY <1>0, <1>2 DEF e0
    <3>4. store'[id] = Append(q, e0)
      BY <1>0, <1>1, <1>12, <2>1, <2>4 DEF TypeOK
    <3>5. /\ Append(q, e0) \in Seq(Ids \X Nat) /\ Len(Append(q, e0)) = Len(q) + 1
          /\ \A k \in 1 .. Len(q) : Append(q, e0)[k] = q[k]
          /\ Append(q, e0)[Len(q) + 1] = e0
      BY <2>1, <3>3, AppendProperties
    <3>6. /\ {q[k] : k \in 1 .. Len(q)} = P
          /\ \A k, m \in 1 .. Len(q) : k < m => Before(q[k], q[m])
      BY <2>2 DEF Lists
    <3>7. \A k \in 1 .. Len(q) : Before(q[k], e0)
      BY <1>10, <2>3, <3>6
    <3>8. Len(q) \in Nat
      BY <2>1
    <3> DEFINE r == Append(q, e0)
    <3>9. \A k \in 1 .. Len(r) : k \in 1 .. Len(q) \/ k = Len(q) + 1
      BY <3>5, <3>8
    <3>10. Len(r) = Len(q) + 1 /\ \A k \in 1 .. Len(q) : k \in 1 .. Len(r)
      BY <3>5, <3>8
    <3>11. Len(q) + 1 \in 1 .. Len(r)
      BY <3>5, <3>8
    <3> HIDE DEF r, q, P, Q
    <3>12. /\ \A k \in 1 .. Len(q) : r[k] = q[k]
           /\ r[Len(q) + 1] = e0
      BY <3>5 DEF r
    <3>13. {r[k] : k \in 1 .. Len(r)} = P \cup {e0}
      BY <3>6, <3>9, <3>10, <3>11, <3>12
    <3>14. ASSUME NEW k \in 1 .. Len(r), NEW m \in 1 .. Len(r), k < m PROVE Before(r[k], r[m])
      <4>1. k \in 1 .. Len(q)
        BY <3>8, <3>10, <3>14
      <4>2. CASE m \in 1 .. Len(q)
        BY <3>6, <3>12, <3>14, <4>1, <4>2
      <4>3. CASE m = Len(q) + 1
        BY <3>7, <3>12, <4>1, <4>3
      <4> QED
        BY <3>9, <4>2, <4>3
    <3>15. Lists(r, P \cup {e0})
      BY <3>13, <3>14 DEF Lists
    <3>16. store'[id] = r /\ Q = P \cup {e0}
      BY <3>2, <3>4 DEF r
    <3> QED
      BY <3>15, <3>16 DEF Q
  <2>5. CASE ~(id = to /\ e0 \notin silent)
    <3>1. e0 \notin Contributions(id)
      <4> SUFFICES ASSUME e0 \in Contributions(id) PROVE FALSE
        OBVIOUS
      <4>1. e0 \notin silent /\ inputs[e0[1]][e0[2]] = id
        BY <1>0, <1>12, <2>1, ContributionFacts
      <4> QED
        BY <2>5, <4>1 DEF to, e0
    <3>2. Q = P
      BY <1>9, <2>3, <3>1
    <3>3. store'[id] = q
      BY <1>0, <1>1, <2>1, <2>5 DEF TypeOK
    <3> HIDE DEF P, q
    <3> QED
      BY <2>2, <3>2, <3>3 DEF Q
  <2> QED
    BY <2>4, <2>5
<1>13. ASSUME NEW id \in needed', id # Loss
       PROVE  Lists(store[id], {e \in Contributions(id) : Passed(e)})'
  <2>1. id \in needed
    BY <1>1, <1>13
  <2>2. Lists(store'[id], {e \in Contributions(id) : Passed(e)'})
    BY <1>12, <1>13, <2>1
  <2> QED
    BY <1>5, <2>2 DEF Lists
<1> QED
  BY <1>1, <1>11, <1>13 DEF StoreInv, Loss, Seed, Ids

\* A step that passes nothing keeps the sums.
LEMMA StoreKept ==
  ASSUME TypeOK, StoreInv, pc \notin {"sort", "mark"}, pc' \notin {"sort", "mark"},
         UNCHANGED <<inputs, silent, result, needed, store>>,
         Sweeping' => /\ Sweeping
                      /\ \A id \in needed \ {Loss} : \A e \in Contributions(id) :
                           Passed(e)' <=> Passed(e)
  PROVE  StoreInv'
<1>1. /\ \A id : Contributions(id)' = Contributions(id)
      /\ \A e, f : Before(e, f)' <=> Before(e, f)
  BY GraphKept
<1>2. ASSUME Sweeping', NEW id \in needed, id # Loss
      PROVE  Lists(store[id], {e \in Contributions(id) : Passed(e)})'
  <2>1. Lists(store[id], {e \in Contributions(id) : Passed(e)})
    BY <1>2 DEF StoreInv
  <2>2. {e \in Contributions(id) : Passed(e)}' = {e \in Contributions(id) : Passed(e)}
    BY <1>1, <1>2
  <2> QED
    BY <1>1, <2>1, <2>2 DEF Lists
<1> QED
  BY <1>2 DEF StoreInv, Loss, Seed, Ids

\* Every step keeps the sums.
LEMMA StoreStep == IInv /\ IInv' /\ MarkInv /\ NodeInv /\ StoreInv /\ [Next]_vars => StoreInv'
<1> SUFFICES ASSUME IInv, IInv', MarkInv, NodeInv, StoreInv, [Next]_vars PROVE StoreInv'
  OBVIOUS
<1>0. TypeOK /\ TypeOK'
  BY DEF IInv
<1>1. CASE Visit \/ SkipVisited \/ Finish
  BY <1>0, <1>1, StoreStart DEF Visit, SkipVisited, Finish
<1>2. CASE Sorted
  <2>1. pc = "sort" /\ store' = store /\ result' = result
    BY <1>2 DEF Sorted
  <2>2. pc' = "mark" \/ (pc' = "reverse" /\ pos' = Len(result'))
    BY <1>2 DEF Sorted
  <2> QED
    BY <1>0, <2>1, <2>2, StoreStart
<1>3. CASE Mark \/ Marked
  BY <1>0, <1>3, StoreStart DEF Mark, Marked
<1>4. CASE Accumulate
  BY <1>4, StoreAccumulate
<1>5. CASE SkipNode \/ Leaf \/ Backprop \/ NodeDone \/ Return
  <2>1. /\ UNCHANGED <<inputs, silent, result, needed, store>>
        /\ Sweeping /\ pc \notin {"sort", "mark"} /\ pc' \notin {"sort", "mark"}
    BY <1>5 DEF SkipNode, Leaf, Backprop, NodeDone, Return, Reading, args, Sweeping
  <2>2. \A id \in needed \ {Loss} : \A e \in Contributions(id) : Passed(e)' <=> Passed(e)
    BY <1>5, PassedKept
  <2> QED
    BY <1>0, <2>1, <2>2, StoreKept
<1>6. CASE Fail
  <2>1. /\ UNCHANGED <<inputs, silent, result, needed, store>>
        /\ ~Sweeping' /\ pc \notin {"sort", "mark"} /\ pc' \notin {"sort", "mark"}
    BY <1>6 DEF Fail, args, Sweeping
  <2> QED
    BY <1>0, <2>1, StoreKept
<1>7. CASE UNCHANGED vars
  <2>1. UNCHANGED <<inputs, silent, result, needed, store, pc, pos, slot>>
    BY <1>7 DEF vars, args
  <2>2. \A e : Passed(e)' <=> Passed(e)
    BY <2>1 DEF Passed, Positions
  <2>3. Sweeping' <=> Sweeping
    BY <2>1 DEF Sweeping
  <2>4. CASE pc \in {"sort", "mark"}
    BY <1>0, <2>1, <2>4, StoreStart
  <2>5. CASE pc \notin {"sort", "mark"}
    BY <1>0, <2>1, <2>2, <2>3, <2>5, StoreKept
  <2> QED
    BY <2>4, <2>5
<1> QED
  BY <1>1, <1>2, <1>3, <1>4, <1>5, <1>6, <1>7 DEF Next
-----------------------------------------------------------------------------
\* Whether a leaf is to be hooked does not change, and the sweep passes one node
\* at a time.
LEMMA DueNext ==
  ASSUME TypeOK, pos \in Positions, pos' = pos - 1,
         UNCHANGED <<inputs, silent, result, mode, wanted>>
  PROVE  DueHooks' = DueHooks \cup (IF IsDue(Node) THEN {Node} ELSE {})
<1>1. /\ Flows' = Flows /\ Positions' = Positions
      /\ \A id : IsDue(id)' <=> IsDue(id)
  BY GraphKept DEF IsDue
<1>2. Len(result) \in Nat /\ Positions = 1 .. Len(result)
  BY ElementTypes DEF Positions
<1> DEFINE B == Positions \cap (pos + 1 .. Len(result))
           A == Positions \cap (pos - 1 + 1 .. Len(result))
<1>3. A = B \cup {pos}
  BY <1>2
<1>4. DueHooks = {id \in {result[i] : i \in B} : IsDue(id)}
  BY DEF DueHooks, IsDue
<1>5. DueHooks' = {id \in {result[i] : i \in A} : IsDue(id)}
  BY <1>1 DEF DueHooks, IsDue
<1> HIDE DEF A, B
<1>6. \A x : x \in DueHooks' <=> x \in DueHooks \/ (x = result[pos] /\ IsDue(x))
  BY <1>3, <1>4, <1>5
<1> HIDE DEF DueHooks
<1> QED
  BY <1>6 DEF Node

\* A step that hooks nothing and passes nothing that is due.
LEMMA HookKept ==
  ASSUME HookInv, Sweeping' => Sweeping, UNCHANGED <<mode, hooks>>, DueHooks' = DueHooks
  PROVE  HookInv'
BY DEF HookInv

\* The sweep calls the hook for every leaf it passes that is due, once.
LEMMA HookStep == IInv /\ MarkInv /\ NodeInv /\ StoreInv /\ HookInv /\ [Next]_vars => HookInv'
<1> SUFFICES ASSUME IInv, MarkInv, NodeInv, StoreInv, HookInv, [Next]_vars PROVE HookInv'
  OBVIOUS
<1>0. TypeOK /\ pos \in Nat /\ Len(result) \in Nat
  BY SweepTypes
<1>1. CASE Visit \/ SkipVisited \/ Finish \/ Mark \/ Fail
  <2>1. ~Sweeping'
    BY <1>1 DEF Visit, SkipVisited, Finish, Mark, Fail, Sweeping
  <2> QED
    BY <2>1 DEF HookInv
<1>2. CASE Sorted \/ Marked
  <2>1. hooks' = <<>> /\ Len(<<>>) = 0
    BY <1>2 DEF Sorted, Marked, IInv, HooksPassed
  <2>2. CASE pos' = Len(result') /\ result' = result
    <3>1. DueHooks' = {}
      BY <1>0, <2>2 DEF DueHooks
    <3> QED
      BY <2>1, <3>1 DEF HookInv
  <2>3. CASE pc' = "mark"
    BY <2>3 DEF HookInv, Sweeping
  <2> QED
    BY <1>2, <2>2, <2>3 DEF Sorted, Marked
<1>3. CASE Leaf
  <2>1. /\ pc = "reverse" /\ pos \in Positions /\ Node \in needed /\ store[Node] # <<>>
        /\ inputs[Node] = <<>> /\ pos' = pos - 1 /\ Sweeping
        /\ UNCHANGED <<inputs, silent, result, mode, wanted>>
        /\ mode # "graph" => hooks' = Append(hooks, Node)
    BY <1>3 DEF Leaf, Reading, args, Sweeping
  <2>2. Node \in Flows
    BY <1>0, <2>1, ReadIsExact DEF Node
  <2>3. mode = "wrt" => Node \in wanted
    <3>1. mode = "wrt" => OnPath(Node)
      BY <2>1 DEF MarkInv, Node
    <3>2. Slots(Node) = {}
      BY <2>1 DEF Slots
    <3> QED
      BY <3>1, <3>2 DEF OnPath
  <2>4. DueHooks' = DueHooks \cup {Node}
    BY <1>0, <2>1, <2>2, <2>3, DueNext DEF IsDue
  <2> SUFFICES ASSUME mode # "graph"
               PROVE  /\ \A i, j \in 1 .. Len(hooks') : hooks'[i] = hooks'[j] => i = j
                      /\ {hooks'[i] : i \in 1 .. Len(hooks')} = DueHooks'
    BY <2>1 DEF HookInv
  <2>5. hooks \in Seq(Ids) /\ Node \in Ids
    BY <1>0, <2>1, ElementTypes DEF TypeOK, Node
  <2>6. /\ Len(hooks') = Len(hooks) + 1 /\ hooks'[Len(hooks) + 1] = Node
        /\ \A i \in 1 .. Len(hooks) : hooks'[i] = hooks[i]
    BY <2>1, <2>5, AppendProperties
  <2>7. /\ Len(hooks) \in Nat /\ Len(hooks) + 1 \in 1 .. Len(hooks')
        /\ \A i \in 1 .. Len(hooks') : i \in 1 .. Len(hooks) \/ i = Len(hooks) + 1
        /\ \A i \in 1 .. Len(hooks) : i \in 1 .. Len(hooks')
    BY <2>5, <2>6
  <2>8. ASSUME NEW i \in 1 .. Len(hooks) PROVE hooks[i] # Node
    <3>1. PICK p \in pos + 1 .. Len(result) : result[p] = hooks[i]
      BY DEF IInv, HooksPassed
    <3>2. p \in Positions /\ p # pos
      BY <1>0, <3>1 DEF Positions
    <3> QED
      BY <2>1, <3>1, <3>2 DEF IInv, SortInv, ListedOnce, Node
  <2>9. /\ \A i, j \in 1 .. Len(hooks) : hooks[i] = hooks[j] => i = j
        /\ {hooks[i] : i \in 1 .. Len(hooks)} = DueHooks
    BY <2>1 DEF HookInv
  <2>10. \A i, j \in 1 .. Len(hooks') : hooks'[i] = hooks'[j] => i = j
    BY <2>6, <2>7, <2>8, <2>9
  <2>11. {hooks'[i] : i \in 1 .. Len(hooks')} = DueHooks \cup {Node}
    BY <2>6, <2>7, <2>9
  <2> QED
    BY <2>4, <2>10, <2>11
<1>4. CASE SkipNode
  <2>1. /\ pc = "reverse" /\ pos \in Positions
        /\ Node \notin needed \/ store[Node] = <<>>
    BY <1>4 DEF SkipNode, Reading
  <2>2. /\ pos' = pos - 1 /\ Sweeping
        /\ UNCHANGED <<inputs, silent, result, mode, wanted, hooks>>
    BY <1>4 DEF SkipNode, Reading, args, Sweeping
  <2>3. ~IsDue(Node)
    <3>1. CASE Node \in needed
      BY <1>0, <2>1, <2>2, <3>1, ReadIsExact DEF Node, IsDue
    <3>2. CASE Node \notin needed
      <4>1. Node \in Ids
        BY <1>0, <2>1, ElementTypes DEF Node
      <4>2. mode = "wrt" /\ ~OnPath(Node)
        BY <2>1, <3>2, <4>1 DEF MarkInv, Node
      <4> QED
        BY <4>2 DEF IsDue, OnPath
    <3> QED
      BY <3>1, <3>2
  <2>4. DueHooks' = DueHooks
    BY <1>0, <2>1, <2>2, <2>3, DueNext
  <2> QED
    BY <2>2, <2>4, HookKept
<1>5. CASE NodeDone
  <2>1. /\ pos \in Positions /\ inputs[Node] # <<>> /\ pos' = pos - 1 /\ Sweeping
        /\ UNCHANGED <<inputs, silent, result, mode, wanted, hooks>>
    BY <1>0, <1>5 DEF NodeDone, NodeInv, args, Sweeping, TypeOK
  <2>2. DueHooks' = DueHooks
    BY <1>0, <2>1, DueNext DEF IsDue
  <2> QED
    BY <2>1, <2>2, HookKept
<1>6. ASSUME UNCHANGED <<inputs, silent, result, mode, wanted, pos, hooks>>, Sweeping' => Sweeping
      PROVE  HookInv'
  <2>1. DueHooks' = DueHooks
    BY <1>6, GraphKept DEF DueHooks, IsDue
  <2> QED
    BY <1>6, <2>1, HookKept
<1>7. CASE Backprop \/ Accumulate \/ Return
  BY <1>6, <1>7 DEF Backprop, Accumulate, Return, Reading, args, Sweeping
<1>8. CASE UNCHANGED vars
  BY <1>6, <1>8 DEF vars, args, Sweeping
<1> QED
  BY <1>1, <1>2, <1>3, <1>4, <1>5, <1>7, <1>8 DEF Next

\* Before the sort nothing is needed and only the seed is in the store.
LEMMA InitSums == Init => SumInv
<1> SUFFICES ASSUME Init PROVE SumInv
  OBVIOUS
<1>1. Loss \in Ids
  BY BackwardAssumption DEF Loss, Ids
<1>2. pc = "sort" /\ store = [id \in Ids |-> IF id = Loss THEN <<Seed>> ELSE <<>>]
  BY DEF Init
<1>3. StoreInv
  BY <1>1, <1>2 DEF StoreInv, Sweeping
<1> QED
  BY <1>2, <1>3 DEF SumInv, MarkInv, NodeInv, HookInv, Sweeping

\* What the sweep has summed up and hooked at any time of backward.
THEOREM BackwardSums == Spec => []SumInv
<1>1. IInv /\ IInv' /\ SumInv /\ [Next]_vars => SumInv'
  BY MarkStep, NodeStep, StoreStep, HookStep DEF SumInv
<1> QED
  BY InitSums, BackwardInvariant, <1>1, PTL DEF Spec

\* compute_needed and the sweep: every gradient that is read, and every wanted one
\* at the end, is what the unpruned pass adds up, in the same order.
THEOREM PruningIsExact == Spec => []PrunedIsExact
<1>1. IInv /\ SumInv => PrunedIsExact
  <2> SUFFICES ASSUME IInv, SumInv, Sweeping PROVE
         /\ \A i \in Positions : result[i] \in needed /\ i >= pos => Exact(result[i])
         /\ \A id \in Ids \ (needed \cup {Loss}) : store[id] = <<>>
         /\ pc = "done" => \A id \in wanted \cap Cone : Exact(id)
    BY DEF PrunedIsExact
  <2>1. \A i \in Positions : result[i] \in needed /\ i >= pos => Exact(result[i])
    BY ReadIsExact DEF SumInv
  <2>2. \A id \in Ids \ (needed \cup {Loss}) : store[id] = <<>>
    BY DEF SumInv, StoreInv
  <2>3. ASSUME pc = "done", NEW id \in wanted \cap Cone PROVE Exact(id)
    <3>1. PICK i \in Positions : result[i] = id
      BY <2>3, ReachedListed DEF Cone
    <3>2. result[i] \in needed
      BY <2>3, <3>1 DEF SumInv, MarkInv, OnPath
    <3>3. i >= pos
      BY <2>3, ElementTypes DEF SumInv, NodeInv, IInv, Positions
    <3> QED
      BY <2>1, <3>1, <3>2, <3>3
  <2> QED
    BY <2>1, <2>2, <2>3
<1> QED
  BY BackwardInvariant, BackwardSums, <1>1, PTL

\* BackwardHook: on_leaf_grad_ready is called once for every leaf passed that is
\* wanted and that a gradient flows to, and for no other.
THEOREM HooksAreExact == Spec => []HooksExact
<1>1. SumInv => HooksExact
  BY DEF SumInv, HookInv, DueHooks, IsDue, HooksExact
<1> QED
  BY BackwardSums, <1>1, PTL
=============================================================================
