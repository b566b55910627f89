---------------------------- MODULE MC_Compaction ----------------------------
EXTENDS Compaction
Inputs(n, values) == UNION {[1..m -> values] : m \in 1..n}
C(h, o, d, s) == [halvings |-> h, op |-> o, device |-> d, input |-> s]
Uniques == {"unique", "unique_with_counts"}
Others == {"nonzero", "masked_select"}
\* CUDA: up to five elements for two blocks of two threads, so that one thread
\* visits two. WGPU: up to four, what two blocks, the stride of the loops, visit.
\* Blocks of four threads give the tree of WGPU two rounds.
AllCalls ==
  {C(1, o, "cuda", s) : o \in Others, s \in Inputs(5, 0..1)}
  \cup {C(1, o, "cuda", s) : o \in Uniques,
        s \in Inputs(4, 0..2) \cup {<<2, 1, 0, 1, 3>>, <<1, 1, 1, 1, 1>>}}
  \cup {C(1, o, "wgpu", s) : o \in Others, s \in Inputs(4, 0..1)}
  \cup {C(1, o, "wgpu", s) : o \in Uniques, s \in Inputs(4, 0..2)}
  \cup {C(2, o, "wgpu", s) : o \in {"nonzero", "unique"},
        s \in Inputs(4, 0..1) \cup {<<1, 1, 0, 1, 1>>}}
=============================================================================
