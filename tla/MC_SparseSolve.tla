--------------------------- MODULE MC_SparseSolve ---------------------------
EXTENDS SparseSolve
Lower == {p \in Rows \X Rows : p[2] < p[1]}
Upper == {p \in Rows \X Rows : p[2] > p[1]}
SomeUpper == {{}, {<<1, 2>>, <<2, 3>>}, {<<1, 3>>, <<2, 4>>, <<3, 4>>}, Upper}
AllPatterns == {L \cup U : L \in SUBSET Lower, U \in SomeUpper} \cup SUBSET Upper
T(k, s, d, f) == [kernel |-> k, side |-> s, device |-> d, maxFill |-> f]
AllTasks == {T("row", s, d, 0) : s \in {"lower", "upper"}, d \in {"cuda", "wgpu"}}
            \cup {T("column", "lower", "cuda", 0)}
            \cup {T("column", "upper", d, 0) : d \in {"cuda", "wgpu"}}
            \cup {T("factor", "lower", d, f) : d \in {"cuda", "wgpu"}, f \in 0..2}
=============================================================================
