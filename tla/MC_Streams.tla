----------------------------- MODULE MC_Streams -----------------------------
(* Scripts for Streams: both ranks make a gradient, reduce it and meet at  *)
(* a barrier, the first reads it at any time in one of the two ways.       *)
EXTENDS Streams
CONSTANTS g, x
Leader == [uploads |-> <<g>>, copies |-> <<>>, reads |-> <<g>>]
Follower == [uploads |-> <<x>>, copies |-> <<<<x, g>>>>, reads |-> <<>>]
ReduceThenMeet == <<g, NoBuffer>>
TwoRanks == [r \in Ranks |-> IF r = 1 THEN Leader ELSE Follower]
=============================================================================
