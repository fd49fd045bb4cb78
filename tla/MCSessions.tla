----------------------------- MODULE MCSessions -----------------------------
(* Three turns over two conversations, a cap of two turns, records that    *)
(* live for two ticks, two restarts.                                       *)
EXTENDS Sessions, TLC

Symmetry == Permutations(Requests) \cup Permutations(Conversations)
=============================================================================
