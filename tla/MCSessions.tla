----------------------------- MODULE MCSessions -----------------------------
(* Sessions with slots that TLC may permute. *)
EXTENDS Sessions, TLC

Slots == Permutations(Peers)
=============================================================================
