----------------------------- MODULE MCCanDevice -----------------------------
(* CanDevice with small sets. Attributes play equal parts, and so do the   *)
(* threads: the safety run uses the symmetry, the liveness run must not.   *)
EXTENDS CanDevice, TLC

CONSTANTS d1, d2, a1, a2, w1, w2

MCDevices == {d1, d2}
MCOneDevice == {d1}
MCAttrs == {a1, a2}
MCOneAttr == {a1}
MCWorkers == {w1, w2}
MCSymmetry == Permutations(MCAttrs) \cup Permutations(MCWorkers)
=============================================================================
