----------------------------- MODULE MCKumaSync -----------------------------
(* Instances of KumaSync for TLC. *)
EXTENDS KumaSync, TLC

CONSTANTS t1, t2

OneService == {1}
TwoServices == {1, 2}
OneTarget == {t1}
TwoTargets == {t1, t2}
TargetSymmetry == Permutations({t1, t2})
=============================================================================
