----------------------------- MODULE MCUaiClient -----------------------------
(* Small instances of UaiClient for TLC. *)
EXTENDS UaiClient, TLC

CallerSymmetry == Permutations(Callers)
=============================================================================
