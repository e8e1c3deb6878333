---------------------------- MODULE MCBundleWriter ----------------------------
(* Calls that race for one bundle name, for TLC. *)
EXTENDS BundleWriter, TLC

Symmetry == Permutations(Writer)
=============================================================================
