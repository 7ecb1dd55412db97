---------------------------- MODULE MCLifecycle ----------------------------
(* Lifecycle for TLC: two interchangeable calls, exit codes of two bits. *)
EXTENDS Lifecycle, TLC

CallSymmetry == Permutations(Calls)

=============================================================================
