------------------------------ MODULE MCServer ------------------------------
(* Server for TLC: interchangeable names and requests. *)
EXTENDS Server, TLC

ServerSymmetry == Permutations(Names) \union Permutations(Requests)

=============================================================================
