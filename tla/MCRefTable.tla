---------------------------- MODULE MCRefTable -----------------------------
(* RefTable for TLC: null and globalThis preset, three objects come and go. *)
EXTENDS RefTable, TLC

CONSTANTS globalThis, o1, o2, o3

MCValues == {Null, globalThis, o1, o2, o3}
MCPreset == <<Null, globalThis>>
MCPlain == {Null}
ObjectSymmetry == Permutations({o1, o2, o3})

=============================================================================
