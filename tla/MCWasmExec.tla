----------------------------- MODULE MCWasmExec -----------------------------
(* WasmExec for TLC: 64-bit integers of four bits; texts that end in the middle
   of a line and of a character, go on there, or have a byte order mark. *)
EXTENDS WasmExec

Arguments == {6, 7, 24}
Clock == {0, 5, 9}
Pieces == {<<"n">>, <<"n", "x", "n", "l">>, <<"t", "n">>, <<"b", "l", "t">>}

=============================================================================
