------------------------------ MODULE WasmExec ------------------------------
(***************************************************************************)
(* The Go program and its JavaScript (wasm_exec.js): run() lays out Go's    *)
(* memory and starts Go (GoRuntime), after that each runs when the other    *)
(* calls it (Bridge), and Go prints and asks for the time while it runs.    *)
(***************************************************************************)
EXTENDS GoRuntime, Bridge

vars == <<runtimeVars, bridgeVars>>

Init == RuntimeInit /\ BridgeInit

Next ==
    \/ pc # "running" /\ RuntimeNext /\ UNCHANGED bridgeVars
    \/ pc = "running" /\ Runs("go") /\ RuntimeNext /\ UNCHANGED bridgeVars
    \/ pc = "running" /\ BridgeNext /\ UNCHANGED runtimeVars

Spec == Init /\ [][Next]_vars

=============================================================================
