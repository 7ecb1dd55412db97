----------------------------- MODULE MCOptions -----------------------------
(* Options for TLC: the kinds of call the runs look at. *)
EXTENDS Options

Both == {"registration", "login"}
Login == {"login"}

=============================================================================
