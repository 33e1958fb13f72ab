----------------------------- MODULE MCConsole -----------------------------
(* Two keyboards.                                                          *)
EXTENDS Console
=============================================================================
