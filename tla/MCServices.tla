----------------------------- MODULE MCServices -----------------------------
(* A medium, a medium that is a hard disk, and a file that may be one.     *)
EXTENDS Services
=============================================================================
