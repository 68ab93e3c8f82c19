------------------------------- MODULE MCRepl -------------------------------
(* Repl with the values of its configuration.                              *)
EXTENDS Repl
=============================================================================
