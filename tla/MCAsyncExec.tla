---------------------------- MODULE MCAsyncExec ----------------------------
(* AsyncExec with the model values of its configurations.                  *)
EXTENDS AsyncExec
=============================================================================
