---------------------------- MODULE MCToolBatch ----------------------------
(* ToolBatch with the values of its configuration.                         *)
EXTENDS ToolBatch
=============================================================================
