---------------------------- MODULE MCAccounting ----------------------------
(* Accounting with the values of its configuration.                        *)
EXTENDS Accounting
=============================================================================
