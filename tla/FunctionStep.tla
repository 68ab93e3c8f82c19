---------------------------- MODULE FunctionStep ----------------------------
(***************************************************************************)
(* A pure function as a state machine: it waits with an input, and one     *)
(* step applies it.                                                        *)
(***************************************************************************)

VARIABLES
    in,             \* the input
    op,             \* the function applied, or what kind of input waits for one
    out             \* what it returned

functionVars == <<in, op, out>>

Apply(name, result) == op' = name /\ out' = result
=============================================================================
