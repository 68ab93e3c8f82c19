-------------------------- MODULE MCDurableSession --------------------------
(* TLC instances of DurableSession; the .cfg files choose the mode.         *)
EXTENDS DurableSession

\* What the session does depends on: ran, mark, cleared and cut are written only.
\* A run whose properties do not read them needs to tell states apart by this.
Observed == <<disk, pc, memory, calls, turns, compactions, stops>>
=============================================================================
