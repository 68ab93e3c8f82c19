--------------------------- MODULE MCJournalFile ---------------------------
(* TLC instances of JournalFile: the symmetry of processes and threads.     *)
EXTENDS JournalFile, TLC

Symmetry == Permutations(Procs) \cup Permutations(Threads)
=============================================================================
