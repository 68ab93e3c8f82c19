----------------------------- MODULE AppendLog -----------------------------
(***************************************************************************)
(* What a session journal promises to the rest of the program: an ordered  *)
(* log to which records are only ever added at the end, and in which a     *)
(* record stays once its append() has returned.  The byte-level file of    *)
(* JournalFile implements it.                                              *)
(***************************************************************************)
EXTENDS Naturals, Sequences

CONSTANT Rec          \* the records that may be appended

VARIABLES
    log,              \* the records a replay would read, oldest first
    acked             \* the records whose append() has returned

vars == <<log, acked>>

Init ==
    /\ log = <<>>
    /\ acked = {}

\* A record becomes part of the log, always behind every other one.
Write ==
    /\ \E r \in Rec : log' = Append(log, r)
    /\ UNCHANGED acked

\* append() returns: from now on the record may not disappear.
Acknowledge ==
    /\ \E i \in DOMAIN log : acked' = acked \cup {log[i]}
    /\ UNCHANGED log

Next == Write \/ Acknowledge

Spec == Init /\ [][Next]_vars
=============================================================================
