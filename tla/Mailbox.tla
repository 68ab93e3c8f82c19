------------------------------ MODULE Mailbox ------------------------------
(***************************************************************************)
(* What a queue between two parts of the program promises: every message   *)
(* is received once, in the order of sending, and none waits for ever.     *)
(* The queue of finished background executions implements it.              *)
(***************************************************************************)
EXTENDS Naturals, Sequences

CONSTANT Message

VARIABLES
    sent,             \* every message put into the mailbox, oldest first
    received          \* those taken out of it

vars == <<sent, received>>

Init ==
    /\ sent = <<>>
    /\ received = <<>>

Send ==
    /\ \E m \in Message : sent' = Append(sent, m)
    /\ UNCHANGED received

\* One or more messages are taken, always the oldest ones.
Receive ==
    /\ \E k \in (Len(received) + 1) .. Len(sent) :
           received' = SubSeq(sent, 1, k)
    /\ UNCHANGED sent

Next == Send \/ Receive

Spec == Init /\ [][Next]_vars /\ WF_vars(Receive)
=============================================================================
