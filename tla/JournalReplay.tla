--------------------------- MODULE JournalReplay ---------------------------
(***************************************************************************)
(* What a session journal means: the records the program writes, and the   *)
(* state replay_journal builds from them (agentknit/_journal.py).          *)
(*                                                                         *)
(* replay_journal reads the records in order and keeps, per call id, the   *)
(* calls that started and the calls that finished; JournalFile shows that  *)
(* the records it reads are the records that were appended.  So the        *)
(* journal of a session is represented by the state its replay is in.      *)
(***************************************************************************)
EXTENDS History

\* The record builders of SessionJournal.
TurnStart == [type |-> "turn_start"]
TurnEnd == [type |-> "turn_end"]
Appended(m) == [type |-> "message", msg |-> m]
Reset(h) == [type |-> "reset_messages", messages |-> h]
ToolStart(c) == [type |-> "tool_start", call |-> c]
ToolEnd(c) == [type |-> "tool_end", call |-> c]

EmptyJournal ==
    [some     |-> FALSE,   \* at least one record was replayed
     messages |-> <<>>,    \* the history
     pending  |-> {},      \* calls with a tool_start and no tool_end
     finished |-> {},      \* calls with a tool_end, the last one of each id
     open     |-> 0]       \* turns started and not ended

\* A dictionary keyed by call id: a later call with the same id replaces it.
Without(calls, c) == {d \in calls : d.id # c.id}

StartCall(j, c) == [j EXCEPT !.pending = Without(@, c) \cup {c}]

\* Mutant: tool_end leaves the call pending.
EndCallPending(j, c) == [j EXCEPT !.finished = Without(@, c) \cup {c}]

EndCall(j, c) ==
    [j EXCEPT !.pending = Without(@, c), !.finished = Without(@, c) \cup {c}]

\* Mutant: a replaced history starts a fresh state.
StartOver(j, h) == [EmptyJournal EXCEPT !.some = TRUE, !.messages = h]

ReplaceHistory(j, h) == [j EXCEPT !.messages = h]

\* replay_journal, one record.
Replay(j, rec) ==
    LET k == [j EXCEPT !.some = TRUE]
    IN  CASE rec.type = "message"        -> [k EXCEPT !.messages = Append(@, rec.msg)]
          [] rec.type = "reset_messages" -> ReplaceHistory(k, rec.messages)
          [] rec.type = "tool_start"     -> StartCall(k, rec.call)
          [] rec.type = "tool_end"       -> EndCall(k, rec.call)
          [] rec.type = "turn_start"     -> [k EXCEPT !.open = @ + 1]
          [] rec.type = "turn_end"       -> [k EXCEPT !.open = IF @ > 0 THEN @ - 1 ELSE @]

\* The process died inside a turn.
MidTurn(j) == j.open > 0

\* Mutants: a result counts as received when its call is in the history; never.
UnreceivedByCall(j) == {c \in j.finished : c.id \notin CallIds(j.messages)}
UnreceivedAll(j) == j.finished

\* Results recorded whose tool message never joined the history.
Unreceived(j) == {c \in j.finished : c.id \notin AnsweredIds(j.messages)}
=============================================================================
