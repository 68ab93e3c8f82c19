-------------------------- MODULE HistoryFunctions --------------------------
(***************************************************************************)
(* The functions of History applied to the transcripts a session can hold  *)
(* or a journal can replay, and what they promise.  One step applies one   *)
(* function.  (Its names differ from those of DurableSession, so that one  *)
(* module of proofs can use the lemmas about both.)                        *)
(***************************************************************************)
EXTENDS History, FunctionStep

CONSTANTS
    MaxLen,         \* bound: messages in a transcript
    KeepLast        \* compaction_keep_last_turns

ASSUME FunctionBounds == MaxLen \in Nat /\ KeepLast \in Nat

\* Every kind of message, with up to two calls.
Messages ==
    {System, User({<<"task", 1>>}), User({<<"task", 2>>}), Assistant({<<"reply", 0>>})}
    \cup {Calling(c) : c \in {<<[id |-> 1, n |-> 1]>>, <<[id |-> 2, n |-> 2]>>,
                              <<[id |-> 1, n |-> 1], [id |-> 2, n |-> 2]>>}}
    \cup {ToolResult(id, {<<"res", id>>}) : id \in {1, 2}}

Transcripts == {h \in BoundedSeq(Messages, MaxLen) : UniqueIds(h)}

\* A transcript the session itself built, cut anywhere by a crash: calls may
\* lack their results, but every result follows its call.
Cut(h) ==
    /\ h # <<>> => h[1].role # "tool"
    /\ \A i \in DOMAIN h : h[i].role # "tool" =>
          /\ \A j \in AnswersAfter(h, i) : h[j].id \in CallIds(<<h[i]>>)
          /\ \A j, k \in AnswersAfter(h, i) : h[j].id = h[k].id => j = k

TranscriptInit == out = <<>> /\ op = "transcript" /\ in \in Transcripts

OfTranscript ==
    /\ op = "transcript"
    /\ \/ Apply("repair", Repair(in))
       \/ Cut(in) /\ Apply("normalise", Normalise(in, FALSE))
       \/ Cut(in) /\ Apply("flatten", Normalise(in, TRUE))
       \/ \E h \in Compactions(in, KeepLast) : Paired(in) /\ Apply("compact", h)

TranscriptNext == UNCHANGED in /\ OfTranscript

TranscriptSpec == TranscriptInit /\ [][TranscriptNext]_functionVars
-----------------------------------------------------------------------------
NonTool(h) == OfRoles(h, {"system", "user", "assistant"})

\* What _repair_tool_call_pairing promises ("Guarantee every tool_call has a
\* tool message and vice versa"), for any transcript: the result is paired,
\* nothing but tool messages is touched, and a real result that answers an
\* open call survives.
RepairCorrect ==
    op = "repair" =>
        /\ Paired(out)
        /\ NonTool(out) = NonTool(in)
        /\ \A i \in DOMAIN in : \A j \in AnswersAfter(in, i) :
              in[j].id \in CallIds(<<in[i]>>) => in[j] \in ToSet(out)

\* A transcript without orphans is left as it is, so repairing twice changes
\* nothing more: the turn loop repairs before every turn and resume repairs
\* what was journalled after an earlier repair.
RepairStable ==
    op = "repair" =>
        /\ Repair(out) = out
        /\ Paired(in) => out = in

\* The text of a transcript's user messages.
Said(h) == UNION {h[i].text : i \in {j \in DOMAIN h : h[j].role = "user"}}

\* Both: the repair of an orphaned transcript is exact and final.
RepairSound == RepairCorrect /\ RepairStable

\* A transcript cut by a crash is resumed paired, with the user/assistant
\* alternation the providers want, and with nothing the user said missing.
NormaliseApiSafe ==
    op = "normalise" => Paired(out) /\ Alternates(out) /\ Said(out) = Said(in)

\* Flattening leaves no tool structure behind and keeps one line per call, with
\* its outcome when it has one.
FlattenDropsStructure ==
    op = "flatten" =>
        /\ CallIds(out) = {} /\ AnsweredIds(out) = {}
        /\ \A id \in CallIds(in) : \E i \in DOMAIN out :
              /\ <<"use", id>> \in out[i].text
              /\ id \in AnsweredIds(in) => <<"res", id>> \in out[i].text

\* Both ways a recovered transcript reaches the provider (init_session).
ResumeSafe == NormaliseApiSafe /\ FlattenDropsStructure

\* Compaction never separates calls from their results, keeps every system
\* message, and what it keeps raw is the end of the history, starting with a
\* user message.
SummaryClean ==
    op = "compact" =>
        /\ Paired(out)
        /\ OfRoles(out, {"system"}) = OfRoles(in, {"system"})
        /\ \E i \in DOMAIN out :
              /\ out[i] = Summary
              /\ IsSuffix(SubSeq(out, i + 1, Len(out)), in)
              /\ i < Len(out) => out[i + 1].role = "user"
=============================================================================
