------------------------------ MODULE History ------------------------------
(***************************************************************************)
(* The conversation history (session["messages"]) and the pure functions   *)
(* of agentknit/_core.py that rewrite it: the pairing repair, the          *)
(* normalisation of a resumed transcript, flattening, and compaction.      *)
(*                                                                         *)
(* A message keeps what those functions look at.  Its text is the set of   *)
(* things it says, each a pair <<kind, number>>: <<"task", 2>> is the      *)
(* second prompt, <<"res", 3>> the result of the third tool call.          *)
(***************************************************************************)
EXTENDS SequencesExt

NoCall == 0                      \* tool_call_id of a message that has none

Message(role, calls, id, text) ==
    [role |-> role, calls |-> calls, id |-> id, text |-> text]

System == Message("system", <<>>, NoCall, {})
User(text) == Message("user", <<>>, NoCall, text)
Assistant(text) == Message("assistant", <<>>, NoCall, text)
\* An assistant message with tool_calls; a call is its id and its number.
Calling(calls) == Message("assistant", calls, NoCall, {})
ToolResult(id, text) == Message("tool", <<>>, id, text)
\* Mutant: the placeholder lacks its tool_call_id.
LostWithoutId(id) == ToolResult(NoCall, {<<"lost", id>>})

\* "[tool result lost: ... was interrupted before completing ...]"
Lost(id) == ToolResult(id, {<<"lost", id>>})
Summary == Assistant({<<"summary", 0>>})

\* The messages of a history whose role is among these.
OfRoles(h, roles) ==
    FoldLeft(LAMBDA out, m : IF m.role \in roles THEN Append(out, m) ELSE out, <<>>, h)

EndsWithUser(h) == h # <<>> /\ Last(h).role = "user"

\* Everything a history says.
Mentions(h) == UNION {h[i].text : i \in DOMAIN h}
\* The tool calls a history makes, and the ids it uses for them.
CallsOf(h) == UNION {{h[i].calls[k] : k \in DOMAIN h[i].calls} : i \in DOMAIN h}
CallIds(h) == UNION {{h[i].calls[k].id : k \in DOMAIN h[i].calls} : i \in DOMAIN h}
\* The ids its tool messages answer.
AnsweredIds(h) == {h[i].id : i \in {j \in DOMAIN h : h[j].role = "tool"}}
-----------------------------------------------------------------------------
(* _repair_tool_call_pairing                                               *)

Placeholders(ids) == [k \in DOMAIN ids |-> Lost(ids[k])]

RepairForgetsAnswer(r, m) ==
    IF m.role = "tool"
    THEN IF Contains(r.open, m.id) THEN [r EXCEPT !.out = Append(@, m)] ELSE r
    ELSE [out  |-> Append(r.out \o Placeholders(r.open), m),
          open |-> [k \in DOMAIN m.calls |-> m.calls[k].id]]

\* r.open are the calls of the last assistant message not answered yet.  Any
\* other message closes them with placeholders; a tool message that answers
\* none of them is dropped.
RepairOne(r, m) ==
    IF m.role = "tool"
    THEN IF Contains(r.open, m.id)
         THEN [out |-> Append(r.out, m), open |-> RemoveFirst(r.open, m.id)]
         ELSE r
    ELSE [out  |-> Append(r.out \o Placeholders(r.open), m),
          open |-> [k \in DOMAIN m.calls |-> m.calls[k].id]]

Repair(h) ==
    LET r == FoldLeft(RepairOne, [out |-> <<>>, open |-> <<>>], h)
    IN  r.out \o Placeholders(r.open)
-----------------------------------------------------------------------------
(* _normalise_for_resume and _flatten_tool_calls                           *)

\* Append m, or add its text to the last message when both have this role.
MergeOne(role, out, m) ==
    IF m.role = role /\ out # <<>> /\ Last(out).role = role
    THEN [out EXCEPT ![Len(out)].text = @ \cup m.text]
    ELSE Append(out, m)

MergeUsers(h) == FoldLeft(LAMBDA out, m : MergeOne("user", out, m), <<>>, h)

MergeAssistants(h) ==
    FoldLeft(LAMBDA out, m : MergeOne("assistant", out, m), <<>>, h)

\* A call and its result become one line "prior tool use: ... -> outcome" at
\* the place of the result; the calls never answered come at the very end, as
\* lines "prior tool use: ... -> unknown" that the merge makes one message.
FlattenOne(r, m) ==
    IF m.role = "tool"
    THEN [out  |-> Append(r.out, Assistant({<<"use", m.id>>} \cup m.text)),
          open |-> r.open \ {m.id}]
    ELSE IF m.role = "assistant" /\ m.calls # <<>>
    THEN [r EXCEPT !.open = @ \cup {m.calls[k].id : k \in DOMAIN m.calls}]
    ELSE [r EXCEPT !.out = Append(@, m)]

Flatten(h) ==
    LET r == FoldLeft(FlattenOne, [out |-> <<>>, open |-> {}], h)
    IN  MergeAssistants(IF r.open = {} THEN r.out
                        ELSE Append(r.out, Assistant({<<"use", id>> : id \in r.open})))

\* Mutant: consecutive user messages are not merged.
NormaliseUnmerged(h, flatten) == Repair(IF flatten THEN Flatten(h) ELSE h)

Normalise(h, flatten) ==
    Repair(IF flatten THEN Flatten(MergeUsers(h)) ELSE MergeUsers(h))
-----------------------------------------------------------------------------
(* _compact_once                                                           *)

NonSystem(h) == {i \in DOMAIN h : h[i].role # "system"}

\* Mutant: the split is not snapped to a user message.
SplitUnsnapped(h, keep) ==
    {i \in NonSystem(h) : i > Min(NonSystem(h))
                          /\ Cardinality({j \in NonSystem(h) : j >= i}) = keep}

\* Where the part kept raw begins: the last keep non-system messages, snapped
\* back to a user message, or forward when only the first message is left of
\* it.  No element when there is nothing to compact or no clean boundary.
SplitPoints(h, keep) ==
    LET ns    == NonSystem(h)
        start == CHOOSE i \in ns : Cardinality({j \in ns : j >= i}) = keep
        back  == {i \in (Min(ns) + 1) .. start : h[i].role = "user"}
        fwd   == {i \in start .. Len(h) : h[i].role = "user"}
    IN  IF Cardinality(ns) <= keep THEN {}
        ELSE IF keep = 0 THEN {Len(h) + 1}
        ELSE IF back # {} THEN {Max(back)}
        ELSE IF fwd # {} THEN {Min(fwd)}
        ELSE {}

\* The prefix becomes its system messages and one summary.
Compacted(h, split) ==
    OfRoles(SubSeq(h, 1, split - 1), {"system"}) \o <<Summary>> \o SubSeq(h, split, Len(h))

\* The values compact_session tries for keep while the provider rejects the
\* summary request as too large: halved again and again, and finally 0.
Attempts(keep) == {k \in 0 .. keep : \E i \in 0 .. keep : k = keep \div 2^i}

\* The histories compact_session may leave behind, starting with this keep.  An
\* attempt with nothing to compact ends it.
Compactions(h, keep) ==
    LET At(k) == {Compacted(h, s) : s \in SplitPoints(h, k)}
    IN  UNION {At(k) : k \in {k \in Attempts(keep) :
                               \A larger \in Attempts(keep) :
                                   larger > k => At(larger) # {}}}

-----------------------------------------------------------------------------
(* What the providers demand of a history                                  *)

\* The tool messages directly after h[i].
AnswersAfter(h, i) ==
    {j \in (i + 1) .. Len(h) : \A k \in (i + 1) .. j : h[k].role = "tool"}

\* Every call is answered once, directly after the message that makes it, and
\* no tool message answers anything else.
Paired(h) ==
    /\ \A i \in DOMAIN h :
          h[i].role # "tool" =>
              /\ Cardinality(AnswersAfter(h, i)) = Len(h[i].calls)
              /\ {h[j].id : j \in AnswersAfter(h, i)}
                    = {h[i].calls[k].id : k \in DOMAIN h[i].calls}
    /\ h # <<>> => h[1].role # "tool"

\* No two user messages in a row.
Alternates(h) ==
    \A i \in 1 .. (Len(h) - 1) : ~(h[i].role = "user" /\ h[i + 1].role = "user")

\* No id names two calls.
UniqueIds(h) ==
    \A i, j \in DOMAIN h : \A k \in DOMAIN h[i].calls, l \in DOMAIN h[j].calls :
        h[i].calls[k].id = h[j].calls[l].id => i = j /\ k = l
-----------------------------------------------------------------------------
(* What a conversation says, its recovery notes and system prompts aside   *)

Unnoted(m) == [m EXCEPT !.text = {x \in @ : x[1] \notin {"pending", "known"}}]

\* A system message, or a user message that was nothing but notes.
Aside(m) == m.role = "system" \/ (m.role = "user" /\ m.text = {})

WithoutNotes(h) ==
    FoldLeft(LAMBDA out, m : IF Aside(Unnoted(m)) THEN out ELSE Append(out, Unnoted(m)), <<>>, h)

Conversation(h) == Normalise(WithoutNotes(h), FALSE)
=============================================================================
