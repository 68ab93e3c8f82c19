----------------------------- MODULE Completion -----------------------------
(***************************************************************************)
(* What the HTTP client computes (agentknit/openai_compat.py): the wait a  *)
(* refused request asks for, and the message a streamed answer amounts to. *)
(*                                                                         *)
(* A fragment of an id, a name or an argument text is a value; a text is   *)
(* the sequence of its fragments.  Delays are in seconds from now.         *)
(***************************************************************************)
EXTENDS Integers, SequencesExt, FiniteSetsExt

NoDelay == [given |-> FALSE, seconds |-> 0]
Delay(s) == [given |-> TRUE, seconds |-> s]

AtLeastZero(n) == IF n < 0 THEN 0 ELSE n

-----------------------------------------------------------------------------
(* Waits                                                                   *)

\* A header: absent or not a number (or date), or a number of seconds.
\* _retry_delay_seconds: retry-after-ms, retry-after, x-ratelimit-reset-requests
\* in this order; the first one is taken as it is.
HeaderDelay(ms, after, reset) ==
    IF ms.given THEN ms
    ELSE IF after.given THEN Delay(AtLeastZero(after.seconds))
    ELSE IF reset.given THEN Delay(AtLeastZero(reset.seconds))
    ELSE NoDelay

\* _retry_delay_for_z_ai: the body names a time; one beyond the limit (a longer
\* one for a long window) is not believed.
ZaiDelay(named, long, auto, window) ==
    IF ~named.given \/ named.seconds > (IF long THEN window ELSE auto) THEN NoDelay
    ELSE Delay(AtLeastZero(named.seconds))

\* _kimi_quota_reset_delay: the soonest reset of an exhausted window; a bucket
\* has what remains and the time of its reset, each perhaps unreadable.
Exhausted(b) == b.remaining.given /\ b.remaining.seconds <= 0 /\ b.reset.given

KimiDelay(buckets, auto) ==
    LET resets == {AtLeastZero(b.reset.seconds) : b \in {c \in buckets : Exhausted(c)}}
    IN  IF resets = {} \/ Min(resets) > auto THEN NoDelay ELSE Delay(Min(resets))

-----------------------------------------------------------------------------
(* A streamed answer                                                       *)

\* A delta of one tool call: its index, and the fragments it carries.
Delta(index, custom, id, name, input) ==
    [index |-> index, custom |-> custom, id |-> id, name |-> name, input |-> input]

NoCall == [custom |-> FALSE, id |-> <<>>, name |-> <<>>, input |-> <<>>, cname |-> <<>>,
           cinput |-> <<>>]

\* Mutant: a fragment of the arguments replaces those before it.
ExtendReplaces(call, d) ==
    LET known == [call EXCEPT !.id = @ \o d.id]
    IN  IF d.custom
        THEN [known EXCEPT !.custom = TRUE, !.cname = @ \o d.name, !.cinput = d.input]
        ELSE [known EXCEPT !.name = @ \o d.name, !.input = d.input]

\* _create_streaming: fragments go to the entry of their index, where those of
\* a custom call have fields of their own.
Extend(call, d) ==
    LET known == [call EXCEPT !.id = @ \o d.id]
    IN  IF d.custom
        THEN [known EXCEPT !.custom = TRUE, !.cname = @ \o d.name, !.cinput = @ \o d.input]
        ELSE [known EXCEPT !.name = @ \o d.name, !.input = @ \o d.input]

Assembled(deltas) ==
    FoldLeft(LAMBDA calls, d :
                 [i \in DOMAIN calls \cup {d.index} |->
                     LET before == IF i \in DOMAIN calls THEN calls[i] ELSE NoCall
                     IN  IF i = d.index THEN Extend(before, d) ELSE before],
             <<>>, deltas)

\* _parse_tool_call: an entry with a custom part is a custom call, whose input
\* stands for the arguments too.
Parsed(call) ==
    IF call.custom THEN [id |-> call.id, name |-> call.cname, arguments |-> call.cinput]
    ELSE [id |-> call.id, name |-> call.name, arguments |-> call.input]

\* The calls of the message, in the order of their indexes.
ToolCalls(deltas) ==
    LET calls == Assembled(deltas)
        order == SetToSortSeq(DOMAIN calls, <)
    IN  [k \in DOMAIN order |-> Parsed(calls[order[k]])]

-----------------------------------------------------------------------------
(* Usage                                                                   *)

\* _parse_response: the first of the fields that is there, in their order.
FirstField(fields) ==
    LET given == SelectSeq(fields, LAMBDA f : f.given)
    IN  IF given = <<>> THEN 0 ELSE given[1].seconds

\* A provider proves its cache by naming a field, be it zero.
HasCacheProof(cached, created) ==
    \E i \in 1 .. Len(cached \o created) : (cached \o created)[i].given
=============================================================================
