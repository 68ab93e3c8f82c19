----------------------------- MODULE MCFunctions -----------------------------
(***************************************************************************)
(* The functions of History over short transcripts, those of Deferred over *)
(* short sessions, those of Hooks, Completion and Files over small inputs. *)
(* One step applies one function.                                          *)
(***************************************************************************)
EXTENDS HistoryFunctions, HookFunctions, DeferredFunctions

CONSTANT
    MaxText         \* bound: characters of a file, lines of a patch, deltas

C == INSTANCE Completion
F == INSTANCE Files

\* Failures, every exit code, and answers that grant, refuse, rewrite or stop.
SomeAnswers ==
    {H!Json("absent", H!None, H!Unspecific)}
    \cup {H!Json("absent", d, H!Unspecific) : d \in {"approve", "block", "bad"}}
    \cup {H!Json("false", H!None, H!Unspecific)}
    \cup {H!Json("absent", d, H!Specific(TRUE, p, i, H!None, H!None)) :
              d \in {H!None, "block"}, p \in {"allow", "ask", "deny"}, i \in Given}
    \cup {H!Json("absent", H!None, H!Specific(TRUE, H!None, H!None, o, c)) :
              o \in Given, c \in {H!None, "told"}}

SomeOutcomes ==
    {H!Raw(TRUE, 0, H!Plain("empty"))}
    \cup {H!Raw(FALSE, rc, H!Plain(k)) : rc \in 0 .. 2, k \in {"empty", "text", "notobject"}}
    \cup {H!Raw(FALSE, rc, a) : rc \in {0, 2}, a \in SomeAnswers}

SomeEntries == {H!Entry(e, m, s) : e \in {"Stop", "PreToolUse"}, m \in {{"*"}, {"bash"}},
                                   s \in {"script", H!None}}

\* Deltas of two calls; the second is a custom one.
Deltas == {C!Delta(i, i = 1, id, n, a) : i \in {0, 1}, id \in {<<>>, <<"id">>},
                                         n \in {<<>>, <<"n">>}, a \in {<<"x">>, <<"y">>}}

Times == {C!NoDelay} \cup {C!Delay(t) : t \in {-1, 0, 1, 3}}

Texts == BoundedSeq({"a", "b", F!NL}, MaxText)
Edits == {[text |-> t, old |-> o, new |-> n] : t \in Texts, o \in BoundedSeq({"a", "b"}, 2),
                                              n \in {<<>>, <<"x">>, <<"x", "x">>}}
LinesOfText == BoundedSeq({<<>>, <<"a">>, <<"b">>}, MaxText - 1)
Hunks == BoundedSeq({F!PatchLine(k, t) : k \in {"+", "-", " "}, t \in {<<>>, <<"a">>, <<"b">>}}, 3)

OtherInit ==
    /\ out = <<>>
    /\ \/ op = "deltas" /\ in \in BoundedSeq(Deltas, MaxText - 1)
       \/ op = "waits" /\ in \in [a : Times, b : Times, c : Times]
       \/ op = "edit" /\ in \in Edits
       \/ op = "lines" /\ in \in [lines : LinesOfText, size : 1 .. 3]
       \/ op = "hunk" /\ in \in [lines : LinesOfText, hunk : Hunks]

OfAnswer ==
    \/ op = "deltas" /\ Apply("calls", C!ToolCalls(in))
    \/ /\ op = "waits"
       /\ Apply("delays", <<C!HeaderDelay(IF in.a.seconds < 0 THEN C!NoDelay ELSE in.a, in.b, in.c),
                            C!ZaiDelay(in.a, FALSE, 1, 2),
                            C!ZaiDelay(in.a, TRUE, 1, 2),
                            C!KimiDelay({[remaining |-> C!Delay(0), reset |-> in.a],
                                         [remaining |-> in.b, reset |-> in.c]}, 2)>>)

OfFiles ==
    \/ op = "edit" /\ \E all \in BOOLEAN :
          Apply(IF all THEN "edited all" ELSE "edited",
                F!Update(in.text, in.old, in.new, all))
    \/ op = "lines" /\ Apply("pages", [k \in 1 .. Len(in.lines) |->
          F!Shown(in.lines, <<(k - 1) * in.size + 1>>, <<in.size>>, 100)])
    \/ op = "hunk" /\ Apply("patched",
          F!Patched(F!Joined([i \in DOMAIN in.lines |-> F!PatchLine(" ", in.lines[i])]),
                    <<F!PatchLine("file", <<>>), F!PatchLine("@@", <<>>)>> \o in.hunk))

FunctionInit == TranscriptInit \/ HookInit \/ DeferredInit \/ OtherInit

FunctionNext == UNCHANGED in /\ (OfTranscript \/ OfHooks \/ OfAnswer \/ OfFiles \/ OfTools)

FunctionSpec == FunctionInit /\ [][FunctionNext]_functionVars
-----------------------------------------------------------------------------
(* Completion                                                              *)

\* However the server interleaves the deltas of its calls, every call is there
\* once, in the order of the indexes, with its own fragments in their order.
StreamFaithful ==
    op = "calls" =>
        LET of(i) == SelectSeq(in, LAMBDA d : d.index = i)
            streamed == SelectSeq(<<0, 1>>, LAMBDA i : of(i) # <<>>)
            flat(i, f) == FlattenSeq([k \in DOMAIN of(i) |-> of(i)[k][f]])
        IN  out = [k \in DOMAIN streamed |->
                      [id |-> flat(streamed[k], "id"), name |-> flat(streamed[k], "name"),
                       arguments |-> flat(streamed[k], "input")]]

\* A wait is never negative as long as retry-after-ms is not, and one read out of
\* a body or a quota page is never longer than the limit for its kind.
WaitsSane ==
    op = "delays" =>
        /\ \A i \in 1 .. 4 : out[i].seconds >= 0
        /\ out[2].seconds <= 1 /\ out[3].seconds <= 2 /\ out[4].seconds <= 2

\* What the client makes of the provider's pieces and headers.
ClientExact == StreamFaithful /\ WaitsSane

-----------------------------------------------------------------------------
(* Files                                                                   *)

Occurs(text, old) == \E i \in 0 .. Len(text) : F!OccursAfter(text, old, i)

\* An edit replaces the first occurrence and nothing else, or all of them; it is
\* refused when there is none ("the exact byte sequence of old_str must be
\* present in the file, else the edit is refused").
EditExact ==
    /\ op \in {"edited", "edited all"} =>
          /\ out.ok = Occurs(in.text, in.old)
          /\ ~out.ok => out.text = in.text
    /\ op = "edited" /\ out.ok =>
          LET at == CHOOSE i \in 0 .. Len(in.text) :
                       /\ F!OccursAfter(in.text, in.old, i)
                       /\ \A j \in 0 .. i - 1 : ~F!OccursAfter(in.text, in.old, j)
          IN  out.text = SubSeq(in.text, 1, at) \o in.new
                            \o SubSeq(in.text, at + Len(in.old) + 1, Len(in.text))
    /\ op = "edited all" /\ out.ok =>
          /\ in.old # <<>> /\ in.new # <<>> => ~Occurs(out.text, in.old)
          /\ Len(out.text) = Len(in.text) + out.done * (Len(in.new) - Len(in.old))

\* Pages of the same size, one after the other, are the file.
PagesCover == op = "pages" => FlattenSeq(out) = in.lines

\* A hunk whose old lines are in the file once is applied there, line by line:
\* they give way to its new lines, or, if it has none, to one empty line
\* (tool_library.py 305-307 join no lines to an empty text between two newlines).
PatchLineByLine ==
    op = "patched" =>
        LET texts(marks) == [i \in DOMAIN SelectSeq(in.hunk, LAMBDA l : l.mark \in marks) |->
                                SelectSeq(in.hunk, LAMBDA l : l.mark \in marks)[i].text]
            old == texts({"-", " "})
            kept == texts({"+", " "})
            new == IF kept = <<>> THEN << <<>> >> ELSE kept
            join(ls) == F!Joined([i \in DOMAIN ls |-> F!PatchLine(" ", ls[i])])
            places == {i \in 0 .. Len(in.lines) - Len(old) :
                          SubSeq(in.lines, i + 1, i + Len(old)) = old}
            found == {i \in 0 .. Len(join(in.lines)) :
                          F!OccursAfter(join(in.lines), join(old), i)}
        IN  old # <<>> /\ Cardinality(places) = 1 /\ Cardinality(found) = 1 =>
                \E i \in places :
                    out.text = join(SubSeq(in.lines, 1, i) \o new
                                       \o SubSeq(in.lines, i + Len(old) + 1, Len(in.lines)))

\* The file tools do to a file what they were asked to (t_read, t_update,
\* _apply_patch_format), or nothing.
FilesExact == EditExact /\ PagesCover /\ PatchLineByLine
=============================================================================
