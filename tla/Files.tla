------------------------------- MODULE Files -------------------------------
(***************************************************************************)
(* The file tools (agentknit/tool_library.py): the window t_read returns,  *)
(* the replacement t_update makes, and the edit _apply_patch_format makes  *)
(* of a patch.  A text is a sequence of characters, NL one of them.        *)
(***************************************************************************)
EXTENDS Integers, SequencesExt, FiniteSetsExt

NL == "nl"

\* Mutant: the line after the window is shown, too.
SliceInclusive(s, from, to) == SubSeq(s, from + 1, Min({to + 1, Len(s)}))

\* A Python slice s[from:to] with to counted from the end when it is negative.
Slice(s, from, to) ==
    LET end == IF to < 0 THEN Len(s) + to ELSE to
        last == IF end > Len(s) THEN Len(s) ELSE end
    IN  SubSeq(s, from + 1, last)

-----------------------------------------------------------------------------
(* t_read                                                                  *)

\* The lines shown: all, a window of limit lines from offset (counted from 1),
\* or the first ones of a file longer than page when no window is given.  Either
\* number is <<>> or <<n>>.
Shown(lines, offset, limit, page) ==
    LET start == IF offset = <<>> THEN 0 ELSE Max({0, offset[1] - 1})
    IN  IF offset \o limit = <<>>
        THEN IF Len(lines) > page THEN Slice(lines, 0, page) ELSE lines
        ELSE Slice(lines, start, IF limit = <<>> THEN Len(lines) ELSE start + limit[1])

-----------------------------------------------------------------------------
(* t_update                                                                *)

\* Whether old starts after the first i characters.
OccursAfter(text, old, i) ==
    i + Len(old) <= Len(text) /\ SubSeq(text, i + 1, i + Len(old)) = old

\* What is left of an occurrence after its first character.
RestOf(old) == Len(old) - 1

\* str.replace and str.count: from the left, never overlapping; skip is what is
\* left of the occurrence being replaced.
Replaced(text, old, new, most) ==
    LET Step(st, i) ==
            IF st.skip > 0 THEN [st EXCEPT !.skip = @ - 1]
            ELSE IF OccursAfter(text, old, i - 1) /\ st.done < most
            THEN [out |-> st.out \o new \o (IF old = <<>> THEN <<text[i]>> ELSE <<>>),
                  done |-> st.done + 1,
                  skip |-> IF old = <<>> THEN 0 ELSE RestOf(old)]
            ELSE [st EXCEPT !.out = Append(@, text[i])]
        end == FoldLeftDomain(Step, [out |-> <<>>, done |-> 0, skip |-> 0], text)
    IN  IF old = <<>> /\ end.done < most
        THEN [end EXCEPT !.out = @ \o new, !.done = @ + 1] ELSE end

\* The edit is refused when old is not in the text.  n counts occurrences.
Update(text, old, new, all) ==
    LET n == Replaced(text, old, new, Len(text) + 1).done
        most == IF all THEN n ELSE 1
    IN  IF n = 0 THEN [ok |-> FALSE, text |-> text, done |-> 0, n |-> 0]
        ELSE [ok |-> TRUE, text |-> Replaced(text, old, new, most).out,
              done |-> most, n |-> n]

-----------------------------------------------------------------------------
(* _apply_patch_format                                                     *)

\* A line of a patch: a file header, "@@", another "*** " line, or a line of
\* text with "-", "+" or a context mark in front.
PatchLine(mark, text) == [mark |-> mark, text |-> text]

\* The lines after the first "@@" up to a "*** " line, further "@@" aside.
HunkLines(patch) ==
    LET at == SelectInSeq(patch, LAMBDA l : l.mark = "@@")
        body == IF at = 0 THEN <<>> ELSE SubSeq(patch, at + 1, Len(patch))
        stop == SelectInSeq(body, LAMBDA l : l.mark \in {"file", "***"})
    IN  SelectSeq(IF stop = 0 THEN body ELSE SubSeq(body, 1, stop - 1),
                  LAMBDA l : l.mark # "@@")

Joined(ls) ==
    FoldLeftDomain(LAMBDA text, i : text \o (IF i = 1 THEN <<>> ELSE <<NL>>) \o ls[i].text,
                   <<>>, ls)

\* What is looked for and what it becomes: everything of the first file's hunks,
\* put together.
OldOf(patch) == Joined(SelectSeq(HunkLines(patch), LAMBDA l : l.mark # "+"))
NewOf(patch) == Joined(SelectSeq(HunkLines(patch), LAMBDA l : l.mark # "-"))

Patched(text, patch) == Update(text, OldOf(patch), NewOf(patch), FALSE)
=============================================================================
