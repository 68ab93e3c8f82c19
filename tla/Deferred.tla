------------------------------ MODULE Deferred ------------------------------
(***************************************************************************)
(* Tools that are hidden from the model until a search finds them          *)
(* (agentknit/_deferred_tools.py), and what becomes of those found when    *)
(* the history that shows them is compacted, cleared or resumed.           *)
(*                                                                         *)
(* A message that reveals tools names them in its text: <<"tool", n>> in a *)
(* system message that declares tool n (mode kimi), <<"ref", n>> in a tool *)
(* result that refers to it (mode glm).  What a search finds is any set of *)
(* names: the search function may be the user's own.                       *)
(***************************************************************************)
EXTENDS History

Declaration(names) == Message("system", <<>>, NoCall, {<<"tool", n>> : n \in names})
References(id, names) == ToolResult(id, {<<"ref", n>> : n \in names})

\* The tools named one way in a history.
Named(h, how) ==
    {t[2] : t \in {u \in UNION {h[i].text : i \in DOMAIN h} : u[1] = how}}

\* A session with deferred tools; its first prompt has just been given.
Prepared(mode, deferred) ==
    [mode |-> mode, catalog |-> deferred, hidden |-> deferred, revealed |-> {},
     asked |-> <<>>, messages |-> <<System, User({<<"task", 0>>})>>]

\* Mutant: every declaration is repeated whenever a search finds it again.
HandleSearchAgain(s, found) ==
    LET hits == found \cap s.catalog
        id   == Len(s.messages) + 1
    IN  [s EXCEPT !.revealed = @ \cup hits,
                  !.messages = @ \o <<Calling(<<[id |-> id, n |-> id]>>), References(id, hits)>>
                                 \o (IF hits = {} THEN <<>> ELSE <<Declaration(hits)>>)]

\* One step of the model: it searches, and is answered.  Only tools of the
\* catalog count, and kimi is told of each one once.
HandleSearch(s, found) ==
    LET hits   == found \cap s.catalog
        new    == hits \ s.revealed
        id     == Len(s.messages) + 1
        answer == IF s.mode = "glm" THEN References(id, hits) ELSE ToolResult(id, {})
        extra  == IF s.mode = "glm" \/ new = {} THEN <<>> ELSE <<Declaration(new)>>
    IN  [s EXCEPT !.revealed = @ \cup hits,
                  !.messages = @ \o <<Calling(<<[id |-> id, n |-> id]>>), answer>> \o extra]

\* The model replies and the user asks for the next thing.
NextPrompt(s) ==
    [s EXCEPT !.messages = @ \o <<Assistant({}), User({<<"task", Len(@)>>})>>]

\* The history as the request for a summary, which declares no tools, may show it.
BeforeCompaction(h) ==
    [i \in DOMAIN h |-> [h[i] EXCEPT !.text = {t \in @ : t[1] # "ref"}]]

\* Mutant: the tools whose references were summarised away are forgotten.
AfterCompactionForgets(s) == s

\* A revealed tool that no message refers to any more is hidden no longer.
AfterCompaction(s) ==
    IF s.mode = "glm"
    THEN [s EXCEPT !.hidden = @ \ (s.revealed \ Named(s.messages, "ref"))]
    ELSE s

\* compact_session with this keep; nothing happens without a clean boundary.
CompactSession(s, keep) ==
    IF SplitPoints(s.messages, keep) = {} THEN s
    ELSE LET split == Min(SplitPoints(s.messages, keep))
         IN  AfterCompaction([s EXCEPT !.asked = BeforeCompaction(SubSeq(s.messages, 1, split - 1)),
                                       !.messages = Compacted(@, split)])

\* /clear keeps the system messages, declarations among them; the next prompt follows.
ClearSession(s) ==
    [s EXCEPT !.messages = Append(OfRoles(@, {"system"}), User({<<"task", Len(@)>>}))]

\* A resumed process prepares its tools again and knows only the history.
ResumeSession(s) == [s EXCEPT !.revealed = {}, !.hidden = s.catalog]

\* The tools the next request lets the model call.
Callable(s) ==
    IF s.mode = "glm"
    THEN (s.catalog \ s.hidden) \cup (s.catalog \cap Named(s.messages, "ref"))
    ELSE Named(s.messages, "tool")
=============================================================================
