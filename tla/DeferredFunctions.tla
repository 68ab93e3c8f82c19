------------------------- MODULE DeferredFunctions -------------------------
(***************************************************************************)
(* Sessions with deferred tools: whatever sequence of searches, prompts,   *)
(* compactions, /clear and resumes one goes through, and what it keeps.    *)
(* One step plays a whole sequence.                                        *)
(***************************************************************************)
EXTENDS Deferred, FunctionStep

CONSTANTS
    Catalog,        \* the deferred tools, numbered
    Finds,          \* sets of tools a search may name, in the catalog or not
    MaxKept,        \* bound: turns a compaction keeps
    MaxEvents       \* bound: events of a session

ASSUME DeferredAssumption ==
    /\ Catalog \subseteq Nat
    /\ MaxKept \in Nat /\ MaxEvents \in Nat

\* A search finds tools and a compaction keeps turns; the others do neither.
Event(kind, tools, keep) == [kind |-> kind, tools |-> tools, keep |-> keep]

Events ==
    {Event("search", names, 0) : names \in Finds}
    \cup {Event("compact", {}, keep) : keep \in 0 .. MaxKept}
    \cup {Event(kind, {}, 0) : kind \in {"prompt", "clear", "resume"}}

Happen(s, e) ==
    CASE e.kind = "search"  -> HandleSearch(s, e.tools)
      [] e.kind = "compact" -> CompactSession(s, e.keep)
      [] e.kind = "prompt"  -> NextPrompt(s)
      [] e.kind = "clear"   -> ClearSession(s)
      [] e.kind = "resume"  -> ResumeSession(s)

Played(mode, events) == FoldLeft(Happen, Prepared(mode, Catalog), events)

DeferredInit ==
    /\ out = <<>>
    /\ op = "deferred"
    /\ in \in [mode : {"kimi", "glm"}, events : BoundedSeq(Events, MaxEvents)]

OfTools == op = "deferred" /\ Apply("revealed", Played(in.mode, in.events))

DeferredNext == UNCHANGED in /\ OfTools

DeferredSpec == DeferredInit /\ [][DeferredNext]_functionVars
-----------------------------------------------------------------------------
\* Whether this event makes a session of this mode forget what was found.
Forgets(mode, e) == mode = "glm" /\ e.kind \in {"clear", "resume"}

\* What the searches among the first n events found and nothing since forgot.
Found(mode, events, n) ==
    UNION {events[i].tools : i \in {k \in 1 .. n : \A j \in k .. n : ~Forgets(mode, events[j])}}

\* The places where a history declares tool n.
Declares(m, n) == m.role = "system" /\ <<"tool", n>> \in m.text
Declared(h, n) == {i \in DOMAIN h : Declares(h[i], n)}

\* "A revealed tool stays available on later turns [...]; compaction must
\* therefore keep or re-create it" (_deferred_tools.py): whatever else happened,
\* what a search found can be called; with glm, what was found since the last
\* /clear or resume, which forget the rest.  The summary is asked for without
\* references, and one process of a kimi session declares no tool twice.
RevealedKept ==
    op = "revealed" =>
        /\ Found(in.mode, in.events, Len(in.events)) \cap Catalog \subseteq Callable(out)
        /\ Named(out.asked, "ref") = {}
        /\ (\A i \in DOMAIN in.events : in.events[i].kind # "resume") =>
              \A n \in Catalog : Cardinality(Declared(out.messages, n)) <= 1
=============================================================================
