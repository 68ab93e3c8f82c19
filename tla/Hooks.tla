------------------------------- MODULE Hooks -------------------------------
(***************************************************************************)
(* The hook contract (agentknit/hooks.py) as functions: which handlers an  *)
(* event runs, what one handler's outcome means (normalize), how several   *)
(* decisions become one (combine_decisions), and what the tool handler     *)
(* makes of it (_handle_tool_call).                                        *)
(*                                                                         *)
(* Texts are abstract: a reason, a message or a context is there or not.   *)
(* A rewritten input or output is a value; None stands for "not given".    *)
(***************************************************************************)
EXTENDS SequencesExt

None == "none"

-----------------------------------------------------------------------------
(* Events                                                                  *)

CanBlock == {"PreToolUse", "UserPromptSubmit", "PostToolUse", "Stop",
             "SubagentStop", "PreCompact"}
PlainTextContext == {"SessionStart", "SubagentStart", "UserPromptSubmit"}
JsonRequired == {"Stop", "SubagentStop"}
TakesContext == CanBlock \cup {"SessionStart", "SubagentStart", "PostCompact"}
HookEvents == {"SessionStart", "SessionEnd", "UserPromptSubmit", "PreToolUse",
               "PostToolUse", "Stop", "PreCompact", "PostCompact", "Interrupt"}
NeverFire == {"PermissionRequest", "SubagentStart", "SubagentStop", "Notification"}
KnownEvents == HookEvents \cup NeverFire

-----------------------------------------------------------------------------
(* One handler                                                             *)

\* RawHookResult: it could not run or timed out (failed), or an exit code
\* with what is on stdout: nothing, a text, JSON that is no object, an object.
Raw(failed, rc, out) == [failed |-> failed, rc |-> rc, out |-> out]

\* An object on stdout; kind tells it from the other outputs.
Json(cont, decision, specific) ==
    [kind |-> "object", cont |-> cont, decision |-> decision, specific |-> specific]

\* hookSpecificOutput, with a hookEventName that matches or not.
Specific(named, perm, input, output, ctx) ==
    [named |-> named, perm |-> perm, input |-> input, output |-> output, ctx |-> ctx]
Unspecific == Specific(TRUE, None, None, None, None)

Plain(kind) == [Json("absent", None, Unspecific) EXCEPT !.kind = kind]

NoDecision == [error |-> FALSE, ctx |-> FALSE, block |-> FALSE, perm |-> None,
               input |-> None, output |-> None, stop |-> FALSE]

\* run_python_hook: a function's behaviour on the wire of a command hook.
RawOfPython(behaviour, object) ==
    CASE behaviour = "timeout"  -> Raw(TRUE, 0, Plain("empty"))
      [] behaviour = "block"    -> Raw(FALSE, 2, Plain("empty"))
      [] behaviour = "raises"   -> Raw(FALSE, 1, Plain("empty"))
      [] behaviour = "badtype"  -> Raw(FALSE, 1, Plain("empty"))
      [] behaviour = "nothing"  -> Raw(FALSE, 0, Plain("empty"))
      [] behaviour = "text"     -> Raw(FALSE, 0, Plain("text"))
      [] behaviour = "dict"     -> Raw(FALSE, 0, object)

\* _apply_json: the permission a "decision" and a "permissionDecision" give.
Permission(event, j) ==
    IF j.specific.perm # None THEN j.specific.perm
    ELSE IF event = "PreToolUse" /\ j.decision = "approve" THEN "allow"
    ELSE IF event = "PreToolUse" /\ j.decision = "block" THEN "deny"
    ELSE None

\* _apply_json, _apply_hook_specific: an object that does not fit the event.
Invalid(event, j) ==
    \/ j.cont = "bad"
    \/ j.cont = "false" /\ event = "PreToolUse"
    \/ j.decision = "bad"
    \/ j.decision # None /\ event \notin CanBlock
    \/ ~j.specific.named
    \/ j.specific.perm # None /\ event # "PreToolUse"
    \/ j.specific.input # None
       /\ ~(event = "PreToolUse" /\ Permission(event, j) \in {"allow", "ask"})
    \/ j.specific.output # None /\ event # "PostToolUse"
    \/ j.specific.ctx # None /\ event \notin TakesContext

Applied(event, j) ==
    [NoDecision EXCEPT !.stop = j.cont = "false",
                       !.block = j.decision = "block",
                       !.perm = Permission(event, j),
                       !.input = j.specific.input,
                       !.output = j.specific.output,
                       !.ctx = j.specific.ctx # None]

\* Mutant: what a handler that fails printed is told.
ErredTells == [NoDecision EXCEPT !.error = TRUE, !.ctx = TRUE]

\* What a handler that cannot be understood decides.
Erred == [NoDecision EXCEPT !.error = TRUE]

\* normalize: exit 2 blocks where the event can; an object on stdout counts
\* whatever the other exit codes say; everything else is an error or nothing.
Normalize(event, r) ==
    LET unusable == \/ r.out.kind = "notobject"
                    \/ r.out.kind = "object" /\ Invalid(event, r.out)
    IN  IF r.failed THEN Erred
        ELSE IF r.rc = 2 THEN
            [NoDecision EXCEPT
                !.error = unusable,
                !.block = event \in CanBlock,
                !.perm = IF event = "PreToolUse" THEN "deny" ELSE None]
        ELSE IF unusable THEN Erred
        ELSE IF r.out.kind = "object" THEN Applied(event, r.out)
        ELSE IF r.rc # 0 THEN Erred
        ELSE IF r.out.kind = "text"
        THEN [NoDecision EXCEPT !.ctx = event \in PlainTextContext,
                                !.error = event \in JsonRequired]
        ELSE NoDecision

-----------------------------------------------------------------------------
(* All handlers of an event                                                *)

\* The first value given in field f of these decisions of ds, or None.
FirstGiven(ds, these, f) ==
    LET given == {i \in these : ds[i][f] # None}
    IN  IF given = {} THEN None ELSE ds[Min(given)][f]

SomeDecision(ds, f) == \E i \in DOMAIN ds : ds[i][f]

\* Mutant: ask before deny.
StrongestAsks(ds) ==
    LET perms == {ds[i].perm : i \in DOMAIN ds}
    IN  IF "ask" \in perms THEN "ask"
        ELSE IF "deny" \in perms THEN "deny"
        ELSE IF "allow" \in perms THEN "allow" ELSE None

\* Mutant: the first handler with an opinion decides.
StrongestFirst(ds) == FirstGiven(ds, DOMAIN ds, "perm")

Strongest(ds) ==
    LET perms == {ds[i].perm : i \in DOMAIN ds}
    IN  IF "deny" \in perms THEN "deny"
        ELSE IF "ask" \in perms THEN "ask"
        ELSE IF "allow" \in perms THEN "allow" ELSE None

\* The handlers whose permission was decided.
Winners(ds, level) == {i \in DOMAIN ds : ds[i].perm = level}

\* combine_decisions: continue:false leaves only errors and contexts.
Combine(ds) ==
    LET told == [NoDecision EXCEPT !.error = SomeDecision(ds, "error"),
                                   !.ctx = SomeDecision(ds, "ctx")]
        level == Strongest(ds)
    IN  IF SomeDecision(ds, "stop") THEN [told EXCEPT !.stop = TRUE]
        ELSE [told EXCEPT !.perm = level,
                          !.input = IF level = None THEN None
                                    ELSE FirstGiven(ds, Winners(ds, level), "input"),
                          !.block = SomeDecision(ds, "block"),
                          !.output = FirstGiven(ds, DOMAIN ds, "output")]

\* run_hooks: the decisions of the handlers that run in the foreground.
RunHooks(event, raws) ==
    Combine([i \in DOMAIN raws |-> Normalize(event, raws[i])])

-----------------------------------------------------------------------------
(* What the tool handler does with it (_handle_tool_call)                  *)

\* PreToolUse: the call is refused, put to the user, or runs.
Gate(d, interactive) ==
    IF d.perm = "deny" \/ d.block THEN "refused"
    ELSE IF d.perm = "ask" /\ interactive THEN "asked"
    ELSE "runs"

\* PostToolUse: what the model sees instead of result.
Shown(d, result) ==
    IF d.block THEN "rejected" ELSE IF d.output # None THEN d.output ELSE result

-----------------------------------------------------------------------------
(* Registration                                                            *)

\* A HookEntry; script is what its command resolves to, None for a Python
\* hook or a shell one-liner.
Entry(event, matcher, script) == [event |-> event, matcher |-> matcher, script |-> script]

\* matcher_matches, HookEntry.matches: "*" matches everything, other matchers
\* are the set of names they match; no values means no matching.
Matches(e, values) ==
    values = {} \/ e.matcher = {"*"} \/ e.matcher \cap values # {}

Matching(es, event, values) ==
    SelectSeq(es, LAMBDA e : e.event = event /\ Matches(e, values))

SameHook(a, b) == a = b

\* dedupe_entries: a script runs once per event and matcher, at the place of
\* its first registration.
Dedupe(es) ==
    LET Kept(i) == es[i].script # None => \A j \in 1 .. i - 1 : ~SameHook(es[j], es[i])
    IN  FoldLeftDomain(LAMBDA kept, i : IF Kept(i) THEN Append(kept, es[i]) ELSE kept,
                       <<>>, es)

\* discover_hook_dir: a file below the directories dirs (the first is the event
\* its name stands for, or None), with the event its own name stands for;
\* hidden says that it, or a directory above it, is ignored.  The file
\* counts when its event is known, it is not nested deeper than an event and a
\* matcher, and it can be executed.
File(dirs, event, hidden, executable) ==
    [dirs |-> dirs, event |-> event, hidden |-> hidden, executable |-> executable]

EventOfFile(f) == IF f.dirs = <<>> THEN f.event ELSE f.dirs[1]

Discovered(f) ==
    /\ ~f.hidden /\ f.executable
    /\ EventOfFile(f) \in KnownEvents
    /\ Len(f.dirs) <= 2

\* parse_hooks_config: the handlers of a list of <<event, groups>> in order;
\* a group is <<matcher, handlers>>, a handler that is no command is None.
Parsed(config) ==
    LET OfGroup(event, g) ==
            LET good == SelectSeq(g[2], LAMBDA h : h # None)
            IN  [i \in DOMAIN good |-> Entry(event, g[1], good[i])]
        OfEvent(c) == IF c[1] \notin KnownEvents THEN <<>>
                      ELSE FlattenSeq([i \in DOMAIN c[2] |-> OfGroup(c[1], c[2][i])])
    IN  FlattenSeq([i \in DOMAIN config |-> OfEvent(config[i])])
=============================================================================
