--------------------------- MODULE HookFunctions ---------------------------
(***************************************************************************)
(* The functions of Hooks applied to what the handlers of an event can     *)
(* come up with and to what can be registered, and what they promise.  One *)
(* step combines the decisions of an event, or dedupes a registry.         *)
(***************************************************************************)
EXTENDS Integers, SequencesExt, FunctionStep

CONSTANTS
    MaxHandlers,    \* bound: handlers of one event, entries of a registry
    Rewritings,     \* what a handler can make of an input or an output
    Outcomes,       \* what running a handler can end in
    Entries         \* what can be registered

H == INSTANCE Hooks

Given == Rewritings \cup {H!None}

Specifics ==
    [named : BOOLEAN, perm : {H!None, "allow", "ask", "deny"}, input : Given, output : Given,
     ctx : {H!None, "told"}]

\* An object on stdout; it need not fit the event.
Objects ==
    [kind : {"empty", "text", "notobject", "object"}, cont : {"absent", "false", "bad"},
     decision : {H!None, "approve", "block", "bad"}, specific : Specifics]

ASSUME HookAssumption ==
    /\ MaxHandlers \in Nat
    /\ H!None \notin Rewritings
    /\ Outcomes \subseteq [failed : BOOLEAN, rc : Int, out : Objects]

HookInputs == [event : H!HookEvents, raws : BoundedSeq(Outcomes, MaxHandlers)]
Registries == BoundedSeq(Entries, MaxHandlers + 1)

HookInit ==
    /\ out = <<>>
    /\ \/ op = "hooks" /\ in \in HookInputs
       \/ op = "entries" /\ in \in Registries

OfHooks ==
    \/ op = "hooks" /\ Apply("decision", H!RunHooks(in.event, in.raws))
    \/ op = "entries" /\ Apply("deduped", H!Dedupe(in))

HookNext == UNCHANGED in /\ OfHooks

HookSpec == HookInit /\ [][HookNext]_functionVars
-----------------------------------------------------------------------------
\* A handler that says no: exit 2, or an object that fits its event.
Refuses(r) ==
    /\ ~r.failed
    /\ \/ r.rc = 2
       \/ /\ r.out.kind = "object" /\ ~H!Invalid("PreToolUse", r.out)
          /\ r.out.decision = "block" \/ r.out.specific.perm = "deny"

\* "any deny wins over ask which wins over allow; any exit-2-style block counts
\* as deny" (combine_decisions): one handler that refuses keeps the call from
\* running, whatever the others grant.
RefusalStands ==
    op = "decision" /\ in.event = "PreToolUse" =>
        \A interactive \in BOOLEAN :
            (H!Gate(out, interactive) = "refused")
                <=> \E i \in DOMAIN in.raws : Refuses(in.raws[i])

\* The input a tool is run with was written by a handler whose own permission is
\* the one that was decided: what a weaker one rewrote is dropped.
InputFromWinner ==
    op = "decision" /\ out.input # H!None =>
        \E i \in DOMAIN in.raws :
            LET d == H!Normalize(in.event, in.raws[i])
            IN  d.input = out.input /\ d.perm = out.perm

\* What a PreToolUse event lets through: nothing that was refused, and no input
\* but the deciding handler's (_fire_hooks in _handle_tool_call).
GateSound == RefusalStands /\ InputFromWinner

\* Whose rewriting is used is left out, not whether there is one.
WithoutWriter(d) == [d EXCEPT !.input = @ # H!None, !.output = @ # H!None]

\* Handlers run concurrently: the order they are registered in decides nothing
\* but whose rewriting is used when several rewrite.
OrderFree ==
    op = "decision" =>
        \A p \in Bijection(DOMAIN in.raws, DOMAIN in.raws) :
            WithoutWriter(H!RunHooks(in.event, [i \in DOMAIN in.raws |-> in.raws[p[i]]]))
                = WithoutWriter(out)

\* A handler that timed out, crashed, or printed what its event does not take.
Broken(event, r) ==
    \/ r.failed
    \/ r.rc # 2 /\ r.out.kind = "notobject"
    \/ r.rc \notin {0, 2} /\ r.out.kind # "object"
    \/ r.rc # 2 /\ r.out.kind = "object" /\ H!Invalid(event, r.out)

\* A broken handler decides nothing (normalize: "Failures are non-blocking"): but
\* for the error that is reported, it might as well not have been registered.
BrokenHarmless ==
    op = "decision" =>
        \A i \in DOMAIN in.raws :
            Broken(in.event, in.raws[i]) =>
                [H!RunHooks(in.event, RemoveAt(in.raws, i)) EXCEPT !.error = TRUE] = out

\* A script registered twice runs once for what it matched, and nothing that was
\* registered is forgotten.
DedupedOnce ==
    op = "deduped" =>
        /\ ToSet(out) = ToSet(in)
        /\ \A i, j \in DOMAIN out : out[i] = out[j] /\ i # j => out[i].script = H!None

\* Handlers do not get in each other's way (register, run_hooks, normalize).
HooksIndependent == OrderFree /\ DedupedOnce /\ BrokenHarmless
=============================================================================
