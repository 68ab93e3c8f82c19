--------------------------- MODULE AccountingProofs ---------------------------
(***************************************************************************)
(* Proofs about Accounting, for any window, trigger, budget and bounds:    *)
(* that compactions do not storm, and that what the session counts and     *)
(* tells of its tokens is what was reported.                               *)
(***************************************************************************)
EXTENDS Accounting, TLAPS

-----------------------------------------------------------------------------
(* Types                                                                   *)

LEMMA HelperTypes ==
    ASSUME TypeOK
    PROVE  /\ Hysteresis \in Nat
           /\ Counted \in Nat
           /\ \A p \in Nat : Left(p) \in Nat
           /\ Injection \in Countdowns \cup {None}
           /\ \A read \in BOOLEAN : Effective(read) \in Nat
<1>1. Hysteresis \in Nat
  BY SizesAssumption DEF Hysteresis
<1>2. Counted \in Nat
  BY SizesAssumption DEF Counted, TypeOK
<1>3. \A p \in Nat : Left(p) \in Nat
  BY SizesAssumption DEF Left
<1>4. Injection \in Countdowns \cup {None}
  <2>1. Left(size) \in Nat
    BY <1>3 DEF TypeOK
  <2> QED
    BY <2>1, Zenon DEF Injection, Countdowns
<1>5. \A read \in BOOLEAN : Effective(read) \in Nat
  BY DEF Effective, TypeOK
<1> QED
  BY <1>1, <1>2, <1>3, <1>4, <1>5

\* The type invariant in two parts: the flags, and everything else.
Flags ==
    /\ measurable \in BOOLEAN /\ armed \in BOOLEAN /\ stopActive \in BOOLEAN
    /\ old \in BOOLEAN /\ hit \in BOOLEAN

Sizes ==
    /\ policy \in {"threshold", "every_turn", "never"} /\ turn \in Phases
    /\ size \in Nat /\ prompt \in Nat /\ total \in Nat /\ maxTokens \in Nat
    /\ doubled \in 0 .. MaxDoublings /\ silent \in 0 .. MaxSilent
    /\ overflows \in 0 .. 3 /\ watermark \in Nat /\ firings \in Nat /\ calls \in Nat
    /\ pending \in Countdowns \cup {None} /\ told \in Countdowns \cup {None}
    /\ lastLeft \in Nat \cup {None}
    /\ status \in {"ok", "missing", "unmeasurable"}

LEMMA TypeParts == TypeOK <=> Flags /\ Sizes
  BY Zenon DEF TypeOK, Flags, Sizes

LEMMA TypePartsNext == TypeOK' <=> Flags' /\ Sizes'
  BY Zenon DEF TypeOK, Flags, Sizes

LEMMA TypeInit == Init => TypeOK
<1>1. Init => Flags
  BY Zenon DEF Init, Flags
<1>2. Init => Sizes
  BY SizesAssumption DEF Init, Sizes, Phases, Countdowns
<1> QED
  BY <1>1, <1>2, TypeParts

\* The end of a turn keeps types, whatever it does to the rest.
LEMMA TurnOverTypes ==
    ASSUME TypeOK, TurnOver, size' \in Nat, watermark' \in Nat, firings' \in Nat,
           calls' \in Nat, lastLeft' \in Nat \cup {None}, armed' \in BOOLEAN,
           old' \in BOOLEAN, hit' \in BOOLEAN,
           status' \in {"ok", "missing", "unmeasurable"}, UNCHANGED fixed
    PROVE  TypeOK'
<1>1. Flags'
  BY Zenon DEF TypeOK, Flags, TurnOver, fixed
<1>2. Sizes'
  BY SizesAssumption DEF TypeOK, Sizes, TurnOver, Phases, fixed
<1> QED
  BY <1>1, <1>2, TypePartsNext

LEMMA TypeStep == TypeOK /\ [Next]_vars => TypeOK'
<1> SUFFICES ASSUME TypeOK, [Next]_vars PROVE TypeOK'
  OBVIOUS
<1> USE SizesAssumption
<1>1. ASSUME NEW ok \in BOOLEAN, Overflow(ok) PROVE TypeOK'
  <2>1. /\ size' \in Nat /\ watermark' \in Nat /\ firings' \in Nat
    BY <1>1 DEF Overflow, CompactedTo, TypeOK
  <2>2. CASE TurnOver
    BY <1>1, <2>1, <2>2, TurnOverTypes DEF Overflow, TypeOK, cache, fixed
  <2>3. CASE ~TurnOver
    BY <1>1, <2>1, <2>3 DEF Overflow, TypeOK, cache, fixed, spending, Phases
  <2> QED
    BY <2>2, <2>3
<1>2. ASSUME NEW ok \in BOOLEAN, CompactMidTurn(ok) PROVE TypeOK'
  <2>1. /\ size' \in Nat /\ watermark' \in Nat /\ firings' \in Nat
    BY <1>2 DEF CompactMidTurn, CompactedTo, NewWatermark, compaction, TypeOK
  <2> QED
    BY <1>2, <2>1 DEF CompactMidTurn, TypeOK, fixed, spending, countdown, cache, Phases
<1>3. ASSUME NEW ok \in BOOLEAN, EndTurn(ok) PROVE TypeOK'
  <2>1. size' \in Nat
    BY <1>3 DEF EndTurn, CompactedTo, TypeOK
  <2> QED
    BY <1>3, <2>1, TurnOverTypes DEF EndTurn, TypeOK, compaction, cache, fixed
<1>4. ASSUME NEW proof \in BOOLEAN, NEW read \in BOOLEAN, NEW written \in BOOLEAN,
             Answered(proof, read, written)
      PROVE  TypeOK'
  <2>1. /\ calls' \in Nat /\ armed' \in BOOLEAN /\ hit' \in BOOLEAN
        /\ UNCHANGED <<size, compaction, old, fixed>>
    BY <1>4, HelperTypes DEF Answered, TypeOK
  <2>2. status' \in {"ok", "missing", "unmeasurable"}
    BY <1>4 DEF Answered, CacheStatus, TypeOK
  <2>3. lastLeft' \in Nat \cup {None}
    <3>1. CASE Injection = None
      BY <1>4, <3>1 DEF Answered, TypeOK
    <3>2. CASE Injection # None
      BY <1>4, <3>2, HelperTypes DEF Answered, Countdowns
    <3> QED
      BY <3>1, <3>2
  <2>4. CASE Unproven(proof)
    BY <1>4, <2>1, <2>2, <2>3, <2>4, TurnOverTypes DEF Answered, TypeOK, compaction
  <2>5. CASE ~Unproven(proof)
    <3>1. /\ turn' = "answered" /\ prompt' = size /\ total' = total + Effective(read)
          /\ overflows' = 0 /\ pending' = Injection /\ told' = None
          /\ UNCHANGED <<maxTokens, doubled, silent, stopActive>>
      BY <1>4, <2>5 DEF Answered, GoOn, PendingNow
    <3>2. total' \in Nat
      BY <3>1, HelperTypes DEF TypeOK
    <3>3. pending' \in Countdowns \cup {None}
      BY <3>1, HelperTypes
    <3> QED
      BY <2>1, <2>2, <2>3, <3>1, <3>2, <3>3 DEF TypeOK, compaction, fixed, Phases
  <2> QED
    BY <2>4, <2>5
<1>5. CASE AnsweredSilently
  <2>1. Flags'
    BY <1>5, Zenon DEF AnsweredSilently, TypeOK, Flags, fixed
  <2>2. Sizes'
    BY <1>5 DEF AnsweredSilently, TypeOK, Sizes, fixed, compaction, Phases
  <2> QED
    BY <2>1, <2>2, TypePartsNext
<1>6. CASE CheckBudget
  <2>1. CASE TurnOver
    BY <1>6, <2>1, TurnOverTypes DEF CheckBudget, TypeOK, compaction, cache, fixed
  <2>2. CASE ~TurnOver
    BY <1>6, <2>2
       DEF CheckBudget, TypeOK, compaction, cache, fixed, locals, spending, Phases
  <2> QED
    BY <2>1, <2>2
<1>7. CASE ToolCalls
  <2>0. old' \in BOOLEAN
    BY <1>7, Zenon DEF ToolCalls, Appended
  <2>1. size' \in Nat
    BY <1>7 DEF ToolCalls, Appended, TypeOK
  <2>2. armed' \in BOOLEAN
    BY <1>7 DEF ToolCalls, TypeOK
  <2> QED
    BY <1>7, <2>0, <2>1, <2>2 DEF ToolCalls, GoOn, TypeOK, fixed, compaction, Phases
<1>8. CASE FinalAnswer
  <2>1. Flags'
    BY <1>8, Zenon DEF FinalAnswer, Appended, TypeOK, Flags, fixed, locals
  <2>2. Sizes'
    BY <1>8
       DEF FinalAnswer, Appended, TypeOK, Sizes, fixed, locals, spending, compaction, Phases
  <2> QED
    BY <2>1, <2>2, TypePartsNext
<1>9. CASE StopBlocked
  <2>1. Flags'
    BY <1>9, Zenon DEF StopBlocked, Appended, TypeOK, Flags, fixed, countdown
  <2>2. Sizes'
    BY <1>9
       DEF StopBlocked, Appended, TypeOK, Sizes, fixed, spending, compaction, countdown,
           Phases
  <2> QED
    BY <2>1, <2>2, TypePartsNext
<1>10. CASE Aborts
  BY <1>10, TurnOverTypes DEF Aborts, TypeOK, compaction, cache, fixed
<1>11. CASE BeginTurn
  <2>1. Flags'
    BY <1>11, Zenon DEF BeginTurn, Appended, TypeOK, Flags, fixed, locals
  <2>2. Sizes'
    BY <1>11
       DEF BeginTurn, Appended, TypeOK, Sizes, fixed, locals, spending, compaction, Phases
  <2> QED
    BY <2>1, <2>2, TypePartsNext
<1>12. CASE Clear
  BY <1>12 DEF Clear, TypeOK, fixed, locals, spending, cache
<1>13. CASE Restore
  BY <1>13 DEF Restore, TypeOK, fixed, locals, spending, cache
<1>14. CASE Resume
  <2>1. /\ calls' \in Nat /\ lastLeft' \in Nat \cup {None} /\ armed' \in BOOLEAN
        /\ hit' \in BOOLEAN /\ status' \in {"ok", "missing", "unmeasurable"}
    BY <1>14 DEF Resume
  <2>2. /\ watermark' \in Nat /\ firings' \in Nat
        /\ UNCHANGED <<fixed, turn, size, locals, old>>
    BY <1>14 DEF Resume
  <2> QED
    BY <2>1, <2>2 DEF TypeOK, fixed, locals, spending
<1>15. CASE Away
  BY <1>15 DEF Away, TypeOK, fixed, locals, spending, compaction
<1>16. CASE UNCHANGED vars
  BY <1>16 DEF vars, TypeOK
<1> QED
  BY <1>1, <1>2, <1>3, <1>4, <1>5, <1>6, <1>7, <1>8, <1>9, <1>10, <1>11, <1>12,
     <1>13, <1>14, <1>15, <1>16 DEF Next, Turn

\* Every variable keeps its type.
THEOREM TypeCorrect == Spec => []TypeOK
<1>1. Init => TypeOK
  BY TypeInit
<1>2. TypeOK /\ [Next]_vars => TypeOK'
  BY TypeStep
<1> QED
  BY <1>1, <1>2, PTL DEF Spec

-----------------------------------------------------------------------------
(* No compaction storm                                                     *)

\* Every firing of the threshold adds one step to what the watermark has
\* climbed.
LEMMA OneMoreStep ==
    ASSUME NEW k \in Nat, NEW h \in Nat
    PROVE  ((k + 1) - 1) * (h + 1) = (k - 1) * (h + 1) + (h + 1)
  OBVIOUS

\* The tokens of the last answer fit the window; that bounds the watermark.
StormInv == prompt <= Window /\ StormBounded

\* Steps that neither count tokens nor compact, or that start over.
StormQuiet ==
    /\ prompt' \in {0, prompt}
    /\ UNCHANGED compaction \/ (watermark' = 0 /\ firings' = 0)

LEMMA StormQuietStep == TypeOK /\ StormInv /\ StormQuiet => StormInv'
<1> SUFFICES ASSUME TypeOK, StormInv, StormQuiet PROVE StormInv'
  OBVIOUS
<1>1. prompt' <= Window
  BY SizesAssumption DEF StormInv, StormQuiet, TypeOK
<1>2. CASE UNCHANGED compaction
  BY <1>1, <1>2 DEF StormInv, StormBounded, compaction, Hysteresis
<1>3. CASE firings' = 0
  BY <1>1, <1>3 DEF StormInv, StormBounded
<1> QED
  BY <1>1, <1>2, <1>3 DEF StormInv, StormQuiet

LEMMA StormElsewhere ==
    ASSUME TypeOK,
           \/ \E ok \in BOOLEAN : Overflow(ok) \/ EndTurn(ok)
           \/ AnsweredSilently \/ CheckBudget \/ ToolCalls \/ FinalAnswer
           \/ StopBlocked \/ Aborts \/ BeginTurn \/ Clear \/ Restore \/ Resume \/ Away
           \/ UNCHANGED vars
    PROVE  StormQuiet
  BY DEF StormQuiet, Overflow, EndTurn, AnsweredSilently, CheckBudget, ToolCalls,
         FinalAnswer, StopBlocked, Aborts, BeginTurn, Clear, Restore, Resume, Away, vars,
         TurnOver, compaction, locals, spending

LEMMA StormStep == TypeOK /\ StormInv /\ [Next]_vars => StormInv'
<1> SUFFICES ASSUME TypeOK, StormInv, [Next]_vars PROVE StormInv'
  OBVIOUS
<1>1. ASSUME NEW proof \in BOOLEAN, NEW read \in BOOLEAN, NEW written \in BOOLEAN,
             Answered(proof, read, written)
      PROVE  StormInv'
  <2>1. size <= Window /\ prompt' \in {0, size} /\ UNCHANGED compaction
    BY <1>1 DEF Answered, TurnOver
  <2>2. prompt' <= Window
    BY <2>1, SizesAssumption DEF TypeOK
  <2> QED
    BY <2>1, <2>2 DEF StormInv, StormBounded, compaction, Hysteresis
<1>2. ASSUME NEW ok \in BOOLEAN, CompactMidTurn(ok) PROVE StormInv'
  <2>1. CASE ~Fires
    BY <1>2, <2>1, StormQuietStep DEF CompactMidTurn, StormQuiet
  <2>2. CASE Fires
    <3>1. /\ watermark' = prompt /\ firings' = firings + 1 /\ prompt' = 0
          /\ prompt >= Trigger /\ prompt > watermark + Hysteresis
      BY <1>2, <2>2 DEF CompactMidTurn, Fires, NewWatermark
    <3>2. Hysteresis \in Nat /\ firings \in Nat /\ prompt \in Nat /\ watermark \in Nat
      BY HelperTypes DEF TypeOK
    <3>3. prompt' <= Window /\ watermark' <= Window
      BY <3>1, <3>2, SizesAssumption DEF StormInv
    <3>4. Trigger + (firings' - 1) * (Hysteresis + 1) <= watermark'
      <4>1. CASE firings = 0
        <5>1. (firings' - 1) * (Hysteresis + 1) = 0
          BY <3>1, <3>2, <4>1
        <5> QED
          BY <3>1, <3>2, <5>1, SizesAssumption
      <4>2. CASE firings > 0
        <5> DEFINE climbed == (firings - 1) * (Hysteresis + 1)
        <5>1. (firings' - 1) * (Hysteresis + 1) = climbed + (Hysteresis + 1)
          BY <3>1, <3>2, OneMoreStep
        <5>2. Trigger + climbed <= watermark
          BY <4>2 DEF StormInv, StormBounded
        <5>3. climbed \in Int
          BY <3>2
        <5> HIDE DEF climbed
        <5> QED
          BY <3>1, <3>2, <5>1, <5>2, <5>3, SizesAssumption
      <4> QED
        BY <3>2, <4>1, <4>2
    <3>5. Hysteresis' = Hysteresis
      BY DEF Hysteresis
    <3> QED
      BY <3>3, <3>4 DEF StormInv, StormBounded, Hysteresis
  <2> QED
    BY <2>1, <2>2
<1> QED
  BY <1>1, <1>2, StormElsewhere, StormQuietStep DEF Next, Turn

\* However often a session calls the model and whatever its compactions do, the
\* threshold fires at most once per quarter of the trigger the prompt climbs
\* inside the window (_maybe_compact).
THEOREM NoCompactionStorm == Spec => []StormBounded
<1>1. Init => TypeOK /\ StormInv
  BY TypeInit, SizesAssumption DEF Init, StormInv, StormBounded
<1>2. TypeOK /\ StormInv /\ [Next]_vars => TypeOK' /\ StormInv'
  BY TypeStep, StormStep
<1>3. StormInv => StormBounded
  BY DEF StormInv
<1> QED
  BY <1>1, <1>2, <1>3, PTL DEF Spec

-----------------------------------------------------------------------------
(* What is counted and told                                                *)

\* Where the budget was looked at since the last answer, nothing was paid for
\* that the doublings do not account for; elsewhere one answer more.
SpendInv ==
    /\ OverspendBounded
    /\ turn \notin {"answered", "checked"} =>
           total <= maxTokens + doubled * (Window + 1)

\* A text on its way to the model says what was last reported; a reminder on its
\* way says it is due, and the last report above the threshold makes one due.
CountdownInv ==
    /\ CountdownFresh
    /\ pending # None => /\ pending.left = lastLeft
                         /\ pending.reminder => armed /\ pending.left < Reminder
    /\ lastLeft = None \/ lastLeft >= Reminder => armed

\* Between turns nothing is on its way.
IdleInv == turn = "idle" => pending = None /\ told = None

LEMMA OneMoreAnswer ==
    ASSUME NEW k \in Nat, NEW w \in Nat
    PROVE  /\ (k + 1) * (w + 1) = k * (w + 1) + (w + 1)
           /\ k * (w + 1) \in Nat
  OBVIOUS

\* What fits a budget fits a larger one.
LEMMA FitsMore ==
    ASSUME NEW t \in Nat, NEW m \in Nat, NEW k \in Nat, NEW w \in Nat
    PROVE  /\ t <= m => t <= m + k * (w + 1)
           /\ t <= m + k * (w + 1) => t <= m + (k + 1) * (w + 1)
           /\ t <= m + k * (w + 1) => t <= 2 * m + k * (w + 1)
<1> DEFINE owed == k * (w + 1)
<1>1. (k + 1) * (w + 1) = owed + (w + 1) /\ owed \in Nat
  BY OneMoreAnswer
<1> HIDE DEF owed
<1>2. /\ t <= m => t <= m + owed
      /\ t <= m + owed => t <= m + (k + 1) * (w + 1)
      /\ t <= m + owed => t <= 2 * m + owed
  BY <1>1
<1> QED
  BY <1>2 DEF owed

\* A turn that is over owes nothing.
LEMMA NothingSpent == TypeOK' /\ TurnOver => SpendInv'
<1> SUFFICES ASSUME TypeOK', TurnOver PROVE SpendInv'
  OBVIOUS
<1>1. /\ total' \in Nat /\ maxTokens' \in Nat /\ doubled' \in Nat /\ Window \in Nat
      /\ total' <= maxTokens'
  BY SizesAssumption DEF TurnOver, TypeOK
<1> QED
  BY <1>1, FitsMore DEF SpendInv, OverspendBounded

\* A step that leaves the spending alone and does not come from an answer.
LEMMA SpendQuiet ==
    ASSUME TypeOK, SpendInv, UNCHANGED spending,
           turn \in {"answered", "checked"} => turn' \in {"answered", "checked"}
    PROVE  SpendInv'
  BY DEF SpendInv, OverspendBounded, spending

LEMMA SpendStep == TypeOK /\ TypeOK' /\ SpendInv /\ [Next]_vars => SpendInv'
<1> SUFFICES ASSUME TypeOK, TypeOK', SpendInv, [Next]_vars PROVE SpendInv'
  OBVIOUS
<1>1. ASSUME NEW ok \in BOOLEAN, Overflow(ok) PROVE SpendInv'
  BY <1>1, NothingSpent, SpendQuiet DEF Overflow
<1>2. ASSUME NEW ok \in BOOLEAN, CompactMidTurn(ok) PROVE SpendInv'
  BY <1>2, SpendQuiet DEF CompactMidTurn
<1>3. ASSUME NEW ok \in BOOLEAN, EndTurn(ok) PROVE SpendInv'
  BY <1>3, NothingSpent DEF EndTurn
<1>4. ASSUME NEW proof \in BOOLEAN, NEW read \in BOOLEAN, NEW written \in BOOLEAN,
             Answered(proof, read, written)
      PROVE  SpendInv'
  <2>1. CASE Unproven(proof)
    BY <1>4, <2>1, NothingSpent DEF Answered
  <2>2. CASE ~Unproven(proof)
    <3>1. /\ turn = "asking" /\ turn' = "answered" /\ size <= Window
          /\ total' = total + Effective(read)
          /\ maxTokens' = maxTokens /\ doubled' = doubled
      BY <1>4, <2>2 DEF Answered, GoOn
    <3>2. Effective(read) \in Nat /\ Effective(read) <= Window + 1
      BY <3>1, SizesAssumption DEF Effective, TypeOK
    <3>3. total <= maxTokens + doubled * (Window + 1)
      BY <3>1 DEF SpendInv
    <3>4. doubled \in Nat /\ total \in Nat /\ maxTokens \in Nat /\ Window \in Nat
      BY SizesAssumption DEF TypeOK
    <3>5. /\ (doubled + 1) * (Window + 1) = doubled * (Window + 1) + (Window + 1)
          /\ doubled * (Window + 1) \in Nat
      BY <3>4, OneMoreAnswer
    <3>6. total' <= maxTokens + (doubled + 1) * (Window + 1)
      BY <3>1, <3>2, <3>3, <3>4, <3>5
    <3> QED
      BY <3>1, <3>6 DEF SpendInv, OverspendBounded
  <2> QED
    BY <2>1, <2>2
<1>5. CASE AnsweredSilently
  BY <1>5, SpendQuiet DEF AnsweredSilently, SpendInv, OverspendBounded
<1>6. CASE CheckBudget
  <2>1. CASE TurnOver
    BY <2>1, NothingSpent
  <2>2. CASE ~OverBudget /\ turn' = "replied" /\ UNCHANGED locals
    <3>1. /\ total' \in Nat /\ maxTokens' \in Nat /\ doubled' \in Nat /\ Window \in Nat
          /\ total' <= maxTokens'
      BY <2>2, SizesAssumption DEF OverBudget, locals, spending, TypeOK
    <3> QED
      BY <3>1, FitsMore DEF SpendInv, OverspendBounded
  <2>3. CASE maxTokens' = 2 * maxTokens /\ doubled' = doubled + 1 /\ UNCHANGED total
    <3>1. /\ total \in Nat /\ maxTokens \in Nat /\ doubled' \in Nat /\ Window \in Nat
      BY SizesAssumption DEF TypeOK
    <3>2. total <= maxTokens + doubled' * (Window + 1)
      BY <2>3 DEF SpendInv, OverspendBounded
    <3>3. total <= 2 * maxTokens + doubled' * (Window + 1)
      BY <3>1, <3>2, FitsMore
    <3>4. 2 * maxTokens \in Nat
      BY <3>1
    <3>5. total <= 2 * maxTokens + (doubled' + 1) * (Window + 1)
      BY <3>1, <3>3, <3>4, FitsMore
    <3> QED
      BY <2>3, <3>3, <3>5 DEF SpendInv, OverspendBounded
  <2> QED
    BY <1>6, <2>1, <2>2, <2>3 DEF CheckBudget
<1>7. CASE ToolCalls
  BY <1>7, SpendQuiet DEF ToolCalls, GoOn, spending
<1>8. CASE FinalAnswer
  BY <1>8, SpendQuiet DEF FinalAnswer, locals
<1>9. CASE StopBlocked
  BY <1>9, SpendQuiet DEF StopBlocked
<1>10. CASE Aborts
  BY <1>10, NothingSpent DEF Aborts
<1>11. CASE BeginTurn \/ Clear \/ Restore \/ Resume \/ Away
  BY <1>11, SpendQuiet DEF BeginTurn, Clear, Restore, Resume, Away, locals
<1>12. CASE UNCHANGED vars
  BY <1>12, SpendQuiet DEF vars, spending
<1> QED
  BY <1>1, <1>2, <1>3, <1>4, <1>5, <1>6, <1>7, <1>8, <1>9, <1>10, <1>11, <1>12
     DEF Next, Turn

\* A step that reports nothing new, and loses or keeps what is on its way.
LEMMA CountdownQuiet ==
    ASSUME CountdownInv, UNCHANGED <<lastLeft, armed>>,
           pending' \in {pending, None}, told' \in {told, None}
    PROVE  CountdownInv'
  BY DEF CountdownInv, CountdownFresh

LEMMA CountdownAnswered ==
    ASSUME TypeOK, CountdownInv,
           NEW proof \in BOOLEAN, NEW read \in BOOLEAN, NEW written \in BOOLEAN,
           Answered(proof, read, written)
    PROVE  CountdownInv'
<1>1. /\ lastLeft' = IF Injection = None THEN lastLeft ELSE Injection.left
      /\ armed' <=> armed \/ (Injection # None /\ Left(size) >= Reminder)
      /\ told' = None
      /\ pending' \in {None, Injection}
  BY DEF Answered, TurnOver, PendingNow, TypeOK
<1>2. Injection # None =>
         /\ Injection.left = Left(size)
         /\ Injection.reminder => /\ Left(size) < Reminder
                                  /\ lastLeft # None => lastLeft >= Reminder
  BY SizesAssumption DEF Injection
<1>3. CASE Injection = None
  BY <1>1, <1>3 DEF CountdownInv, CountdownFresh
<1>4. CASE Injection # None
  <2>1. Left(size) \in Nat /\ Reminder \in Nat
    BY HelperTypes, SizesAssumption DEF TypeOK
  <2>2. lastLeft' = Left(size) /\ lastLeft' # None
    BY <1>1, <1>2, <1>4, <2>1, SizesAssumption
  <2>3. pending' # None =>
           /\ pending'.left = lastLeft'
           /\ pending'.reminder => armed' /\ pending'.left < Reminder
    BY <1>1, <1>2, <1>4, <2>2 DEF CountdownInv
  <2>4. lastLeft' = None \/ lastLeft' >= Reminder => armed'
    BY <1>1, <1>4, <2>2
  <2> QED
    BY <1>1, <2>3, <2>4 DEF CountdownInv, CountdownFresh
<1> QED
  BY <1>3, <1>4

LEMMA CountdownStep ==
    TypeOK /\ CountdownInv /\ IdleInv /\ [Next]_vars => CountdownInv'
<1> SUFFICES ASSUME TypeOK, CountdownInv, IdleInv, [Next]_vars PROVE CountdownInv'
  OBVIOUS
<1>1. ASSUME NEW ok \in BOOLEAN, Overflow(ok) \/ CompactMidTurn(ok) \/ EndTurn(ok)
      PROVE  CountdownInv'
  BY <1>1, CountdownQuiet DEF Overflow, CompactMidTurn, EndTurn, TurnOver, countdown
<1>2. ASSUME NEW proof \in BOOLEAN, NEW read \in BOOLEAN, NEW written \in BOOLEAN,
             Answered(proof, read, written)
      PROVE  CountdownInv'
  BY <1>2, CountdownAnswered
<1>3. CASE ToolCalls
  <2>1. /\ told' = pending /\ pending' = None /\ lastLeft' = lastLeft
        /\ armed' <=> armed /\ ~(pending # None /\ pending.reminder)
    BY <1>3 DEF ToolCalls
  <2>2. ASSUME lastLeft = None \/ lastLeft >= Reminder, pending # None, pending.reminder
        PROVE  FALSE
    <3>1. pending.left \in Nat /\ lastLeft = pending.left /\ pending.left < Reminder
      BY <2>2 DEF CountdownInv, TypeOK, Countdowns
    <3> QED
      BY <2>2, <3>1, SizesAssumption
  <2> QED
    BY <2>1, <2>2 DEF CountdownInv, CountdownFresh
<1>4. CASE \/ AnsweredSilently \/ CheckBudget \/ FinalAnswer \/ StopBlocked \/ Aborts
           \/ BeginTurn \/ Clear \/ Restore \/ Away \/ UNCHANGED vars
  BY <1>4, CountdownQuiet
     DEF AnsweredSilently, CheckBudget, FinalAnswer, StopBlocked, Aborts, BeginTurn,
         Clear, Restore, Away, vars, TurnOver, locals, countdown
<1>5. CASE Resume
  BY <1>5 DEF Resume, IdleInv, CountdownInv, CountdownFresh, locals
<1> QED
  BY <1>1, <1>2, <1>3, <1>4, <1>5 DEF Next, Turn

LEMMA IdleStep == IdleInv /\ [Next]_vars => IdleInv'
<1> SUFFICES ASSUME IdleInv, [Next]_vars PROVE IdleInv'
  OBVIOUS
<1>1. CASE TurnOver
  BY <1>1 DEF TurnOver, IdleInv
<1>2. CASE turn' # "idle"
  BY <1>2 DEF IdleInv
<1>3. CASE UNCHANGED <<turn, pending, told>>
  BY <1>3 DEF IdleInv
<1>4. \/ TurnOver \/ turn' # "idle" \/ UNCHANGED <<turn, pending, told>>
  <2>1. ASSUME NEW ok \in BOOLEAN, Overflow(ok) \/ CompactMidTurn(ok) \/ EndTurn(ok)
        PROVE  TurnOver \/ turn' # "idle"
    BY <2>1 DEF Overflow, CompactMidTurn, EndTurn
  <2>2. ASSUME NEW proof \in BOOLEAN, NEW read \in BOOLEAN, NEW written \in BOOLEAN,
               Answered(proof, read, written)
        PROVE  TurnOver \/ turn' # "idle"
    BY <2>2 DEF Answered, GoOn
  <2>3. CASE AnsweredSilently \/ CheckBudget \/ ToolCalls \/ FinalAnswer \/ StopBlocked
             \/ Aborts \/ BeginTurn
    BY <2>3 DEF AnsweredSilently, CheckBudget, ToolCalls, FinalAnswer, StopBlocked,
                Aborts, BeginTurn, GoOn
  <2>4. CASE Clear \/ Restore \/ Resume \/ Away \/ UNCHANGED vars
    BY <2>4 DEF Clear, Restore, Resume, Away, vars, locals
  <2> QED
    BY <2>1, <2>2, <2>3, <2>4 DEF Next, Turn
<1> QED
  BY <1>1, <1>2, <1>3, <1>4

LEMMA WarningStep == TypeOK /\ WarningTruthful /\ [Next]_vars => WarningTruthful'
<1> SUFFICES ASSUME TypeOK, WarningTruthful, [Next]_vars PROVE WarningTruthful'
  OBVIOUS
<1>1. ASSUME NEW proof \in BOOLEAN, NEW read \in BOOLEAN, NEW written \in BOOLEAN,
             Answered(proof, read, written)
      PROVE  WarningTruthful'
  <2>1. /\ status' = CacheStatus(proof, read \/ written)
        /\ hit' <=> read \/ written
        /\ measurable' = measurable
    BY <1>1 DEF Answered, fixed
  <2> QED
    BY <2>1 DEF CacheStatus, WarningTruthful
<1>2. CASE AnsweredSilently
  BY <1>2, Zenon DEF AnsweredSilently, WarningTruthful
<1>3. CASE UNCHANGED <<status, hit, fixed>>
  BY <1>3 DEF WarningTruthful, fixed
<1>4. ASSUME \/ \E ok \in BOOLEAN : Overflow(ok) \/ CompactMidTurn(ok) \/ EndTurn(ok)
             \/ CheckBudget \/ ToolCalls \/ FinalAnswer \/ StopBlocked \/ Aborts
             \/ BeginTurn \/ Clear \/ Restore \/ Away \/ UNCHANGED vars
      PROVE  UNCHANGED <<status, hit, fixed>>
  BY <1>4 DEF Overflow, CompactMidTurn, EndTurn, CheckBudget, ToolCalls, FinalAnswer,
              StopBlocked, Aborts, BeginTurn, Clear, Restore, Away, vars, cache, fixed
<1>5. CASE Resume
  BY <1>5 DEF Resume, WarningTruthful
<1> QED
  BY <1>1, <1>2, <1>3, <1>4, <1>5 DEF Next, Turn

CountInv == SpendInv /\ CountdownInv /\ IdleInv /\ WarningTruthful

LEMMA CountedInit == Init => CountInv
<1> SUFFICES ASSUME Init PROVE CountInv
  OBVIOUS
<1>1. SpendInv
  BY SizesAssumption DEF Init, SpendInv, OverspendBounded
<1>2. CountdownInv
  BY DEF Init, CountdownInv, CountdownFresh
<1>3. IdleInv /\ WarningTruthful
  BY DEF Init, IdleInv, WarningTruthful
<1> QED
  BY <1>1, <1>2, <1>3 DEF CountInv

LEMMA CountedAlways == Spec => [](TypeOK /\ CountInv)
<1>1. Init => TypeOK /\ CountInv
  BY TypeInit, CountedInit
<1>2. TypeOK /\ CountInv /\ [Next]_vars => (TypeOK /\ CountInv)'
  BY TypeStep, SpendStep, CountdownStep, IdleStep, WarningStep DEF CountInv
<1> QED
  BY <1>1, <1>2, PTL DEF Spec

\* A turn pays for at most one answer beyond its budget and one more per
\* doubling; the countdown and the cache warning say what the provider last
\* reported (_run_turn, _token_awareness_injection, _enforce_cache_proof).
THEOREM CountersAlwaysSound == Spec => []CountersSound
<1>1. TypeOK /\ CountInv => CountersSound
  BY DEF CountInv, SpendInv, CountdownInv, CountersSound
<1> QED
  BY <1>1, CountedAlways, PTL

\* A reminder the model sees is the first of its process since the tokens left
\* were last reported above the threshold (_token_awareness_injection).
THEOREM RemindedOnce == Spec => ReminderOnce
<1>1. TypeOK /\ CountInv /\ [Next]_vars =>
          [told' # None /\ told' # told /\ told'.reminder => armed]_vars
  <2> SUFFICES ASSUME TypeOK, CountInv, Next, told' # None, told' # told
               PROVE  told'.reminder => armed
    OBVIOUS
  <2>1. CASE ToolCalls
    BY <2>1 DEF ToolCalls, CountInv, CountdownInv
  <2>2. CASE ~ToolCalls
    BY <2>2
       DEF Next, Turn, Answered, Overflow, CompactMidTurn, EndTurn, AnsweredSilently,
           CheckBudget, FinalAnswer, StopBlocked, Aborts, BeginTurn, Clear, Restore,
           Resume, Away, TurnOver, locals, countdown
  <2> QED
    BY <2>1, <2>2
<1> QED
  BY <1>1, CountedAlways, PTL DEF Spec, ReminderOnce
=============================================================================
