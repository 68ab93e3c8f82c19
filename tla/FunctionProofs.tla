--------------------------- MODULE FunctionProofs ---------------------------
(***************************************************************************)
(* Proofs about the functions of History, for histories of any length, of  *)
(* Hooks, for any number of handlers, and of Deferred, for sessions of any *)
(* length: how their folds run, what repair, normalisation, flattening and *)
(* compaction preserve and establish, what one handler and several decide, *)
(* what a session with deferred tools keeps; from them the invariants      *)
(* MCFunctions checks on small inputs.                                     *)
(*                                                                         *)
(* Induction is over sets of numbers, which the provers can handle: WFMin  *)
(* gives every set of naturals a least element.                            *)
(***************************************************************************)
EXTENDS HistoryFunctions, HookFunctions, DeferredFunctions, FiniteSetTheorems,
        SequenceTheorems, WellFoundedInduction, TLAPS

(* Induction                                                               *)

LEMMA LeastNumber ==
    ASSUME NEW S \in SUBSET Nat, S # {}
    PROVE  \E n \in S : \A k \in S : n <= k
<1> DEFINE R == OpToRel(<, Nat)
<1>1. IsWellFoundedOn(R, Nat)
  BY NatLessThanWellFounded
<1>2. \A x, y \in Nat : <<x, y>> \in R <=> x < y
  BY DEF OpToRel
<1> HIDE DEF R
<1>3. PICK x \in S : \A y \in S : <<y, x>> \notin R
  BY <1>1, WFMin
<1>4. ASSUME NEW y \in S PROVE x <= y
  <2>1. x \in Nat /\ y \in Nat
    OBVIOUS
  <2>2. ~(y < x)
    BY <1>2, <1>3, <2>1
  <2> QED
    BY <2>1, <2>2
<1> QED
  BY <1>4

\* What holds at 0 and is handed on holds up to n.
LEMMA Induction ==
    ASSUME NEW n \in Nat, NEW S, 0 \in S, \A i \in 1 .. n : i - 1 \in S => i \in S
    PROVE  \A i \in 0 .. n : i \in S
<1> DEFINE B == {i \in 0 .. n : i \notin S}
<1> SUFFICES ASSUME B # {} PROVE FALSE
  OBVIOUS
<1>0. B \in SUBSET Nat
  OBVIOUS
<1>1. \E i \in B : \A k \in B : i <= k
  <2> HIDE DEF B
  <2> QED
    BY <1>0, LeastNumber
<1>2. PICK i \in B : \A k \in B : i <= k
  BY <1>1
<1>3. i \in 1 .. n
  OBVIOUS
<1>4. i - 1 \in S
  BY <1>2, <1>3
<1> QED
  BY <1>3, <1>4
-----------------------------------------------------------------------------
(* How a fold runs                                                         *)

\* Whether Dedupe keeps entry i of a registry.
KeptEntry(es, i) ==
    es[i].script # H!None => \A j \in 1 .. i - 1 : ~H!SameHook(es[j], es[i])

\* One step of the fold called f, which may have an argument a.
Step(f, a, s, m) ==
    CASE f = "repair"  -> RepairOne(s, m)
      [] f = "flatten" -> FlattenOne(s, m)
      [] f = "merge"   -> MergeOne(a, s, m)
      [] f = "roles"   -> IF m.role \in a THEN Append(s, m) ELSE s
      [] f = "dedupe"  -> IF KeptEntry(a, m) THEN Append(s, a[m]) ELSE s
      [] f = "play"    -> Happen(s, m)
      [] f = "talk"    -> IF Aside(Unnoted(m)) THEN s ELSE Append(s, Unnoted(m))

\* g is the function MapThenFoldSet chooses for the first n messages of h.
IsFold(g, f, a, base, h, n) ==
    g = [s \in SUBSET (1 .. n) |->
            IF s = {} THEN base ELSE Step(f, a, g[s \ {Max(s)}], h[Max(s)])]

LEMMA Greatest ==
    ASSUME NEW n \in Nat, NEW s \in SUBSET (1 .. n), n \in s
    PROVE  Max(s) = n
<1>1. \A y \in s : n >= y
  OBVIOUS
<1>2. \A x \in s : (\A y \in s : x >= y) => x = n
  OBVIOUS
<1> QED
  BY <1>1, <1>2 DEF Max

LEMMA FoldExists ==
    ASSUME NEW f, NEW a, NEW base, NEW h, NEW n \in Nat
    PROVE  \E g : IsFold(g, f, a, base, h, n)
<1> DEFINE S == {i \in Nat : \E g : IsFold(g, f, a, base, h, i)}
<1>1. 0 \in S
  <2> DEFINE g == [s \in SUBSET (1 .. 0) |-> base]
  <2>1. \A s \in SUBSET (1 .. 0) : s = {}
    OBVIOUS
  <2>2. g = [s \in SUBSET (1 .. 0) |->
                IF s = {} THEN base ELSE Step(f, a, g[s \ {Max(s)}], h[Max(s)])]
    BY <2>1
  <2>3. IsFold(g, f, a, base, h, 0)
    BY <2>2 DEF IsFold
  <2> QED
    BY <2>3
<1>2. ASSUME NEW i \in Nat, i \in S PROVE i + 1 \in S
  <2>1. PICK g : IsFold(g, f, a, base, h, i)
    BY <1>2
  <2> DEFINE q == [s \in SUBSET (1 .. (i + 1)) |->
                      IF i + 1 \in s THEN Step(f, a, g[s \ {i + 1}], h[i + 1]) ELSE g[s]]
             e(s) == IF s = {} THEN base ELSE Step(f, a, q[s \ {Max(s)}], h[Max(s)])
  <2>2. ASSUME NEW s \in SUBSET (1 .. (i + 1)) PROVE q[s] = e(s)
    <3>1. CASE i + 1 \in s
      <4>1. Max(s) = i + 1
        BY <3>1, Greatest
      <4>2. s \ {i + 1} \in SUBSET (1 .. (i + 1)) /\ i + 1 \notin s \ {i + 1}
        OBVIOUS
      <4>3. q[s \ {i + 1}] = g[s \ {i + 1}]
        BY <4>2
      <4> QED
        BY <3>1, <4>1, <4>3
    <3>2. CASE i + 1 \notin s
      <4>1. s \in SUBSET (1 .. i)
        BY <3>2
      <4>2. q[s] = g[s]
        BY <3>2
      <4>3. g[s] = IF s = {} THEN base ELSE Step(f, a, g[s \ {Max(s)}], h[Max(s)])
        BY <2>1, <4>1 DEF IsFold
      <4>4. s \ {Max(s)} \in SUBSET (1 .. (i + 1)) /\ i + 1 \notin s \ {Max(s)}
        BY <3>2
      <4>5. q[s \ {Max(s)}] = g[s \ {Max(s)}]
        BY <4>4
      <4> QED
        BY <4>2, <4>3, <4>5
    <3> QED
      BY <3>1, <3>2
  <2>3. q = [s \in SUBSET (1 .. (i + 1)) |-> q[s]]
    OBVIOUS
  <2>4. q = [s \in SUBSET (1 .. (i + 1)) |-> e(s)]
    BY <2>2, <2>3
  <2>5. IsFold(q, f, a, base, h, i + 1)
    BY <2>4 DEF IsFold
  <2> QED
    BY <2>5
<1>3. \A i \in 1 .. n : i - 1 \in S => i \in S
  BY <1>2
<1>4. \A i \in 0 .. n : i \in S
  BY <1>1, <1>3, Induction
<1> QED
  BY <1>4

\* r is what the fold has after each message.
IsRun(r, f, a, base, h, n) ==
    r[0] = base /\ \A i \in 1 .. n : r[i] = Step(f, a, r[i - 1], h[i])

LEMMA FoldRuns ==
    ASSUME NEW f, NEW a, NEW base, NEW h, NEW n \in Nat, NEW g, IsFold(g, f, a, base, h, n)
    PROVE  \E r : IsRun(r, f, a, base, h, n) /\ r[n] = g[1 .. n]
<1> DEFINE r == [i \in 0 .. n |-> g[1 .. i]]
<1>1. r[0] = base
  <2>1. 1 .. 0 = {} /\ {} \in SUBSET (1 .. n)
    OBVIOUS
  <2>2. g[{}] = base
    BY <2>1 DEF IsFold
  <2> QED
    BY <2>1, <2>2
<1>2. ASSUME NEW i \in 1 .. n PROVE r[i] = Step(f, a, r[i - 1], h[i])
  <2>1. 1 .. i \in SUBSET (1 .. n) /\ 1 .. i # {} /\ i \in 1 .. i /\ i \in Nat
    OBVIOUS
  <2>2. Max(1 .. i) = i
    BY <2>1, Greatest
  <2>3. (1 .. i) \ {i} = 1 .. (i - 1)
    OBVIOUS
  <2>4. g[1 .. i] = Step(f, a, g[(1 .. i) \ {i}], h[i])
    BY <2>1, <2>2 DEF IsFold
  <2>5. r[i] = g[1 .. i] /\ r[i - 1] = g[1 .. (i - 1)]
    BY <2>1
  <2> QED
    BY <2>3, <2>4, <2>5
<1>3. r[n] = g[1 .. n]
  OBVIOUS
<1>4. IsRun(r, f, a, base, h, n)
  BY <1>1, <1>2 DEF IsRun
<1> QED
  BY <1>3, <1>4

RepairBase == [out |-> <<>>, open |-> <<>>]
FlattenBase == [out |-> <<>>, open |-> {}]

LEMMA RepairRun ==
    ASSUME NEW n \in Nat, NEW h, DOMAIN h = 1 .. n
    PROVE  \E r : /\ IsRun(r, "repair", 0, RepairBase, h, n)
                  /\ r[n] = FoldLeft(RepairOne, RepairBase, h)
<1> DEFINE Is(g) == g = [s \in SUBSET (1 .. n) |->
                IF s = {} THEN RepairBase ELSE RepairOne(g[s \ {Max(s)}], h[Max(s)])]
           G == CHOOSE g : Is(g)
<1>1. \E g : IsFold(g, "repair", 0, RepairBase, h, n)
  BY FoldExists
<1>2. \A g : IsFold(g, "repair", 0, RepairBase, h, n) <=> Is(g)
  BY DEF IsFold, Step
<1>3. IsFold(G, "repair", 0, RepairBase, h, n)
  BY <1>1, <1>2
<1>4. FoldLeft(RepairOne, RepairBase, h) = G[1 .. n]
  BY DEF FoldLeft, MapThenFoldSet
<1> HIDE DEF G
<1>5. \E r : IsRun(r, "repair", 0, RepairBase, h, n) /\ r[n] = G[1 .. n]
  BY <1>3, FoldRuns
<1> QED
  BY <1>4, <1>5

LEMMA FlattenRun ==
    ASSUME NEW n \in Nat, NEW h, DOMAIN h = 1 .. n
    PROVE  \E r : /\ IsRun(r, "flatten", 0, FlattenBase, h, n)
                  /\ r[n] = FoldLeft(FlattenOne, FlattenBase, h)
<1> DEFINE Is(g) == g = [s \in SUBSET (1 .. n) |->
                IF s = {} THEN FlattenBase ELSE FlattenOne(g[s \ {Max(s)}], h[Max(s)])]
           G == CHOOSE g : Is(g)
<1>1. \E g : IsFold(g, "flatten", 0, FlattenBase, h, n)
  BY FoldExists
<1>2. \A g : IsFold(g, "flatten", 0, FlattenBase, h, n) <=> Is(g)
  BY DEF IsFold, Step
<1>3. IsFold(G, "flatten", 0, FlattenBase, h, n)
  BY <1>1, <1>2
<1>4. FoldLeft(FlattenOne, FlattenBase, h) = G[1 .. n]
  BY DEF FoldLeft, MapThenFoldSet
<1> HIDE DEF G
<1>5. \E r : IsRun(r, "flatten", 0, FlattenBase, h, n) /\ r[n] = G[1 .. n]
  BY <1>3, FoldRuns
<1> QED
  BY <1>4, <1>5

LEMMA MergeUsersRun ==
    ASSUME NEW n \in Nat, NEW h, DOMAIN h = 1 .. n
    PROVE  \E r : IsRun(r, "merge", "user", <<>>, h, n) /\ r[n] = MergeUsers(h)
<1> DEFINE Is(g) == g = [s \in SUBSET (1 .. n) |->
                IF s = {} THEN <<>> ELSE MergeOne("user", g[s \ {Max(s)}], h[Max(s)])]
           G == CHOOSE g : Is(g)
<1>1. \E g : IsFold(g, "merge", "user", <<>>, h, n)
  BY FoldExists
<1>2. \A g : IsFold(g, "merge", "user", <<>>, h, n) <=> Is(g)
  BY DEF IsFold, Step
<1>3. IsFold(G, "merge", "user", <<>>, h, n)
  BY <1>1, <1>2
<1>4. MergeUsers(h) = G[1 .. n]
  BY DEF MergeUsers, FoldLeft, MapThenFoldSet
<1> HIDE DEF G
<1>5. \E r : IsRun(r, "merge", "user", <<>>, h, n) /\ r[n] = G[1 .. n]
  BY <1>3, FoldRuns
<1> QED
  BY <1>4, <1>5

LEMMA MergeAssistantsRun ==
    ASSUME NEW n \in Nat, NEW h, DOMAIN h = 1 .. n
    PROVE  \E r : IsRun(r, "merge", "assistant", <<>>, h, n) /\ r[n] = MergeAssistants(h)
<1> DEFINE Is(g) == g = [s \in SUBSET (1 .. n) |->
                IF s = {} THEN <<>> ELSE MergeOne("assistant", g[s \ {Max(s)}], h[Max(s)])]
           G == CHOOSE g : Is(g)
<1>1. \E g : IsFold(g, "merge", "assistant", <<>>, h, n)
  BY FoldExists
<1>2. \A g : IsFold(g, "merge", "assistant", <<>>, h, n) <=> Is(g)
  BY DEF IsFold, Step
<1>3. IsFold(G, "merge", "assistant", <<>>, h, n)
  BY <1>1, <1>2
<1>4. MergeAssistants(h) = G[1 .. n]
  BY DEF MergeAssistants, FoldLeft, MapThenFoldSet
<1> HIDE DEF G
<1>5. \E r : IsRun(r, "merge", "assistant", <<>>, h, n) /\ r[n] = G[1 .. n]
  BY <1>3, FoldRuns
<1> QED
  BY <1>4, <1>5

LEMMA RolesRun ==
    ASSUME NEW n \in Nat, NEW h, DOMAIN h = 1 .. n, NEW a
    PROVE  \E r : IsRun(r, "roles", a, <<>>, h, n) /\ r[n] = OfRoles(h, a)
<1> DEFINE Is(g) == g = [s \in SUBSET (1 .. n) |->
                IF s = {} THEN <<>>
                ELSE IF h[Max(s)].role \in a THEN Append(g[s \ {Max(s)}], h[Max(s)])
                                             ELSE g[s \ {Max(s)}]]
           G == CHOOSE g : Is(g)
<1>1. \E g : IsFold(g, "roles", a, <<>>, h, n)
  BY FoldExists
<1>2. \A g : IsFold(g, "roles", a, <<>>, h, n) <=> Is(g)
  BY DEF IsFold, Step
<1>3. IsFold(G, "roles", a, <<>>, h, n)
  BY <1>1, <1>2
<1>4. OfRoles(h, a) = G[1 .. n]
  BY DEF OfRoles, FoldLeft, MapThenFoldSet
<1> HIDE DEF G
<1>5. \E r : IsRun(r, "roles", a, <<>>, h, n) /\ r[n] = G[1 .. n]
  BY <1>3, FoldRuns
<1> QED
  BY <1>4, <1>5
-----------------------------------------------------------------------------
(* Messages                                                                *)

AnyCall == [id : Nat \ {NoCall}, n : Nat \ {0}]

\* What a message can say.
Kinds ==
    {"task", "reply", "inline", "stop", "res", "use", "lost", "summary", "pending", "known",
     "tool", "ref"}

Msg ==
    {m \in [role : {"system", "user", "assistant", "tool"}, calls : Seq(AnyCall),
            id : Nat, text : SUBSET (Kinds \X Nat)] :
        /\ m.id # NoCall <=> m.role = "tool"
        /\ m.role # "assistant" => m.calls = <<>>}

\* The ids of the calls a message makes, as a set and in their order.
Ids(m) == {m.calls[k].id : k \in DOMAIN m.calls}
OpenIds(m) == [k \in DOMAIN m.calls |-> m.calls[k].id]

CallId == Nat \ {NoCall}

LEMMA OpenIdsType ==
    ASSUME NEW m \in Msg
    PROVE  /\ OpenIds(m) \in Seq(CallId) /\ Len(OpenIds(m)) = Len(m.calls)
           /\ ToSet(OpenIds(m)) = Ids(m) /\ Ids(m) \in SUBSET CallId
<1>1. m.calls \in Seq(AnyCall) /\ Len(m.calls) \in Nat /\ DOMAIN m.calls = 1 .. Len(m.calls)
  BY DEF Msg
<1>2. ASSUME NEW k \in DOMAIN m.calls PROVE m.calls[k].id \in CallId
  <2>1. m.calls[k] \in AnyCall
    BY <1>1
  <2> QED
    BY <2>1 DEF AnyCall, CallId
<1>3. OpenIds(m) \in Seq(CallId) /\ Len(OpenIds(m)) = Len(m.calls)
  BY <1>1, <1>2 DEF OpenIds
<1> QED
  BY <1>1, <1>2, <1>3 DEF OpenIds, Ids, ToSet

\* What is left without one element.
LEMMA RemovedAt ==
    ASSUME NEW S, NEW s \in Seq(S), NEW i \in 1 .. Len(s)
    PROVE  RemoveAt(s, i) = [k \in 1 .. (Len(s) - 1) |-> IF k < i THEN s[k] ELSE s[k + 1]]
<1>1. i \in 1 .. Len(s) /\ i \in Nat
  OBVIOUS
<1> DEFINE a == SubSeq(s, 1, i - 1)
           b == SubSeq(s, i + 1, Len(s))
           t == [k \in 1 .. (Len(s) - 1) |-> IF k < i THEN s[k] ELSE s[k + 1]]
<1>2. a \in Seq(S) /\ Len(a) = i - 1 /\ \A k \in 1 .. (i - 1) : a[k] = s[k]
  BY <1>1, SubSeqProperties
<1>3. b \in Seq(S) /\ Len(b) = Len(s) - i /\ \A k \in 1 .. (Len(s) - i) : b[k] = s[i + k]
  <2>1. \A k \in (i + 1) .. Len(s) : s[k] \in S
    BY <1>1
  <2>2. /\ b \in Seq(S)
        /\ Len(b) = IF i + 1 <= Len(s) THEN Len(s) - (i + 1) + 1 ELSE 0
        /\ \A k \in 1 .. (Len(s) - (i + 1) + 1) : b[k] = s[(i + 1) + k - 1]
    BY <1>1, <2>1, SubSeqProperties
  <2> HIDE DEF b
  <2> QED
    BY <1>1, <2>2
<1> HIDE DEF a, b
<1>4. /\ a \o b \in Seq(S) /\ Len(a \o b) = Len(s) - 1
      /\ \A k \in 1 .. (Len(s) - 1) : (a \o b)[k] = IF k < i THEN a[k] ELSE b[k - (i - 1)]
  <2>1. /\ a \o b \in Seq(S)
        /\ Len(a \o b) = Len(a) + Len(b)
        /\ \A k \in 1 .. Len(a) + Len(b) : (a \o b)[k] =
                IF k <= Len(a) THEN a[k] ELSE b[k - Len(a)]
    BY <1>2, <1>3, ConcatProperties
  <2> QED
    BY <1>1, <1>2, <1>3, <2>1
<1>5. ASSUME NEW k \in 1 .. (Len(s) - 1) PROVE (a \o b)[k] = t[k]
  <2>1. CASE k < i
    BY <1>1, <1>2, <1>4, <2>1
  <2>2. CASE k >= i
    <3>1. k - (i - 1) \in 1 .. (Len(s) - i) /\ i + (k - (i - 1)) = k + 1
      BY <1>1, <2>2
    <3> QED
      BY <1>1, <1>3, <1>4, <2>2, <3>1
  <2>3. k < i \/ k >= i
    BY <1>1
  <2> QED
    BY <2>1, <2>2, <2>3
<1>6. a \o b = t
  <2> DEFINE c == a \o b
  <2>1. c \in Seq(S) /\ Len(c) = Len(s) - 1
    BY <1>4
  <2>2. \A k \in 1 .. (Len(s) - 1) : c[k] = t[k]
    BY <1>5
  <2> HIDE DEF c
  <2>3. c = [k \in 1 .. (Len(s) - 1) |-> c[k]]
    BY <2>1
  <2>4. c = t
    BY <2>2, <2>3
  <2> QED
    BY <2>4 DEF c
<1> QED
  BY <1>6 DEF a, b, RemoveAt

\* The first occurrence of e is gone from s and nothing else.
LEMMA FirstRemoved ==
    ASSUME NEW S, NEW s \in Seq(S), NEW e, Contains(s, e)
    PROVE  \E i \in DOMAIN s :
              /\ s[i] = e /\ \A k \in 1 .. (i - 1) : s[k] # e
              /\ RemoveFirst(s, e) = [k \in 1 .. (Len(s) - 1) |-> IF k < i THEN s[k] ELSE s[k + 1]]
<1> DEFINE I == {i \in 1 .. Len(s) : s[i] = e}
<1>1. I \in SUBSET Nat /\ I # {}
  BY DEF Contains
<1>2. \E i \in I : \A k \in I : i <= k
  <2> HIDE DEF I
  <2> QED
    BY <1>1, LeastNumber
<1>3. Min(I) \in I /\ \A k \in I : Min(I) <= k
  <2> HIDE DEF I
  <2> QED
    BY <1>2 DEF Min
<1> DEFINE i == Min(I)
<1>4. i \in 1 .. Len(s) /\ s[i] = e /\ i \in Nat
  BY <1>3
<1>5. RemoveFirst(s, e) = RemoveAt(s, i)
  BY <1>1 DEF RemoveFirst, SelectInSeq, Contains
<1>6. \A k \in I : i <= k
  BY <1>3
<1> HIDE DEF i
<1>7. \A k \in 1 .. (i - 1) : s[k] # e
  <2> SUFFICES ASSUME NEW k \in 1 .. (i - 1), s[k] = e PROVE FALSE
    OBVIOUS
  <2>1. k \in I
    BY <1>4
  <2> QED
    BY <1>4, <1>6, <2>1
<1>8. RemoveAt(s, i) = [k \in 1 .. (Len(s) - 1) |-> IF k < i THEN s[k] ELSE s[k + 1]]
  BY <1>4, RemovedAt
<1> QED
  BY <1>4, <1>5, <1>7, <1>8

LEMMA RemovedOnce ==
    ASSUME NEW S, NEW s \in Seq(S), NEW e, Contains(s, e)
    PROVE  /\ RemoveFirst(s, e) \in Seq(S)
           /\ Len(RemoveFirst(s, e)) = Len(s) - 1
           /\ ToSet(RemoveFirst(s, e)) \cup {e} = ToSet(s)
           /\ e \in ToSet(s)
           /\ IsInjective(s) =>
                 IsInjective(RemoveFirst(s, e)) /\ e \notin ToSet(RemoveFirst(s, e))
<1>1. PICK i \in DOMAIN s :
          /\ s[i] = e
          /\ RemoveFirst(s, e) = [k \in 1 .. (Len(s) - 1) |-> IF k < i THEN s[k] ELSE s[k + 1]]
  BY FirstRemoved
<1> DEFINE t == RemoveFirst(s, e)
<1>2. i \in 1 .. Len(s) /\ Len(s) \in Nat /\ DOMAIN s = 1 .. Len(s)
  OBVIOUS
<1>3. t \in Seq(S) /\ Len(t) = Len(s) - 1 /\ DOMAIN t = 1 .. (Len(s) - 1)
  BY <1>1, <1>2
<1>4. \A k \in DOMAIN t : t[k] = IF k < i THEN s[k] ELSE s[k + 1]
  BY <1>1, <1>3
<1>5. ToSet(t) \subseteq ToSet(s) /\ e \in ToSet(s)
  BY <1>1, <1>2, <1>3, <1>4 DEF ToSet
<1>6. ASSUME NEW x \in ToSet(s), x # e PROVE x \in ToSet(t)
  <2>1. PICK j \in DOMAIN s : s[j] = x
    BY DEF ToSet
  <2>2. CASE j < i
    BY <1>2, <1>3, <1>4, <2>1, <2>2 DEF ToSet
  <2>3. CASE j > i
    <3>1. j - 1 \in DOMAIN t /\ t[j - 1] = s[j]
      BY <1>2, <1>3, <1>4, <2>3
    <3> QED
      BY <2>1, <3>1 DEF ToSet
  <2> QED
    BY <1>1, <1>2, <1>6, <2>1, <2>2, <2>3
<1>7. ASSUME IsInjective(s) PROVE IsInjective(t) /\ e \notin ToSet(t)
  <2>1. \A a, b \in DOMAIN s : s[a] = s[b] => a = b
    BY <1>7 DEF IsInjective
  <2>2. ASSUME NEW a \in DOMAIN t, NEW b \in DOMAIN t, t[a] = t[b] PROVE a = b
    BY <1>2, <1>3, <1>4, <2>1, <2>2
  <2>3. ASSUME NEW a \in DOMAIN t PROVE t[a] # e
    BY <1>1, <1>2, <1>3, <1>4, <2>1
  <2> QED
    BY <2>2, <2>3 DEF IsInjective, ToSet
<1> QED
  BY <1>3, <1>5, <1>6, <1>7
-----------------------------------------------------------------------------
(* Paired, one message at a time                                           *)

\* The answers of o[i] end at e, and only open is left of its calls.
Served(o, i, e, open) ==
    /\ e \in i .. Len(o)
    /\ \A k \in (i + 1) .. e : o[k].role = "tool"
    /\ e - i + Len(open) = Len(o[i].calls)
    /\ {o[k].id : k \in (i + 1) .. e} \cup ToSet(open) = Ids(o[i])

\* o is paired but for the calls open of its last message that is no answer.
Owes(o, open) ==
    /\ o = <<>> => open = <<>>
    /\ o # <<>> => o[1].role # "tool"
    /\ \A i \in DOMAIN o : o[i].role # "tool" =>
          \E e \in i .. Len(o) :
              \/ e = Len(o) /\ Served(o, i, e, open)
              \/ e < Len(o) /\ o[e + 1].role # "tool" /\ Served(o, i, e, <<>>)

LEMMA SeqFacts ==
    ASSUME NEW S, NEW o \in Seq(S)
    PROVE  /\ Len(o) \in Nat /\ DOMAIN o = 1 .. Len(o)
           /\ \A i \in 1 .. Len(o) : o[i] \in S
           /\ o = <<>> <=> Len(o) = 0
OBVIOUS

LEMMA AppendFacts ==
    ASSUME NEW S, NEW o \in Seq(S), NEW m \in S
    PROVE  /\ Append(o, m) \in Seq(S) /\ Append(o, m) # <<>>
           /\ Len(Append(o, m)) = Len(o) + 1
           /\ DOMAIN Append(o, m) = 1 .. (Len(o) + 1)
           /\ \A i \in 1 .. Len(o) : Append(o, m)[i] = o[i]
           /\ Append(o, m)[Len(o) + 1] = m
           /\ Last(Append(o, m)) = m
<1>1. /\ Append(o, m) \in Seq(S)
      /\ Len(Append(o, m)) = Len(o) + 1
      /\ \A i \in 1 .. Len(o) : Append(o, m)[i] = o[i]
      /\ Append(o, m)[Len(o) + 1] = m
  BY AppendProperties
<1>2. Append(o, m) # <<>> /\ DOMAIN Append(o, m) = 1 .. (Len(o) + 1)
  BY <1>1
<1> QED
  BY <1>1, <1>2 DEF Last

LEMMA ConcatFacts ==
    ASSUME NEW S, NEW s \in Seq(S), NEW t \in Seq(S)
    PROVE  /\ s \o t \in Seq(S)
           /\ Len(s \o t) = Len(s) + Len(t)
           /\ DOMAIN (s \o t) = 1 .. (Len(s) + Len(t))
           /\ \A i \in 1 .. Len(s) : (s \o t)[i] = s[i]
           /\ \A i \in 1 .. Len(t) : (s \o t)[Len(s) + i] = t[i]
           /\ \A i \in 1 .. (Len(s) + Len(t)) :
                 i \notin 1 .. Len(s) => i - Len(s) \in 1 .. Len(t) /\ (s \o t)[i] = t[i - Len(s)]
<1>1. /\ s \o t \in Seq(S)
      /\ Len(s \o t) = Len(s) + Len(t)
      /\ \A i \in 1 .. Len(s) + Len(t) :
            (s \o t)[i] = IF i <= Len(s) THEN s[i] ELSE t[i - Len(s)]
  BY ConcatProperties
<1>2. Len(s) \in Nat /\ Len(t) \in Nat
  OBVIOUS
<1>3. DOMAIN (s \o t) = 1 .. (Len(s) + Len(t))
  BY <1>1
<1>4. ASSUME NEW i \in 1 .. Len(s) PROVE (s \o t)[i] = s[i]
  BY <1>1, <1>2
<1>5. ASSUME NEW i \in 1 .. (Len(s) + Len(t)), i \notin 1 .. Len(s)
      PROVE  i - Len(s) \in 1 .. Len(t) /\ (s \o t)[i] = t[i - Len(s)]
  BY <1>1, <1>2, <1>5
<1>6. ASSUME NEW i \in 1 .. Len(t) PROVE (s \o t)[Len(s) + i] = t[i]
  <2>1. Len(s) + i \in 1 .. (Len(s) + Len(t)) /\ ~(Len(s) + i <= Len(s)) /\ (Len(s) + i) - Len(s) = i
    BY <1>2
  <2> QED
    BY <1>1, <2>1
<1> QED
  BY <1>1, <1>3, <1>4, <1>5, <1>6

\* The answers of h[i] have an end.
LEMMA AnswersEnd ==
    ASSUME NEW h \in Seq(Msg), NEW i \in DOMAIN h
    PROVE  \E e \in i .. Len(h) :
              /\ \A k \in (i + 1) .. e : h[k].role = "tool"
              /\ e < Len(h) => h[e + 1].role # "tool"
<1>1. Len(h) \in Nat /\ i \in 1 .. Len(h)
  BY SeqFacts
<1> DEFINE T == {e \in i .. Len(h) : e < Len(h) => h[e + 1].role # "tool"}
<1>2. T \in SUBSET Nat /\ Len(h) \in T
  BY <1>1
<1>3. \E e \in T : \A k \in T : e <= k
  <2> HIDE DEF T
  <2> QED
    BY <1>2, LeastNumber
<1>4. PICK e \in T : \A k \in T : e <= k
  BY <1>3
<1>5. ASSUME NEW k \in (i + 1) .. e PROVE h[k].role = "tool"
  <2>1. k - 1 \in i .. Len(h) /\ k - 1 < e /\ k - 1 < Len(h) /\ (k - 1) + 1 = k
    BY <1>1, <1>4
  <2>2. k - 1 \notin T
    BY <1>4, <2>1
  <2> QED
    BY <2>1, <2>2
<1> QED
  BY <1>4, <1>5

LEMMA AnswersAre ==
    ASSUME NEW h \in Seq(Msg), NEW i \in DOMAIN h, NEW e \in i .. Len(h),
           \A k \in (i + 1) .. e : h[k].role = "tool",
           e < Len(h) => h[e + 1].role # "tool"
    PROVE  /\ AnswersAfter(h, i) = (i + 1) .. e
           /\ IsFiniteSet((i + 1) .. e) /\ Cardinality((i + 1) .. e) = e - i
<1>1. Len(h) \in Nat /\ i \in 1 .. Len(h) /\ e \in Nat
  BY SeqFacts
<1>2. ASSUME NEW j \in AnswersAfter(h, i) PROVE j \in (i + 1) .. e
  <2>1. j \in (i + 1) .. Len(h) /\ \A k \in (i + 1) .. j : h[k].role = "tool"
    BY DEF AnswersAfter
  <2>2. ~(j > e)
    BY <1>1, <2>1
  <2> QED
    BY <1>1, <2>1, <2>2
<1>3. (i + 1) .. e \subseteq AnswersAfter(h, i)
  BY <1>1 DEF AnswersAfter
<1>4. IsFiniteSet((i + 1) .. e) /\ Cardinality((i + 1) .. e) = e - i
  <2>1. /\ IsFiniteSet((i + 1) .. e)
        /\ Cardinality((i + 1) .. e) = IF i + 1 > e THEN 0 ELSE e - (i + 1) + 1
    <3>1. i + 1 \in Int /\ e \in Int
      BY <1>1
    <3> QED
      BY <3>1, FS_Interval
  <2>2. e >= i
    BY <1>1
  <2> QED
    BY <1>1, <2>1, <2>2
<1> QED
  BY <1>2, <1>3, <1>4

\* A place not after the end is the end or before it.
LEMMA AtEnd ==
    ASSUME NEW n \in Nat, NEW i \in 1 .. n, NEW e \in i .. n
    PROVE  e = n \/ e < n
OBVIOUS

LEMMA PairedOwes ==
    ASSUME NEW h \in Seq(Msg)
    PROVE  Paired(h) <=> Owes(h, <<>>)
<1>1. \A i \in DOMAIN h : h[i] \in Msg /\ Len(h[i].calls) \in Nat
  BY DEF Msg
<1>2. Len(h) \in Nat /\ DOMAIN h = 1 .. Len(h)
  BY SeqFacts
<1>3. ToSet(<<>>) = {} /\ Len(<<>>) = 0
  BY DEF ToSet
<1>4. ASSUME Paired(h), NEW i \in DOMAIN h, h[i].role # "tool"
      PROVE  \E e \in i .. Len(h) :
                \/ e = Len(h) /\ Served(h, i, e, <<>>)
                \/ e < Len(h) /\ h[e + 1].role # "tool" /\ Served(h, i, e, <<>>)
  <2>1. PICK e \in i .. Len(h) :
            /\ \A k \in (i + 1) .. e : h[k].role = "tool"
            /\ e < Len(h) => h[e + 1].role # "tool"
    BY AnswersEnd
  <2>2. AnswersAfter(h, i) = (i + 1) .. e /\ Cardinality((i + 1) .. e) = e - i
    BY <2>1, AnswersAre
  <2>3. e - i = Len(h[i].calls) /\ {h[j].id : j \in (i + 1) .. e} = Ids(h[i])
    BY <1>4, <2>2 DEF Paired, Ids
  <2>4. e - i + Len(<<>>) = Len(h[i].calls)
    BY <1>2, <1>3, <2>3
  <2>5. {h[j].id : j \in (i + 1) .. e} \cup ToSet(<<>>) = Ids(h[i])
    BY <1>3, <2>3
  <2>6. Served(h, i, e, <<>>)
    BY <2>1, <2>4, <2>5 DEF Served
  <2>7. e = Len(h) \/ e < Len(h)
    BY <1>2, AtEnd, ZenonT(60)
  <2> QED
    BY <2>1, <2>6, <2>7, ZenonT(60)
<1>5. ASSUME Owes(h, <<>>), NEW i \in DOMAIN h, h[i].role # "tool"
      PROVE  /\ Cardinality(AnswersAfter(h, i)) = Len(h[i].calls)
             /\ {h[j].id : j \in AnswersAfter(h, i)}
                    = {h[i].calls[k].id : k \in DOMAIN h[i].calls}
  <2>1. PICK e \in i .. Len(h) : /\ e < Len(h) => h[e + 1].role # "tool"
                                 /\ Served(h, i, e, <<>>)
    <3>1. \E e \in i .. Len(h) :
              \/ e = Len(h) /\ Served(h, i, e, <<>>)
              \/ e < Len(h) /\ h[e + 1].role # "tool" /\ Served(h, i, e, <<>>)
      BY <1>5 DEF Owes
    <3>2. \A e \in i .. Len(h) : e = Len(h) => ~(e < Len(h))
      BY <1>2
    <3> QED
      BY <3>1, <3>2
  <2>2. AnswersAfter(h, i) = (i + 1) .. e /\ Cardinality((i + 1) .. e) = e - i
    BY <2>1, AnswersAre DEF Served
  <2>3. e - i + 0 = Len(h[i].calls) /\ {h[j].id : j \in (i + 1) .. e} \cup {} = Ids(h[i])
    BY <1>3, <2>1 DEF Served
  <2>4. Cardinality(AnswersAfter(h, i)) = Len(h[i].calls)
    BY <1>1, <1>2, <2>2, <2>3
  <2>5. {h[j].id : j \in AnswersAfter(h, i)} = Ids(h[i])
    BY <2>2, <2>3
  <2> QED
    BY <2>4, <2>5 DEF Ids
<1> QED
  BY <1>4, <1>5 DEF Paired, Owes

\* What a message appended behind the answers of o[i] does not change.
LEMMA ServedKept ==
    ASSUME NEW o \in Seq(Msg), NEW t \in Seq(Msg), NEW i \in DOMAIN o, NEW e, NEW open,
           Len(o) <= Len(t), \A k \in 1 .. Len(o) : t[k] = o[k], Served(o, i, e, open)
    PROVE  Served(t, i, e, open)
<1>1. Len(o) \in Nat /\ Len(t) \in Nat /\ i \in 1 .. Len(o) /\ e \in i .. Len(o)
  BY SeqFacts DEF Served
<1>2. e \in i .. Len(t) /\ t[i] = o[i] /\ \A k \in (i + 1) .. e : t[k] = o[k]
  BY <1>1
<1>3. {t[k].id : k \in (i + 1) .. e} = {o[k].id : k \in (i + 1) .. e}
  BY <1>2, SMTT(60)
<1> QED
  BY <1>2, <1>3 DEF Served

LEMMA OwesOther ==
    ASSUME NEW o \in Seq(Msg), Owes(o, <<>>), NEW m \in Msg, m.role # "tool"
    PROVE  Owes(Append(o, m), OpenIds(m))
<1> DEFINE t == Append(o, m)
           n == Len(o)
<1>1. /\ n \in Nat /\ DOMAIN o = 1 .. n /\ t \in Seq(Msg) /\ t # <<>> /\ Len(t) = n + 1
      /\ DOMAIN t = 1 .. (n + 1) /\ t[n + 1] = m /\ \A k \in 1 .. n : t[k] = o[k]
  BY SeqFacts, AppendFacts
<1>2. Len(m.calls) \in Nat /\ ToSet(OpenIds(m)) = Ids(m) /\ Len(OpenIds(m)) = Len(m.calls)
  BY OpenIdsType DEF Msg
<1> HIDE DEF t
<1>3. t[1].role # "tool"
  <2>1. CASE n = 0
    BY <1>1, <2>1
  <2>2. CASE n # 0
    <3>1. o # <<>> /\ t[1] = o[1]
      BY <1>1, <2>2
    <3> QED
      BY <3>1 DEF Owes
  <2> QED
    BY <2>1, <2>2
<1>4. ASSUME NEW i \in DOMAIN t, t[i].role # "tool"
      PROVE  \E e \in i .. Len(t) :
                 \/ e = Len(t) /\ Served(t, i, e, OpenIds(m))
                 \/ e < Len(t) /\ t[e + 1].role # "tool" /\ Served(t, i, e, <<>>)
  <2>1. CASE i = n + 1
    <3>1. {t[k].id : k \in (i + 1) .. i} = {}
      BY <1>1, <2>1
    <3>2. Served(t, i, i, OpenIds(m))
      BY <1>1, <1>2, <2>1, <3>1 DEF Served
    <3> QED
      BY <1>1, <2>1, <3>2
  <2>2. CASE i \in 1 .. n
    <3>1. i \in DOMAIN o /\ o[i].role # "tool"
      BY <1>1, <1>4, <2>2
    <3>2. PICK e \in i .. n : /\ e < n => o[e + 1].role # "tool"
                              /\ Served(o, i, e, <<>>)
      <4>1. \E e \in i .. n :
                \/ e = n /\ Served(o, i, e, <<>>)
                \/ e < n /\ o[e + 1].role # "tool" /\ Served(o, i, e, <<>>)
        BY <3>1 DEF Owes
      <4>2. \A e \in i .. n : e = n => ~(e < n)
        BY <1>1
      <4> QED
        BY <4>1, <4>2
    <3>3. Served(t, i, e, <<>>)
      BY <1>1, <3>1, <3>2, ServedKept
    <3>4. t[e + 1].role # "tool"
      BY <1>1, <2>2, <3>2
    <3> QED
      BY <1>1, <3>2, <3>3, <3>4
  <2> QED
    BY <1>1, <2>1, <2>2
<1> QED
  BY <1>1, <1>3, <1>4 DEF Owes, t

\* The messages that end a turn of the conversation: answers for open calls.
LEMMA OwesAnswers ==
    ASSUME NEW o \in Seq(Msg), NEW open \in Seq(CallId), Owes(o, open),
           NEW a \in Seq(Msg), \A k \in DOMAIN a : a[k].role = "tool",
           NEW left \in Seq(CallId), Len(open) = Len(left) + Len(a),
           ToSet(left) \cup {a[k].id : k \in DOMAIN a} = ToSet(open)
    PROVE  Owes(o \o a, left)
<1> DEFINE t == o \o a
           n == Len(o)
           s == Len(a)
<1>1. /\ n \in Nat /\ s \in Nat /\ DOMAIN o = 1 .. n /\ DOMAIN a = 1 .. s
      /\ t \in Seq(Msg) /\ Len(t) = n + s /\ DOMAIN t = 1 .. (n + s)
      /\ \A k \in 1 .. n : t[k] = o[k]
      /\ \A k \in 1 .. s : t[n + k] = a[k]
      /\ \A k \in 1 .. (n + s) : k \notin 1 .. n => k - n \in 1 .. s /\ t[k] = a[k - n]
  BY SeqFacts, ConcatFacts
<1>2. Len(open) \in Nat /\ Len(left) \in Nat /\ (open = <<>> => Len(open) = 0)
  BY SeqFacts
<1>3. t = <<>> => left = <<>>
  BY <1>1, <1>2 DEF Owes
<1>4. n = 0 => s = 0
  BY <1>1, <1>2 DEF Owes
<1> HIDE DEF t
<1>5. t # <<>> => t[1].role # "tool"
  <2>1. CASE n = 0
    BY <1>1, <1>4, <2>1
  <2>2. CASE n # 0
    <3>1. o # <<>> /\ t[1] = o[1]
      BY <1>1, <2>2, SMTT(60)
    <3> QED
      BY <3>1 DEF Owes
  <2> QED
    BY <2>1, <2>2
<1>6. ASSUME NEW i \in DOMAIN t, t[i].role # "tool"
      PROVE  \E e \in i .. Len(t) :
                 \/ e = Len(t) /\ Served(t, i, e, left)
                 \/ e < Len(t) /\ t[e + 1].role # "tool" /\ Served(t, i, e, <<>>)
  <2>1. i \in 1 .. n /\ o[i].role # "tool" /\ t[i] = o[i]
    BY <1>1, <1>6, SMTT(60)
  <2>2. PICK e \in i .. n :
            \/ e = n /\ Served(o, i, e, open)
            \/ e < n /\ o[e + 1].role # "tool" /\ Served(o, i, e, <<>>)
    BY <1>1, <2>1, ZenonT(60) DEF Owes
  <2>3. CASE e < n
    <3>1. Served(o, i, e, <<>>) /\ o[e + 1].role # "tool"
      BY <2>2, <2>3
    <3>2. Served(t, i, e, <<>>)
      <4>1. Len(o) <= Len(t) /\ i \in DOMAIN o
        BY <1>1, <2>1
      <4> QED
        BY <1>1, <3>1, <4>1, ServedKept
    <3>3. t[e + 1].role # "tool" /\ e \in i .. Len(t) /\ e < Len(t)
      BY <1>1, <2>1, <2>3, <3>1
    <3> QED
      BY <3>2, <3>3
  <2>4. CASE e = n
    <3>1. Served(o, i, n, open)
      BY <1>1, <2>2, <2>4
    <3>2. n + s \in i .. Len(t)
      BY <1>1, <2>1
    <3>3. ASSUME NEW k \in (i + 1) .. (n + s) PROVE t[k].role = "tool"
      <4>1. CASE k \in 1 .. n
        BY <1>1, <2>1, <3>1, <4>1, SMTT(60) DEF Served
      <4>2. CASE k \notin 1 .. n
        <5>1. k \in 1 .. (n + s)
          BY <1>1, <2>1
        <5>2. k - n \in 1 .. s /\ t[k] = a[k - n]
          BY <1>1, <4>2, <5>1
        <5> QED
          BY <1>1, <5>2
      <4> QED
        BY <4>1, <4>2
    <3>4. n + s - i + Len(left) = Len(t[i].calls)
      <4>1. n - i + Len(open) = Len(o[i].calls)
        BY <3>1 DEF Served
      <4> QED
        BY <1>1, <1>2, <2>1, <4>1
    <3>5. {t[k].id : k \in (i + 1) .. (n + s)}
            = {o[k].id : k \in (i + 1) .. n} \cup {a[k].id : k \in 1 .. s}
      <4>1. ASSUME NEW k \in (i + 1) .. (n + s)
            PROVE  t[k].id \in {o[l].id : l \in (i + 1) .. n} \cup {a[l].id : l \in 1 .. s}
        <5>1. CASE k \in 1 .. n
          BY <1>1, <2>1, <5>1
        <5>2. CASE k \notin 1 .. n
          <6>1. k - n \in 1 .. s /\ t[k] = a[k - n]
            BY <1>1, <2>1, <5>2
          <6> QED
            BY <6>1
        <5> QED
          BY <5>1, <5>2
      <4>2. ASSUME NEW k \in (i + 1) .. n
            PROVE  o[k].id \in {t[l].id : l \in (i + 1) .. (n + s)}
        BY <1>1, <2>1
      <4>3. ASSUME NEW k \in 1 .. s
            PROVE  a[k].id \in {t[l].id : l \in (i + 1) .. (n + s)}
        <5>1. n + k \in (i + 1) .. (n + s) /\ t[n + k] = a[k]
          BY <1>1, <2>1
        <5> QED
          BY <5>1
      <4> QED
        BY <4>1, <4>2, <4>3, ZenonT(60)
    <3>6. {t[k].id : k \in (i + 1) .. (n + s)} \cup ToSet(left) = Ids(t[i])
      <4>1. {o[k].id : k \in (i + 1) .. n} \cup ToSet(open) = Ids(o[i])
        BY <3>1 DEF Served
      <4> QED
        BY <1>1, <2>1, <3>5, <4>1
    <3>7. Served(t, i, n + s, left)
      BY <3>2, <3>3, <3>4, <3>6, SMTT(60) DEF Served
    <3> QED
      BY <1>1, <3>2, <3>7
  <2> QED
    BY <1>1, <2>1, <2>2, <2>3, <2>4, ZenonT(60)
<1> QED
  BY <1>3, <1>5, <1>6 DEF Owes, t

LEMMA OwesAnswer ==
    ASSUME NEW o \in Seq(Msg), NEW open \in Seq(CallId), Owes(o, open),
           NEW m \in Msg, m.role = "tool",
           NEW left \in Seq(CallId), Len(open) = Len(left) + 1,
           ToSet(left) \cup {m.id} = ToSet(open)
    PROVE  Owes(Append(o, m), left)
<1>1. /\ <<m>> \in Seq(Msg) /\ Len(<<m>>) = 1 /\ \A k \in DOMAIN <<m>> : <<m>>[k].role = "tool"
      /\ {<<m>>[k].id : k \in DOMAIN <<m>>} = {m.id}
  OBVIOUS
<1>2. Owes(o \o <<m>>, left)
  BY <1>1, OwesAnswers
<1>3. o \o <<m>> = Append(o, m)
  BY AppendIsConcat
<1> QED
  BY <1>2, <1>3

LEMMA PlaceholderFacts ==
    ASSUME NEW open \in Seq(CallId)
    PROVE  /\ Placeholders(open) \in Seq(Msg)
           /\ Len(Placeholders(open)) = Len(open)
           /\ DOMAIN Placeholders(open) = DOMAIN open
           /\ \A k \in DOMAIN open :
                 /\ Placeholders(open)[k] = Lost(open[k])
                 /\ open[k] \in CallId
<1>1. ASSUME NEW id \in CallId PROVE Lost(id) \in Msg
  <2>1. Lost(id) = [role |-> "tool", calls |-> <<>>, id |-> id, text |-> {<<"lost", id>>}]
    BY DEF Lost, ToolResult, Message
  <2>2. id \in Nat /\ id # NoCall
    BY DEF CallId
  <2>4. {<<"lost", id>>} \in SUBSET (Kinds \X Nat)
    <3>1. <<"lost", id>> \in Kinds \X Nat
      BY <2>2 DEF Kinds
    <3> QED
      BY <3>1
  <2>3. <<>> \in Seq(AnyCall)
    OBVIOUS
  <2> QED
    BY <2>1, <2>2, <2>3, <2>4 DEF Msg
<1> QED
  BY <1>1 DEF Placeholders

LEMMA OwesNothing ==
    ASSUME NEW o \in Seq(Msg), NEW open \in Seq(CallId), Owes(o, open)
    PROVE  Owes(o \o Placeholders(open), <<>>)
<1> DEFINE a == Placeholders(open)
<1>1. /\ a \in Seq(Msg) /\ Len(a) = Len(open) /\ DOMAIN a = DOMAIN open
      /\ \A k \in DOMAIN a : a[k] = Lost(open[k])
  BY PlaceholderFacts
<1>2. \A k \in DOMAIN a : a[k].role = "tool" /\ a[k].id = open[k]
  BY <1>1 DEF Lost, ToolResult, Message
<1> HIDE DEF a
<1>3. {a[k].id : k \in DOMAIN a} = ToSet(open)
  BY <1>1, <1>2 DEF ToSet
<1>4. <<>> \in Seq(CallId) /\ ToSet(<<>>) = {} /\ Len(open) = Len(<<>>) + Len(a)
  BY <1>1 DEF ToSet
<1>5. Owes(o \o a, <<>>)
  BY <1>1, <1>2, <1>3, <1>4, OwesAnswers
<1> QED
  BY <1>5 DEF a
-----------------------------------------------------------------------------
(* What appending and concatenating do to what a history contains          *)

LEMMA MsgFacts ==
    ASSUME NEW m \in Msg
    PROVE  /\ m.calls \in Seq(AnyCall) /\ DOMAIN m.calls = 1 .. Len(m.calls)
           /\ m.role \in {"system", "user", "assistant", "tool"}
           /\ m.id \in Nat /\ (m.role = "tool" => m.id \in CallId)
           /\ (m.role # "assistant" => m.calls = <<>> /\ Ids(m) = {} /\ ToSet(m.calls) = {})
           /\ m.text \in SUBSET (Kinds \X Nat)
<1>1. m.calls \in Seq(AnyCall) /\ DOMAIN m.calls = 1 .. Len(m.calls)
  BY DEF Msg
<1> QED
  BY <1>1 DEF Msg, Ids, ToSet, CallId

LEMMA CallsType ==
    ASSUME NEW h \in Seq(Msg)
    PROVE  /\ CallsOf(h) \subseteq AnyCall /\ CallIds(h) \subseteq CallId
           /\ CallIds(h) = {c.id : c \in CallsOf(h)}
<1>1. \A i \in DOMAIN h : h[i] \in Msg
  OBVIOUS
<1>2. \A i \in DOMAIN h : h[i].calls \in Seq(AnyCall)
  BY <1>1, MsgFacts
<1>3. \A i \in DOMAIN h : \A k \in DOMAIN h[i].calls : h[i].calls[k] \in AnyCall
  BY <1>2
<1>4. CallsOf(h) \subseteq AnyCall
  BY <1>3 DEF CallsOf
<1>5. CallIds(h) = {c.id : c \in CallsOf(h)}
  BY DEF CallIds, CallsOf
<1>6. \A c \in AnyCall : c.id \in CallId
  BY DEF AnyCall, CallId
<1> QED
  BY <1>4, <1>5, <1>6

LEMMA AppendMembers ==
    ASSUME NEW o \in Seq(Msg), NEW m \in Msg
    PROVE  Append(o, m) \in Seq(Msg) /\ ToSet(Append(o, m)) = ToSet(o) \cup {m}
<1> DEFINE t == Append(o, m)
           n == Len(o)
<1>1. /\ n \in Nat /\ DOMAIN o = 1 .. n /\ DOMAIN t = 1 .. (n + 1) /\ t \in Seq(Msg)
      /\ t[n + 1] = m /\ \A k \in 1 .. n : t[k] = o[k]
  BY SeqFacts, AppendFacts
<1>2. 1 .. (n + 1) = 1 .. n \cup {n + 1}
  BY <1>1
<1> HIDE DEF t, n
<1> QED
  BY <1>1, <1>2 DEF ToSet, t

LEMMA AppendContents ==
    ASSUME NEW o \in Seq(Msg), NEW m \in Msg
    PROVE  /\ CallsOf(Append(o, m)) = CallsOf(o) \cup ToSet(m.calls)
           /\ CallIds(Append(o, m)) = CallIds(o) \cup Ids(m)
           /\ Mentions(Append(o, m)) = Mentions(o) \cup m.text
           /\ AnsweredIds(Append(o, m))
                  = AnsweredIds(o) \cup IF m.role = "tool" THEN {m.id} ELSE {}
           /\ ToSet(Append(o, m)) = ToSet(o) \cup {m}
<1> DEFINE t == Append(o, m)
           n == Len(o)
<1>1. /\ n \in Nat /\ DOMAIN o = 1 .. n /\ DOMAIN t = 1 .. (n + 1)
      /\ t[n + 1] = m /\ \A k \in 1 .. n : t[k] = o[k]
  BY SeqFacts, AppendFacts
<1>2. DOMAIN t = DOMAIN o \cup {n + 1} /\ n + 1 \notin DOMAIN o
  BY <1>1
<1>3. \A k \in DOMAIN o : t[k] = o[k]
  BY <1>1
<1> HIDE DEF t, n
<1>4. CallsOf(t) = CallsOf(o) \cup ToSet(m.calls)
  BY <1>1, <1>2, <1>3 DEF CallsOf, ToSet
<1>5. CallIds(t) = CallIds(o) \cup Ids(m)
  BY <1>1, <1>2, <1>3 DEF CallIds, Ids
<1>6. Mentions(t) = Mentions(o) \cup m.text
  BY <1>1, <1>2, <1>3 DEF Mentions
<1>7. AnsweredIds(t) = AnsweredIds(o) \cup IF m.role = "tool" THEN {m.id} ELSE {}
  BY <1>1, <1>2, <1>3 DEF AnsweredIds
<1>8. ToSet(t) = ToSet(o) \cup {m}
  BY <1>1, <1>2, <1>3 DEF ToSet
<1> QED
  BY <1>4, <1>5, <1>6, <1>7, <1>8 DEF t

LEMMA ConcatContents ==
    ASSUME NEW o \in Seq(Msg), NEW a \in Seq(Msg)
    PROVE  /\ CallsOf(o \o a) = CallsOf(o) \cup CallsOf(a)
           /\ CallIds(o \o a) = CallIds(o) \cup CallIds(a)
           /\ Mentions(o \o a) = Mentions(o) \cup Mentions(a)
           /\ AnsweredIds(o \o a) = AnsweredIds(o) \cup AnsweredIds(a)
           /\ ToSet(o \o a) = ToSet(o) \cup ToSet(a)
<1> DEFINE t == o \o a
           n == Len(o)
<1>1. /\ n \in Nat /\ Len(a) \in Nat /\ DOMAIN o = 1 .. n /\ DOMAIN a = 1 .. Len(a)
      /\ DOMAIN t = 1 .. (n + Len(a))
      /\ \A k \in 1 .. n : t[k] = o[k]
      /\ \A k \in 1 .. Len(a) : t[n + k] = a[k]
      /\ \A k \in 1 .. (n + Len(a)) : k \notin 1 .. n => k - n \in 1 .. Len(a) /\ t[k] = a[k - n]
  BY SeqFacts, ConcatFacts
<1>2. \A k \in DOMAIN t : (k \in DOMAIN o /\ t[k] = o[k]) \/ \E j \in DOMAIN a : t[k] = a[j]
  BY <1>1
<1>3. \A k \in DOMAIN o : k \in DOMAIN t /\ t[k] = o[k]
  BY <1>1
<1>4. \A j \in DOMAIN a : \E k \in DOMAIN t : t[k] = a[j]
  <2>1. ASSUME NEW j \in DOMAIN a PROVE n + j \in DOMAIN t /\ t[n + j] = a[j]
    BY <1>1
  <2> QED
    BY <2>1
<1> HIDE DEF t, n
<1>5. ToSet(t) = ToSet(o) \cup ToSet(a)
  BY <1>2, <1>3, <1>4 DEF ToSet
<1>6. \A s : /\ CallsOf(s) = UNION {ToSet(x.calls) : x \in ToSet(s)}
             /\ CallIds(s) = UNION {Ids(x) : x \in ToSet(s)}
             /\ Mentions(s) = UNION {x.text : x \in ToSet(s)}
             /\ AnsweredIds(s) = {x.id : x \in {y \in ToSet(s) : y.role = "tool"}}
  BY DEF CallsOf, CallIds, Mentions, AnsweredIds, ToSet, Ids
<1>7. CallsOf(t) = CallsOf(o) \cup CallsOf(a)
  BY <1>5, <1>6
<1>8. CallIds(t) = CallIds(o) \cup CallIds(a)
  BY <1>5, <1>6
<1>9. Mentions(t) = Mentions(o) \cup Mentions(a)
  BY <1>5, <1>6
<1>10. AnsweredIds(t) = AnsweredIds(o) \cup AnsweredIds(a)
  BY <1>5, <1>6
<1> QED
  BY <1>5, <1>7, <1>8, <1>9, <1>10 DEF t

LEMMA EmptyContents ==
    /\ CallsOf(<<>>) = {} /\ CallIds(<<>>) = {} /\ Mentions(<<>>) = {}
    /\ AnsweredIds(<<>>) = {} /\ ToSet(<<>>) = {} /\ UniqueIds(<<>>)
BY DEF CallsOf, CallIds, Mentions, AnsweredIds, ToSet, UniqueIds

\* A message with new ids keeps the ids of a history unique.
LEMMA AppendUnique ==
    ASSUME NEW o \in Seq(Msg), NEW m \in Msg
    PROVE  UniqueIds(Append(o, m))
               <=> UniqueIds(o) /\ Ids(m) \cap CallIds(o) = {} /\ IsInjective(OpenIds(m))
<1> DEFINE t == Append(o, m)
           n == Len(o)
<1>1. /\ n \in Nat /\ DOMAIN o = 1 .. n /\ DOMAIN t = 1 .. (n + 1)
      /\ t[n + 1] = m /\ \A k \in 1 .. n : t[k] = o[k]
  BY SeqFacts, AppendFacts
<1>2. DOMAIN t = DOMAIN o \cup {n + 1} /\ n + 1 \notin DOMAIN o
  BY <1>1
<1>3. \A k \in DOMAIN o : t[k] = o[k]
  BY <1>1
<1> HIDE DEF t, n
<1>4. ASSUME UniqueIds(t) PROVE UniqueIds(o)
  BY <1>2, <1>3, <1>4 DEF UniqueIds
<1>5. ASSUME UniqueIds(t) PROVE Ids(m) \cap CallIds(o) = {}
  <2> SUFFICES ASSUME NEW i \in DOMAIN o, NEW k \in DOMAIN o[i].calls, NEW l \in DOMAIN m.calls,
                      o[i].calls[k].id = m.calls[l].id
               PROVE  FALSE
    BY DEF Ids, CallIds
  <2>1. i \in DOMAIN t /\ n + 1 \in DOMAIN t /\ k \in DOMAIN t[i].calls /\ l \in DOMAIN t[n + 1].calls
        /\ t[i].calls[k].id = t[n + 1].calls[l].id
    BY <1>1, <1>2, <1>3
  <2> QED
    BY <1>2, <1>5, <2>1 DEF UniqueIds
<1>6. ASSUME UniqueIds(t) PROVE IsInjective(OpenIds(m))
  <2> SUFFICES ASSUME NEW k \in DOMAIN m.calls, NEW l \in DOMAIN m.calls,
                      m.calls[k].id = m.calls[l].id
               PROVE  k = l
    BY DEF IsInjective, OpenIds
  <2> QED
    BY <1>1, <1>2, <1>6 DEF UniqueIds
<1>7. ASSUME UniqueIds(o), Ids(m) \cap CallIds(o) = {}, IsInjective(OpenIds(m))
      PROVE  UniqueIds(t)
  <2> SUFFICES ASSUME NEW i \in DOMAIN t, NEW j \in DOMAIN t,
                      NEW k \in DOMAIN t[i].calls, NEW l \in DOMAIN t[j].calls,
                      t[i].calls[k].id = t[j].calls[l].id
               PROVE  i = j /\ k = l
    BY DEF UniqueIds
  <2>1. CASE i \in DOMAIN o /\ j \in DOMAIN o
    BY <1>3, <1>7, <2>1 DEF UniqueIds
  <2>2. CASE i = n + 1 /\ j = n + 1
    BY <1>1, <1>7, <2>2 DEF IsInjective, OpenIds
  <2>3. CASE i \in DOMAIN o /\ j = n + 1
    <3>1. o[i].calls[k].id \in CallIds(o) /\ m.calls[l].id \in Ids(m)
      BY <1>1, <1>3, <2>3 DEF CallIds, Ids
    <3> QED
      BY <1>1, <1>3, <1>7, <2>3, <3>1
  <2>4. CASE i = n + 1 /\ j \in DOMAIN o
    <3>1. o[j].calls[l].id \in CallIds(o) /\ m.calls[k].id \in Ids(m)
      BY <1>1, <1>3, <2>4 DEF CallIds, Ids
    <3> QED
      BY <1>1, <1>3, <1>7, <2>4, <3>1
  <2> QED
    BY <1>2, <2>1, <2>2, <2>3, <2>4
<1> QED
  BY <1>4, <1>5, <1>6, <1>7 DEF t

\* Tool messages say nothing about the calls.
LEMMA AppendAnswer ==
    ASSUME NEW o \in Seq(Msg), UniqueIds(o), NEW m \in Msg, m.calls = <<>>
    PROVE  UniqueIds(Append(o, m))
<1>1. Ids(m) = {} /\ DOMAIN OpenIds(m) = {}
  BY DEF Ids, OpenIds
<1> QED
  BY <1>1, AppendUnique DEF IsInjective

LEMMA ConcatUnique ==
    ASSUME NEW o \in Seq(Msg), UniqueIds(o), NEW a \in Seq(Msg),
           \A k \in DOMAIN a : a[k].calls = <<>>
    PROVE  UniqueIds(o \o a)
<1> DEFINE t == o \o a
           n == Len(o)
<1>1. /\ n \in Nat /\ Len(a) \in Nat /\ DOMAIN o = 1 .. n /\ DOMAIN a = 1 .. Len(a)
      /\ DOMAIN t = 1 .. (n + Len(a))
      /\ \A k \in 1 .. n : t[k] = o[k]
      /\ \A k \in 1 .. (n + Len(a)) : k \notin 1 .. n => k - n \in 1 .. Len(a) /\ t[k] = a[k - n]
  BY SeqFacts, ConcatFacts
<1>2. \A k \in DOMAIN t : (k \in DOMAIN o /\ t[k] = o[k]) \/ t[k].calls = <<>>
  BY <1>1
<1> HIDE DEF t
<1>3. UniqueIds(t)
  BY <1>2 DEF UniqueIds
<1> QED
  BY <1>3 DEF t
-----------------------------------------------------------------------------
(* Repair                                                                  *)

\* r is what the repair of h has after each message.
IsRepair(r, h) ==
    /\ r[0] = RepairBase
    /\ \A i \in 1 .. Len(h) : r[i] = RepairOne(r[i - 1], h[i])

LEMMA RepairRuns ==
    ASSUME NEW h \in Seq(Msg)
    PROVE  \E r : /\ IsRepair(r, h)
                  /\ Repair(h) = r[Len(h)].out \o Placeholders(r[Len(h)].open)
<1>1. Len(h) \in Nat /\ DOMAIN h = 1 .. Len(h)
  BY SeqFacts
<1>2. PICK r : /\ IsRun(r, "repair", 0, RepairBase, h, Len(h))
               /\ r[Len(h)] = FoldLeft(RepairOne, RepairBase, h)
  BY <1>1, RepairRun
<1>3. IsRepair(r, h)
  BY <1>2 DEF IsRepair, IsRun, Step
<1>4. Repair(h) = r[Len(h)].out \o Placeholders(r[Len(h)].open)
  BY <1>2 DEF Repair, RepairBase
<1> QED
  BY <1>3, <1>4

\* What the repair has after some messages is a history that owes its calls.
Repairing(r) == r.out \in Seq(Msg) /\ r.open \in Seq(CallId) /\ Owes(r.out, r.open)

\* The three things the repair does with a message.
LEMMA RepairCases ==
    ASSUME NEW r, NEW m, NEW q, q = RepairOne(r, m)
    PROVE  \/ /\ m.role = "tool" /\ Contains(r.open, m.id)
              /\ q.out = Append(r.out, m) /\ q.open = RemoveFirst(r.open, m.id)
           \/ m.role = "tool" /\ ~Contains(r.open, m.id) /\ q = r
           \/ /\ m.role # "tool"
              /\ q.out = Append(r.out \o Placeholders(r.open), m) /\ q.open = OpenIds(m)
BY DEF RepairOne, OpenIds

LEMMA RepairingStep ==
    ASSUME NEW r, Repairing(r), NEW m \in Msg, NEW q, q = RepairOne(r, m)
    PROVE  Repairing(q)
<1>1. CASE /\ m.role = "tool" /\ Contains(r.open, m.id)
           /\ q.out = Append(r.out, m) /\ q.open = RemoveFirst(r.open, m.id)
  <2>1. /\ q.open \in Seq(CallId) /\ Len(r.open) \in Nat /\ Len(q.open) = Len(r.open) - 1
        /\ ToSet(q.open) \cup {m.id} = ToSet(r.open)
    BY <1>1, RemovedOnce, SeqFacts DEF Repairing
  <2>2. Len(r.open) = Len(q.open) + 1
    BY <2>1
  <2>3. Owes(Append(r.out, m), q.open)
    BY <1>1, <2>1, <2>2, OwesAnswer DEF Repairing
  <2>4. Append(r.out, m) \in Seq(Msg)
    BY AppendFacts DEF Repairing
  <2> QED
    BY <1>1, <2>1, <2>3, <2>4 DEF Repairing
<1>2. CASE m.role = "tool" /\ ~Contains(r.open, m.id) /\ q = r
  BY <1>2
<1>3. CASE /\ m.role # "tool"
           /\ q.out = Append(r.out \o Placeholders(r.open), m) /\ q.open = OpenIds(m)
  <2> DEFINE o == r.out \o Placeholders(r.open)
  <2>1. o \in Seq(Msg)
    BY ConcatFacts, PlaceholderFacts DEF Repairing
  <2>2. Owes(o, <<>>)
    BY OwesNothing DEF Repairing
  <2> HIDE DEF o
  <2>3. Owes(Append(o, m), OpenIds(m)) /\ Append(o, m) \in Seq(Msg)
    BY <1>3, <2>1, <2>2, OwesOther, AppendFacts
  <2>4. OpenIds(m) \in Seq(CallId)
    BY OpenIdsType
  <2>5. q.out = Append(o, m)
    BY <1>3 DEF o
  <2> QED
    BY <1>3, <2>3, <2>4, <2>5 DEF Repairing
<1> QED
  BY <1>1, <1>2, <1>3, RepairCases, ZenonT(60)

LEMMA RepairingAll ==
    ASSUME NEW h \in Seq(Msg), NEW r, IsRepair(r, h)
    PROVE  \A i \in 0 .. Len(h) : Repairing(r[i])
<1> DEFINE S == {i \in 0 .. Len(h) : Repairing(r[i])}
<1>1. Len(h) \in Nat /\ \A i \in 1 .. Len(h) : h[i] \in Msg
  BY SeqFacts
<1>2. 0 \in S
  <2>1. <<>> \in Seq(Msg) /\ <<>> \in Seq(CallId) /\ DOMAIN <<>> = {}
    OBVIOUS
  <2>2. Owes(<<>>, <<>>)
    BY <2>1 DEF Owes
  <2>3. r[0].out = <<>> /\ r[0].open = <<>> /\ 0 \in 0 .. Len(h)
    BY <1>1 DEF IsRepair, RepairBase
  <2> QED
    BY <2>1, <2>2, <2>3 DEF Repairing
<1>3. ASSUME NEW i \in 1 .. Len(h), i - 1 \in S PROVE i \in S
  <2>1. r[i] = RepairOne(r[i - 1], h[i])
    BY DEF IsRepair
  <2> QED
    BY <1>1, <1>3, <2>1, RepairingStep
<1> HIDE DEF S
<1>4. \A i \in 0 .. Len(h) : i \in S
  BY <1>1, <1>2, <1>3, Induction
<1> QED
  BY <1>4 DEF S

\* The repair of any history is paired.
LEMMA RepairPairs ==
    ASSUME NEW h \in Seq(Msg)
    PROVE  Repair(h) \in Seq(Msg) /\ Paired(Repair(h)) /\ Owes(Repair(h), <<>>)
<1>1. PICK r : /\ IsRepair(r, h)
               /\ Repair(h) = r[Len(h)].out \o Placeholders(r[Len(h)].open)
  BY RepairRuns
<1>2. Len(h) \in 0 .. Len(h)
  BY SeqFacts
<1>3. Repairing(r[Len(h)])
  BY <1>1, <1>2, RepairingAll
<1>4. Repair(h) \in Seq(Msg)
  BY <1>1, <1>3, ConcatFacts, PlaceholderFacts DEF Repairing
<1>5. Owes(Repair(h), <<>>)
  BY <1>1, <1>3, OwesNothing DEF Repairing
<1> QED
  BY <1>4, <1>5, PairedOwes

LEMMA PlaceholderContents ==
    ASSUME NEW open \in Seq(CallId)
    PROVE  /\ ToSet(Placeholders(open)) = {Lost(id) : id \in ToSet(open)}
           /\ CallsOf(Placeholders(open)) = {}
           /\ CallIds(Placeholders(open)) = {}
           /\ \A k \in DOMAIN Placeholders(open) :
                  Placeholders(open)[k].calls = <<>> /\ Placeholders(open)[k].role = "tool"
<1>1. /\ DOMAIN Placeholders(open) = DOMAIN open
      /\ \A k \in DOMAIN open : Placeholders(open)[k] = Lost(open[k])
  BY PlaceholderFacts
<1>2. \A k \in DOMAIN open :
          Placeholders(open)[k].calls = <<>> /\ Placeholders(open)[k].role = "tool"
  BY <1>1 DEF Lost, ToolResult, Message
<1>3. ToSet(Placeholders(open)) = {Lost(id) : id \in ToSet(open)}
  BY <1>1 DEF ToSet
<1>4. CallsOf(Placeholders(open)) = {} /\ CallIds(Placeholders(open)) = {}
  BY <1>1, <1>2 DEF CallsOf, CallIds
<1> QED
  BY <1>1, <1>2, <1>3, <1>4

\* What the repair of h is made of: the calls of h, and its messages and
\* placeholders for its calls.
Prefix(h, i) == SubSeq(h, 1, i)

MadeFrom(o, open, h) ==
    /\ CallsOf(o) = CallsOf(h) /\ CallIds(o) = CallIds(h)
    /\ ToSet(open) \subseteq CallIds(h)
    /\ ToSet(o) \subseteq ToSet(h) \cup {Lost(id) : id \in CallIds(h)}
    /\ {m \in ToSet(h) : m.role # "tool"} \subseteq ToSet(o)
    /\ UniqueIds(h) => UniqueIds(o)

LEMMA MadeStep ==
    ASSUME NEW h \in Seq(Msg), NEW r, Repairing(r), MadeFrom(r.out, r.open, h),
           NEW m \in Msg, NEW q, q = RepairOne(r, m)
    PROVE  MadeFrom(q.out, q.open, Append(h, m))
<1> DEFINE g == Append(h, m)
<1>1. /\ CallsOf(g) = CallsOf(h) \cup ToSet(m.calls)
      /\ CallIds(g) = CallIds(h) \cup Ids(m)
      /\ ToSet(g) = ToSet(h) \cup {m}
  BY AppendContents
<1>2. UniqueIds(g) <=> UniqueIds(h) /\ Ids(m) \cap CallIds(h) = {} /\ IsInjective(OpenIds(m))
  BY AppendUnique
<1>3. r.out \in Seq(Msg) /\ r.open \in Seq(CallId)
  BY DEF Repairing
<1> HIDE DEF g
<1>4. CASE /\ m.role = "tool" /\ Contains(r.open, m.id)
           /\ q.out = Append(r.out, m) /\ q.open = RemoveFirst(r.open, m.id)
  <2>1. ToSet(m.calls) = {} /\ Ids(m) = {} /\ m.calls = <<>>
    BY <1>4, MsgFacts
  <2>2. /\ CallsOf(q.out) = CallsOf(r.out) /\ CallIds(q.out) = CallIds(r.out)
        /\ ToSet(q.out) = ToSet(r.out) \cup {m}
    <3>1. /\ CallsOf(Append(r.out, m)) = CallsOf(r.out) \cup ToSet(m.calls)
          /\ CallIds(Append(r.out, m)) = CallIds(r.out) \cup Ids(m)
          /\ ToSet(Append(r.out, m)) = ToSet(r.out) \cup {m}
      BY <1>3, AppendContents
    <3> QED
      BY <1>4, <2>1, <3>1
  <2>3. UniqueIds(r.out) => UniqueIds(q.out)
    BY <1>3, <1>4, <2>1, AppendAnswer
  <2>4. ToSet(q.open) \subseteq ToSet(r.open)
    BY <1>3, <1>4, RemovedOnce
  <2> QED
    BY <1>1, <1>2, <2>1, <2>2, <2>3, <2>4 DEF MadeFrom, g
<1>5. CASE m.role = "tool" /\ ~Contains(r.open, m.id) /\ q = r
  <2>1. ToSet(m.calls) = {} /\ Ids(m) = {}
    BY <1>5, MsgFacts
  <2> QED
    BY <1>1, <1>2, <1>5, <2>1 DEF MadeFrom, g
<1>6. CASE /\ m.role # "tool"
           /\ q.out = Append(r.out \o Placeholders(r.open), m) /\ q.open = OpenIds(m)
  <2> DEFINE a == Placeholders(r.open)
             o == r.out \o a
  <2>1. /\ a \in Seq(Msg) /\ CallsOf(a) = {} /\ CallIds(a) = {}
        /\ ToSet(a) = {Lost(id) : id \in ToSet(r.open)}
        /\ \A k \in DOMAIN a : a[k].calls = <<>>
    BY <1>3, PlaceholderFacts, PlaceholderContents
  <2> HIDE DEF a
  <2>2. /\ o \in Seq(Msg) /\ CallsOf(o) = CallsOf(r.out) /\ CallIds(o) = CallIds(r.out)
        /\ ToSet(o) = ToSet(r.out) \cup ToSet(a)
        /\ UniqueIds(r.out) => UniqueIds(o)
    <3>1. o \in Seq(Msg)
      BY <1>3, <2>1, ConcatFacts
    <3>2. /\ CallsOf(o) = CallsOf(r.out) \cup CallsOf(a)
          /\ CallIds(o) = CallIds(r.out) \cup CallIds(a)
          /\ ToSet(o) = ToSet(r.out) \cup ToSet(a)
      BY <1>3, <2>1, ConcatContents
    <3>3. UniqueIds(r.out) => UniqueIds(o)
      BY <1>3, <2>1, ConcatUnique
    <3> QED
      BY <2>1, <3>1, <3>2, <3>3
  <2> HIDE DEF o
  <2>3. q.out = Append(o, m)
    BY <1>6 DEF o, a
  <2>4. /\ CallsOf(q.out) = CallsOf(o) \cup ToSet(m.calls)
        /\ CallIds(q.out) = CallIds(o) \cup Ids(m)
        /\ ToSet(q.out) = ToSet(o) \cup {m}
    BY <2>2, <2>3, AppendContents
  <2>5. UniqueIds(q.out)
            <=> UniqueIds(o) /\ Ids(m) \cap CallIds(o) = {} /\ IsInjective(OpenIds(m))
    BY <2>2, <2>3, AppendUnique
  <2>6. ToSet(q.open) \subseteq CallIds(g)
    BY <1>1, <1>6, OpenIdsType
  <2>7. CallsOf(q.out) = CallsOf(g) /\ CallIds(q.out) = CallIds(g)
    BY <1>1, <2>2, <2>4 DEF MadeFrom
  <2>8. UniqueIds(g) => UniqueIds(q.out)
    BY <1>2, <2>2, <2>5 DEF MadeFrom, g
  <2>9. ToSet(q.out) \subseteq ToSet(g) \cup {Lost(id) : id \in CallIds(g)}
    BY <1>1, <2>1, <2>2, <2>4 DEF MadeFrom
  <2>10. {x \in ToSet(g) : x.role # "tool"} \subseteq ToSet(q.out)
    BY <1>1, <2>2, <2>4 DEF MadeFrom
  <2> QED
    BY <2>6, <2>7, <2>8, <2>9, <2>10 DEF MadeFrom, g
<1> QED
  BY <1>4, <1>5, <1>6, RepairCases, ZenonT(60)

LEMMA PrefixFacts ==
    ASSUME NEW S, NEW h \in Seq(S)
    PROVE  /\ Prefix(h, 0) = <<>> /\ Prefix(h, Len(h)) = h
           /\ \A i \in 0 .. Len(h) :
                 /\ Prefix(h, i) \in Seq(S) /\ Len(Prefix(h, i)) = i
                 /\ \A k \in 1 .. i : Prefix(h, i)[k] = h[k]
           /\ \A i \in 1 .. Len(h) : Prefix(h, i) = Append(Prefix(h, i - 1), h[i])
<1>1. Len(h) \in Nat /\ \A i \in 1 .. Len(h) : h[i] \in S
  BY SeqFacts
<1>2. ASSUME NEW i \in 0 .. Len(h)
      PROVE  /\ Prefix(h, i) \in Seq(S) /\ Len(Prefix(h, i)) = i
             /\ \A k \in 1 .. i : Prefix(h, i)[k] = h[k]
  BY <1>1, SubSeqProperties DEF Prefix
<1>3. ASSUME NEW i \in 1 .. Len(h) PROVE Prefix(h, i) = Append(Prefix(h, i - 1), h[i])
  BY <1>1, SubSeqRecursiveSecond DEF Prefix
<1>4. Prefix(h, 0) = <<>> /\ Prefix(h, Len(h)) = h
  BY <1>1, SubSeqEmpty, SubSeqFull DEF Prefix
<1> QED
  BY <1>2, <1>3, <1>4

LEMMA RepairMade ==
    ASSUME NEW h \in Seq(Msg)
    PROVE  MadeFrom(Repair(h), <<>>, h)
<1>1. PICK r : /\ IsRepair(r, h)
               /\ Repair(h) = r[Len(h)].out \o Placeholders(r[Len(h)].open)
  BY RepairRuns
<1>2. Len(h) \in Nat /\ \A i \in 1 .. Len(h) : h[i] \in Msg
  BY SeqFacts
<1>3. \A i \in 0 .. Len(h) : Repairing(r[i])
  BY <1>1, RepairingAll
<1> DEFINE S == {i \in 0 .. Len(h) : MadeFrom(r[i].out, r[i].open, Prefix(h, i))}
<1>4. 0 \in S
  <2>1. r[0].out = <<>> /\ r[0].open = <<>> /\ Prefix(h, 0) = <<>> /\ 0 \in 0 .. Len(h)
    BY <1>1, <1>2, PrefixFacts DEF IsRepair, RepairBase
  <2>2. MadeFrom(<<>>, <<>>, <<>>)
    BY EmptyContents DEF MadeFrom
  <2> QED
    BY <2>1, <2>2
<1>5. ASSUME NEW i \in 1 .. Len(h), i - 1 \in S PROVE i \in S
  <2>1. /\ r[i] = RepairOne(r[i - 1], h[i]) /\ Repairing(r[i - 1]) /\ h[i] \in Msg
        /\ Prefix(h, i - 1) \in Seq(Msg) /\ Prefix(h, i) = Append(Prefix(h, i - 1), h[i])
        /\ MadeFrom(r[i - 1].out, r[i - 1].open, Prefix(h, i - 1))
    <3>1. i - 1 \in 0 .. Len(h)
      BY <1>2
    <3> QED
      BY <1>1, <1>2, <1>3, <1>5, <3>1, PrefixFacts DEF IsRepair
  <2>2. MadeFrom(r[i].out, r[i].open, Prefix(h, i))
    BY <2>1, MadeStep
  <2> QED
    BY <1>2, <2>2
<1> HIDE DEF S
<1>6. Len(h) \in S
  <2>1. \A l \in 0 .. Len(h) : l \in S
    BY <1>2, <1>4, <1>5, Induction
  <2> QED
    BY <1>2, <2>1
<1> DEFINE o == r[Len(h)].out
           open == r[Len(h)].open
           a == Placeholders(open)
<1>7. MadeFrom(o, open, h) /\ o \in Seq(Msg) /\ open \in Seq(CallId)
  BY <1>2, <1>3, <1>6, PrefixFacts DEF S, Repairing
<1>8. Repair(h) = o \o a
  BY <1>1
<1> HIDE DEF o, open
<1>9. /\ a \in Seq(Msg) /\ CallsOf(a) = {} /\ CallIds(a) = {}
      /\ ToSet(a) = {Lost(id) : id \in ToSet(open)}
      /\ \A k \in DOMAIN a : a[k].calls = <<>>
  BY <1>7, PlaceholderFacts, PlaceholderContents
<1> HIDE DEF a
<1>10. /\ CallsOf(o \o a) = CallsOf(o) \cup CallsOf(a)
       /\ CallIds(o \o a) = CallIds(o) \cup CallIds(a)
       /\ ToSet(o \o a) = ToSet(o) \cup ToSet(a)
  BY <1>7, <1>9, ConcatContents
<1>11. UniqueIds(o) => UniqueIds(o \o a)
  BY <1>7, <1>9, ConcatUnique
<1>12. ToSet(<<>>) = {}
  BY EmptyContents
<1> QED
  BY <1>7, <1>8, <1>9, <1>10, <1>11, <1>12 DEF MadeFrom

\* The first answer to an open call survives.
Survives(o, open, h) ==
    /\ \A i, j \in DOMAIN h :
          /\ h[i].role # "tool" /\ i < j /\ \A k \in (i + 1) .. j : h[k].role = "tool"
          /\ h[j].id \in Ids(h[i])
          => \E k \in (i + 1) .. j : h[k].id = h[j].id /\ h[k] \in ToSet(o)
    /\ \A i \in DOMAIN h :
          h[i].role # "tool" /\ (\A k \in (i + 1) .. Len(h) : h[k].role = "tool") =>
              \A id \in Ids(h[i]) :
                  \/ id \in ToSet(open)
                  \/ \E k \in (i + 1) .. Len(h) : h[k].id = id /\ h[k] \in ToSet(o)

LEMMA SurvivesStep ==
    ASSUME NEW h \in Seq(Msg), NEW r, Repairing(r), Survives(r.out, r.open, h),
           NEW m \in Msg, NEW q, q = RepairOne(r, m)
    PROVE  Survives(q.out, q.open, Append(h, m))
<1> DEFINE g == Append(h, m)
           n == Len(h)
<1>1. /\ n \in Nat /\ DOMAIN h = 1 .. n /\ DOMAIN g = 1 .. (n + 1) /\ Len(g) = n + 1
      /\ g[n + 1] = m /\ \A k \in 1 .. n : g[k] = h[k]
  BY SeqFacts, AppendFacts
<1>2. r.out \in Seq(Msg) /\ r.open \in Seq(CallId)
  BY DEF Repairing
<1>0. \/ /\ m.role = "tool" /\ Contains(r.open, m.id)
         /\ q.out = Append(r.out, m) /\ q.open = RemoveFirst(r.open, m.id)
      \/ m.role = "tool" /\ ~Contains(r.open, m.id) /\ q = r
      \/ /\ m.role # "tool"
         /\ q.out = Append(r.out \o Placeholders(r.open), m) /\ q.open = OpenIds(m)
  BY RepairCases, ZenonT(60)
<1>3. ToSet(r.out) \subseteq ToSet(q.out)
  <2>1. CASE q.out = Append(r.out, m)
    <3>1. ToSet(Append(r.out, m)) = ToSet(r.out) \cup {m}
      BY <1>2, AppendContents
    <3> QED
      BY <2>1, <3>1
  <2>2. CASE q.out = Append(r.out \o Placeholders(r.open), m)
    <3>1. r.out \o Placeholders(r.open) \in Seq(Msg)
      BY <1>2, ConcatFacts, PlaceholderFacts
    <3>2. ToSet(r.out) \subseteq ToSet(r.out \o Placeholders(r.open))
      BY <1>2, ConcatContents, PlaceholderFacts
    <3> DEFINE o == r.out \o Placeholders(r.open)
    <3>3. ToSet(Append(o, m)) = ToSet(o) \cup {m}
      BY <3>1, AppendContents
    <3> QED
      BY <2>2, <3>2, <3>3
  <2> QED
    BY <1>0, <2>1, <2>2
<1> HIDE DEF g, n
\* What the new message answers is open still, or was answered before.
<1>4. ASSUME NEW i \in 1 .. n, h[i].role # "tool", \A k \in (i + 1) .. n : h[k].role = "tool",
             m.role = "tool", NEW id \in Ids(h[i])
      PROVE  /\ \/ id \in ToSet(q.open)
                \/ \E k \in (i + 1) .. (n + 1) : g[k].id = id /\ g[k] \in ToSet(q.out)
             /\ id = m.id =>
                  \E k \in (i + 1) .. (n + 1) : g[k].id = id /\ g[k] \in ToSet(q.out)
  <2>1. CASE \E k \in (i + 1) .. n : h[k].id = id /\ h[k] \in ToSet(r.out)
    <3>1. PICK k \in (i + 1) .. n : h[k].id = id /\ h[k] \in ToSet(r.out)
      BY <2>1
    <3>2. k \in (i + 1) .. (n + 1) /\ g[k] = h[k]
      BY <1>1
    <3> QED
      BY <1>3, <3>1, <3>2
  <2>2. CASE id \in ToSet(r.open)
    <3>1. CASE id = m.id
      <4>1. Contains(r.open, m.id)
        <5>1. DOMAIN r.open = 1 .. Len(r.open)
          BY <1>2, SeqFacts
        <5> QED
          BY <2>2, <3>1, <5>1 DEF Contains, ToSet
      <4>2. q.out = Append(r.out, m)
        BY <1>0, <1>4, <4>1
      <4>3. m \in ToSet(q.out)
        BY <1>2, <4>2, AppendContents
      <4>4. n + 1 \in (i + 1) .. (n + 1)
        BY <1>1
      <4> QED
        BY <1>1, <3>1, <4>3, <4>4
    <3>2. CASE id # m.id
      <4>1. id \in ToSet(q.open)
        <5>1. CASE q.open = RemoveFirst(r.open, m.id) /\ Contains(r.open, m.id)
          BY <1>2, <2>2, <3>2, <5>1, RemovedOnce
        <5>2. CASE q = r
          BY <2>2, <5>2
        <5> QED
          BY <1>0, <1>4, <5>1, <5>2
      <4> QED
        BY <3>2, <4>1
    <3> QED
      BY <3>1, <3>2
  <2>3. \/ id \in ToSet(r.open)
        \/ \E k \in (i + 1) .. n : h[k].id = id /\ h[k] \in ToSet(r.out)
    BY <1>1, <1>4 DEF Survives, n
  <2> QED
    BY <2>1, <2>2, <2>3
<1>5. ASSUME NEW i \in DOMAIN g, NEW j \in DOMAIN g, g[i].role # "tool", i < j,
             \A k \in (i + 1) .. j : g[k].role = "tool", g[j].id \in Ids(g[i])
      PROVE  \E k \in (i + 1) .. j : g[k].id = g[j].id /\ g[k] \in ToSet(q.out)
  <2>1. i \in 1 .. n /\ g[i] = h[i]
    BY <1>1, <1>5
  <2>2. CASE j = n + 1
    <3>1. m.role = "tool" /\ m.id \in Ids(h[i]) /\ h[i].role # "tool"
      <4>1. j \in (i + 1) .. j
        BY <1>1, <1>5
      <4> QED
        BY <1>1, <1>5, <2>1, <2>2, <4>1
    <3>2. \A k \in (i + 1) .. n : h[k].role = "tool"
      BY <1>1, <1>5, <2>1, <2>2
    <3> QED
      BY <1>1, <1>4, <2>1, <2>2, <3>1, <3>2
  <2>3. CASE j \in 1 .. n
    <3>1. g[j] = h[j] /\ \A k \in (i + 1) .. j : k \in 1 .. n /\ g[k] = h[k]
      BY <1>1, <2>1, <2>3
    <3>2. \A k \in (i + 1) .. j : h[k].role = "tool"
      BY <1>5, <3>1
    <3>3. PICK k \in (i + 1) .. j : h[k].id = h[j].id /\ h[k] \in ToSet(r.out)
      BY <1>1, <1>5, <2>1, <2>3, <3>1, <3>2 DEF Survives
    <3> QED
      BY <1>3, <3>1, <3>3
  <2> QED
    BY <1>1, <2>2, <2>3
<1>6. ASSUME NEW i \in DOMAIN g, g[i].role # "tool",
             \A k \in (i + 1) .. (n + 1) : g[k].role = "tool", NEW id \in Ids(g[i])
      PROVE  \/ id \in ToSet(q.open)
             \/ \E k \in (i + 1) .. (n + 1) : g[k].id = id /\ g[k] \in ToSet(q.out)
  <2>1. CASE i = n + 1
    <3>1. q.open = OpenIds(m) /\ g[i] = m
      BY <1>0, <1>1, <1>6, <2>1
    <3> QED
      BY <3>1, OpenIdsType
  <2>2. CASE i \in 1 .. n
    <3>1. g[i] = h[i] /\ m.role = "tool" /\ \A k \in (i + 1) .. n : h[k].role = "tool"
      BY <1>1, <1>6, <2>2
    <3> QED
      BY <1>4, <1>6, <2>2, <3>1
  <2> QED
    BY <1>1, <2>1, <2>2
<1>7. Survives(q.out, q.open, g)
  BY <1>1, <1>5, <1>6 DEF Survives
<1> QED
  BY <1>7 DEF g

LEMMA RepairSurvives ==
    ASSUME NEW h \in Seq(Msg), NEW i \in DOMAIN h, h[i].role # "tool",
           NEW j \in AnswersAfter(h, i), h[j].id \in Ids(h[i])
    PROVE  \E k \in AnswersAfter(h, i) : h[k].id = h[j].id /\ h[k] \in ToSet(Repair(h))
<1>1. PICK r : /\ IsRepair(r, h)
               /\ Repair(h) = r[Len(h)].out \o Placeholders(r[Len(h)].open)
  BY RepairRuns
<1>2. Len(h) \in Nat /\ DOMAIN h = 1 .. Len(h) /\ \A l \in 1 .. Len(h) : h[l] \in Msg
  BY SeqFacts
<1>3. \A l \in 0 .. Len(h) : Repairing(r[l])
  BY <1>1, RepairingAll
<1> DEFINE S == {l \in 0 .. Len(h) : Survives(r[l].out, r[l].open, Prefix(h, l))}
<1>4. 0 \in S
  <2>1. Prefix(h, 0) = <<>> /\ 0 \in 0 .. Len(h) /\ DOMAIN <<>> = {}
    BY <1>2, PrefixFacts
  <2>2. Survives(r[0].out, r[0].open, <<>>)
    BY <2>1 DEF Survives
  <2> QED
    BY <2>1, <2>2
<1>5. ASSUME NEW l \in 1 .. Len(h), l - 1 \in S PROVE l \in S
  <2>1. /\ r[l] = RepairOne(r[l - 1], h[l]) /\ Repairing(r[l - 1]) /\ h[l] \in Msg
        /\ Prefix(h, l - 1) \in Seq(Msg) /\ Prefix(h, l) = Append(Prefix(h, l - 1), h[l])
        /\ Survives(r[l - 1].out, r[l - 1].open, Prefix(h, l - 1))
    <3>1. l - 1 \in 0 .. Len(h)
      BY <1>2
    <3> QED
      BY <1>1, <1>2, <1>3, <1>5, <3>1, PrefixFacts DEF IsRepair
  <2>2. Survives(r[l].out, r[l].open, Prefix(h, l))
    BY <2>1, SurvivesStep
  <2> QED
    BY <1>2, <2>2
<1> HIDE DEF S
<1>6. Len(h) \in S
  <2>1. \A l \in 0 .. Len(h) : l \in S
    BY <1>2, <1>4, <1>5, Induction
  <2> QED
    BY <1>2, <2>1
<1>7. Survives(r[Len(h)].out, r[Len(h)].open, h)
  BY <1>6, PrefixFacts DEF S
<1>8. j \in (i + 1) .. Len(h) /\ \A k \in (i + 1) .. j : h[k].role = "tool"
  BY DEF AnswersAfter
<1>9. PICK k \in (i + 1) .. j : h[k].id = h[j].id /\ h[k] \in ToSet(r[Len(h)].out)
  BY <1>2, <1>7, <1>8 DEF Survives
<1>10. k \in AnswersAfter(h, i)
  BY <1>2, <1>8 DEF AnswersAfter
<1>11. ToSet(r[Len(h)].out) \subseteq ToSet(Repair(h))
  <2>1. Repairing(r[Len(h)])
    BY <1>2, <1>3
  <2> QED
    BY <1>1, <2>1, ConcatContents, PlaceholderFacts DEF Repairing
<1> QED
  BY <1>9, <1>10, <1>11
-----------------------------------------------------------------------------
(* Transcripts that were cut: the calls that may still be answered         *)

\* w[i] are the calls that the message after h[i] may answer.
Feeds(h, w) ==
    /\ w[0] = {}
    /\ \A i \in 1 .. Len(h) :
          IF h[i].role = "tool" THEN h[i].id \in w[i - 1] /\ w[i] = w[i - 1] \ {h[i].id}
                                ELSE w[i] = Ids(h[i])

LEMMA LastOther ==
    ASSUME NEW h \in Seq(Msg), h # <<>> => h[1].role # "tool", NEW i \in 1 .. Len(h)
    PROVE  \E p \in 1 .. i : h[p].role # "tool" /\ \A k \in (p + 1) .. i : h[k].role = "tool"
<1> DEFINE Ok(j) == \E p \in 1 .. j : h[p].role # "tool" /\ \A k \in (p + 1) .. j : h[k].role = "tool"
           S == {j \in 0 .. Len(h) : j = 0 \/ Ok(j)}
<1>1. Len(h) \in Nat /\ h # <<>>
  BY SeqFacts
<1>2. 0 \in S
  BY <1>1
<1>3. ASSUME NEW j \in 1 .. Len(h), j - 1 \in S PROVE j \in S
  <2>1. CASE h[j].role # "tool"
    <3>1. j \in 1 .. j /\ \A k \in (j + 1) .. j : FALSE
      BY <1>1
    <3> QED
      BY <1>1, <2>1, <3>1
  <2>2. CASE h[j].role = "tool"
    <3>1. j # 1
      BY <1>1, <2>2
    <3>2. PICK p \in 1 .. (j - 1) :
              h[p].role # "tool" /\ \A k \in (p + 1) .. (j - 1) : h[k].role = "tool"
      BY <1>1, <1>3, <3>1
    <3>3. p \in 1 .. j /\ \A k \in (p + 1) .. j : k \in (p + 1) .. (j - 1) \/ k = j
      BY <1>1
    <3>4. \A k \in (p + 1) .. j : h[k].role = "tool"
      BY <2>2, <3>2, <3>3
    <3> QED
      BY <1>1, <3>2, <3>3, <3>4
  <2> QED
    BY <2>1, <2>2
<1> HIDE DEF S
<1>4. \A j \in 0 .. Len(h) : j \in S
  BY <1>1, <1>2, <1>3, Induction
<1>5. i \in S /\ i # 0
  BY <1>1, <1>4
<1> QED
  BY <1>5 DEF S

\* The calls left after h[i], looked up from behind.
LeftAfter(h, i) ==
    {id \in CallId : \E p \in 1 .. i :
        /\ h[p].role # "tool" /\ \A k \in (p + 1) .. i : h[k].role = "tool"
        /\ id \in Ids(h[p]) /\ \A k \in (p + 1) .. i : h[k].id # id}

LEMMA LeftAt ==
    ASSUME NEW h \in Seq(Msg), NEW i \in 1 .. Len(h), NEW p \in 1 .. i,
           h[p].role # "tool", \A k \in (p + 1) .. i : h[k].role = "tool"
    PROVE  LeftAfter(h, i) = {id \in Ids(h[p]) : \A k \in (p + 1) .. i : h[k].id # id}
<1>1. Len(h) \in Nat /\ h[p] \in Msg
  BY SeqFacts
<1>2. Ids(h[p]) \subseteq CallId
  BY <1>1, OpenIdsType
<1>3. \A q \in 1 .. i :
          h[q].role # "tool" /\ (\A k \in (q + 1) .. i : h[k].role = "tool") => q = p
  <2> SUFFICES ASSUME NEW q \in 1 .. i, h[q].role # "tool",
                      \A k \in (q + 1) .. i : h[k].role = "tool"
               PROVE  q = p
    OBVIOUS
  <2>1. ~(q < p) /\ ~(p < q)
    BY <1>1
  <2> QED
    BY <1>1, <2>1
<1> QED
  BY <1>2, <1>3 DEF LeftAfter

LEMMA CutFeeds ==
    ASSUME NEW h \in Seq(Msg), Cut(h)
    PROVE  Feeds(h, [i \in 0 .. Len(h) |-> LeftAfter(h, i)])
<1> DEFINE w == [i \in 0 .. Len(h) |-> LeftAfter(h, i)]
<1>1. Len(h) \in Nat /\ DOMAIN h = 1 .. Len(h) /\ \A l \in 1 .. Len(h) : h[l] \in Msg
  BY SeqFacts
<1>2. w[0] = {}
  BY <1>1 DEF LeftAfter
<1>3. ASSUME NEW i \in 1 .. Len(h), h[i].role # "tool" PROVE LeftAfter(h, i) = Ids(h[i])
  <2>1. i \in 1 .. i /\ \A k \in (i + 1) .. i : FALSE
    BY <1>1
  <2>2. \A k \in (i + 1) .. i : h[k].role = "tool"
    BY <2>1
  <2>3. LeftAfter(h, i) = {id \in Ids(h[i]) : \A k \in (i + 1) .. i : h[k].id # id}
    BY <1>3, <2>1, <2>2, LeftAt
  <2> QED
    BY <2>1, <2>3
<1>4. ASSUME NEW i \in 1 .. Len(h), h[i].role = "tool"
      PROVE  h[i].id \in LeftAfter(h, i - 1)
             /\ LeftAfter(h, i) = LeftAfter(h, i - 1) \ {h[i].id}
  <2>1. PICK p \in 1 .. i : h[p].role # "tool" /\ \A k \in (p + 1) .. i : h[k].role = "tool"
    BY LastOther DEF Cut
  <2>2. p \in 1 .. (i - 1) /\ i - 1 \in 1 .. Len(h) /\ p \in DOMAIN h
    <3>1. p # i
      BY <1>4, <2>1
    <3> QED
      BY <1>1, <3>1
  <2>3. \A k \in (p + 1) .. i : k \in (p + 1) .. (i - 1) \/ k = i
    BY <1>1
  <2>4. \A k \in (p + 1) .. (i - 1) : k \in (p + 1) .. i /\ k # i
    BY <1>1
  <2>5. LeftAfter(h, i) = {id \in Ids(h[p]) : \A k \in (p + 1) .. i : h[k].id # id}
    BY <2>1, LeftAt, SMTT(60)
  <2>6. LeftAfter(h, i - 1) = {id \in Ids(h[p]) : \A k \in (p + 1) .. (i - 1) : h[k].id # id}
    <3>1. \A k \in (p + 1) .. (i - 1) : h[k].role = "tool"
      BY <2>1, <2>4
    <3> DEFINE l == i - 1
    <3>2. l \in 1 .. Len(h) /\ p \in 1 .. l
      BY <2>2
    <3>3. \A k \in (p + 1) .. l : h[k].role = "tool"
      BY <3>1
    <3> HIDE DEF l
    <3>4. LeftAfter(h, l) = {id \in Ids(h[p]) : \A k \in (p + 1) .. l : h[k].id # id}
      BY <2>1, <3>2, <3>3, LeftAt
    <3> QED
      BY <3>4 DEF l
  <2>7. i \in (p + 1) .. i
    BY <1>1, <2>2
  <2>8. LeftAfter(h, i) = LeftAfter(h, i - 1) \ {h[i].id}
    BY <2>3, <2>4, <2>5, <2>6, <2>7
  <2>9. \A k \in (p + 1) .. i : k \in AnswersAfter(h, p)
    BY <1>1, <2>1, <2>2 DEF AnswersAfter
  <2>10. h[i].id \in Ids(h[p])
    <3>1. CallIds(<<h[p]>>) = Ids(h[p])
      BY DEF CallIds, Ids
    <3> QED
      BY <2>1, <2>2, <2>7, <2>9, <3>1 DEF Cut
  <2>11. \A k \in (p + 1) .. (i - 1) : h[k].id # h[i].id
    BY <2>1, <2>2, <2>4, <2>7, <2>9 DEF Cut
  <2> QED
    BY <2>6, <2>8, <2>10, <2>11
<1>5. ASSUME NEW i \in 1 .. Len(h) PROVE i - 1 \in 0 .. Len(h) /\ i \in 0 .. Len(h)
  BY <1>1
<1> QED
  BY <1>2, <1>3, <1>4, <1>5 DEF Feeds

\* A set of ids has as many members as calls with these ids.
LEMMA IdsCounted ==
    ASSUME NEW m \in Msg, IsInjective(OpenIds(m))
    PROVE  IsFiniteSet(Ids(m)) /\ Cardinality(Ids(m)) = Len(m.calls)
<1> DEFINE D == 1 .. Len(m.calls)
<1>1. /\ Len(m.calls) \in Nat /\ DOMAIN m.calls = D /\ DOMAIN OpenIds(m) = D
      /\ OpenIds(m) = [k \in D |-> m.calls[k].id]
  BY MsgFacts, SeqFacts DEF OpenIds
<1>2. IsFiniteSet(D) /\ Cardinality(D) = Len(m.calls)
  <2>1. IsFiniteSet(D) /\ Cardinality(D) = IF 1 > Len(m.calls) THEN 0 ELSE Len(m.calls) - 1 + 1
    BY <1>1, FS_Interval, SMTT(60)
  <2> QED
    BY <1>1, <2>1
<1> HIDE DEF D
<1>3. OpenIds(m) \in Bijection(D, Ids(m))
  <2>1. OpenIds(m) \in [D -> Ids(m)]
    BY <1>1 DEF Ids
  <2>2. \A t \in Ids(m) : \E s \in D : OpenIds(m)[s] = t
    BY <1>1 DEF Ids
  <2> QED
    BY <2>1, <2>2 DEF Bijection, Injection, Surjection
<1>4. ExistsBijection(D, Ids(m))
  BY <1>3 DEF ExistsBijection
<1> QED
  BY <1>2, <1>4, FS_Bijection

\* As many answers as calls with different ids are different answers.
LEMMA AnswersDiffer ==
    ASSUME NEW h \in Seq(Msg), NEW i \in DOMAIN h, IsInjective(OpenIds(h[i])),
           NEW e, Served(h, i, e, <<>>),
           NEW j \in (i + 1) .. e, NEW k \in (i + 1) .. e, h[j].id = h[k].id
    PROVE  j = k
<1> DEFINE D == (i + 1) .. e
           f == [l \in D |-> h[l].id]
<1>1. /\ Len(h) \in Nat /\ i \in 1 .. Len(h) /\ e \in i .. Len(h) /\ h[i] \in Msg
      /\ ToSet(<<>>) = {} /\ Len(<<>>) = 0 /\ Len(h[i].calls) \in Nat
  BY SeqFacts, EmptyContents, MsgFacts DEF Served
<1>2. Cardinality(Ids(h[i])) = Len(h[i].calls)
  BY <1>1, IdsCounted
<1>3. IsFiniteSet(D) /\ Cardinality(D) = e - i
  <2>1. i + 1 \in Int /\ e \in Int
    BY <1>1
  <2>2. IsFiniteSet(D) /\ Cardinality(D) = IF i + 1 > e THEN 0 ELSE e - (i + 1) + 1
    BY <2>1, FS_Interval
  <2> QED
    BY <1>1, <2>2
<1>4. e - i + 0 = Len(h[i].calls) /\ {h[l].id : l \in D} = Ids(h[i])
  BY <1>1 DEF Served
<1>5. Cardinality(D) = Cardinality(Ids(h[i]))
  BY <1>1, <1>2, <1>3, <1>4
<1>6. f \in Surjection(D, Ids(h[i]))
  BY <1>4 DEF Surjection
<1>7. f \in Injection(D, Ids(h[i]))
  <2> HIDE DEF f, D
  <2> QED
    BY <1>3, <1>5, <1>6, FS_SurjSameCardinalityImpliesInj
<1> QED
  BY <1>7 DEF Injection, IsInjective

LEMMA UniqueOpenIds ==
    ASSUME NEW h \in Seq(Msg), UniqueIds(h), NEW i \in DOMAIN h
    PROVE  IsInjective(OpenIds(h[i]))
BY DEF UniqueIds, IsInjective, OpenIds

\* A paired history without repeated ids is one, and it leaves nothing open.
LEMMA PairedCut ==
    ASSUME NEW h \in Seq(Msg), Paired(h), UniqueIds(h)
    PROVE  /\ Cut(h)
           /\ \A i \in 1 .. Len(h) :
                 (i = Len(h) \/ h[i + 1].role # "tool") => LeftAfter(h, i) = {}
<1>1. Owes(h, <<>>) /\ ToSet(<<>>) = {}
  BY PairedOwes, EmptyContents
<1>2. Len(h) \in Nat /\ DOMAIN h = 1 .. Len(h)
  BY SeqFacts
<1>3. ASSUME NEW i \in DOMAIN h, h[i].role # "tool"
      PROVE  \E e \in i .. Len(h) : Served(h, i, e, <<>>) /\ AnswersAfter(h, i) = (i + 1) .. e
  <2>1. PICK e \in i .. Len(h) :
            \/ e = Len(h) /\ Served(h, i, e, <<>>)
            \/ e < Len(h) /\ h[e + 1].role # "tool" /\ Served(h, i, e, <<>>)
    BY <1>1, <1>3 DEF Owes
  <2>2. e < Len(h) => h[e + 1].role # "tool"
    <3>1. e = Len(h) => ~(e < Len(h))
      BY <1>2
    <3> QED
      BY <2>1, <3>1
  <2> QED
    BY <2>1, <2>2, AnswersAre DEF Served
<1>4. ASSUME NEW i \in DOMAIN h, h[i].role # "tool"
      PROVE  /\ \A j \in AnswersAfter(h, i) : h[j].id \in CallIds(<<h[i]>>)
             /\ \A j, k \in AnswersAfter(h, i) : h[j].id = h[k].id => j = k
  <2>1. PICK e \in i .. Len(h) : Served(h, i, e, <<>>) /\ AnswersAfter(h, i) = (i + 1) .. e
    BY <1>3, <1>4
  <2>2. CallIds(<<h[i]>>) = Ids(h[i])
    BY DEF CallIds, Ids
  <2>3. {h[l].id : l \in (i + 1) .. e} = Ids(h[i])
    BY <1>1, <2>1 DEF Served
  <2>4. IsInjective(OpenIds(h[i]))
    BY UniqueOpenIds
  <2> QED
    BY <2>1, <2>2, <2>3, <2>4, AnswersDiffer
<1>5. Cut(h)
  BY <1>1, <1>4 DEF Cut, Owes
<1>6. ASSUME NEW i \in 1 .. Len(h), i = Len(h) \/ h[i + 1].role # "tool"
      PROVE  LeftAfter(h, i) = {}
  <2>1. PICK p \in 1 .. i : h[p].role # "tool" /\ \A k \in (p + 1) .. i : h[k].role = "tool"
    BY <1>1, LastOther DEF Owes
  <2>2. p \in DOMAIN h /\ i \in p .. Len(h) /\ (i < Len(h) => h[i + 1].role # "tool")
    <3>1. i \in Int /\ p \in Int /\ 1 <= p /\ p <= i /\ i <= Len(h)
      BY <1>2
    <3>2. p \in DOMAIN h /\ i \in p .. Len(h)
      BY <1>2, <3>1
    <3>3. i = Len(h) => ~(i < Len(h))
      BY <1>2
    <3> QED
      BY <1>6, <3>2, <3>3
  <2>3. AnswersAfter(h, p) = (p + 1) .. i
    BY <2>1, <2>2, AnswersAre
  <2>4. PICK e \in p .. Len(h) : Served(h, p, e, <<>>) /\ AnswersAfter(h, p) = (p + 1) .. e
    BY <1>3, <2>1, <2>2
  <2>5. {h[l].id : l \in (p + 1) .. i} = Ids(h[p])
    BY <1>1, <2>3, <2>4 DEF Served
  <2>6. LeftAfter(h, i) = {id \in Ids(h[p]) : \A k \in (p + 1) .. i : h[k].id # id}
    BY <2>1, LeftAt, SMTT(60)
  <2> QED
    BY <2>5, <2>6
<1> QED
  BY <1>5, <1>6

\* A paired history without repeated ids is repaired already.
LEMMA RepairExact ==
    ASSUME NEW h \in Seq(Msg), Paired(h), UniqueIds(h)
    PROVE  Repair(h) = h
<1>1. PICK r : /\ IsRepair(r, h)
               /\ Repair(h) = r[Len(h)].out \o Placeholders(r[Len(h)].open)
  BY RepairRuns
<1>2. Len(h) \in Nat /\ DOMAIN h = 1 .. Len(h) /\ \A i \in 1 .. Len(h) : h[i] \in Msg
  BY SeqFacts
<1>3. \A i \in 0 .. Len(h) : Repairing(r[i])
  BY <1>1, RepairingAll
<1> DEFINE w == [i \in 0 .. Len(h) |-> LeftAfter(h, i)]
           S == {i \in 0 .. Len(h) : /\ r[i].out = Prefix(h, i) /\ ToSet(r[i].open) = w[i]
                                     /\ IsInjective(r[i].open)}
<1>4. Feeds(h, w)
  BY PairedCut, CutFeeds
<1>5. ASSUME NEW i \in 1 .. Len(h), i = Len(h) \/ h[i + 1].role # "tool" PROVE w[i] = {}
  <2>1. LeftAfter(h, i) = {}
    BY <1>5, PairedCut
  <2>2. i \in 0 .. Len(h)
    BY <1>2
  <2> QED
    BY <2>1, <2>2
<1> HIDE DEF w
<1>6. 0 \in S
  <2>1. r[0].out = <<>> /\ r[0].open = <<>> /\ Prefix(h, 0) = <<>> /\ 0 \in 0 .. Len(h)
    BY <1>1, <1>2, PrefixFacts DEF IsRepair, RepairBase
  <2>2. w[0] = {} /\ ToSet(<<>>) = {} /\ IsInjective(<<>>)
    BY <1>4, EmptyContents DEF Feeds, IsInjective
  <2> QED
    BY <2>1, <2>2
<1>7. \A s \in Seq(CallId) : ToSet(s) = {} => s = <<>>
  BY SeqFacts DEF ToSet
<1>8. ASSUME NEW i \in 1 .. Len(h), i - 1 \in S PROVE i \in S
  <2> DEFINE p == r[i - 1]
             q == r[i]
             m == h[i]
             f == Prefix(h, i - 1)
  <2>1. /\ q = RepairOne(p, m) /\ Repairing(p) /\ m \in Msg
        /\ f \in Seq(Msg) /\ Prefix(h, i) = Append(f, m)
        /\ p.out = f /\ ToSet(p.open) = w[i - 1] /\ IsInjective(p.open)
    <3>1. i - 1 \in 0 .. Len(h)
      BY <1>2
    <3> QED
      BY <1>1, <1>2, <1>3, <1>8, <3>1, PrefixFacts DEF IsRepair
  <2>2. p.open \in Seq(CallId) /\ DOMAIN p.open = 1 .. Len(p.open)
    BY <2>1, SeqFacts DEF Repairing
  <2>3. IF m.role = "tool" THEN m.id \in w[i - 1] /\ w[i] = w[i - 1] \ {m.id}
                           ELSE w[i] = Ids(m)
    BY <1>4 DEF Feeds
  <2>10. m.role # "tool" => IsInjective(OpenIds(m)) /\ ToSet(OpenIds(m)) = Ids(m)
    BY <1>2, UniqueOpenIds, OpenIdsType
  <2>11. m.role # "tool" => p.open = <<>>
    <3>1. CASE i = 1
      BY <1>1, <3>1 DEF IsRepair, RepairBase
    <3>2. CASE i # 1 /\ m.role # "tool"
      <4>1. i - 1 \in 1 .. Len(h) /\ h[(i - 1) + 1] = m
        BY <1>2, <3>2
      <4>2. w[i - 1] = {}
        BY <1>5, <3>2, <4>1
      <4> QED
        BY <1>7, <2>1, <2>2, <4>2
    <3> QED
      BY <3>1, <3>2
  <2> HIDE DEF p, q, m, f
  <2>4. CASE m.role = "tool"
    <3>1. Contains(p.open, m.id)
      BY <2>1, <2>2, <2>3, <2>4 DEF Contains, ToSet
    <3>2. q.out = Append(p.out, m) /\ q.open = RemoveFirst(p.open, m.id)
      BY <2>1, <2>4, <3>1 DEF RepairOne
    <3>3. /\ ToSet(q.open) \cup {m.id} = ToSet(p.open)
          /\ IsInjective(q.open) /\ m.id \notin ToSet(q.open)
      BY <2>1, <2>2, <3>1, <3>2, RemovedOnce
    <3>4. w[i] = ToSet(p.open) \ {m.id}
      BY <2>1, <2>3, <2>4
    <3>5. ToSet(q.open) = w[i]
      BY <3>3, <3>4
    <3>6. q.out = Prefix(h, i)
      BY <2>1, <3>2
    <3> QED
      BY <1>2, <3>3, <3>5, <3>6 DEF q
  <2>5. CASE m.role # "tool"
    <3>1. Placeholders(p.open) = <<>>
      BY <2>2, <2>5, <2>11 DEF Placeholders
    <3>2. q.out = Append(p.out \o <<>>, m) /\ q.open = OpenIds(m)
      BY <2>1, <2>5, <3>1 DEF RepairOne, OpenIds
    <3>3. p.out \o <<>> = p.out
      BY <2>1, ConcatEmptySeq
    <3>4. q.out = Prefix(h, i)
      BY <2>1, <3>2, <3>3
    <3>5. ToSet(q.open) = w[i] /\ IsInjective(q.open)
      BY <2>3, <2>5, <2>10, <3>2
    <3> QED
      BY <1>2, <3>4, <3>5 DEF q
  <2> QED
    BY <2>4, <2>5
<1> HIDE DEF S
<1>9. Len(h) \in S
  <2>1. \A l \in 0 .. Len(h) : l \in S
    BY <1>2, <1>6, <1>8, Induction
  <2> QED
    BY <1>2, <2>1
<1>10. r[Len(h)].out = h /\ r[Len(h)].open \in Seq(CallId) /\ ToSet(r[Len(h)].open) = w[Len(h)]
  BY <1>2, <1>3, <1>9, PrefixFacts DEF S, Repairing
<1>11. w[Len(h)] = {}
  <2>1. CASE Len(h) = 0
    BY <1>4, <2>1 DEF Feeds
  <2>2. CASE Len(h) # 0
    <3>1. Len(h) \in 1 .. Len(h)
      BY <1>2, <2>2
    <3> QED
      BY <1>5, <3>1
  <2> QED
    BY <2>1, <2>2
<1>12. r[Len(h)].open = <<>>
  BY <1>7, <1>10, <1>11
<1>13. Placeholders(<<>>) = <<>>
  BY DEF Placeholders
<1> QED
  BY <1>1, <1>10, <1>12, <1>13, ConcatEmptySeq

LEMMA AlternatesAppend ==
    ASSUME NEW o \in Seq(Msg), NEW m \in Msg
    PROVE  Alternates(Append(o, m))
               <=> Alternates(o) /\ ~(o # <<>> /\ Last(o).role = "user" /\ m.role = "user")
<1> DEFINE t == Append(o, m)
           n == Len(o)
<1>1. /\ n \in Nat /\ Len(t) = n + 1 /\ (o = <<>> <=> n = 0)
      /\ t[n + 1] = m /\ \A k \in 1 .. n : t[k] = o[k]
  BY SeqFacts, AppendFacts
<1> HIDE DEF t
<1>2. CASE n = 0
  <2>1. Alternates(t) /\ Alternates(o)
    BY <1>1, <1>2 DEF Alternates
  <2> QED
    BY <1>1, <1>2, <2>1 DEF t
<1>3. CASE n # 0
  <2>1. \A i \in 1 .. (n - 1) : i \in 1 .. n /\ t[i] = o[i] /\ t[i + 1] = o[i + 1]
    BY <1>1, <1>3
  <2>2. t[n] = o[n] /\ t[n + 1] = m /\ n \in 1 .. n /\ Last(o) = o[n]
    BY <1>1, <1>3 DEF Last
  <2>3. \A i \in 1 .. n : i \in 1 .. (n - 1) \/ i = n
    BY <1>1
  <2>4. 1 .. (Len(t) - 1) = 1 .. n
    BY <1>1
  <2>5. Alternates(t) <=> \A i \in 1 .. n : ~(t[i].role = "user" /\ t[i + 1].role = "user")
    BY <2>4 DEF Alternates
  <2>6. Alternates(o) <=> \A i \in 1 .. (n - 1) : ~(o[i].role = "user" /\ o[i + 1].role = "user")
    BY DEF Alternates
  <2>7. \A i \in 1 .. (n - 1) : i \in 1 .. n
    BY <1>1
  <2> HIDE DEF n
  <2>8. Alternates(t) <=> Alternates(o) /\ ~(Last(o).role = "user" /\ m.role = "user")
    BY <2>1, <2>2, <2>3, <2>5, <2>6, <2>7
  <2> QED
    BY <1>1, <1>3, <2>8 DEF t
<1> QED
  BY <1>2, <1>3

\* Tool messages behind a history.
LEMMA AlternatesConcat ==
    ASSUME NEW o \in Seq(Msg), Alternates(o), NEW a \in Seq(Msg),
           \A k \in DOMAIN a : a[k].role = "tool"
    PROVE  /\ Alternates(o \o a)
           /\ a # <<>> => Last(o \o a).role = "tool"
<1> DEFINE t == o \o a
           n == Len(o)
<1>1. /\ n \in Nat /\ Len(a) \in Nat /\ DOMAIN a = 1 .. Len(a) /\ (a = <<>> <=> Len(a) = 0)
      /\ Len(t) = n + Len(a)
      /\ \A k \in 1 .. n : t[k] = o[k]
      /\ \A k \in 1 .. (n + Len(a)) : k \notin 1 .. n => k - n \in 1 .. Len(a) /\ t[k] = a[k - n]
  BY SeqFacts, ConcatFacts
<1> HIDE DEF t
<1>2. \A k \in 1 .. Len(t) : k \notin 1 .. n => t[k].role = "tool"
  BY <1>1
<1>3. ASSUME NEW i \in 1 .. (Len(t) - 1), t[i].role = "user", t[i + 1].role = "user" PROVE FALSE
  <2>1. i \in 1 .. Len(t) /\ i + 1 \in 1 .. Len(t)
    BY <1>1
  <2>2. i \in 1 .. n /\ i + 1 \in 1 .. n
    BY <1>2, <1>3, <2>1
  <2>3. i \in 1 .. (n - 1) /\ t[i] = o[i] /\ t[i + 1] = o[i + 1]
    BY <1>1, <2>2
  <2> QED
    BY <1>3, <2>3 DEF Alternates
<1>4. ASSUME a # <<>> PROVE Last(t).role = "tool"
  <2>1. Len(t) \in 1 .. Len(t) /\ Len(t) \notin 1 .. n
    BY <1>1, <1>4
  <2> QED
    BY <1>2, <2>1 DEF Last
<1>5. Alternates(t)
  BY <1>3 DEF Alternates
<1> QED
  BY <1>4, <1>5 DEF t

\* From a transcript that was cut the repair drops nothing, and it puts no two
\* user messages next to each other.
LEMMA RepairKeeps ==
    ASSUME NEW h \in Seq(Msg), NEW w, Feeds(h, w)
    PROVE  /\ ToSet(h) \subseteq ToSet(Repair(h))
           /\ Alternates(h) => Alternates(Repair(h))
<1>1. PICK r : /\ IsRepair(r, h)
               /\ Repair(h) = r[Len(h)].out \o Placeholders(r[Len(h)].open)
  BY RepairRuns
<1>2. Len(h) \in Nat /\ DOMAIN h = 1 .. Len(h) /\ \A i \in 1 .. Len(h) : h[i] \in Msg
  BY SeqFacts
<1>3. \A i \in 0 .. Len(h) : Repairing(r[i])
  BY <1>1, RepairingAll
<1> DEFINE S == {i \in 0 .. Len(h) :
                    /\ w[i] \subseteq ToSet(r[i].open)
                    /\ i = 0 => r[i].out = <<>>
                    /\ i # 0 => r[i].out # <<>> /\ Last(r[i].out) = h[i]
                    /\ ToSet(Prefix(h, i)) \subseteq ToSet(r[i].out)
                    /\ Alternates(Prefix(h, i)) => Alternates(r[i].out)}
<1>6. 0 \in S
  <2>1. r[0].out = <<>> /\ r[0].open = <<>> /\ Prefix(h, 0) = <<>> /\ 0 \in 0 .. Len(h)
    BY <1>1, <1>2, PrefixFacts DEF IsRepair, RepairBase
  <2>2. w[0] = {}
    BY DEF Feeds
  <2> QED
    BY <2>1, <2>2
<1>8. ASSUME NEW i \in 1 .. Len(h), i - 1 \in S PROVE i \in S
  <2> DEFINE p == r[i - 1]
             q == r[i]
             m == h[i]
             f == Prefix(h, i - 1)
  <2>1. /\ q = RepairOne(p, m) /\ Repairing(p) /\ m \in Msg
        /\ f \in Seq(Msg) /\ Prefix(h, i) = Append(f, m)
        /\ w[i - 1] \subseteq ToSet(p.open)
        /\ ToSet(f) \subseteq ToSet(p.out)
        /\ Alternates(f) => Alternates(p.out)
    <3>1. i - 1 \in 0 .. Len(h)
      BY <1>2
    <3> QED
      BY <1>1, <1>2, <1>3, <1>8, <3>1, PrefixFacts DEF IsRepair
  <2>2. p.out \in Seq(Msg) /\ p.open \in Seq(CallId) /\ DOMAIN p.open = 1 .. Len(p.open)
    BY <2>1, SeqFacts DEF Repairing
  <2>3. IF m.role = "tool" THEN m.id \in w[i - 1] /\ w[i] = w[i - 1] \ {m.id}
                           ELSE w[i] = Ids(m)
    BY DEF Feeds
  \* The message before m is the last one of both, if it is there at all.
  <2>4. IF f = <<>> THEN p.out = <<>> ELSE p.out # <<>> /\ Last(p.out) = Last(f)
    <3>1. i - 1 \in 0 .. Len(h) /\ Len(f) = i - 1
      BY <1>2, PrefixFacts
    <3>2. CASE i = 1
      BY <1>8, <3>1, <3>2, SeqFacts
    <3>3. CASE i # 1
      <4>1. f # <<>> /\ i - 1 # 0 /\ i - 1 \in 1 .. (i - 1)
        BY <1>2, <3>1, <3>3
      <4>2. f[i - 1] = h[i - 1]
        BY <3>1, <4>1, PrefixFacts
      <4>3. Last(f) = h[i - 1]
        BY <3>1, <4>2 DEF Last
      <4> QED
        BY <1>8, <4>1, <4>3
    <3> QED
      BY <3>2, <3>3
  <2>5. /\ ToSet(Append(f, m)) = ToSet(f) \cup {m}
        /\ Alternates(Append(f, m))
             <=> Alternates(f) /\ ~(f # <<>> /\ Last(f).role = "user" /\ m.role = "user")
    BY <2>1, AppendContents, AlternatesAppend
  <2>6. m.role # "tool" => ToSet(OpenIds(m)) = Ids(m)
    BY <2>1, OpenIdsType
  <2> HIDE DEF p, q, m, f
  <2>7. CASE m.role = "tool"
    <3>1. Contains(p.open, m.id)
      BY <2>1, <2>2, <2>3, <2>7 DEF Contains, ToSet
    <3>2. q.out = Append(p.out, m) /\ q.open = RemoveFirst(p.open, m.id)
      BY <2>1, <2>7, <3>1 DEF RepairOne
    <3>3. ToSet(q.open) \cup {m.id} = ToSet(p.open)
      BY <2>2, <3>1, <3>2, RemovedOnce
    <3>4. w[i] \subseteq ToSet(q.open)
      BY <2>1, <2>3, <2>7, <3>3
    <3>5. q.out # <<>> /\ Last(q.out) = m /\ ToSet(q.out) = ToSet(p.out) \cup {m}
      <4>1. ToSet(q.out) = ToSet(p.out) \cup {m}
        BY <2>1, <2>2, <3>2, AppendMembers
      <4>2. Append(p.out, m) # <<>> /\ Last(Append(p.out, m)) = m
        BY <2>1, <2>2, AppendFacts, SMTT(60)
      <4> QED
        BY <3>2, <4>1, <4>2
    <3>6. Alternates(q.out) <=> Alternates(p.out)
      BY <2>1, <2>2, <2>7, <3>2, AlternatesAppend
    <3>7. ToSet(Prefix(h, i)) \subseteq ToSet(q.out)
      BY <2>1, <2>5, <3>5
    <3>8. Alternates(Prefix(h, i)) => Alternates(q.out)
      BY <2>1, <2>5, <3>6
    <3> QED
      BY <1>2, <3>4, <3>5, <3>7, <3>8 DEF q, m
  <2>8. CASE m.role # "tool"
    <3> DEFINE a == Placeholders(p.open)
               o == p.out \o a
    <3>1. a \in Seq(Msg) /\ \A k \in DOMAIN a : a[k].role = "tool"
      BY <2>2, PlaceholderFacts, PlaceholderContents
    <3>2. q.out = Append(o, m) /\ q.open = OpenIds(m)
      BY <2>1, <2>8 DEF RepairOne, OpenIds
    <3> HIDE DEF a
    <3>3. /\ o \in Seq(Msg) /\ ToSet(o) = ToSet(p.out) \cup ToSet(a)
          /\ a = <<>> => o = p.out
          /\ Alternates(p.out) => Alternates(o) /\ (a # <<>> => Last(o).role = "tool")
      <4>1. o \in Seq(Msg)
        BY <2>2, <3>1, ConcatFacts
      <4>2. ToSet(o) = ToSet(p.out) \cup ToSet(a)
        BY <2>2, <3>1, ConcatContents
      <4>3. a = <<>> => o = p.out
        BY <2>2, ConcatEmptySeq
      <4>4. Alternates(p.out) => Alternates(o) /\ (a # <<>> => Last(o).role = "tool")
        BY <2>2, <3>1, AlternatesConcat
      <4> QED
        BY <4>1, <4>2, <4>3, <4>4
    <3> HIDE DEF o
    <3>4. /\ q.out # <<>> /\ Last(q.out) = m /\ ToSet(q.out) = ToSet(o) \cup {m}
          /\ Alternates(q.out)
               <=> Alternates(o) /\ ~(o # <<>> /\ Last(o).role = "user" /\ m.role = "user")
      BY <2>1, <3>2, <3>3, AppendFacts, AppendContents, AlternatesAppend
    <3>5. ToSet(Prefix(h, i)) \subseteq ToSet(q.out)
      BY <2>1, <2>5, <3>3, <3>4
    <3>6. ASSUME Alternates(Prefix(h, i)) PROVE Alternates(q.out)
      <4>1. Alternates(f) /\ ~(f # <<>> /\ Last(f).role = "user" /\ m.role = "user")
        BY <2>1, <2>5, <3>6
      <4>2. CASE a = <<>>
        BY <2>1, <2>4, <3>3, <3>4, <4>1, <4>2
      <4>3. CASE a # <<>>
        BY <2>1, <3>3, <3>4, <4>1, <4>3
      <4> QED
        BY <4>2, <4>3
    <3>7. w[i] \subseteq ToSet(q.open)
      BY <2>3, <2>6, <2>8, <3>2
    <3> QED
      BY <1>2, <3>4, <3>5, <3>6, <3>7 DEF q, m
  <2> QED
    BY <2>7, <2>8
<1> HIDE DEF S
<1>9. Len(h) \in S
  <2>1. \A l \in 0 .. Len(h) : l \in S
    BY <1>2, <1>6, <1>8, Induction
  <2> QED
    BY <1>2, <2>1
<1> DEFINE o == r[Len(h)].out
           a == Placeholders(r[Len(h)].open)
<1>10. /\ ToSet(h) \subseteq ToSet(o) /\ (Alternates(h) => Alternates(o))
       /\ o \in Seq(Msg) /\ r[Len(h)].open \in Seq(CallId)
  BY <1>2, <1>3, <1>9, PrefixFacts DEF S, Repairing
<1>11. a \in Seq(Msg) /\ \A k \in DOMAIN a : a[k].role = "tool"
  BY <1>10, PlaceholderFacts, PlaceholderContents
<1>12. Repair(h) = o \o a
  BY <1>1
<1> HIDE DEF o, a
<1> QED
  BY <1>10, <1>11, <1>12, ConcatContents, AlternatesConcat
-----------------------------------------------------------------------------
(* The messages of some roles                                              *)

LEMMA RolesOfAppend ==
    ASSUME NEW s \in Seq(Msg), NEW m \in Msg, NEW roles
    PROVE  OfRoles(Append(s, m), roles)
             = IF m.role \in roles THEN Append(OfRoles(s, roles), m) ELSE OfRoles(s, roles)
<1> DEFINE t == Append(s, m)
           n == Len(s)
<1>1. /\ n \in Nat /\ DOMAIN s = 1 .. n /\ DOMAIN t = 1 .. (n + 1)
      /\ t[n + 1] = m /\ \A k \in 1 .. n : t[k] = s[k]
  BY SeqFacts, AppendFacts
<1>2. PICK q : IsRun(q, "roles", roles, <<>>, s, n) /\ q[n] = OfRoles(s, roles)
  BY <1>1, RolesRun
<1> HIDE DEF t, n
<1>3. n + 1 \in Nat
  BY <1>1
<1>4. PICK r : IsRun(r, "roles", roles, <<>>, t, n + 1) /\ r[n + 1] = OfRoles(t, roles)
  BY <1>1, <1>3, RolesRun
<1> DEFINE S == {i \in 0 .. n : r[i] = q[i]}
<1>5. 0 \in S
  BY <1>1, <1>2, <1>4 DEF IsRun
<1>6. ASSUME NEW i \in 1 .. n, i - 1 \in S PROVE i \in S
  <2>1. i \in 1 .. (n + 1) /\ t[i] = s[i]
    BY <1>1
  <2>2. r[i] = Step("roles", roles, r[i - 1], s[i])
    BY <1>4, <2>1 DEF IsRun
  <2>3. q[i] = Step("roles", roles, q[i - 1], s[i])
    BY <1>2 DEF IsRun
  <2> QED
    BY <1>1, <1>6, <2>2, <2>3
<1> HIDE DEF S
<1>7. \A i \in 0 .. n : i \in S
  BY <1>1, <1>5, <1>6, Induction
<1>8. r[n] = q[n]
  BY <1>1, <1>7 DEF S
<1>9. r[n + 1] = Step("roles", roles, r[n], m)
  <2>1. n + 1 \in 1 .. (n + 1) /\ (n + 1) - 1 = n
    BY <1>1
  <2> QED
    BY <1>1, <1>4, <2>1 DEF IsRun
<1>10. Step("roles", roles, r[n], m) = IF m.role \in roles THEN Append(r[n], m) ELSE r[n]
  BY DEF Step
<1> QED
  BY <1>2, <1>4, <1>8, <1>9, <1>10 DEF t

LEMMA RolesOfNone ==
    ASSUME NEW roles
    PROVE  OfRoles(<<>>, roles) = <<>>
<1>1. DOMAIN <<>> = 1 .. 0 /\ 0 \in Nat
  OBVIOUS
<1>2. PICK r : IsRun(r, "roles", roles, <<>>, <<>>, 0) /\ r[0] = OfRoles(<<>>, roles)
  BY <1>1, RolesRun
<1> QED
  BY <1>2 DEF IsRun

LEMMA RolesFacts ==
    ASSUME NEW h \in Seq(Msg), NEW roles
    PROVE  /\ OfRoles(h, roles) \in Seq(Msg)
           /\ ToSet(OfRoles(h, roles)) = {m \in ToSet(h) : m.role \in roles}
<1> DEFINE S == {i \in 0 .. Len(h) :
                    /\ OfRoles(Prefix(h, i), roles) \in Seq(Msg)
                    /\ ToSet(OfRoles(Prefix(h, i), roles))
                         = {m \in ToSet(Prefix(h, i)) : m.role \in roles}}
<1>1. Len(h) \in Nat /\ \A i \in 1 .. Len(h) : h[i] \in Msg
  BY SeqFacts
<1>2. 0 \in S
  <2>1. Prefix(h, 0) = <<>> /\ ToSet(<<>>) = {} /\ <<>> \in Seq(Msg) /\ 0 \in 0 .. Len(h)
    BY <1>1, PrefixFacts, EmptyContents
  <2> QED
    BY <2>1, RolesOfNone
<1>3. ASSUME NEW i \in 1 .. Len(h), i - 1 \in S PROVE i \in S
  <2> DEFINE f == Prefix(h, i - 1)
             o == OfRoles(f, roles)
             m == h[i]
  <2>1. f \in Seq(Msg) /\ m \in Msg /\ Prefix(h, i) = Append(f, m)
    <3>1. i - 1 \in 0 .. Len(h)
      BY <1>1
    <3> QED
      BY <1>1, <3>1, PrefixFacts
  <2>2. o \in Seq(Msg) /\ ToSet(o) = {x \in ToSet(f) : x.role \in roles}
    BY <1>3
  <2> HIDE DEF f, m
  <2>3. OfRoles(Append(f, m), roles) = IF m.role \in roles THEN Append(o, m) ELSE o
    BY <2>1, RolesOfAppend
  <2> HIDE DEF o
  <2>4. /\ Append(o, m) \in Seq(Msg) /\ ToSet(Append(o, m)) = ToSet(o) \cup {m}
        /\ ToSet(Append(f, m)) = ToSet(f) \cup {m}
    BY <2>1, <2>2, AppendFacts, AppendContents
  <2>5. /\ OfRoles(Append(f, m), roles) \in Seq(Msg)
        /\ ToSet(OfRoles(Append(f, m), roles)) = {x \in ToSet(Append(f, m)) : x.role \in roles}
    BY <2>2, <2>3, <2>4
  <2>6. /\ OfRoles(Prefix(h, i), roles) \in Seq(Msg)
        /\ ToSet(OfRoles(Prefix(h, i), roles)) = {x \in ToSet(Prefix(h, i)) : x.role \in roles}
    BY <2>1, <2>5
  <2>7. i \in 0 .. Len(h)
    BY <1>1
  <2> QED
    BY <2>6, <2>7
<1> HIDE DEF S
<1>4. \A i \in 0 .. Len(h) : i \in S
  BY <1>1, <1>2, <1>3, Induction
<1>5. Len(h) \in S /\ Prefix(h, Len(h)) = h
  BY <1>1, <1>4, PrefixFacts
<1> QED
  BY <1>5 DEF S

LEMMA AppendConcat ==
    ASSUME NEW s \in Seq(Msg), NEW t \in Seq(Msg), NEW m \in Msg
    PROVE  s \o Append(t, m) = Append(s \o t, m)
<1> DEFINE a == Len(s)
           b == Len(t)
           u == Append(t, m)
           v == s \o t
           x == s \o u
           y == Append(v, m)
<1>1. a \in Nat /\ b \in Nat
  BY SeqFacts
<1>2. u \in Seq(Msg) /\ Len(u) = b + 1 /\ u[b + 1] = m /\ \A i \in 1 .. b : u[i] = t[i]
  BY AppendFacts
<1>3. v \in Seq(Msg) /\ Len(v) = a + b
      /\ \A i \in 1 .. (a + b) : v[i] = IF i <= a THEN s[i] ELSE t[i - a]
  BY ConcatProperties
<1> HIDE DEF u, v
<1>4. x \in Seq(Msg) /\ Len(x) = a + b + 1
      /\ \A i \in 1 .. (a + b + 1) : x[i] = IF i <= a THEN s[i] ELSE u[i - a]
  <2>1. /\ x \in Seq(Msg) /\ Len(x) = a + Len(u)
        /\ \A i \in 1 .. (a + Len(u)) : x[i] = IF i <= a THEN s[i] ELSE u[i - a]
    BY <1>2, ConcatProperties
  <2>2. a + Len(u) = a + b + 1
    BY <1>1, <1>2
  <2> HIDE DEF a, b, x
  <2> QED
    BY <2>1, <2>2
<1>5. y \in Seq(Msg) /\ Len(y) = a + b + 1 /\ y[a + b + 1] = m
      /\ \A i \in 1 .. (a + b) : y[i] = v[i]
  <2>1. v \in Seq(Msg) /\ Len(v) = a + b
    BY <1>3
  <2>2. /\ y \in Seq(Msg) /\ Len(y) = Len(v) + 1 /\ y[Len(v) + 1] = m
        /\ \A i \in 1 .. Len(v) : y[i] = v[i]
    BY <2>1, AppendFacts
  <2> HIDE DEF a, b, y
  <2> QED
    BY <2>1, <2>2
<1> HIDE DEF a, b, x, y
<1>6. \A i \in 1 .. (a + b + 1) : x[i] = y[i]
  <2> TAKE i \in 1 .. (a + b + 1)
  <2>1. CASE i = a + b + 1
    BY <1>1, <1>2, <1>4, <1>5, <2>1
  <2>2. CASE i <= a
    BY <1>1, <1>3, <1>4, <1>5, <2>2
  <2>3. CASE i # a + b + 1 /\ ~(i <= a)
    <3>1. i \in 1 .. (a + b) /\ i - a \in 1 .. b
      BY <1>1, <2>3
    <3>2. y[i] = t[i - a]
      BY <1>3, <1>5, <2>3, <3>1
    <3>3. x[i] = u[i - a]
      BY <1>4, <2>3
    <3> QED
      BY <1>2, <3>1, <3>2, <3>3
  <2> QED
    BY <2>1, <2>2, <2>3
<1>7. x = y
  BY <1>4, <1>5, <1>6, SeqEqual
<1> QED
  BY <1>7 DEF x, y, u, v

LEMMA RolesOfConcat ==
    ASSUME NEW s \in Seq(Msg), NEW t \in Seq(Msg), NEW roles
    PROVE  OfRoles(s \o t, roles) = OfRoles(s, roles) \o OfRoles(t, roles)
<1> DEFINE S == {i \in 0 .. Len(t) :
                    OfRoles(s \o Prefix(t, i), roles)
                      = OfRoles(s, roles) \o OfRoles(Prefix(t, i), roles)}
<1>1. Len(t) \in Nat /\ \A i \in 1 .. Len(t) : t[i] \in Msg
  BY SeqFacts
<1>2. OfRoles(s, roles) \in Seq(Msg)
  BY RolesFacts
<1>3. 0 \in S
  <2>1. Prefix(t, 0) = <<>> /\ 0 \in 0 .. Len(t) /\ s \o <<>> = s
    BY <1>1, PrefixFacts, ConcatEmptySeq
  <2>2. OfRoles(<<>>, roles) = <<>>
    BY RolesOfNone
  <2>3. OfRoles(s, roles) \o <<>> = OfRoles(s, roles)
    BY <1>2, ConcatEmptySeq
  <2> QED
    BY <2>1, <2>2, <2>3
<1>4. ASSUME NEW i \in 1 .. Len(t), i - 1 \in S PROVE i \in S
  <2> DEFINE f == Prefix(t, i - 1)
             m == t[i]
             o == OfRoles(s, roles)
             p == OfRoles(f, roles)
  <2>1. /\ f \in Seq(Msg) /\ m \in Msg /\ Prefix(t, i) = Append(f, m)
        /\ OfRoles(s \o f, roles) = o \o p
    <3>1. i - 1 \in 0 .. Len(t)
      BY <1>1
    <3> QED
      BY <1>1, <1>4, <3>1, PrefixFacts
  <2> HIDE DEF f, m
  <2>2. o \in Seq(Msg) /\ p \in Seq(Msg) /\ s \o f \in Seq(Msg)
    BY <2>1, RolesFacts, ConcatFacts
  <2>3. OfRoles(Append(f, m), roles) = IF m.role \in roles THEN Append(p, m) ELSE p
    BY <2>1, RolesOfAppend
  <2>4. OfRoles(Append(s \o f, m), roles)
          = IF m.role \in roles THEN Append(o \o p, m) ELSE o \o p
    BY <2>1, <2>2, RolesOfAppend
  <2> HIDE DEF o, p
  <2>5. s \o Append(f, m) = Append(s \o f, m) /\ o \o Append(p, m) = Append(o \o p, m)
    <3>1. s \o Append(f, m) = Append(s \o f, m)
      BY <2>1, AppendConcat
    <3>2. o \o Append(p, m) = Append(o \o p, m)
      BY <2>1, <2>2, AppendConcat
    <3> QED
      BY <3>1, <3>2
  <2>6. OfRoles(s \o Append(f, m), roles) = o \o OfRoles(Append(f, m), roles)
    BY <2>3, <2>4, <2>5
  <2>7. OfRoles(s \o Prefix(t, i), roles) = OfRoles(s, roles) \o OfRoles(Prefix(t, i), roles)
    BY <2>1, <2>6 DEF o
  <2>8. i \in 0 .. Len(t)
    BY <1>1
  <2> QED
    BY <2>7, <2>8
<1> HIDE DEF S
<1>5. \A i \in 0 .. Len(t) : i \in S
  BY <1>1, <1>3, <1>4, Induction
<1>6. Len(t) \in S /\ Prefix(t, Len(t)) = t
  BY <1>1, <1>5, PrefixFacts
<1> QED
  BY <1>6 DEF S

\* A history without these roles has nothing of them.
LEMMA RolesAbsent ==
    ASSUME NEW h \in Seq(Msg), NEW roles, \A m \in ToSet(h) : m.role \notin roles
    PROVE  OfRoles(h, roles) = <<>>
<1>1. OfRoles(h, roles) \in Seq(Msg) /\ ToSet(OfRoles(h, roles)) = {}
  BY RolesFacts
<1> QED
  BY <1>1, SeqFacts DEF ToSet

\* The repair touches nothing but tool messages.
LEMMA RepairTouchesTools ==
    ASSUME NEW h \in Seq(Msg), NEW roles, "tool" \notin roles
    PROVE  OfRoles(Repair(h), roles) = OfRoles(h, roles)
<1>1. PICK r : /\ IsRepair(r, h)
               /\ Repair(h) = r[Len(h)].out \o Placeholders(r[Len(h)].open)
  BY RepairRuns
<1>2. Len(h) \in Nat /\ DOMAIN h = 1 .. Len(h) /\ \A i \in 1 .. Len(h) : h[i] \in Msg
  BY SeqFacts
<1>3. \A i \in 0 .. Len(h) : Repairing(r[i])
  BY <1>1, RepairingAll
\* Placeholders are tool messages.
<1>4. ASSUME NEW o \in Seq(Msg), NEW open \in Seq(CallId)
      PROVE  OfRoles(o \o Placeholders(open), roles) = OfRoles(o, roles)
  <2>1. Placeholders(open) \in Seq(Msg)
    BY PlaceholderFacts
  <2>2. \A m \in ToSet(Placeholders(open)) : m.role \notin roles
    BY PlaceholderContents DEF ToSet
  <2>3. OfRoles(Placeholders(open), roles) = <<>>
    BY <2>1, <2>2, RolesAbsent
  <2>4. OfRoles(o \o Placeholders(open), roles) = OfRoles(o, roles) \o <<>>
    <3> DEFINE p == Placeholders(open)
    <3>1. p \in Seq(Msg) /\ OfRoles(p, roles) = <<>>
      BY <2>1, <2>3
    <3> HIDE DEF p
    <3>2. OfRoles(o \o p, roles) = OfRoles(o, roles) \o OfRoles(p, roles)
      BY <3>1, RolesOfConcat, ZenonT(60)
    <3> QED
      BY <3>1, <3>2 DEF p
  <2>5. OfRoles(o, roles) \in Seq(Msg)
    BY RolesFacts
  <2> QED
    BY <2>4, <2>5, ConcatEmptySeq
<1> DEFINE S == {i \in 0 .. Len(h) : OfRoles(r[i].out, roles) = OfRoles(Prefix(h, i), roles)}
<1>5. 0 \in S
  BY <1>1, <1>2, PrefixFacts DEF IsRepair, RepairBase
<1>6. ASSUME NEW i \in 1 .. Len(h), i - 1 \in S PROVE i \in S
  <2> DEFINE p == r[i - 1]
             q == r[i]
             m == h[i]
             f == Prefix(h, i - 1)
  <2>1. /\ q = RepairOne(p, m) /\ Repairing(p) /\ m \in Msg
        /\ f \in Seq(Msg) /\ Prefix(h, i) = Append(f, m)
        /\ OfRoles(p.out, roles) = OfRoles(f, roles)
    <3>1. i - 1 \in 0 .. Len(h)
      BY <1>2
    <3> QED
      BY <1>1, <1>2, <1>3, <1>6, <3>1, PrefixFacts DEF IsRepair
  <2>2. p.out \in Seq(Msg) /\ p.open \in Seq(CallId)
    BY <2>1 DEF Repairing
  <2> HIDE DEF p, q, m, f
  <2>3. OfRoles(Append(f, m), roles)
          = IF m.role \in roles THEN Append(OfRoles(f, roles), m) ELSE OfRoles(f, roles)
    BY <2>1, RolesOfAppend
  <2>4. ASSUME m.role = "tool" PROVE OfRoles(q.out, roles) = OfRoles(Prefix(h, i), roles)
    <3>1. q.out \in {Append(p.out, m), p.out}
      BY <2>1, <2>4 DEF RepairOne
    <3>2. OfRoles(Append(p.out, m), roles) = OfRoles(p.out, roles)
      BY <2>1, <2>2, <2>4, RolesOfAppend
    <3>3. OfRoles(q.out, roles) = OfRoles(Append(f, m), roles)
      BY <2>1, <2>3, <2>4, <3>1, <3>2
    <3> QED
      BY <2>1, <3>3
  <2>5. ASSUME m.role # "tool" PROVE OfRoles(q.out, roles) = OfRoles(Prefix(h, i), roles)
    <3> DEFINE o == p.out \o Placeholders(p.open)
    <3>1. o \in Seq(Msg) /\ OfRoles(o, roles) = OfRoles(p.out, roles)
      BY <1>4, <2>2, ConcatFacts, PlaceholderFacts
    <3>2. q.out = Append(o, m)
      BY <2>1, <2>5 DEF RepairOne
    <3> HIDE DEF o
    <3>3. OfRoles(Append(o, m), roles)
            = IF m.role \in roles THEN Append(OfRoles(o, roles), m) ELSE OfRoles(o, roles)
      BY <2>1, <3>1, RolesOfAppend
    <3>4. OfRoles(q.out, roles) = OfRoles(Append(f, m), roles)
      BY <2>1, <2>3, <3>1, <3>2, <3>3
    <3> QED
      BY <2>1, <3>4
  <2>6. OfRoles(q.out, roles) = OfRoles(Prefix(h, i), roles)
    BY <2>4, <2>5
  <2>7. i \in 0 .. Len(h)
    BY <1>2
  <2> QED
    BY <2>6, <2>7 DEF q
<1> HIDE DEF S
<1>7. \A i \in 0 .. Len(h) : i \in S
  BY <1>2, <1>5, <1>6, Induction
<1>8. OfRoles(r[Len(h)].out, roles) = OfRoles(h, roles)
  BY <1>2, <1>7, PrefixFacts DEF S
<1>9. Repairing(r[Len(h)])
  BY <1>2, <1>3
<1> QED
  BY <1>1, <1>4, <1>8, <1>9 DEF Repairing
-----------------------------------------------------------------------------
(* The transcripts of HistoryFunctions                                     *)

LEMMA TranscriptMessages ==
    Messages \subseteq Msg
<1>1. \A t \in SUBSET (Kinds \X Nat) : User(t) \in Msg /\ Assistant(t) \in Msg
  BY DEF User, Assistant, Message, Msg, NoCall
<1>2. {<<"task", 1>>} \subseteq Kinds \X Nat /\ {<<"task", 2>>} \subseteq Kinds \X Nat
      /\ {<<"reply", 0>>} \subseteq Kinds \X Nat
  BY DEF Kinds
<1>3. System \in Msg
  BY DEF System, Message, Msg, NoCall
<1>4. \A c \in Seq(AnyCall) : Calling(c) \in Msg
  BY DEF Calling, Message, Msg, NoCall
<1>5. /\ <<[id |-> 1, n |-> 1]>> \in Seq(AnyCall) /\ <<[id |-> 2, n |-> 2]>> \in Seq(AnyCall)
      /\ <<[id |-> 1, n |-> 1], [id |-> 2, n |-> 2]>> \in Seq(AnyCall)
  BY DEF AnyCall, NoCall
<1>6. \A id \in {1, 2} : ToolResult(id, {<<"res", id>>}) \in Msg
  BY DEF ToolResult, Message, Msg, NoCall, Kinds
<1> QED
  BY <1>1, <1>2, <1>3, <1>4, <1>5, <1>6 DEF Messages

\* Tool messages that answer the same id are the same message.
LEMMA TranscriptAnswers ==
    \A m, q \in Messages : m.role = "tool" /\ q.role = "tool" /\ m.id = q.id => m = q
<1>1. \A m \in Messages : m.role = "tool" => m = ToolResult(m.id, {<<"res", m.id>>})
  BY DEF Messages, System, User, Assistant, Calling, ToolResult, Message
<1> QED
  BY <1>1

LEMMA TranscriptFacts ==
    ASSUME NEW h \in Transcripts
    PROVE  h \in Seq(Msg) /\ h \in Seq(Messages) /\ UniqueIds(h)
<1>1. h \in BoundedSeq(Messages, MaxLen) /\ UniqueIds(h)
  BY DEF Transcripts
<1>2. h \in Seq(Messages)
  BY <1>1, FunctionBounds DEF BoundedSeq, SeqOf
<1> QED
  BY <1>1, <1>2, TranscriptMessages

\* The input is a transcript, and what was returned is its image.
TranscriptInv ==
    /\ in \in Transcripts
    /\ op \in {"transcript", "repair", "normalise", "flatten", "compact"}
    /\ op = "repair" => out = Repair(in)
    /\ op = "normalise" => Cut(in) /\ out = Normalise(in, FALSE)
    /\ op = "flatten" => Cut(in) /\ out = Normalise(in, TRUE)
    /\ op = "compact" => Paired(in) /\ out \in Compactions(in, KeepLast)

LEMMA TranscriptSteps == TranscriptSpec => []TranscriptInv
<1>1. TranscriptInit => TranscriptInv
  BY DEF TranscriptInit, TranscriptInv
<1>2. TranscriptInv /\ [TranscriptNext]_functionVars => TranscriptInv'
  <2> SUFFICES ASSUME TranscriptInv, [TranscriptNext]_functionVars PROVE TranscriptInv'
    OBVIOUS
  <2>1. CASE OfTranscript /\ in' = in
    <3>1. CASE Apply("repair", Repair(in))
      BY <2>1, <3>1 DEF Apply, TranscriptInv
    <3>2. CASE Cut(in) /\ Apply("normalise", Normalise(in, FALSE))
      BY <2>1, <3>2 DEF Apply, TranscriptInv
    <3>3. CASE Cut(in) /\ Apply("flatten", Normalise(in, TRUE))
      BY <2>1, <3>3 DEF Apply, TranscriptInv
    <3>4. CASE \E h \in Compactions(in, KeepLast) : Paired(in) /\ Apply("compact", h)
      BY <2>1, <3>4 DEF Apply, TranscriptInv
    <3> QED
      BY <2>1, <3>1, <3>2, <3>3, <3>4 DEF OfTranscript
  <2>2. CASE UNCHANGED functionVars
    BY <2>2 DEF functionVars, TranscriptInv
  <2> QED
    BY <2>1, <2>2 DEF TranscriptNext
<1> QED
  BY <1>1, <1>2, PTL DEF TranscriptSpec

\* The repair of an orphaned transcript is exact and final: paired, nothing but
\* tool messages touched, no answer to an open call lost, and repairing again
\* changes nothing - for transcripts of every length.
THEOREM RepairIsSound == TranscriptSpec => []RepairSound
<1>1. TranscriptInv => RepairSound
  <2> SUFFICES ASSUME TranscriptInv, op = "repair" PROVE RepairSound
    BY DEF RepairSound, RepairCorrect, RepairStable
  <2>1. /\ in \in Seq(Msg) /\ in \in Seq(Messages) /\ UniqueIds(in)
        /\ out = Repair(in)
    BY TranscriptFacts DEF TranscriptInv
  <2>2. out \in Seq(Msg) /\ Paired(out)
    BY <2>1, RepairPairs
  <2>3. UniqueIds(out)
    BY <2>1, RepairMade DEF MadeFrom
  <2>4. NonTool(out) = NonTool(in)
    BY <2>1, RepairTouchesTools DEF NonTool
  <2>5. ASSUME NEW i \in DOMAIN in, NEW j \in AnswersAfter(in, i), in[j].id \in CallIds(<<in[i]>>)
        PROVE  in[j] \in ToSet(out)
    <3>1. in[i] \in Msg /\ Len(in) \in Nat /\ i \in 1 .. Len(in)
      BY <2>1, SeqFacts
    <3>2. CallIds(<<in[i]>>) = Ids(in[i])
      BY DEF CallIds, Ids
    <3>3. in[i].role # "tool"
      BY <2>5, <3>1, <3>2, MsgFacts
    <3>4. PICK k \in AnswersAfter(in, i) : in[k].id = in[j].id /\ in[k] \in ToSet(out)
      BY <2>1, <2>5, <3>2, <3>3, RepairSurvives
    <3>5. /\ in[j] \in Messages /\ in[k] \in Messages
          /\ in[j].role = "tool" /\ in[k].role = "tool"
      BY <2>1, <3>1 DEF AnswersAfter
    <3> QED
      BY <3>4, <3>5, TranscriptAnswers
  <2>6. Repair(out) = out
    BY <2>2, <2>3, RepairExact
  <2>7. Paired(in) => out = in
    BY <2>1, RepairExact
  <2> QED
    BY <2>2, <2>4, <2>5, <2>6, <2>7 DEF RepairSound, RepairCorrect, RepairStable
<1> QED
  BY <1>1, TranscriptSteps, PTL
-----------------------------------------------------------------------------
(* Compaction                                                              *)

LEMMA Extremes ==
    ASSUME NEW n \in Nat, NEW S \in SUBSET (1 .. n), S # {}
    PROVE  Max(S) \in S /\ Min(S) \in S
<1>1. PICK a \in S : \A k \in S : a <= k
  <2>1. S \in SUBSET Nat
    OBVIOUS
  <2> QED
    BY <2>1, LeastNumber
<1> DEFINE T == {n - k : k \in S}
<1>2. T \in SUBSET Nat /\ T # {}
  OBVIOUS
<1>3. PICK b \in T : \A k \in T : b <= k
  <2> HIDE DEF T
  <2> QED
    BY <1>2, LeastNumber
<1>4. PICK c \in S : b = n - c
  BY <1>3
<1>5. \A k \in S : k <= c
  <2> TAKE k \in S
  <2>1. n - k \in T
    OBVIOUS
  <2>2. n - c <= n - k
    BY <1>3, <1>4, <2>1
  <2> QED
    BY <2>2
<1>6. Min(S) \in S
  BY <1>1 DEF Min
<1>7. Max(S) \in S
  BY <1>5 DEF Max
<1> QED
  BY <1>6, <1>7

\* Some element has exactly keep elements from it on.
LEMMA StartExists ==
    ASSUME NEW n \in Nat, NEW N \in SUBSET (1 .. n), NEW keep \in Nat \ {0},
           keep <= Cardinality(N)
    PROVE  \E i \in N : Cardinality({j \in N : j >= i}) = keep
<1> DEFINE From(i) == {j \in N : j >= i}
           f(i) == Cardinality(From(i))
           S == {k \in 0 .. n : f(n + 1 - k) < keep \/ \E i \in N : f(i) = keep}
<1>0. \A j \in N : j \in Nat /\ 1 <= j /\ j <= n
  OBVIOUS
<1>1. IsFiniteSet(N)
  <2>1. IsFiniteSet(1 .. n)
    BY FS_Interval
  <2> QED
    BY <2>1, FS_Subset
<1>2. \A i \in 1 .. (n + 1) : IsFiniteSet(From(i)) /\ f(i) \in Nat
  <2> TAKE i \in 1 .. (n + 1)
  <2>1. From(i) \subseteq N
    OBVIOUS
  <2> HIDE DEF From
  <2>2. IsFiniteSet(From(i))
    BY <1>1, <2>1, FS_Subset
  <2> QED
    BY <2>2, FS_CardinalityType
<1>3. f(n + 1) = 0
  <2>1. From(n + 1) = {}
    <3>1. \A j \in N : ~(j >= n + 1)
      BY <1>0
    <3> QED
      BY <3>1
  <2> QED
    BY <2>1, FS_EmptySet
<1>4. f(1) = Cardinality(N)
  <2>1. From(1) = N
    <3>1. \A j \in N : j >= 1
      BY <1>0
    <3> QED
      BY <3>1
  <2> QED
    BY <2>1
<1>5. \A i \in 1 .. n : f(i) = IF i \in N THEN f(i + 1) + 1 ELSE f(i + 1)
  <2> TAKE i \in 1 .. n
  <2>1. From(i) = IF i \in N THEN From(i + 1) \cup {i} ELSE From(i + 1)
    <3>1. \A j \in N : j >= i <=> j >= i + 1 \/ j = i
      BY <1>0
    <3> QED
      BY <3>1
  <2>2. i \notin From(i + 1)
    OBVIOUS
  <2>3. i + 1 \in 1 .. (n + 1)
    OBVIOUS
  <2>4. IsFiniteSet(From(i + 1))
    BY <1>2, <2>3
  <2> HIDE DEF From
  <2>5. Cardinality(From(i + 1) \cup {i}) = Cardinality(From(i + 1)) + 1
    BY <2>2, <2>4, FS_AddElement
  <2> QED
    BY <2>1, <2>5
<1> HIDE DEF f
<1>6. 0 \in S
  <2>1. n + 1 - 0 = n + 1 /\ 0 \in 0 .. n
    OBVIOUS
  <2>2. f(n + 1 - 0) < keep
    BY <1>3, <2>1
  <2> QED
    BY <2>1, <2>2
<1>7. ASSUME NEW k \in 1 .. n, k - 1 \in S PROVE k \in S
  <2> DEFINE i == n + 1 - k
  <2>1. i \in 1 .. n /\ i + 1 = n + 1 - (k - 1) /\ i + 1 \in 1 .. (n + 1) /\ k \in 0 .. n
    OBVIOUS
  <2>2. f(i + 1) < keep \/ \E j \in N : f(j) = keep
    BY <1>7, <2>1
  <2>3. f(i) = IF i \in N THEN f(i + 1) + 1 ELSE f(i + 1)
    BY <1>5, <2>1
  <2>4. f(i + 1) \in Nat
    BY <1>2, <2>1
  <2> HIDE DEF i
  <2>5. f(i) < keep \/ \E j \in N : f(j) = keep
    <3>1. CASE f(i + 1) < keep
      <4>1. f(i) < keep \/ (i \in N /\ f(i) = keep)
        BY <2>3, <2>4, <3>1
      <4> QED
        BY <4>1
    <3>2. CASE \E j \in N : f(j) = keep
      BY <3>2
    <3> QED
      BY <2>2, <3>1, <3>2
  <2> QED
    BY <2>1, <2>5 DEF i
<1> HIDE DEF S
<1>8. \A k \in 0 .. n : k \in S
  BY <1>6, <1>7, Induction
<1>9. f(n + 1 - n) < keep \/ \E i \in N : f(i) = keep
  BY <1>8 DEF S
<1>10. n + 1 - n = 1
  OBVIOUS
<1>11. ~(f(1) < keep)
  <2>1. f(1) \in Nat
    <3>1. 1 \in 1 .. (n + 1)
      OBVIOUS
    <3> QED
      BY <1>2, <3>1
  <2> QED
    BY <1>4, <2>1
<1>12. \E i \in N : f(i) = keep
  BY <1>9, <1>10, <1>11
<1> QED
  BY <1>12 DEF f

\* The raw part begins with a user message, or is empty.
LEMMA SplitFacts ==
    ASSUME NEW h \in Seq(Msg), NEW keep \in Nat, NEW s \in SplitPoints(h, keep)
    PROVE  s \in 1 .. (Len(h) + 1) /\ (s <= Len(h) => h[s].role = "user")
<1> DEFINE ns    == NonSystem(h)
           start == CHOOSE i \in ns : Cardinality({j \in ns : j >= i}) = keep
           back  == {i \in (Min(ns) + 1) .. start : h[i].role = "user"}
           fwd   == {i \in start .. Len(h) : h[i].role = "user"}
<1>1. Len(h) \in Nat /\ DOMAIN h = 1 .. Len(h)
  BY SeqFacts
<1>2. ns \in SUBSET (1 .. Len(h))
  BY <1>1 DEF NonSystem
<1>3. s \in IF Cardinality(ns) <= keep THEN {}
            ELSE IF keep = 0 THEN {Len(h) + 1}
            ELSE IF back # {} THEN {Max(back)}
            ELSE IF fwd # {} THEN {Min(fwd)}
            ELSE {}
  BY DEF SplitPoints
<1>4. IsFiniteSet(ns) /\ Cardinality(ns) \in Nat
  <2>1. IsFiniteSet(1 .. Len(h))
    BY <1>1, FS_Interval
  <2> HIDE DEF ns
  <2>2. IsFiniteSet(ns)
    BY <1>2, <2>1, FS_Subset
  <2> QED
    BY <2>2, FS_CardinalityType
<1>5. CASE keep = 0
  BY <1>1, <1>3, <1>5
<1>6. CASE keep # 0 /\ ~(Cardinality(ns) <= keep)
  <2>1. start \in ns
    <3> HIDE DEF ns
    <3>1. keep \in Nat \ {0} /\ keep <= Cardinality(ns)
      BY <1>4, <1>6
    <3>2. \E i \in ns : Cardinality({j \in ns : j >= i}) = keep
      BY <1>1, <1>2, <3>1, StartExists, ZenonT(60)
    <3> QED
      BY <3>2
  <2>2. Min(ns) \in ns
    <3> HIDE DEF ns, start
    <3> QED
      BY <1>1, <1>2, <2>1, Extremes
  <2> HIDE DEF ns, start
  <2>3. start \in 1 .. Len(h) /\ Min(ns) \in 1 .. Len(h)
    BY <1>2, <2>1, <2>2
  <2>4. back \in SUBSET (1 .. Len(h)) /\ fwd \in SUBSET (1 .. Len(h))
    BY <1>1, <2>3
  <2>5. \A i \in back \cup fwd : h[i].role = "user"
    OBVIOUS
  <2> HIDE DEF back, fwd
  <2>6. back # {} => Max(back) \in back
    BY <1>1, <2>4, Extremes
  <2>7. fwd # {} => Min(fwd) \in fwd
    BY <1>1, <2>4, Extremes
  <2>8. s \in back \cup fwd
    BY <1>3, <1>6, <2>6, <2>7
  <2>9. s \in 1 .. Len(h) /\ h[s].role = "user"
    BY <2>4, <2>5, <2>8
  <2> QED
    BY <1>1, <2>9
<1>7. ~(Cardinality(ns) <= keep)
  <2> HIDE DEF ns, back, fwd
  <2> QED
    BY <1>3
<1> QED
  BY <1>5, <1>6, <1>7

LEMMA CompactionSplit ==
    ASSUME NEW h \in Seq(Msg), NEW keep \in Nat, NEW c \in Compactions(h, keep)
    PROVE  \E s \in 1 .. (Len(h) + 1) :
              c = Compacted(h, s) /\ (s <= Len(h) => h[s].role = "user")
<1> DEFINE At(k) == {Compacted(h, s) : s \in SplitPoints(h, k)}
<1>1. PICK k \in Nat : c \in At(k)
  <2>1. Compactions(h, keep) \subseteq UNION {At(k) : k \in Attempts(keep)}
    BY DEF Compactions
  <2>2. Attempts(keep) \subseteq Nat
    BY DEF Attempts
  <2> HIDE DEF At
  <2> QED
    BY <2>1, <2>2
<1>2. PICK s \in SplitPoints(h, k) : c = Compacted(h, s)
  BY <1>1
<1>3. s \in 1 .. (Len(h) + 1) /\ (s <= Len(h) => h[s].role = "user")
  BY <1>2, SplitFacts
<1> QED
  BY <1>2, <1>3

\* Filtering again changes nothing.
LEMMA RolesTwice ==
    ASSUME NEW h \in Seq(Msg), NEW roles, \A m \in ToSet(h) : m.role \in roles
    PROVE  OfRoles(h, roles) = h
<1> DEFINE S == {i \in 0 .. Len(h) : OfRoles(Prefix(h, i), roles) = Prefix(h, i)}
<1>1. Len(h) \in Nat /\ \A i \in 1 .. Len(h) : h[i] \in Msg /\ h[i].role \in roles
  BY SeqFacts DEF ToSet
<1>2. 0 \in S
  BY <1>1, PrefixFacts, RolesOfNone
<1>3. ASSUME NEW i \in 1 .. Len(h), i - 1 \in S PROVE i \in S
  <2> DEFINE f == Prefix(h, i - 1)
             m == h[i]
  <2>1. /\ f \in Seq(Msg) /\ m \in Msg /\ m.role \in roles /\ Prefix(h, i) = Append(f, m)
        /\ OfRoles(f, roles) = f
    <3>1. i - 1 \in 0 .. Len(h)
      BY <1>1
    <3> QED
      BY <1>1, <1>3, <3>1, PrefixFacts
  <2> HIDE DEF f, m
  <2>2. OfRoles(Append(f, m), roles) = Append(f, m)
    BY <2>1, RolesOfAppend
  <2>3. OfRoles(Prefix(h, i), roles) = Prefix(h, i)
    BY <2>1, <2>2
  <2>4. i \in 0 .. Len(h)
    BY <1>1
  <2> QED
    BY <2>3, <2>4
<1> HIDE DEF S
<1>4. \A i \in 0 .. Len(h) : i \in S
  BY <1>1, <1>2, <1>3, Induction
<1>5. Len(h) \in S /\ Prefix(h, Len(h)) = h
  BY <1>1, <1>4, PrefixFacts
<1> QED
  BY <1>5 DEF S

LEMMA SuffixFacts ==
    ASSUME NEW S, NEW h \in Seq(S), NEW s \in 1 .. (Len(h) + 1)
    PROVE  /\ SubSeq(h, s, Len(h)) \in Seq(S)
           /\ Len(SubSeq(h, s, Len(h))) = Len(h) - s + 1
           /\ Len(SubSeq(h, s, Len(h))) \in Nat
           /\ \A k \in 1 .. (Len(h) - s + 1) :
                 s - 1 + k \in 1 .. Len(h) /\ SubSeq(h, s, Len(h))[k] = h[s - 1 + k]
<1>1. Len(h) \in Nat /\ Len(h) \in (s - 1) .. Len(h)
  BY SeqFacts
<1>2. /\ SubSeq(h, s, Len(h)) \in Seq(S)
      /\ Len(SubSeq(h, s, Len(h))) = IF s <= Len(h) THEN Len(h) - s + 1 ELSE 0
      /\ \A k \in 1 .. (Len(h) - s + 1) : SubSeq(h, s, Len(h))[k] = h[s + k - 1]
  BY <1>1, SubSeqProperties
<1>3. \A k \in 1 .. (Len(h) - s + 1) : s + k - 1 = s - 1 + k /\ s - 1 + k \in 1 .. Len(h)
  BY <1>1
<1>4. Len(h) - s + 1 \in Nat /\ (~(s <= Len(h)) => Len(h) - s + 1 = 0)
  BY <1>1
<1> QED
  BY <1>2, <1>3, <1>4

\* t is h from message s on.
EndsAt(h, s, t) ==
    /\ s \in 1 .. (Len(h) + 1)
    /\ Len(t) = Len(h) - s + 1
    /\ \A k \in 1 .. Len(t) : s - 1 + k \in 1 .. Len(h) /\ t[k] = h[s - 1 + k]

\* A compacted history: system messages, the summary, and the raw rest.
IsCompaction(h, c, a, t, s) ==
    /\ c = a \o t /\ a \in Seq(Msg) /\ t \in Seq(Msg)
    /\ a # <<>> /\ a[Len(a)] = Summary
    /\ \A m \in ToSet(a) : m = Summary \/ (m \in ToSet(h) /\ m.role = "system")
    /\ OfRoles(a, {"system"}) = OfRoles(Prefix(h, s - 1), {"system"})
    /\ t = SubSeq(h, s, Len(h)) /\ EndsAt(h, s, t)
    /\ t # <<>> => t[1].role = "user"

LEMMA CompactionIs ==
    ASSUME NEW h \in Seq(Msg), NEW keep \in Nat, NEW c \in Compactions(h, keep)
    PROVE  \E a, t, s : IsCompaction(h, c, a, t, s)
<1>1. PICK s \in 1 .. (Len(h) + 1) :
              c = Compacted(h, s) /\ (s <= Len(h) => h[s].role = "user")
  BY CompactionSplit
<1> DEFINE p == Prefix(h, s - 1)
           o == OfRoles(p, {"system"})
           a == Append(o, Summary)
           t == SubSeq(h, s, Len(h))
<1>2. Len(h) \in Nat /\ s - 1 \in 0 .. Len(h)
  BY <1>1, SeqFacts
<1>3. p \in Seq(Msg) /\ Len(p) = s - 1 /\ \A k \in 1 .. (s - 1) : p[k] = h[k]
  BY <1>2, PrefixFacts
<1>4. /\ t \in Seq(Msg) /\ Len(t) = Len(h) - s + 1
      /\ \A k \in 1 .. Len(t) : s - 1 + k \in 1 .. Len(h) /\ t[k] = h[s - 1 + k]
  <2>1. /\ t \in Seq(Msg) /\ Len(t) = Len(h) - s + 1
        /\ \A k \in 1 .. (Len(h) - s + 1) : s - 1 + k \in 1 .. Len(h) /\ t[k] = h[s - 1 + k]
    BY <1>1, SuffixFacts
  <2> HIDE DEF t
  <2> QED
    BY <2>1
<1> HIDE DEF p
<1>5. o \in Seq(Msg) /\ ToSet(o) = {m \in ToSet(p) : m.role \in {"system"}}
  BY <1>3, RolesFacts
<1>6. Summary \in Msg
  BY DEF Summary, Assistant, Message, Msg, NoCall, Kinds
<1> HIDE DEF o
<1>7. a \in Seq(Msg) /\ a # <<>> /\ a[Len(a)] = Summary /\ ToSet(a) = ToSet(o) \cup {Summary}
  <2>1. a \in Seq(Msg) /\ a # <<>> /\ Len(a) = Len(o) + 1 /\ a[Len(o) + 1] = Summary
    BY <1>5, <1>6, AppendFacts
  <2>2. ToSet(a) = ToSet(o) \cup {Summary}
    BY <1>5, <1>6, AppendContents
  <2> QED
    BY <2>1, <2>2
<1>8. OfRoles(a, {"system"}) = o
  <2>1. p \in Seq(Msg) /\ Summary.role = "assistant"
    BY <1>3 DEF Summary, Assistant, Message
  <2>2. OfRoles(a, {"system"}) = OfRoles(o, {"system"})
    BY <1>5, <1>6, <2>1, RolesOfAppend
  <2>3. OfRoles(o, {"system"}) = o
    BY <1>5, RolesTwice
  <2> QED
    BY <2>2, <2>3
<1>9. c = a \o t
  <2>1. c = o \o <<Summary>> \o t
    BY <1>1 DEF Compacted, o, p, Prefix
  <2>2. o \o <<Summary>> = a
    BY <1>5, <1>6, AppendIsConcat
  <2> QED
    BY <2>1, <2>2
<1>10. t # <<>> => t[1].role = "user"
  <2> HAVE t # <<>>
  <2>1. Len(t) \in Nat /\ Len(t) # 0
    BY <1>4, SeqFacts
  <2> HIDE DEF t
  <2>2. s <= Len(h) /\ 1 \in 1 .. Len(t) /\ s - 1 + 1 = s
    BY <1>1, <1>2, <1>4, <2>1
  <2>3. t[1] = h[s]
    BY <1>4, <2>2
  <2> QED
    BY <1>1, <2>2, <2>3
<1>11. ToSet(p) \subseteq ToSet(h)
  <2>1. DOMAIN p = 1 .. (s - 1) /\ DOMAIN h = 1 .. Len(h)
    BY <1>3, SeqFacts
  <2> QED
    BY <1>2, <1>3, <2>1 DEF ToSet
<1>12. \A m \in ToSet(a) : m = Summary \/ (m \in ToSet(h) /\ m.role = "system")
  <2> HIDE DEF a
  <2> QED
    BY <1>5, <1>7, <1>11
<1>13. OfRoles(a, {"system"}) = OfRoles(Prefix(h, s - 1), {"system"})
  BY <1>8 DEF o, p
<1>14. t = SubSeq(h, s, Len(h))
  OBVIOUS
<1> HIDE DEF a, t
<1>15. EndsAt(h, s, t)
  BY <1>1, <1>4 DEF EndsAt
<1>16. IsCompaction(h, c, a, t, s)
  BY <1>4, <1>7, <1>9, <1>10, <1>12, <1>13, <1>14, <1>15 DEF IsCompaction
<1> QED
  BY <1>16

\* u is v, shifted by n.
IsShift(u, v, n, a, b) == \A k \in a .. b : u[n + k] = v[k]

\* What u has at X is what v has at K.
SameValues(u, X, v, K) ==
    /\ \A k \in K : \E x \in X : u[x] = v[k]
    /\ \A x \in X : \E k \in K : u[x] = v[k]

LEMMA Shifted ==
    ASSUME NEW n \in Nat, NEW a \in Nat, NEW b \in Nat, NEW u, NEW v, IsShift(u, v, n, a, b)
    PROVE  SameValues(u, (n + a) .. (n + b), v, a .. b)
<1> DEFINE X == (n + a) .. (n + b)
           K == a .. b
<1>1. \A k \in K : \E x \in X : u[x] = v[k]
  <2> TAKE k \in K
  <2>1. n + k \in X /\ u[n + k] = v[k]
    BY DEF IsShift
  <2> QED
    BY <2>1
<1>2. \A x \in X : \E k \in K : u[x] = v[k]
  <2> TAKE x \in X
  <2> DEFINE k == x - n
  <2>1. k \in K /\ x = n + k
    OBVIOUS
  <2>2. u[n + k] = v[k]
    BY <2>1 DEF IsShift
  <2> HIDE DEF k
  <2> QED
    BY <2>1, <2>2
<1> QED
  BY <1>1, <1>2 DEF SameValues

\* A history that begins with messages that make no calls.
LEMMA OwesAfterPlain ==
    ASSUME NEW a \in Seq(Msg), NEW t \in Seq(Msg), NEW open,
           \A k \in 1 .. Len(a) : a[k].role # "tool" /\ a[k].calls = <<>>,
           Owes(t, open)
    PROVE  Owes(a \o t, open)
<1> DEFINE c == a \o t
           n == Len(a)
<1>1. /\ c \in Seq(Msg) /\ n \in Nat /\ Len(t) \in Nat /\ Len(c) = n + Len(t)
      /\ DOMAIN c = 1 .. (n + Len(t)) /\ DOMAIN t = 1 .. Len(t)
      /\ \A i \in 1 .. n : c[i] = a[i]
      /\ \A i \in 1 .. Len(t) : c[n + i] = t[i]
  BY ConcatFacts, SeqFacts
<1>2. t = <<>> <=> Len(t) = 0
  BY SeqFacts
<1>3. c = <<>> => Len(t) = 0
  <2> HAVE c = <<>>
  <2>1. Len(c) = 0
    OBVIOUS
  <2> HIDE DEF c, n
  <2> QED
    BY <1>1, <2>1
<1> HIDE DEF c, n
<1>4. c = <<>> => open = <<>>
  BY <1>2, <1>3 DEF Owes
<1>5. c # <<>> => c[1].role # "tool"
  <2> HAVE c # <<>>
  <2>1. CASE n # 0
    BY <1>1, <2>1 DEF n
  <2>2. CASE n = 0
    <3>1. Len(t) # 0
      BY <1>1, <2>2, SeqFacts
    <3>2. c[0 + 1] = t[1]
      BY <1>1, <2>2, <3>1
    <3> QED
      BY <1>2, <3>1, <3>2 DEF Owes
  <2> QED
    BY <2>1, <2>2
<1>6. ASSUME NEW i \in DOMAIN c, c[i].role # "tool"
      PROVE  \E e \in i .. Len(c) :
                 \/ e = Len(c) /\ Served(c, i, e, open)
                 \/ e < Len(c) /\ c[e + 1].role # "tool" /\ Served(c, i, e, <<>>)
  <2>1. CASE i <= n
    <3>1. i \in 1 .. n /\ c[i] = a[i] /\ c[i].calls = <<>>
      BY <1>1, <2>1 DEF n
    <3>2. Ids(c[i]) = {} /\ Len(c[i].calls) = 0
      BY <3>1 DEF Ids
    <3>3. i \in i .. Len(c)
      BY <1>1, <3>1
    <3>4. Served(c, i, i, <<>>)
      <4>1. (i + 1) .. i = {}
        BY <1>1, <3>1
      <4>2. i - i + Len(<<>>) = 0 /\ ToSet(<<>>) = {} /\ i \in i .. i
        BY <1>1, <3>1, EmptyContents
      <4>3. {c[k].id : k \in {}} = {}
        OBVIOUS
      <4> QED
        BY <3>2, <3>3, <4>1, <4>2, <4>3 DEF Served
    <3>5. CASE i = Len(c)
      <4>1. Len(t) = 0
        BY <1>1, <3>1, <3>5
      <4>2. open = <<>>
        BY <1>2, <4>1 DEF Owes
      <4> QED
        BY <3>3, <3>4, <3>5, <4>2
    <3>6. CASE i # Len(c)
      <4>1. i < Len(c) /\ i + 1 \in 1 .. Len(c)
        BY <1>1, <3>1, <3>6
      <4>2. c[i + 1].role # "tool"
        <5>1. CASE i + 1 \in 1 .. n
          BY <1>1, <5>1 DEF n
        <5>2. CASE i + 1 \notin 1 .. n
          <6>1. i = n /\ 1 \in 1 .. Len(t)
            BY <1>1, <3>1, <4>1, <5>2
          <6>2. t # <<>>
            BY <1>2, <6>1
          <6>3. c[i + 1] = t[1]
            BY <1>1, <6>1
          <6> QED
            BY <6>2, <6>3 DEF Owes
        <5> QED
          BY <5>1, <5>2
      <4> QED
        BY <3>3, <3>4, <4>1, <4>2
    <3> QED
      BY <3>5, <3>6
  <2>2. CASE ~(i <= n)
    <3> DEFINE j == i - n
    <3>1. j \in 1 .. Len(t) /\ i = n + j
      BY <1>1, <2>2
    <3>2. c[i] = t[j]
      BY <1>1, <3>1, SMTT(60)
    <3> HIDE DEF j
    <3>3. PICK f \in j .. Len(t) :
                 \/ f = Len(t) /\ Served(t, j, f, open)
                 \/ f < Len(t) /\ t[f + 1].role # "tool" /\ Served(t, j, f, <<>>)
      BY <1>1, <1>6, <3>1, <3>2, ZenonT(60) DEF Owes
    <3> DEFINE e == n + f
    <3>4. e \in i .. Len(c)
      BY <1>1, <3>1
    <3>5. ASSUME NEW left, Served(t, j, f, left) PROVE Served(c, i, e, left)
      <4>1. /\ j + 1 \in Nat /\ f \in Nat /\ i + 1 = n + (j + 1) /\ e = n + f
            /\ (j + 1) .. f \subseteq 1 .. Len(t)
        <5>1. n \in Nat /\ Len(t) \in Nat /\ j \in 1 .. Len(t) /\ f \in j .. Len(t) /\ i = n + j
          BY <1>1, <3>1
        <5>2. j \in Nat /\ f \in Nat /\ 1 <= j /\ f <= Len(t)
          BY <5>1
        <5> HIDE DEF n
        <5>3. i + 1 = n + (j + 1) /\ j + 1 \in Nat
          BY <5>1, <5>2
        <5>4. (j + 1) .. f \subseteq 1 .. Len(t)
          BY <5>1, <5>2
        <5> QED
          BY <5>2, <5>3, <5>4
      <4>2. \A k \in (j + 1) .. f : c[n + k] = t[k]
        BY <1>1, <4>1
      <4>3. /\ {c[x].id : x \in (n + (j + 1)) .. (n + f)} = {t[k].id : k \in (j + 1) .. f}
            /\ (\A x \in (n + (j + 1)) .. (n + f) : c[x].role = "tool")
                  <=> \A k \in (j + 1) .. f : t[k].role = "tool"
        <5> DEFINE d == j + 1
        <5>1. n \in Nat /\ d \in Nat /\ f \in Nat /\ IsShift(c, t, n, d, f)
          BY <1>1, <4>1, <4>2 DEF IsShift
        <5> HIDE DEF d
        <5> DEFINE K == d .. f
               X == (n + d) .. (n + f)
        <5>2. SameValues(c, X, t, K)
          BY <5>1, Shifted
        <5> HIDE DEF K, X
        <5>3. {c[x].id : x \in X} = {t[k].id : k \in K}
          BY <5>2 DEF SameValues
        <5>4. (\A x \in X : c[x].role = "tool") <=> \A k \in K : t[k].role = "tool"
          BY <5>2 DEF SameValues
        <5> QED
          BY <5>3, <5>4 DEF K, X, d
      <4>4. {c[k].id : k \in (i + 1) .. e} = {t[k].id : k \in (j + 1) .. f}
        BY <4>1, <4>3
      <4>5. \A k \in (i + 1) .. e : c[k].role = "tool"
        BY <3>5, <4>1, <4>3 DEF Served
      <4>6. e - i = f - j
        BY <1>1, <3>1
      <4> HIDE DEF e
      <4> QED
        BY <3>2, <3>4, <3>5, <4>4, <4>5, <4>6 DEF Served
    <3>6. CASE f = Len(t) /\ Served(t, j, f, open)
      <4>1. e = Len(c)
        BY <1>1, <3>6
      <4> QED
        BY <3>4, <3>5, <3>6, <4>1
    <3>7. CASE f < Len(t) /\ t[f + 1].role # "tool" /\ Served(t, j, f, <<>>)
      <4>1. e < Len(c) /\ f + 1 \in 1 .. Len(t) /\ e + 1 = n + (f + 1)
        BY <1>1, <3>1, <3>7
      <4>2. c[e + 1] = t[f + 1]
        BY <1>1, <4>1
      <4> QED
        BY <3>4, <3>5, <3>7, <4>1, <4>2
    <3> QED
      BY <3>3, <3>6, <3>7
  <2> QED
    BY <2>1, <2>2
<1>7. Owes(c, open)
  BY <1>4, <1>5, <1>6 DEF Owes
<1> QED
  BY <1>7 DEF c

\* The end of a history, from a message on that is no answer.
LEMMA OwesSuffix ==
    ASSUME NEW h \in Seq(Msg), Owes(h, <<>>), NEW t \in Seq(Msg), NEW s, EndsAt(h, s, t),
           t # <<>> => t[1].role # "tool"
    PROVE  Owes(t, <<>>)
<1> DEFINE n == s - 1
<1>1. /\ n \in Nat /\ Len(t) \in Nat /\ Len(h) \in Nat /\ Len(h) = n + Len(t)
      /\ DOMAIN t = 1 .. Len(t) /\ DOMAIN h = 1 .. Len(h)
  BY SeqFacts DEF EndsAt
<1>2. \A k \in 1 .. Len(t) : n + k \in 1 .. Len(h) /\ t[k] = h[n + k]
  BY DEF EndsAt
<1> HIDE DEF n
<1>3. ASSUME NEW j \in DOMAIN t, t[j].role # "tool"
      PROVE  \E f \in j .. Len(t) :
                 \/ f = Len(t) /\ Served(t, j, f, <<>>)
                 \/ f < Len(t) /\ t[f + 1].role # "tool" /\ Served(t, j, f, <<>>)
  <2> DEFINE i == n + j
  <2>1. i \in 1 .. Len(h) /\ t[j] = h[i] /\ j \in 1 .. Len(t)
    BY <1>1, <1>2
  <2>2. PICK e \in i .. Len(h) :
               /\ Served(h, i, e, <<>>)
               /\ e = Len(h) \/ (e < Len(h) /\ h[e + 1].role # "tool")
    BY <1>1, <1>3, <2>1 DEF Owes
  <2> DEFINE f == e - n
  <2>3. /\ f \in j .. Len(t) /\ e = n + f /\ i = n + j
        /\ n \in Nat /\ j \in Nat /\ f \in Nat /\ e \in Nat /\ i \in Nat
        /\ Len(t) \in Nat /\ Len(h) = n + Len(t) /\ 1 <= j /\ j <= f /\ f <= Len(t)
    BY <1>1, <2>1
  <2> HIDE DEF f, i
  <2>4. Served(t, j, f, <<>>)
    <3>1. /\ j + 1 \in Nat /\ f \in Nat /\ i + 1 = n + (j + 1) /\ e = n + f
          /\ (j + 1) .. f \subseteq 1 .. Len(t)
      BY <2>3, SMTT(60)
    <3>2. \A k \in (j + 1) .. f : h[n + k] = t[k]
      BY <1>2, <3>1
    <3>3. /\ {h[x].id : x \in (n + (j + 1)) .. (n + f)} = {t[k].id : k \in (j + 1) .. f}
          /\ (\A x \in (n + (j + 1)) .. (n + f) : h[x].role = "tool")
                <=> \A k \in (j + 1) .. f : t[k].role = "tool"
      <4> DEFINE d == j + 1
      <4>1. n \in Nat /\ d \in Nat /\ f \in Nat /\ IsShift(h, t, n, d, f)
        BY <2>3, <3>1, <3>2 DEF IsShift
      <4> HIDE DEF d
      <4> DEFINE K == d .. f
                 X == (n + d) .. (n + f)
      <4>2. SameValues(h, X, t, K)
        BY <4>1, Shifted
      <4> HIDE DEF K, X
      <4>3. {h[x].id : x \in X} = {t[k].id : k \in K}
        BY <4>2 DEF SameValues
      <4>4. (\A x \in X : h[x].role = "tool") <=> \A k \in K : t[k].role = "tool"
        BY <4>2 DEF SameValues
      <4> QED
        BY <4>3, <4>4 DEF K, X, d
    <3>4. {t[k].id : k \in (j + 1) .. f} = {h[x].id : x \in (i + 1) .. e}
      BY <3>1, <3>3
    <3>5. \A k \in (j + 1) .. f : t[k].role = "tool"
      BY <2>2, <3>1, <3>3 DEF Served
    <3>6. f - j = e - i
      BY <2>3
    <3> QED
      BY <2>1, <2>2, <2>3, <3>4, <3>5, <3>6 DEF Served
  <2>5. CASE e = Len(h)
    <3>1. f = Len(t)
      BY <2>3, <2>5
    <3> QED
      BY <2>3, <2>4, <3>1
  <2>6. CASE e < Len(h) /\ h[e + 1].role # "tool"
    <3>1. f < Len(t) /\ f + 1 \in 1 .. Len(t) /\ n + (f + 1) = e + 1
      BY <2>3, <2>6
    <3>2. t[f + 1] = h[e + 1]
      BY <1>2, <3>1
    <3> QED
      BY <2>3, <2>4, <2>6, <3>1, <3>2
  <2> QED
    BY <2>2, <2>5, <2>6
<1>4. t = <<>> => <<>> = <<>>
  OBVIOUS
<1> QED
  BY <1>3 DEF Owes

\* Calls without unanswered ones before, and what a history waits for.
FeedsSome(h) == \E w : Feeds(h, w)

LEMMA CompactionParts ==
    ASSUME NEW h \in Seq(Msg), NEW c, NEW a, NEW t, NEW s, IsCompaction(h, c, a, t, s)
    PROVE  /\ c \in Seq(Msg) /\ Len(a) \in Nat /\ Len(t) \in Nat /\ Len(h) \in Nat
           /\ s - 1 \in Nat /\ Len(h) = (s - 1) + Len(t)
           /\ DOMAIN c = 1 .. (Len(a) + Len(t)) /\ Len(c) = Len(a) + Len(t)
           /\ \A k \in 1 .. Len(a) : c[k] = a[k] /\ a[k].role # "tool" /\ a[k].calls = <<>>
           /\ \A k \in 1 .. Len(t) : c[Len(a) + k] = t[k]
           /\ \A k \in 1 .. Len(t) : (s - 1) + k \in 1 .. Len(h) /\ t[k] = h[(s - 1) + k]
           /\ \A i \in 1 .. (Len(a) + Len(t)) : i \notin 1 .. Len(a) => i - Len(a) \in 1 .. Len(t)
<1>1. /\ c = a \o t /\ a \in Seq(Msg) /\ t \in Seq(Msg) /\ EndsAt(h, s, t)
      /\ \A m \in ToSet(a) : m = Summary \/ (m \in ToSet(h) /\ m.role = "system")
  BY DEF IsCompaction
<1>2. /\ a \o t \in Seq(Msg) /\ Len(a \o t) = Len(a) + Len(t)
      /\ DOMAIN (a \o t) = 1 .. (Len(a) + Len(t))
      /\ \A i \in 1 .. Len(a) : (a \o t)[i] = a[i]
      /\ \A i \in 1 .. Len(t) : (a \o t)[Len(a) + i] = t[i]
  BY <1>1, ConcatFacts
<1>3. /\ Len(a) \in Nat /\ Len(t) \in Nat /\ Len(h) \in Nat
      /\ DOMAIN a = 1 .. Len(a) /\ \A k \in 1 .. Len(a) : a[k] \in Msg
  BY <1>1, SeqFacts
<1>4. /\ s - 1 \in Nat /\ Len(h) = (s - 1) + Len(t)
      /\ \A k \in 1 .. Len(t) : (s - 1) + k \in 1 .. Len(h) /\ t[k] = h[(s - 1) + k]
  BY <1>1, <1>3 DEF EndsAt
<1>5. \A k \in 1 .. Len(a) : a[k].role # "tool" /\ a[k].calls = <<>>
  <2> TAKE k \in 1 .. Len(a)
  <2>1. a[k] \in Msg /\ a[k] \in ToSet(a)
    BY <1>3 DEF ToSet
  <2>2. a[k] = Summary \/ a[k].role = "system"
    BY <1>1, <2>1
  <2>3. Summary.role = "assistant" /\ Summary.calls = <<>>
    BY DEF Summary, Assistant, Message
  <2> QED
    BY <2>1, <2>2, <2>3, MsgFacts
<1>6. \A i \in 1 .. (Len(a) + Len(t)) : i \notin 1 .. Len(a) => i - Len(a) \in 1 .. Len(t)
  BY <1>3
<1> QED
  BY <1>1, <1>2, <1>3, <1>4, <1>5, <1>6

LEMMA CompactionOwes ==
    ASSUME NEW h \in Seq(Msg), Owes(h, <<>>),
           NEW c, NEW a, NEW t, NEW s, IsCompaction(h, c, a, t, s)
    PROVE  Owes(c, <<>>)
<1>1. /\ c = a \o t /\ a \in Seq(Msg) /\ t \in Seq(Msg) /\ EndsAt(h, s, t)
      /\ (t # <<>> => t[1].role # "tool")
  BY DEF IsCompaction
<1>2. \A k \in 1 .. Len(a) : a[k].role # "tool" /\ a[k].calls = <<>>
  BY CompactionParts
<1>3. Owes(t, <<>>)
  BY <1>1, OwesSuffix
<1>4. Owes(a \o t, <<>>)
  BY <1>1, <1>2, <1>3, OwesAfterPlain
<1> QED
  BY <1>1, <1>4

LEMMA CompactionFeeds ==
    ASSUME NEW h \in Seq(Msg), NEW w, Feeds(h, w),
           NEW c, NEW a, NEW t, NEW s, IsCompaction(h, c, a, t, s)
    PROVE  FeedsSome(c)
<1> DEFINE n == Len(a)
           d == s - 1
           v == [i \in 0 .. (n + Len(t)) |-> IF i <= n THEN {} ELSE w[d + (i - n)]]
<1>1. /\ c \in Seq(Msg) /\ n \in Nat /\ Len(t) \in Nat /\ Len(h) \in Nat /\ d \in Nat
      /\ Len(h) = d + Len(t) /\ Len(c) = n + Len(t)
      /\ \A k \in 1 .. n : c[k] = a[k] /\ a[k].role # "tool" /\ a[k].calls = <<>>
      /\ \A k \in 1 .. Len(t) : c[n + k] = t[k]
      /\ \A k \in 1 .. Len(t) : d + k \in 1 .. Len(h) /\ t[k] = h[d + k]
  BY CompactionParts
<1>2. Len(t) # 0 => t[1].role # "tool"
  <2>1. t \in Seq(Msg) /\ (t # <<>> => t[1].role = "user")
    BY DEF IsCompaction
  <2> QED
    BY <2>1, SeqFacts
<1>3. \A i \in 0 .. (n + Len(t)) : v[i] = IF i <= n THEN {} ELSE w[d + (i - n)]
  OBVIOUS
<1> HIDE DEF v, n, d
<1>4. v[0] = {}
  BY <1>1, <1>3
<1>5. ASSUME NEW i \in 1 .. Len(c)
      PROVE  IF c[i].role = "tool" THEN c[i].id \in v[i - 1] /\ v[i] = v[i - 1] \ {c[i].id}
                                   ELSE v[i] = Ids(c[i])
  <2>1. CASE i <= n
    <3>1. i \in 1 .. n /\ i \in 0 .. (n + Len(t))
      BY <1>1, <2>1
    <3>2. c[i].role # "tool" /\ c[i].calls = <<>>
      BY <1>1, <3>1
    <3>3. Ids(c[i]) = {}
      BY <3>2 DEF Ids
    <3>4. v[i] = {}
      BY <1>3, <2>1, <3>1
    <3> QED
      BY <3>2, <3>3, <3>4
  <2>2. CASE ~(i <= n)
    <3> DEFINE k == i - n
               x == d + k
    <3>1. k \in 1 .. Len(t) /\ i = n + k /\ i \in 0 .. (n + Len(t)) /\ i - 1 \in 0 .. (n + Len(t))
      BY <1>1, <2>2
    <3>2. v[i] = w[x]
      BY <1>3, <2>2, <3>1
    <3>3. v[i - 1] = IF k = 1 THEN {} ELSE w[x - 1]
      <4>1. v[i - 1] = IF i - 1 <= n THEN {} ELSE w[d + ((i - 1) - n)]
        BY <1>3, <3>1
      <4>2. k = 1 => i - 1 <= n
        BY <1>1, <3>1
      <4>3. k # 1 => ~(i - 1 <= n) /\ d + ((i - 1) - n) = x - 1
        BY <1>1, <3>1
      <4> HIDE DEF k, x
      <4> QED
        BY <4>1, <4>2, <4>3
    <3>4. c[i] = t[k]
      BY <1>1, <3>1
    <3> HIDE DEF k
    <3>5. x \in 1 .. Len(h) /\ t[k] = h[x]
      BY <1>1, <3>1
    <3> HIDE DEF x
    <3>6. IF h[x].role = "tool" THEN h[x].id \in w[x - 1] /\ w[x] = w[x - 1] \ {h[x].id}
                                ELSE w[x] = Ids(h[x])
      BY <3>5 DEF Feeds
    <3>7. c[i] = h[x]
      BY <3>4, <3>5
    <3>8. CASE h[x].role # "tool"
      BY <3>2, <3>6, <3>7, <3>8
    <3>9. CASE h[x].role = "tool"
      <4>1. k # 1
        <5> SUFFICES ASSUME k = 1 PROVE FALSE
          OBVIOUS
        <5>1. Len(t) # 0
          BY <1>1, <3>1
        <5> QED
          BY <1>2, <3>5, <3>9, <5>1
      <4> QED
        BY <3>2, <3>3, <3>6, <3>7, <3>9, <4>1
    <3> QED
      BY <3>8, <3>9
  <2> QED
    BY <2>1, <2>2
<1>6. Feeds(c, v)
  BY <1>4, <1>5 DEF Feeds
<1> QED
  BY <1>6 DEF FeedsSome

LEMMA CompactionUnique ==
    ASSUME NEW h \in Seq(Msg), UniqueIds(h),
           NEW c, NEW a, NEW t, NEW s, IsCompaction(h, c, a, t, s)
    PROVE  UniqueIds(c)
<1> DEFINE n == Len(a)
           d == s - 1
<1>1. /\ c \in Seq(Msg) /\ n \in Nat /\ Len(t) \in Nat /\ Len(h) \in Nat /\ d \in Nat
      /\ DOMAIN c = 1 .. (n + Len(t)) /\ DOMAIN h = 1 .. Len(h)
      /\ \A k \in 1 .. n : c[k] = a[k] /\ a[k].role # "tool" /\ a[k].calls = <<>>
      /\ \A k \in 1 .. Len(t) : c[n + k] = t[k]
      /\ \A k \in 1 .. Len(t) : d + k \in 1 .. Len(h) /\ t[k] = h[d + k]
      /\ \A i \in 1 .. (n + Len(t)) : i \notin 1 .. n => i - n \in 1 .. Len(t)
  BY CompactionParts, SeqFacts
<1> HIDE DEF n, d
<1>2. ASSUME NEW i \in DOMAIN c, NEW k \in DOMAIN c[i].calls
      PROVE  d + (i - n) \in DOMAIN h /\ c[i] = h[d + (i - n)]
  <2>1. i \notin 1 .. n
    <3> SUFFICES ASSUME i \in 1 .. n PROVE FALSE
      OBVIOUS
    <3>1. c[i].calls = <<>>
      BY <1>1
    <3> QED
      BY <3>1
  <2> DEFINE x == i - n
  <2>2. x \in 1 .. Len(t) /\ i = n + x
    BY <1>1, <2>1
  <2> HIDE DEF x
  <2>3. c[i] = t[x] /\ d + x \in DOMAIN h /\ t[x] = h[d + x]
    BY <1>1, <2>2
  <2> QED
    BY <2>3 DEF x
<1>3. ASSUME NEW i \in DOMAIN c, NEW j \in DOMAIN c,
             NEW k \in DOMAIN c[i].calls, NEW l \in DOMAIN c[j].calls,
             c[i].calls[k].id = c[j].calls[l].id
      PROVE  i = j /\ k = l
  <2> DEFINE x == d + (i - n)
             y == d + (j - n)
  <2>1. x \in DOMAIN h /\ c[i] = h[x] /\ y \in DOMAIN h /\ c[j] = h[y]
    BY <1>2
  <2> HIDE DEF x, y
  <2>2. x = y /\ k = l
    BY <1>3, <2>1 DEF UniqueIds
  <2>3. i = j
    BY <1>1, <2>2 DEF x, y
  <2> QED
    BY <2>2, <2>3
<1> QED
  BY <1>3 DEF UniqueIds

LEMMA CompactionContents ==
    ASSUME NEW h \in Seq(Msg), NEW c, NEW a, NEW t, NEW s, IsCompaction(h, c, a, t, s)
    PROVE  /\ ToSet(c) \subseteq ToSet(h) \cup {Summary}
           /\ OfRoles(c, {"system"}) = OfRoles(h, {"system"})
<1>1. /\ c = a \o t /\ a \in Seq(Msg) /\ t \in Seq(Msg) /\ EndsAt(h, s, t)
      /\ \A m \in ToSet(a) : m = Summary \/ (m \in ToSet(h) /\ m.role = "system")
      /\ OfRoles(a, {"system"}) = OfRoles(Prefix(h, s - 1), {"system"})
  BY DEF IsCompaction
<1>2. /\ \A k \in 1 .. Len(t) : (s - 1) + k \in 1 .. Len(h) /\ t[k] = h[(s - 1) + k]
      /\ s - 1 \in Nat /\ Len(h) = (s - 1) + Len(t) /\ Len(h) \in Nat /\ Len(t) \in Nat
  BY CompactionParts
<1>3. ToSet(t) \subseteq ToSet(h)
  <2>1. DOMAIN t = 1 .. Len(t) /\ DOMAIN h = 1 .. Len(h)
    BY <1>1, SeqFacts
  <2> QED
    BY <1>2, <2>1 DEF ToSet
<1>4. ToSet(a \o t) = ToSet(a) \cup ToSet(t)
  BY <1>1, ConcatContents
<1>5. ToSet(c) \subseteq ToSet(h) \cup {Summary}
  BY <1>1, <1>3, <1>4
<1> DEFINE p == Prefix(h, s - 1)
<1>6. h = p \o t /\ p \in Seq(Msg)
  <2>1. p \in Seq(Msg) /\ Len(p) = s - 1 /\ \A k \in 1 .. (s - 1) : p[k] = h[k]
    <3>1. s - 1 \in 0 .. Len(h)
      BY <1>2
    <3> QED
      BY <3>1, PrefixFacts
  <2> HIDE DEF p
  <2> DEFINE q == p \o t
             n == s - 1
  <2>2. /\ q \in Seq(Msg) /\ Len(q) = n + Len(t)
        /\ \A i \in 1 .. n : q[i] = p[i]
        /\ \A i \in 1 .. Len(t) : q[n + i] = t[i]
        /\ \A i \in 1 .. (n + Len(t)) : i \notin 1 .. n => i - n \in 1 .. Len(t)
    <3>1. /\ q \in Seq(Msg) /\ Len(q) = Len(p) + Len(t)
          /\ \A i \in 1 .. Len(p) : q[i] = p[i]
          /\ \A i \in 1 .. Len(t) : q[Len(p) + i] = t[i]
      <4>1. p \in Seq(Msg) /\ t \in Seq(Msg)
        BY <1>1, <2>1
      <4> QED
        BY <4>1, ConcatFacts
    <3> HIDE DEF q
    <3>2. \A i \in 1 .. (n + Len(t)) : i \notin 1 .. n => i - n \in 1 .. Len(t)
      BY <1>2
    <3> QED
      BY <2>1, <3>1, <3>2
  <2> HIDE DEF q
  <2>3. ASSUME NEW i \in 1 .. Len(q) PROVE q[i] = h[i]
    <3>1. CASE i \in 1 .. n
      BY <2>1, <2>2, <3>1
    <3>2. CASE i \notin 1 .. n
      <4> DEFINE x == i - n
      <4>1. x \in 1 .. Len(t) /\ i = n + x
        BY <1>2, <2>2, <3>2
      <4> HIDE DEF x
      <4>2. q[n + x] = t[x] /\ t[x] = h[n + x]
        BY <1>2, <2>2, <4>1
      <4> QED
        BY <4>1, <4>2
    <3> QED
      BY <3>1, <3>2
  <2>4. q = h
    BY <1>2, <2>2, <2>3, SeqEqual
  <2> QED
    BY <2>1, <2>4 DEF q
<1> HIDE DEF p
<1>7. OfRoles(p \o t, {"system"}) = OfRoles(p, {"system"}) \o OfRoles(t, {"system"})
  BY <1>1, <1>6, RolesOfConcat
<1>8. OfRoles(a \o t, {"system"}) = OfRoles(a, {"system"}) \o OfRoles(t, {"system"})
  BY <1>1, RolesOfConcat
<1>9. OfRoles(c, {"system"}) = OfRoles(h, {"system"})
  BY <1>1, <1>6, <1>7, <1>8 DEF p
<1> QED
  BY <1>5, <1>9

LEMMA EndIsSuffix ==
    ASSUME NEW h \in Seq(Msg), NEW t \in Seq(Msg), NEW s, EndsAt(h, s, t)
    PROVE  IsSuffix(t, h)
<1> DEFINE x == Reverse(t)
           y == Reverse(h)
           n == Len(t)
           d == s - 1
<1>1. /\ n \in Nat /\ Len(h) \in Nat /\ d \in Nat /\ Len(h) = d + n
      /\ \A k \in 1 .. n : d + k \in 1 .. Len(h) /\ t[k] = h[d + k]
  BY SeqFacts DEF EndsAt
<1>2. /\ x \in Seq(Msg) /\ Len(x) = n /\ \A i \in 1 .. n : x[i] = t[n - i + 1]
  <2>1. /\ DOMAIN x = 1 .. n /\ \A i \in 1 .. n : x[i] = t[n - i + 1]
    BY DEF Reverse
  <2>2. \A i \in 1 .. n : n - i + 1 \in 1 .. n
    BY <1>1
  <2>3. \A i \in 1 .. n : t[i] \in Msg
    BY SeqFacts
  <2>4. x = [i \in 1 .. n |-> x[i]]
    BY DEF Reverse
  <2> HIDE DEF x, n
  <2>5. \A i \in 1 .. n : x[i] \in Msg
    BY <2>1, <2>2, <2>3
  <2>6. x \in [1 .. n -> Msg]
    BY <2>4, <2>5
  <2>7. n \in Nat
    BY <1>1
  <2>8. x \in Seq(Msg)
    BY <2>6, <2>7
  <2>9. Len(x) = n
    BY <2>1, <2>7, <2>8
  <2> QED
    BY <2>1, <2>8, <2>9
<1>3. /\ y \in Seq(Msg) /\ Len(y) = Len(h) /\ \A i \in 1 .. Len(h) : y[i] = h[Len(h) - i + 1]
  <2>1. /\ DOMAIN y = 1 .. Len(h) /\ \A i \in 1 .. Len(h) : y[i] = h[Len(h) - i + 1]
    BY DEF Reverse
  <2>2. \A i \in 1 .. Len(h) : Len(h) - i + 1 \in 1 .. Len(h)
    BY <1>1
  <2>3. \A i \in 1 .. Len(h) : h[i] \in Msg
    BY SeqFacts
  <2>4. y = [i \in 1 .. Len(h) |-> y[i]]
    BY DEF Reverse
  <2> HIDE DEF y
  <2>5. \A i \in 1 .. Len(h) : y[i] \in Msg
    BY <2>1, <2>2, <2>3
  <2>6. y \in [1 .. Len(h) -> Msg]
    BY <2>4, <2>5
  <2>7. Len(h) \in Nat
    BY <1>1
  <2>8. y \in Seq(Msg)
    BY <2>6, <2>7
  <2>9. Len(y) = Len(h)
    BY <2>1, <2>7, <2>8
  <2> QED
    BY <2>1, <2>8, <2>9
<1> HIDE DEF x, y, n, d
<1>4. \A i \in 1 .. n : x[i] = y[i]
  <2> TAKE i \in 1 .. n
  <2> DEFINE k == n - i + 1
  <2>1. k \in 1 .. n /\ i \in 1 .. Len(h) /\ Len(h) - i + 1 = d + k
    BY <1>1
  <2> HIDE DEF k
  <2>2. x[i] = t[k]
    BY <1>2 DEF k
  <2>3. y[i] = h[d + k]
    BY <1>3, <2>1
  <2> QED
    BY <1>1, <2>1, <2>2, <2>3
<1>5. SubSeq(x, 1, n) = SubSeq(y, 1, n)
  <2> DEFINE p == SubSeq(x, 1, n)
             q == SubSeq(y, 1, n)
  <2>1. n \in 0 .. Len(x) /\ n \in 0 .. Len(y)
    BY <1>1, <1>2, <1>3
  <2>2. p \in Seq(Msg) /\ Len(p) = n /\ \A i \in 1 .. n : p[i] = x[i]
    BY <1>2, <2>1, PrefixFacts DEF Prefix
  <2>3. q \in Seq(Msg) /\ Len(q) = n /\ \A i \in 1 .. n : q[i] = y[i]
    BY <1>3, <2>1, PrefixFacts DEF Prefix
  <2> HIDE DEF p, q
  <2>4. \A i \in 1 .. n : p[i] = q[i]
    BY <1>4, <2>2, <2>3
  <2>5. p = q
    BY <2>2, <2>3, <2>4, SeqEqual
  <2> QED
    BY <2>5 DEF p, q
<1>6. Len(x) <= Len(y)
  BY <1>1, <1>2, <1>3
<1>7. IsPrefix(x, y)
  BY <1>2, <1>5, <1>6 DEF IsPrefix
<1> QED
  BY <1>7 DEF IsSuffix, x, y

\* Compaction never separates calls from their results, keeps every system
\* message, and keeps the end of the history raw, from a user message on.
THEOREM CompactionIsClean == TranscriptSpec => []SummaryClean
<1>1. TranscriptInv => SummaryClean
  <2> SUFFICES ASSUME TranscriptInv, op = "compact" PROVE SummaryClean
    BY DEF SummaryClean
  <2>1. in \in Seq(Msg) /\ Paired(in) /\ out \in Compactions(in, KeepLast) /\ KeepLast \in Nat
    BY TranscriptFacts, FunctionBounds DEF TranscriptInv
  <2>2. PICK a, t, s : IsCompaction(in, out, a, t, s)
    BY <2>1, CompactionIs
  <2>3. /\ out \in Seq(Msg) /\ Len(a) \in Nat /\ Len(t) \in Nat /\ Len(out) = Len(a) + Len(t)
        /\ DOMAIN out = 1 .. (Len(a) + Len(t))
        /\ \A k \in 1 .. Len(a) : out[k] = a[k]
        /\ \A k \in 1 .. Len(t) : out[Len(a) + k] = t[k]
    <3>1. \A h \in Seq(Msg) : IsCompaction(h, out, a, t, s) =>
              /\ out \in Seq(Msg) /\ Len(a) \in Nat /\ Len(t) \in Nat
              /\ Len(out) = Len(a) + Len(t) /\ DOMAIN out = 1 .. (Len(a) + Len(t))
              /\ \A k \in 1 .. Len(a) : out[k] = a[k]
              /\ \A k \in 1 .. Len(t) : out[Len(a) + k] = t[k]
      <4> TAKE h \in Seq(Msg)
      <4> HAVE IsCompaction(h, out, a, t, s)
      <4> QED
        BY CompactionParts
    <3> QED
      BY <2>1, <2>2, <3>1, ZenonT(60)
  <2>4. /\ a \in Seq(Msg) /\ t \in Seq(Msg) /\ a # <<>> /\ a[Len(a)] = Summary
        /\ EndsAt(in, s, t) /\ (t # <<>> => t[1].role = "user")
    BY <2>2 DEF IsCompaction
  <2>5. Paired(out)
    <3>1. Owes(in, <<>>)
      BY <2>1, PairedOwes
    <3>2. Owes(out, <<>>)
      BY <2>1, <2>2, <3>1, CompactionOwes
    <3> QED
      BY <2>3, <3>2, PairedOwes
  <2>6. OfRoles(out, {"system"}) = OfRoles(in, {"system"})
    BY <2>1, <2>2, CompactionContents
  <2> DEFINE n == Len(a)
             e == SubSeq(out, n + 1, Len(out))
  <2>7. n \in DOMAIN out /\ out[n] = Summary
    <3>1. Len(a) # 0
      BY <2>4, SeqFacts
    <3> QED
      BY <2>3, <2>4, <3>1
  <2>8. e = t
    <3>1. n + 1 \in 1 .. (Len(out) + 1)
      BY <2>3
    <3>2. /\ e \in Seq(Msg) /\ Len(e) = Len(out) - (n + 1) + 1
          /\ \A k \in 1 .. (Len(out) - (n + 1) + 1) : e[k] = out[(n + 1) - 1 + k]
      BY <2>3, <3>1, SuffixFacts
    <3> HIDE DEF e
    <3>3. Len(out) - (n + 1) + 1 = Len(t) /\ (n + 1) - 1 = n
      BY <2>3
    <3>4. Len(e) = Len(t) /\ \A k \in 1 .. Len(t) : e[k] = out[n + k]
      BY <3>2, <3>3
    <3>5. \A k \in 1 .. Len(t) : e[k] = t[k]
      BY <2>3, <3>4
    <3> QED
      BY <2>4, <3>2, <3>4, <3>5, SeqEqual
  <2>9. IsSuffix(e, in)
    <3>1. IsSuffix(t, in)
      BY <2>1, <2>4, EndIsSuffix
    <3> HIDE DEF e
    <3> QED
      BY <2>8, <3>1
  <2>10. n < Len(out) => out[n + 1].role = "user"
    <3> HAVE n < Len(out)
    <3>1. 1 \in 1 .. Len(t) /\ Len(t) # 0
      BY <2>3
    <3>2. t # <<>>
      BY <2>4, <3>1, SeqFacts
    <3> QED
      BY <2>3, <2>4, <3>1, <3>2
  <2> HIDE DEF n, e
  <2>11. \E i \in DOMAIN out :
            /\ out[i] = Summary
            /\ IsSuffix(SubSeq(out, i + 1, Len(out)), in)
            /\ i < Len(out) => out[i + 1].role = "user"
    BY <2>7, <2>9, <2>10 DEF e
  <2> QED
    BY <2>5, <2>6, <2>11 DEF SummaryClean
<1> QED
  BY <1>1, TranscriptSteps, PTL
-----------------------------------------------------------------------------
(* Histories that differ in their texts only                               *)

Alike(o, q) ==
    /\ q \in Seq(Msg) /\ Len(q) = Len(o)
    /\ \A i \in 1 .. Len(o) :
          q[i].role = o[i].role /\ q[i].calls = o[i].calls /\ q[i].id = o[i].id

LEMMA AlikeOwes ==
    ASSUME NEW o \in Seq(Msg), NEW q, Alike(o, q), NEW open, Owes(o, open)
    PROVE  Owes(q, open)
<1>1. /\ Len(o) \in Nat /\ DOMAIN o = 1 .. Len(o) /\ DOMAIN q = 1 .. Len(o) /\ Len(q) = Len(o)
      /\ q \in Seq(Msg)
      /\ \A i \in 1 .. Len(o) :
            q[i].role = o[i].role /\ q[i].calls = o[i].calls /\ q[i].id = o[i].id
  BY SeqFacts DEF Alike
<1>2. o = <<>> <=> q = <<>>
  BY <1>1, SeqFacts
<1>3. ASSUME NEW i \in 1 .. Len(o), NEW e, NEW left, Served(o, i, e, left)
      PROVE  Served(q, i, e, left)
  <2>1. /\ e \in i .. Len(o) /\ \A k \in (i + 1) .. e : o[k].role = "tool"
        /\ e - i + Len(left) = Len(o[i].calls)
        /\ {o[k].id : k \in (i + 1) .. e} \cup ToSet(left) = Ids(o[i])
    BY <1>3 DEF Served
  <2>2. \A k \in (i + 1) .. e : k \in 1 .. Len(o)
    BY <1>1, <2>1
  <2>3. {o[k].id : k \in (i + 1) .. e} = {q[k].id : k \in (i + 1) .. e}
    BY <1>1, <2>2
  <2>4. Ids(q[i]) = Ids(o[i]) /\ Len(q[i].calls) = Len(o[i].calls)
    BY <1>1 DEF Ids
  <2>5. \A k \in (i + 1) .. e : q[k].role = "tool"
    BY <1>1, <2>1, <2>2
  <2> QED
    BY <1>1, <2>1, <2>3, <2>4, <2>5 DEF Served
<1>4. ASSUME NEW i \in DOMAIN q, q[i].role # "tool"
      PROVE  \E e \in i .. Len(q) :
                 \/ e = Len(q) /\ Served(q, i, e, open)
                 \/ e < Len(q) /\ q[e + 1].role # "tool" /\ Served(q, i, e, <<>>)
  <2>1. i \in 1 .. Len(o) /\ o[i].role # "tool"
    BY <1>1, <1>4, SMTT(60)
  <2>2. PICK e \in i .. Len(o) :
                 \/ e = Len(o) /\ Served(o, i, e, open)
                 \/ e < Len(o) /\ o[e + 1].role # "tool" /\ Served(o, i, e, <<>>)
    BY <1>1, <2>1, ZenonT(60) DEF Owes
  <2>3. CASE e = Len(o) /\ Served(o, i, e, open)
    BY <1>1, <1>3, <2>1, <2>3
  <2>4. CASE e < Len(o) /\ o[e + 1].role # "tool" /\ Served(o, i, e, <<>>)
    <3>1. e + 1 \in 1 .. Len(o)
      BY <1>1, <2>1, <2>4
    <3> QED
      BY <1>1, <1>3, <2>1, <2>4, <3>1
  <2> QED
    BY <2>2, <2>3, <2>4
<1>5. q = <<>> => open = <<>>
  BY <1>2, SMTT(60) DEF Owes
<1>6. q # <<>> => q[1].role # "tool"
  <2> HAVE q # <<>>
  <2>1. o # <<>> /\ 1 \in 1 .. Len(o)
    BY <1>1, <1>2, SeqFacts
  <2> QED
    BY <1>1, <2>1 DEF Owes
<1> QED
  BY <1>4, <1>5, <1>6 DEF Owes

LEMMA AlikeContents ==
    ASSUME NEW o \in Seq(Msg), NEW q, Alike(o, q)
    PROVE  /\ CallsOf(q) = CallsOf(o) /\ CallIds(q) = CallIds(o) /\ AnsweredIds(q) = AnsweredIds(o)
           /\ UniqueIds(o) => UniqueIds(q)
           /\ Alternates(o) => Alternates(q)
<1>1. /\ Len(o) \in Nat /\ DOMAIN o = 1 .. Len(o) /\ DOMAIN q = 1 .. Len(o) /\ Len(q) = Len(o)
      /\ \A i \in 1 .. Len(o) :
            q[i].role = o[i].role /\ q[i].calls = o[i].calls /\ q[i].id = o[i].id
  BY SeqFacts DEF Alike
<1>2. CallsOf(q) = CallsOf(o)
  BY <1>1 DEF CallsOf
<1>3. CallIds(q) = CallIds(o)
  BY <1>1 DEF CallIds
<1>4. AnsweredIds(q) = AnsweredIds(o)
  BY <1>1 DEF AnsweredIds
<1>5. UniqueIds(o) => UniqueIds(q)
  BY <1>1 DEF UniqueIds
<1>6. Alternates(o) => Alternates(q)
  <2>1. \A i \in 1 .. (Len(o) - 1) : i \in 1 .. Len(o) /\ i + 1 \in 1 .. Len(o)
    BY <1>1
  <2> QED
    BY <1>1, <2>1 DEF Alternates
<1> QED
  BY <1>2, <1>3, <1>4, <1>5, <1>6
-----------------------------------------------------------------------------
(* What a history waits for                                                *)

\* Every tool message of o answers a call still open there, and the calls with
\* the ids in ids are open at its end.
Awaits(o, ids) == \E w : Feeds(o, w) /\ w[Len(o)] = ids

LEMMA AwaitsNone == Awaits(<<>>, {})
<1> DEFINE w == [i \in {0} |-> {}]
<1>1. w[0] = {} /\ Len(<<>>) = 0
  OBVIOUS
<1> HIDE DEF w
<1>2. Feeds(<<>>, w)
  BY <1>1 DEF Feeds
<1> QED
  BY <1>1, <1>2 DEF Awaits

LEMMA FeedsAwaits ==
    ASSUME NEW o
    PROVE  FeedsSome(o) <=> \E ids : Awaits(o, ids)
BY DEF FeedsSome, Awaits

LEMMA AwaitsAlike ==
    ASSUME NEW o \in Seq(Msg), NEW q, Alike(o, q), NEW ids, Awaits(o, ids)
    PROVE  Awaits(q, ids)
<1>1. /\ Len(q) = Len(o)
      /\ \A i \in 1 .. Len(o) :
            q[i].role = o[i].role /\ q[i].calls = o[i].calls /\ q[i].id = o[i].id
  BY DEF Alike
<1>2. PICK w : Feeds(o, w) /\ w[Len(o)] = ids
  BY DEF Awaits
<1>3. \A i \in 1 .. Len(o) : Ids(q[i]) = Ids(o[i])
  BY <1>1 DEF Ids
<1>4. Feeds(q, w)
  BY <1>1, <1>2, <1>3 DEF Feeds
<1> QED
  BY <1>1, <1>2, <1>4 DEF Awaits

LEMMA AwaitsAppend ==
    ASSUME NEW o \in Seq(Msg), NEW m \in Msg, NEW ids, Awaits(o, ids),
           m.role = "tool" => m.id \in ids
    PROVE  Awaits(Append(o, m), IF m.role = "tool" THEN ids \ {m.id} ELSE Ids(m))
<1> DEFINE t == Append(o, m)
           n == Len(o)
           after == IF m.role = "tool" THEN ids \ {m.id} ELSE Ids(m)
<1>1. /\ n \in Nat /\ Len(t) = n + 1 /\ t[n + 1] = m /\ \A i \in 1 .. n : t[i] = o[i]
  BY SeqFacts, AppendFacts
<1>2. PICK w : Feeds(o, w) /\ w[n] = ids
  BY DEF Awaits
<1> DEFINE v == [i \in 0 .. (n + 1) |-> IF i = n + 1 THEN after ELSE w[i]]
<1>3. v[n + 1] = after /\ \A i \in 0 .. n : v[i] = w[i]
  BY <1>1
<1> HIDE DEF t, n, v, after
<1>4. v[0] = {}
  BY <1>1, <1>2, <1>3 DEF Feeds
<1>5. ASSUME NEW i \in 1 .. (n + 1)
      PROVE  IF t[i].role = "tool" THEN t[i].id \in v[i - 1] /\ v[i] = v[i - 1] \ {t[i].id}
                                   ELSE v[i] = Ids(t[i])
  <2>1. CASE i = n + 1
    <3>1. t[i] = m /\ v[i] = after /\ v[i - 1] = ids
      BY <1>1, <1>2, <1>3, <2>1
    <3> QED
      BY <3>1 DEF after
  <2>2. CASE i # n + 1
    <3>1. i \in 1 .. n /\ i \in 0 .. n /\ i - 1 \in 0 .. n
      BY <1>1, <2>2
    <3>2. t[i] = o[i] /\ v[i] = w[i] /\ v[i - 1] = w[i - 1]
      BY <1>1, <1>3, <3>1
    <3>3. IF o[i].role = "tool" THEN o[i].id \in w[i - 1] /\ w[i] = w[i - 1] \ {o[i].id}
                                ELSE w[i] = Ids(o[i])
      BY <1>2, <3>1 DEF Feeds, n
    <3> QED
      BY <3>2, <3>3
  <2> QED
    BY <2>1, <2>2
<1>6. Feeds(t, v) /\ v[Len(t)] = after
  BY <1>1, <1>3, <1>4, <1>5 DEF Feeds
<1> QED
  BY <1>6 DEF Awaits, t, after

\* The other way round.
LEMMA AwaitsBefore ==
    ASSUME NEW o \in Seq(Msg), NEW m \in Msg, NEW after, Awaits(Append(o, m), after)
    PROVE  \E ids : /\ Awaits(o, ids) /\ (m.role = "tool" => m.id \in ids)
                    /\ after = IF m.role = "tool" THEN ids \ {m.id} ELSE Ids(m)
<1> DEFINE t == Append(o, m)
           n == Len(o)
<1>1. /\ n \in Nat /\ Len(t) = n + 1 /\ t[n + 1] = m /\ \A i \in 1 .. n : t[i] = o[i]
  BY SeqFacts, AppendFacts
<1>2. PICK w : Feeds(t, w) /\ w[Len(t)] = after
  BY DEF Awaits
<1> HIDE DEF t, n
<1>3. Feeds(o, w)
  <2>1. \A i \in 1 .. n : i \in 1 .. Len(t) /\ t[i] = o[i]
    BY <1>1
  <2>2. \A i \in 1 .. n :
           IF o[i].role = "tool" THEN o[i].id \in w[i - 1] /\ w[i] = w[i - 1] \ {o[i].id}
                                 ELSE w[i] = Ids(o[i])
    BY <1>2, <2>1 DEF Feeds
  <2> QED
    BY <1>2, <2>2 DEF Feeds, n
<1>4. IF m.role = "tool" THEN m.id \in w[n] /\ w[n + 1] = w[n] \ {m.id} ELSE w[n + 1] = Ids(m)
  <2>1. n + 1 \in 1 .. Len(t) /\ (n + 1) - 1 = n
    BY <1>1
  <2> QED
    BY <1>1, <1>2, <2>1 DEF Feeds
<1>5. Awaits(o, w[n])
  BY <1>3 DEF Awaits, n
<1> QED
  BY <1>1, <1>2, <1>4, <1>5
-----------------------------------------------------------------------------
(* Merging                                                                 *)

Tools(h) == {m \in ToSet(h) : m.role = "tool"}

\* The last message of o says x more in q.
Grown(o, x, q) ==
    /\ Alike(o, q) /\ q # <<>>
    /\ \A i \in 1 .. (Len(o) - 1) : q[i] = o[i]
    /\ Len(o) \in 1 .. Len(o) /\ q[Len(o)].text = o[Len(o)].text \cup x
    /\ Last(q).role = Last(o).role

LEMMA MergedLast ==
    ASSUME NEW o \in Seq(Msg), o # <<>>, NEW x \in SUBSET (Kinds \X Nat),
           NEW q, q = [o EXCEPT ![Len(o)].text = @ \cup x]
    PROVE  Grown(o, x, q)
<1> DEFINE n == Len(o)
<1>1. n \in Nat /\ n # 0 /\ DOMAIN o = 1 .. n /\ \A i \in 1 .. n : o[i] \in Msg
  BY SeqFacts
<1>2. n \in 1 .. n
  BY <1>1
<1>3. /\ DOMAIN q = 1 .. n /\ q[n] = [o[n] EXCEPT !.text = @ \cup x]
      /\ \A i \in 1 .. n : i # n => q[i] = o[i]
      /\ q = [i \in 1 .. n |-> q[i]]
  BY <1>1, <1>2
<1> HIDE DEF n
<1>4. /\ q[n] \in Msg /\ q[n].role = o[n].role /\ q[n].calls = o[n].calls /\ q[n].id = o[n].id
      /\ q[n].text = o[n].text \cup x
  <2>1. o[n] \in Msg
    BY <1>1, <1>2
  <2> DEFINE m == o[n]
             y == q[n]
  <2>2. y = [m EXCEPT !.text = @ \cup x] /\ m \in Msg
    BY <1>3, <2>1
  <2> HIDE DEF m, y
  <2>3. y \in Msg /\ y.role = m.role /\ y.calls = m.calls /\ y.id = m.id /\ y.text = m.text \cup x
    <3>1. /\ m \in [role : {"system", "user", "assistant", "tool"}, calls : Seq(AnyCall),
                     id : Nat, text : SUBSET (Kinds \X Nat)]
          /\ (m.id # NoCall <=> m.role = "tool") /\ (m.role # "assistant" => m.calls = <<>>)
      BY <2>2 DEF Msg
    <3>2. m.text \cup x \in SUBSET (Kinds \X Nat)
      BY <3>1
    <3>3. y.role = m.role /\ y.calls = m.calls /\ y.id = m.id /\ y.text = m.text \cup x
      BY <2>2, <3>1
    <3>4. y \in [role : {"system", "user", "assistant", "tool"}, calls : Seq(AnyCall),
                 id : Nat, text : SUBSET (Kinds \X Nat)]
      BY <2>2, <3>1, <3>2
    <3> QED
      BY <3>1, <3>3, <3>4 DEF Msg
  <2> QED
    BY <2>3 DEF m, y
<1>5. \A i \in 1 .. n : q[i] \in Msg
  BY <1>1, <1>3, <1>4
<1>6. q \in Seq(Msg) /\ Len(q) = n
  <2>1. q \in [1 .. n -> Msg]
    BY <1>3, <1>5
  <2>2. q \in Seq(Msg)
    BY <1>1, <2>1
  <2> QED
    BY <1>1, <1>3, <2>2
<1>7. \A i \in 1 .. n :
         q[i].role = o[i].role /\ q[i].calls = o[i].calls /\ q[i].id = o[i].id
  BY <1>3, <1>4
<1>8. Alike(o, q)
  BY <1>6, <1>7 DEF Alike, n
<1>9. q # <<>>
  BY <1>1, <1>6, SeqFacts
<1>10. \A i \in 1 .. (n - 1) : q[i] = o[i]
  BY <1>1, <1>3
<1>11. Last(q).role = Last(o).role
  BY <1>4, <1>6 DEF Last, n
<1> QED
  BY <1>2, <1>4, <1>8, <1>9, <1>10, <1>11 DEF n, Grown

\* The two things a merge does with a message.
LEMMA MergeCases ==
    ASSUME NEW a, NEW o \in Seq(Msg), NEW m \in Msg, NEW q, q = MergeOne(a, o, m)
    PROVE  \/ /\ q = Append(o, m)
              /\ ~(m.role = a /\ o # <<>> /\ Last(o).role = a)
           \/ m.role = a /\ o # <<>> /\ Last(o).role = a /\ Grown(o, m.text, q)
<1>1. CASE m.role = a /\ o # <<>> /\ Last(o).role = a
  <2>1. q = [o EXCEPT ![Len(o)].text = @ \cup m.text]
    BY <1>1 DEF MergeOne
  <2>2. m.text \in SUBSET (Kinds \X Nat)
    BY MsgFacts
  <2>3. Grown(o, m.text, q)
    BY <1>1, <2>1, <2>2, MergedLast
  <2> QED
    BY <1>1, <2>3
<1>2. CASE ~(m.role = a /\ o # <<>> /\ Last(o).role = a)
  BY <1>2 DEF MergeOne
<1> QED
  BY <1>1, <1>2

\* q is o and m.
Added(o, m, q) ==
    /\ q \in Seq(Msg) /\ q # <<>> /\ Last(q).role = m.role
    /\ CallsOf(q) = CallsOf(o) \cup ToSet(m.calls)
    /\ CallIds(q) = CallIds(o) \cup Ids(m)
    /\ Mentions(q) = Mentions(o) \cup m.text
    /\ AnsweredIds(q) = AnsweredIds(o) \cup IF m.role = "tool" THEN {m.id} ELSE {}
    /\ Tools(q) = Tools(o) \cup IF m.role = "tool" THEN {m} ELSE {}
    /\ UniqueIds(Append(o, m)) => UniqueIds(q)

LEMMA AppendAdds ==
    ASSUME NEW o \in Seq(Msg), NEW m \in Msg
    PROVE  Added(o, m, Append(o, m))
<1> DEFINE q == Append(o, m)
<1>1. /\ q \in Seq(Msg) /\ q # <<>> /\ Last(q) = m
  BY AppendFacts
<1>2. /\ CallsOf(q) = CallsOf(o) \cup ToSet(m.calls)
      /\ CallIds(q) = CallIds(o) \cup Ids(m)
      /\ Mentions(q) = Mentions(o) \cup m.text
      /\ AnsweredIds(q) = AnsweredIds(o) \cup IF m.role = "tool" THEN {m.id} ELSE {}
      /\ ToSet(q) = ToSet(o) \cup {m}
  BY AppendContents
<1>3. Tools(q) = Tools(o) \cup IF m.role = "tool" THEN {m} ELSE {}
  BY <1>2 DEF Tools
<1>4. UniqueIds(Append(o, m)) => UniqueIds(q)
  OBVIOUS
<1> HIDE DEF q
<1>5. Added(o, m, q)
  BY <1>1, <1>2, <1>3, <1>4 DEF Added
<1> QED
  BY <1>5 DEF q

\* Merging a message says what appending it says.  (What is merged makes no
\* calls: a user message never does.)
LEMMA MergeOneAdds ==
    ASSUME NEW a, a # "tool", NEW o \in Seq(Msg), NEW m \in Msg, m.role = a => m.calls = <<>>,
           NEW q, q = MergeOne(a, o, m)
    PROVE  Added(o, m, q)
<1>1. CASE q = Append(o, m)
  BY <1>1, AppendAdds
<1>2. CASE m.role = a /\ o # <<>> /\ Last(o).role = a /\ Grown(o, m.text, q)
  <2> DEFINE n == Len(o)
  <2>0. /\ Alike(o, q) /\ q # <<>>
        /\ \A i \in 1 .. (n - 1) : q[i] = o[i]
        /\ n \in 1 .. n /\ q[n].text = o[n].text \cup m.text
        /\ Last(q).role = Last(o).role
    BY <1>2 DEF Grown
  <2>1. ToSet(m.calls) = {} /\ Ids(m) = {}
    BY <1>2, EmptyContents DEF Ids
  <2>2. /\ CallsOf(q) = CallsOf(o) /\ CallIds(q) = CallIds(o) /\ AnsweredIds(q) = AnsweredIds(o)
        /\ UniqueIds(o) => UniqueIds(q)
    BY <2>0, AlikeContents
  <2>3. /\ n \in Nat /\ n \in 1 .. n /\ DOMAIN o = 1 .. n /\ DOMAIN q = 1 .. n /\ q \in Seq(Msg)
        /\ \A i \in 1 .. n : i = n \/ q[i] = o[i]
        /\ q[n].text = o[n].text \cup m.text
    <3>1. n \in Nat /\ DOMAIN o = 1 .. n /\ q \in Seq(Msg) /\ Len(q) = n
      BY <2>0, SeqFacts DEF Alike
    <3>2. DOMAIN q = 1 .. Len(q)
      BY <3>1, SeqFacts
    <3> HIDE DEF n
    <3>3. \A i \in 1 .. n : i = n \/ i \in 1 .. (n - 1)
      BY <3>1, SMTT(60)
    <3> QED
      BY <2>0, <3>1, <3>2, <3>3
  <2>4. o[n].role = a /\ q[n].role = a
    BY <1>2, <2>0, <2>3, ZenonT(60) DEF Last, Alike
  <2> HIDE DEF n
  <2>5. Mentions(q) = Mentions(o) \cup m.text
    <3>1. ASSUME NEW y \in Mentions(q) PROVE y \in Mentions(o) \cup m.text
      <4>1. PICK i \in 1 .. n : y \in q[i].text
        BY <2>3 DEF Mentions
      <4> QED
        BY <2>3, <4>1 DEF Mentions
    <3>2. ASSUME NEW y \in Mentions(o) PROVE y \in Mentions(q)
      <4>1. PICK i \in 1 .. n : y \in o[i].text
        BY <2>3 DEF Mentions
      <4>2. y \in q[i].text
        BY <2>3, <4>1
      <4> QED
        BY <2>3, <4>1, <4>2 DEF Mentions
    <3>3. m.text \subseteq Mentions(q)
      BY <2>3 DEF Mentions
    <3> QED
      BY <3>1, <3>2, <3>3
  <2>6. Tools(q) = Tools(o)
    <3>1. \A i \in 1 .. n : (q[i].role = "tool" \/ o[i].role = "tool") => q[i] = o[i]
      BY <2>3, <2>4
    <3>2. /\ Tools(q) = {y \in {q[i] : i \in 1 .. n} : y.role = "tool"}
          /\ Tools(o) = {y \in {o[i] : i \in 1 .. n} : y.role = "tool"}
      BY <2>3 DEF Tools, ToSet
    <3>3. \A y \in Tools(q) : y \in Tools(o)
      BY <3>1, <3>2
    <3>4. \A y \in Tools(o) : y \in Tools(q)
      BY <3>1, <3>2
    <3> QED
      BY <3>3, <3>4
  <2>7. UniqueIds(Append(o, m)) => UniqueIds(q)
    BY <2>2, AppendUnique
  <2> QED
    BY <1>2, <2>0, <2>1, <2>2, <2>3, <2>5, <2>6, <2>7 DEF Added
<1>3. \/ q = Append(o, m) /\ ~(m.role = a /\ o # <<>> /\ Last(o).role = a)
      \/ m.role = a /\ o # <<>> /\ Last(o).role = a /\ Grown(o, m.text, q)
  BY MergeCases
<1> QED
  BY <1>1, <1>2, <1>3

LEMMA MergeUserAwaits ==
    ASSUME NEW o \in Seq(Msg), NEW m \in Msg, NEW q, q = MergeOne("user", o, m),
           NEW ids, Awaits(o, ids), m.role = "tool" => m.id \in ids
    PROVE  Awaits(q, IF m.role = "tool" THEN ids \ {m.id} ELSE Ids(m))
<1>1. CASE q = Append(o, m)
  BY <1>1, AwaitsAppend
<1>2. CASE m.role = "user" /\ o # <<>> /\ Last(o).role = "user" /\ Alike(o, q)
  <2>1. Awaits(q, ids)
    BY <1>2, AwaitsAlike
  <2>2. Ids(m) = {}
    BY <1>2, MsgFacts
  <2>3. Len(o) \in 1 .. Len(o) /\ o[Len(o)] \in Msg /\ o[Len(o)].role = "user"
    BY <1>2, SeqFacts DEF Last
  <2>4. ids = Ids(o[Len(o)])
    <3>1. PICK w : Feeds(o, w) /\ w[Len(o)] = ids
      BY DEF Awaits
    <3> QED
      BY <2>3, <3>1 DEF Feeds
  <2>5. ids = {}
    BY <2>3, <2>4, MsgFacts
  <2> QED
    BY <1>2, <2>1, <2>2, <2>5
<1>3. q = Append(o, m) \/ (m.role = "user" /\ o # <<>> /\ Last(o).role = "user" /\ Alike(o, q))
  <2>1. \/ q = Append(o, m) /\ ~(m.role = "user" /\ o # <<>> /\ Last(o).role = "user")
        \/ m.role = "user" /\ o # <<>> /\ Last(o).role = "user" /\ Grown(o, m.text, q)
    BY MergeCases
  <2> QED
    BY <2>1 DEF Grown
<1> QED
  BY <1>1, <1>2, <1>3

LEMMA MergeUserAlternates ==
    ASSUME NEW o \in Seq(Msg), Alternates(o), NEW m \in Msg, NEW q, q = MergeOne("user", o, m)
    PROVE  Alternates(q)
<1>1. CASE q = Append(o, m) /\ ~(m.role = "user" /\ o # <<>> /\ Last(o).role = "user")
  BY <1>1, AlternatesAppend
<1>2. CASE Alike(o, q)
  BY <1>2, AlikeContents
<1>3. \/ q = Append(o, m) /\ ~(m.role = "user" /\ o # <<>> /\ Last(o).role = "user")
      \/ Alike(o, q)
  <2>1. \/ q = Append(o, m) /\ ~(m.role = "user" /\ o # <<>> /\ Last(o).role = "user")
        \/ m.role = "user" /\ o # <<>> /\ Last(o).role = "user" /\ Grown(o, m.text, q)
    <3>1. q = MergeOne("user", o, m) /\ o \in Seq(Msg) /\ m \in Msg
      OBVIOUS
    <3> QED
      BY <3>1, MergeCases
  <2> QED
    BY <2>1 DEF Grown
<1> QED
  BY <1>1, <1>2, <1>3

LEMMA SaidAppend ==
    ASSUME NEW o \in Seq(Msg), NEW m \in Msg
    PROVE  Said(Append(o, m)) = Said(o) \cup IF m.role = "user" THEN m.text ELSE {}
<1> DEFINE t == Append(o, m)
           n == Len(o)
<1>1. /\ n \in Nat /\ DOMAIN o = 1 .. n /\ DOMAIN t = 1 .. (n + 1)
      /\ t[n + 1] = m /\ \A k \in 1 .. n : t[k] = o[k]
  BY SeqFacts, AppendFacts
<1> HIDE DEF t, n
<1>2. \A k \in 1 .. (n + 1) : k \in 1 .. n \/ k = n + 1
  BY <1>1
<1>3. \A k \in 1 .. n : k \in 1 .. (n + 1)
  BY <1>1
<1>4. n + 1 \in 1 .. (n + 1)
  BY <1>1
<1>5. ASSUME NEW y \in Said(t)
      PROVE  y \in Said(o) \cup IF m.role = "user" THEN m.text ELSE {}
  <2>1. PICK k \in 1 .. (n + 1) : t[k].role = "user" /\ y \in t[k].text
    BY <1>1 DEF Said
  <2>2. CASE k \in 1 .. n
    BY <1>1, <2>1, <2>2 DEF Said
  <2>3. CASE k = n + 1
    BY <1>1, <2>1, <2>3
  <2> QED
    BY <1>2, <2>2, <2>3
<1>6. ASSUME NEW y \in Said(o) PROVE y \in Said(t)
  <2>1. PICK k \in 1 .. n : o[k].role = "user" /\ y \in o[k].text
    BY <1>1 DEF Said
  <2>2. k \in 1 .. (n + 1) /\ t[k] = o[k]
    BY <1>1, <1>3
  <2> QED
    BY <1>1, <2>1, <2>2 DEF Said
<1>7. ASSUME m.role = "user", NEW y \in m.text PROVE y \in Said(t)
  BY <1>1, <1>4, <1>7 DEF Said
<1>8. Said(t) = Said(o) \cup IF m.role = "user" THEN m.text ELSE {}
  BY <1>5, <1>6, <1>7
<1> QED
  BY <1>8 DEF t

LEMMA MergeUserSaid ==
    ASSUME NEW o \in Seq(Msg), NEW m \in Msg, NEW q, q = MergeOne("user", o, m)
    PROVE  Said(q) = Said(o) \cup IF m.role = "user" THEN m.text ELSE {}
<1>1. CASE q = Append(o, m)
  BY <1>1, SaidAppend
<1>2. CASE m.role = "user" /\ o # <<>> /\ Last(o).role = "user" /\ Grown(o, m.text, q)
  <2> DEFINE n == Len(o)
  <2>1. /\ n \in Nat /\ n \in 1 .. n /\ DOMAIN o = 1 .. n /\ DOMAIN q = 1 .. n
        /\ \A i \in 1 .. (n - 1) : q[i] = o[i]
        /\ q[n].text = o[n].text \cup m.text /\ o[n].role = "user" /\ q[n].role = "user"
    <3>1. /\ q \in Seq(Msg) /\ Len(q) = n /\ n \in 1 .. n
          /\ \A i \in 1 .. (n - 1) : q[i] = o[i]
          /\ q[n].text = o[n].text \cup m.text /\ Last(q).role = Last(o).role
      BY <1>2 DEF Grown, Alike
    <3>2. n \in Nat /\ DOMAIN o = 1 .. n /\ DOMAIN q = 1 .. Len(q)
      BY <3>1, SeqFacts
    <3>3. Last(o) = o[n] /\ Last(q) = q[n]
      BY <3>1 DEF Last
    <3> QED
      BY <1>2, <3>1, <3>2, <3>3
  <2> HIDE DEF n
  <2>2. \A i \in 1 .. n : i = n \/ i \in 1 .. (n - 1)
    BY <2>1
  <2>3. \A i \in 1 .. n : i = n \/ q[i] = o[i]
    BY <2>1, <2>2
  <2>4. ASSUME NEW y \in Said(q) PROVE y \in Said(o) \cup m.text
    <3>1. PICK k \in 1 .. n : q[k].role = "user" /\ y \in q[k].text
      BY <2>1 DEF Said
    <3>2. CASE k = n
      BY <2>1, <3>1, <3>2 DEF Said
    <3>3. CASE q[k] = o[k]
      BY <2>1, <3>1, <3>3 DEF Said
    <3> QED
      BY <2>3, <3>2, <3>3
  <2>5. ASSUME NEW y \in Said(o) PROVE y \in Said(q)
    <3>1. PICK k \in 1 .. n : o[k].role = "user" /\ y \in o[k].text
      BY <2>1 DEF Said
    <3>2. y \in q[k].text /\ q[k].role = "user"
      BY <2>1, <2>3, <3>1
    <3> QED
      BY <2>1, <3>1, <3>2 DEF Said
  <2>6. m.text \subseteq Said(q)
    BY <2>1 DEF Said
  <2> QED
    BY <1>2, <2>4, <2>5, <2>6
<1>3. q = Append(o, m)
      \/ (m.role = "user" /\ o # <<>> /\ Last(o).role = "user" /\ Grown(o, m.text, q))
  BY MergeCases
<1> QED
  BY <1>1, <1>2, <1>3

\* The messages that are no user messages.
Others(h) == {m \in ToSet(h) : m.role # "user"}

\* Merging leaves them as they are.
LEMMA MergeUserOthers ==
    ASSUME NEW o \in Seq(Msg), NEW m \in Msg, NEW q, q = MergeOne("user", o, m)
    PROVE  Others(q) \subseteq Others(o) \cup IF m.role = "user" THEN {} ELSE {m}
<1>1. CASE q = Append(o, m)
  <2>1. ToSet(q) = ToSet(o) \cup {m}
    BY <1>1, AppendContents
  <2> QED
    BY <2>1 DEF Others
<1>2. CASE m.role = "user" /\ o # <<>> /\ Last(o).role = "user" /\ Grown(o, m.text, q)
  <2>1. /\ q \in Seq(Msg) /\ Len(q) = Len(o) /\ Len(o) \in Nat /\ Last(q).role = Last(o).role
        /\ \A i \in 1 .. (Len(o) - 1) : q[i] = o[i]
    BY <1>2, SeqFacts DEF Grown, Alike
  <2>2. DOMAIN q = 1 .. Len(o) /\ DOMAIN o = 1 .. Len(o) /\ q[Len(o)].role = "user"
    BY <1>2, <2>1 DEF Last
  <2>3. ASSUME NEW i \in 1 .. Len(o), q[i].role # "user" PROVE q[i] \in Others(o)
    <3>1. i \in 1 .. (Len(o) - 1)
      BY <2>1, <2>2, <2>3
    <3>2. q[i] = o[i] /\ i \in DOMAIN o
      BY <2>1, <2>2, <3>1
    <3> QED
      BY <2>3, <3>2 DEF Others, ToSet
  <2> QED
    BY <2>2, <2>3 DEF Others, ToSet
<1>3. q = Append(o, m)
      \/ (m.role = "user" /\ o # <<>> /\ Last(o).role = "user" /\ Grown(o, m.text, q))
  BY MergeCases
<1> QED
  BY <1>1, <1>2, <1>3

\* The system prompt is there.
HasSystem(h) == \E m \in ToSet(h) : m.role = "system"

LEMMA AppendSystem ==
    ASSUME NEW o \in Seq(Msg), NEW m \in Msg
    PROVE  HasSystem(Append(o, m)) <=> HasSystem(o) \/ m.role = "system"
<1>1. ToSet(Append(o, m)) = ToSet(o) \cup {m}
  BY AppendContents
<1> QED
  BY <1>1 DEF HasSystem

LEMMA AlikeSystem ==
    ASSUME NEW o \in Seq(Msg), NEW q, Alike(o, q)
    PROVE  HasSystem(q) <=> HasSystem(o)
<1>1. /\ DOMAIN o = 1 .. Len(o) /\ DOMAIN q = 1 .. Len(o)
      /\ \A i \in 1 .. Len(o) : q[i].role = o[i].role
  BY SeqFacts DEF Alike
<1> QED
  BY <1>1 DEF HasSystem, ToSet

LEMMA MergeSystem ==
    ASSUME NEW a, a # "system", NEW o \in Seq(Msg), NEW m \in Msg, NEW q, q = MergeOne(a, o, m)
    PROVE  HasSystem(q) <=> HasSystem(o) \/ m.role = "system"
<1>1. q = Append(o, m) \/ (m.role = a /\ Grown(o, m.text, q))
  <2>1. \/ q = Append(o, m) /\ ~(m.role = a /\ o # <<>> /\ Last(o).role = a)
        \/ m.role = a /\ o # <<>> /\ Last(o).role = a /\ Grown(o, m.text, q)
    BY MergeCases
  <2> QED
    BY <2>1
<1>2. CASE q = Append(o, m)
  BY <1>2, AppendSystem
<1>3. CASE m.role = a /\ Grown(o, m.text, q)
  BY <1>3, AlikeSystem DEF Grown
<1> QED
  BY <1>1, <1>2, <1>3

\* o is f with consecutive user messages merged.
MergedFrom(o, f) ==
    /\ o \in Seq(Msg) /\ Alternates(o) /\ Others(o) \subseteq Others(f)
    /\ Said(o) = Said(f) /\ Mentions(o) = Mentions(f) /\ CallsOf(o) = CallsOf(f)
    /\ CallIds(o) = CallIds(f) /\ AnsweredIds(o) = AnsweredIds(f) /\ Tools(o) = Tools(f)
    /\ UniqueIds(f) => UniqueIds(o)
    /\ HasSystem(f) => HasSystem(o)
    /\ \A ids : Awaits(f, ids) => Awaits(o, ids)

LEMMA MergedFromStep ==
    ASSUME NEW f \in Seq(Msg), NEW o, MergedFrom(o, f), NEW m \in Msg,
           NEW q, q = MergeOne("user", o, m)
    PROVE  MergedFrom(q, Append(f, m))
<1> DEFINE g == Append(f, m)
<1>1. /\ o \in Seq(Msg) /\ Alternates(o)
      /\ Said(o) = Said(f) /\ Mentions(o) = Mentions(f) /\ CallsOf(o) = CallsOf(f)
      /\ CallIds(o) = CallIds(f) /\ AnsweredIds(o) = AnsweredIds(f) /\ Tools(o) = Tools(f)
      /\ (UniqueIds(f) => UniqueIds(o))
      /\ \A ids : Awaits(f, ids) => Awaits(o, ids)
      /\ Others(o) \subseteq Others(f) /\ (HasSystem(f) => HasSystem(o))
  BY DEF MergedFrom
<1>2. m.role = "user" => m.calls = <<>>
  BY MsgFacts
<1>3. /\ q \in Seq(Msg)
      /\ CallsOf(q) = CallsOf(o) \cup ToSet(m.calls)
      /\ CallIds(q) = CallIds(o) \cup Ids(m)
      /\ Mentions(q) = Mentions(o) \cup m.text
      /\ AnsweredIds(q) = AnsweredIds(o) \cup IF m.role = "tool" THEN {m.id} ELSE {}
      /\ Tools(q) = Tools(o) \cup IF m.role = "tool" THEN {m} ELSE {}
      /\ UniqueIds(Append(o, m)) => UniqueIds(q)
  <2>1. o \in Seq(Msg) /\ "user" # "tool" /\ (m.role = "user" => m.calls = <<>>)
    BY <1>1, <1>2
  <2>2. Added(o, m, q)
    BY <2>1, MergeOneAdds
  <2> QED
    BY <2>2 DEF Added
<1>4. /\ CallsOf(g) = CallsOf(f) \cup ToSet(m.calls)
      /\ CallIds(g) = CallIds(f) \cup Ids(m)
      /\ Mentions(g) = Mentions(f) \cup m.text
      /\ AnsweredIds(g) = AnsweredIds(f) \cup IF m.role = "tool" THEN {m.id} ELSE {}
      /\ ToSet(g) = ToSet(f) \cup {m}
  BY AppendContents
<1>5. Tools(g) = Tools(f) \cup IF m.role = "tool" THEN {m} ELSE {}
  BY <1>4 DEF Tools
<1>6. Alternates(q)
  BY <1>1, MergeUserAlternates
<1>7. Said(q) = Said(g)
  <2>1. Said(q) = Said(o) \cup IF m.role = "user" THEN m.text ELSE {}
    BY <1>1, MergeUserSaid
  <2>2. Said(g) = Said(f) \cup IF m.role = "user" THEN m.text ELSE {}
    BY SaidAppend
  <2> QED
    BY <1>1, <2>1, <2>2
<1>8. UniqueIds(g) => UniqueIds(q)
  <2> HAVE UniqueIds(g)
  <2>1. UniqueIds(f) /\ Ids(m) \cap CallIds(f) = {} /\ IsInjective(OpenIds(m))
    BY AppendUnique
  <2>2. UniqueIds(Append(o, m))
    BY <1>1, <2>1, AppendUnique
  <2> QED
    BY <1>3, <2>2
<1>9. \A ids : Awaits(g, ids) => Awaits(q, ids)
  <2> SUFFICES ASSUME NEW after, Awaits(g, after) PROVE Awaits(q, after)
    OBVIOUS
  <2>1. PICK ids : /\ Awaits(f, ids) /\ (m.role = "tool" => m.id \in ids)
                   /\ after = IF m.role = "tool" THEN ids \ {m.id} ELSE Ids(m)
    BY AwaitsBefore
  <2>2. Awaits(o, ids)
    BY <1>1, <2>1
  <2>3. Awaits(q, IF m.role = "tool" THEN ids \ {m.id} ELSE Ids(m))
    BY <1>1, <2>1, <2>2, MergeUserAwaits
  <2> QED
    BY <2>1, <2>3
<1>10. Others(q) \subseteq Others(g)
  <2>1. Others(q) \subseteq Others(o) \cup IF m.role = "user" THEN {} ELSE {m}
    BY <1>1, MergeUserOthers
  <2>2. Others(f) \subseteq Others(g) /\ (m.role # "user" => m \in Others(g))
    BY <1>4 DEF Others
  <2> QED
    BY <1>1, <2>1, <2>2
<1>11. HasSystem(g) => HasSystem(q)
  BY <1>1, AppendSystem, MergeSystem
<1> HIDE DEF g
<1>12. MergedFrom(q, g)
  BY <1>1, <1>3, <1>4, <1>5, <1>6, <1>7, <1>8, <1>9, <1>10, <1>11 DEF MergedFrom
<1> QED
  BY <1>12 DEF g

LEMMA MergeUsersMerged ==
    ASSUME NEW h \in Seq(Msg)
    PROVE  MergedFrom(MergeUsers(h), h)
<1>1. Len(h) \in Nat /\ DOMAIN h = 1 .. Len(h) /\ \A i \in 1 .. Len(h) : h[i] \in Msg
  BY SeqFacts
<1>2. PICK r : IsRun(r, "merge", "user", <<>>, h, Len(h)) /\ r[Len(h)] = MergeUsers(h)
  BY <1>1, MergeUsersRun
<1> DEFINE S == {i \in 0 .. Len(h) : MergedFrom(r[i], Prefix(h, i))}
<1>3. 0 \in S
  <2>1. r[0] = <<>> /\ Prefix(h, 0) = <<>> /\ 0 \in 0 .. Len(h) /\ <<>> \in Seq(Msg)
    BY <1>1, <1>2, PrefixFacts DEF IsRun
  <2>2. Alternates(<<>>)
    BY DEF Alternates
  <2>3. MergedFrom(<<>>, <<>>)
    BY <2>1, <2>2 DEF MergedFrom
  <2> QED
    BY <2>1, <2>3
<1>4. ASSUME NEW i \in 1 .. Len(h), i - 1 \in S PROVE i \in S
  <2> DEFINE o == r[i - 1]
             q == r[i]
             f == Prefix(h, i - 1)
             m == h[i]
  <2>1. f \in Seq(Msg) /\ m \in Msg /\ Prefix(h, i) = Append(f, m) /\ MergedFrom(o, f)
    <3>1. i - 1 \in 0 .. Len(h)
      BY <1>1
    <3> QED
      BY <1>1, <1>4, <3>1, PrefixFacts
  <2>2. q = MergeOne("user", o, m)
    BY <1>1, <1>2 DEF IsRun, Step
  <2> HIDE DEF o, q, f, m
  <2>3. MergedFrom(q, Append(f, m))
    BY <2>1, <2>2, MergedFromStep
  <2>4. MergedFrom(r[i], Prefix(h, i))
    BY <2>1, <2>3 DEF q
  <2>5. i \in 0 .. Len(h)
    BY <1>1
  <2> QED
    BY <2>4, <2>5
<1> HIDE DEF S
<1>5. \A i \in 0 .. Len(h) : i \in S
  BY <1>1, <1>3, <1>4, Induction
<1>6. Len(h) \in S /\ Prefix(h, Len(h)) = h
  BY <1>1, <1>5, PrefixFacts
<1> QED
  BY <1>2, <1>6 DEF S

LEMMA SaidByUsers ==
    ASSUME NEW h \in Seq(Msg), NEW q \in Seq(Msg), OfRoles(h, {"user"}) = OfRoles(q, {"user"})
    PROVE  Said(h) = Said(q)
<1>1. \A x \in Seq(Msg) : Said(x) = UNION {m.text : m \in ToSet(OfRoles(x, {"user"}))}
  <2> TAKE x \in Seq(Msg)
  <2>1. ToSet(OfRoles(x, {"user"})) = {m \in ToSet(x) : m.role \in {"user"}}
    BY RolesFacts
  <2>2. Said(x) = UNION {m.text : m \in {y \in ToSet(x) : y.role \in {"user"}}}
    BY DEF Said, ToSet
  <2> QED
    BY <2>1, <2>2
<1> QED
  BY <1>1

\* A transcript cut by a crash is resumed paired, without two user messages in
\* a row, and with nothing the user said missing; every call and every result
\* is still there.
LEMMA NormaliseKeeps ==
    ASSUME NEW h \in Seq(Msg), FeedsSome(h)
    PROVE  LET o == Normalise(h, FALSE)
           IN  /\ o \in Seq(Msg) /\ Paired(o) /\ Alternates(o) /\ Said(o) = Said(h)
               /\ CallsOf(o) = CallsOf(h) /\ CallIds(o) = CallIds(h)
               /\ Mentions(h) \subseteq Mentions(o) /\ Tools(h) \subseteq Tools(o)
               /\ UniqueIds(h) => UniqueIds(o)
<1> DEFINE g == MergeUsers(h)
           o == Repair(g)
<1>1. Normalise(h, FALSE) = o
  BY DEF Normalise
<1>2. /\ g \in Seq(Msg) /\ Alternates(g)
      /\ Said(g) = Said(h) /\ Mentions(g) = Mentions(h) /\ CallsOf(g) = CallsOf(h)
      /\ CallIds(g) = CallIds(h) /\ Tools(g) = Tools(h)
      /\ (UniqueIds(h) => UniqueIds(g))
      /\ \A ids : Awaits(h, ids) => Awaits(g, ids)
  BY MergeUsersMerged DEF MergedFrom
<1> HIDE DEF g
<1>3. PICK w : Feeds(g, w)
  <2>1. PICK ids : Awaits(h, ids)
    BY FeedsAwaits
  <2>2. Awaits(g, ids)
    BY <1>2, <2>1
  <2> QED
    BY <2>2 DEF Awaits
<1>4. o \in Seq(Msg) /\ Paired(o)
  BY <1>2, RepairPairs
<1>5. ToSet(g) \subseteq ToSet(o) /\ Alternates(o)
  BY <1>2, <1>3, RepairKeeps
<1>6. CallsOf(o) = CallsOf(g) /\ CallIds(o) = CallIds(g) /\ (UniqueIds(g) => UniqueIds(o))
  BY <1>2, RepairMade DEF MadeFrom
<1>7. Said(o) = Said(g)
  <2>1. OfRoles(o, {"user"}) = OfRoles(g, {"user"})
    BY <1>2, RepairTouchesTools
  <2> HIDE DEF o
  <2> QED
    BY <1>2, <1>4, <2>1, SaidByUsers
<1> HIDE DEF o
<1>8. Mentions(g) \subseteq Mentions(o)
  BY <1>5 DEF Mentions, ToSet
<1>9. Tools(g) \subseteq Tools(o)
  BY <1>5 DEF Tools
<1> QED
  BY <1>1, <1>2, <1>4, <1>5, <1>6, <1>7, <1>8, <1>9
-----------------------------------------------------------------------------
(* Conversations, one message at a time                                    *)

LEMMA TalkRun ==
    ASSUME NEW n \in Nat, NEW h, DOMAIN h = 1 .. n
    PROVE  \E r : IsRun(r, "talk", 0, <<>>, h, n) /\ r[n] = WithoutNotes(h)
<1> DEFINE Is(g) == g = [s \in SUBSET (1 .. n) |->
                IF s = {} THEN <<>>
                ELSE IF Aside(Unnoted(h[Max(s)])) THEN g[s \ {Max(s)}]
                     ELSE Append(g[s \ {Max(s)}], Unnoted(h[Max(s)]))]
           G == CHOOSE g : Is(g)
<1>1. \E g : IsFold(g, "talk", 0, <<>>, h, n)
  BY FoldExists
<1>2. \A g : IsFold(g, "talk", 0, <<>>, h, n) <=> Is(g)
  BY DEF IsFold, Step
<1>3. IsFold(G, "talk", 0, <<>>, h, n)
  BY <1>1, <1>2
<1>4. WithoutNotes(h) = G[1 .. n]
  BY DEF WithoutNotes, FoldLeft, MapThenFoldSet
<1> HIDE DEF G
<1>5. \E r : IsRun(r, "talk", 0, <<>>, h, n) /\ r[n] = G[1 .. n]
  BY <1>3, FoldRuns
<1> QED
  BY <1>4, <1>5

\* Two runs over the same messages have the same results.
LEMMA RunsAgree ==
    ASSUME NEW f, NEW a, NEW base, NEW h, NEW g, NEW n \in Nat, \A i \in 1 .. n : h[i] = g[i],
           NEW r, IsRun(r, f, a, base, h, n), NEW q, IsRun(q, f, a, base, g, n)
    PROVE  r[n] = q[n]
<1> DEFINE S == {i \in 0 .. n : r[i] = q[i]}
<1>1. 0 \in S
  BY DEF IsRun
<1>2. ASSUME NEW i \in 1 .. n, i - 1 \in S PROVE i \in S
  <2>1. r[i] = Step(f, a, r[i - 1], h[i]) /\ q[i] = Step(f, a, q[i - 1], g[i]) /\ h[i] = g[i]
    BY DEF IsRun
  <2> QED
    BY <1>2, <2>1
<1> HIDE DEF S
<1>3. n \in S
  BY <1>1, <1>2, Induction
<1> QED
  BY <1>3 DEF S

\* The first part of a run, and what its last message adds.
LEMMA RunAppends ==
    ASSUME NEW f, NEW a, NEW base, NEW h \in Seq(Msg), NEW m \in Msg,
           NEW r, IsRun(r, f, a, base, h, Len(h)),
           NEW q, IsRun(q, f, a, base, Append(h, m), Len(h) + 1)
    PROVE  q[Len(h) + 1] = Step(f, a, r[Len(h)], m)
<1> DEFINE n == Len(h)
           t == Append(h, m)
<1>1. n \in Nat /\ t[n + 1] = m /\ \A i \in 1 .. n : t[i] = h[i]
  BY SeqFacts, AppendFacts
<1> HIDE DEF n, t
<1>2. IsRun(q, f, a, base, t, n + 1) /\ IsRun(r, f, a, base, h, n)
  BY DEF n, t
<1>3. IsRun(q, f, a, base, t, n)
  <2>1. \A i \in 1 .. n : i \in 1 .. (n + 1)
    BY <1>1
  <2> QED
    BY <1>2, <2>1 DEF IsRun
<1>4. q[n] = r[n]
  BY <1>1, <1>2, <1>3, RunsAgree
<1>5. q[n + 1] = Step(f, a, q[(n + 1) - 1], t[n + 1])
  <2>1. n + 1 \in 1 .. (n + 1)
    BY <1>1
  <2> QED
    BY <1>2, <2>1 DEF IsRun
<1>6. (n + 1) - 1 = n
  BY <1>1
<1> QED
  BY <1>1, <1>4, <1>5, <1>6 DEF n

\* The repair of a history, before it closes the calls still open.
RepairSoFar(h) == FoldLeft(RepairOne, RepairBase, h)

Closed(r) == r.out \o Placeholders(r.open)

LEMMA RepairIsClosed ==
    ASSUME NEW h
    PROVE  Repair(h) = Closed(RepairSoFar(h))
BY DEF Repair, RepairSoFar, Closed, RepairBase

LEMMA AppendRuns ==
    ASSUME NEW h \in Seq(Msg), NEW m \in Msg
    PROVE  /\ Append(h, m) \in Seq(Msg) /\ Len(h) \in Nat /\ Len(Append(h, m)) = Len(h) + 1
           /\ DOMAIN h = 1 .. Len(h) /\ DOMAIN Append(h, m) = 1 .. (Len(h) + 1)
BY SeqFacts, AppendFacts

LEMMA RepairGrows ==
    ASSUME NEW h \in Seq(Msg), NEW m \in Msg
    PROVE  RepairSoFar(Append(h, m)) = RepairOne(RepairSoFar(h), m)
<1>1. PICK r : IsRun(r, "repair", 0, RepairBase, h, Len(h)) /\ r[Len(h)] = RepairSoFar(h)
  BY AppendRuns, RepairRun DEF RepairSoFar
<1>2. PICK q : /\ IsRun(q, "repair", 0, RepairBase, Append(h, m), Len(h) + 1)
               /\ q[Len(h) + 1] = RepairSoFar(Append(h, m))
  <2> DEFINE t == Append(h, m)
             n == Len(h) + 1
  <2>1. n \in Nat /\ DOMAIN t = 1 .. n
    BY AppendRuns
  <2> HIDE DEF t, n
  <2>2. \E q : IsRun(q, "repair", 0, RepairBase, t, n) /\ q[n] = RepairSoFar(t)
    BY <2>1, RepairRun DEF RepairSoFar
  <2> QED
    BY <2>2 DEF t, n
<1>3. q[Len(h) + 1] = Step("repair", 0, r[Len(h)], m)
  BY <1>1, <1>2, RunAppends
<1> QED
  BY <1>1, <1>2, <1>3 DEF Step

LEMMA MergeGrows ==
    ASSUME NEW h \in Seq(Msg), NEW m \in Msg
    PROVE  MergeUsers(Append(h, m)) = MergeOne("user", MergeUsers(h), m)
<1>1. PICK r : IsRun(r, "merge", "user", <<>>, h, Len(h)) /\ r[Len(h)] = MergeUsers(h)
  BY AppendRuns, MergeUsersRun
<1>2. PICK q : /\ IsRun(q, "merge", "user", <<>>, Append(h, m), Len(h) + 1)
               /\ q[Len(h) + 1] = MergeUsers(Append(h, m))
  <2> DEFINE t == Append(h, m)
             n == Len(h) + 1
  <2>1. n \in Nat /\ DOMAIN t = 1 .. n
    BY AppendRuns
  <2> HIDE DEF t, n
  <2>2. \E q : IsRun(q, "merge", "user", <<>>, t, n) /\ q[n] = MergeUsers(t)
    BY <2>1, MergeUsersRun
  <2> QED
    BY <2>2 DEF t, n
<1>3. q[Len(h) + 1] = Step("merge", "user", r[Len(h)], m)
  BY <1>1, <1>2, RunAppends
<1> QED
  BY <1>1, <1>2, <1>3 DEF Step

LEMMA UnnotedGrows ==
    ASSUME NEW h \in Seq(Msg), NEW m \in Msg
    PROVE  WithoutNotes(Append(h, m))
             = IF Aside(Unnoted(m)) THEN WithoutNotes(h) ELSE Append(WithoutNotes(h), Unnoted(m))
<1>1. PICK r : IsRun(r, "talk", 0, <<>>, h, Len(h)) /\ r[Len(h)] = WithoutNotes(h)
  BY AppendRuns, TalkRun
<1>2. PICK q : /\ IsRun(q, "talk", 0, <<>>, Append(h, m), Len(h) + 1)
               /\ q[Len(h) + 1] = WithoutNotes(Append(h, m))
  <2> DEFINE t == Append(h, m)
             n == Len(h) + 1
  <2>1. n \in Nat /\ DOMAIN t = 1 .. n
    BY AppendRuns
  <2> HIDE DEF t, n
  <2>2. \E q : IsRun(q, "talk", 0, <<>>, t, n) /\ q[n] = WithoutNotes(t)
    BY <2>1, TalkRun
  <2> QED
    BY <2>2 DEF t, n
<1>3. q[Len(h) + 1] = Step("talk", 0, r[Len(h)], m)
  BY <1>1, <1>2, RunAppends
<1> QED
  BY <1>1, <1>2, <1>3 DEF Step

LEMMA NothingRuns ==
    RepairSoFar(<<>>) = RepairBase /\ MergeUsers(<<>>) = <<>> /\ WithoutNotes(<<>>) = <<>>
<1>1. 0 \in Nat /\ DOMAIN <<>> = 1 .. 0
  OBVIOUS
<1>2. PICK r : IsRun(r, "repair", 0, RepairBase, <<>>, 0) /\ r[0] = RepairSoFar(<<>>)
  BY <1>1, RepairRun DEF RepairSoFar
<1>3. PICK q : IsRun(q, "merge", "user", <<>>, <<>>, 0) /\ q[0] = MergeUsers(<<>>)
  BY <1>1, MergeUsersRun
<1>4. PICK t : IsRun(t, "talk", 0, <<>>, <<>>, 0) /\ t[0] = WithoutNotes(<<>>)
  BY <1>1, TalkRun
<1> QED
  BY <1>2, <1>3, <1>4 DEF IsRun

\* What holds of no message and is kept by one more holds of every history.
LEMMA HistoryInduction ==
    ASSUME NEW G, <<>> \in G,
           \A h \in Seq(Msg), m \in Msg : h \in G => Append(h, m) \in G
    PROVE  \A h \in Seq(Msg) : h \in G
<1> SUFFICES ASSUME NEW h \in Seq(Msg) PROVE h \in G
  OBVIOUS
<1> DEFINE S == {i \in 0 .. Len(h) : Prefix(h, i) \in G}
<1>1. Len(h) \in Nat /\ \A i \in 1 .. Len(h) : h[i] \in Msg
  BY SeqFacts
<1>2. 0 \in S
  BY <1>1, PrefixFacts
<1>3. ASSUME NEW i \in 1 .. Len(h), i - 1 \in S PROVE i \in S
  <2>1. /\ i - 1 \in 0 .. Len(h) /\ i \in 0 .. Len(h)
        /\ Prefix(h, i - 1) \in Seq(Msg) /\ Prefix(h, i) = Append(Prefix(h, i - 1), h[i])
    <3>1. i - 1 \in 0 .. Len(h) /\ i \in 0 .. Len(h)
      BY <1>1
    <3> QED
      BY <3>1, PrefixFacts
  <2> QED
    BY <1>1, <1>3, <2>1
<1> HIDE DEF S
<1>4. \A i \in 0 .. Len(h) : i \in S
  BY <1>1, <1>2, <1>3, Induction
<1>5. Len(h) \in S
  BY <1>1, <1>4
<1> QED
  BY <1>5, PrefixFacts DEF S

\* A history that is not empty is its last message behind the others.
LEMMA LastApart ==
    ASSUME NEW h \in Seq(Msg), h # <<>>
    PROVE  \E t \in Seq(Msg), x \in Msg : h = Append(t, x) /\ Last(h) = x
<1>1. Len(h) \in Nat /\ Len(h) \in 1 .. Len(h) /\ h[Len(h)] \in Msg /\ Len(h) - 1 \in 0 .. Len(h)
  BY SeqFacts
<1> DEFINE t == Prefix(h, Len(h) - 1)
<1>2. t \in Seq(Msg) /\ h = Append(t, h[Len(h)])
  BY <1>1, PrefixFacts
<1> QED
  BY <1>1, <1>2 DEF Last
-----------------------------------------------------------------------------
(* What is said, one message at a time                                     *)

\* The conversation of h before it is repaired, and the repair of it so far.
Talk(h) == MergeUsers(WithoutNotes(h))
Standing(h) == RepairSoFar(Talk(h))

LEMMA ConversationIs ==
    ASSUME NEW h
    PROVE  Conversation(h) = Closed(Standing(h))
BY RepairIsClosed DEF Conversation, Normalise, Standing, Talk

LEMMA UnnotedFacts ==
    ASSUME NEW m \in Msg
    PROVE  /\ Unnoted(m) \in Msg /\ Unnoted(m).role = m.role /\ Unnoted(m).calls = m.calls
           /\ Unnoted(m).id = m.id /\ OpenIds(Unnoted(m)) = OpenIds(m)
           /\ Unnoted(m).text = {x \in m.text : x[1] \notin {"pending", "known"}}
           /\ m.text \in SUBSET (Kinds \X Nat) /\ Unnoted(m).text \in SUBSET (Kinds \X Nat)
           /\ Aside(Unnoted(m)) => m.role \in {"system", "user"} /\ OpenIds(m) = <<>>
           /\ m.role = "tool" => ~Aside(Unnoted(m))
<1> DEFINE u == Unnoted(m)
           x == {y \in m.text : y[1] \notin {"pending", "known"}}
<1>1. /\ m \in [role : {"system", "user", "assistant", "tool"}, calls : Seq(AnyCall),
                id : Nat, text : SUBSET (Kinds \X Nat)]
      /\ (m.id # NoCall <=> m.role = "tool") /\ (m.role # "assistant" => m.calls = <<>>)
  BY DEF Msg
<1>2. u = [m EXCEPT !.text = x] /\ x \in SUBSET (Kinds \X Nat)
  BY <1>1 DEF Unnoted
<1> HIDE DEF x
<1>3. u.role = m.role /\ u.calls = m.calls /\ u.id = m.id /\ u.text = x
  BY <1>1, <1>2
<1>4. u \in [role : {"system", "user", "assistant", "tool"}, calls : Seq(AnyCall),
             id : Nat, text : SUBSET (Kinds \X Nat)]
  BY <1>1, <1>2
<1>5. u \in Msg
  BY <1>1, <1>3, <1>4 DEF Msg
<1>6. OpenIds(u) = OpenIds(m)
  BY <1>3 DEF OpenIds
<1>7. Aside(u) => m.role \in {"system", "user"}
  BY <1>3 DEF Aside
<1>8. m.calls = <<>> => OpenIds(m) = <<>>
  <2> HAVE m.calls = <<>>
  <2>1. DOMAIN OpenIds(m) = {}
    BY DEF OpenIds
  <2>2. OpenIds(m) \in Seq(CallId)
    BY OpenIdsType
  <2> QED
    BY <2>1, <2>2
<1>9. m.role = "tool" => ~Aside(u)
  BY <1>3 DEF Aside
<1> QED
  BY <1>1, <1>2, <1>3, <1>5, <1>6, <1>7, <1>8, <1>9 DEF x

LEMMA UserIs ==
    ASSUME NEW m \in Msg, m.role = "user"
    PROVE  m = User(m.text)
<1>1. m = [role |-> m.role, calls |-> m.calls, id |-> m.id, text |-> m.text]
  BY DEF Msg
<1>2. m.calls = <<>> /\ m.id = NoCall
  BY DEF Msg
<1> QED
  BY <1>1, <1>2 DEF User, Message

LEMMA UserFacts ==
    ASSUME NEW x \in SUBSET (Kinds \X Nat)
    PROVE  /\ User(x) \in Msg /\ User(x).role = "user" /\ User(x).text = x
           /\ User(x).calls = <<>> /\ OpenIds(User(x)) = <<>>
<1>1. <<>> \in Seq(AnyCall) /\ NoCall \in Nat
  BY DEF NoCall
<1>2. User(x) \in Msg /\ User(x).role = "user" /\ User(x).text = x /\ User(x).calls = <<>>
  BY <1>1 DEF Msg, User, Message
<1>3. DOMAIN OpenIds(User(x)) = {} /\ OpenIds(User(x)) \in Seq(CallId)
  BY <1>2, OpenIdsType DEF OpenIds
<1> QED
  BY <1>2, <1>3

LEMMA LongerUser ==
    ASSUME NEW m, NEW y, NEW z, m = User(y)
    PROVE  [m EXCEPT !.text = @ \cup z] = User(y \cup z)
<1>1. m = [role |-> "user", calls |-> <<>>, id |-> NoCall, text |-> y] /\ m.text = y
  BY DEF User, Message
<1> DEFINE x == y \cup z
<1>2. [m EXCEPT !.text = @ \cup z] = [m EXCEPT !.text = x]
  BY <1>1
<1> HIDE DEF x
<1>3. [m EXCEPT !.text = x] = [role |-> "user", calls |-> <<>>, id |-> NoCall, text |-> x]
  BY <1>1
<1> QED
  BY <1>2, <1>3 DEF User, Message, x

\* A user message is merged into one at the end, and any other appended.
LEMMA MergeOneIs ==
    ASSUME NEW o \in Seq(Msg), NEW m \in Msg
    PROVE  /\ ~(m.role = "user" /\ EndsWithUser(o)) => MergeOne("user", o, m) = Append(o, m)
           /\ \A t \in Seq(Msg), x \in Msg :
                 o = Append(t, x) /\ x.role = "user" /\ m.role = "user" =>
                     MergeOne("user", o, m) = Append(t, User(x.text \cup m.text))
           /\ MergeOne("user", o, m) \in Seq(Msg) /\ MergeOne("user", o, m) # <<>>
           /\ Last(MergeOne("user", o, m)).role = m.role
<1>1. ~(m.role = "user" /\ EndsWithUser(o)) => MergeOne("user", o, m) = Append(o, m)
  BY DEF MergeOne, EndsWithUser
<1>2. ASSUME NEW t \in Seq(Msg), NEW x \in Msg, o = Append(t, x), x.role = "user", m.role = "user"
      PROVE  MergeOne("user", o, m) = Append(t, User(x.text \cup m.text))
  <2> DEFINE n == Len(t)
             q == MergeOne("user", o, m)
             z == User(x.text \cup m.text)
  <2>1. /\ n \in Nat /\ Len(o) = n + 1 /\ o # <<>> /\ Last(o) = x /\ o[n + 1] = x
        /\ DOMAIN o = 1 .. (n + 1) /\ \A i \in 1 .. n : o[i] = t[i]
    BY <1>2, SeqFacts, AppendFacts
  <2>2. q = [o EXCEPT ![Len(o)].text = @ \cup m.text]
    BY <1>2, <2>1 DEF MergeOne
  <2>3. /\ m.text \in SUBSET (Kinds \X Nat) /\ x.text \in SUBSET (Kinds \X Nat)
        /\ x = User(x.text)
    BY <1>2, MsgFacts, UserIs
  <2>4. [x EXCEPT !.text = @ \cup m.text] = z
    <3> DEFINE y == x.text
               w == m.text
    <3>1. x = User(y)
      BY <2>3
    <3> HIDE DEF y, w
    <3>2. [x EXCEPT !.text = @ \cup w] = User(y \cup w)
      BY <3>1, LongerUser
    <3> QED
      BY <3>2 DEF y, w
  <2>5. x.text \cup m.text \in SUBSET (Kinds \X Nat)
    BY <2>3
  <2>6. z \in Msg
    BY <2>5, UserFacts
  <2> HIDE DEF n, z
  <2>7. q = [i \in 1 .. (n + 1) |-> IF i = n + 1 THEN z ELSE o[i]]
    BY <2>1, <2>2, <2>4
  <2>8. Append(t, z) \in Seq(Msg) /\ DOMAIN Append(t, z) = 1 .. (n + 1)
        /\ Append(t, z)[n + 1] = z /\ \A i \in 1 .. n : Append(t, z)[i] = t[i]
    BY <2>6, AppendFacts DEF n
  <2>9. Append(t, z) = [i \in 1 .. (n + 1) |-> IF i = n + 1 THEN z ELSE o[i]]
    <3> DEFINE s == Append(t, z)
    <3>1. /\ s \in Seq(Msg) /\ DOMAIN s = 1 .. (n + 1)
          /\ s[n + 1] = z /\ \A i \in 1 .. n : s[i] = t[i]
      BY <2>8
    <3> HIDE DEF s
    <3>2. s = [i \in 1 .. (n + 1) |-> s[i]]
      BY <3>1
    <3>3. \A i \in 1 .. (n + 1) : s[i] = IF i = n + 1 THEN z ELSE o[i]
      BY <2>1, <3>1
    <3> QED
      BY <3>2, <3>3 DEF s
  <2> QED
    BY <2>7, <2>9 DEF z
<1>3. /\ MergeOne("user", o, m) \in Seq(Msg) /\ MergeOne("user", o, m) # <<>>
      /\ Last(MergeOne("user", o, m)).role = m.role
  <2>1. m.role = "user" => m.calls = <<>>
    BY MsgFacts
  <2> DEFINE q == MergeOne("user", o, m)
  <2>2. "user" # "tool"
    OBVIOUS
  <2>3. Added(o, m, q)
    BY <2>1, <2>2, MergeOneAdds
  <2> HIDE DEF q
  <2> QED
    BY <2>3 DEF Added, q
<1> QED
  BY <1>1, <1>2, <1>3

\* What one more message adds to the talk.
LEMMA TalkGrows ==
    ASSUME NEW h \in Seq(Msg), NEW m \in Msg
    PROVE  Talk(Append(h, m))
             = IF Aside(Unnoted(m)) THEN Talk(h) ELSE MergeOne("user", Talk(h), Unnoted(m))
<1> USE DEF Talk
<1>1. \A g \in Seq(Msg) : WithoutNotes(g) \in Seq(Msg)
  <2> DEFINE G == {g \in Seq(Msg) : WithoutNotes(g) \in Seq(Msg)}
  <2>1. <<>> \in G
    <3>1. <<>> \in Seq(Msg)
      OBVIOUS
    <3> QED
      BY <3>1, NothingRuns
  <2>2. ASSUME NEW g \in Seq(Msg), NEW x \in Msg, g \in G PROVE Append(g, x) \in G
    <3>1. WithoutNotes(Append(g, x)) \in {WithoutNotes(g), Append(WithoutNotes(g), Unnoted(x))}
      BY UnnotedGrows
    <3>2. Append(g, x) \in Seq(Msg) /\ Append(WithoutNotes(g), Unnoted(x)) \in Seq(Msg)
      <4>1. WithoutNotes(g) \in Seq(Msg) /\ Unnoted(x) \in Msg
        BY <2>2, UnnotedFacts
      <4> QED
        BY <4>1, AppendFacts
    <3> QED
      BY <2>2, <3>1, <3>2
  <2> HIDE DEF G
  <2>3. \A g \in Seq(Msg) : g \in G
    BY <2>1, <2>2, HistoryInduction
  <2> QED
    BY <2>3 DEF G
<1>2. WithoutNotes(h) \in Seq(Msg) /\ Unnoted(m) \in Msg
  BY <1>1, UnnotedFacts
<1>3. MergeUsers(Append(WithoutNotes(h), Unnoted(m)))
        = MergeOne("user", MergeUsers(WithoutNotes(h)), Unnoted(m))
  BY <1>2, MergeGrows
<1> QED
  BY <1>3, UnnotedGrows

LEMMA TalkNothing == Talk(<<>>) = <<>> /\ Standing(<<>>) = RepairBase
BY NothingRuns DEF Talk, Standing

LEMMA TalkType ==
    ASSUME NEW h \in Seq(Msg)
    PROVE  Talk(h) \in Seq(Msg) /\ Repairing(Standing(h)) /\ Repairing(RepairSoFar(h))
<1> DEFINE G == {g \in Seq(Msg) : Talk(g) \in Seq(Msg)}
           F == {g \in Seq(Msg) : Repairing(RepairSoFar(g))}
<1>1. <<>> \in G
  <2>1. <<>> \in Seq(Msg)
    OBVIOUS
  <2> QED
    BY <2>1, TalkNothing
<1>2. ASSUME NEW g \in Seq(Msg), NEW m \in Msg, g \in G PROVE Append(g, m) \in G
  <2>1. Talk(Append(g, m)) \in {Talk(g), MergeOne("user", Talk(g), Unnoted(m))}
    BY TalkGrows
  <2>2. Talk(g) \in Seq(Msg) /\ Unnoted(m) \in Msg
    BY <1>2, UnnotedFacts
  <2>3. MergeOne("user", Talk(g), Unnoted(m)) \in Seq(Msg)
    BY <2>2, MergeOneIs
  <2> QED
    BY <2>1, <2>2, <2>3, AppendFacts
<1>3. <<>> \in F
  <2>1. <<>> \in Seq(Msg) /\ <<>> \in Seq(CallId) /\ DOMAIN <<>> = {}
    OBVIOUS
  <2>2. Owes(<<>>, <<>>)
    BY <2>1 DEF Owes
  <2>3. Repairing(RepairBase)
    BY <2>1, <2>2 DEF Repairing, RepairBase
  <2> QED
    BY <2>1, <2>3, NothingRuns
<1>4. ASSUME NEW g \in Seq(Msg), NEW m \in Msg, g \in F PROVE Append(g, m) \in F
  <2>1. Repairing(RepairOne(RepairSoFar(g), m))
    BY <1>4, RepairingStep
  <2> QED
    BY <2>1, RepairGrows, AppendFacts
<1> HIDE DEF G, F
<1>5. \A g \in Seq(Msg) : g \in G
  BY <1>1, <1>2, HistoryInduction
<1>6. \A g \in Seq(Msg) : g \in F
  BY <1>3, <1>4, HistoryInduction
<1>7. Talk(h) \in Seq(Msg)
  BY <1>5 DEF G
<1>8. \A g \in Seq(Msg) : Repairing(RepairSoFar(g))
  BY <1>6 DEF F
<1> QED
  BY <1>7, <1>8 DEF Standing
-----------------------------------------------------------------------------
(* Where the repair of a conversation stands                               *)

\* If the conversation ends with the user, so did the talk: no answer that
\* nothing waits for was dropped behind it.
Sound(h) == EndsWithUser(Conversation(h)) => EndsWithUser(Talk(h))

LEMMA ClosesFirst ==
    ASSUME NEW r, NEW m, m.role # "tool"
    PROVE  /\ RepairOne(r, m) = [out |-> Append(Closed(r), m), open |-> OpenIds(m)]
           /\ RepairOne(r, m).out = Append(Closed(r), m) /\ RepairOne(r, m).open = OpenIds(m)
BY DEF RepairOne, Closed, OpenIds

LEMMA ClosedNothing ==
    ASSUME NEW r, r.out \in Seq(Msg), r.open = <<>>
    PROVE  Closed(r) = r.out
<1>1. Placeholders(<<>>) = <<>>
  BY DEF Placeholders
<1> QED
  BY <1>1, ConcatEmptySeq DEF Closed

LEMMA ClosedEnds ==
    ASSUME NEW r, r.out \in Seq(Msg), r.open \in Seq(CallId)
    PROVE  /\ Closed(r) \in Seq(Msg)
           /\ r.open # <<>> => ~EndsWithUser(Closed(r))
           /\ r.out # <<>> /\ Last(r.out).role # "user" => ~EndsWithUser(Closed(r))
<1> DEFINE p == Placeholders(r.open)
           c == r.out \o p
<1>1. /\ p \in Seq(Msg) /\ Len(p) = Len(r.open)
      /\ \A k \in DOMAIN p : p[k].role = "tool"
  BY PlaceholderFacts, PlaceholderContents
<1> HIDE DEF p
<1>2. /\ c \in Seq(Msg) /\ Len(c) = Len(r.out) + Len(p) /\ Len(r.out) \in Nat /\ Len(p) \in Nat
      /\ \A i \in 1 .. Len(p) : c[Len(r.out) + i] = p[i]
  <2> DEFINE q == r.out
  <2>1. q \in Seq(Msg)
    OBVIOUS
  <2> HIDE DEF q
  <2>2. q \o p \in Seq(Msg) /\ Len(q \o p) = Len(q) + Len(p)
    BY <1>1, <2>1, ConcatFacts, ZenonT(60)
  <2>3. Len(q) \in Nat /\ Len(p) \in Nat
    BY <1>1, <2>1, SeqFacts
  <2>4. \A i \in 1 .. Len(p) : (q \o p)[Len(q) + i] = p[i]
    <3>1. p \in Seq(Msg)
      BY <1>1
    <3> TAKE i \in 1 .. Len(p)
    <3> QED
      BY <2>1, <3>1, ConcatFacts
  <2> QED
    BY <2>2, <2>3, <2>4 DEF q
<1>3. ASSUME r.open # <<>> PROVE ~EndsWithUser(c)
  <2>1. Len(p) \in 1 .. Len(p) /\ DOMAIN p = 1 .. Len(p)
    BY <1>1, <1>2, <1>3, SeqFacts
  <2>2. c[Len(c)] = p[Len(p)] /\ p[Len(p)].role = "tool"
    BY <1>1, <1>2, <2>1
  <2> HIDE DEF c
  <2>3. Last(c).role = "tool"
    BY <2>2 DEF Last
  <2> QED
    BY <2>3 DEF EndsWithUser
<1>4. ASSUME r.open = <<>> PROVE c = r.out
  BY <1>4, ClosedNothing DEF Closed, p
<1>5. r.out # <<>> /\ Last(r.out).role # "user" => ~EndsWithUser(c)
  <2>1. CASE r.open # <<>>
    BY <1>3, <2>1
  <2>2. CASE r.open = <<>>
    <3> HIDE DEF c
    <3> QED
      BY <1>4, <2>2 DEF EndsWithUser
  <2> QED
    BY <2>1, <2>2
<1> QED
  BY <1>2, <1>3, <1>5 DEF Closed, p

\* A user message behind a user message makes one with it.
LEMMA UsersJoin ==
    ASSUME NEW t \in Seq(Msg), NEW x \in Msg, NEW m \in Msg, x.role = "user", m.role = "user"
    PROVE  MergeOne("user", Append(t, x), m) = Append(t, User(x.text \cup m.text))
<1> DEFINE o == Append(t, x)
<1>1. o \in Seq(Msg) /\ o = Append(t, x)
  BY AppendFacts
<1> HIDE DEF o
<1>2. \A s \in Seq(Msg), y \in Msg : o = Append(s, y) /\ y.role = "user" /\ m.role = "user" =>
          MergeOne("user", o, m) = Append(s, User(y.text \cup m.text))
  BY <1>1, MergeOneIs, Zenon
<1>3. MergeOne("user", o, m) = Append(t, User(x.text \cup m.text))
  BY <1>1, <1>2, Zenon
<1> QED
  BY <1>1, <1>3

LEMMA StandingType ==
    ASSUME NEW h \in Seq(Msg)
    PROVE  /\ Standing(h).out \in Seq(Msg) /\ Standing(h).open \in Seq(CallId)
           /\ RepairSoFar(h).out \in Seq(Msg) /\ RepairSoFar(h).open \in Seq(CallId)
           /\ Talk(h) \in Seq(Msg) /\ Conversation(h) \in Seq(Msg)
           /\ Conversation(h) = Closed(Standing(h))
<1>1. Talk(h) \in Seq(Msg) /\ Repairing(Standing(h)) /\ Repairing(RepairSoFar(h))
  BY TalkType
<1>2. /\ Standing(h).out \in Seq(Msg) /\ Standing(h).open \in Seq(CallId)
      /\ RepairSoFar(h).out \in Seq(Msg) /\ RepairSoFar(h).open \in Seq(CallId)
  BY <1>1 DEF Repairing
<1> QED
  BY <1>1, <1>2, ClosedEnds, ConversationIs

\* What is left aside changes nothing.
LEMMA StandingStays ==
    ASSUME NEW h \in Seq(Msg), NEW m \in Msg, Aside(Unnoted(m))
    PROVE  /\ Talk(Append(h, m)) = Talk(h) /\ Standing(Append(h, m)) = Standing(h)
           /\ Conversation(Append(h, m)) = Conversation(h) /\ Sound(h) = Sound(Append(h, m))
<1>1. Talk(Append(h, m)) = Talk(h)
  BY TalkGrows
<1>2. Standing(Append(h, m)) = Standing(h)
  BY <1>1 DEF Standing
<1>3. Conversation(Append(h, m)) = Conversation(h)
  BY <1>2, ConversationIs
<1> QED
  BY <1>1, <1>2, <1>3 DEF Sound

LEMMA StandingAnswered ==
    ASSUME NEW h \in Seq(Msg), NEW m \in Msg, m.role = "tool"
    PROVE  /\ Standing(Append(h, m)) = RepairOne(Standing(h), Unnoted(m))
           /\ Unnoted(m) \in Msg /\ Unnoted(m).role = "tool" /\ Unnoted(m).id = m.id
<1>1. Unnoted(m) \in Msg /\ Unnoted(m).role = "tool" /\ Unnoted(m).id = m.id /\ ~Aside(Unnoted(m))
  BY UnnotedFacts
<1>2. Talk(h) \in Seq(Msg)
  BY StandingType
<1>3. Talk(Append(h, m)) = MergeOne("user", Talk(h), Unnoted(m))
  BY <1>1, TalkGrows
<1>4. Talk(Append(h, m)) = Append(Talk(h), Unnoted(m))
  BY <1>1, <1>2, <1>3, MergeOneIs
<1> QED
  BY <1>1, <1>2, <1>4, RepairGrows DEF Standing

\* Where the repair stands after any other message is known from the
\* conversation before it.
LEMMA StandingSays ==
    ASSUME NEW h \in Seq(Msg), NEW m \in Msg, m.role # "tool", ~Aside(Unnoted(m)), Sound(h)
    PROVE  /\ Standing(Append(h, m))
                = [out |-> MergeOne("user", Conversation(h), Unnoted(m)), open |-> OpenIds(m)]
           /\ Sound(Append(h, m))
<1> DEFINE u == Unnoted(m)
           T == Talk(h)
           c == Conversation(h)
           S == Standing(Append(h, m))
           q == MergeOne("user", T, u)
<1>1. /\ u \in Msg /\ u.role = m.role /\ OpenIds(u) = OpenIds(m) /\ T \in Seq(Msg) /\ c \in Seq(Msg)
      /\ c = Closed(Standing(h)) /\ u.role # "tool" /\ u.text \in SUBSET (Kinds \X Nat)
  BY UnnotedFacts, StandingType
<1>2. Talk(Append(h, m)) = q
  BY TalkGrows
<1>3. S = RepairSoFar(q)
  BY <1>2 DEF Standing
<1>4. EndsWithUser(c) => EndsWithUser(T)
  BY DEF Sound
<1>5. Standing(h) = RepairSoFar(T)
  BY DEF Standing
<1> HIDE DEF u, T, c, S, q
<1>6. S = [out |-> MergeOne("user", c, u), open |-> OpenIds(m)]
  <2>1. CASE ~(u.role = "user" /\ EndsWithUser(T))
    <3>1. q = Append(T, u)
      BY <1>1, <2>1, MergeOneIs DEF q
    <3>2. S = RepairOne(RepairSoFar(T), u)
      BY <1>1, <1>3, <3>1, RepairGrows
    <3>3. S = [out |-> Append(c, u), open |-> OpenIds(u)]
      BY <1>1, <1>5, <3>2, ClosesFirst
    <3>4. MergeOne("user", c, u) = Append(c, u)
      BY <1>1, <1>4, <2>1, MergeOneIs
    <3> QED
      BY <1>1, <3>3, <3>4
  <2>2. CASE u.role = "user" /\ EndsWithUser(T)
    <3>1. PICK t \in Seq(Msg), x \in Msg : T = Append(t, x) /\ Last(T) = x
      BY <1>1, <2>2, LastApart DEF EndsWithUser
    <3>2. x.role = "user" /\ x.text \in SUBSET (Kinds \X Nat)
      BY <2>2, <3>1, MsgFacts DEF EndsWithUser
    <3> DEFINE z == User(x.text \cup u.text)
               d == Closed(RepairSoFar(t))
    <3>3. z \in Msg /\ z.role = "user" /\ OpenIds(z) = <<>>
      <4>1. x.text \cup u.text \in SUBSET (Kinds \X Nat)
        BY <1>1, <3>2
      <4> QED
        BY <4>1, UserFacts
    <3>4. OpenIds(x) = <<>> /\ OpenIds(u) = <<>>
      <4>1. x = User(x.text) /\ u = User(u.text)
        BY <1>1, <2>2, <3>2, UserIs
      <4>2. OpenIds(User(x.text)) = <<>> /\ OpenIds(User(u.text)) = <<>>
        BY <1>1, <3>2, UserFacts
      <4> QED
        BY <4>1, <4>2
    <3>5. q = Append(t, z)
      BY <1>1, <2>2, <3>1, <3>2, UsersJoin DEF q
    <3>6. d \in Seq(Msg)
      <4>1. RepairSoFar(t).out \in Seq(Msg) /\ RepairSoFar(t).open \in Seq(CallId)
        BY StandingType
      <4> QED
        BY <4>1, ClosedEnds
    <3>7. x.role # "tool" /\ z.role # "tool"
      BY <3>2, <3>3
    <3> HIDE DEF z, d
    <3>8. S = [out |-> Append(d, z), open |-> <<>>]
      <4>1. S = RepairOne(RepairSoFar(t), z)
        BY <1>3, <3>3, <3>5, RepairGrows
      <4> QED
        BY <3>3, <3>7, <4>1, ClosesFirst DEF d
    <3>9. c = Append(d, x)
      <4> DEFINE r == RepairSoFar(T)
      <4>1. r = RepairOne(RepairSoFar(t), x)
        BY <3>1, RepairGrows
      <4>2. r.out = Append(d, x) /\ r.open = <<>>
        BY <3>4, <3>7, <4>1, ClosesFirst DEF d
      <4> HIDE DEF r
      <4>3. Append(d, x) \in Seq(Msg)
        BY <3>6, AppendFacts
      <4>4. Closed(r) = Append(d, x)
        BY <4>2, <4>3, ClosedNothing
      <4> QED
        BY <1>1, <1>5, <4>4 DEF r
    <3>10. MergeOne("user", c, u) = Append(d, z)
      BY <1>1, <2>2, <3>2, <3>6, <3>9, UsersJoin DEF z
    <3> QED
      BY <1>1, <3>4, <3>8, <3>10
  <2> QED
    BY <2>1, <2>2
<1>7. Sound(Append(h, m))
  <2>1. CASE u.role = "user"
    <3>1. q # <<>> /\ Last(q).role = "user"
      BY <1>1, <2>1, MergeOneIs DEF q
    <3> QED
      BY <1>2, <3>1 DEF Sound, EndsWithUser
  <2>2. CASE u.role # "user"
    <3>1. S.out # <<>> /\ Last(S.out).role # "user"
      BY <1>1, <1>6, <2>2, MergeOneIs
    <3>2. Append(h, m) \in Seq(Msg)
      BY AppendFacts
    <3>3. /\ S.out \in Seq(Msg) /\ S.open \in Seq(CallId)
          /\ Conversation(Append(h, m)) = Closed(S)
      BY <3>2, StandingType DEF S
    <3>4. ~EndsWithUser(Conversation(Append(h, m)))
      BY <3>1, <3>3, ClosedEnds
    <3> QED
      BY <3>4 DEF Sound
  <2> QED
    BY <2>1, <2>2
<1> QED
  BY <1>6, <1>7 DEF S, u, c

\* The answer to an open call is taken and leaves the others open.
LEMMA AnswerTaken ==
    ASSUME NEW r, r.out \in Seq(Msg), r.open \in Seq(CallId), NEW m \in Msg, m.role = "tool",
           NEW ids, ids \subseteq ToSet(r.open), m.id \in ids
    PROVE  /\ RepairOne(r, m).out = Append(r.out, m)
           /\ RepairOne(r, m).open = RemoveFirst(r.open, m.id)
           /\ ids \ {m.id} \subseteq ToSet(RepairOne(r, m).open)
<1>1. Contains(r.open, m.id)
  <2>1. DOMAIN r.open = 1 .. Len(r.open)
    BY SeqFacts
  <2> QED
    BY <2>1 DEF Contains, ToSet
<1>2. RepairOne(r, m).out = Append(r.out, m) /\ RepairOne(r, m).open = RemoveFirst(r.open, m.id)
  BY <1>1 DEF RepairOne
<1>3. ToSet(RemoveFirst(r.open, m.id)) \cup {m.id} = ToSet(r.open)
  BY <1>1, RemovedOnce
<1> QED
  BY <1>2, <1>3

\* In a history whose tool messages all answer open calls, what it waits for
\* is open in the repair too, its notes left aside or not.
LEMMA FedStands ==
    ASSUME NEW h \in Seq(Msg), NEW ids, Awaits(h, ids)
    PROVE  /\ Sound(h) /\ ids \subseteq ToSet(Standing(h).open)
           /\ ids \subseteq ToSet(RepairSoFar(h).open)
<1> DEFINE G == {g \in Seq(Msg) : \A w : Awaits(g, w) =>
                    /\ Sound(g) /\ w \subseteq ToSet(Standing(g).open)
                    /\ w \subseteq ToSet(RepairSoFar(g).open)}
<1>1. <<>> \in G
  <2>0. <<>> \in Seq(Msg)
    OBVIOUS
  <2>1. \A w : Awaits(<<>>, w) => w = {}
    <3>1. Len(<<>>) = 0
      OBVIOUS
    <3> QED
      BY <3>1 DEF Awaits, Feeds
  <2>2. Conversation(<<>>) = <<>>
    <3>1. RepairBase.out \in Seq(Msg) /\ RepairBase.open = <<>> /\ RepairBase.out = <<>>
      BY <2>0 DEF RepairBase
    <3>2. Closed(RepairBase) = <<>>
      BY <3>1, ClosedNothing
    <3> QED
      BY <3>2, TalkNothing, ConversationIs
  <2>3. Sound(<<>>)
    BY <2>2 DEF Sound, EndsWithUser
  <2> QED
    BY <2>0, <2>1, <2>3
<1>2. ASSUME NEW g \in Seq(Msg), NEW m \in Msg, g \in G PROVE Append(g, m) \in G
  <2>0. Append(g, m) \in Seq(Msg)
    BY AppendFacts
  <2> SUFFICES ASSUME NEW w, Awaits(Append(g, m), w)
               PROVE  /\ Sound(Append(g, m)) /\ w \subseteq ToSet(Standing(Append(g, m)).open)
                      /\ w \subseteq ToSet(RepairSoFar(Append(g, m)).open)
    BY <2>0
  <2>1. PICK v : /\ Awaits(g, v) /\ (m.role = "tool" => m.id \in v)
                 /\ w = IF m.role = "tool" THEN v \ {m.id} ELSE Ids(m)
    BY AwaitsBefore
  <2>2. /\ Sound(g) /\ v \subseteq ToSet(Standing(g).open)
        /\ v \subseteq ToSet(RepairSoFar(g).open)
    BY <1>2, <2>1
  <2>3. /\ Standing(g).out \in Seq(Msg) /\ Standing(g).open \in Seq(CallId)
        /\ RepairSoFar(g).out \in Seq(Msg) /\ RepairSoFar(g).open \in Seq(CallId)
    BY StandingType
  <2>4. RepairSoFar(Append(g, m)) = RepairOne(RepairSoFar(g), m)
    BY RepairGrows
  <2>5. ToSet(OpenIds(m)) = Ids(m)
    BY OpenIdsType
  <2> HIDE DEF G
  <2>6. CASE m.role = "tool"
    <3>1. w \subseteq ToSet(RepairSoFar(Append(g, m)).open)
      BY <2>1, <2>2, <2>3, <2>4, <2>6, AnswerTaken
    <3> DEFINE r == Standing(g)
               u == Unnoted(m)
               s == Standing(Append(g, m))
    <3>2. s = RepairOne(r, u) /\ u \in Msg /\ u.role = "tool" /\ u.id = m.id
      BY <2>6, StandingAnswered
    <3>3. /\ r.out \in Seq(Msg) /\ r.open \in Seq(CallId) /\ v \subseteq ToSet(r.open)
          /\ s.out \in Seq(Msg) /\ s.open \in Seq(CallId)
          /\ Conversation(Append(g, m)) = Closed(s)
      BY <2>0, <2>2, <2>3, StandingType
    <3> HIDE DEF r, u, s
    <3>4. s.out = Append(r.out, u) /\ v \ {u.id} \subseteq ToSet(s.open)
      BY <2>1, <2>6, <3>2, <3>3, AnswerTaken
    <3>5. s.out # <<>> /\ Last(s.out).role # "user"
      <4> DEFINE q == r.out
      <4>1. q \in Seq(Msg) /\ s.out = Append(q, u)
        BY <3>3, <3>4
      <4> HIDE DEF q
      <4>2. s.out # <<>> /\ Last(s.out) = u
        BY <3>2, <4>1, AppendFacts
      <4> QED
        BY <3>2, <4>2
    <3>6. Sound(Append(g, m))
      BY <3>3, <3>5, ClosedEnds DEF Sound
    <3> QED
      BY <2>1, <2>6, <3>1, <3>2, <3>4, <3>6 DEF s
  <2>7. CASE m.role # "tool" /\ Aside(Unnoted(m))
    <3>1. RepairSoFar(Append(g, m)).open = OpenIds(m)
      BY <2>4, <2>7, ClosesFirst
    <3>2. OpenIds(m) = <<>>
      BY <2>7, UnnotedFacts
    <3>3. w = {}
      BY <2>1, <2>5, <2>7, <3>2, EmptyContents
    <3>4. Sound(Append(g, m))
      BY <2>2, <2>7, StandingStays
    <3> QED
      BY <3>3, <3>4
  <2>8. CASE m.role # "tool" /\ ~Aside(Unnoted(m))
    <3>1. RepairSoFar(Append(g, m)).open = OpenIds(m)
      BY <2>4, <2>8, ClosesFirst
    <3>2. Standing(Append(g, m)).open = OpenIds(m) /\ Sound(Append(g, m))
      BY <2>2, <2>8, StandingSays
    <3> QED
      BY <2>1, <2>5, <2>8, <3>1, <3>2
  <2> QED
    BY <2>6, <2>7, <2>8
<1> HIDE DEF G
<1>3. h \in G
  BY <1>1, <1>2, HistoryInduction
<1> QED
  BY <1>3 DEF G
-----------------------------------------------------------------------------
(* What the repair and the merging leave of a conversation                 *)

LEMMA HeadRemoved ==
    ASSUME NEW o \in Seq(CallId), o # <<>>
    PROVE  /\ o[1] \in CallId /\ Contains(o, o[1]) /\ RemoveFirst(o, o[1]) = Tail(o)
           /\ Tail(o) \in Seq(CallId) /\ Len(Tail(o)) = Len(o) - 1 /\ Len(o) \in Nat \ {0}
<1>1. Len(o) \in Nat \ {0} /\ 1 \in 1 .. Len(o) /\ o[1] \in CallId /\ DOMAIN o = 1 .. Len(o)
  BY SeqFacts
<1>2. Contains(o, o[1])
  BY <1>1 DEF Contains
<1>3. /\ Tail(o) \in Seq(CallId) /\ Len(Tail(o)) = Len(o) - 1
      /\ \A k \in 1 .. (Len(o) - 1) : Tail(o)[k] = o[k + 1]
  OBVIOUS
<1>4. PICK i \in DOMAIN o :
         /\ o[i] = o[1] /\ \A k \in 1 .. (i - 1) : o[k] # o[1]
         /\ RemoveFirst(o, o[1]) = [k \in 1 .. (Len(o) - 1) |-> IF k < i THEN o[k] ELSE o[k + 1]]
  <2> DEFINE e == o[1]
  <2>1. Contains(o, e)
    BY <1>2
  <2> HIDE DEF e
  <2>2. \E i \in DOMAIN o :
         /\ o[i] = e /\ \A k \in 1 .. (i - 1) : o[k] # e
         /\ RemoveFirst(o, e) = [k \in 1 .. (Len(o) - 1) |-> IF k < i THEN o[k] ELSE o[k + 1]]
    BY <2>1, FirstRemoved
  <2> QED
    BY <2>2 DEF e
<1>5. i = 1
  BY <1>1, <1>4
<1>6. RemoveFirst(o, o[1]) = [k \in 1 .. (Len(o) - 1) |-> o[k + 1]]
  BY <1>4, <1>5
<1>7. Tail(o) = [k \in 1 .. (Len(o) - 1) |-> o[k + 1]]
  <2> DEFINE t == Tail(o)
  <2>1. t \in Seq(CallId) /\ Len(t) = Len(o) - 1 /\ \A k \in 1 .. (Len(o) - 1) : t[k] = o[k + 1]
    BY <1>3
  <2> HIDE DEF t
  <2>2. t = [k \in 1 .. (Len(o) - 1) |-> o[k + 1]]
    BY <1>1, <2>1
  <2> QED
    BY <2>2 DEF t
<1> QED
  BY <1>1, <1>2, <1>3, <1>6, <1>7

LEMMA LostIs ==
    ASSUME NEW id \in CallId
    PROVE  /\ Lost(id) \in Msg /\ Lost(id).role = "tool" /\ Lost(id).id = id
           /\ Unnoted(Lost(id)) = Lost(id)
<1>1. Lost(id) = [role |-> "tool", calls |-> <<>>, id |-> id, text |-> {<<"lost", id>>}]
  BY DEF Lost, ToolResult, Message
<1>2. Lost(id) \in Msg
  <2> DEFINE o == <<id>>
  <2>1. o \in Seq(CallId) /\ 1 \in DOMAIN o /\ o[1] = id
    OBVIOUS
  <2> HIDE DEF o
  <2>2. /\ Placeholders(o) \in Seq(Msg) /\ DOMAIN Placeholders(o) = DOMAIN o
        /\ Placeholders(o)[1] = Lost(id)
    BY <2>1, PlaceholderFacts
  <2> QED
    BY <2>1, <2>2
<1> DEFINE x == {<<"lost", id>>}
<1>3. {y \in x : y[1] \notin {"pending", "known"}} = x
  OBVIOUS
<1> HIDE DEF x
<1>4. Lost(id) = [role |-> "tool", calls |-> <<>>, id |-> id, text |-> x]
  BY <1>1 DEF x
<1>5. Unnoted(Lost(id)) = [Lost(id) EXCEPT !.text = x]
  BY <1>3, <1>4, SMTT(60) DEF Unnoted
<1>6. [Lost(id) EXCEPT !.text = x] = Lost(id)
  BY <1>4
<1> QED
  BY <1>2, <1>4, <1>5, <1>6

\* The first placeholder, and the others behind it.
LEMMA PlaceholdersHead ==
    ASSUME NEW b \in Seq(Msg), NEW o \in Seq(CallId), o # <<>>
    PROVE  b \o Placeholders(o) = Append(b, Lost(o[1])) \o Placeholders(Tail(o))
<1> DEFINE p == Placeholders(o)
           q == Placeholders(Tail(o))
           m == Lost(o[1])
           c == Append(b, m)
           n == Len(b)
<1>1. /\ o[1] \in CallId /\ Tail(o) \in Seq(CallId) /\ Len(Tail(o)) = Len(o) - 1
      /\ Len(o) \in Nat \ {0} /\ m \in Msg /\ n \in Nat
  BY HeadRemoved, LostIs, SeqFacts
<1>2. \A k \in 1 .. (Len(o) - 1) : Tail(o)[k] = o[k + 1]
  OBVIOUS
<1>3. /\ p \in Seq(Msg) /\ Len(p) = Len(o) /\ \A k \in 1 .. Len(o) : p[k] = Lost(o[k])
  BY PlaceholderFacts, SMTT(60)
<1>4. /\ q \in Seq(Msg) /\ Len(q) = Len(o) - 1 /\ \A k \in 1 .. (Len(o) - 1) : q[k] = Lost(o[k + 1])
  <2> DEFINE z == Tail(o)
  <2>1. /\ z \in Seq(CallId) /\ Len(z) = Len(o) - 1 /\ DOMAIN z = 1 .. (Len(o) - 1)
        /\ \A k \in 1 .. (Len(o) - 1) : z[k] = o[k + 1]
    BY <1>1, <1>2
  <2> HIDE DEF z
  <2>2. /\ Placeholders(z) \in Seq(Msg) /\ Len(Placeholders(z)) = Len(o) - 1
        /\ \A k \in 1 .. (Len(o) - 1) : Placeholders(z)[k] = Lost(z[k])
    BY <2>1, PlaceholderFacts
  <2> QED
    BY <2>1, <2>2, ZenonT(60) DEF z
<1>5. /\ c \in Seq(Msg) /\ Len(c) = n + 1 /\ c[n + 1] = m /\ \A i \in 1 .. n : c[i] = b[i]
  BY <1>1, AppendFacts
<1> DEFINE s == b \o p
           t == c \o q
<1> HIDE DEF p, q, c, n
<1>6. /\ s \in Seq(Msg) /\ Len(s) = n + Len(o)
      /\ \A i \in 1 .. n : s[i] = b[i]
  <2>1. s \in Seq(Msg) /\ Len(s) = n + Len(p)
    BY <1>3, ConcatFacts DEF n
  <2>2. \A i \in 1 .. n : s[i] = b[i]
    <3> TAKE i \in 1 .. n
    <3> QED
      BY <1>3, ConcatFacts DEF n
  <2> QED
    BY <1>3, <2>1, <2>2
<1>7. \A i \in 1 .. Len(o) : s[n + i] = Lost(o[i])
  <2> TAKE i \in 1 .. Len(o)
  <2>1. s[n + i] = p[i]
    BY <1>3, ConcatFacts DEF n
  <2> QED
    BY <1>3, <2>1
<1>8. /\ t \in Seq(Msg) /\ Len(t) = n + Len(o)
      /\ \A i \in 1 .. (n + 1) : t[i] = c[i]
  <2>1. t \in Seq(Msg) /\ Len(t) = Len(c) + Len(q)
    BY <1>4, <1>5, ConcatFacts
  <2>2. \A i \in 1 .. Len(c) : t[i] = c[i]
    <3> TAKE i \in 1 .. Len(c)
    <3> QED
      BY <1>4, <1>5, ConcatFacts
  <2> QED
    BY <1>1, <1>4, <1>5, <2>1, <2>2
<1>9. \A i \in 1 .. (Len(o) - 1) : t[n + 1 + i] = Lost(o[i + 1])
  <2> TAKE i \in 1 .. (Len(o) - 1)
  <2>1. t[Len(c) + i] = q[i]
    BY <1>4, <1>5, ConcatFacts, SMTT(60)
  <2> QED
    BY <1>4, <1>5, <2>1
<1> HIDE DEF s, t
<1>10. ASSUME NEW i \in 1 .. (n + Len(o)) PROVE s[i] = t[i]
  <2>1. CASE i \in 1 .. n
    BY <1>1, <1>5, <1>6, <1>8, <2>1
  <2>2. CASE i = n + 1
    <3>1. t[i] = m /\ s[i] = Lost(o[1])
      BY <1>1, <1>5, <1>7, <1>8, <2>2
    <3> QED
      BY <3>1
  <2>3. CASE i \notin 1 .. (n + 1)
    <3> DEFINE k == i - (n + 1)
    <3>1. k \in 1 .. (Len(o) - 1) /\ i = n + 1 + k /\ i = n + (k + 1) /\ k + 1 \in 1 .. Len(o)
      BY <1>1, <2>3
    <3> HIDE DEF k
    <3>2. t[n + 1 + k] = Lost(o[k + 1]) /\ s[n + (k + 1)] = Lost(o[k + 1])
      BY <1>7, <1>9, <3>1
    <3> QED
      BY <3>1, <3>2
  <2> QED
    BY <1>1, <2>1, <2>2, <2>3
<1>11. s = t
  BY <1>6, <1>8, <1>10
<1> QED
  BY <1>11 DEF s, t, p, q, c

\* Closing the calls that are open in the conversation does not change it.
LEMMA ClosedTalk ==
    ASSUME NEW h \in Seq(Msg)
    PROVE  Conversation(h \o Placeholders(Standing(h).open)) = Conversation(h)
<1> DEFINE F(a) == a \o Placeholders(Standing(a).open)
           G == {n \in Nat : \A a \in Seq(Msg) :
                    Len(Standing(a).open) = n => Conversation(F(a)) = Conversation(a)}
<1>1. 0 \in G
  <2> SUFFICES ASSUME NEW a \in Seq(Msg), Len(Standing(a).open) = 0
               PROVE  Conversation(F(a)) = Conversation(a)
    OBVIOUS
  <2>1. Standing(a).open = <<>>
    BY StandingType
  <2>2. Placeholders(<<>>) = <<>>
    BY DEF Placeholders
  <2>3. F(a) = a
    BY <2>1, <2>2, ConcatEmptySeq
  <2> QED
    BY <2>3
<1>2. ASSUME NEW n \in Nat \ {0}, n - 1 \in G PROVE n \in G
  <2> SUFFICES ASSUME NEW a \in Seq(Msg), Len(Standing(a).open) = n
               PROVE  Conversation(F(a)) = Conversation(a)
    OBVIOUS
  <2> DEFINE r == Standing(a)
             o == r.open
             m == Lost(o[1])
             b == Append(a, m)
  <2>1. /\ r.out \in Seq(Msg) /\ o \in Seq(CallId) /\ o # <<>>
        /\ Conversation(a) = r.out \o Placeholders(o)
    <3>1. /\ Standing(a).out \in Seq(Msg) /\ Standing(a).open \in Seq(CallId)
          /\ Conversation(a) = Closed(Standing(a))
      BY StandingType
    <3> QED
      BY <3>1 DEF Closed
  <2>2. /\ o[1] \in CallId /\ Contains(o, o[1]) /\ RemoveFirst(o, o[1]) = Tail(o)
        /\ Tail(o) \in Seq(CallId) /\ Len(Tail(o)) = n - 1
    BY <2>1, HeadRemoved
  <2>3. m \in Msg /\ m.role = "tool" /\ m.id = o[1] /\ Unnoted(m) = m
    BY <2>2, LostIs
  <2>4. b \in Seq(Msg)
    BY <2>3, AppendFacts
  <2> HIDE DEF m
  <2>5. Standing(b) = RepairOne(r, m)
    BY <2>3, StandingAnswered
  <2>6. Standing(b) = [out |-> Append(r.out, m), open |-> Tail(o)]
    BY <2>2, <2>3, <2>5 DEF RepairOne
  <2>7. Standing(b).out = Append(r.out, m) /\ Standing(b).open = Tail(o)
    BY <2>6
  <2>8. Conversation(b \o Placeholders(Tail(o))) = Conversation(b)
    <3>1. Len(Standing(b).open) = n - 1
      BY <2>2, <2>7
    <3>2. Conversation(F(b)) = Conversation(b)
      BY <1>2, <2>4, <3>1
    <3> QED
      BY <2>7, <3>2
  <2>9. Conversation(b) = Append(r.out, m) \o Placeholders(Tail(o))
    <3>1. Conversation(b) = Closed(Standing(b))
      BY ConversationIs
    <3> QED
      BY <2>7, <3>1 DEF Closed
  <2>10. r.out \o Placeholders(o) = Append(r.out, m) \o Placeholders(Tail(o))
    BY <2>1, PlaceholdersHead DEF m
  <2>11. a \o Placeholders(o) = b \o Placeholders(Tail(o))
    BY <2>1, PlaceholdersHead DEF m
  <2> QED
    BY <2>1, <2>8, <2>9, <2>10, <2>11
<1>3. Len(Standing(h).open) \in Nat
  BY StandingType, SeqFacts
<1> DEFINE n == Len(Standing(h).open)
<1> HIDE DEF G
<1>4. n \in G
  <2> HIDE DEF n
  <2>1. n \in Nat
    BY <1>3 DEF n
  <2>2. \A i \in 1 .. n : i - 1 \in G => i \in G
    BY <1>2, <2>1
  <2>3. \A i \in 0 .. n : i \in G
    BY <1>1, <2>1, <2>2, Induction
  <2> QED
    BY <2>1, <2>3
<1> QED
  BY <1>4 DEF G

\* How far the repair of h has the same to say as h.
Mended(h) ==
    LET p == RepairSoFar(h)
    IN  /\ Conversation(Repair(h)) = Conversation(h) /\ Sound(Repair(h))
        /\ p.open = <<>> \/ (Standing(p.out) = Standing(h) /\ p.open = Standing(h).open)

\* The repair so far waits for the calls the conversation waits for.
LEMMA MendedAlike ==
    ASSUME NEW h \in Seq(Msg),
           Standing(RepairSoFar(h).out) = Standing(h), RepairSoFar(h).open = Standing(h).open
    PROVE  Conversation(Repair(h)) = Conversation(h)
<1> DEFINE a == RepairSoFar(h).out
<1>1. a \in Seq(Msg) /\ Repair(h) = a \o Placeholders(Standing(a).open)
  BY StandingType, RepairIsClosed DEF Closed
<1> HIDE DEF a
<1>2. Conversation(Repair(h)) = Conversation(a)
  BY <1>1, ClosedTalk
<1>3. Conversation(a) = Conversation(h)
  BY ConversationIs DEF a
<1> QED
  BY <1>2, <1>3

LEMMA MendedStep ==
    ASSUME NEW g \in Seq(Msg), NEW m \in Msg, FeedsSome(Append(g, m)), FeedsSome(g), Mended(g)
    PROVE  Mended(Append(g, m))
<1> DEFINE h == Append(g, m)
           p == RepairSoFar(g)
           q == RepairSoFar(h)
           u == Unnoted(m)
           G == Repair(g)
<1>1. /\ h \in Seq(Msg) /\ q = RepairOne(p, m) /\ G = Closed(p)
      /\ Repair(h) = Closed(q)
  BY AppendFacts, RepairGrows, RepairIsClosed
<1>2. PICK w : Awaits(h, w)
  BY <1>1, FeedsAwaits
<1>3. PICK v : Awaits(g, v) /\ (m.role = "tool" => m.id \in v)
  BY <1>2, AwaitsBefore
<1>4. /\ Sound(g) /\ Sound(h) /\ v \subseteq ToSet(p.open)
  BY <1>1, <1>2, <1>3, FedStands
<1>5. /\ p.out \in Seq(Msg) /\ p.open \in Seq(CallId)
      /\ q.out \in Seq(Msg) /\ q.open \in Seq(CallId)
      /\ Standing(g).out \in Seq(Msg) /\ Standing(g).open \in Seq(CallId)
      /\ Standing(h).out \in Seq(Msg) /\ Standing(h).open \in Seq(CallId)
      /\ Standing(q.out).out \in Seq(Msg) /\ Standing(q.out).open \in Seq(CallId)
      /\ Conversation(h) = Closed(Standing(h))
  <2>1. q.out \in Seq(Msg) /\ q.open \in Seq(CallId)
    BY <1>1, StandingType
  <2> QED
    BY <1>1, <2>1, StandingType
<1>6. G \in Seq(Msg)
  BY <1>1, <1>5, ClosedEnds
<1>7. /\ Conversation(G) = Conversation(g) /\ Sound(G)
      /\ p.open = <<>> \/ (Standing(p.out) = Standing(g) /\ p.open = Standing(g).open)
  BY DEF Mended
<1>8. ToSet(<<>>) = {}
  BY EmptyContents
<1> HIDE DEF h, p, q, u, G
<1>9. CASE m.role = "tool"
  <2>1. m.id \in ToSet(p.open)
    BY <1>3, <1>4, <1>9
  <2>2. Standing(p.out) = Standing(g) /\ p.open = Standing(g).open
    BY <1>7, <1>8, <2>1
  <2>3. q.out = Append(p.out, m) /\ q.open = RemoveFirst(p.open, m.id)
    BY <1>1, <1>3, <1>4, <1>5, <1>9, AnswerTaken
  <2>4. /\ Standing(q.out) = RepairOne(Standing(p.out), u) /\ Standing(h) = RepairOne(Standing(g), u)
        /\ u \in Msg /\ u.role = "tool" /\ u.id = m.id
    BY <1>5, <1>9, <2>3, StandingAnswered DEF u, h
  <2>5. Standing(q.out) = Standing(h)
    BY <2>2, <2>4
  <2>6. {u.id} \subseteq ToSet(Standing(g).open) /\ u.id \in {u.id}
    BY <2>1, <2>2, <2>4
  <2>7. /\ Standing(h).open = RemoveFirst(Standing(g).open, u.id)
        /\ Standing(h).out = Append(Standing(g).out, u)
    BY <1>5, <2>4, <2>6, AnswerTaken
  <2>8. q.open = Standing(h).open
    BY <2>2, <2>3, <2>4, <2>7
  <2>9. Conversation(Repair(h)) = Conversation(h)
    BY <1>1, <2>5, <2>8, MendedAlike DEF q
  <2>10. Sound(Repair(h))
    <3> DEFINE s == Standing(g).out
    <3>1. s \in Seq(Msg) /\ Standing(h).out = Append(s, u)
      BY <1>5, <2>7
    <3> HIDE DEF s
    <3>2. Standing(h).out # <<>> /\ Last(Standing(h).out).role # "user"
      BY <2>4, <3>1, AppendFacts
    <3>3. ~EndsWithUser(Conversation(h))
      BY <1>5, <3>2, ClosedEnds
    <3> QED
      BY <2>9, <3>3 DEF Sound
  <2> QED
    BY <2>5, <2>8, <2>9, <2>10 DEF Mended, q, h
<1>10. CASE m.role # "tool" /\ Aside(u)
  <2>1. q.out = Append(G, m) /\ q.open = OpenIds(m) /\ OpenIds(m) = <<>>
    BY <1>1, <1>10, ClosesFirst, UnnotedFacts DEF u
  <2>2. Repair(h) = Append(G, m)
    BY <1>1, <1>5, <2>1, ClosedNothing
  <2>3. Conversation(Append(G, m)) = Conversation(G) /\ Sound(Append(G, m))
    BY <1>6, <1>7, <1>10, StandingStays DEF u
  <2>4. Conversation(h) = Conversation(g)
    BY <1>10, StandingStays DEF u, h
  <2> QED
    BY <1>7, <2>1, <2>2, <2>3, <2>4 DEF Mended, q, h
<1>11. CASE m.role # "tool" /\ ~Aside(u)
  <2>1. q.out = Append(G, m) /\ q.open = OpenIds(m)
    BY <1>1, <1>11, ClosesFirst
  <2>2. /\ Standing(q.out) = [out |-> MergeOne("user", Conversation(G), u), open |-> OpenIds(m)]
        /\ Sound(q.out)
    BY <1>6, <1>7, <1>11, <2>1, StandingSays DEF u
  <2>3. Standing(h) = [out |-> MergeOne("user", Conversation(g), u), open |-> OpenIds(m)]
    BY <1>4, <1>11, StandingSays DEF u, h
  <2>4. Standing(q.out) = Standing(h) /\ q.open = Standing(h).open
    BY <1>7, <2>1, <2>2, <2>3
  <2>5. Conversation(Repair(h)) = Conversation(h)
    BY <1>1, <2>4, MendedAlike DEF q
  <2>6. Sound(Repair(h))
    <3>1. CASE q.open = <<>>
      <4>1. Repair(h) = q.out
        BY <1>1, <1>5, <3>1, ClosedNothing
      <4> QED
        BY <2>2, <4>1
    <3>2. CASE q.open # <<>>
      <4>1. ~EndsWithUser(Conversation(h))
        BY <1>5, <2>4, <3>2, ClosedEnds
      <4> QED
        BY <2>5, <4>1 DEF Sound
    <3> QED
      BY <3>1, <3>2
  <2> QED
    BY <2>4, <2>5, <2>6 DEF Mended, q, h
<1> QED
  BY <1>9, <1>10, <1>11 DEF h

\* Repairing a history whose tool messages all answer open calls leaves its
\* conversation as it is.
LEMMA RepairTalk ==
    ASSUME NEW h \in Seq(Msg), FeedsSome(h)
    PROVE  Conversation(Repair(h)) = Conversation(h)
<1> DEFINE G == {g \in Seq(Msg) : FeedsSome(g) => Mended(g)}
<1>1. <<>> \in G
  <2>1. <<>> \in Seq(Msg)
    OBVIOUS
  <2>2. RepairSoFar(<<>>).open = <<>> /\ Repair(<<>>) = <<>>
    <3>1. RepairBase.out \in Seq(Msg) /\ RepairBase.open = <<>> /\ RepairBase.out = <<>>
      BY <2>1 DEF RepairBase
    <3>2. Closed(RepairBase) = <<>>
      BY <3>1, ClosedNothing
    <3> QED
      BY <3>1, <3>2, NothingRuns, RepairIsClosed
  <2>3. Sound(<<>>)
    BY AwaitsNone, FedStands, <2>1
  <2> QED
    BY <2>1, <2>2, <2>3 DEF Mended
<1>2. ASSUME NEW g \in Seq(Msg), NEW m \in Msg, g \in G PROVE Append(g, m) \in G
  <2>0. Append(g, m) \in Seq(Msg)
    BY AppendFacts
  <2> SUFFICES ASSUME FeedsSome(Append(g, m)) PROVE Mended(Append(g, m))
    BY <2>0
  <2>1. FeedsSome(g)
    <3>1. PICK w : Awaits(Append(g, m), w)
      BY <2>0, FeedsAwaits
    <3>2. \E v : Awaits(g, v)
      BY <3>1, AwaitsBefore
    <3> QED
      BY <3>2, FeedsAwaits
  <2>2. Mended(g)
    BY <1>2, <2>1
  <2> QED
    BY <2>1, <2>2, MendedStep
<1> HIDE DEF G
<1>3. h \in G
  BY <1>1, <1>2, HistoryInduction
<1> QED
  BY <1>3 DEF G, Mended

\* A user message merged into one before it, both without their notes.
LEMMA UnnotedJoins ==
    ASSUME NEW x \in Msg, NEW m \in Msg, x.role = "user", m.role = "user"
    PROVE  LET a == Unnoted(x).text
               b == Unnoted(m).text
               u == User(x.text \cup m.text)
           IN  /\ u \in Msg /\ Unnoted(u) = User(a \cup b)
               /\ Unnoted(x) = User(a) /\ Unnoted(m) = User(b)
               /\ a \in SUBSET (Kinds \X Nat) /\ b \in SUBSET (Kinds \X Nat)
<1> DEFINE F(s) == {y \in s : y[1] \notin {"pending", "known"}}
           a == Unnoted(x).text
           b == Unnoted(m).text
           s == x.text \cup m.text
           u == User(s)
<1>1. /\ Unnoted(x) \in Msg /\ Unnoted(m) \in Msg /\ Unnoted(x).role = "user"
      /\ Unnoted(m).role = "user" /\ a = F(x.text) /\ b = F(m.text)
      /\ a \in SUBSET (Kinds \X Nat) /\ b \in SUBSET (Kinds \X Nat)
      /\ x.text \in SUBSET (Kinds \X Nat) /\ m.text \in SUBSET (Kinds \X Nat)
  BY UnnotedFacts
<1>2. Unnoted(x) = User(a) /\ Unnoted(m) = User(b)
  BY <1>1, UserIs
<1>3. s \in SUBSET (Kinds \X Nat) /\ F(s) = a \cup b
  BY <1>1
<1> HIDE DEF F, s
<1>4. u \in Msg /\ u.role = "user" /\ u.text = s
  BY <1>3, UserFacts
<1> HIDE DEF u
<1>5. Unnoted(u) \in Msg /\ Unnoted(u).role = "user" /\ Unnoted(u).text = F(s)
  BY <1>4, UnnotedFacts DEF F
<1>6. Unnoted(u) = User(F(s))
  BY <1>5, UserIs
<1> QED
  BY <1>1, <1>2, <1>3, <1>4, <1>6 DEF u, s

\* Two user messages are said as one.
LEMMA TwoUsers ==
    ASSUME NEW T \in Seq(Msg), NEW A \in Msg, NEW B \in Msg, A.role = "user", B.role = "user"
    PROVE  MergeOne("user", MergeOne("user", T, A), B)
             = MergeOne("user", T, User(A.text \cup B.text))
<1> DEFINE a == A.text
           b == B.text
           s == a \cup b
           C == User(s)
<1>1. /\ a \in SUBSET (Kinds \X Nat) /\ b \in SUBSET (Kinds \X Nat)
      /\ A.text = a /\ B.text = b
  BY MsgFacts
<1>2. s \in SUBSET (Kinds \X Nat)
  BY <1>1
<1> HIDE DEF a, b, s
<1>3. C \in Msg /\ C.role = "user" /\ C.text = s
  BY <1>2, UserFacts
<1> HIDE DEF C
<1>4. CASE ~EndsWithUser(T)
  <2>1. MergeOne("user", T, A) = Append(T, A) /\ MergeOne("user", T, C) = Append(T, C)
    BY <1>3, <1>4, MergeOneIs
  <2>2. MergeOne("user", Append(T, A), B) = Append(T, User(A.text \cup B.text))
    BY UsersJoin
  <2> QED
    BY <1>1, <2>1, <2>2 DEF C, s
<1>5. CASE EndsWithUser(T)
  <2>1. PICK t \in Seq(Msg), x \in Msg : T = Append(t, x) /\ Last(T) = x
    BY <1>5, LastApart DEF EndsWithUser
  <2>2. x.role = "user" /\ x.text \in SUBSET (Kinds \X Nat)
    BY <1>5, <2>1, MsgFacts DEF EndsWithUser
  <2> DEFINE X == User(x.text \cup a)
  <2>3. x.text \cup a \in SUBSET (Kinds \X Nat)
    BY <1>1, <2>2
  <2>4. X \in Msg /\ X.role = "user" /\ X.text = x.text \cup a
    BY <2>3, UserFacts
  <2>5. MergeOne("user", T, A) = Append(t, X)
    BY <1>1, <2>1, <2>2, UsersJoin
  <2>6. MergeOne("user", T, C) = Append(t, User(x.text \cup s))
    BY <1>3, <2>1, <2>2, UsersJoin
  <2> HIDE DEF X
  <2>7. MergeOne("user", Append(t, X), B) = Append(t, User(X.text \cup b))
    BY <1>1, <2>4, UsersJoin, ZenonT(60)
  <2>8. X.text \cup b = x.text \cup s
    BY <2>4 DEF s
  <2> QED
    BY <2>5, <2>6, <2>7, <2>8 DEF C, s, a, b
<1> QED
  BY <1>4, <1>5

\* Merging user messages first does not change what is said.
LEMMA MergeTalk ==
    ASSUME NEW h \in Seq(Msg)
    PROVE  MergeUsers(h) \in Seq(Msg) /\ Talk(MergeUsers(h)) = Talk(h)
<1> DEFINE G == {g \in Seq(Msg) : MergeUsers(g) \in Seq(Msg) /\ Talk(MergeUsers(g)) = Talk(g)}
<1>1. <<>> \in G
  <2>1. <<>> \in Seq(Msg)
    OBVIOUS
  <2> QED
    BY <2>1, NothingRuns
<1>2. ASSUME NEW g \in Seq(Msg), NEW m \in Msg, g \in G PROVE Append(g, m) \in G
  <2> DEFINE M == MergeUsers(g)
             N == MergeUsers(Append(g, m))
             um == Unnoted(m)
  <2>1. /\ M \in Seq(Msg) /\ Talk(M) = Talk(g) /\ N = MergeOne("user", M, m)
        /\ Append(g, m) \in Seq(Msg) /\ Talk(g) \in Seq(Msg)
    BY <1>2, MergeGrows, AppendFacts, StandingType
  <2>2. N \in Seq(Msg)
    BY <2>1, MergeOneIs
  <2>3. Talk(Append(g, m)) = IF Aside(um) THEN Talk(g) ELSE MergeOne("user", Talk(g), um)
    BY TalkGrows
  <2> HIDE DEF M, N, G, um
  <2>4. CASE ~(m.role = "user" /\ EndsWithUser(M))
    <3>1. N = Append(M, m)
      BY <2>1, <2>4, MergeOneIs
    <3>2. Talk(N) = IF Aside(um) THEN Talk(M) ELSE MergeOne("user", Talk(M), um)
      BY <2>1, <3>1, TalkGrows DEF um
    <3> QED
      BY <2>1, <2>2, <2>3, <3>2 DEF G, N
  <2>5. CASE m.role = "user" /\ EndsWithUser(M)
    <3>1. PICK t \in Seq(Msg), x \in Msg : M = Append(t, x) /\ Last(M) = x
      BY <2>1, <2>5, LastApart DEF EndsWithUser
    <3>2. x.role = "user"
      BY <2>5, <3>1 DEF EndsWithUser
    <3> DEFINE a == Unnoted(x).text
               b == um.text
               u == User(x.text \cup m.text)
               T == Talk(t)
    <3>3. N = Append(t, u)
      BY <2>1, <2>5, <3>1, <3>2, UsersJoin
    <3>4. /\ u \in Msg /\ Unnoted(u) = User(a \cup b)
          /\ Unnoted(x) = User(a) /\ um = User(b)
          /\ a \in SUBSET (Kinds \X Nat) /\ b \in SUBSET (Kinds \X Nat)
      BY <2>5, <3>2, UnnotedJoins DEF um
    <3>5. T \in Seq(Msg)
      BY StandingType
    <3> HIDE DEF a, b, u, T
    <3>6. \A s \in SUBSET (Kinds \X Nat) : Aside(User(s)) <=> s = {}
      BY UserFacts DEF Aside
    <3>7. a \cup b \in SUBSET (Kinds \X Nat)
      BY <3>4
    <3>8. Talk(N) = IF a \cup b = {} THEN T ELSE MergeOne("user", T, User(a \cup b))
      BY <3>3, <3>4, <3>6, <3>7, TalkGrows DEF T
    <3>9. Talk(M) = IF a = {} THEN T ELSE MergeOne("user", T, User(a))
      BY <3>1, <3>4, <3>6, TalkGrows DEF T
    <3>10. Talk(Append(g, m)) = IF b = {} THEN Talk(M) ELSE MergeOne("user", Talk(M), User(b))
      BY <2>1, <2>3, <3>4, <3>6
    <3>11. Talk(N) = Talk(Append(g, m))
      <4>1. CASE b = {}
        <5>1. a \cup b = a
          BY <4>1
        <5> QED
          BY <3>8, <3>9, <3>10, <4>1, <5>1
      <4>2. CASE b # {} /\ a = {}
        <5>1. a \cup b = b
          BY <4>2
        <5> QED
          BY <3>8, <3>9, <3>10, <4>2, <5>1
      <4>3. CASE b # {} /\ a # {}
        <5>1. a \cup b # {}
          BY <4>3
        <5>2. MergeOne("user", MergeOne("user", T, User(a)), User(b))
                = MergeOne("user", T, User(a \cup b))
          <6> DEFINE A == User(a)
                     B == User(b)
          <6>1. A \in Msg /\ A.role = "user" /\ A.text = a
            BY <3>4, UserFacts
          <6>2. B \in Msg /\ B.role = "user" /\ B.text = b
            BY <3>4, UserFacts
          <6> HIDE DEF A, B
          <6>3. MergeOne("user", MergeOne("user", T, A), B) = MergeOne("user", T, User(a \cup b))
            BY <3>5, <6>1, <6>2, TwoUsers, SMTT(60)
          <6> QED
            BY <6>3 DEF A, B
        <5> QED
          BY <3>8, <3>9, <3>10, <4>3, <5>1, <5>2
      <4> QED
        BY <4>1, <4>2, <4>3
    <3> QED
      BY <2>1, <2>2, <3>11 DEF G, N
  <2> QED
    BY <2>4, <2>5
<1> HIDE DEF G
<1>3. h \in G
  BY <1>1, <1>2, HistoryInduction
<1> QED
  BY <1>3 DEF G

\* What a resume makes of a history says the same.
LEMMA NormaliseTalk ==
    ASSUME NEW h \in Seq(Msg), FeedsSome(h)
    PROVE  Conversation(Normalise(h, FALSE)) = Conversation(h)
<1> DEFINE g == MergeUsers(h)
<1>1. g \in Seq(Msg) /\ Talk(g) = Talk(h)
  BY MergeTalk
<1>2. FeedsSome(g)
  <2>1. MergedFrom(g, h)
    BY MergeUsersMerged
  <2>2. PICK w : Awaits(h, w)
    BY FeedsAwaits
  <2>3. Awaits(g, w)
    BY <2>1, <2>2 DEF MergedFrom
  <2> QED
    BY <1>1, <2>3, FeedsAwaits
<1>3. Normalise(h, FALSE) = Repair(g)
  BY DEF Normalise
<1> HIDE DEF g
<1>4. Conversation(Repair(g)) = Conversation(g)
  BY <1>1, <1>2, RepairTalk
<1>5. Conversation(g) = Conversation(h)
  BY <1>1, ConversationIs DEF Standing
<1> QED
  BY <1>3, <1>4, <1>5

\* Two histories that say the same still do when a message joins both.
LEMMA BothHear ==
    ASSUME NEW h \in Seq(Msg), NEW j \in Seq(Msg), FeedsSome(h), FeedsSome(j),
           Conversation(h) = Conversation(j), NEW m \in Msg, m.role # "tool"
    PROVE  /\ Conversation(Append(h, m)) = Conversation(Append(j, m))
           /\ m.role = "assistant" => Standing(Append(h, m)) = Standing(Append(j, m))
<1>1. CASE Aside(Unnoted(m))
  BY <1>1, StandingStays, UnnotedFacts
<1>2. CASE ~Aside(Unnoted(m))
  <2>1. Sound(h) /\ Sound(j)
    BY FeedsAwaits, FedStands
  <2>2. Standing(Append(h, m)) = Standing(Append(j, m))
    BY <1>2, <2>1, StandingSays
  <2> QED
    BY <2>2, ConversationIs
<1> QED
  BY <1>1, <1>2

\* And when a result joins both, if the same calls are open in both.
LEMMA BothAnswered ==
    ASSUME NEW h \in Seq(Msg), NEW j \in Seq(Msg), Standing(h) = Standing(j),
           NEW m \in Msg, m.role = "tool"
    PROVE  /\ Standing(Append(h, m)) = Standing(Append(j, m))
           /\ Conversation(Append(h, m)) = Conversation(Append(j, m))
BY StandingAnswered, ConversationIs
-----------------------------------------------------------------------------
(* Flattening                                                              *)

\* No calls and no results.
Plain(h) == \A m \in ToSet(h) : m.role # "tool" /\ m.calls = <<>>

\* Whatever one message of f says, one message of o says, and o says no more.
Covers(o, f) ==
    /\ \A x \in ToSet(f) : \E y \in ToSet(o) : x.text \subseteq y.text
    /\ Mentions(o) \subseteq Mentions(f) /\ (HasSystem(f) => HasSystem(o))

LEMMA PlainFacts ==
    ASSUME NEW h \in Seq(Msg), Plain(h)
    PROVE  /\ CallsOf(h) = {} /\ CallIds(h) = {} /\ AnsweredIds(h) = {}
           /\ Paired(h) /\ UniqueIds(h) /\ Repair(h) = h
<1>1. /\ Len(h) \in Nat /\ DOMAIN h = 1 .. Len(h)
      /\ \A k \in 1 .. Len(h) : h[k].role # "tool" /\ h[k].calls = <<>> /\ DOMAIN h[k].calls = {}
  BY SeqFacts DEF Plain, ToSet
<1>2. CallsOf(h) = {} /\ CallIds(h) = {} /\ AnsweredIds(h) = {}
  BY <1>1 DEF CallsOf, CallIds, AnsweredIds
<1>3. UniqueIds(h)
  BY <1>1 DEF UniqueIds
<1>4. Paired(h)
  <2>1. <<>> \in Seq(Msg) /\ h \o <<>> = h
    BY ConcatEmptySeq
  <2>2. Owes(<<>>, <<>>)
    BY DEF Owes
  <2>3. Owes(h \o <<>>, <<>>)
    BY <1>1, <2>1, <2>2, OwesAfterPlain
  <2> QED
    BY <2>1, <2>3, PairedOwes
<1> QED
  BY <1>2, <1>3, <1>4, RepairExact

LEMMA MergeAssistantCovers ==
    ASSUME NEW o \in Seq(Msg), Plain(o), NEW f \in Seq(Msg), Covers(o, f),
           NEW m \in Msg, m.role # "tool", m.calls = <<>>,
           NEW q, q = MergeOne("assistant", o, m)
    PROVE  q \in Seq(Msg) /\ Plain(q) /\ Covers(q, Append(f, m))
<1>0. /\ ToSet(Append(f, m)) = ToSet(f) \cup {m} /\ Mentions(q) \subseteq Mentions(Append(f, m))
      /\ HasSystem(Append(f, m)) => HasSystem(q)
  <2>1. Added(o, m, q)
    BY MergeOneAdds
  <2>2. Mentions(q) = Mentions(o) \cup m.text
    BY <2>1 DEF Added
  <2>3. HasSystem(Append(f, m)) => HasSystem(q)
    BY AppendSystem, MergeSystem DEF Covers
  <2> QED
    BY <2>2, <2>3, AppendContents DEF Covers
<1>1. CASE q = Append(o, m)
  <2>1. q \in Seq(Msg)
    BY <1>1, AppendMembers
  <2>2. ToSet(q) = ToSet(o) \cup {m}
    BY <1>1, AppendMembers
  <2>3. Plain(q)
    BY <2>2 DEF Plain
  <2>4. Covers(q, Append(f, m))
    BY <1>0, <2>2 DEF Covers
  <2> QED
    BY <2>1, <2>3, <2>4
<1>2. CASE Grown(o, m.text, q)
  <2> DEFINE n == Len(o)
  <2>1. /\ n \in Nat /\ n \in 1 .. n /\ DOMAIN o = 1 .. n /\ DOMAIN q = 1 .. n /\ q \in Seq(Msg)
        /\ \A i \in 1 .. (n - 1) : q[i] = o[i]
        /\ q[n].text = o[n].text \cup m.text
        /\ \A i \in 1 .. n : q[i].role = o[i].role /\ q[i].calls = o[i].calls
    <3>1. /\ q \in Seq(Msg) /\ Len(q) = n /\ n \in 1 .. n
          /\ \A i \in 1 .. (n - 1) : q[i] = o[i]
          /\ q[n].text = o[n].text \cup m.text
          /\ \A i \in 1 .. n : q[i].role = o[i].role /\ q[i].calls = o[i].calls
      BY <1>2 DEF Grown, Alike
    <3>2. n \in Nat /\ DOMAIN o = 1 .. n /\ DOMAIN q = 1 .. Len(q)
      BY <3>1, SeqFacts
    <3> HIDE DEF n
    <3> QED
      BY <3>1, <3>2
  <2> HIDE DEF n
  <2>2. \A i \in 1 .. n : i = n \/ i \in 1 .. (n - 1)
    BY <2>1
  <2>3. \A i \in 1 .. n : o[i].text \subseteq q[i].text
    BY <2>1, <2>2
  <2>4. Plain(q)
    BY <2>1 DEF Plain, ToSet
  <2>5. \A x \in ToSet(o) : \E y \in ToSet(q) : x.text \subseteq y.text
    BY <2>1, <2>3 DEF ToSet
  <2>6. m.text \subseteq q[n].text /\ q[n] \in ToSet(q)
    BY <2>1 DEF ToSet
  <2>7. Covers(q, Append(f, m))
    <3>1. ASSUME NEW x \in ToSet(f) PROVE \E y \in ToSet(q) : x.text \subseteq y.text
      <4>1. PICK z \in ToSet(o) : x.text \subseteq z.text
        BY DEF Covers
      <4>2. PICK y \in ToSet(q) : z.text \subseteq y.text
        BY <2>5
      <4> QED
        BY <4>1, <4>2
    <3>2. \E y \in ToSet(q) : m.text \subseteq y.text
      BY <2>6
    <3> QED
      BY <1>0, <3>1, <3>2 DEF Covers
  <2> QED
    BY <2>1, <2>4, <2>7
<1>3. q = Append(o, m) \/ Grown(o, m.text, q)
  <2>1. \/ q = Append(o, m) /\ ~(m.role = "assistant" /\ o # <<>> /\ Last(o).role = "assistant")
        \/ m.role = "assistant" /\ o # <<>> /\ Last(o).role = "assistant" /\ Grown(o, m.text, q)
    BY MergeCases
  <2> QED
    BY <2>1
<1> QED
  BY <1>1, <1>2, <1>3

LEMMA MergeAssistantsCover ==
    ASSUME NEW h \in Seq(Msg), Plain(h)
    PROVE  /\ MergeAssistants(h) \in Seq(Msg) /\ Plain(MergeAssistants(h))
           /\ Covers(MergeAssistants(h), h)
<1>1. /\ Len(h) \in Nat /\ DOMAIN h = 1 .. Len(h)
      /\ \A i \in 1 .. Len(h) : h[i] \in Msg /\ h[i].role # "tool" /\ h[i].calls = <<>>
  BY SeqFacts DEF Plain, ToSet
<1>2. PICK r : IsRun(r, "merge", "assistant", <<>>, h, Len(h)) /\ r[Len(h)] = MergeAssistants(h)
  BY <1>1, MergeAssistantsRun
<1> DEFINE S == {i \in 0 .. Len(h) : r[i] \in Seq(Msg) /\ Plain(r[i]) /\ Covers(r[i], Prefix(h, i))}
<1>3. 0 \in S
  <2>1. r[0] = <<>> /\ Prefix(h, 0) = <<>> /\ 0 \in 0 .. Len(h) /\ <<>> \in Seq(Msg)
    BY <1>1, <1>2, PrefixFacts DEF IsRun
  <2>2. Plain(<<>>) /\ Covers(<<>>, <<>>)
    BY EmptyContents DEF Plain, Covers
  <2> QED
    BY <2>1, <2>2
<1>4. ASSUME NEW i \in 1 .. Len(h), i - 1 \in S PROVE i \in S
  <2> DEFINE o == r[i - 1]
             q == r[i]
             f == Prefix(h, i - 1)
             m == h[i]
  <2>1. /\ f \in Seq(Msg) /\ m \in Msg /\ m.role # "tool" /\ m.calls = <<>>
        /\ Prefix(h, i) = Append(f, m)
        /\ o \in Seq(Msg) /\ Plain(o) /\ Covers(o, f)
    <3>1. i - 1 \in 0 .. Len(h)
      BY <1>1
    <3> QED
      BY <1>1, <1>4, <3>1, PrefixFacts
  <2>2. q = MergeOne("assistant", o, m)
    BY <1>1, <1>2 DEF IsRun, Step
  <2> HIDE DEF o, q, f, m
  <2>3. q \in Seq(Msg) /\ Plain(q) /\ Covers(q, Append(f, m))
    BY <2>1, <2>2, MergeAssistantCovers
  <2>4. r[i] \in Seq(Msg) /\ Plain(r[i]) /\ Covers(r[i], Prefix(h, i))
    BY <2>1, <2>3 DEF q
  <2>5. i \in 0 .. Len(h)
    BY <1>1
  <2> QED
    BY <2>4, <2>5
<1> HIDE DEF S
<1>5. \A i \in 0 .. Len(h) : i \in S
  BY <1>1, <1>3, <1>4, Induction
<1>6. Len(h) \in S /\ Prefix(h, Len(h)) = h
  BY <1>1, <1>5, PrefixFacts
<1> QED
  BY <1>2, <1>6 DEF S

\* The lines for the calls and the results of a history.
Uses(h) == {<<"use", id>> : id \in CallIds(h) \cup AnsweredIds(h)}

\* r flattens f: a line for every result, and open keeps every call without one.
Flattening(r, f) ==
    /\ Mentions(r.out) \subseteq Mentions(f) \cup Uses(f)
    /\ HasSystem(f) => HasSystem(r.out)
    /\ r.out \in Seq(Msg) /\ Plain(r.out) /\ r.open \subseteq CallIds(f)
    /\ \A m \in Tools(f) :
          \E y \in ToSet(r.out) : {<<"use", m.id>>} \cup m.text \subseteq y.text
    /\ CallIds(f) \subseteq r.open \cup AnsweredIds(f)

LEMMA FlatteningStep ==
    ASSUME NEW f \in Seq(Msg), NEW r, Flattening(r, f), NEW m \in Msg, NEW q, q = FlattenOne(r, m)
    PROVE  Flattening(q, Append(f, m))
<1> DEFINE g == Append(f, m)
           o == r.out
<1>1. /\ o \in Seq(Msg) /\ Plain(o) /\ r.open \subseteq CallIds(f)
      /\ \A x \in Tools(f) : \E y \in ToSet(o) : {<<"use", x.id>>} \cup x.text \subseteq y.text
      /\ CallIds(f) \subseteq r.open \cup AnsweredIds(f)
      /\ Mentions(o) \subseteq Mentions(f) \cup Uses(f) /\ (HasSystem(f) => HasSystem(o))
  BY DEF Flattening
<1>2. /\ HasSystem(g) <=> HasSystem(f) \/ m.role = "system"
      /\ CallIds(g) = CallIds(f) \cup Ids(m) /\ Mentions(g) = Mentions(f) \cup m.text
      /\ AnsweredIds(g) = AnsweredIds(f) \cup IF m.role = "tool" THEN {m.id} ELSE {}
      /\ Tools(g) = Tools(f) \cup IF m.role = "tool" THEN {m} ELSE {}
  BY AppendAdds, AppendSystem DEF Added
<1>2a. Uses(f) \subseteq Uses(g) /\ (m.role = "tool" => <<"use", m.id>> \in Uses(g))
  BY <1>2 DEF Uses
<1> HIDE DEF g, o
<1>3. CASE m.role = "tool"
  <2> DEFINE line == Assistant({<<"use", m.id>>} \cup m.text)
  <2>1. line \in Msg /\ line.role # "tool" /\ line.calls = <<>>
        /\ line.text = {<<"use", m.id>>} \cup m.text
    <3>1. m.id \in Nat /\ m.text \in SUBSET (Kinds \X Nat)
      BY MsgFacts
    <3>2. {<<"use", m.id>>} \cup m.text \in SUBSET (Kinds \X Nat)
      BY <3>1 DEF Kinds
    <3> QED
      BY <3>2 DEF Assistant, Message, Msg, NoCall
  <2>2. q.out = Append(o, line) /\ q.open = r.open \ {m.id}
    BY <1>3 DEF FlattenOne, o
  <2> HIDE DEF line
  <2>3. q.out \in Seq(Msg) /\ ToSet(q.out) = ToSet(o) \cup {line}
    BY <1>1, <2>1, <2>2, AppendFacts, AppendContents
  <2>4. Plain(q.out)
    BY <1>1, <2>1, <2>3 DEF Plain
  <2>5. Ids(m) = {}
    BY <1>3, MsgFacts
  <2>6. q.open \subseteq CallIds(g) /\ CallIds(g) \subseteq q.open \cup AnsweredIds(g)
    BY <1>1, <1>2, <1>3, <2>2, <2>5
  <2>7. \A x \in Tools(g) : \E y \in ToSet(q.out) : {<<"use", x.id>>} \cup x.text \subseteq y.text
    <3>1. ASSUME NEW x \in Tools(f)
          PROVE  \E y \in ToSet(q.out) : {<<"use", x.id>>} \cup x.text \subseteq y.text
      BY <1>1, <2>3
    <3>2. \E y \in ToSet(q.out) : {<<"use", m.id>>} \cup m.text \subseteq y.text
      BY <2>1, <2>3
    <3> QED
      BY <1>2, <1>3, <3>1, <3>2
  <2>8. Mentions(q.out) \subseteq Mentions(g) \cup Uses(g)
    <3>1. Mentions(q.out) = Mentions(o) \cup line.text
      BY <1>1, <2>1, <2>2, AppendContents
    <3> QED
      BY <1>2a, <1>1, <1>2, <1>3, <2>1, <3>1
  <2>9. HasSystem(g) => HasSystem(q.out)
    BY <1>1, <1>2, <1>3, <2>1, <2>2, AppendSystem
  <2> QED
    BY <2>3, <2>4, <2>6, <2>7, <2>8, <2>9 DEF Flattening, g
<1>4. CASE m.role = "assistant" /\ m.calls # <<>>
  <2>1. q.out = o /\ q.open = r.open \cup Ids(m)
    BY <1>4 DEF FlattenOne, o, Ids
  <2>2. Tools(g) = Tools(f) /\ AnsweredIds(g) = AnsweredIds(f)
    BY <1>2, <1>4
  <2>3. q.open \subseteq CallIds(g) /\ CallIds(g) \subseteq q.open \cup AnsweredIds(g)
    BY <1>1, <1>2, <2>1, <2>2
  <2>4. Mentions(q.out) \subseteq Mentions(g) \cup Uses(g)
    BY <1>2a, <1>1, <1>2, <2>1
  <2>5. HasSystem(g) => HasSystem(q.out)
    BY <1>1, <1>2, <1>4, <2>1
  <2>6. q.out \in Seq(Msg) /\ Plain(q.out)
        /\ \A x \in Tools(g) : \E y \in ToSet(q.out) : {<<"use", x.id>>} \cup x.text \subseteq y.text
    BY <1>1, <2>1, <2>2
  <2> QED
    BY <2>3, <2>4, <2>5, <2>6 DEF Flattening, g
<1>5. CASE m.role # "tool" /\ ~(m.role = "assistant" /\ m.calls # <<>>)
  <2>1. q.out = Append(o, m) /\ q.open = r.open
    BY <1>5 DEF FlattenOne, o
  <2>2. m.calls = <<>> /\ Ids(m) = {}
    BY <1>5, MsgFacts DEF Ids
  <2>3. q.out \in Seq(Msg) /\ ToSet(q.out) = ToSet(o) \cup {m}
    BY <1>1, <2>1, AppendFacts, AppendContents
  <2>4. Plain(q.out)
    BY <1>1, <1>5, <2>2, <2>3 DEF Plain
  <2>5. Tools(g) = Tools(f) /\ AnsweredIds(g) = AnsweredIds(f) /\ CallIds(g) = CallIds(f)
    BY <1>2, <1>5, <2>2
  <2>6. \A x \in Tools(g) : \E y \in ToSet(q.out) : {<<"use", x.id>>} \cup x.text \subseteq y.text
    BY <1>1, <2>3, <2>5
  <2>7. Mentions(q.out) \subseteq Mentions(g) \cup Uses(g)
    <3>1. Mentions(q.out) = Mentions(o) \cup m.text
      BY <1>1, <2>1, AppendContents
    <3> QED
      BY <1>2a, <1>1, <1>2, <3>1
  <2>8. HasSystem(g) => HasSystem(q.out)
    BY <1>1, <1>2, <2>1, AppendSystem
  <2> QED
    BY <1>1, <2>1, <2>3, <2>4, <2>5, <2>6, <2>7, <2>8 DEF Flattening, g
<1> QED
  BY <1>3, <1>4, <1>5

\* Flattening leaves no calls and no results, and one line for each call, with
\* its result when it has one.
Flattened(o, h) ==
    /\ o \in Seq(Msg) /\ Plain(o) /\ Mentions(o) \subseteq Mentions(h) \cup Uses(h)
    /\ HasSystem(h) => HasSystem(o)
    /\ \A m \in Tools(h) : \E y \in ToSet(o) : {<<"use", m.id>>} \cup m.text \subseteq y.text
    /\ \A id \in CallIds(h) \ AnsweredIds(h) : \E y \in ToSet(o) : <<"use", id>> \in y.text

LEMMA FlattenFlattens ==
    ASSUME NEW h \in Seq(Msg)
    PROVE  Flattened(Flatten(h), h)
<1>1. Len(h) \in Nat /\ DOMAIN h = 1 .. Len(h) /\ \A i \in 1 .. Len(h) : h[i] \in Msg
  BY SeqFacts
<1>2. PICK r : /\ IsRun(r, "flatten", 0, FlattenBase, h, Len(h))
               /\ r[Len(h)] = FoldLeft(FlattenOne, FlattenBase, h)
  BY <1>1, FlattenRun
<1> DEFINE S == {i \in 0 .. Len(h) : Flattening(r[i], Prefix(h, i))}
<1>3. 0 \in S
  <2>1. /\ r[0] = FlattenBase /\ Prefix(h, 0) = <<>> /\ 0 \in 0 .. Len(h) /\ <<>> \in Seq(Msg)
    BY <1>1, <1>2, PrefixFacts DEF IsRun
  <2>2. FlattenBase.out = <<>> /\ FlattenBase.open = {}
    BY DEF FlattenBase
  <2>3. Plain(<<>>) /\ Tools(<<>>) = {}
    BY EmptyContents DEF Plain, Tools
  <2>4. CallIds(<<>>) = {} /\ Mentions(<<>>) = {}
    BY EmptyContents
  <2>5. Flattening(FlattenBase, <<>>)
    BY <2>1, <2>2, <2>3, <2>4 DEF Flattening, HasSystem
  <2> QED
    BY <2>1, <2>5
<1>4. ASSUME NEW i \in 1 .. Len(h), i - 1 \in S PROVE i \in S
  <2> DEFINE p == r[i - 1]
             q == r[i]
             f == Prefix(h, i - 1)
             m == h[i]
  <2>1. f \in Seq(Msg) /\ m \in Msg /\ Prefix(h, i) = Append(f, m) /\ Flattening(p, f)
    <3>1. i - 1 \in 0 .. Len(h)
      BY <1>1
    <3> QED
      BY <1>1, <1>4, <3>1, PrefixFacts
  <2>2. q = FlattenOne(p, m)
    BY <1>1, <1>2 DEF IsRun, Step
  <2> HIDE DEF p, q, f, m
  <2>3. Flattening(q, Append(f, m))
    BY <2>1, <2>2, FlatteningStep
  <2>4. Flattening(r[i], Prefix(h, i))
    BY <2>1, <2>3 DEF q
  <2>5. i \in 0 .. Len(h)
    BY <1>1
  <2> QED
    BY <2>4, <2>5
<1> HIDE DEF S
<1>5. \A i \in 0 .. Len(h) : i \in S
  BY <1>1, <1>3, <1>4, Induction
<1> DEFINE e == r[Len(h)]
<1>6. Flattening(e, h)
  <2>1. Len(h) \in S /\ Prefix(h, Len(h)) = h
    BY <1>1, <1>5, PrefixFacts
  <2> QED
    BY <2>1 DEF S
<1>7. e = FoldLeft(FlattenOne, FlattenBase, h)
  BY <1>2
<1> HIDE DEF e
<1> DEFINE rest == Assistant({<<"use", id>> : id \in e.open})
           o == IF e.open = {} THEN e.out ELSE Append(e.out, rest)
<1>8. Flatten(h) = MergeAssistants(o)
  <2>1. Flatten(h) = LET x == FoldLeft(FlattenOne, FlattenBase, h)
                     IN  MergeAssistants(IF x.open = {} THEN x.out
                             ELSE Append(x.out, Assistant({<<"use", id>> : id \in x.open})))
    BY DEF Flatten, FlattenBase
  <2> QED
    BY <1>7, <2>1
<1>9. /\ e.out \in Seq(Msg) /\ Plain(e.out) /\ e.open \subseteq CallIds(h)
      /\ \A m \in Tools(h) :
            \E y \in ToSet(e.out) : {<<"use", m.id>>} \cup m.text \subseteq y.text
      /\ CallIds(h) \subseteq e.open \cup AnsweredIds(h)
      /\ Mentions(e.out) \subseteq Mentions(h) \cup Uses(h)
      /\ HasSystem(h) => HasSystem(e.out)
  BY <1>6 DEF Flattening
<1>10. rest \in Msg /\ rest.role # "tool" /\ rest.calls = <<>>
       /\ rest.text = {<<"use", id>> : id \in e.open}
  <2>1. CallIds(h) \subseteq Nat
    BY CallsType DEF CallId
  <2>2. \A id \in e.open : <<"use", id>> \in Kinds \X Nat
    BY <1>9, <2>1 DEF Kinds
  <2>3. {<<"use", id>> : id \in e.open} \in SUBSET (Kinds \X Nat)
    BY <2>2
  <2> QED
    BY <2>3 DEF Assistant, Message, Msg, NoCall
<1> HIDE DEF rest
<1>11. /\ o \in Seq(Msg) /\ (HasSystem(e.out) => HasSystem(o))
       /\ ToSet(o) = ToSet(e.out) \cup IF e.open = {} THEN {} ELSE {rest}
  BY <1>9, <1>10, AppendFacts, AppendContents, AppendSystem
<1>11a. Mentions(o) \subseteq Mentions(h) \cup Uses(h)
  <2>1. Mentions(Append(e.out, rest)) = Mentions(e.out) \cup rest.text
    BY <1>9, <1>10, AppendContents
  <2>2. rest.text \subseteq Uses(h)
    BY <1>9, <1>10 DEF Uses
  <2> QED
    BY <1>9, <2>1, <2>2
<1> HIDE DEF o
<1>12. Plain(o)
  BY <1>9, <1>10, <1>11 DEF Plain
<1> DEFINE x == MergeAssistants(o)
<1>13. x \in Seq(Msg) /\ Plain(x) /\ Covers(x, o)
  BY <1>11, <1>12, MergeAssistantsCover
<1> HIDE DEF x
<1>14. ASSUME NEW m \in Tools(h)
       PROVE  \E y \in ToSet(x) : {<<"use", m.id>>} \cup m.text \subseteq y.text
  <2>1. PICK z \in ToSet(o) : {<<"use", m.id>>} \cup m.text \subseteq z.text
    BY <1>9, <1>11
  <2>2. PICK y \in ToSet(x) : z.text \subseteq y.text
    BY <1>13 DEF Covers
  <2> QED
    BY <2>1, <2>2
<1>15. ASSUME NEW id \in CallIds(h) \ AnsweredIds(h)
       PROVE  \E y \in ToSet(x) : <<"use", id>> \in y.text
  <2>1. id \in e.open
    BY <1>9
  <2>2. rest \in ToSet(o) /\ <<"use", id>> \in rest.text
    BY <1>10, <1>11, <2>1
  <2>3. PICK y \in ToSet(x) : rest.text \subseteq y.text
    BY <1>13, <2>2 DEF Covers
  <2> QED
    BY <2>2, <2>3
<1>16. Flattened(x, h)
  <2>1. Mentions(x) \subseteq Mentions(h) \cup Uses(h)
    BY <1>13, <1>11a DEF Covers
  <2>2. HasSystem(h) => HasSystem(x)
    BY <1>9, <1>11, <1>13 DEF Covers
  <2> QED
    BY <1>13, <1>14, <1>15, <2>1, <2>2 DEF Flattened
<1> QED
  BY <1>8, <1>16 DEF x

\* Both ways a recovered transcript reaches the provider, for transcripts of
\* every length: paired, alternating and with all the user said; or without any
\* tool structure and with a line for every call and its result.
THEOREM ResumeIsSafe == TranscriptSpec => []ResumeSafe
<1>1. TranscriptInv => NormaliseApiSafe
  <2> SUFFICES ASSUME TranscriptInv, op = "normalise" PROVE NormaliseApiSafe
    BY DEF NormaliseApiSafe
  <2>1. in \in Seq(Msg) /\ Cut(in) /\ out = Normalise(in, FALSE)
    BY TranscriptFacts DEF TranscriptInv
  <2>2. FeedsSome(in)
    BY <2>1, CutFeeds DEF FeedsSome
  <2>3. Paired(out) /\ Alternates(out) /\ Said(out) = Said(in)
    BY <2>1, <2>2, NormaliseKeeps
  <2> QED
    BY <2>3 DEF NormaliseApiSafe
<1>2. TranscriptInv => FlattenDropsStructure
  <2> SUFFICES ASSUME TranscriptInv, op = "flatten" PROVE FlattenDropsStructure
    BY DEF FlattenDropsStructure
  <2>1. in \in Seq(Msg) /\ in \in Seq(Messages) /\ out = Normalise(in, TRUE)
    BY TranscriptFacts DEF TranscriptInv
  <2> DEFINE g == MergeUsers(in)
  <2>2. /\ g \in Seq(Msg) /\ CallIds(g) = CallIds(in) /\ AnsweredIds(g) = AnsweredIds(in)
        /\ Tools(g) = Tools(in)
    BY <2>1, MergeUsersMerged DEF MergedFrom
  <2>3. out = Repair(Flatten(g))
    BY <2>1 DEF Normalise
  <2> HIDE DEF g
  <2>4. Flattened(Flatten(g), g)
    BY <2>2, FlattenFlattens
  <2>5. out = Flatten(g)
    <3>1. Flatten(g) \in Seq(Msg) /\ Plain(Flatten(g))
      BY <2>4 DEF Flattened
    <3> QED
      BY <2>3, <3>1, PlainFacts
  <2>6. /\ out \in Seq(Msg) /\ Plain(out)
        /\ \A m \in Tools(in) :
              \E y \in ToSet(out) : {<<"use", m.id>>} \cup m.text \subseteq y.text
        /\ \A id \in CallIds(in) \ AnsweredIds(in) : \E y \in ToSet(out) : <<"use", id>> \in y.text
    BY <2>2, <2>4, <2>5 DEF Flattened
  <2>7. CallIds(out) = {} /\ AnsweredIds(out) = {}
    BY <2>6, PlainFacts
  <2>8. ASSUME NEW id \in CallIds(in)
        PROVE  \E y \in ToSet(out) : /\ <<"use", id>> \in y.text
                                     /\ id \in AnsweredIds(in) => <<"res", id>> \in y.text
    <3>1. CASE id \in AnsweredIds(in)
      <4>1. PICK m \in Tools(in) : m.id = id
        BY <3>1 DEF AnsweredIds, Tools, ToSet
      <4>2. m \in Messages /\ m.role = "tool"
        BY <2>1 DEF Tools, ToSet
      <4>3. m.text = {<<"res", id>>}
        BY <4>1, <4>2 DEF Messages, System, User, Assistant, Calling, ToolResult, Message
      <4>4. PICK y \in ToSet(out) : {<<"use", m.id>>} \cup m.text \subseteq y.text
        BY <2>6
      <4> QED
        BY <4>1, <4>3, <4>4
    <3>2. CASE id \notin AnsweredIds(in)
      BY <2>6, <3>2
    <3> QED
      BY <3>1, <3>2
  <2>9. \A id \in CallIds(in) : \E i \in DOMAIN out :
              /\ <<"use", id>> \in out[i].text
              /\ id \in AnsweredIds(in) => <<"res", id>> \in out[i].text
    BY <2>8 DEF ToSet
  <2> QED
    BY <2>7, <2>9 DEF FlattenDropsStructure
<1> QED
  BY <1>1, <1>2, TranscriptSteps, PTL DEF ResumeSafe
-----------------------------------------------------------------------------
(* Hooks: what one handler decides                                         *)

Wires == [failed : BOOLEAN, rc : Int, out : Objects]
Decisions ==
    [error : BOOLEAN, ctx : BOOLEAN, block : BOOLEAN,
     perm : {H!None, "allow", "ask", "deny"}, input : Given, output : Given, stop : BOOLEAN]

LEMMA NoneDecided ==
    /\ H!NoDecision \in Decisions
    /\ ~H!NoDecision.error /\ ~H!NoDecision.ctx /\ ~H!NoDecision.block /\ ~H!NoDecision.stop
    /\ H!NoDecision.perm = H!None
    /\ H!NoDecision.input = H!None /\ H!NoDecision.output = H!None
  BY DEF H!NoDecision, Decisions, Given

LEMMA ErredIs ==
    /\ H!Erred \in Decisions
    /\ H!Erred.error /\ ~H!Erred.ctx /\ ~H!Erred.block /\ ~H!Erred.stop
    /\ H!Erred.perm = H!None /\ H!Erred.input = H!None /\ H!Erred.output = H!None
  BY NoneDecided DEF H!Erred, Decisions

LEMMA PermissionType ==
    ASSUME NEW e, NEW j \in Objects
    PROVE  H!Permission(e, j) \in {H!None, "allow", "ask", "deny"}
  BY DEF H!Permission, Objects, Specifics

\* The fields of an object that fits its event, one by one.
LEMMA AppliedIs ==
    ASSUME NEW e, NEW j \in Objects
    PROVE  LET d == H!Applied(e, j)
           IN  /\ d \in Decisions
               /\ ~d.error /\ d.block = (j.decision = "block") /\ d.stop = (j.cont = "false")
               /\ d.perm = H!Permission(e, j)
<1>1. j.specific.input \in Given /\ j.specific.output \in Given
  BY DEF Objects, Specifics
<1> DEFINE stop == j.cont = "false"
           block == j.decision = "block"
           ctx == j.specific.ctx # H!None
<1>2. stop \in BOOLEAN /\ block \in BOOLEAN /\ ctx \in BOOLEAN
  OBVIOUS
<1>3. H!Permission(e, j) \in {H!None, "allow", "ask", "deny"}
  BY PermissionType
<1> DEFINE perm == H!Permission(e, j)
           i == j.specific.input
           o == j.specific.output
           d == [H!NoDecision EXCEPT !.stop = stop, !.block = block, !.perm = perm,
                                     !.input = i, !.output = o, !.ctx = ctx]
<1>4. H!Applied(e, j) = d
  BY Zenon DEF H!Applied
<1>5. d \in Decisions /\ ~d.error /\ d.block = block /\ d.stop = stop /\ d.perm = perm
  <2>1. /\ i \in Given /\ o \in Given /\ perm \in {H!None, "allow", "ask", "deny"}
        /\ stop \in BOOLEAN /\ block \in BOOLEAN /\ ctx \in BOOLEAN
    BY <1>1, <1>2, <1>3
  <2> HIDE DEF stop, block, ctx, perm, i, o
  <2> QED
    BY <2>1, NoneDecided, ZenonT(60) DEF Decisions
<1> HIDE DEF d
<1> QED
  BY <1>4, <1>5, Zenon

LEMMA NormalizeCases ==
    ASSUME NEW e, NEW r \in Wires
    PROVE  \/ Broken(e, r) /\ H!Normalize(e, r) = H!Erred
           \/ /\ ~r.failed /\ r.rc = 2
              /\ \E b \in BOOLEAN :
                    H!Normalize(e, r) =
                        [error |-> b, ctx |-> FALSE, block |-> e \in H!CanBlock,
                         perm |-> IF e = "PreToolUse" THEN "deny" ELSE H!None,
                         input |-> H!None, output |-> H!None, stop |-> FALSE]
           \/ /\ ~r.failed /\ r.rc # 2 /\ r.out.kind = "object" /\ ~H!Invalid(e, r.out)
              /\ H!Normalize(e, r) = H!Applied(e, r.out)
           \/ /\ r.rc # 2 /\ r.out.kind # "object"
              /\ \E b, c \in BOOLEAN :
                    H!Normalize(e, r) =
                        [error |-> b, ctx |-> c, block |-> FALSE, perm |-> H!None,
                         input |-> H!None, output |-> H!None, stop |-> FALSE]
<1> DEFINE unusable == \/ r.out.kind = "notobject"
                       \/ r.out.kind = "object" /\ H!Invalid(e, r.out)
<1>1. CASE r.failed
  BY <1>1 DEF H!Normalize, Broken
<1>2. CASE ~r.failed /\ r.rc = 2
  <2>1. H!Normalize(e, r) = [error |-> unusable, ctx |-> FALSE, block |-> e \in H!CanBlock,
                             perm |-> IF e = "PreToolUse" THEN "deny" ELSE H!None,
                             input |-> H!None, output |-> H!None, stop |-> FALSE]
    BY <1>2 DEF H!Normalize, H!NoDecision
  <2>2. unusable \in BOOLEAN
    OBVIOUS
  <2> HIDE DEF unusable
  <2> QED
    BY <1>2, <2>1, <2>2
<1>3. CASE ~r.failed /\ r.rc # 2 /\ unusable
  BY <1>3 DEF H!Normalize, Broken
<1>4. CASE ~r.failed /\ r.rc # 2 /\ ~unusable /\ r.out.kind = "object"
  BY <1>4 DEF H!Normalize
<1>5. CASE ~r.failed /\ r.rc # 2 /\ ~unusable /\ r.out.kind # "object"
  <2>1. CASE r.rc # 0
    BY <1>5, <2>1 DEF H!Normalize, Broken
  <2>2. CASE r.rc = 0 /\ r.out.kind = "text"
    <3>1. H!Normalize(e, r) = [error |-> e \in H!JsonRequired, ctx |-> e \in H!PlainTextContext,
                               block |-> FALSE, perm |-> H!None,
                               input |-> H!None, output |-> H!None, stop |-> FALSE]
      BY <1>5, <2>2 DEF H!Normalize, H!NoDecision
    <3>2. (e \in H!JsonRequired) \in BOOLEAN /\ (e \in H!PlainTextContext) \in BOOLEAN
      OBVIOUS
    <3> QED
      BY <1>5, <3>1, <3>2
  <2>3. CASE r.rc = 0 /\ r.out.kind # "text"
    <3>1. H!Normalize(e, r) = H!NoDecision
      BY <1>5, <2>3 DEF H!Normalize
    <3> QED
      BY <1>5, <3>1 DEF H!NoDecision
  <2> QED
    BY <2>1, <2>2, <2>3
<1> QED
  BY <1>1, <1>2, <1>3, <1>4, <1>5

LEMMA NormalizeBroken ==
    ASSUME NEW e, NEW r \in Wires, Broken(e, r)
    PROVE  H!Normalize(e, r) = H!Erred
<1> DEFINE unusable == \/ r.out.kind = "notobject"
                       \/ r.out.kind = "object" /\ H!Invalid(e, r.out)
<1>1. CASE r.failed
  BY <1>1 DEF H!Normalize
<1>2. CASE ~r.failed /\ r.rc = 2
  BY <1>2 DEF Broken
<1>3. CASE ~r.failed /\ r.rc # 2 /\ unusable
  BY <1>3 DEF H!Normalize
<1>4. CASE ~r.failed /\ r.rc \notin {0, 2} /\ ~unusable /\ r.out.kind # "object"
  BY <1>4 DEF H!Normalize
<1> QED
  BY <1>1, <1>2, <1>3, <1>4 DEF Broken

LEMMA NormalizeType ==
    ASSUME NEW e, NEW r \in Wires
    PROVE  H!Normalize(e, r) \in Decisions
<1>1. r.out \in Objects
  BY DEF Wires
<1>2. H!Erred \in Decisions
  BY ErredIs
<1>3. H!Applied(e, r.out) \in Decisions
  BY <1>1, AppliedIs
<1>4. \A b, c, k \in BOOLEAN, p \in {H!None, "deny"} :
          [error |-> b, ctx |-> c, block |-> k, perm |-> p,
           input |-> H!None, output |-> H!None, stop |-> FALSE] \in Decisions
  BY DEF Decisions, Given
<1>5. /\ (e \in H!CanBlock) \in BOOLEAN
      /\ (IF e = "PreToolUse" THEN "deny" ELSE H!None) \in {H!None, "deny"}
  OBVIOUS
<1> QED
  BY <1>2, <1>3, <1>4, <1>5, NormalizeCases, ZenonT(60)

\* Before a tool runs a handler cannot stop everything, and it refuses by a deny
\* or a block.
LEMMA NormalizeRefuses ==
    ASSUME NEW r \in Wires
    PROVE  LET d == H!Normalize("PreToolUse", r)
           IN  ~d.stop /\ (Refuses(r) <=> d.perm = "deny" \/ d.block)
<1>1. r.out \in Objects
  BY DEF Wires
<1> DEFINE d == H!Normalize("PreToolUse", r)
<1>2. CASE Broken("PreToolUse", r) /\ d = H!Erred
  BY <1>2, ErredIs DEF Broken, Refuses, H!None
<1>3. CASE ~r.failed /\ r.rc = 2
  <2>1. PICK b \in BOOLEAN : d = [error |-> b, ctx |-> FALSE, block |-> TRUE, perm |-> "deny",
                                  input |-> H!None, output |-> H!None, stop |-> FALSE]
    BY <1>3, NormalizeCases DEF Broken, H!CanBlock
  <2> HIDE DEF d
  <2>2. Refuses(r)
    BY <1>3 DEF Refuses
  <2> QED
    BY <2>1, <2>2 DEF d
<1>4. CASE ~r.failed /\ r.rc # 2 /\ r.out.kind = "object" /\ ~H!Invalid("PreToolUse", r.out)
  <2>1. d = H!Applied("PreToolUse", r.out)
    BY <1>4, NormalizeCases DEF Broken
  <2>2. r.out.cont # "false"
    BY <1>4 DEF H!Invalid
  <2>3. H!Permission("PreToolUse", r.out) = "deny"
            => r.out.decision = "block" \/ r.out.specific.perm = "deny"
    BY DEF H!Permission, H!None
  <2>4. r.out.specific.perm = "deny" => H!Permission("PreToolUse", r.out) = "deny"
    BY DEF H!Permission, H!None
  <2> HIDE DEF d
  <2> QED
    <3>1. /\ d.stop = (r.out.cont = "false") /\ d.block = (r.out.decision = "block")
          /\ d.perm = H!Permission("PreToolUse", r.out)
      BY <1>1, <2>1, AppliedIs
    <3>2. Refuses(r) <=> r.out.decision = "block" \/ r.out.specific.perm = "deny"
      BY <1>4 DEF Refuses
    <3> QED
      BY <2>2, <2>3, <2>4, <3>1, <3>2, Zenon DEF d
<1>5. CASE r.rc # 2 /\ r.out.kind # "object"
  <2>1. ~Refuses(r)
    BY <1>5 DEF Refuses
  <2>2. ~d.stop /\ ~d.block /\ d.perm = H!None
    BY <1>5, NormalizeCases, ErredIs
  <2> HIDE DEF d
  <2> QED
    BY <2>1, <2>2 DEF d, H!None
<1> QED
  BY <1>2, <1>3, <1>4, <1>5, NormalizeCases
-----------------------------------------------------------------------------
(* Hooks: several decisions                                                *)

\* ds are the decisions of n handlers.
AreDecisions(ds, n) == DOMAIN ds = 1 .. n /\ \A i \in 1 .. n : ds[i] \in Decisions

IsFirst(v, ds, these, f) ==
    \/ v = H!None /\ \A i \in these : ds[i][f] = H!None
    \/ \E i \in these : /\ ds[i][f] # H!None /\ v = ds[i][f]
                        /\ \A k \in these : ds[k][f] # H!None => i <= k

LEMMA FirstIs ==
    ASSUME NEW ds, NEW these \in SUBSET Nat, NEW f
    PROVE  IsFirst(H!FirstGiven(ds, these, f), ds, these, f)
<1> DEFINE given == {i \in these : ds[i][f] # H!None}
<1>1. H!FirstGiven(ds, these, f) = IF given = {} THEN H!None ELSE ds[H!Min(given)][f]
  BY DEF H!FirstGiven
<1>2. CASE given = {}
  BY <1>1, <1>2 DEF IsFirst
<1>3. CASE given # {}
  <2>1. given \in SUBSET Nat
    OBVIOUS
  <2> HIDE DEF given
  <2>2. PICK a \in given : \A k \in given : a <= k
    BY <1>3, <2>1, LeastNumber
  <2>3. H!Min(given) \in given /\ \A k \in given : H!Min(given) <= k
    BY <2>2 DEF H!Min
  <2> DEFINE m == H!Min(given)
  <2>4. H!FirstGiven(ds, these, f) = ds[m][f]
    BY <1>1, <1>3
  <2> HIDE DEF m
  <2> QED
    BY <2>3, <2>4 DEF given, m, IsFirst
<1> QED
  BY <1>2, <1>3

SomeGives(ds, these, f) == \E i \in these : ds[i][f] # H!None

LEMMA FirstThere ==
    ASSUME NEW ds, NEW these \in SUBSET Nat, NEW f
    PROVE  H!FirstGiven(ds, these, f) # H!None <=> SomeGives(ds, these, f)
<1>1. IsFirst(H!FirstGiven(ds, these, f), ds, these, f)
  BY FirstIs
<1> QED
  BY <1>1 DEF IsFirst, SomeGives

\* The first of them is the only one with the least number.
LEMMA FirstUnique ==
    ASSUME NEW ds, NEW these \in SUBSET Nat, NEW f, NEW i \in these,
           ds[i][f] # H!None, \A k \in these : ds[k][f] # H!None => i <= k
    PROVE  H!FirstGiven(ds, these, f) = ds[i][f]
<1>1. PICK j \in these : /\ ds[j][f] # H!None /\ H!FirstGiven(ds, these, f) = ds[j][f]
                         /\ \A k \in these : ds[k][f] # H!None => j <= k
  <2>1. IsFirst(H!FirstGiven(ds, these, f), ds, these, f)
    BY FirstIs
  <2> QED
    BY <2>1 DEF IsFirst
<1>2. i \in Nat /\ j \in Nat /\ i <= j /\ j <= i
  BY <1>1
<1> QED
  BY <1>1, <1>2

Levels == {H!None, "allow", "ask", "deny"}

LEMMA StrongestIs ==
    ASSUME NEW n, NEW ds, AreDecisions(ds, n)
    PROVE  /\ H!Strongest(ds) \in Levels
           /\ H!Strongest(ds) # H!None => \E i \in 1 .. n : ds[i].perm = H!Strongest(ds)
           /\ H!Strongest(ds) = "deny" <=> \E i \in 1 .. n : ds[i].perm = "deny"
<1> DEFINE perms == {ds[i].perm : i \in DOMAIN ds}
<1>1. H!Strongest(ds) = IF "deny" \in perms THEN "deny"
                        ELSE IF "ask" \in perms THEN "ask"
                        ELSE IF "allow" \in perms THEN "allow" ELSE H!None
  BY Zenon DEF H!Strongest
<1>2. \A p : p \in perms <=> \E i \in 1 .. n : ds[i].perm = p
  BY DEF AreDecisions
<1> HIDE DEF perms
<1> QED
  BY <1>1, <1>2 DEF Levels, H!None

\* Which permission is strongest depends on which are given.
SamePerms(ds, n, es, m) ==
    \A p \in {"allow", "ask", "deny"} :
        (\E i \in 1 .. n : ds[i].perm = p) <=> (\E i \in 1 .. m : es[i].perm = p)

LEMMA StrongestSame ==
    ASSUME NEW n, NEW ds, AreDecisions(ds, n), NEW m, NEW es, AreDecisions(es, m),
           SamePerms(ds, n, es, m)
    PROVE  H!Strongest(ds) = H!Strongest(es)
<1> DEFINE P(s) == {s[i].perm : i \in DOMAIN s}
<1>1. \A s : H!Strongest(s) = IF "deny" \in P(s) THEN "deny"
                              ELSE IF "ask" \in P(s) THEN "ask"
                              ELSE IF "allow" \in P(s) THEN "allow" ELSE H!None
  BY Zenon DEF H!Strongest
<1>2. \A p : /\ p \in P(ds) <=> \E i \in 1 .. n : ds[i].perm = p
             /\ p \in P(es) <=> \E i \in 1 .. m : es[i].perm = p
  BY DEF AreDecisions
<1>3. \A p \in {"allow", "ask", "deny"} : p \in P(ds) <=> p \in P(es)
  BY <1>2 DEF SamePerms
<1> HIDE DEF P
<1> QED
  BY <1>1, <1>3

LEMMA GivenType ==
    ASSUME NEW n \in Nat, NEW ds, AreDecisions(ds, n), NEW these \in SUBSET (1 .. n)
    PROVE  /\ H!FirstGiven(ds, these, "input") \in Given
           /\ H!FirstGiven(ds, these, "output") \in Given
<1>1. \A i \in these : ds[i]["input"] \in Given /\ ds[i]["output"] \in Given
  BY DEF AreDecisions, Decisions
<1>2. H!None \in Given
  BY DEF Given
<1>3. H!FirstGiven(ds, these, "input") \in Given
  <2>1. IsFirst(H!FirstGiven(ds, these, "input"), ds, these, "input")
    BY FirstIs
  <2> QED
    BY <1>1, <1>2, <2>1 DEF IsFirst
<1>4. H!FirstGiven(ds, these, "output") \in Given
  <2>1. IsFirst(H!FirstGiven(ds, these, "output"), ds, these, "output")
    BY FirstIs
  <2> QED
    BY <1>1, <1>2, <2>1 DEF IsFirst
<1> QED
  BY <1>3, <1>4

LEMMA CombineIs ==
    ASSUME NEW n \in Nat, NEW ds, AreDecisions(ds, n)
    PROVE  LET d == H!Combine(ds)
               level == H!Strongest(ds)
           IN  /\ d \in Decisions
               /\ d.error <=> H!SomeDecision(ds, "error")
               /\ d.ctx <=> H!SomeDecision(ds, "ctx")
               /\ d.stop <=> H!SomeDecision(ds, "stop")
               /\ d.stop => ~d.block /\ d.perm = H!None /\ d.input = H!None /\ d.output = H!None
               /\ ~d.stop => /\ d.block <=> H!SomeDecision(ds, "block")
                             /\ d.perm = level
                             /\ d.output = H!FirstGiven(ds, 1 .. n, "output")
                             /\ d.input = IF level = H!None THEN H!None
                                          ELSE H!FirstGiven(ds, H!Winners(ds, level), "input")
<1> DEFINE error == H!SomeDecision(ds, "error")
           ctx == H!SomeDecision(ds, "ctx")
           block == H!SomeDecision(ds, "block")
           stop == H!SomeDecision(ds, "stop")
           level == H!Strongest(ds)
           input == IF level = H!None THEN H!None
                    ELSE H!FirstGiven(ds, H!Winners(ds, level), "input")
           output == H!FirstGiven(ds, DOMAIN ds, "output")
           told == [H!NoDecision EXCEPT !.error = error, !.ctx = ctx]
           stopped == [told EXCEPT !.stop = TRUE]
           decided == [told EXCEPT !.perm = level, !.input = input, !.block = block,
                                   !.output = output]
<1>1. H!Combine(ds) = IF stop THEN stopped ELSE decided
  BY Zenon DEF H!Combine
<1>2. DOMAIN ds = 1 .. n /\ H!Winners(ds, level) \in SUBSET (1 .. n)
  BY DEF AreDecisions, H!Winners
<1>3. /\ error \in BOOLEAN /\ ctx \in BOOLEAN /\ block \in BOOLEAN /\ stop \in BOOLEAN
      /\ level \in Levels /\ input \in Given /\ output \in Given
  <2>1. level \in Levels
    BY StrongestIs
  <2>2. error \in BOOLEAN /\ ctx \in BOOLEAN /\ block \in BOOLEAN /\ stop \in BOOLEAN
    BY DEF H!SomeDecision
  <2>3. H!None \in Given
    BY DEF Given
  <2> HIDE DEF level
  <2>4. input \in Given /\ output \in Given
    BY <1>2, <2>3, GivenType
  <2> QED
    BY <2>1, <2>2, <2>4
<1>4. /\ told \in Decisions /\ told.error = error /\ told.ctx = ctx
      /\ ~told.block /\ ~told.stop /\ told.perm = H!None
      /\ told.input = H!None /\ told.output = H!None
  <2> HIDE DEF error, ctx, block, stop, level, input, output
  <2> QED
    BY <1>3, NoneDecided DEF Decisions
<1> HIDE DEF told
<1>5. /\ stopped \in Decisions /\ stopped.error = error /\ stopped.ctx = ctx
      /\ ~stopped.block /\ stopped.stop /\ stopped.perm = H!None
      /\ stopped.input = H!None /\ stopped.output = H!None
  <2> HIDE DEF error, ctx, block, stop, level, input, output
  <2> QED
    BY <1>3, <1>4 DEF Decisions
<1>6. /\ decided \in Decisions /\ decided.error = error /\ decided.ctx = ctx
      /\ decided.block = block /\ ~decided.stop /\ decided.perm = level
      /\ decided.input = input /\ decided.output = output
  <2> HIDE DEF error, ctx, block, stop, level, input, output
  <2> QED
    BY <1>3, <1>4 DEF Decisions, Levels
<1> HIDE DEF stopped, decided
<1>7. CASE stop
  <2>1. H!Combine(ds) = stopped
    BY <1>1, <1>7
  <2> QED
    BY <1>5, <1>7, <2>1, Zenon
<1>8. CASE ~stop
  <2>1. H!Combine(ds) = decided
    BY <1>1, <1>8
  <2> QED
    BY <1>2, <1>6, <1>8, <2>1, Zenon
<1> QED
  BY <1>7, <1>8

DecisionsOf(e, raws) == [i \in DOMAIN raws |-> H!Normalize(e, raws[i])]

LEMMA RunIs ==
    ASSUME NEW e, NEW raws \in Seq(Wires)
    PROVE  /\ H!RunHooks(e, raws) = H!Combine(DecisionsOf(e, raws))
           /\ Len(raws) \in Nat /\ DOMAIN raws = 1 .. Len(raws)
           /\ AreDecisions(DecisionsOf(e, raws), Len(raws))
<1>1. Len(raws) \in Nat /\ DOMAIN raws = 1 .. Len(raws) /\ \A i \in 1 .. Len(raws) : raws[i] \in Wires
  OBVIOUS
<1> QED
  BY <1>1, NormalizeType DEF H!RunHooks, DecisionsOf, AreDecisions

\* Some decision of ds has this flag.
LEMMA SomeIs ==
    ASSUME NEW n, NEW ds, AreDecisions(ds, n)
    PROVE  /\ H!SomeDecision(ds, "error") <=> \E i \in 1 .. n : ds[i].error
           /\ H!SomeDecision(ds, "ctx") <=> \E i \in 1 .. n : ds[i].ctx
           /\ H!SomeDecision(ds, "block") <=> \E i \in 1 .. n : ds[i].block
           /\ H!SomeDecision(ds, "stop") <=> \E i \in 1 .. n : ds[i].stop
<1>1. \A i \in 1 .. n : ds[i] \in Decisions
  BY DEF AreDecisions
<1>2. DOMAIN ds = 1 .. n
  BY DEF AreDecisions
<1> QED
  BY <1>1, <1>2 DEF H!SomeDecision, Decisions

LEMMA WinnersAre ==
    ASSUME NEW n, NEW ds, AreDecisions(ds, n), NEW level
    PROVE  H!Winners(ds, level) = {i \in 1 .. n : ds[i].perm = level}
  BY DEF H!Winners, AreDecisions

\* Two decisions with the same fields are the same.
LEMMA SameFields ==
    ASSUME NEW a \in Decisions, NEW b \in Decisions,
           a.error = b.error, a.ctx = b.ctx, a.block = b.block, a.perm = b.perm,
           a.input = b.input, a.output = b.output, a.stop = b.stop
    PROVE  a = b
  BY DEF Decisions

\* The same decisions, in whatever order and number, decide the same but for the
\* writer.
LEMMA CombineAlike ==
    ASSUME NEW n \in Nat, NEW ds, AreDecisions(ds, n), NEW m \in Nat, NEW es, AreDecisions(es, m),
           \A i \in 1 .. n : \E k \in 1 .. m : es[k] = ds[i],
           \A k \in 1 .. m : \E i \in 1 .. n : es[k] = ds[i]
    PROVE  WithoutWriter(H!Combine(es)) = WithoutWriter(H!Combine(ds))
<1> DEFINE a == H!Combine(es)
           b == H!Combine(ds)
           level == H!Strongest(ds)
<1>1. H!Strongest(es) = level
  <2>1. SamePerms(ds, n, es, m)
    BY DEF SamePerms
  <2> QED
    BY <2>1, StrongestSame, Zenon
<1>2. /\ H!SomeDecision(es, "error") = H!SomeDecision(ds, "error")
      /\ H!SomeDecision(es, "ctx") = H!SomeDecision(ds, "ctx")
      /\ H!SomeDecision(es, "block") = H!SomeDecision(ds, "block")
      /\ H!SomeDecision(es, "stop") = H!SomeDecision(ds, "stop")
  <2>1. /\ (\E k \in 1 .. m : es[k].error) <=> (\E i \in 1 .. n : ds[i].error)
        /\ (\E k \in 1 .. m : es[k].ctx) <=> (\E i \in 1 .. n : ds[i].ctx)
        /\ (\E k \in 1 .. m : es[k].block) <=> (\E i \in 1 .. n : ds[i].block)
        /\ (\E k \in 1 .. m : es[k].stop) <=> (\E i \in 1 .. n : ds[i].stop)
    OBVIOUS
  <2>2. /\ H!SomeDecision(es, "error") <=> H!SomeDecision(ds, "error")
        /\ H!SomeDecision(es, "ctx") <=> H!SomeDecision(ds, "ctx")
        /\ H!SomeDecision(es, "block") <=> H!SomeDecision(ds, "block")
        /\ H!SomeDecision(es, "stop") <=> H!SomeDecision(ds, "stop")
    BY <2>1, SomeIs, ZenonT(60)
  <2> QED
    BY <2>2 DEF H!SomeDecision
<1>3. (H!FirstGiven(es, 1 .. m, "output") # H!None)
          <=> (H!FirstGiven(ds, 1 .. n, "output") # H!None)
  <2> DEFINE E == 1 .. m
             D == 1 .. n
  <2>1. E \in SUBSET Nat /\ D \in SUBSET Nat
    OBVIOUS
  <2>2. /\ \A i \in D : \E k \in E : es[k] = ds[i]
        /\ \A k \in E : \E i \in D : es[k] = ds[i]
    OBVIOUS
  <2> HIDE DEF D, E
  <2>3. /\ H!FirstGiven(es, E, "output") # H!None <=> SomeGives(es, E, "output")
        /\ H!FirstGiven(ds, D, "output") # H!None <=> SomeGives(ds, D, "output")
    BY <2>1, FirstThere
  <2>4. SomeGives(es, E, "output") <=> SomeGives(ds, D, "output")
    BY <2>2 DEF SomeGives
  <2> QED
    BY <2>3, <2>4 DEF D, E
<1>4. (H!FirstGiven(es, H!Winners(es, level), "input") # H!None)
          <=> (H!FirstGiven(ds, H!Winners(ds, level), "input") # H!None)
  <2> DEFINE E == H!Winners(es, level)
             D == H!Winners(ds, level)
  <2>1. E = {k \in 1 .. m : es[k].perm = level} /\ D = {i \in 1 .. n : ds[i].perm = level}
    BY WinnersAre
  <2>2. E \in SUBSET Nat /\ D \in SUBSET Nat
    BY <2>1
  <2>3. /\ \A i \in D : \E k \in E : es[k] = ds[i]
        /\ \A k \in E : \E i \in D : es[k] = ds[i]
    BY <2>1
  <2> HIDE DEF D, E
  <2>4. /\ H!FirstGiven(es, E, "input") # H!None <=> SomeGives(es, E, "input")
        /\ H!FirstGiven(ds, D, "input") # H!None <=> SomeGives(ds, D, "input")
    BY <2>2, FirstThere
  <2>5. SomeGives(es, E, "input") <=> SomeGives(ds, D, "input")
    BY <2>3 DEF SomeGives
  <2> QED
    BY <2>4, <2>5 DEF D, E
<1>5. a \in Decisions /\ b \in Decisions
  BY CombineIs
<1>6. a.error = b.error /\ a.ctx = b.ctx /\ a.stop = b.stop
  <2>1. a.error <=> b.error
    BY <1>2, CombineIs, Zenon
  <2>2. a.ctx <=> b.ctx
    BY <1>2, CombineIs, Zenon
  <2>3. a.stop <=> b.stop
    BY <1>2, CombineIs, Zenon
  <2> HIDE DEF a, b
  <2> QED
    BY <1>5, <2>1, <2>2, <2>3 DEF Decisions
<1>7. a.perm = b.perm /\ a.block = b.block
  <2>1. CASE a.stop
    <3>1. a.perm = H!None /\ b.perm = H!None /\ ~a.block /\ ~b.block
      BY <1>6, <2>1, CombineIs, Zenon
    <3> HIDE DEF a, b
    <3> QED
      BY <1>5, <3>1 DEF Decisions
  <2>2. CASE ~a.stop
    <3>1. a.perm = level /\ (a.block <=> H!SomeDecision(es, "block"))
      BY <1>1, <2>2, CombineIs, Zenon
    <3>2. b.perm = level /\ (b.block <=> H!SomeDecision(ds, "block"))
      BY <1>6, <2>2, CombineIs, Zenon
    <3> HIDE DEF a, b, level
    <3> QED
      BY <1>2, <1>5, <3>1, <3>2 DEF Decisions
  <2> QED
    BY <2>1, <2>2
<1>8. (a.input # H!None) = (b.input # H!None) /\ (a.output # H!None) = (b.output # H!None)
  <2>1. CASE a.stop
    <3>1. a.input = H!None /\ b.input = H!None /\ a.output = H!None /\ b.output = H!None
      BY <1>6, <2>1, CombineIs, Zenon
    <3> QED
      BY <3>1, Zenon
  <2>2. CASE ~a.stop
    <3>1. /\ a.output = H!FirstGiven(es, 1 .. m, "output")
          /\ b.output = H!FirstGiven(ds, 1 .. n, "output")
          /\ a.input = IF level = H!None THEN H!None
                       ELSE H!FirstGiven(es, H!Winners(es, level), "input")
          /\ b.input = IF level = H!None THEN H!None
                       ELSE H!FirstGiven(ds, H!Winners(ds, level), "input")
      BY <1>1, <1>6, <2>2, CombineIs, Zenon
    <3> HIDE DEF a, b, level
    <3> QED
      BY <1>3, <1>4, <3>1
  <2> QED
    BY <2>1, <2>2
<1> HIDE DEF a, b
<1> DEFINE i(d) == d.input # H!None
           o(d) == d.output # H!None
<1>9. \A d \in Decisions :
          WithoutWriter(d) = [error |-> d.error, ctx |-> d.ctx, block |-> d.block, perm |-> d.perm,
                              input |-> i(d), output |-> o(d), stop |-> d.stop]
  <2> TAKE d \in Decisions
  <2>1. WithoutWriter(d) = [d EXCEPT !.input = i(d), !.output = o(d)]
    BY DEF WithoutWriter
  <2> HIDE DEF i, o
  <2> QED
    BY <2>1 DEF Decisions
<1> QED
  BY <1>5, <1>6, <1>7, <1>8, <1>9 DEF a, b

\* ds without its decision at i.
WithoutOne(ds, i, n) == [k \in 1 .. (n - 1) |-> IF k < i THEN ds[k] ELSE ds[k + 1]]

LEMMA FirstWithout ==
    ASSUME NEW n \in Nat, NEW ds, NEW i \in 1 .. n, NEW f, NEW D \in SUBSET (1 .. n), NEW E,
           E = {k \in 1 .. (n - 1) : (IF k < i THEN k ELSE k + 1) \in D},
           i \in D => ds[i][f] = H!None
    PROVE  H!FirstGiven(WithoutOne(ds, i, n), E, f) = H!FirstGiven(ds, D, f)
<1> DEFINE es == WithoutOne(ds, i, n)
           at(k) == IF k < i THEN k ELSE k + 1
           back(j) == IF j < i THEN j ELSE j - 1
<1>1. D \in SUBSET Nat /\ E \in SUBSET Nat
  OBVIOUS
<1>2. \A k \in E : at(k) \in D /\ es[k] = ds[at(k)]
  BY DEF WithoutOne
<1>3. \A j \in D : j # i => back(j) \in E /\ at(back(j)) = j
  OBVIOUS
<1>4. \A j, k \in 1 .. n : j <= k => back(j) <= back(k)
  OBVIOUS
<1>5. \A k \in 1 .. (n - 1) : at(k) \in 1 .. n /\ back(at(k)) = k
  OBVIOUS
<1> HIDE DEF es
<1>6. IsFirst(H!FirstGiven(ds, D, f), ds, D, f)
  BY <1>1, FirstIs
<1>7. CASE \A j \in D : ds[j][f] = H!None
  <2>1. \A k \in E : es[k][f] = H!None
    BY <1>2, <1>7
  <2>2. IsFirst(H!FirstGiven(es, E, f), es, E, f)
    BY <1>1, FirstIs
  <2> QED
    BY <1>6, <1>7, <2>1, <2>2 DEF IsFirst, es
<1>8. ASSUME NEW j \in D, ds[j][f] # H!None, H!FirstGiven(ds, D, f) = ds[j][f],
             \A k \in D : ds[k][f] # H!None => j <= k
      PROVE  H!FirstGiven(es, E, f) = H!FirstGiven(ds, D, f)
  <2> DEFINE m == back(j)
  <2>1. m \in E /\ at(m) = j
    BY <1>3, <1>8
  <2>2. es[m] = ds[j]
    BY <1>2, <2>1
  <2>3. ASSUME NEW k \in E, es[k][f] # H!None PROVE m <= k
    <3>1. at(k) \in D /\ es[k] = ds[at(k)] /\ k \in 1 .. (n - 1)
      BY <1>2
    <3>2. j <= at(k)
      BY <1>8, <2>3, <3>1
    <3> QED
      BY <1>4, <1>5, <3>1, <3>2
  <2> HIDE DEF m
  <2>4. es[m][f] # H!None /\ E \in SUBSET Nat
    BY <1>1, <1>8, <2>2
  <2>5. H!FirstGiven(es, E, f) = es[m][f]
    BY <2>1, <2>3, <2>4, FirstUnique, ZenonT(60)
  <2> QED
    BY <1>8, <2>2, <2>5
<1> QED
  BY <1>6, <1>7, <1>8 DEF IsFirst, es

\* What could not be understood decides nothing.
LEMMA CombineWithout ==
    ASSUME NEW n \in Nat, NEW ds, AreDecisions(ds, n), NEW i \in 1 .. n, ds[i] = H!Erred
    PROVE  [H!Combine(WithoutOne(ds, i, n)) EXCEPT !.error = TRUE] = H!Combine(ds)
<1> DEFINE es == WithoutOne(ds, i, n)
           m == n - 1
           a == H!Combine(es)
           b == H!Combine(ds)
           level == H!Strongest(ds)
<1>1. m \in Nat /\ AreDecisions(es, m)
  BY DEF AreDecisions, WithoutOne
<1>2. \A k \in 1 .. m : es[k] = ds[IF k < i THEN k ELSE k + 1]
  BY DEF WithoutOne
<1>3. \A j \in 1 .. n : j # i => \E k \in 1 .. m : es[k] = ds[j]
  <2> TAKE j \in 1 .. n
  <2> HAVE j # i
  <2>1. CASE j < i
    BY <1>2, <2>1
  <2>2. CASE j > i
    <3>1. j - 1 \in 1 .. m /\ ~(j - 1 < i)
      BY <2>2
    <3> QED
      BY <1>2, <3>1
  <2> QED
    BY <2>1, <2>2
<1>4. \A k \in 1 .. m : \E j \in 1 .. n : es[k] = ds[j]
  BY <1>2
<1> HIDE DEF es, m
<1>5. ~ds[i].ctx /\ ~ds[i].block /\ ~ds[i].stop /\ ds[i].perm = H!None /\ ds[i].error
  BY ErredIs
<1>6. H!Strongest(es) = level
  <2>1. SamePerms(ds, n, es, m)
    BY <1>3, <1>4, <1>5 DEF SamePerms, H!None
  <2> QED
    BY <1>1, <2>1, StrongestSame, ZenonT(60)
<1>7. /\ H!SomeDecision(ds, "error")
      /\ H!SomeDecision(es, "ctx") <=> H!SomeDecision(ds, "ctx")
      /\ H!SomeDecision(es, "block") <=> H!SomeDecision(ds, "block")
      /\ H!SomeDecision(es, "stop") <=> H!SomeDecision(ds, "stop")
  <2>1. /\ \E j \in 1 .. n : ds[j].error
        /\ (\E k \in 1 .. m : es[k].ctx) <=> (\E j \in 1 .. n : ds[j].ctx)
        /\ (\E k \in 1 .. m : es[k].block) <=> (\E j \in 1 .. n : ds[j].block)
        /\ (\E k \in 1 .. m : es[k].stop) <=> (\E j \in 1 .. n : ds[j].stop)
    BY <1>3, <1>4, <1>5
  <2> QED
    BY <1>1, <2>1, SomeIs, Zenon
<1>8. H!FirstGiven(es, 1 .. m, "output") = H!FirstGiven(ds, 1 .. n, "output")
  <2> DEFINE D == 1 .. n
             E == 1 .. m
  <2>1. E = {k \in 1 .. (n - 1) : (IF k < i THEN k ELSE k + 1) \in D}
    BY DEF m
  <2>2. ds[i]["output"] = H!None
    BY ErredIs
  <2>3. D \in SUBSET (1 .. n)
    OBVIOUS
  <2> HIDE DEF D, E
  <2>4. H!FirstGiven(es, E, "output") = H!FirstGiven(ds, D, "output")
    BY <2>1, <2>2, <2>3, FirstWithout DEF es
  <2> QED
    BY <2>4 DEF D, E
<1>9. H!FirstGiven(es, H!Winners(es, level), "input") = H!FirstGiven(ds, H!Winners(ds, level), "input")
  <2>1. /\ H!Winners(ds, level) = {j \in 1 .. n : ds[j].perm = level}
        /\ H!Winners(es, level) = {k \in 1 .. m : es[k].perm = level}
    BY <1>1, WinnersAre
  <2> HIDE DEF level
  <2>2. H!Winners(es, level)
            = {k \in 1 .. (n - 1) : (IF k < i THEN k ELSE k + 1) \in H!Winners(ds, level)}
    <3>1. \A k \in 1 .. m : (IF k < i THEN k ELSE k + 1) \in 1 .. n
      BY DEF m
    <3> QED
      BY <1>2, <2>1, <3>1 DEF m
  <2>3. ds[i]["input"] = H!None
    BY ErredIs
  <2>4. H!Winners(ds, level) \in SUBSET (1 .. n)
    BY <2>1
  <2> QED
    BY <2>2, <2>3, <2>4, FirstWithout DEF es
<1>10. a \in Decisions /\ b \in Decisions
  BY <1>1, CombineIs
<1>11. b.error /\ (a.ctx <=> b.ctx) /\ (a.stop <=> b.stop)
  BY <1>1, <1>7, CombineIs, Zenon
<1>12. /\ a.block <=> b.block
       /\ a.perm = b.perm /\ a.input = b.input /\ a.output = b.output
  <2>1. CASE a.stop
    BY <1>1, <1>11, <2>1, CombineIs, Zenon
  <2>2. CASE ~a.stop
    <3>1. /\ a.block <=> H!SomeDecision(es, "block")
          /\ a.perm = level
          /\ a.output = H!FirstGiven(es, 1 .. m, "output")
          /\ a.input = IF level = H!None THEN H!None
                       ELSE H!FirstGiven(es, H!Winners(es, level), "input")
      BY <1>1, <1>6, <2>2, CombineIs, Zenon
    <3>2. /\ b.block <=> H!SomeDecision(ds, "block")
          /\ b.perm = level
          /\ b.output = H!FirstGiven(ds, 1 .. n, "output")
          /\ b.input = IF level = H!None THEN H!None
                       ELSE H!FirstGiven(ds, H!Winners(ds, level), "input")
      BY <1>11, <2>2, CombineIs, Zenon
    <3> QED
      BY <1>7, <1>8, <1>9, <3>1, <3>2, Zenon
  <2> QED
    BY <2>1, <2>2
<1> HIDE DEF a, b
<1>13. LET c == [a EXCEPT !.error = TRUE]
       IN  /\ c \in Decisions /\ c.error /\ c.ctx = a.ctx /\ c.block = a.block /\ c.stop = a.stop
           /\ c.perm = a.perm /\ c.input = a.input /\ c.output = a.output
  BY <1>10 DEF Decisions
<1> DEFINE c == [a EXCEPT !.error = TRUE]
<1>14. /\ c \in Decisions /\ c.error = b.error /\ c.ctx = b.ctx /\ c.block = b.block
       /\ c.stop = b.stop /\ c.perm = b.perm /\ c.input = b.input /\ c.output = b.output
  <2> HIDE DEF c
  <2>1. /\ c \in Decisions /\ c.error /\ c.ctx = a.ctx /\ c.block = a.block /\ c.stop = a.stop
        /\ c.perm = a.perm /\ c.input = a.input /\ c.output = a.output
    BY <1>13 DEF c
  <2> QED
    BY <1>10, <1>11, <1>12, <2>1 DEF Decisions
<1> HIDE DEF c
<1>15. c = b
  BY <1>10, <1>14, SameFields
<1> QED
  BY <1>15 DEF a, b, c, es
-----------------------------------------------------------------------------
(* Hooks: registration                                                     *)

\* r is what is kept of the first entries.
IsKept(r, es, n) ==
    r[0] = <<>> /\ \A i \in 1 .. n : r[i] = IF KeptEntry(es, i) THEN Append(r[i - 1], es[i])
                                                                ELSE r[i - 1]

LEMMA DedupeRun ==
    ASSUME NEW n \in Nat, NEW es, DOMAIN es = 1 .. n
    PROVE  \E r : IsKept(r, es, n) /\ r[n] = H!Dedupe(es)
<1> DEFINE h == [i \in DOMAIN es |-> i]
           Is(g) == g = [s \in SUBSET (1 .. n) |->
                IF s = {} THEN <<>>
                ELSE IF KeptEntry(es, h[H!Max(s)]) THEN Append(g[s \ {H!Max(s)}], es[h[H!Max(s)]])
                                                   ELSE g[s \ {H!Max(s)}]]
           G == CHOOSE g : Is(g)
<1>1. \E g : IsFold(g, "dedupe", es, <<>>, h, n)
  BY FoldExists
<1>2. \A s : H!Max(s) = Max(s)
  BY DEF H!Max, Max
<1>3. \A g : IsFold(g, "dedupe", es, <<>>, h, n) <=> Is(g)
  BY <1>2, ZenonT(60) DEF IsFold, Step
<1>4. IsFold(G, "dedupe", es, <<>>, h, n)
  BY <1>1, <1>3
<1>5. H!Dedupe(es) = G[1 .. n]
  BY DEF H!Dedupe, H!FoldLeftDomain, H!FoldLeft, H!MapThenFoldSet, KeptEntry
<1> HIDE DEF G
<1>6. PICK r : IsRun(r, "dedupe", es, <<>>, h, n) /\ r[n] = G[1 .. n]
  <2> HIDE DEF h
  <2> QED
    BY <1>4, FoldRuns
<1>7. IsKept(r, es, n)
  BY <1>6 DEF IsRun, IsKept, Step
<1> QED
  BY <1>5, <1>6, <1>7

\* What is kept of the first entries is all of them, and scripts are there once.
LEMMA DedupeKeeps ==
    ASSUME NEW S, NEW es \in Seq(S)
    PROVE  /\ H!Dedupe(es) \in Seq(S)
           /\ ToSet(H!Dedupe(es)) = ToSet(es)
           /\ \A i, j \in DOMAIN H!Dedupe(es) :
                 H!Dedupe(es)[i] = H!Dedupe(es)[j] /\ i # j => H!Dedupe(es)[i].script = H!None
<1> DEFINE n == Len(es)
<1>1. n \in Nat /\ DOMAIN es = 1 .. n /\ \A i \in 1 .. n : es[i] \in S
  BY SeqFacts
<1>2. PICK r : IsKept(r, es, n) /\ r[n] = H!Dedupe(es)
  BY <1>1, DedupeRun
<1> HIDE DEF n
<1> DEFINE First(i) == {es[k] : k \in 1 .. i}
           Once(s) == \A i, j \in DOMAIN s : s[i] = s[j] /\ i # j => s[i].script = H!None
           T == {i \in Nat : r[i] \in Seq(S) /\ ToSet(r[i]) = First(i) /\ Once(r[i])}
<1>3. 0 \in T
  <2>1. r[0] = <<>>
    BY <1>2 DEF IsKept
  <2>2. First(0) = {} /\ ToSet(<<>>) = {} /\ Once(<<>>) /\ <<>> \in Seq(S)
    BY DEF ToSet
  <2> QED
    BY <2>1, <2>2
<1>4. ASSUME NEW i \in 1 .. n, i - 1 \in T PROVE i \in T
  <2> DEFINE s == r[i - 1]
             e == es[i]
  <2>1. /\ s \in Seq(S) /\ ToSet(s) = First(i - 1) /\ Once(s)
        /\ e \in S /\ i \in Nat
        /\ r[i] = IF KeptEntry(es, i) THEN Append(s, e) ELSE s
    BY <1>1, <1>2, <1>4 DEF IsKept
  <2>2. First(i) = First(i - 1) \cup {e}
    <3>1. 1 .. i = (1 .. (i - 1)) \cup {i}
      OBVIOUS
    <3> QED
      BY <3>1
  <2> HIDE DEF s, e
  <2>3. CASE KeptEntry(es, i)
    <3>1. /\ Append(s, e) \in Seq(S) /\ Len(s) \in Nat /\ Len(Append(s, e)) = Len(s) + 1
          /\ DOMAIN s = 1 .. Len(s) /\ DOMAIN Append(s, e) = 1 .. (Len(s) + 1)
          /\ \A k \in 1 .. Len(s) : Append(s, e)[k] = s[k]
          /\ Append(s, e)[Len(s) + 1] = e
      BY <2>1
    <3>2. ToSet(Append(s, e)) = ToSet(s) \cup {e}
      BY <3>1 DEF ToSet
    <3>3. e.script # H!None => e \notin ToSet(s)
      BY <2>1, <2>3 DEF KeptEntry, H!SameHook, e
    <3>4. \A k \in 1 .. Len(s) : s[k] \in ToSet(s)
      BY <3>1 DEF ToSet
    <3>5. Once(Append(s, e))
      BY <2>1, <3>1, <3>3, <3>4
    <3> QED
      BY <2>1, <2>2, <2>3, <3>1, <3>2, <3>5
  <2>4. CASE ~KeptEntry(es, i)
    <3>1. e \in First(i - 1)
      BY <2>4 DEF KeptEntry, H!SameHook, e
    <3> QED
      BY <2>1, <2>2, <2>4, <3>1
  <2> QED
    BY <2>3, <2>4
<1> HIDE DEF T
<1>5. n \in T
  <2>1. \A i \in 0 .. n : i \in T
    BY <1>1, <1>3, <1>4, Induction
  <2> QED
    BY <1>1, <2>1
<1>6. ToSet(es) = First(n)
  BY <1>1 DEF ToSet
<1> QED
  BY <1>2, <1>5, <1>6 DEF T
-----------------------------------------------------------------------------
(* The inputs of HookFunctions                                             *)

HookInv ==
    /\ op \in {"hooks", "decision"} => in \in HookInputs
    /\ op \in {"entries", "deduped"} => in \in Registries
    /\ op = "decision" => out = H!RunHooks(in.event, in.raws)
    /\ op = "deduped" => out = H!Dedupe(in)

LEMMA HookSteps == HookSpec => []HookInv
<1>1. HookInit => HookInv
  BY DEF HookInit, HookInv
<1>2. HookInv /\ [HookNext]_functionVars => HookInv'
  <2> SUFFICES ASSUME HookInv, [HookNext]_functionVars PROVE HookInv'
    OBVIOUS
  <2>1. CASE in' = in /\ op = "hooks" /\ Apply("decision", H!RunHooks(in.event, in.raws))
    BY <2>1 DEF Apply, HookInv
  <2>2. CASE in' = in /\ op = "entries" /\ Apply("deduped", H!Dedupe(in))
    BY <2>2 DEF Apply, HookInv
  <2>3. CASE UNCHANGED functionVars
    BY <2>3 DEF functionVars, HookInv
  <2> QED
    BY <2>1, <2>2, <2>3 DEF HookNext, OfHooks
<1> QED
  BY <1>1, <1>2, PTL DEF HookSpec

LEMMA HookInputTypes ==
    ASSUME NEW i \in HookInputs
    PROVE  i.raws \in Seq(Wires)
<1>1. i.raws \in BoundedSeq(Outcomes, MaxHandlers)
  BY DEF HookInputs
<1>2. Outcomes \subseteq Wires /\ MaxHandlers \in Nat
  BY HookAssumption DEF Wires
<1> QED
  BY <1>1, <1>2 DEF BoundedSeq, SeqOf

\* What a PreToolUse event lets through was refused by nobody, and its input was
\* written by a handler whose permission was decided - for any number of handlers
\* and whatever they come up with.
THEOREM GateIsSound == HookSpec => []GateSound
<1>1. ASSUME HookInv, op = "decision"
      PROVE  RefusalStands /\ InputFromWinner
  <2> DEFINE e == in.event
             raws == in.raws
             n == Len(raws)
             ds == DecisionsOf(e, raws)
             level == H!Strongest(ds)
  <2>1. raws \in Seq(Wires) /\ out = H!RunHooks(e, raws)
    BY <1>1, HookInputTypes DEF HookInv
  <2>2. /\ out = H!Combine(ds) /\ n \in Nat /\ DOMAIN raws = 1 .. n
        /\ AreDecisions(ds, n)
        /\ \A i \in 1 .. n : raws[i] \in Wires
    BY <2>1, RunIs
  <2>3. \A i \in 1 .. n : ds[i] = H!Normalize(e, raws[i]) /\ ds[i] \in Decisions
    BY <2>2 DEF DecisionsOf, AreDecisions
  <2> HIDE DEF ds, e, raws, n
  <2>4. ASSUME e = "PreToolUse"
        PROVE  \A interactive \in BOOLEAN :
                  (H!Gate(out, interactive) = "refused") <=> \E i \in 1 .. n : Refuses(raws[i])
    <3>1. \A i \in 1 .. n : ~ds[i].stop /\ (Refuses(raws[i]) <=> ds[i].perm = "deny" \/ ds[i].block)
      BY <2>2, <2>3, <2>4, NormalizeRefuses
    <3>2. ~H!SomeDecision(ds, "stop")
      BY <2>2, <3>1, SomeIs
    <3>3. /\ out.block <=> H!SomeDecision(ds, "block")
          /\ out.perm = level
      BY <2>2, <3>2, CombineIs, Zenon
    <3>4. out.perm = "deny" <=> \E i \in 1 .. n : ds[i].perm = "deny"
      BY <2>2, <3>3, StrongestIs, Zenon
    <3>5. out.block <=> \E i \in 1 .. n : ds[i].block
      BY <2>2, <3>3, SomeIs, Zenon
    <3>6. out.perm = "deny" \/ out.block <=> \E i \in 1 .. n : Refuses(raws[i])
      BY <3>1, <3>4, <3>5, Zenon
    <3>7. \A interactive \in BOOLEAN :
              (H!Gate(out, interactive) = "refused") <=> out.perm = "deny" \/ out.block
      BY DEF H!Gate
    <3> QED
      BY <3>6, <3>7, Zenon
  <2>5. ASSUME out.input # H!None
        PROVE  \E i \in 1 .. n : ds[i].input = out.input /\ ds[i].perm = out.perm
    <3>1. ~out.stop /\ out.perm = level
      BY <2>2, <2>5, CombineIs, Zenon
    <3>2. out.input = IF level = H!None THEN H!None
                      ELSE H!FirstGiven(ds, H!Winners(ds, level), "input")
      BY <2>2, <3>1, CombineIs, Zenon
    <3>3. out.input = H!FirstGiven(ds, H!Winners(ds, level), "input")
      BY <2>5, <3>2
    <3>4. H!Winners(ds, level) = {i \in 1 .. n : ds[i].perm = level}
      BY <2>2, WinnersAre
    <3> HIDE DEF level
    <3> DEFINE D == H!Winners(ds, level)
    <3>5. D \in SUBSET Nat
      BY <2>2, <3>4
    <3>6. IsFirst(H!FirstGiven(ds, D, "input"), ds, D, "input")
      BY <3>5, FirstIs
    <3>7. \E i \in D : ds[i].input = out.input
      BY <2>5, <3>3, <3>6 DEF IsFirst
    <3> QED
      BY <3>1, <3>4, <3>7
  <2>6. RefusalStands
    BY <2>2, <2>4 DEF RefusalStands, e, raws
  <2>7. InputFromWinner
    BY <2>2, <2>3, <2>5 DEF InputFromWinner, e, raws
  <2> QED
    BY <2>6, <2>7
<1>2. HookInv => GateSound
  BY <1>1 DEF GateSound, RefusalStands, InputFromWinner
<1> QED
  BY <1>2, HookSteps, PTL

\* Handlers do not get in each other's way, however many there are: their order
\* decides nothing but whose rewriting is used, a broken one decides nothing at
\* all, and a script that is registered twice runs once.
THEOREM HandlersAreIndependent == HookSpec => []HooksIndependent
<1>1. ASSUME HookInv, op = "decision"
      PROVE  OrderFree /\ BrokenHarmless
  <2> DEFINE e == in.event
             raws == in.raws
             n == Len(raws)
             ds == DecisionsOf(e, raws)
  <2>1. raws \in Seq(Wires) /\ out = H!RunHooks(e, raws)
    BY <1>1, HookInputTypes DEF HookInv
  <2>2. /\ out = H!Combine(ds) /\ n \in Nat /\ DOMAIN raws = 1 .. n
        /\ AreDecisions(ds, n)
        /\ \A i \in 1 .. n : raws[i] \in Wires
    BY <2>1, RunIs
  <2>3. \A i \in 1 .. n : ds[i] = H!Normalize(e, raws[i])
    BY <2>2 DEF DecisionsOf
  <2> HIDE DEF e, raws, n
  <2>4. ASSUME NEW p \in Bijection(1 .. n, 1 .. n)
        PROVE  WithoutWriter(H!RunHooks(e, [i \in 1 .. n |-> raws[p[i]]])) = WithoutWriter(out)
    <3> DEFINE other == [i \in 1 .. n |-> raws[p[i]]]
               es == DecisionsOf(e, other)
    <3>1. p \in [1 .. n -> 1 .. n] /\ \A j \in 1 .. n : \E i \in 1 .. n : p[i] = j
      BY DEF Bijection, Injection, Surjection
    <3>2. other \in Seq(Wires) /\ Len(other) = n /\ DOMAIN other = 1 .. n
      BY <2>2, <3>1
    <3>3. H!RunHooks(e, other) = H!Combine(es) /\ AreDecisions(es, n)
      <4> HIDE DEF other
      <4> QED
        BY <3>2, RunIs
    <3>4. \A i \in 1 .. n : es[i] = ds[p[i]]
      BY <2>3, <3>1, <3>2 DEF DecisionsOf
    <3> HIDE DEF es, ds, other
    <3>5. /\ \A j \in 1 .. n : \E i \in 1 .. n : es[i] = ds[j]
          /\ \A i \in 1 .. n : \E j \in 1 .. n : es[i] = ds[j]
      <4>1. ASSUME NEW j \in 1 .. n PROVE \E i \in 1 .. n : es[i] = ds[j]
        <5>1. PICK i \in 1 .. n : p[i] = j
          BY <3>1
        <5> QED
          BY <3>4, <5>1
      <4>2. ASSUME NEW i \in 1 .. n PROVE \E j \in 1 .. n : es[i] = ds[j]
        <5>1. p[i] \in 1 .. n
          BY <3>1
        <5> QED
          BY <3>4, <5>1
      <4> QED
        BY <4>1, <4>2
    <3>6. WithoutWriter(H!Combine(es)) = WithoutWriter(H!Combine(ds))
      BY <2>2, <3>3, <3>5, CombineAlike
    <3> QED
      BY <2>2, <3>3, <3>6, Zenon DEF other
  <2>5. ASSUME NEW i \in 1 .. n, Broken(e, raws[i])
        PROVE  [H!RunHooks(e, RemoveAt(raws, i)) EXCEPT !.error = TRUE] = out
    <3> DEFINE rest == RemoveAt(raws, i)
               es == DecisionsOf(e, rest)
    <3>1. rest = [k \in 1 .. (n - 1) |-> IF k < i THEN raws[k] ELSE raws[k + 1]]
      BY <2>1, <2>2, RemovedAt DEF n
    <3>2. rest \in Seq(Wires) /\ DOMAIN rest = 1 .. (n - 1)
      BY <2>2, <3>1
    <3> HIDE DEF rest
    <3>3. H!RunHooks(e, rest) = H!Combine(es)
      BY <3>2, RunIs
    <3>4. es = WithoutOne(ds, i, n)
      <4>1. \A k \in 1 .. (n - 1) : es[k] = IF k < i THEN ds[k] ELSE ds[k + 1]
        BY <2>2, <2>3, <3>1, <3>2 DEF DecisionsOf
      <4>2. es = [k \in 1 .. (n - 1) |-> es[k]]
        BY <3>2 DEF DecisionsOf
      <4> HIDE DEF es, ds
      <4> QED
        BY <4>1, <4>2 DEF WithoutOne
    <3>5. ds[i] = H!Erred
      <4>1. raws[i] \in Wires /\ ds[i] = H!Normalize(e, raws[i])
        BY <2>2, <2>3
      <4> QED
        BY <2>5, <4>1, NormalizeBroken, Zenon
    <3> HIDE DEF ds, es
    <3>6. [H!Combine(WithoutOne(ds, i, n)) EXCEPT !.error = TRUE] = H!Combine(ds)
      BY <2>2, <3>5, CombineWithout
    <3> QED
      BY <2>2, <3>3, <3>4, <3>6 DEF rest
  <2>6. OrderFree
    BY <2>2, <2>4 DEF OrderFree, e, raws
  <2>7. BrokenHarmless
    BY <2>2, <2>5 DEF BrokenHarmless, e, raws
  <2> QED
    BY <2>6, <2>7
<1>2. ASSUME HookInv, op = "deduped" PROVE DedupedOnce
  <2>1. in \in Seq(Entries) /\ out = H!Dedupe(in)
    BY <1>2, HookAssumption DEF HookInv, Registries, BoundedSeq, SeqOf
  <2> QED
    BY <2>1, DedupeKeeps DEF DedupedOnce
<1>3. HookInv => HooksIndependent
  BY <1>1, <1>2 DEF HooksIndependent, OrderFree, DedupedOnce, BrokenHarmless
<1> QED
  BY <1>3, HookSteps, PTL
-----------------------------------------------------------------------------
(* Deferred tools                                                          *)

\* One step of a session's life.
LEMMA PlayRun ==
    ASSUME NEW n \in Nat, NEW events, DOMAIN events = 1 .. n, NEW mode
    PROVE  \E r : IsRun(r, "play", 0, Prepared(mode, Catalog), events, n)
                  /\ r[n] = Played(mode, events)
<1> DEFINE base == Prepared(mode, Catalog)
           Is(g) == g = [s \in SUBSET (1 .. n) |->
                IF s = {} THEN base ELSE Happen(g[s \ {Max(s)}], events[Max(s)])]
           G == CHOOSE g : Is(g)
<1>1. \E g : IsFold(g, "play", 0, base, events, n)
  BY FoldExists
<1>2. \A g : IsFold(g, "play", 0, base, events, n) <=> Is(g)
  BY DEF IsFold, Step
<1>3. IsFold(G, "play", 0, base, events, n)
  BY <1>1, <1>2
<1>4. Played(mode, events) = G[1 .. n]
  BY DEF Played, FoldLeft, MapThenFoldSet
<1> HIDE DEF G, base
<1>5. \E r : IsRun(r, "play", 0, base, events, n) /\ r[n] = G[1 .. n]
  BY <1>3, FoldRuns
<1> QED
  BY <1>4, <1>5 DEF base

\* The tools a history names: those its messages do.
LEMMA NamedIs ==
    ASSUME NEW h \in Seq(Msg), NEW how
    PROVE  \A n : n \in Named(h, how) <=> n \in Nat /\ \E m \in ToSet(h) : <<how, n>> \in m.text
<1>1. DOMAIN h = 1 .. Len(h) /\ \A i \in 1 .. Len(h) : h[i] \in Msg
  BY SeqFacts
<1>2. \A i \in DOMAIN h : h[i].text \in SUBSET (Kinds \X Nat)
  BY <1>1, MsgFacts
<1>3. ASSUME NEW n \in Named(h, how)
      PROVE  n \in Nat /\ \E m \in ToSet(h) : <<how, n>> \in m.text
  <2>1. PICK i \in DOMAIN h : \E t \in h[i].text : t[1] = how /\ t[2] = n
    BY DEF Named
  <2>2. PICK t \in h[i].text : t[1] = how /\ t[2] = n
    BY <2>1
  <2>3. t \in Kinds \X Nat
    BY <1>2, <2>2
  <2>4. t = <<how, n>> /\ n \in Nat
    BY <2>2, <2>3
  <2>5. h[i] \in ToSet(h)
    BY DEF ToSet
  <2> QED
    BY <2>2, <2>4, <2>5
<1>4. ASSUME NEW n \in Nat, NEW m \in ToSet(h), <<how, n>> \in m.text
      PROVE  n \in Named(h, how)
  <2>1. PICK i \in DOMAIN h : m = h[i]
    BY DEF ToSet
  <2>2. <<how, n>> \in {u \in UNION {h[j].text : j \in DOMAIN h} : u[1] = how}
    BY <1>4, <2>1
  <2> QED
    BY <2>2 DEF Named
<1> QED
  BY <1>3, <1>4

LEMMA NamedConcat ==
    ASSUME NEW a \in Seq(Msg), NEW b \in Seq(Msg), NEW how
    PROVE  Named(a \o b, how) = Named(a, how) \cup Named(b, how)
<1>1. ToSet(a \o b) = ToSet(a) \cup ToSet(b) /\ a \o b \in Seq(Msg)
  BY ConcatContents, ConcatFacts
<1>2. \A n : n \in Named(a \o b, how) <=> n \in Named(a, how) \cup Named(b, how)
  BY <1>1, NamedIs
<1> QED
  BY <1>2

LEMMA NamedOne ==
    ASSUME NEW m \in Msg, NEW how
    PROVE  /\ <<m>> \in Seq(Msg) /\ ToSet(<<m>>) = {m}
           /\ \A n : n \in Named(<<m>>, how) <=> n \in Nat /\ <<how, n>> \in m.text
<1>1. <<m>> \in Seq(Msg) /\ ToSet(<<m>>) = {m}
  BY DEF ToSet
<1> QED
  BY <1>1, NamedIs

\* Tools are declared by system messages only.
Proper(h) ==
    \A m \in ToSet(h) : \A n \in Nat : <<"tool", n>> \in m.text => m.role = "system"

\* None is declared twice.
DeclaredOnce(h) ==
    \A n : \A i, j \in DOMAIN h : Declares(h[i], n) /\ Declares(h[j], n) => i = j

LEMMA OnceConcat ==
    ASSUME NEW a \in Seq(Msg), NEW b \in Seq(Msg), DeclaredOnce(a), DeclaredOnce(b),
           \A n : ~(n \in Named(a, "tool") /\ n \in Named(b, "tool"))
    PROVE  DeclaredOnce(a \o b)
<1>1. /\ Len(a) \in Nat /\ Len(b) \in Nat /\ DOMAIN a = 1 .. Len(a) /\ DOMAIN b = 1 .. Len(b)
      /\ \A i \in 1 .. Len(a) : a[i] \in Msg
      /\ \A i \in 1 .. Len(b) : b[i] \in Msg
      /\ DOMAIN (a \o b) = 1 .. (Len(a) + Len(b))
      /\ \A i \in 1 .. Len(a) : (a \o b)[i] = a[i]
      /\ \A i \in 1 .. (Len(a) + Len(b)) :
             i \notin 1 .. Len(a) => i - Len(a) \in 1 .. Len(b) /\ (a \o b)[i] = b[i - Len(a)]
  BY SeqFacts, ConcatFacts
<1>2. \A m \in Msg : \A n : Declares(m, n) => n \in Nat
  <2> TAKE m \in Msg
  <2> TAKE n
  <2> HAVE Declares(m, n)
  <2>1. <<"tool", n>> \in Kinds \X Nat
    BY MsgFacts DEF Declares
  <2> QED
    BY <2>1
<1>3. \A i \in 1 .. Len(a) : \A n : Declares(a[i], n) => n \in Named(a, "tool")
  BY <1>1, <1>2, NamedIs DEF Declares, ToSet
<1>4. \A i \in 1 .. Len(b) : \A n : Declares(b[i], n) => n \in Named(b, "tool")
  BY <1>1, <1>2, NamedIs DEF Declares, ToSet
<1>5. ASSUME NEW n, NEW i \in DOMAIN (a \o b), NEW j \in DOMAIN (a \o b),
             Declares((a \o b)[i], n), Declares((a \o b)[j], n)
      PROVE  i = j
  <2>1. CASE i \in 1 .. Len(a) /\ j \in 1 .. Len(a)
    BY <1>1, <1>5, <2>1 DEF DeclaredOnce
  <2>2. CASE i \notin 1 .. Len(a) /\ j \notin 1 .. Len(a)
    <3>1. /\ i - Len(a) \in DOMAIN b /\ j - Len(a) \in DOMAIN b
          /\ Declares(b[i - Len(a)], n) /\ Declares(b[j - Len(a)], n)
      BY <1>1, <1>5, <2>2
    <3>2. i - Len(a) = j - Len(a)
      BY <3>1 DEF DeclaredOnce
    <3> QED
      BY <1>1, <1>5, <3>2
  <2>3. CASE i \in 1 .. Len(a) /\ j \notin 1 .. Len(a)
    <3>1. n \in Named(a, "tool") /\ n \in Named(b, "tool")
      BY <1>1, <1>3, <1>4, <1>5, <2>3
    <3> QED
      BY <3>1
  <2>4. CASE i \notin 1 .. Len(a) /\ j \in 1 .. Len(a)
    <3>1. n \in Named(a, "tool") /\ n \in Named(b, "tool")
      BY <1>1, <1>3, <1>4, <1>5, <2>4
    <3> QED
      BY <3>1
  <2> QED
    BY <2>1, <2>2, <2>3, <2>4
<1> QED
  BY <1>5 DEF DeclaredOnce

\* What holds of a whole holds of its parts, and nothing is declared in both.
LEMMA OnceApart ==
    ASSUME NEW a \in Seq(Msg), NEW b \in Seq(Msg), DeclaredOnce(a \o b), Proper(a \o b)
    PROVE  /\ DeclaredOnce(a) /\ DeclaredOnce(b) /\ Proper(a) /\ Proper(b)
           /\ \A n : ~(n \in Named(a, "tool") /\ n \in Named(b, "tool"))
<1>1. /\ Len(a) \in Nat /\ Len(b) \in Nat /\ DOMAIN a = 1 .. Len(a) /\ DOMAIN b = 1 .. Len(b)
      /\ DOMAIN (a \o b) = 1 .. (Len(a) + Len(b))
      /\ \A i \in 1 .. Len(a) : (a \o b)[i] = a[i]
      /\ \A i \in 1 .. Len(b) : (a \o b)[Len(a) + i] = b[i]
      /\ ToSet(a \o b) = ToSet(a) \cup ToSet(b)
  BY SeqFacts, ConcatFacts, ConcatContents
<1>2. /\ \A i \in 1 .. Len(a) : i \in DOMAIN (a \o b)
      /\ \A i \in 1 .. Len(b) : Len(a) + i \in DOMAIN (a \o b)
  BY <1>1
<1>3. Proper(a) /\ Proper(b)
  BY <1>1 DEF Proper
<1>4. DeclaredOnce(a)
  BY <1>1, <1>2 DEF DeclaredOnce
<1>5. DeclaredOnce(b)
  <2> SUFFICES ASSUME NEW n, NEW i \in 1 .. Len(b), NEW j \in 1 .. Len(b),
                      Declares(b[i], n), Declares(b[j], n)
               PROVE  i = j
    BY <1>1 DEF DeclaredOnce
  <2>1. Len(a) + i = Len(a) + j
    <3>1. Declares((a \o b)[Len(a) + i], n) /\ Declares((a \o b)[Len(a) + j], n)
      BY <1>1
    <3> QED
      BY <1>2, <3>1 DEF DeclaredOnce
  <2> QED
    BY <1>1, <2>1
<1>6. ASSUME NEW n, n \in Named(a, "tool"), n \in Named(b, "tool") PROVE FALSE
  <2>1. PICK i \in 1 .. Len(a) : <<"tool", n>> \in a[i].text
    BY <1>1, <1>6, NamedIs DEF ToSet
  <2>2. PICK j \in 1 .. Len(b) : <<"tool", n>> \in b[j].text
    <3>1. PICK m \in ToSet(b) : <<"tool", n>> \in m.text
      BY <1>6, NamedIs
    <3> QED
      BY <1>1, <3>1 DEF ToSet
  <2>3. n \in Nat /\ a[i] \in ToSet(a) /\ b[j] \in ToSet(b)
    <3>1. n \in Nat
      BY <1>6, NamedIs
    <3> QED
      BY <1>1, <3>1 DEF ToSet
  <2>4. Declares(a[i], n) /\ Declares(b[j], n)
    BY <1>3, <2>1, <2>2, <2>3 DEF Proper, Declares
  <2>5. i = Len(a) + j
    BY <1>1, <1>2, <2>4 DEF DeclaredOnce
  <2> QED
    BY <1>1, <2>5
<1> QED
  BY <1>3, <1>4, <1>5, <1>6

\* Dropping messages adds no declaration.
LEMMA OnceOfRoles ==
    ASSUME NEW h \in Seq(Msg), NEW roles, DeclaredOnce(h), Proper(h)
    PROVE  DeclaredOnce(OfRoles(h, roles)) /\ Proper(OfRoles(h, roles))
<1> DEFINE G == {g \in Seq(Msg) : DeclaredOnce(g) /\ Proper(g) => DeclaredOnce(OfRoles(g, roles))}
<1>1. <<>> \in G
  <2>1. <<>> \in Seq(Msg) /\ DeclaredOnce(<<>>)
    BY DEF DeclaredOnce
  <2> QED
    BY <2>1, RolesOfNone
<1>2. ASSUME NEW g \in Seq(Msg), NEW m \in Msg, g \in G PROVE Append(g, m) \in G
  <2>1. /\ Append(g, m) \in Seq(Msg) /\ <<m>> \in Seq(Msg) /\ ToSet(<<m>>) = {m}
        /\ Append(g, m) = g \o <<m>>
    BY NamedOne, AppendFacts
  <2> SUFFICES ASSUME DeclaredOnce(g \o <<m>>), Proper(g \o <<m>>)
               PROVE  DeclaredOnce(OfRoles(Append(g, m), roles))
    BY <2>1
  <2>2. /\ DeclaredOnce(g) /\ DeclaredOnce(<<m>>) /\ Proper(g)
        /\ \A n : ~(n \in Named(g, "tool") /\ n \in Named(<<m>>, "tool"))
    BY <2>1, OnceApart
  <2> DEFINE o == OfRoles(g, roles)
  <2>3. DeclaredOnce(o) /\ o \in Seq(Msg) /\ ToSet(o) \subseteq ToSet(g)
    BY <1>2, <2>2, RolesFacts
  <2>4. OfRoles(Append(g, m), roles) = IF m.role \in roles THEN Append(o, m) ELSE o
    BY RolesOfAppend
  <2> HIDE DEF o
  <2>5. Append(o, m) = o \o <<m>>
    BY <2>3
  <2>6. \A n : n \in Named(o, "tool") => n \in Named(g, "tool")
    BY <2>3, NamedIs
  <2>7. DeclaredOnce(o \o <<m>>)
    BY <2>1, <2>2, <2>3, <2>6, OnceConcat
  <2> QED
    BY <2>3, <2>4, <2>5, <2>7
<1> HIDE DEF G
<1>3. h \in G
  BY <1>1, <1>2, HistoryInduction
<1>4. ToSet(OfRoles(h, roles)) \subseteq ToSet(h)
  BY RolesFacts
<1> QED
  BY <1>3, <1>4 DEF G, Proper

\* A session, and what it keeps: in mode glm a tool found is recorded, and one
\* still hidden is named by a message; in mode kimi it is declared, as is each
\* tool recorded, and until a resume only those, once each.
Sessions ==
    [mode : {"kimi", "glm"}, catalog : {Catalog}, hidden : SUBSET Catalog,
     revealed : SUBSET Catalog, asked : Seq(Msg), messages : Seq(Msg)]

SessionInv(s, found, fresh) ==
    /\ s \in Sessions
    /\ Named(s.asked, "ref") = {}
    /\ Proper(s.messages)
    /\ s.mode = "glm" =>
          /\ found \cap Catalog \subseteq s.revealed
          /\ found \cap s.hidden \subseteq Named(s.messages, "ref")
          /\ Named(s.messages, "tool") = {}
    /\ s.mode = "kimi" =>
          /\ found \cap Catalog \subseteq Named(s.messages, "tool")
          /\ s.revealed \subseteq Named(s.messages, "tool")
          /\ fresh => /\ Named(s.messages, "tool") \subseteq s.revealed
                       /\ DeclaredOnce(s.messages)

\* A history that declares nothing, and one message that does.
LEMMA DeclaresNothing ==
    ASSUME NEW h \in Seq(Msg), Named(h, "tool") = {}
    PROVE  DeclaredOnce(h) /\ Proper(h)
<1>1. Proper(h)
  <2> SUFFICES ASSUME NEW m \in ToSet(h), NEW n \in Nat, <<"tool", n>> \in m.text PROVE FALSE
    BY DEF Proper
  <2> QED
    BY NamedIs
<1>2. ASSUME NEW n, NEW i \in DOMAIN h, Declares(h[i], n) PROVE FALSE
  <2>1. h[i] \in Msg /\ h[i] \in ToSet(h)
    BY SeqFacts DEF ToSet
  <2>2. <<"tool", n>> \in Kinds \X Nat /\ <<"tool", n>> \in h[i].text
    BY <1>2, <2>1, MsgFacts DEF Declares
  <2>3. n \in Nat
    BY <2>2
  <2> QED
    BY <2>1, <2>2, <2>3, NamedIs
<1> QED
  BY <1>1, <1>2 DEF DeclaredOnce

LEMMA ProperConcat ==
    ASSUME NEW a \in Seq(Msg), NEW b \in Seq(Msg), Proper(a), Proper(b)
    PROVE  Proper(a \o b)
BY ConcatContents DEF Proper

\* The messages of a search.
LEMMA SearchMessages ==
    ASSUME NEW id \in Nat \ {0}, NEW names \in SUBSET Catalog
    PROVE  /\ Calling(<<[id |-> id, n |-> id]>>) \in Msg
           /\ Calling(<<[id |-> id, n |-> id]>>).text = {}
           /\ References(id, names) \in Msg
           /\ References(id, names).text = {<<"ref", n>> : n \in names}
           /\ ToolResult(id, {}) \in Msg /\ ToolResult(id, {}).text = {}
           /\ Declaration(names) \in Msg /\ Declaration(names).role = "system"
           /\ Declaration(names).text = {<<"tool", n>> : n \in names}
<1>1. <<[id |-> id, n |-> id]>> \in Seq(AnyCall)
  BY DEF AnyCall, NoCall
<1>2. Calling(<<[id |-> id, n |-> id]>>) \in Msg
  BY <1>1 DEF Calling, Message, Msg, NoCall
<1>3. Catalog \subseteq Nat
  BY DeferredAssumption
<1>4. /\ {<<"ref", n>> : n \in names} \in SUBSET (Kinds \X Nat)
      /\ {<<"tool", n>> : n \in names} \in SUBSET (Kinds \X Nat)
  BY <1>3 DEF Kinds
<1>5. \A t \in SUBSET (Kinds \X Nat) :
          /\ ToolResult(id, t) \in Msg /\ ToolResult(id, t).text = t
          /\ Message("system", <<>>, NoCall, t) \in Msg
          /\ Message("system", <<>>, NoCall, t).text = t
  BY DEF ToolResult, Message, Msg, NoCall
<1> QED
  BY <1>2, <1>4, <1>5 DEF Calling, References, Declaration, Message

\* The call and its answer name no tool as declared, and in mode glm what the
\* search found as referred to.
LEMMA Exchange ==
    ASSUME NEW c \in Msg, NEW a \in Msg, c.text = {}
    PROVE  /\ <<c, a>> \in Seq(Msg)
           /\ \A how : \A n : n \in Named(<<c, a>>, how) <=> n \in Nat /\ <<how, n>> \in a.text
<1>1. <<c, a>> \in Seq(Msg) /\ ToSet(<<c, a>>) = {c, a}
  BY DEF ToSet
<1> QED
  BY <1>1, NamedIs

LEMMA Pairs ==
    \A how, other, n, S : <<how, n>> \in {<<other, k>> : k \in S} <=> how = other /\ n \in S
OBVIOUS

\* A session with some of its fields replaced.
LEMMA SessionWith ==
    ASSUME NEW s \in Sessions
    PROVE  /\ \A r \in SUBSET Catalog :
                 [s EXCEPT !.revealed = r] \in Sessions /\ [s EXCEPT !.hidden = r] \in Sessions
           /\ \A h \in Seq(Msg) :
                 [s EXCEPT !.asked = h] \in Sessions /\ [s EXCEPT !.messages = h] \in Sessions
<1> DEFINE T == SUBSET Catalog
           Hist == Seq(Msg)
<1>1. Sessions = [mode : {"kimi", "glm"}, catalog : {Catalog}, hidden : T,
                  revealed : T, asked : Hist, messages : Hist]
  BY DEF Sessions
<1> HIDE DEF T, Hist
<1>2. \A r \in T : [s EXCEPT !.revealed = r] \in Sessions /\ [s EXCEPT !.hidden = r] \in Sessions
  BY <1>1
<1>3. \A h \in Hist : [s EXCEPT !.asked = h] \in Sessions /\ [s EXCEPT !.messages = h] \in Sessions
  BY <1>1
<1> QED
  BY <1>2, <1>3 DEF T, Hist

\* A search: what it found is recorded, and shown in the session's way.
LEMMA SearchKeeps ==
    ASSUME NEW s, NEW found, NEW fresh, SessionInv(s, found, fresh), NEW names
    PROVE  /\ SessionInv(HandleSearch(s, names), found \cup names, fresh)
           /\ HandleSearch(s, names).mode = s.mode
<1> DEFINE hits == names \cap s.catalog
           new == hits \ s.revealed
           id == Len(s.messages) + 1
           c == Calling(<<[id |-> id, n |-> id]>>)
           a == IF s.mode = "glm" THEN References(id, hits) ELSE ToolResult(id, {})
           x == IF s.mode = "glm" \/ new = {} THEN <<>> ELSE <<Declaration(new)>>
           h == s.messages
           u == h \o <<c, a>>
           t == HandleSearch(s, names)
<1>1. /\ s \in Sessions /\ Proper(h) /\ Named(s.asked, "ref") = {} /\ h \in Seq(Msg)
      /\ s.mode \in {"kimi", "glm"} /\ s.catalog = Catalog /\ s.revealed \in SUBSET Catalog
      /\ hits = names \cap Catalog
  BY DEF SessionInv, Sessions
<1>2. t = [s EXCEPT !.revealed = @ \cup hits, !.messages = u \o x]
  BY DEF HandleSearch
<1>3. /\ id \in Nat \ {0} /\ hits \in SUBSET Catalog /\ new \in SUBSET Catalog
  BY <1>1
<1> HIDE DEF hits, new, id
<1>4. /\ c \in Msg /\ c.text = {} /\ a \in Msg
      /\ a.text = IF s.mode = "glm" THEN {<<"ref", n>> : n \in hits} ELSE {}
      /\ Declaration(new) \in Msg /\ Declaration(new).role = "system"
      /\ Declaration(new).text = {<<"tool", n>> : n \in new}
  BY <1>3, SearchMessages
<1> HIDE DEF c, a
<1>5. /\ <<c, a>> \in Seq(Msg) /\ u \in Seq(Msg)
      /\ \A n : n \in Named(<<c, a>>, "ref") <=> s.mode = "glm" /\ n \in hits
      /\ Named(<<c, a>>, "tool") = {}
  <2>1. /\ <<c, a>> \in Seq(Msg)
        /\ \A how : \A n : n \in Named(<<c, a>>, how) <=> n \in Nat /\ <<how, n>> \in a.text
    BY <1>4, Exchange
  <2>2. hits \subseteq Nat
    BY <1>3, DeferredAssumption
  <2>3. \A n : n \in Named(<<c, a>>, "ref") <=> s.mode = "glm" /\ n \in hits
    <3>1. \A n : <<"ref", n>> \in a.text <=> s.mode = "glm" /\ n \in hits
      BY <1>4, Pairs
    <3> QED
      BY <2>1, <2>2, <3>1
  <2>4. \A n : ~(<<"tool", n>> \in a.text)
    BY <1>4, Pairs
  <2>5. Named(<<c, a>>, "tool") = {}
    BY <2>1, <2>4
  <2> QED
    BY <1>1, <2>1, <2>3, <2>5, ConcatFacts
<1>6. /\ x \in Seq(Msg) /\ DeclaredOnce(x) /\ Proper(x)
      /\ Named(x, "ref") = {}
      /\ Named(x, "tool") = IF s.mode = "glm" THEN {} ELSE new
  <2>1. CASE x = <<>>
    <3>1. /\ <<>> \in Seq(Msg) /\ ToSet(<<>>) = {}
          /\ \A how : Named(<<>>, how) = {}
      BY DEF ToSet, Named
    <3>2. s.mode = "glm" \/ new = {}
      BY <2>1
    <3>3. DeclaredOnce(<<>>) /\ Proper(<<>>)
      BY <3>1, DeclaresNothing
    <3> QED
      BY <2>1, <3>1, <3>2, <3>3
  <2>2. CASE x = <<Declaration(new)>> /\ s.mode # "glm"
    <3> DEFINE d == Declaration(new)
    <3>1. new \subseteq Nat
      BY <1>3, DeferredAssumption
    <3>2. d \in Msg /\ d.role = "system" /\ d.text = {<<"tool", n>> : n \in new}
      BY <1>4
    <3> HIDE DEF d
    <3>3. /\ <<d>> \in Seq(Msg) /\ ToSet(<<d>>) = {d}
          /\ \A how : \A n : n \in Named(<<d>>, how) <=> n \in Nat /\ <<how, n>> \in d.text
      BY <3>2, NamedOne
    <3>4. Named(<<d>>, "tool") = new
      <4>1. \A n : <<"tool", n>> \in d.text <=> n \in new
        BY <3>2, Pairs
      <4> QED
        BY <3>1, <3>3, <4>1
    <3>5. \A n : ~(<<"ref", n>> \in d.text)
      BY <3>2, Pairs
    <3>6. Named(<<d>>, "ref") = {}
      BY <3>3, <3>5
    <3>7. Proper(<<d>>)
      BY <3>2, <3>3 DEF Proper
    <3>8. DeclaredOnce(<<d>>)
      BY DEF DeclaredOnce
    <3> QED
      BY <2>2, <3>3, <3>4, <3>6, <3>7, <3>8 DEF d
  <2> QED
    BY <2>1, <2>2
<1> HIDE DEF x
<1>7. /\ u \o x \in Seq(Msg)
      /\ \A how : Named(u \o x, how) = (Named(h, how) \cup Named(<<c, a>>, how)) \cup Named(x, how)
      /\ \A how : Named(u, how) = Named(h, how) \cup Named(<<c, a>>, how)
  <2>1. u \o x \in Seq(Msg)
    BY <1>5, <1>6, ConcatFacts
  <2>2. \A how : Named(u, how) = Named(h, how) \cup Named(<<c, a>>, how)
    BY <1>1, <1>5, NamedConcat
  <2>3. \A how : Named(u \o x, how) = Named(u, how) \cup Named(x, how)
    <3> HIDE DEF u
    <3> QED
      BY <1>5, <1>6, NamedConcat
  <2> QED
    BY <2>1, <2>2, <2>3
<1>8. Proper(<<c, a>>) /\ DeclaredOnce(<<c, a>>)
  BY <1>5, DeclaresNothing
<1>9. Proper(u \o x)
  BY <1>1, <1>5, <1>6, <1>8, ProperConcat
<1>10. ASSUME s.mode = "kimi", fresh PROVE DeclaredOnce(u \o x)
  <2>1. DeclaredOnce(h) /\ Named(h, "tool") \subseteq s.revealed
    BY <1>10 DEF SessionInv
  <2>2. DeclaredOnce(u)
    BY <1>1, <1>5, <1>8, <2>1, OnceConcat
  <2>3. \A n : ~(n \in Named(u, "tool") /\ n \in Named(x, "tool"))
    BY <1>5, <1>6, <1>7, <1>10, <2>1 DEF new
  <2> QED
    BY <1>5, <1>6, <2>2, <2>3, OnceConcat
<1> HIDE DEF u
<1>11. /\ t \in Sessions /\ t.mode = s.mode /\ t.asked = s.asked /\ t.hidden = s.hidden
       /\ t.revealed = s.revealed \cup hits /\ t.messages = u \o x
  <2> DEFINE r == [s EXCEPT !.revealed = s.revealed \cup hits]
             g == u \o x
  <2>1. s.revealed \cup hits \in SUBSET Catalog /\ g \in Seq(Msg)
    BY <1>1, <1>3, <1>7
  <2> HIDE DEF g
  <2>2. /\ r \in Sessions /\ r.mode = s.mode /\ r.asked = s.asked /\ r.hidden = s.hidden
        /\ r.revealed = s.revealed \cup hits
    <3>1. r \in Sessions
      BY <1>1, <2>1, SessionWith
    <3> QED
      BY <1>1, <3>1 DEF Sessions
  <2>3. t = [r EXCEPT !.messages = g]
    BY <1>1, <1>2 DEF Sessions, g
  <2> HIDE DEF r, t
  <2>4. t \in Sessions
    BY <2>1, <2>2, <2>3, SessionWith
  <2> QED
    BY <2>2, <2>3, <2>4 DEF Sessions, g
<1> HIDE DEF t
<1>12. ASSUME s.mode = "glm"
       PROVE  /\ (found \cup names) \cap Catalog \subseteq t.revealed
              /\ (found \cup names) \cap t.hidden \subseteq Named(t.messages, "ref")
              /\ Named(t.messages, "tool") = {}
  <2>1. /\ found \cap Catalog \subseteq s.revealed
        /\ found \cap s.hidden \subseteq Named(h, "ref")
        /\ Named(h, "tool") = {}
    BY <1>12 DEF SessionInv
  <2>2. s.hidden \subseteq Catalog
    BY <1>1 DEF Sessions
  <2>3. Named(t.messages, "ref") = Named(h, "ref") \cup hits
    BY <1>5, <1>6, <1>7, <1>11, <1>12
  <2>4. Named(t.messages, "tool") = {}
    BY <1>5, <1>6, <1>7, <1>11, <1>12, <2>1
  <2> QED
    BY <1>1, <1>11, <2>1, <2>2, <2>3, <2>4
<1>13. ASSUME s.mode = "kimi"
       PROVE  /\ (found \cup names) \cap Catalog \subseteq Named(t.messages, "tool")
              /\ t.revealed \subseteq Named(t.messages, "tool")
              /\ fresh => /\ Named(t.messages, "tool") \subseteq t.revealed
                           /\ DeclaredOnce(t.messages)
  <2>1. /\ found \cap Catalog \subseteq Named(h, "tool")
        /\ s.revealed \subseteq Named(h, "tool")
        /\ fresh => Named(h, "tool") \subseteq s.revealed
    BY <1>13 DEF SessionInv
  <2>2. Named(t.messages, "tool") = Named(h, "tool") \cup new
    BY <1>5, <1>6, <1>7, <1>11, <1>13
  <2> QED
    BY <1>1, <1>10, <1>11, <1>13, <2>1, <2>2 DEF new
<1> QED
  BY <1>1, <1>9, <1>11, <1>12, <1>13 DEF SessionInv, t

\* What keeps the invariant when only the messages change, and nothing that was
\* named is lost.
LEMMA MessagesKeep ==
    ASSUME NEW s, NEW found, NEW fresh, SessionInv(s, found, fresh),
           NEW h \in Seq(Msg), Proper(h),
           Named(h, "tool") = Named(s.messages, "tool"),
           s.mode = "glm" => found \cap s.hidden \subseteq Named(h, "ref"),
           DeclaredOnce(s.messages) => DeclaredOnce(h)
    PROVE  LET t == [s EXCEPT !.messages = h]
           IN  SessionInv(t, found, fresh) /\ t.mode = s.mode /\ t.messages = h
<1> DEFINE t == [s EXCEPT !.messages = h]
<1>1. s \in Sessions
  BY DEF SessionInv
<1>2. t \in Sessions
  BY <1>1, SessionWith
<1>3. /\ t.mode = s.mode /\ t.asked = s.asked /\ t.hidden = s.hidden
      /\ t.revealed = s.revealed /\ t.messages = h
  BY <1>1 DEF Sessions
<1> HIDE DEF t
<1>4. SessionInv(t, found, fresh)
  BY <1>2, <1>3 DEF SessionInv
<1> QED
  BY <1>3, <1>4 DEF t

\* The next prompt declares and refers to nothing.
LEMMA PromptKeeps ==
    ASSUME NEW s, NEW found, NEW fresh, SessionInv(s, found, fresh)
    PROVE  SessionInv(NextPrompt(s), found, fresh) /\ NextPrompt(s).mode = s.mode
<1> DEFINE h == s.messages
           e == <<Assistant({}), User({<<"task", Len(h)>>})>>
<1>1. s \in Sessions /\ h \in Seq(Msg) /\ Proper(h)
  BY DEF SessionInv, Sessions
<1>2. /\ Assistant({}) \in Msg /\ Assistant({}).text = {}
      /\ User({<<"task", Len(h)>>}) \in Msg
      /\ User({<<"task", Len(h)>>}).text = {<<"task", Len(h)>>}
  <2>1. {<<"task", Len(h)>>} \in SUBSET (Kinds \X Nat) /\ {} \in SUBSET (Kinds \X Nat)
    BY <1>1 DEF Kinds
  <2> HIDE DEF h
  <2> QED
    BY <2>1 DEF Assistant, User, Message, Msg, NoCall
<1>3. e \in Seq(Msg) /\ Named(e, "tool") = {}
  <2> DEFINE u == User({<<"task", Len(h)>>})
             a == Assistant({})
  <2>1. \A n : ~(<<"tool", n>> \in u.text)
    BY <1>2
  <2> HIDE DEF u, a
  <2>2. u \in Msg /\ a \in Msg /\ a.text = {}
    BY <1>2 DEF u, a
  <2>3. /\ <<a, u>> \in Seq(Msg)
        /\ \A n : n \in Named(<<a, u>>, "tool") <=> n \in Nat /\ <<"tool", n>> \in u.text
    BY <2>2, Exchange
  <2> QED
    BY <2>1, <2>3 DEF u, a
<1>4. Proper(e) /\ DeclaredOnce(e)
  BY <1>3, DeclaresNothing
<1>5. NextPrompt(s) = [s EXCEPT !.messages = h \o e]
  BY <1>1 DEF NextPrompt, Sessions
<1> HIDE DEF h, e
<1>6. /\ h \o e \in Seq(Msg) /\ Proper(h \o e)
      /\ \A how : Named(h \o e, how) = Named(h, how) \cup Named(e, how)
  BY <1>1, <1>3, <1>4, ConcatFacts, ProperConcat, NamedConcat
<1>7. DeclaredOnce(h) => DeclaredOnce(h \o e)
  BY <1>1, <1>3, <1>4, OnceConcat
<1>8. s.mode = "glm" => found \cap s.hidden \subseteq Named(h \o e, "ref")
  BY <1>6 DEF SessionInv, h
<1>9. Named(h \o e, "tool") = Named(s.messages, "tool")
  BY <1>3, <1>6 DEF h
<1> DEFINE g == h \o e
<1>10. /\ g \in Seq(Msg) /\ Proper(g) /\ Named(g, "tool") = Named(s.messages, "tool")
       /\ s.mode = "glm" => found \cap s.hidden \subseteq Named(g, "ref")
       /\ DeclaredOnce(s.messages) => DeclaredOnce(g)
  BY <1>6, <1>7, <1>8, <1>9 DEF h
<1> HIDE DEF g
<1> DEFINE t == [s EXCEPT !.messages = g]
<1>11. SessionInv(t, found, fresh) /\ t.mode = s.mode
  BY <1>10, MessagesKeep
<1> QED
  BY <1>5, <1>11 DEF g

\* System messages are all a declaration needs.
LEMMA SystemNames ==
    ASSUME NEW h \in Seq(Msg), Proper(h)
    PROVE  LET o == OfRoles(h, {"system"})
           IN  /\ o \in Seq(Msg) /\ Proper(o) /\ Named(o, "tool") = Named(h, "tool")
               /\ DeclaredOnce(h) => DeclaredOnce(o)
<1> DEFINE o == OfRoles(h, {"system"})
<1>1. o \in Seq(Msg) /\ ToSet(o) = {m \in ToSet(h) : m.role \in {"system"}}
  BY RolesFacts
<1>2. DeclaredOnce(h) => DeclaredOnce(o)
  BY OnceOfRoles
<1> HIDE DEF o
<1>3. Proper(o)
  BY <1>1 DEF Proper
<1>4. \A n : n \in Named(o, "tool") <=> n \in Named(h, "tool")
  <2>1. \A n : n \in Named(o, "tool") <=> n \in Nat /\ \E m \in ToSet(o) : <<"tool", n>> \in m.text
    BY <1>1, NamedIs
  <2>2. \A n : n \in Named(h, "tool") <=> n \in Nat /\ \E m \in ToSet(h) : <<"tool", n>> \in m.text
    BY NamedIs
  <2> QED
    BY <1>1, <2>1, <2>2 DEF Proper
<1> QED
  BY <1>1, <1>2, <1>3, <1>4 DEF o

\* /clear: what was declared stays so; with glm what was found is forgotten.
LEMMA ClearKeeps ==
    ASSUME NEW s, NEW found, NEW fresh, SessionInv(s, found, fresh)
    PROVE  /\ SessionInv(ClearSession(s), IF s.mode = "glm" THEN {} ELSE found, fresh)
           /\ ClearSession(s).mode = s.mode
<1> DEFINE h == s.messages
           o == OfRoles(h, {"system"})
           m == User({<<"task", Len(h)>>})
           left == IF s.mode = "glm" THEN {} ELSE found
<1>1. s \in Sessions /\ h \in Seq(Msg) /\ Proper(h)
  BY DEF SessionInv, Sessions
<1>2. m \in Msg /\ m.text = {<<"task", Len(h)>>}
  <2>1. {<<"task", Len(h)>>} \in SUBSET (Kinds \X Nat)
    BY <1>1 DEF Kinds
  <2> HIDE DEF h
  <2> QED
    BY <2>1 DEF User, Message, Msg, NoCall
<1>3. ClearSession(s) = [s EXCEPT !.messages = Append(o, m)]
  BY <1>1 DEF ClearSession, Sessions
<1>4. /\ o \in Seq(Msg) /\ Proper(o) /\ Named(o, "tool") = Named(h, "tool")
      /\ DeclaredOnce(h) => DeclaredOnce(o)
  BY <1>1, SystemNames
<1>5. <<m>> \in Seq(Msg) /\ Named(<<m>>, "tool") = {}
  <2>1. \A n : ~(<<"tool", n>> \in m.text)
    BY <1>2
  <2> HIDE DEF m
  <2> QED
    BY <1>2, <2>1, NamedOne
<1> HIDE DEF o, m, h
<1>6. DeclaredOnce(<<m>>) /\ Proper(<<m>>)
  BY <1>5, DeclaresNothing
<1>7. Append(o, m) = o \o <<m>>
  BY <1>4
<1>8. /\ o \o <<m>> \in Seq(Msg) /\ Proper(o \o <<m>>)
      /\ Named(o \o <<m>>, "tool") = Named(h, "tool")
  <2>1. o \o <<m>> \in Seq(Msg) /\ Proper(o \o <<m>>)
    BY <1>4, <1>5, <1>6, ConcatFacts, ProperConcat
  <2>2. Named(o \o <<m>>, "tool") = Named(o, "tool") \cup Named(<<m>>, "tool")
    BY <1>4, <1>5, NamedConcat
  <2> QED
    BY <1>4, <1>5, <2>1, <2>2
<1>9. DeclaredOnce(h) => DeclaredOnce(o \o <<m>>)
  BY <1>4, <1>5, <1>6, OnceConcat
<1>10. SessionInv(s, left, fresh)
  BY DEF SessionInv
<1>11. s.mode = "glm" => left \cap s.hidden \subseteq Named(o \o <<m>>, "ref")
  OBVIOUS
<1> DEFINE g == o \o <<m>>
<1>12. /\ g \in Seq(Msg) /\ Proper(g) /\ Named(g, "tool") = Named(s.messages, "tool")
       /\ s.mode = "glm" => left \cap s.hidden \subseteq Named(g, "ref")
       /\ DeclaredOnce(s.messages) => DeclaredOnce(g)
  BY <1>8, <1>9, <1>11 DEF h
<1> HIDE DEF g, left
<1> DEFINE t == [s EXCEPT !.messages = g]
<1>13. SessionInv(t, left, fresh) /\ t.mode = s.mode
  BY <1>10, <1>12, MessagesKeep
<1> QED
  BY <1>3, <1>7, <1>13 DEF g, left

\* A resumed process starts with nothing found.
LEMMA ResumeKeeps ==
    ASSUME NEW s, NEW found, NEW fresh, SessionInv(s, found, fresh)
    PROVE  /\ SessionInv(ResumeSession(s), IF s.mode = "glm" THEN {} ELSE found, FALSE)
           /\ ResumeSession(s).mode = s.mode
<1> DEFINE r == [s EXCEPT !.revealed = {}]
           t == ResumeSession(s)
<1>1. s \in Sessions /\ s.catalog = Catalog
  BY DEF SessionInv, Sessions
<1>2. {} \in SUBSET Catalog /\ Catalog \in SUBSET Catalog
  OBVIOUS
<1>3. r \in Sessions
  BY <1>1, <1>2, SessionWith
<1>4. t = [r EXCEPT !.hidden = Catalog]
  BY <1>1 DEF ResumeSession, Sessions
<1>5. /\ r.mode = s.mode /\ r.asked = s.asked /\ r.messages = s.messages /\ r.revealed = {}
  BY <1>1 DEF Sessions
<1> HIDE DEF r, t
<1>6. t \in Sessions
  BY <1>2, <1>3, <1>4, SessionWith
<1>7. /\ t.mode = s.mode /\ t.asked = s.asked /\ t.messages = s.messages /\ t.revealed = {}
  BY <1>3, <1>4, <1>5 DEF Sessions
<1> QED
  BY <1>6, <1>7 DEF SessionInv, t

\* The request for a summary refers to no tool.
LEMMA AskedPlain ==
    ASSUME NEW h \in Seq(Msg)
    PROVE  BeforeCompaction(h) \in Seq(Msg) /\ Named(BeforeCompaction(h), "ref") = {}
<1> DEFINE plain(m) == [m EXCEPT !.text = {t \in @ : t[1] # "ref"}]
           g == BeforeCompaction(h)
<1>1. Len(h) \in Nat /\ DOMAIN h = 1 .. Len(h) /\ \A i \in 1 .. Len(h) : h[i] \in Msg
  BY SeqFacts
<1>2. ASSUME NEW m \in Msg
      PROVE  plain(m) \in Msg /\ \A n : ~(<<"ref", n>> \in plain(m).text)
  <2> DEFINE x == {t \in m.text : t[1] # "ref"}
             W == SUBSET (Kinds \X Nat)
  <2>1. x \in W
    BY MsgFacts
  <2>2. \A n : ~(<<"ref", n>> \in x)
    OBVIOUS
  <2>3. plain(m) = [m EXCEPT !.text = x]
    BY DEF Msg
  <2> HIDE DEF x, W, plain
  <2>4. /\ m \in [role : {"system", "user", "assistant", "tool"}, calls : Seq(AnyCall),
                  id : Nat, text : W]
        /\ m.id # NoCall <=> m.role = "tool"
        /\ m.role # "assistant" => m.calls = <<>>
    BY DEF Msg, W
  <2>5. /\ plain(m) \in [role : {"system", "user", "assistant", "tool"}, calls : Seq(AnyCall),
                         id : Nat, text : W]
        /\ plain(m).role = m.role /\ plain(m).calls = m.calls /\ plain(m).id = m.id
        /\ plain(m).text = x
    BY <2>1, <2>3, <2>4
  <2>6. plain(m) \in Msg
    BY <2>4, <2>5 DEF Msg, W
  <2> QED
    BY <2>2, <2>5, <2>6
<1>3. g = [i \in 1 .. Len(h) |-> plain(h[i])]
  BY <1>1 DEF BeforeCompaction
<1> HIDE DEF plain, g
<1>4. g \in [1 .. Len(h) -> Msg]
  BY <1>1, <1>2, <1>3
<1>5. g \in Seq(Msg)
  BY <1>1, <1>4
<1>6. \A m \in ToSet(g) : \A n : ~(<<"ref", n>> \in m.text)
  BY <1>1, <1>2, <1>3 DEF ToSet
<1>7. Named(g, "ref") = {}
  BY <1>5, <1>6, NamedIs
<1> QED
  BY <1>5, <1>7 DEF g

\* A compacted history declares what it did, as often.
LEMMA CompactedNames ==
    ASSUME NEW h \in Seq(Msg), Proper(h), NEW s \in 1 .. (Len(h) + 1)
    PROVE  LET c == Compacted(h, s)
           IN  /\ c \in Seq(Msg) /\ Proper(c) /\ Named(c, "tool") = Named(h, "tool")
               /\ DeclaredOnce(h) => DeclaredOnce(c)
<1> DEFINE p == SubSeq(h, 1, s - 1)
           q == SubSeq(h, s, Len(h))
           o == OfRoles(p, {"system"})
           u == o \o <<Summary>>
           c == Compacted(h, s)
<1>1. p \in Seq(Msg) /\ q \in Seq(Msg) /\ p \o q = h
  <2>1. /\ Len(h) \in Nat /\ 1 \in 1 .. (Len(h) + 1) /\ s - 1 \in (1 - 1) .. Len(h)
        /\ Len(h) \in (s - 1) .. Len(h) /\ (s - 1) + 1 = s /\ s - 1 \in 0 .. Len(h)
    BY SeqFacts
  <2>2. SubSeq(h, 1, s - 1) \o SubSeq(h, (s - 1) + 1, Len(h)) = SubSeq(h, 1, Len(h))
    BY <2>1, ConcatAdjacentSubSeq
  <2>3. SubSeq(h, 1, Len(h)) = h
    BY SubSeqFull
  <2>4. q \in Seq(Msg)
    BY SuffixFacts
  <2>5. p \in Seq(Msg)
    BY <2>1, PrefixFacts DEF Prefix
  <2> QED
    BY <2>1, <2>2, <2>3, <2>4, <2>5, ZenonT(60)
<1>2. c = u \o q
  BY DEF Compacted
<1> HIDE DEF p, q, c
<1>3. Proper(p) /\ Proper(q) /\ Named(h, "tool") = Named(p, "tool") \cup Named(q, "tool")
  <2>1. ToSet(h) = ToSet(p) \cup ToSet(q)
    BY <1>1, ConcatContents
  <2>2. p \in Seq(Msg) /\ q \in Seq(Msg)
    BY <1>1
  <2>3. Named(p \o q, "tool") = Named(p, "tool") \cup Named(q, "tool")
    BY <2>2, NamedConcat
  <2>4. Proper(p) /\ Proper(q)
    BY <2>1 DEF Proper
  <2> QED
    BY <1>1, <2>3, <2>4
<1>4. /\ o \in Seq(Msg) /\ Proper(o) /\ Named(o, "tool") = Named(p, "tool")
      /\ DeclaredOnce(p) => DeclaredOnce(o)
  BY <1>1, <1>3, SystemNames
<1>5. /\ <<Summary>> \in Seq(Msg) /\ Named(<<Summary>>, "tool") = {}
  <2>1. {<<"summary", 0>>} \in SUBSET (Kinds \X Nat)
    BY DEF Kinds
  <2>2. Summary \in Msg /\ Summary.text = {<<"summary", 0>>}
    BY <2>1 DEF Summary, Assistant, Message, Msg, NoCall
  <2>3. \A n : ~(<<"tool", n>> \in Summary.text)
    BY <2>2
  <2> QED
    BY <2>2, <2>3, NamedOne
<1>6. Proper(<<Summary>>) /\ DeclaredOnce(<<Summary>>)
  BY <1>5, DeclaresNothing
<1> HIDE DEF o
<1>7. u \in Seq(Msg) /\ Proper(u) /\ Named(u, "tool") = Named(p, "tool")
  <2>1. Named(u, "tool") = Named(o, "tool") \cup Named(<<Summary>>, "tool")
    <3> DEFINE one == <<Summary>>
    <3>1. o \in Seq(Msg) /\ one \in Seq(Msg)
      BY <1>4, <1>5
    <3> HIDE DEF one
    <3>2. Named(o \o one, "tool") = Named(o, "tool") \cup Named(one, "tool")
      BY <3>1, NamedConcat
    <3> QED
      BY <3>2 DEF one
  <2>2. u \in Seq(Msg) /\ Proper(u)
    BY <1>4, <1>5, <1>6, ConcatFacts, ProperConcat
  <2> QED
    BY <1>4, <1>5, <2>1, <2>2
<1>8. ASSUME DeclaredOnce(h) PROVE DeclaredOnce(u \o q)
  <2>1. /\ DeclaredOnce(p) /\ DeclaredOnce(q)
        /\ \A n : ~(n \in Named(p, "tool") /\ n \in Named(q, "tool"))
    BY <1>1, <1>8, OnceApart
  <2>2. DeclaredOnce(u)
    BY <1>4, <1>5, <1>6, <2>1, OnceConcat
  <2> HIDE DEF u
  <2> QED
    BY <1>1, <1>7, <2>1, <2>2, OnceConcat
<1> HIDE DEF u
<1>9. u \o q \in Seq(Msg) /\ Proper(u \o q)
  BY <1>1, <1>3, <1>7, ConcatFacts, ProperConcat
<1>10. Named(u \o q, "tool") = Named(u, "tool") \cup Named(q, "tool")
  BY <1>1, <1>7, NamedConcat
<1> QED
  BY <1>2, <1>3, <1>7, <1>8, <1>9, <1>10, ZenonT(60) DEF c

\* A compaction: with glm, a tool found that no message refers to any more is
\* hidden no longer.
LEMMA CompactionKeeps ==
    ASSUME NEW s, NEW found, NEW fresh, SessionInv(s, found, fresh), NEW keep \in Nat
    PROVE  /\ SessionInv(CompactSession(s, keep), found, fresh)
           /\ CompactSession(s, keep).mode = s.mode
<1> DEFINE h == s.messages
           S == SplitPoints(h, keep)
           split == Min(S)
           a == BeforeCompaction(SubSeq(h, 1, split - 1))
           c == Compacted(h, split)
           r == [[s EXCEPT !.asked = a] EXCEPT !.messages = c]
           d == r.hidden \ (r.revealed \ Named(c, "ref"))
           t == CompactSession(s, keep)
<1>1. s \in Sessions /\ h \in Seq(Msg) /\ Proper(h)
  BY DEF SessionInv, Sessions
<1>2. CASE S = {}
  BY <1>2 DEF CompactSession
<1>3. CASE S # {}
  <2>1. split \in 1 .. (Len(h) + 1)
    <3>1. S \in SUBSET (1 .. (Len(h) + 1)) /\ Len(h) + 1 \in Nat
      BY <1>1, SplitFacts, SeqFacts
    <3> HIDE DEF S
    <3>2. split \in S
      BY <1>3, <3>1, Extremes
    <3> QED
      BY <3>1, <3>2
  <2>2. a \in Seq(Msg) /\ Named(a, "ref") = {}
    <3>1. split - 1 \in 0 .. Len(h)
      <4> HIDE DEF split
      <4> QED
        BY <1>1, <2>1, SeqFacts
    <3>2. SubSeq(h, 1, split - 1) \in Seq(Msg)
      BY <1>1, <3>1, PrefixFacts DEF Prefix
    <3> QED
      BY <3>2, AskedPlain
  <2>3. /\ c \in Seq(Msg) /\ Proper(c) /\ Named(c, "tool") = Named(h, "tool")
        /\ DeclaredOnce(h) => DeclaredOnce(c)
    <3> HIDE DEF split
    <3> QED
      BY <1>1, <2>1, CompactedNames
  <2>4. t = AfterCompaction([s EXCEPT !.asked = a, !.messages = c])
    BY <1>1, <1>3 DEF CompactSession, Sessions
  <2> HIDE DEF a, c, split, S, t
  <2>5. r = [s EXCEPT !.asked = a, !.messages = c]
    BY <1>1 DEF Sessions
  <2>6. /\ r \in Sessions /\ r.mode = s.mode /\ r.asked = a /\ r.messages = c
        /\ r.hidden = s.hidden /\ r.revealed = s.revealed
    <3> DEFINE e == [s EXCEPT !.asked = a]
    <3>1. e \in Sessions /\ e.mode = s.mode /\ e.asked = a /\ e.hidden = s.hidden
          /\ e.revealed = s.revealed
      <4>1. e \in Sessions
        BY <1>1, <2>2, SessionWith
      <4> QED
        BY <1>1, <4>1 DEF Sessions
    <3> HIDE DEF e
    <3>2. [e EXCEPT !.messages = c] \in Sessions
      BY <2>3, <3>1, SessionWith
    <3>3. LET f == [e EXCEPT !.messages = c]
          IN  /\ f.mode = e.mode /\ f.asked = e.asked /\ f.messages = c
              /\ f.hidden = e.hidden /\ f.revealed = e.revealed
      BY <3>1 DEF Sessions
    <3> QED
      BY <3>1, <3>2, <3>3 DEF e
  <2>7. t = IF s.mode = "glm" THEN [r EXCEPT !.hidden = d] ELSE r
    BY <2>4, <2>5, <2>6 DEF AfterCompaction, Sessions
  <2>8. s.hidden \in SUBSET Catalog
    BY <1>1 DEF Sessions
  <2> HIDE DEF r
  <2>9. CASE s.mode = "glm"
    <3>1. d \in SUBSET Catalog
      BY <2>6, <2>8
    <3>2. t = [r EXCEPT !.hidden = d]
      BY <2>7, <2>9
    <3>3. d = s.hidden \ (s.revealed \ Named(c, "ref"))
      BY <2>6
    <3> HIDE DEF d
    <3>4. t \in Sessions
      BY <2>6, <3>1, <3>2, SessionWith
    <3>5. /\ t.mode = s.mode /\ t.asked = a /\ t.messages = c /\ t.hidden = d
          /\ t.revealed = s.revealed
      BY <2>6, <3>2 DEF Sessions
    <3>6. found \cap Catalog \subseteq s.revealed /\ Named(h, "tool") = {}
      BY <2>9 DEF SessionInv
    <3>7. found \cap t.hidden \subseteq Named(c, "ref")
      BY <2>8, <3>3, <3>5, <3>6
    <3>8. SessionInv(t, found, fresh)
      BY <2>2, <2>3, <2>9, <3>4, <3>5, <3>6, <3>7 DEF SessionInv
    <3> QED
      BY <3>5, <3>8 DEF t
  <2>10. CASE s.mode # "glm"
    <3>1. t = r
      BY <2>7, <2>10
    <3>2. SessionInv(t, found, fresh)
      BY <2>2, <2>3, <2>6, <2>10, <3>1 DEF SessionInv, h
    <3> QED
      BY <2>6, <3>1, <3>2 DEF t
  <2> QED
    BY <2>9, <2>10
<1> QED
  BY <1>2, <1>3

\* A session as its tools are prepared.
LEMMA PreparedKeeps ==
    ASSUME NEW mode \in {"kimi", "glm"}
    PROVE  SessionInv(Prepared(mode, Catalog), {}, TRUE) /\ Prepared(mode, Catalog).mode = mode
<1> DEFINE u == User({<<"task", 0>>})
           h == <<System, u>>
           s == Prepared(mode, Catalog)
<1>1. System \in Msg /\ System.text = {} /\ u \in Msg /\ \A n : ~(<<"tool", n>> \in u.text)
  <2>1. {<<"task", 0>>} \in SUBSET (Kinds \X Nat) /\ {} \in SUBSET (Kinds \X Nat)
    BY DEF Kinds
  <2>2. u \in Msg /\ u.text = {<<"task", 0>>}
    BY <2>1 DEF User, Message, Msg, NoCall
  <2>3. System \in Msg /\ System.text = {}
    BY <2>1 DEF System, Message, Msg, NoCall
  <2> QED
    BY <2>2, <2>3
<1> HIDE DEF u
<1>2. /\ h \in Seq(Msg)
      /\ \A n : n \in Named(h, "tool") <=> n \in Nat /\ <<"tool", n>> \in u.text
  BY <1>1, Exchange
<1>3. Named(h, "tool") = {}
  BY <1>1, <1>2
<1>4. Proper(h) /\ DeclaredOnce(h)
  BY <1>2, <1>3, DeclaresNothing
<1>5. s = [mode |-> mode, catalog |-> Catalog, hidden |-> Catalog, revealed |-> {},
           asked |-> <<>>, messages |-> h]
  BY DEF Prepared, u
<1>6. Named(<<>>, "ref") = {} /\ <<>> \in Seq(Msg)
  BY DEF Named
<1> HIDE DEF h, s
<1>7. s \in Sessions /\ s.mode = mode /\ s.revealed = {} /\ s.asked = <<>> /\ s.messages = h
  <2> DEFINE T == SUBSET Catalog
             Hist == Seq(Msg)
  <2>1. Catalog \in T /\ {} \in T /\ h \in Hist /\ <<>> \in Hist
    BY <1>2, <1>6
  <2>2. Sessions = [mode : {"kimi", "glm"}, catalog : {Catalog}, hidden : T,
                    revealed : T, asked : Hist, messages : Hist]
    BY DEF Sessions
  <2> HIDE DEF T, Hist
  <2> QED
    BY <1>5, <2>1, <2>2
<1>8. SessionInv(s, {}, TRUE)
  BY <1>3, <1>4, <1>6, <1>7 DEF SessionInv
<1> QED
  BY <1>7, <1>8 DEF s

\* The kinds of event.
LEMMA EventKinds ==
    ASSUME NEW e \in Events
    PROVE  \/ e.kind = "search"
           \/ e.kind = "compact" /\ e.tools = {} /\ e.keep \in Nat
           \/ e.kind \in {"prompt", "clear", "resume"} /\ e.tools = {}
<1>1. CASE e \in {Event("search", names, 0) : names \in Finds}
  BY <1>1 DEF Event
<1>2. CASE e \in {Event("compact", {}, keep) : keep \in 0 .. MaxKept}
  BY <1>2, DeferredAssumption DEF Event
<1>3. CASE e \in {Event(kind, {}, 0) : kind \in {"prompt", "clear", "resume"}}
  BY <1>3 DEF Event
<1> QED
  BY <1>1, <1>2, <1>3 DEF Events

\* One event: what a session found before it is kept unless the event forgets it.
LEMMA HappenKeeps ==
    ASSUME NEW s, NEW found, NEW fresh, SessionInv(s, found, fresh), NEW e \in Events
    PROVE  LET t == Happen(s, e)
               left == IF Forgets(s.mode, e) THEN {} ELSE found \cup e.tools
           IN  /\ t.mode = s.mode
               /\ e.kind # "resume" => SessionInv(t, left, fresh)
               /\ SessionInv(t, left, fresh) \/ SessionInv(t, left, FALSE)
<1> DEFINE t == Happen(s, e)
           left == IF Forgets(s.mode, e) THEN {} ELSE found \cup e.tools
<1>1. CASE e.kind = "search"
  <2>1. left = found \cup e.tools /\ t = HandleSearch(s, e.tools)
    BY <1>1 DEF Forgets, Happen
  <2> HIDE DEF left, t
  <2>2. SessionInv(t, left, fresh) /\ t.mode = s.mode
    BY <2>1, SearchKeeps
  <2> QED
    BY <2>2 DEF left, t
<1>2. CASE e.kind = "compact" /\ e.tools = {} /\ e.keep \in Nat
  <2>1. left = found /\ t = CompactSession(s, e.keep)
    BY <1>2 DEF Forgets, Happen
  <2> HIDE DEF left, t
  <2>2. SessionInv(t, left, fresh) /\ t.mode = s.mode
    BY <1>2, <2>1, CompactionKeeps
  <2> QED
    BY <2>2 DEF left, t
<1>3. CASE e.kind = "prompt" /\ e.tools = {}
  <2>1. left = found /\ t = NextPrompt(s)
    BY <1>3 DEF Forgets, Happen
  <2> HIDE DEF left, t
  <2>2. SessionInv(t, left, fresh) /\ t.mode = s.mode
    BY <2>1, PromptKeeps
  <2> QED
    BY <2>2 DEF left, t
<1>4. CASE e.kind = "clear" /\ e.tools = {}
  <2>1. left = (IF s.mode = "glm" THEN {} ELSE found) /\ t = ClearSession(s)
    BY <1>4 DEF Forgets, Happen
  <2> HIDE DEF left, t
  <2>2. SessionInv(t, left, fresh) /\ t.mode = s.mode
    BY <2>1, ClearKeeps
  <2> QED
    BY <2>2 DEF left, t
<1>5. CASE e.kind = "resume" /\ e.tools = {}
  <2>1. left = (IF s.mode = "glm" THEN {} ELSE found) /\ t = ResumeSession(s)
    BY <1>5 DEF Forgets, Happen
  <2> HIDE DEF left, t
  <2>2. SessionInv(t, left, FALSE) /\ t.mode = s.mode
    BY <2>1, ResumeKeeps
  <2> QED
    BY <1>5, <2>2 DEF left, t
<1> QED
  BY <1>1, <1>2, <1>3, <1>4, <1>5, EventKinds

\* What counts as found after one more event.
LEMMA FoundNext ==
    ASSUME NEW n \in Nat, NEW i \in 1 .. n, NEW mode, NEW events
    PROVE  Found(mode, events, i) =
               IF Forgets(mode, events[i]) THEN {}
               ELSE Found(mode, events, i - 1) \cup events[i].tools
<1> DEFINE Live(k) == {l \in 1 .. k : \A j \in l .. k : ~Forgets(mode, events[j])}
<1>1. Forgets(mode, events[i]) => Live(i) = {}
  BY Z3
<1>2. ASSUME ~Forgets(mode, events[i]) PROVE Live(i) = Live(i - 1) \cup {i}
  <2>1. ASSUME NEW l \in 1 .. (i - 1) PROVE l .. i = (l .. (i - 1)) \cup {i} /\ l \in 1 .. i
    OBVIOUS
  <2>2. \A l \in 1 .. (i - 1) : l \in Live(i) <=> l \in Live(i - 1)
    BY <1>2, <2>1
  <2>3. i .. i = {i} /\ i \in 1 .. i
    OBVIOUS
  <2>4. i \in Live(i)
    BY <1>2, <2>3
  <2>5. 1 .. i = (1 .. (i - 1)) \cup {i}
    OBVIOUS
  <2>6. Live(i) \subseteq 1 .. i /\ Live(i - 1) \subseteq 1 .. (i - 1)
    OBVIOUS
  <2> HIDE DEF Live
  <2> QED
    BY <2>2, <2>4, <2>5, <2>6
<1>3. \A k : Found(mode, events, k) = UNION {events[l].tools : l \in Live(k)}
  BY DEF Found
<1> HIDE DEF Live
<1>4. CASE Forgets(mode, events[i])
  BY <1>1, <1>3, <1>4
<1>5. CASE ~Forgets(mode, events[i])
  <2>1. UNION {events[l].tools : l \in Live(i - 1) \cup {i}} =
            (UNION {events[l].tools : l \in Live(i - 1)}) \cup events[i].tools
    OBVIOUS
  <2> QED
    BY <1>2, <1>3, <1>5, <2>1
<1> QED
  BY <1>4, <1>5

\* Whatever happens to it, a session keeps its invariant.
LEMMA PlayedKeeps ==
    ASSUME NEW mode \in {"kimi", "glm"}, NEW events \in Seq(Events)
    PROVE  LET s == Played(mode, events)
               n == Len(events)
           IN  /\ s.mode = mode
               /\ \E fresh : /\ SessionInv(s, Found(mode, events, n), fresh)
                             /\ (\A k \in 1 .. n : events[k].kind # "resume") => fresh
<1> DEFINE n == Len(events)
           New(i) == \A k \in 1 .. i : events[k].kind # "resume"
<1>1. n \in Nat /\ DOMAIN events = 1 .. n /\ \A i \in 1 .. n : events[i] \in Events
  OBVIOUS
<1> HIDE DEF n
<1>2. PICK r : IsRun(r, "play", 0, Prepared(mode, Catalog), events, n)
               /\ r[n] = Played(mode, events)
  BY <1>1, PlayRun
<1>3. r[0] = Prepared(mode, Catalog) /\ \A i \in 1 .. n : r[i] = Happen(r[i - 1], events[i])
  BY <1>2 DEF IsRun, Step
<1> DEFINE Holds(i) == /\ r[i].mode = mode
                       /\ \E fresh : /\ SessionInv(r[i], Found(mode, events, i), fresh)
                                     /\ New(i) => fresh
           S == {i \in 0 .. n : Holds(i)}
<1>4. 0 \in S
  <2>1. Found(mode, events, 0) = {}
    BY DEF Found
  <2>2. SessionInv(r[0], Found(mode, events, 0), TRUE) /\ r[0].mode = mode
    BY <1>3, <2>1, PreparedKeeps
  <2>3. \E fresh : SessionInv(r[0], Found(mode, events, 0), fresh) /\ (New(0) => fresh)
    <3> WITNESS TRUE
    <3> QED
      BY <2>2
  <2>4. Holds(0)
    BY <2>2, <2>3
  <2> HIDE DEF Holds
  <2> QED
    BY <1>1, <2>4
<1>5. ASSUME NEW i \in 1 .. n, i - 1 \in S PROVE i \in S
  <2>1. r[i - 1].mode = mode
    BY <1>5
  <2>2. PICK fresh : SessionInv(r[i - 1], Found(mode, events, i - 1), fresh)
                     /\ (New(i - 1) => fresh)
    BY <1>5
  <2> DEFINE e == events[i]
             s == r[i - 1]
             found == Found(mode, events, i - 1)
             left == IF Forgets(mode, e) THEN {} ELSE found \cup e.tools
  <2>3. /\ e \in Events /\ r[i] = Happen(s, e)
        /\ Found(mode, events, i) = left
    BY <1>1, <1>3, FoundNext
  <2>4. New(i) => New(i - 1) /\ e.kind # "resume"
    BY <1>1
  <2> HIDE DEF e, found, S, New
  <2>5. /\ r[i].mode = mode
        /\ e.kind # "resume" => SessionInv(r[i], left, fresh)
        /\ SessionInv(r[i], left, fresh) \/ SessionInv(r[i], left, FALSE)
    <3> DEFINE t == Happen(s, e)
               had == IF Forgets(s.mode, e) THEN {} ELSE found \cup e.tools
    <3>1. SessionInv(s, found, fresh)
      BY <2>2 DEF found
    <3>2. had = left /\ r[i] = t /\ s.mode = mode
      BY <2>1, <2>3
    <3> HIDE DEF s
    <3>3. /\ t.mode = s.mode
          /\ e.kind # "resume" => SessionInv(t, had, fresh)
          /\ SessionInv(t, had, fresh) \/ SessionInv(t, had, FALSE)
      BY <2>3, <3>1, HappenKeeps
    <3> HIDE DEF t, had, left
    <3> QED
      BY <3>2, <3>3
  <2>6. \E f : SessionInv(r[i], left, f) /\ (New(i) => f)
    <3>1. CASE New(i)
      <4>1. SessionInv(r[i], left, fresh) /\ (New(i) => fresh)
        BY <2>2, <2>4, <2>5, <3>1
      <4> QED
        BY <4>1
    <3>2. CASE ~New(i)
      BY <2>5, <3>2
    <3> QED
      BY <3>1, <3>2
  <2>7. Holds(i)
    BY <2>3, <2>5, <2>6
  <2> QED
    BY <1>1, <2>7 DEF S
<1> HIDE DEF Holds
<1>6. \A i \in 0 .. n : i \in S
  <2> HIDE DEF S
  <2> QED
    BY <1>1, <1>4, <1>5, Induction
<1>7. Holds(n)
  BY <1>1, <1>6
<1> QED
  BY <1>2, <1>7 DEF Holds, n

DeferredInv ==
    /\ op \in {"deferred", "revealed"}
    /\ in.mode \in {"kimi", "glm"} /\ in.events \in Seq(Events)
    /\ op = "revealed" => out = Played(in.mode, in.events)

LEMMA DeferredSteps == DeferredSpec => []DeferredInv
<1>1. DeferredInit => DeferredInv
  <2> SUFFICES ASSUME DeferredInit PROVE DeferredInv
    OBVIOUS
  <2>1. op = "deferred" /\ in.mode \in {"kimi", "glm"}
        /\ in.events \in BoundedSeq(Events, MaxEvents)
    BY DEF DeferredInit
  <2>2. in.events \in Seq(Events)
    BY <2>1, DeferredAssumption DEF BoundedSeq, SeqOf
  <2> QED
    BY <2>1, <2>2 DEF DeferredInv
<1>2. DeferredInv /\ [DeferredNext]_functionVars => DeferredInv'
  <2> SUFFICES ASSUME DeferredInv, [DeferredNext]_functionVars PROVE DeferredInv'
    OBVIOUS
  <2>1. CASE in' = in /\ op = "deferred" /\ Apply("revealed", Played(in.mode, in.events))
    BY <2>1 DEF Apply, DeferredInv
  <2>2. CASE UNCHANGED functionVars
    BY <2>2 DEF functionVars, DeferredInv
  <2> QED
    BY <2>1, <2>2 DEF DeferredNext, OfTools
<1> QED
  BY <1>1, <1>2, PTL DEF DeferredSpec

\* What a search found can be called however many prompts, compactions, clears and
\* resumes follow, but for the two events that make a glm session forget; the
\* request for a summary refers to no tool; and a kimi session that was not
\* resumed declares no tool twice.
THEOREM RevealedStays == DeferredSpec => []RevealedKept
<1>1. DeferredInv => RevealedKept
  <2> SUFFICES ASSUME DeferredInv, op = "revealed" PROVE RevealedKept
    BY DEF RevealedKept
  <2> DEFINE mode == in.mode
             events == in.events
             n == Len(events)
             found == Found(mode, events, n)
             New == \A k \in 1 .. n : events[k].kind # "resume"
  <2>1. /\ mode \in {"kimi", "glm"} /\ events \in Seq(Events)
        /\ out = Played(mode, events) /\ DOMAIN events = 1 .. n
    BY DEF DeferredInv
  <2> HIDE DEF mode, events, n
  <2>2. out.mode = mode /\ \E fresh : SessionInv(out, found, fresh) /\ (New => fresh)
    BY <2>1, PlayedKeeps DEF n
  <2>3. PICK fresh : SessionInv(out, found, fresh) /\ (New => fresh)
    BY <2>2
  <2> HIDE DEF found
  <2>4. out \in Sessions /\ Named(out.asked, "ref") = {} /\ out.catalog = Catalog
        /\ out.messages \in Seq(Msg)
    BY <2>3 DEF SessionInv, Sessions
  <2>5. found \cap Catalog \subseteq Callable(out)
    BY <2>1, <2>2, <2>3, <2>4 DEF SessionInv, Callable
  <2>6. ASSUME New, NEW k \in Catalog PROVE Cardinality(Declared(out.messages, k)) <= 1
    <3>1. DeclaredOnce(out.messages)
      <4>1. CASE mode = "glm"
        BY <2>2, <2>3, <2>4, <4>1, DeclaresNothing DEF SessionInv
      <4>2. CASE mode = "kimi"
        <5>1. fresh
          BY <2>3, <2>6
        <5> QED
          BY <2>2, <2>3, <4>2, <5>1 DEF SessionInv
      <4> QED
        BY <2>1, <4>1, <4>2
    <3> DEFINE D == Declared(out.messages, k)
    <3>2. \A i, j \in D : i = j
      BY <3>1 DEF DeclaredOnce, Declared
    <3> HIDE DEF D
    <3>3. CASE D = {}
      BY <3>3, FS_EmptySet DEF D
    <3>4. CASE D # {}
      <4>1. PICK i \in D : TRUE
        BY <3>4
      <4>2. D = {i}
        BY <3>2, <4>1
      <4>3. Cardinality(D) = 1
        BY <4>2, FS_Singleton
      <4> QED
        BY <4>3 DEF D
    <3> QED
      BY <3>3, <3>4
  <2> QED
    BY <2>1, <2>4, <2>5, <2>6 DEF RevealedKept, mode, events, n, found
<1> QED
  BY <1>1, DeferredSteps, PTL
=============================================================================
