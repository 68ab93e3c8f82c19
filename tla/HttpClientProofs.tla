--------------------------- MODULE HttpClientProofs ---------------------------
(***************************************************************************)
(* Proofs about HttpClient, for any callers, rate and retry budgets: that  *)
(* the rate limit holds in every window of a minute, that an answer comes  *)
(* from one attempt, and that slow attempts are bounded.                   *)
(***************************************************************************)
EXTENDS HttpClient, TLAPS

-----------------------------------------------------------------------------
(* Types                                                                   *)

Limiter ==
    /\ stamps \in Seq(0 .. Window) /\ Len(stamps) <= MaxRpm
    /\ recent \in Seq(0 .. Window - 1)
    /\ lock \in Callers \cup {None}

Counters ==
    /\ pc \in [Callers -> Places]
    /\ read \in [Callers -> 0 .. MaxRead] /\ post \in [Callers -> 0 .. MaxRead]
    /\ server \in [Callers -> 0 .. MaxServer] /\ quota \in [Callers -> 0 .. MaxQuota]
    /\ slow \in [Callers -> Nat] /\ limited \in [Callers -> 0 .. MaxLimited]

Streams ==
    /\ answer \in [Callers -> SUBSET {"new", "old"}]
    /\ whole \in [Callers -> BOOLEAN] /\ fired \in [Callers -> BOOLEAN]

LEMMA TypeParts == TypeOK <=> Limiter /\ Counters /\ Streams
  BY Zenon DEF TypeOK, Limiter, Counters, Streams

\* A caller's step that ends in one of the places of create().
LEMMA PlaceTypes ==
    ASSUME Counters, NEW c \in Callers, NEW place \in Places, Go(c, place)
    PROVE  pc' \in [Callers -> Places]
  BY DEF Counters, Go

LEMMA EndTypes ==
    ASSUME Counters, NEW c \in Callers, NEW place \in {"returned", "failed"},
           End(c, place), UNCHANGED counts
    PROVE  Counters'
  BY BudgetAssumption DEF Counters, End, Go, Zero, counts, Places

LEMMA StartTypes ==
    ASSUME Counters, Streams, NEW c \in Callers, NEW stalls \in 0 .. MaxRead,
           StartPost(c, stalls)
    PROVE  /\ pc' \in [Callers -> Places] /\ post' \in [Callers -> 0 .. MaxRead]
           /\ server' \in [Callers -> 0 .. MaxServer]
           /\ quota' \in [Callers -> 0 .. MaxQuota]
           /\ Streams'
<1>1. /\ pc' \in [Callers -> Places] /\ post' \in [Callers -> 0 .. MaxRead]
      /\ server' \in [Callers -> 0 .. MaxServer]
      /\ quota' \in [Callers -> 0 .. MaxQuota]
  BY BudgetAssumption DEF Counters, StartPost, Go, Zero, Places
<1>2. Streams'
  BY DEF Streams, StartPost
<1> QED
  BY <1>1, <1>2

\* What the limiter keeps of the past: the last stamps are the admitted requests
\* younger than a Window, and every other stamp is that old.
Past ==
    LET n == Len(stamps)
        m == Len(recent) IN
    /\ m <= n
    /\ \A i \in 1 .. m : stamps[(n - m) + i] = recent[i]
    /\ \A i \in 1 .. n - m : stamps[i] = Window

LimiterInv == Limiter /\ Past

LEMMA PastNext ==
    ASSUME NEW m \in Nat, NEW d \in Nat, Len(recent') = m, Len(stamps') = d + m,
           \A i \in 1 .. m : stamps'[d + i] = recent'[i],
           \A i \in 1 .. d : stamps'[i] = Window
    PROVE  Past'
<1>1. Len(stamps') - Len(recent') = d /\ Len(recent') <= Len(stamps')
  OBVIOUS
<1> QED
  BY <1>1 DEF Past

LEMMA PushedFits ==
    ASSUME Limiter
    PROVE  LET q == Pushed(stamps, 0)
               n == Len(stamps)
           IN  /\ q \in Seq(0 .. Window)
               /\ n < MaxRpm => /\ Len(q) = n + 1
                                /\ \A i \in 1 .. n : q[i] = stamps[i]
               /\ n = MaxRpm => /\ Len(q) = n
                                /\ \A i \in 1 .. n - 1 : q[i] = stamps[i + 1]
               /\ q[Len(q)] = 0
<1> DEFINE r == Append(stamps, 0)
<1>1. /\ r \in Seq(0 .. Window) /\ Len(r) = Len(stamps) + 1
      /\ \A i \in 1 .. Len(stamps) : r[i] = stamps[i]
      /\ r[Len(stamps) + 1] = 0
  BY LimiterAssumption DEF Limiter
<1>2. /\ Len(stamps) \in Nat /\ MaxRpm \in Nat \ {0} /\ Len(stamps) <= MaxRpm
  BY LimiterAssumption DEF Limiter
<1> HIDE DEF r
<1>3. /\ Tail(r) \in Seq(0 .. Window) /\ Len(Tail(r)) = Len(stamps)
      /\ \A i \in 1 .. Len(stamps) : Tail(r)[i] = r[i + 1]
  BY <1>1, <1>2
<1>4. Pushed(stamps, 0) = IF Len(stamps) + 1 > MaxRpm THEN Tail(r) ELSE r
  BY <1>1 DEF Pushed, r
<1>5. CASE Len(stamps) < MaxRpm
  BY <1>1, <1>2, <1>4, <1>5
<1>6. CASE Len(stamps) = MaxRpm
  <2>1. Pushed(stamps, 0) = Tail(r)
    BY <1>2, <1>4, <1>6
  <2>2. \A i \in 1 .. Len(stamps) - 1 : Tail(r)[i] = stamps[i + 1]
    BY <1>1, <1>2, <1>3
  <2>3. Tail(r)[Len(stamps)] = 0
    BY <1>1, <1>2, <1>3, <1>6
  <2> QED
    BY <1>2, <1>3, <1>6, <2>1, <2>2, <2>3
<1> QED
  BY <1>2, <1>5, <1>6

\* A request is admitted when the queue is not full, or its oldest stamp is as
\* old as a Window.
LEMMA AdmitKeepsPast ==
    ASSUME LimiterInv, NEW c \in Callers, Admit(c),
           Len(stamps) = MaxRpm => stamps[1] = Window
    PROVE  LimiterInv'
<1> DEFINE n == Len(stamps)
           m == Len(recent)
<1>1. /\ stamps' = Pushed(stamps, 0) /\ recent' = Append(recent, 0) /\ lock' = None
  BY DEF Admit
<1>2. /\ n \in Nat /\ m \in Nat /\ m <= n /\ n <= MaxRpm /\ MaxRpm \in Nat \ {0}
      /\ Window \in Nat \ {0}
  BY LimiterAssumption DEF LimiterInv, Limiter, Past
<1>3. /\ recent' \in Seq(0 .. Window - 1) /\ Len(recent') = m + 1
      /\ \A i \in 1 .. m : recent'[i] = recent[i]
      /\ recent'[m + 1] = 0
      /\ \A i \in 1 .. m : recent[i] < Window
  <2>1. recent \in Seq(0 .. Window - 1) /\ 0 \in 0 .. Window - 1
    BY <1>2 DEF LimiterInv, Limiter
  <2> QED
    BY <1>1, <2>1, <1>2
<1>4. /\ \A i \in 1 .. m : stamps[(n - m) + i] = recent[i]
      /\ \A i \in 1 .. n - m : stamps[i] = Window
  BY DEF LimiterInv, Past
<1>5. /\ stamps' \in Seq(0 .. Window)
      /\ n < MaxRpm => /\ Len(stamps') = n + 1
                       /\ \A i \in 1 .. n : stamps'[i] = stamps[i]
      /\ n = MaxRpm => /\ Len(stamps') = n
                       /\ \A i \in 1 .. n - 1 : stamps'[i] = stamps[i + 1]
      /\ stamps'[Len(stamps')] = 0
  BY <1>1, PushedFits DEF LimiterInv
<1> HIDE DEF n, m
<1>6. CASE n < MaxRpm
  <2>1. \A i \in 1 .. m + 1 : stamps'[(n - m) + i] = recent'[i]
    <3>1. ASSUME NEW i \in 1 .. m PROVE stamps'[(n - m) + i] = recent'[i]
      <4>1. (n - m) + i \in 1 .. n
        BY <1>2, <3>1
      <4> QED
        BY <1>3, <1>4, <1>5, <1>6, <3>1, <4>1
    <3>2. stamps'[(n - m) + (m + 1)] = recent'[m + 1]
      BY <1>2, <1>3, <1>5, <1>6
    <3> QED
      BY <1>2, <3>1, <3>2
  <2>2. \A i \in 1 .. n - m : stamps'[i] = Window
    BY <1>2, <1>4, <1>5, <1>6
  <2>3. Past'
    BY <1>2, <1>3, <1>5, <1>6, <2>1, <2>2, PastNext
  <2> QED
    BY <1>1, <1>2, <1>3, <1>5, <1>6, <2>3 DEF LimiterInv, Limiter
<1>7. CASE n = MaxRpm
  <2>0. stamps[1] = Window
    BY <1>7 DEF n
  <2>1. m < n
    <3>1. CASE m = n
      BY <1>2, <1>3, <1>4, <1>7, <2>0, <3>1
    <3> QED
      BY <1>2, <3>1
  <2>2. \A i \in 1 .. m + 1 : stamps'[(n - (m + 1)) + i] = recent'[i]
    <3>1. ASSUME NEW i \in 1 .. m PROVE stamps'[(n - (m + 1)) + i] = recent'[i]
      <4>1. (n - (m + 1)) + i \in 1 .. n - 1 /\ ((n - (m + 1)) + i) + 1 = (n - m) + i
        BY <1>2, <2>1, <3>1
      <4> QED
        BY <1>3, <1>4, <1>5, <1>7, <3>1, <4>1
    <3>2. stamps'[(n - (m + 1)) + (m + 1)] = recent'[m + 1]
      BY <1>2, <1>3, <1>5, <1>7
    <3> QED
      BY <1>2, <3>1, <3>2
  <2>3. \A i \in 1 .. n - (m + 1) : stamps'[i] = Window
    <3>1. ASSUME NEW i \in 1 .. n - (m + 1) PROVE stamps'[i] = Window
      <4>1. i \in 1 .. n - 1 /\ i + 1 \in 1 .. n - m
        BY <1>2, <3>1
      <4> QED
        BY <1>4, <1>5, <1>7, <4>1
    <3> QED
      BY <3>1
  <2>4. /\ n - (m + 1) \in Nat /\ m + 1 \in Nat
        /\ Len(recent') = m + 1 /\ Len(stamps') = (n - (m + 1)) + (m + 1)
    <3>1. /\ n - (m + 1) \in Nat /\ m + 1 \in Nat
          /\ n = (n - (m + 1)) + (m + 1)
      BY <1>2, <2>1
    <3> QED
      BY <1>3, <1>5, <1>7, <3>1
  <2>5. Past'
    BY <2>2, <2>3, <2>4, PastNext
  <2> QED
    BY <1>1, <1>2, <1>3, <1>5, <1>7, <2>5 DEF LimiterInv, Limiter
<1> QED
  BY <1>2, <1>6, <1>7

\* Requests leave the minute from the oldest on.
LEMMA TickKeepsPast == LimiterInv /\ Tick => LimiterInv'
<1> SUFFICES ASSUME LimiterInv, Tick PROVE LimiterInv'
  OBVIOUS
<1> DEFINE n == Len(stamps)
           m == Len(recent)
           old(x) == IF x < Window THEN x + 1 ELSE Window
<1>1. PICK k \in 0 .. m :
         /\ \A i \in DOMAIN recent : i <= k <=> Aged(recent)[i] = Window
         /\ recent' = Dropped(Aged(recent), k)
  BY DEF Tick
<1>2. /\ n \in Nat /\ m \in Nat /\ m <= n /\ n <= MaxRpm /\ MaxRpm \in Nat \ {0}
      /\ Window \in Nat \ {0} /\ DOMAIN stamps = 1 .. n /\ DOMAIN recent = 1 .. m
  BY LimiterAssumption DEF LimiterInv, Limiter, Past
<1>3. /\ \A i \in 1 .. n : stamps[i] \in 0 .. Window
      /\ \A i \in 1 .. m : recent[i] \in 0 .. Window - 1
  BY <1>2 DEF LimiterInv, Limiter
<1>4. /\ stamps' = [i \in 1 .. n |-> old(stamps[i])]
      /\ Aged(recent) = [i \in 1 .. m |-> old(recent[i])]
  BY <1>2 DEF Tick, Aged
<1>5. /\ stamps' \in Seq(0 .. Window) /\ Len(stamps') = n
      /\ \A i \in 1 .. n : stamps'[i] = old(stamps[i])
  <2>1. \A i \in 1 .. n : old(stamps[i]) \in 0 .. Window
    BY <1>2, <1>3
  <2> QED
    BY <1>2, <1>4, <2>1
<1>6. Len(Aged(recent)) = m
  BY <1>2, <1>4
<1>7. recent' = [i \in 1 .. m - k |-> old(recent[i + k])]
  <2>1. recent' = [i \in 1 .. m - k |-> Aged(recent)[i + k]]
    BY <1>1, <1>6 DEF Dropped
  <2>2. \A i \in 1 .. m - k : Aged(recent)[i + k] = old(recent[i + k])
    BY <1>1, <1>2, <1>4
  <2> QED
    BY <2>1, <2>2
<1>8. \A i \in 1 .. m - k : old(recent[i + k]) \in 0 .. Window - 1
  <2> SUFFICES ASSUME NEW i \in 1 .. m - k PROVE old(recent[i + k]) \in 0 .. Window - 1
    OBVIOUS
  <2>1. i + k \in 1 .. m /\ ~(i + k <= k)
    BY <1>1, <1>2
  <2>2. old(recent[i + k]) # Window
    BY <1>1, <1>2, <1>4, <2>1
  <2> QED
    BY <1>2, <1>3, <2>1, <2>2
<1>9. /\ recent' \in Seq(0 .. Window - 1) /\ Len(recent') = m - k
      /\ \A i \in 1 .. m - k : recent'[i] = old(recent[i + k])
  BY <1>1, <1>2, <1>7, <1>8
<1>10. /\ \A i \in 1 .. m : stamps[(n - m) + i] = recent[i]
       /\ \A i \in 1 .. n - m : stamps[i] = Window
  BY DEF LimiterInv, Past
<1>11. \A i \in 1 .. m : i <= k => old(recent[i]) = Window
  BY <1>1, <1>2, <1>4
<1> HIDE DEF n, m, old
<1>12. \A i \in 1 .. m - k : stamps'[(n - (m - k)) + i] = recent'[i]
  <2> SUFFICES ASSUME NEW i \in 1 .. m - k
               PROVE  stamps'[(n - (m - k)) + i] = recent'[i]
    OBVIOUS
  <2>1. /\ i + k \in 1 .. m /\ (n - (m - k)) + i = (n - m) + (i + k)
        /\ (n - (m - k)) + i \in 1 .. n
    BY <1>1, <1>2
  <2>2. stamps[(n - (m - k)) + i] = recent[i + k]
    BY <1>10, <2>1
  <2> QED
    BY <1>5, <1>9, <2>1, <2>2
<1>13. \A i \in 1 .. n - (m - k) : stamps'[i] = Window
  <2> SUFFICES ASSUME NEW i \in 1 .. n - (m - k) PROVE stamps'[i] = Window
    OBVIOUS
  <2>1. i \in 1 .. n
    BY <1>1, <1>2
  <2>2. CASE i <= n - m
    <3>1. stamps[i] = Window /\ old(Window) = Window
      BY <1>2, <1>10, <2>2 DEF old
    <3> QED
      BY <1>5, <2>1, <3>1
  <2>3. CASE i > n - m
    <3>1. i - (n - m) \in 1 .. m /\ i - (n - m) <= k /\ (n - m) + (i - (n - m)) = i
      BY <1>1, <1>2, <2>3
    <3>2. stamps[i] = recent[i - (n - m)]
      BY <1>10, <3>1
    <3> QED
      BY <1>5, <1>11, <2>1, <3>1, <3>2
  <2> QED
    BY <1>1, <1>2, <2>2, <2>3
<1>14. Past'
  BY <1>1, <1>2, <1>5, <1>9, <1>12, <1>13 DEF Past
<1> QED
  BY <1>2, <1>5, <1>9, <1>14 DEF LimiterInv, Limiter, Tick

LEMMA LimiterStep == LimiterInv /\ [Next]_vars => LimiterInv'
<1> SUFFICES ASSUME LimiterInv, [Next]_vars PROVE LimiterInv'
  OBVIOUS
<1>1. CASE Tick
  BY <1>1, TickKeepsPast
<1>2. ASSUME NEW c \in Callers, Acquire(c) PROVE LimiterInv'
  <2>1. Len(stamps) = MaxRpm => stamps[1] = Window
    <3>1. Len(stamps) = MaxRpm => stamps[1] \in 0 .. Window /\ Head(stamps) = stamps[1]
      BY LimiterAssumption DEF LimiterInv, Limiter
    <3> QED
      BY <1>2, <3>1, LimiterAssumption DEF Acquire, Full
  <2> QED
    BY <1>2, <2>1, AdmitKeepsPast DEF Acquire
<1>3. ASSUME NEW c \in Callers, Wake(c) PROVE LimiterInv'
  <2>1. Len(stamps) = MaxRpm => stamps[1] = Window
    <3>1. Len(stamps) = MaxRpm => stamps[1] \in 0 .. Window /\ Head(stamps) = stamps[1]
      BY LimiterAssumption DEF LimiterInv, Limiter
    <3> QED
      BY <1>3, <3>1, LimiterAssumption DEF Wake
  <2> QED
    BY <1>3, <2>1, AdmitKeepsPast DEF Wake
<1>4. ASSUME NEW c \in Callers, FallAsleep(c) PROVE LimiterInv'
  BY <1>4 DEF FallAsleep, LimiterInv, Limiter, Past
<1>5. CASE UNCHANGED limiter
  BY <1>5 DEF limiter, LimiterInv, Limiter, Past
<1>6. ASSUME \/ UNCHANGED vars
             \/ \E c \in Callers :
                   \/ Create(c) \/ Answered(c) \/ Line(c) \/ StreamEnds(c, TRUE)
                   \/ StreamEnds(c, FALSE) \/ StreamBreaks(c) \/ Fire(c) \/ Close(c)
      PROVE  UNCHANGED limiter
  BY <1>6 DEF vars, limiter, Create, Answered, ReadTimeout, ServerError, RateLimited,
              QuotaExhausted, Refused, Success, Line, StreamEnds, StreamBreaks, Fire,
              Close, Fail
<1> QED
  BY <1>1, <1>2, <1>3, <1>4, <1>5, <1>6 DEF Next

\* However many threads share the client, whoever sleeps, and whatever the
\* server answers, no window of a minute sees more than MaxRpm requests
\* (RateLimiter.acquire).
THEOREM RateAlwaysBounded == Spec => []RateBounded
<1>1. Init => LimiterInv
  BY LimiterAssumption DEF Init, LimiterInv, Limiter, Past
<1>2. LimiterInv /\ [Next]_vars => LimiterInv'
  BY LimiterStep
<1>3. LimiterInv => RateBounded
  BY LimiterAssumption DEF LimiterInv, Limiter, Past, RateBounded
<1> QED
  BY <1>1, <1>2, <1>3, PTL DEF Spec

-----------------------------------------------------------------------------
(* What a call returns, and what it may cost                               *)

\* Before its response comes a call has assembled nothing, and afterwards only
\* what this attempt sent.
AnswerInv ==
    \A c \in Callers :
        /\ pc[c] \in {"idle", "acquire", "sleeping", "sent"} => answer[c] = {}
        /\ pc[c] \in {"reading", "closing", "returned"} => answer[c] \subseteq {"new"}

\* Twice the slow attempts a call has made when r stalls are behind it and its
\* post has seen p of them or of timeouts; r is at most p.
Twice(r, p) == 2 * r * MaxRead - r * r + r + 2 * p

SlowInv ==
    \A c \in Callers :
        /\ pc[c] = "idle" => slow[c] = 0 /\ read[c] = 0
        /\ pc[c] \in {"returned", "failed"} => 2 * slow[c] <= MaxRead * (MaxRead + 3)
        /\ pc[c] \in {"acquire", "sleeping", "sent", "reading", "closing"} =>
               2 * slow[c] <= Twice(read[c], post[c])

LEMMA SlowMath ==
    ASSUME NEW r \in 0 .. MaxRead, NEW p \in 0 .. MaxRead, NEW s \in Nat,
           2 * s <= Twice(r, p)
    PROVE  /\ 2 * s <= MaxRead * (MaxRead + 3)
           /\ 2 * (s + 1) <= Twice(r, p + 1)
           /\ 2 * (s + 1) <= Twice(r + 1, r + 1)
<1>1. MaxRead \in Nat /\ r \in Nat /\ p \in Nat /\ p <= MaxRead
  BY BudgetAssumption
<1>2. Twice(r, p) <= Twice(r, MaxRead)
  BY <1>1 DEF Twice
<1>3. MaxRead * (MaxRead + 3) = Twice(r, MaxRead) + ((MaxRead - r) * (MaxRead - r) + (MaxRead - r))
  BY <1>1 DEF Twice
<1>4. (MaxRead - r) * (MaxRead - r) + (MaxRead - r) \in Nat
  <2>1. MaxRead - r \in Nat
    BY <1>1
  <2>2. \A d \in Nat : d * d + d \in Nat
    OBVIOUS
  <2> QED
    BY <2>1, <2>2
<1>5. Twice(r + 1, r + 1) = Twice(r, MaxRead) + 2
  BY <1>1 DEF Twice
<1>6. Twice(r, p + 1) = Twice(r, p) + 2
  BY <1>1 DEF Twice
<1>7. Twice(r, p) \in Int /\ Twice(r, MaxRead) \in Int
  BY <1>1 DEF Twice
<1> DEFINE rest == (MaxRead - r) * (MaxRead - r) + (MaxRead - r)
           most == MaxRead * (MaxRead + 3)
<1>8. rest \in Nat /\ most = Twice(r, MaxRead) + rest
  BY <1>3, <1>4
<1> HIDE DEF rest, most
<1>9. 2 * s <= most
  BY <1>2, <1>7, <1>8
<1>10. 2 * (s + 1) <= Twice(r, p + 1) /\ 2 * (s + 1) <= Twice(r + 1, r + 1)
  BY <1>2, <1>5, <1>6, <1>7
<1> QED
  BY <1>9, <1>10 DEF most

\* Where a call is between create() and its return.
Live == {"acquire", "sleeping", "sent", "reading", "closing"}

CallInv == Counters /\ Streams /\ AnswerInv /\ SlowInv

\* A call that goes on as slow as it was.
LEMMA SlowKept ==
    ASSUME Counters, SlowInv, NEW c \in Callers, pc[c] \in Live, NEW place \in Live,
           Go(c, place), UNCHANGED <<slow, read, post>>
    PROVE  SlowInv'
  BY DEF Counters, SlowInv, Live, Go

LEMMA SlowEnded ==
    ASSUME Counters, SlowInv, NEW c \in Callers, pc[c] \in Live,
           NEW place \in {"returned", "failed"}, End(c, place), UNCHANGED slow
    PROVE  SlowInv'
<1>1. 2 * slow[c] <= MaxRead * (MaxRead + 3)
  <2>1. /\ read[c] \in 0 .. MaxRead /\ post[c] \in 0 .. MaxRead /\ slow[c] \in Nat
        /\ 2 * slow[c] <= Twice(read[c], post[c])
    BY DEF Counters, SlowInv, Live
  <2> QED
    BY <2>1, SlowMath
<1>2. /\ pc' = [pc EXCEPT ![c] = place] /\ slow' = slow
      /\ read' = [read EXCEPT ![c] = 0] /\ post' = [post EXCEPT ![c] = 0]
  BY DEF End, Go, Zero
<1> SUFFICES ASSUME NEW d \in Callers
             PROVE  /\ pc'[d] = "idle" => slow'[d] = 0 /\ read'[d] = 0
                    /\ pc'[d] \in {"returned", "failed"} =>
                           2 * slow'[d] <= MaxRead * (MaxRead + 3)
                    /\ pc'[d] \in {"acquire", "sleeping", "sent", "reading", "closing"} =>
                           2 * slow'[d] <= Twice(read'[d], post'[d])
  BY DEF SlowInv
<1>3. CASE d = c
  BY <1>1, <1>2, <1>3 DEF Counters
<1>4. CASE d # c
  BY <1>2, <1>4 DEF Counters, SlowInv
<1> QED
  BY <1>3, <1>4

\* One more slow attempt: after a timeout, or after a stall.
LEMMA SlowMore ==
    ASSUME Counters, SlowInv, NEW c \in Callers, pc[c] \in Live, Go(c, "acquire"),
           slow' = Incr(slow, c),
           \/ /\ post[c] < MaxRead /\ post' = Incr(post, c) /\ read' = read
           \/ /\ read[c] < MaxRead /\ read' = Incr(read, c)
              /\ post' = [post EXCEPT ![c] = read[c] + 1]
    PROVE  SlowInv'
<1>1. /\ read[c] \in 0 .. MaxRead /\ post[c] \in 0 .. MaxRead /\ slow[c] \in Nat
      /\ 2 * slow[c] <= Twice(read[c], post[c])
  BY DEF Counters, SlowInv, Live
<1>2. /\ 2 * (slow[c] + 1) <= Twice(read[c], post[c] + 1)
      /\ 2 * (slow[c] + 1) <= Twice(read[c] + 1, read[c] + 1)
  BY <1>1, SlowMath
<1>3. /\ slow'[c] = slow[c] + 1 /\ pc'[c] = "acquire"
      /\ \A d \in Callers \ {c} : /\ slow'[d] = slow[d] /\ pc'[d] = pc[d]
                                  /\ read'[d] = read[d] /\ post'[d] = post[d]
      /\ \/ read'[c] = read[c] /\ post'[c] = post[c] + 1
         \/ read'[c] = read[c] + 1 /\ post'[c] = read[c] + 1
  BY DEF Counters, Incr, Go
<1>4. 2 * slow'[c] <= Twice(read'[c], post'[c])
  BY <1>2, <1>3
<1> SUFFICES ASSUME NEW d \in Callers
             PROVE  /\ pc'[d] = "idle" => slow'[d] = 0 /\ read'[d] = 0
                    /\ pc'[d] \in {"returned", "failed"} =>
                           2 * slow'[d] <= MaxRead * (MaxRead + 3)
                    /\ pc'[d] \in {"acquire", "sleeping", "sent", "reading", "closing"} =>
                           2 * slow'[d] <= Twice(read'[d], post'[d])
  BY DEF SlowInv
<1>5. CASE d = c
  BY <1>3, <1>4, <1>5
<1>6. CASE d # c
  BY <1>3, <1>6 DEF SlowInv
<1> QED
  BY <1>5, <1>6

LEMMA FailStep ==
    ASSUME CallInv, NEW c \in Callers, pc[c] \in Live, Fail(c)
    PROVE  CallInv'
<1>1. Counters'
  BY EndTypes DEF CallInv, Fail
<1>2. SlowInv'
  BY SlowEnded DEF CallInv, Fail, counts
<1>3. Streams' /\ AnswerInv'
  BY DEF CallInv, Fail, End, Go, stream, Streams, AnswerInv, Counters
<1> QED
  BY <1>1, <1>2, <1>3 DEF CallInv

LEMMA AdmitStep ==
    ASSUME CallInv, NEW c \in Callers, pc[c] \in {"acquire", "sleeping"}, Admit(c)
    PROVE  CallInv'
<1>1. Counters'
  BY PlaceTypes DEF CallInv, Admit, budgets, counts, Counters, Places
<1>2. SlowInv'
  BY SlowKept DEF CallInv, Admit, budgets, counts, Live
<1>3. answer' = answer
  BY DEF CallInv, Admit, AnswerInv, Streams
<1>4. Streams' /\ AnswerInv'
  BY <1>3 DEF CallInv, Admit, Go, Streams, AnswerInv, Counters
<1> QED
  BY <1>1, <1>2, <1>4 DEF CallInv

\* Another attempt of the same _retry_post.
LEMMA RetryStep ==
    ASSUME CallInv, NEW c \in Callers, ~Fail(c),
           \/ ReadTimeout(c) \/ ServerError(c) \/ RateLimited(c) \/ QuotaExhausted(c)
    PROVE  CallInv'
<1>1. pc[c] = "sent" /\ Go(c, "acquire") /\ UNCHANGED <<stream, read>>
  BY DEF ReadTimeout, ServerError, RateLimited, QuotaExhausted, budgets
<1>2. Counters'
  <2>1. pc' \in [Callers -> Places]
    BY <1>1, PlaceTypes DEF CallInv, Places
  <2>2. ASSUME NEW f, NEW m \in Nat, f \in [Callers -> 0 .. m], ~(f[c] >= m)
        PROVE  Incr(f, c) \in [Callers -> 0 .. m]
    BY <2>2 DEF Incr
  <2>3. CASE ReadTimeout(c)
    BY <1>1, <2>1, <2>2, <2>3, BudgetAssumption
       DEF ReadTimeout, Counters, CallInv, Incr
  <2>4. CASE ServerError(c)
    BY <1>1, <2>1, <2>2, <2>4, BudgetAssumption
       DEF ServerError, Counters, CallInv, counts
  <2>5. CASE RateLimited(c)
    BY <1>1, <2>1, <2>5, BudgetAssumption
       DEF RateLimited, Counters, CallInv, budgets, Incr
  <2>6. CASE QuotaExhausted(c)
    BY <1>1, <2>1, <2>2, <2>6, BudgetAssumption
       DEF QuotaExhausted, Counters, CallInv, counts
  <2> QED
    BY <2>3, <2>4, <2>5, <2>6
<1>3. SlowInv'
  <2>1. CASE ReadTimeout(c)
    <3>1. post[c] < MaxRead
      BY <2>1, BudgetAssumption DEF ReadTimeout, CallInv, Counters
    <3> QED
      BY <1>1, <2>1, <3>1, SlowMore DEF ReadTimeout, CallInv, Live
  <2>2. CASE ServerError(c) \/ RateLimited(c) \/ QuotaExhausted(c)
    <3>1. UNCHANGED <<slow, read, post>>
      BY <2>2 DEF ServerError, RateLimited, QuotaExhausted, counts, budgets
    <3> QED
      BY <1>1, <3>1, SlowKept DEF CallInv, Live
  <2> QED
    BY <2>1, <2>2
<1>4. Streams' /\ AnswerInv'
  BY <1>1 DEF CallInv, Go, stream, Streams, AnswerInv, Counters
<1> QED
  BY <1>2, <1>3, <1>4 DEF CallInv

LEMMA SuccessStep ==
    ASSUME CallInv, NEW c \in Callers, Success(c)
    PROVE  CallInv'
<1>1. CASE c \in Streaming
  <2>1. /\ pc[c] = "sent" /\ Go(c, "reading")
        /\ UNCHANGED <<budgets, counts, stream>>
    BY <1>1 DEF Success, stream
  <2>2. Counters'
    BY <2>1, PlaceTypes DEF CallInv, budgets, counts, Counters, Places
  <2>3. SlowInv'
    BY <2>1, SlowKept DEF CallInv, budgets, counts, Live
  <2>4. Streams' /\ AnswerInv'
    BY <2>1 DEF CallInv, Go, stream, Streams, AnswerInv, Counters
  <2> QED
    BY <2>2, <2>3, <2>4 DEF CallInv
<1>2. CASE c \notin Streaming
  <2>1. /\ pc[c] = "sent" /\ End(c, "returned") /\ UNCHANGED counts
        /\ answer' = [answer EXCEPT ![c] = {"new"}]
        /\ whole' = [whole EXCEPT ![c] = TRUE] /\ fired' = fired
    BY <1>2 DEF Success
  <2>2. Counters'
    BY <2>1, EndTypes DEF CallInv
  <2>3. SlowInv'
    BY <2>1, SlowEnded DEF CallInv, counts, Live
  <2>4. Streams' /\ AnswerInv'
    BY <2>1 DEF CallInv, End, Go, Streams, AnswerInv, Counters
  <2> QED
    BY <2>2, <2>3, <2>4 DEF CallInv
<1> QED
  BY <1>1, <1>2

LEMMA CloseStep ==
    ASSUME CallInv, NEW c \in Callers, Close(c)
    PROVE  CallInv'
<1>1. pc[c] = "closing"
  BY DEF Close
<1>2. CASE ~fired[c]
  <2>1. End(c, "returned") /\ UNCHANGED <<counts, stream>>
    BY <1>2 DEF Close
  <2>2. Counters'
    BY <2>1, EndTypes DEF CallInv
  <2>3. SlowInv'
    BY <1>1, <2>1, SlowEnded DEF CallInv, counts, Live
  <2>4. Streams' /\ AnswerInv'
    BY <1>1, <2>1 DEF CallInv, End, Go, stream, Streams, AnswerInv, Counters
  <2> QED
    BY <2>2, <2>3, <2>4 DEF CallInv
<1>3. CASE fired[c] /\ read[c] >= MaxRead
  BY <1>1, <1>3, FailStep DEF Close, Live
<1>4. CASE fired[c] /\ ~(read[c] >= MaxRead)
  <2>1. /\ read' = Incr(read, c) /\ slow' = Incr(slow, c) /\ UNCHANGED limited
        /\ StartPost(c, read[c] + 1)
    BY <1>4 DEF Close
  <2>2. read[c] < MaxRead /\ read[c] + 1 \in 0 .. MaxRead
    BY <1>4, BudgetAssumption DEF CallInv, Counters
  <2>3. /\ pc' \in [Callers -> Places] /\ post' \in [Callers -> 0 .. MaxRead]
        /\ server' \in [Callers -> 0 .. MaxServer]
        /\ quota' \in [Callers -> 0 .. MaxQuota]
        /\ Streams'
    BY <2>1, <2>2, StartTypes DEF CallInv
  <2>4. Counters'
    <3>1. read' \in [Callers -> 0 .. MaxRead]
      BY <2>1, <2>2 DEF CallInv, Counters, Incr
    <3>2. slow' \in [Callers -> Nat] /\ limited' \in [Callers -> 0 .. MaxLimited]
      BY <2>1 DEF CallInv, Counters, Incr
    <3> QED
      BY <2>3, <3>1, <3>2 DEF Counters
  <2>5. SlowInv'
    BY <1>1, <2>1, <2>2, SlowMore DEF CallInv, StartPost, Live
  <2>6. AnswerInv'
    BY <1>1, <2>1 DEF CallInv, StartPost, Go, Streams, AnswerInv, Counters
  <2> QED
    BY <2>3, <2>4, <2>5, <2>6 DEF CallInv
<1> QED
  BY <1>2, <1>3, <1>4

LEMMA CallStep == CallInv /\ [Next]_vars => CallInv'
<1> SUFFICES ASSUME CallInv, [Next]_vars PROVE CallInv'
  OBVIOUS
<1>1. ASSUME NEW c \in Callers, Create(c) PROVE CallInv'
  <2>1. /\ pc[c] = "idle" /\ StartPost(c, 0) /\ UNCHANGED <<read, counts>>
    BY <1>1 DEF Create
  <2>2. /\ pc' \in [Callers -> Places] /\ post' \in [Callers -> 0 .. MaxRead]
        /\ server' \in [Callers -> 0 .. MaxServer]
        /\ quota' \in [Callers -> 0 .. MaxQuota]
        /\ Streams'
    BY <2>1, StartTypes, BudgetAssumption DEF CallInv
  <2>3. Counters'
    BY <2>1, <2>2 DEF CallInv, Counters, counts
  <2>4. SlowInv'
    <3>1. slow[c] = 0 /\ read[c] = 0 /\ Twice(0, 0) = 0
      BY <2>1, BudgetAssumption DEF CallInv, SlowInv, Twice
    <3> QED
      BY <2>1, <3>1 DEF CallInv, Counters, SlowInv, StartPost, Go, counts
  <2>5. AnswerInv'
    BY <2>1 DEF CallInv, StartPost, Go, Streams, AnswerInv, Counters
  <2> QED
    BY <2>2, <2>3, <2>4, <2>5 DEF CallInv
<1>2. ASSUME NEW c \in Callers, Acquire(c) \/ Wake(c) PROVE CallInv'
  BY <1>2, AdmitStep DEF Acquire, Wake
<1>3. ASSUME NEW c \in Callers, FallAsleep(c) PROVE CallInv'
  <2>1. /\ pc[c] = "acquire" /\ Go(c, "sleeping")
        /\ UNCHANGED <<budgets, counts, stream>>
    BY <1>3 DEF FallAsleep
  <2>2. Counters'
    BY <2>1, PlaceTypes DEF CallInv, budgets, counts, Counters, Places
  <2>3. SlowInv'
    BY <2>1, SlowKept DEF CallInv, budgets, counts, Live
  <2>4. Streams' /\ AnswerInv'
    BY <2>1 DEF CallInv, Go, stream, Streams, AnswerInv, Counters
  <2> QED
    BY <2>2, <2>3, <2>4 DEF CallInv
<1>4. ASSUME NEW c \in Callers, Answered(c) PROVE CallInv'
  <2>1. CASE Fail(c)
    BY <1>4, <2>1, FailStep
       DEF Answered, ReadTimeout, ServerError, RateLimited, QuotaExhausted, Refused,
           Success, Live
  <2>2. CASE ~Fail(c)
    BY <1>4, <2>2, RetryStep, SuccessStep DEF Answered, Refused
  <2> QED
    BY <2>1, <2>2
<1>5. ASSUME NEW c \in Callers, Line(c) PROVE CallInv'
  BY <1>5
     DEF Line, CallInv, Counters, Streams, AnswerInv, SlowInv, budgets, counts
<1>6. ASSUME NEW c \in Callers, NEW done \in BOOLEAN, StreamEnds(c, done) PROVE CallInv'
  <2>1. /\ pc[c] = "reading" /\ Go(c, "closing")
        /\ UNCHANGED <<budgets, counts, answer, fired>>
        /\ whole' = [whole EXCEPT ![c] = done]
    BY <1>6 DEF StreamEnds
  <2>2. Counters'
    BY <2>1, PlaceTypes DEF CallInv, budgets, counts, Counters, Places
  <2>3. SlowInv'
    BY <2>1, SlowKept DEF CallInv, budgets, counts, Live
  <2>4. Streams' /\ AnswerInv'
    BY <2>1 DEF CallInv, Go, Streams, AnswerInv, Counters
  <2> QED
    BY <2>2, <2>3, <2>4 DEF CallInv
<1>7. ASSUME NEW c \in Callers, StreamBreaks(c) PROVE CallInv'
  BY <1>7, FailStep DEF StreamBreaks, Live
<1>8. ASSUME NEW c \in Callers, Fire(c) PROVE CallInv'
  BY <1>8
     DEF Fire, CallInv, Counters, Streams, AnswerInv, SlowInv, budgets, counts
<1>9. ASSUME NEW c \in Callers, Close(c) PROVE CallInv'
  BY <1>9, CloseStep
<1>10. CASE Tick \/ UNCHANGED vars
  BY <1>10
     DEF Tick, vars, CallInv, Counters, Streams, AnswerInv, SlowInv, budgets, counts, stream
<1> QED
  BY <1>1, <1>2, <1>3, <1>4, <1>5, <1>6, <1>7, <1>8, <1>9, <1>10 DEF Next

\* An answer is made of one attempt's pieces, and a call makes at most
\* MaxRead * (MaxRead + 3) / 2 attempts after timeouts and stalls, which share
\* their budget only in part (_create_streaming, _retry_post).
THEOREM AttemptsAlwaysSound == Spec => []AttemptsSound
<1>1. Init => LimiterInv /\ CallInv
  <2> SUFFICES ASSUME Init PROVE LimiterInv /\ CallInv
    OBVIOUS
  <2>1. LimiterInv
    BY LimiterAssumption DEF Init, LimiterInv, Limiter, Past
  <2>2. Counters /\ Streams
    BY BudgetAssumption DEF Init, Counters, Streams, Places
  <2>3. AnswerInv /\ SlowInv
    BY BudgetAssumption DEF Init, AnswerInv, SlowInv
  <2> QED
    BY <2>1, <2>2, <2>3 DEF CallInv
<1>2. LimiterInv /\ CallInv /\ [Next]_vars => LimiterInv' /\ CallInv'
  BY LimiterStep, CallStep
<1>3. LimiterInv /\ CallInv => AttemptsSound
  <2> SUFFICES ASSUME LimiterInv, CallInv PROVE AttemptsSound
    OBVIOUS
  <2>1. TypeOK
    BY TypeParts DEF LimiterInv, CallInv
  <2>2. OneAttempt
    BY DEF OneAttempt, CallInv, AnswerInv
  <2>3. ASSUME NEW c \in Callers PROVE slow[c] <= MaxSlow
    <3>1. slow[c] \in Nat /\ read[c] \in 0 .. MaxRead /\ post[c] \in 0 .. MaxRead
      BY DEF CallInv, Counters
    <3>2. 2 * slow[c] <= MaxRead * (MaxRead + 3)
      <4>1. CASE pc[c] = "idle"
        <5>1. slow[c] = 0 /\ MaxRead * (MaxRead + 3) \in Nat
          BY <4>1, BudgetAssumption DEF CallInv, SlowInv
        <5> QED
          BY <5>1
      <4>2. CASE pc[c] \in Live
        BY <3>1, <4>2, SlowMath DEF CallInv, SlowInv, Live
      <4>3. CASE pc[c] \in {"returned", "failed"}
        BY <4>3 DEF CallInv, SlowInv
      <4> QED
        BY <4>1, <4>2, <4>3 DEF CallInv, Counters, Places, Live
    <3> DEFINE most == MaxRead * (MaxRead + 3)
    <3>3. most \in Int
      BY BudgetAssumption
    <3>4. MaxSlow = most \div 2
      BY DEF MaxSlow
    <3> HIDE DEF most
    <3> QED
      BY <3>1, <3>2, <3>3, <3>4 DEF most
  <2> QED
    BY <2>1, <2>2, <2>3 DEF AttemptsSound, RetriesBounded
<1> QED
  BY <1>1, <1>2, <1>3, PTL DEF Spec
=============================================================================
