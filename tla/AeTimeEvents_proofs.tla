------------------------- MODULE AeTimeEvents_proofs -------------------------
(***************************************************************************)
(* What the calls on the list of timers do, for every resolution of the    *)
(* clock: the arithmetic of seconds and milliseconds is the arithmetic of  *)
(* ticks, and a call changes the one timer it is about.                    *)
(***************************************************************************)
EXTENDS AeTimeEvents, NaturalLemmas, SequenceTheorems, TLAPS

\* The time a pair of seconds and milliseconds stands for.
Ticks(w) == w.sec * Tps + w.ms

LEMMA Division ==
    ASSUME NEW t \in Nat
    PROVE  /\ t \div Tps \in Nat /\ t % Tps \in 0 .. Tps - 1
           /\ t = (t \div Tps) * Tps + (t % Tps)
BY TpsAssumption

\* aeGetTime takes a time apart (ae.c:164-171).
LEMMA GetTimeTicks ==
    ASSUME NEW t \in Nat
    PROVE  aeGetTime(t) \in When /\ Ticks(aeGetTime(t)) = t
BY Division DEF aeGetTime, When, Ticks

\* Its two parts are compared as one number (ae.c:236-239, 300-301).
LEMMA BeforeIsLess ==
    ASSUME NEW w \in When, NEW v \in When
    PROVE  Before(w, v) <=> Ticks(w) < Ticks(v)
<1>1. /\ Tps \in Nat \ {0} /\ w.sec \in Nat /\ v.sec \in Nat
      /\ w.ms \in 0 .. Tps - 1 /\ v.ms \in 0 .. Tps - 1
  BY TpsAssumption DEF When
<1>2. CASE w.sec = v.sec
  BY <1>1, <1>2 DEF Before, Ticks
<1>3. ASSUME NEW a \in Nat, NEW b \in Nat, a < b PROVE a * Tps + Tps <= b * Tps
  <2>1. PICK d \in Nat : b = a + 1 + d
    BY <1>3
  <2>2. b * Tps = a * Tps + Tps + d * Tps /\ d * Tps \in Nat /\ a * Tps \in Nat
    BY <1>1, <2>1
  <2> QED BY <1>1, <2>2
<1>4. w.sec * Tps \in Nat /\ v.sec * Tps \in Nat
  BY <1>1
<1>5. CASE w.sec < v.sec
  <2>1. w.sec * Tps + Tps <= v.sec * Tps
    BY <1>1, <1>3, <1>5
  <2> QED BY <1>1, <1>4, <1>5, <2>1 DEF Before, Ticks
<1>6. CASE v.sec < w.sec
  <2>1. v.sec * Tps + Tps <= w.sec * Tps
    BY <1>1, <1>3, <1>6
  <2> QED BY <1>1, <1>4, <1>6, <2>1 DEF Before, Ticks
<1> QED BY <1>1, <1>2, <1>5, <1>6

\* aeAddMillisecondsToNow adds, carry included, and stays normalised (ae.c:173-185).
LEMMA AddTicks ==
    ASSUME NEW t \in Nat, NEW d \in Nat
    PROVE  /\ aeAddMillisecondsToNow(t, d) \in When
           /\ Ticks(aeAddMillisecondsToNow(t, d)) = t + d
<1> DEFINE a == t \div Tps  b == t % Tps  c == d \div Tps  e == d % Tps
<1>1. /\ a \in Nat /\ b \in 0 .. Tps - 1 /\ t = a * Tps + b
      /\ c \in Nat /\ e \in 0 .. Tps - 1 /\ d = c * Tps + e /\ Tps \in Nat
  BY Division, TpsAssumption
<1>2. aeAddMillisecondsToNow(t, d) = IF b + e >= Tps THEN [sec |-> a + c + 1, ms |-> b + e - Tps]
                                                   ELSE [sec |-> a + c, ms |-> b + e]
  BY <1>1 DEF aeAddMillisecondsToNow
<1> HIDE DEF a, b, c, e
<1>3. /\ (a + c) * Tps = a * Tps + c * Tps /\ (a + c + 1) * Tps = a * Tps + c * Tps + Tps
      /\ a * Tps \in Nat /\ c * Tps \in Nat
  BY <1>1
<1> QED BY <1>1, <1>2, <1>3 DEF When, Ticks

-----------------------------------------------------------------------------
(***************************************************************************)
(* The list                                                                *)
(***************************************************************************)

LEMMA LoopType ==
    ASSUME NEW l \in TimerLoop
    PROVE  /\ l = [list |-> l.list, nextId |-> l.nextId, lastTime |-> l.lastTime]
           /\ l.list \in Seq(TimeEvent) /\ l.nextId \in Nat /\ l.lastTime \in Nat
           /\ Len(l.list) \in Nat /\ DOMAIN l.list = 1 .. Len(l.list)
           /\ l.list \in [1 .. Len(l.list) -> TimeEvent]
           /\ \A i \in DOMAIN l.list : l.list[i] \in TimeEvent
BY DEF TimerLoop

LEMMA FunctionIsList ==
    ASSUME NEW n \in Nat, NEW f \in [1 .. n -> TimeEvent]
    PROVE  f \in Seq(TimeEvent) /\ Len(f) = n
OBVIOUS

\* A new timer is the head of the list, due d after t (ae.c:187-209).
LEMMA CreateTimerEffect ==
    ASSUME NEW l \in TimerLoop, NEW t \in Nat, NEW d \in Nat, NEW n, n = aeCreateTimeEvent(l, t, d)
    PROVE  /\ n \in TimerLoop /\ n.nextId = l.nextId + 1 /\ n.lastTime = l.lastTime
           /\ Len(n.list) = Len(l.list) + 1
           /\ n.list[1] = [te |-> l.nextId, id |-> l.nextId, when |-> aeAddMillisecondsToNow(t, d)]
           /\ \A i \in 1 .. Len(l.list) : n.list[i + 1] = l.list[i]
<1> DEFINE new == [te |-> l.nextId, id |-> l.nextId, when |-> aeAddMillisecondsToNow(t, d)]
           f == <<new>> \o l.list
<1>1. new \in TimeEvent
  BY AddTicks, LoopType DEF TimeEvent
<1>2. n = [l EXCEPT !.nextId = l.nextId + 1, !.list = f]
  BY DEF aeCreateTimeEvent
<1> HIDE DEF new
<1>3. f \in Seq(TimeEvent) /\ Len(f) = Len(l.list) + 1
  BY <1>1, LoopType
<1>4. f[1] = new /\ \A i \in 1 .. Len(l.list) : f[i + 1] = l.list[i]
  BY <1>1, LoopType
<1> HIDE DEF f
<1>5. n \in TimerLoop /\ n.list = f /\ n.nextId = l.nextId + 1 /\ n.lastTime = l.lastTime
  <2>1. PICK k \in Nat : k = l.nextId + 1
    BY LoopType
  <2>2. n = [l EXCEPT !.nextId = k, !.list = f]
    BY <1>2, <2>1
  <2>3. n \in TimerLoop /\ n.list = f /\ n.nextId = k /\ n.lastTime = l.lastTime
    BY <1>3, <2>2 DEF TimerLoop
  <2> QED BY <2>1, <2>3
<1> QED BY <1>3, <1>4, <1>5 DEF new

\* Deleting a timer only marks the one with its id (ae.c:211-228).
LEMMA DeleteTimerEffect ==
    ASSUME NEW l \in TimerLoop, NEW id, NEW n, n = aeDeleteTimeEvent(l, id)
    PROVE  /\ n \in TimerLoop /\ n.nextId = l.nextId /\ n.lastTime = l.lastTime
           /\ Len(n.list) = Len(l.list)
           /\ \A i \in 1 .. Len(l.list) :
                /\ n.list[i].te = l.list[i].te /\ n.list[i].when = l.list[i].when
                /\ n.list[i].id = IF l.list[i].id = id THEN AE_DELETED_EVENT_ID ELSE l.list[i].id
<1> DEFINE f == [i \in DOMAIN l.list |->
                    IF l.list[i].id = id THEN [l.list[i] EXCEPT !.id = AE_DELETED_EVENT_ID] ELSE l.list[i]]
<1>1. n = [l EXCEPT !.list = f]
  BY DEF aeDeleteTimeEvent
<1>2. f \in [1 .. Len(l.list) -> TimeEvent]
  BY LoopType DEF TimeEvent
<1>3. \A i \in 1 .. Len(l.list) :
         /\ f[i].te = l.list[i].te /\ f[i].when = l.list[i].when
         /\ f[i].id = IF l.list[i].id = id THEN AE_DELETED_EVENT_ID ELSE l.list[i].id
  BY LoopType DEF TimeEvent
<1> HIDE DEF f
<1>4. f \in Seq(TimeEvent) /\ Len(f) = Len(l.list)
  BY <1>2, FunctionIsList, LoopType
<1>5. n \in TimerLoop /\ n.list = f /\ n.nextId = l.nextId /\ n.lastTime = l.lastTime
  BY <1>1, <1>4, LoopType DEF TimerLoop
<1> QED BY <1>3, <1>4, <1>5

\* A skew makes timers due and changes nothing else (ae.c:252-267).
LEMMA SkewEffect ==
    ASSUME NEW l \in TimerLoop, NEW t \in Nat, NEW n, n = CheckSkew(l, t)
    PROVE  /\ n \in TimerLoop /\ n.nextId = l.nextId /\ n.lastTime = t \div Tps
           /\ Len(n.list) = Len(l.list)
           /\ \A i \in 1 .. Len(l.list) :
                /\ n.list[i].te = l.list[i].te /\ n.list[i].id = l.list[i].id
                /\ n.list[i].when.ms = l.list[i].when.ms
                /\ n.list[i].when.sec = IF SkewDetected(l, t) THEN 0 ELSE l.list[i].when.sec
           /\ ~SkewDetected(l, t) => n.list = l.list
<1> DEFINE f == [i \in DOMAIN l.list |-> [l.list[i] EXCEPT !.when = [sec |-> 0, ms |-> l.list[i].when.ms]]]
           g == IF SkewDetected(l, t) THEN f ELSE l.list
<1>1. n = [l EXCEPT !.lastTime = t \div Tps, !.list = g]
  BY DEF CheckSkew
<1>2. /\ f \in [1 .. Len(l.list) -> TimeEvent]
      /\ \A i \in 1 .. Len(l.list) :
           /\ f[i].te = l.list[i].te /\ f[i].id = l.list[i].id
           /\ f[i].when.ms = l.list[i].when.ms /\ f[i].when.sec = 0
  <2>1. ASSUME NEW e \in TimeEvent, NEW x, x = [e EXCEPT !.when = [sec |-> 0, ms |-> e.when.ms]]
        PROVE  x \in TimeEvent /\ x.te = e.te /\ x.id = e.id /\ x.when.ms = e.when.ms /\ x.when.sec = 0
    <3>1. e.te \in Nat /\ e.id \in Nat \cup {AE_DELETED_EVENT_ID} /\ e.when.ms \in 0 .. Tps - 1
      BY DEF TimeEvent, When
    <3>2. [sec |-> 0, ms |-> e.when.ms] \in When
      BY <3>1 DEF When
    <3> QED BY <2>1, <3>1, <3>2 DEF TimeEvent
  <2> QED BY <2>1, LoopType
<1> HIDE DEF f
<1>3. f \in Seq(TimeEvent) /\ Len(f) = Len(l.list)
  BY <1>2, FunctionIsList, LoopType
<1>4. t \div Tps \in Nat
  BY Division
<1>5. g \in Seq(TimeEvent) /\ Len(g) = Len(l.list) /\ (SkewDetected(l, t) => g = f)
      /\ (~SkewDetected(l, t) => g = l.list)
  BY <1>3, LoopType
<1> HIDE DEF g
<1>6. n \in TimerLoop /\ n.list = g /\ n.nextId = l.nextId /\ n.lastTime = t \div Tps
  BY <1>1, <1>4, <1>5, LoopType DEF TimerLoop
<1>7. CASE SkewDetected(l, t)
  BY <1>2, <1>5, <1>6, <1>7
<1>8. CASE ~SkewDetected(l, t)
  BY <1>5, <1>6, <1>8
<1> QED BY <1>7, <1>8

\* After its callback a timer has a new time, or is marked (ae.c:303-313).
LEMMA RescheduleEffect ==
    ASSUME NEW l \in TimerLoop, NEW k \in 1 .. Len(l.list), NEW te, IndexOf(l, te) = k,
           NEW t \in Nat, NEW r \in Nat \cup {AE_NOMORE}, NEW n, n = Reschedule(l, te, t, r)
    PROVE  /\ n \in TimerLoop /\ n.nextId = l.nextId /\ n.lastTime = l.lastTime
           /\ Len(n.list) = Len(l.list)
           /\ \A i \in 1 .. Len(l.list) : n.list[i].te = l.list[i].te
           /\ \A i \in 1 .. Len(l.list) : i # k => n.list[i] = l.list[i]
           /\ n.list[k].id = IF r # AE_NOMORE THEN l.list[k].id ELSE AE_DELETED_EVENT_ID
           /\ n.list[k].when = IF r # AE_NOMORE THEN aeAddMillisecondsToNow(t, r) ELSE l.list[k].when
<1> DEFINE e == l.list[k]
           x == IF r # AE_NOMORE THEN [e EXCEPT !.when = aeAddMillisecondsToNow(t, r)]
                                 ELSE [e EXCEPT !.id = AE_DELETED_EVENT_ID]
           f == [l.list EXCEPT ![k] = x]
<1>1. n = [l EXCEPT !.list = f]
  BY DEF Reschedule
<1>2. e \in TimeEvent
  BY LoopType
<1>3. r # AE_NOMORE => aeAddMillisecondsToNow(t, r) \in When
  BY AddTicks
<1>4. /\ x \in TimeEvent /\ x.te = e.te
      /\ x.id = IF r # AE_NOMORE THEN e.id ELSE AE_DELETED_EVENT_ID
      /\ x.when = IF r # AE_NOMORE THEN aeAddMillisecondsToNow(t, r) ELSE e.when
  BY <1>2, <1>3 DEF TimeEvent
<1> HIDE DEF x
<1>5. /\ f \in [1 .. Len(l.list) -> TimeEvent] /\ f[k] = x
      /\ \A i \in 1 .. Len(l.list) : i # k => f[i] = l.list[i]
  BY <1>4, LoopType
<1> HIDE DEF f
<1>6. f \in Seq(TimeEvent) /\ Len(f) = Len(l.list)
  BY <1>5, FunctionIsList, LoopType
<1>7. f[k].te = l.list[k].te
  BY <1>4, <1>5
<1>8. n \in TimerLoop /\ n.list = f /\ n.nextId = l.nextId /\ n.lastTime = l.lastTime
  BY <1>1, <1>6, LoopType DEF TimerLoop
<1> QED BY <1>4, <1>5, <1>6, <1>7, <1>8

\* The timer found deleted leaves the list and the others keep their order, if prev is the
\* one before it (ae.c:277-288).
LEMMA UnlinkEffect ==
    ASSUME NEW l \in TimerLoop, NEW k \in 1 .. Len(l.list), NEW te, IndexOf(l, te) = k,
           NEW prev, IF prev = Forever THEN k = 1 ELSE IndexOf(l, prev) = k - 1,
           NEW n, n = Unlink(l, prev, te)
    PROVE  /\ n \in TimerLoop /\ n.nextId = l.nextId /\ n.lastTime = l.lastTime
           /\ Len(n.list) = Len(l.list) - 1
           /\ \A i \in 1 .. Len(l.list) - 1 : n.list[i] = IF i < k THEN l.list[i] ELSE l.list[i + 1]
<1> DEFINE a == SubSeq(l.list, 1, k - 1)
           b == SubSeq(l.list, k + 1, Len(l.list))
           f == a \o b
<1>2. PICK m \in Nat : m = Len(l.list) /\ l.list \in Seq(TimeEvent)
  BY LoopType
<1>1. n = [l EXCEPT !.list = f]
  <2>1. CASE prev = Forever
    <3>1. a = <<>>
      BY <1>2, <2>1
    <3> QED BY <2>1, <3>1 DEF Unlink
  <2>2. CASE prev # Forever
    BY <2>2 DEF Unlink
  <2> QED BY <2>1, <2>2
<1>3. /\ a \in Seq(TimeEvent) /\ Len(a) = k - 1
      /\ \A i \in 1 .. k - 1 : a[i] = l.list[i]
  BY <1>2
<1>4. /\ b \in Seq(TimeEvent) /\ Len(b) = m - k
      /\ \A i \in 1 .. m - k : b[i] = l.list[k + i]
  BY <1>2
<1> HIDE DEF a, b
<1>5. /\ f \in Seq(TimeEvent) /\ Len(f) = m - 1
      /\ \A i \in 1 .. m - 1 : f[i] = IF i < k THEN a[i] ELSE b[i - (k - 1)]
  <2>1. /\ f \in Seq(TimeEvent) /\ Len(f) = Len(a) + Len(b)
        /\ \A i \in 1 .. Len(a) + Len(b) : f[i] = IF i <= Len(a) THEN a[i] ELSE b[i - Len(a)]
    BY <1>3, <1>4, ConcatProperties
  <2>2. Len(a) + Len(b) = m - 1 /\ \A i \in Nat : i <= Len(a) <=> i < k
    BY <1>2, <1>3, <1>4
  <2>3. \A i \in 1 .. m - 1 : f[i] = IF i <= Len(a) THEN a[i] ELSE b[i - Len(a)]
    BY <2>1, <2>2
  <2> QED BY <1>2, <1>3, <2>1, <2>2, <2>3
<1>6. \A i \in 1 .. m - 1 : f[i] = IF i < k THEN l.list[i] ELSE l.list[i + 1]
  <2> SUFFICES ASSUME NEW i \in 1 .. m - 1 PROVE f[i] = IF i < k THEN l.list[i] ELSE l.list[i + 1]
    OBVIOUS
  <2>1. CASE i < k
    BY <1>3, <1>5, <2>1
  <2>2. CASE ~(i < k)
    <3>1. i - (k - 1) \in 1 .. m - k /\ k + (i - (k - 1)) = i + 1
      BY <1>2, <2>2
    <3> QED BY <1>4, <1>5, <2>2, <3>1
  <2> QED BY <2>1, <2>2
<1> HIDE DEF f
<1>7. n \in TimerLoop /\ n.list = f /\ n.nextId = l.nextId /\ n.lastTime = l.lastTime
  BY <1>1, <1>5, LoopType DEF TimerLoop
<1> QED BY <1>2, <1>5, <1>6, <1>7
=============================================================================
