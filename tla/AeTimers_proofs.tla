--------------------------- MODULE AeTimers_proofs ---------------------------
(***************************************************************************)
(* The timers of the event library, proved for every set of intervals, any *)
(* number of timers and any way to set the clock: none is lost or freed    *)
(* too early, a round runs each at most once, and none is early or late by *)
(* more than the clock and the beforesleep procedure account for.          *)
(***************************************************************************)
EXTENDS AeTimers, AeTimeEvents_proofs, FiniteSetTheorems

(***************************************************************************)
(* The list: newer timers come first                                       *)
(***************************************************************************)

Has(l, t) == \E i \in 1 .. Len(l.list) : l.list[i].te = t

Descending(l) == \A i, k \in 1 .. Len(l.list) : i < k => l.list[i].te > l.list[k].te

\* A listed timer was created, is not freed, and is marked if and only if it is gone.
Linked(e, next, g, f) ==
    /\ e.te \in 0 .. next - 1 /\ e.te \notin f
    /\ e.id = IF e.te \in g THEN AE_DELETED_EVENT_ID ELSE e.te

\* The list of l, when the timers g are gone and the timers f are freed.
ListOK(l, g, f) ==
    /\ l \in TimerLoop
    /\ g \subseteq 0 .. l.nextId - 1 /\ f \subseteq g
    /\ Descending(l)
    /\ \A i \in 1 .. Len(l.list) : Linked(l.list[i], l.nextId, g, f)
    /\ \A t \in 0 .. l.nextId - 1 : t \in f \/ Has(l, t)

LEMMA ListType ==
    ASSUME NEW l, NEW g, NEW f, ListOK(l, g, f)
    PROVE  /\ l \in TimerLoop /\ l.nextId \in Nat /\ Len(l.list) \in Nat
           /\ DOMAIN l.list = 1 .. Len(l.list)
           /\ \A i \in 1 .. Len(l.list) :
                 /\ l.list[i] \in TimeEvent /\ l.list[i].te \in Nat /\ l.list[i].when \in When
                 /\ Ticks(l.list[i].when) \in Nat
<1>1. l \in TimerLoop /\ l.nextId \in Nat /\ Len(l.list) \in Nat /\ DOMAIN l.list = 1 .. Len(l.list)
  BY LoopType DEF ListOK
<1>2. \A e \in TimeEvent : e.te \in Nat /\ e.when \in When
  BY DEF TimeEvent
<1>3. \A w \in When : Ticks(w) \in Nat
  BY TpsAssumption DEF When, Ticks
<1>4. \A i \in 1 .. Len(l.list) : l.list[i] \in TimeEvent
  BY <1>1, LoopType
<1> QED BY <1>1, <1>2, <1>3, <1>4

\* A timer has one place.
LEMMA PlaceOf ==
    ASSUME NEW l, NEW g, NEW f, ListOK(l, g, f), NEW t, Has(l, t)
    PROVE  /\ IndexOf(l, t) \in 1 .. Len(l.list) /\ l.list[IndexOf(l, t)].te = t
           /\ \A i \in 1 .. Len(l.list) : l.list[i].te = t => i = IndexOf(l, t)
<1>1. /\ DOMAIN l.list = 1 .. Len(l.list) /\ Len(l.list) \in Nat
      /\ \A i \in 1 .. Len(l.list) : l.list[i].te \in Nat
  BY ListType
<1>2. IndexOf(l, t) \in 1 .. Len(l.list) /\ l.list[IndexOf(l, t)].te = t
  BY <1>1 DEF IndexOf, Has
<1>3. ASSUME NEW i \in 1 .. Len(l.list), NEW k \in 1 .. Len(l.list), l.list[i].te = l.list[k].te
      PROVE  i = k
  BY <1>1, <1>3 DEF ListOK, Descending
<1> QED BY <1>2, <1>3

\* What te->next leads to: the newest of the older timers.
NextIs(l, t, x) ==
    /\ x \in Nat \cup {Forever} /\ x < t
    /\ x # Forever => Has(l, x)
    /\ \A i \in 1 .. Len(l.list) : l.list[i].te < t => l.list[i].te <= x

LEMMA NextOfEffect ==
    ASSUME NEW l, NEW g, NEW f, ListOK(l, g, f), NEW t \in Nat, Has(l, t)
    PROVE  NextIs(l, t, NextOf(l, t))
<1>1. PICK k \in 1 .. Len(l.list) : k = IndexOf(l, t) /\ l.list[k].te = t
  BY PlaceOf
<1>2. /\ Len(l.list) \in Nat /\ Descending(l)
      /\ \A i \in 1 .. Len(l.list) : l.list[i].te \in Nat
  BY ListType DEF ListOK
<1>3. NextOf(l, t) = IF k < Len(l.list) THEN l.list[k + 1].te ELSE Forever
  BY <1>1 DEF NextOf
<1>4. CASE k < Len(l.list)
  <2>1. k + 1 \in 1 .. Len(l.list) /\ k < k + 1
    BY <1>2, <1>4
  <2>2. l.list[k + 1].te < t /\ l.list[k + 1].te \in Nat /\ Has(l, l.list[k + 1].te)
    BY <1>1, <1>2, <2>1 DEF Descending, Has
  <2>3. ASSUME NEW i \in 1 .. Len(l.list), l.list[i].te < t PROVE l.list[i].te <= l.list[k + 1].te
    <3>1. ~(i < k) /\ i # k
      BY <1>1, <1>2, <2>3 DEF Descending
    <3>2. i = k + 1 \/ k + 1 < i
      BY <1>2, <3>1
    <3> QED BY <1>2, <2>1, <3>2 DEF Descending
  <2> QED BY <1>3, <1>4, <2>2, <2>3 DEF NextIs
<1>5. CASE ~(k < Len(l.list))
  <2>1. ASSUME NEW i \in 1 .. Len(l.list) PROVE ~(l.list[i].te < t)
    <3>1. i = k \/ i < k
      BY <1>2, <1>5
    <3> QED BY <1>1, <1>2, <3>1 DEF Descending
  <2> QED BY <1>3, <1>5, <2>1 DEF NextIs, Forever
<1> QED BY <1>4, <1>5

SameTimer(e, d) == e.te = d.te /\ e.when = d.when

\* The timers of n are timers of l, with the same times.
Keeps(l, n) == \A i \in 1 .. Len(n.list) : \E k \in 1 .. Len(l.list) : SameTimer(n.list[i], l.list[k])

\* So are they but for x, which is to run at time w.
Retimed(l, n, x, w) ==
    \A i \in 1 .. Len(n.list) :
        \/ n.list[i].te = x /\ Ticks(n.list[i].when) = w
        \/ n.list[i].te # x /\ \E k \in 1 .. Len(l.list) : SameTimer(n.list[i], l.list[k])

\* No timer of l is missing in n.
Has2(l, n) == \A x : Has(l, x) => Has(n, x)

\* A call changes marks and times but no place.
SamePlaces(l, n) ==
    /\ n \in TimerLoop /\ n.nextId = l.nextId /\ Len(n.list) = Len(l.list)
    /\ \A i \in 1 .. Len(l.list) : n.list[i].te = l.list[i].te

LEMMA SamePlacesOK ==
    ASSUME NEW l, NEW g, NEW f, ListOK(l, g, f), NEW n, SamePlaces(l, n),
           NEW h, h \subseteq 0 .. l.nextId - 1, g \subseteq h,
           \A i \in 1 .. Len(l.list) :
              n.list[i].id = IF l.list[i].te \in h THEN AE_DELETED_EVENT_ID ELSE l.list[i].te
    PROVE  ListOK(n, h, f) /\ Has2(l, n)
<1>1. n \in TimerLoop /\ h \subseteq 0 .. n.nextId - 1 /\ f \subseteq h
  BY DEF ListOK, SamePlaces
<1>2. Descending(n)
  BY DEF ListOK, SamePlaces, Descending
<1>3. \A i \in 1 .. Len(n.list) : Linked(n.list[i], n.nextId, h, f)
  BY DEF ListOK, SamePlaces, Linked
<1>4. Has2(l, n)
  BY DEF Has2, Has, SamePlaces
<1>5. \A t \in 0 .. n.nextId - 1 : t \in f \/ Has(n, t)
  BY <1>4 DEF ListOK, SamePlaces, Has2
<1> QED BY <1>1, <1>2, <1>3, <1>4, <1>5 DEF ListOK

\* aeCreateTimeEvent (ae.c:187-209)
LEMMA ListCreate ==
    ASSUME NEW l, NEW g, NEW f, ListOK(l, g, f), NEW t \in Nat, NEW d \in Nat,
           NEW n, n = aeCreateTimeEvent(l, t, d)
    PROVE  /\ ListOK(n, g, f) /\ Has2(l, n) /\ n.nextId = l.nextId + 1
           /\ Retimed(l, n, l.nextId, t + d)
<1> DEFINE new == [te |-> l.nextId, id |-> l.nextId, when |-> aeAddMillisecondsToNow(t, d)]
<1>1. /\ l \in TimerLoop /\ l.nextId \in Nat
      /\ \A i \in 1 .. Len(l.list) : l.list[i].te \in Nat
  BY ListType
<1>2. PICK m \in Nat : m = Len(l.list)
  BY ListType
<1>3. /\ n \in TimerLoop /\ n.nextId = l.nextId + 1
      /\ Len(n.list) = m + 1 /\ n.list[1] = new
      /\ \A i \in 1 .. m : n.list[i + 1] = l.list[i]
  <2>1. /\ n \in TimerLoop /\ n.nextId = l.nextId + 1 /\ n.lastTime = l.lastTime
        /\ Len(n.list) = Len(l.list) + 1 /\ n.list[1] = new
        /\ \A i \in 1 .. Len(l.list) : n.list[i + 1] = l.list[i]
    BY <1>1, CreateTimerEffect
  <2> QED BY <1>2, <2>1
<1>4. new.te = l.nextId /\ new.id = l.nextId /\ Ticks(new.when) = t + d
  BY AddTicks
<1> HIDE DEF new
<1>5. ASSUME NEW i \in 1 .. m + 1
      PROVE  i = 1 \/ \E k \in 1 .. m : i = k + 1 /\ n.list[i] = l.list[k]
  <2>1. CASE i # 1
    <3>1. i - 1 \in 1 .. m /\ i = (i - 1) + 1
      BY <2>1
    <3> QED BY <1>3, <3>1
  <2> QED BY <2>1
<1>6. \A i \in 1 .. m : Linked(l.list[i], l.nextId, g, f) /\ l.list[i].te < l.nextId
  BY <1>1, <1>2 DEF ListOK, Linked
<1>7. Descending(n)
  <2> SUFFICES ASSUME NEW i \in 1 .. m + 1, NEW j \in 1 .. m + 1, i < j
               PROVE  n.list[i].te > n.list[j].te
    BY <1>3 DEF Descending
  <2>1. PICK k \in 1 .. m : j = k + 1 /\ n.list[j] = l.list[k]
    BY <1>5
  <2>2. CASE i = 1
    BY <1>1, <1>3, <1>4, <1>6, <2>1, <2>2
  <2>3. CASE i # 1
    <3>1. PICK h \in 1 .. m : i = h + 1 /\ n.list[i] = l.list[h]
      BY <1>5, <2>3
    <3>2. h < k
      BY <2>1, <3>1
    <3> QED BY <1>2, <2>1, <3>1, <3>2 DEF ListOK, Descending
  <2> QED BY <2>2, <2>3
<1>8. g \subseteq 0 .. l.nextId - 1 /\ f \subseteq g
  BY DEF ListOK
<1>9. \A i \in 1 .. m + 1 : Linked(n.list[i], l.nextId + 1, g, f)
  <2>1. Linked(new, l.nextId + 1, g, f)
    BY <1>1, <1>4, <1>8 DEF Linked
  <2>2. \A i \in 1 .. m : Linked(l.list[i], l.nextId + 1, g, f)
    BY <1>1, <1>6 DEF Linked
  <2> QED BY <1>3, <1>5, <2>1, <2>2
<1>10. Has2(l, n)
  <2>1. \A i \in 1 .. m : i + 1 \in 1 .. m + 1
    OBVIOUS
  <2> QED BY <1>2, <1>3, <2>1 DEF Has2, Has
<1>11. Has(n, l.nextId)
  <2>1. 1 \in 1 .. m + 1
    OBVIOUS
  <2> QED BY <1>3, <1>4, <2>1 DEF Has
<1>12. \A x \in 0 .. l.nextId : x \in f \/ Has(n, x)
  <2>1. \A x \in 0 .. l.nextId : x = l.nextId \/ x \in 0 .. l.nextId - 1
    BY <1>1
  <2> QED BY <1>10, <1>11, <2>1 DEF ListOK, Has2
<1>13. (l.nextId + 1) - 1 = l.nextId /\ g \subseteq 0 .. l.nextId
  BY <1>1, <1>8
<1>14. ListOK(n, g, f)
  BY <1>3, <1>7, <1>8, <1>9, <1>12, <1>13 DEF ListOK
<1>15. Retimed(l, n, l.nextId, t + d)
  <2>1. \A i \in 1 .. m : l.list[i].te # l.nextId
    BY <1>1, <1>6
  <2> SUFFICES ASSUME NEW i \in 1 .. m + 1
               PROVE  \/ n.list[i].te = l.nextId /\ Ticks(n.list[i].when) = t + d
                      \/ /\ n.list[i].te # l.nextId
                         /\ \E k \in 1 .. m : SameTimer(n.list[i], l.list[k])
    BY <1>2, <1>3, Zenon DEF Retimed
  <2>2. CASE i = 1
    BY <1>3, <1>4, <2>2
  <2>3. CASE i # 1
    BY <1>5, <2>1, <2>3 DEF SameTimer
  <2> QED BY <2>2, <2>3
<1> QED BY <1>3, <1>10, <1>14, <1>15

\* aeDeleteTimeEvent (ae.c:211-228)
LEMMA ListDelete ==
    ASSUME NEW l, NEW g, NEW f, ListOK(l, g, f), NEW id \in Nat, HasTimer(l, id),
           NEW n, n = aeDeleteTimeEvent(l, id)
    PROVE  /\ ListOK(n, g \cup {id}, f) /\ Has2(l, n) /\ n.nextId = l.nextId
           /\ Keeps(l, n)
<1>1. /\ n \in TimerLoop /\ n.nextId = l.nextId /\ Len(n.list) = Len(l.list)
      /\ \A i \in 1 .. Len(l.list) :
           /\ n.list[i].te = l.list[i].te /\ n.list[i].when = l.list[i].when
           /\ n.list[i].id = IF l.list[i].id = id THEN AE_DELETED_EVENT_ID ELSE l.list[i].id
  <2>1. l \in TimerLoop
    BY ListType
  <2> QED BY <2>1, DeleteTimerEffect
<1>2. SamePlaces(l, n) /\ Keeps(l, n)
  BY <1>1 DEF SamePlaces, Keeps, SameTimer
<1>3. id # AE_DELETED_EVENT_ID
  BY DEF AE_DELETED_EVENT_ID
<1>4. \A i \in 1 .. Len(l.list) :
         /\ l.list[i].te \in 0 .. l.nextId - 1
         /\ l.list[i].id = IF l.list[i].te \in g THEN AE_DELETED_EVENT_ID ELSE l.list[i].te
  BY DEF ListOK, Linked
<1>5. PICK i \in 1 .. Len(l.list) : l.list[i].id = id
  BY ListType DEF HasTimer
<1>6. id \in 0 .. l.nextId - 1
  BY <1>3, <1>4, <1>5
<1>7. \A k \in 1 .. Len(l.list) :
         n.list[k].id = IF l.list[k].te \in g \cup {id} THEN AE_DELETED_EVENT_ID ELSE l.list[k].te
  BY <1>1, <1>3, <1>4
<1>8. g \cup {id} \subseteq 0 .. l.nextId - 1 /\ g \subseteq g \cup {id}
  BY <1>6 DEF ListOK
<1> QED BY <1>1, <1>2, <1>7, <1>8, SamePlacesOK

\* The timers of n are those of l, none of them later.
Earlier(l, n) ==
    \A i \in 1 .. Len(n.list) : \E k \in 1 .. Len(l.list) :
        n.list[i].te = l.list[k].te /\ Ticks(n.list[i].when) <= Ticks(l.list[k].when)

\* The beginning of processTimeEvents (ae.c:252-267)
LEMMA ListSkew ==
    ASSUME NEW l, NEW g, NEW f, ListOK(l, g, f), NEW t \in Nat, NEW n, n = CheckSkew(l, t)
    PROVE  /\ ListOK(n, g, f) /\ Has2(l, n) /\ n.nextId = l.nextId
           /\ Earlier(l, n)
           /\ ~SkewDetected(l, t) => Keeps(l, n)
<1>1. /\ n \in TimerLoop /\ n.nextId = l.nextId /\ Len(n.list) = Len(l.list)
      /\ \A i \in 1 .. Len(l.list) :
           /\ n.list[i].te = l.list[i].te /\ n.list[i].id = l.list[i].id
           /\ n.list[i].when.ms = l.list[i].when.ms
           /\ n.list[i].when.sec \in {0, l.list[i].when.sec}
      /\ ~SkewDetected(l, t) => n.list = l.list
  <2>1. l \in TimerLoop
    BY ListType
  <2>2. n \in TimerLoop /\ n.nextId = l.nextId /\ Len(n.list) = Len(l.list)
    BY <2>1, SkewEffect
  <2>3. ASSUME NEW i \in 1 .. Len(l.list)
        PROVE  /\ n.list[i].te = l.list[i].te /\ n.list[i].id = l.list[i].id
               /\ n.list[i].when.ms = l.list[i].when.ms
               /\ n.list[i].when.sec = IF SkewDetected(l, t) THEN 0 ELSE l.list[i].when.sec
    BY <2>1, SkewEffect
  <2>4. ~SkewDetected(l, t) => n.list = l.list
    BY <2>1, SkewEffect
  <2> QED BY <2>2, <2>3, <2>4
<1>2. SamePlaces(l, n)
  BY <1>1 DEF SamePlaces
<1>3. g \subseteq 0 .. l.nextId - 1
  BY DEF ListOK
<1>4. \A i \in 1 .. Len(l.list) :
         n.list[i].id = IF l.list[i].te \in g THEN AE_DELETED_EVENT_ID ELSE l.list[i].te
  BY <1>1 DEF ListOK, Linked
<1>5. ListOK(n, g, f) /\ Has2(l, n)
  BY <1>2, <1>3, <1>4, SamePlacesOK
<1>6. \A i \in 1 .. Len(l.list) : Ticks(n.list[i].when) <= Ticks(l.list[i].when)
  <2> SUFFICES ASSUME NEW i \in 1 .. Len(l.list)
               PROVE  Ticks(n.list[i].when) <= Ticks(l.list[i].when)
    OBVIOUS
  <2>1. l.list[i].when \in When
    BY ListType
  <2>2. PICK s \in Nat, m \in Nat : s = l.list[i].when.sec /\ m = l.list[i].when.ms
    BY <2>1 DEF When
  <2>3. s * Tps \in Nat /\ 0 * Tps = 0
    BY TpsAssumption
  <2>4. n.list[i].when.ms = m /\ n.list[i].when.sec \in {0, s}
    BY <1>1, <2>2
  <2>5. PICK c \in {0, s} : n.list[i].when.sec = c
    BY <2>4
  <2>6. c * Tps \in Nat /\ c * Tps <= s * Tps
    BY <2>3, TpsAssumption
  <2> QED BY <2>2, <2>3, <2>4, <2>5, <2>6 DEF Ticks
<1>7. Earlier(l, n)
  BY <1>1, <1>6 DEF Earlier
<1>8. ~SkewDetected(l, t) => Keeps(l, n)
  BY <1>1 DEF Keeps, SameTimer
<1> QED BY <1>1, <1>5, <1>7, <1>8

\* p is the predecessor of t: the oldest of the newer timers, or there is none.
PrevIs(l, p, t) ==
    /\ p \in Nat \cup {Null}
    /\ p # Null => Has(l, p) /\ p > t
    /\ \A i \in 1 .. Len(l.list) : l.list[i].te <= t \/ (p # Null /\ p <= l.list[i].te)

\* Its place in the list is the one before.
LEMMA PrevPlace ==
    ASSUME NEW l, NEW g, NEW f, ListOK(l, g, f), NEW t \in Nat, Has(l, t), NEW p, PrevIs(l, p, t)
    PROVE  IF p = Forever THEN IndexOf(l, t) = 1 ELSE IndexOf(l, p) = IndexOf(l, t) - 1
<1>1. PICK k \in 1 .. Len(l.list) : k = IndexOf(l, t) /\ l.list[k].te = t
  BY PlaceOf
<1>2. /\ Len(l.list) \in Nat /\ Descending(l) /\ k \in Nat
      /\ \A i \in 1 .. Len(l.list) : l.list[i].te \in Nat
  <2>1. Len(l.list) \in Nat /\ \A i \in 1 .. Len(l.list) : l.list[i].te \in Nat
    BY ListType
  <2>2. Descending(l)
    BY DEF ListOK
  <2> QED BY <2>1, <2>2
<1>3. \A i \in 1 .. Len(l.list) : l.list[i].te > t <=> i < k
  <2> SUFFICES ASSUME NEW i \in 1 .. Len(l.list) PROVE l.list[i].te > t <=> i < k
    OBVIOUS
  <2>1. i < k \/ i = k \/ k < i
    BY <1>2
  <2> QED BY <1>1, <1>2, <2>1 DEF Descending
<1>4. CASE p = Null
  <2>1. ~(1 < k)
    <3> SUFFICES ASSUME 1 < k PROVE FALSE
      OBVIOUS
    <3>1. 1 \in 1 .. Len(l.list) /\ l.list[1].te \in Nat
      BY <1>2
    <3>2. l.list[1].te > t /\ l.list[1].te <= t
      BY <1>3, <1>4, <3>1 DEF PrevIs
    <3> QED BY <3>1, <3>2
  <2> QED BY <1>1, <1>2, <1>4, <2>1 DEF Null
<1>5. CASE p # Null
  <2>1. p \in Nat /\ Has(l, p) /\ p > t
    BY <1>5 DEF PrevIs
  <2>2. PICK h \in 1 .. Len(l.list) : h = IndexOf(l, p) /\ l.list[h].te = p
    BY <2>1, PlaceOf
  <2>3. h < k
    BY <1>3, <2>1, <2>2
  <2>4. ~(h < k - 1)
    <3> SUFFICES ASSUME h < k - 1 PROVE FALSE
      OBVIOUS
    <3>1. k - 1 \in 1 .. Len(l.list) /\ k - 1 < k
      BY <1>2, <2>3
    <3>2. PICK x \in Nat : x = l.list[k - 1].te
      BY <1>2, <3>1
    <3>3. x > t
      BY <1>3, <3>1, <3>2
    <3>4. x < p
      BY <1>2, <2>2, <3>1, <3>2 DEF Descending
    <3>5. x <= t \/ p <= x
      BY <3>1, <3>2 DEF PrevIs
    <3> QED BY <2>1, <3>3, <3>4, <3>5
  <2>5. h = k - 1
    BY <1>2, <2>3, <2>4
  <2> QED BY <1>1, <1>5, <2>2, <2>5 DEF Null
<1> QED BY <1>4, <1>5

\* The walk goes on from t to x: t becomes the predecessor if it stays in the list.
LEMMA PrevMovesOn ==
    ASSUME NEW l, NEW n, NEW t \in Nat, NEW x, NextIs(l, t, x), Has(n, t),
           NEW g, NEW f, ListOK(l, g, f), \A y : Has(n, y) => Has(l, y)
    PROVE  PrevIs(n, t, x)
<1>1. x \in Int /\ x < t
  BY DEF NextIs, Forever
<1>2. ASSUME NEW i \in 1 .. Len(n.list) PROVE n.list[i].te <= x \/ t <= n.list[i].te
  <2>1. PICK k \in 1 .. Len(l.list) : l.list[k].te = n.list[i].te
    <3>1. Has(n, n.list[i].te)
      BY DEF Has
    <3> QED BY <3>1 DEF Has
  <2>2. n.list[i].te \in Nat
    BY <2>1, ListType
  <2> QED BY <2>1, <2>2 DEF NextIs
<1> QED BY <1>1, <1>2 DEF PrevIs, Null, Forever

\* The timer t is unlinked: its predecessor stays the predecessor.
LEMMA PrevStays ==
    ASSUME NEW l, NEW n, NEW t \in Nat, NEW x, NextIs(l, t, x), NEW p, PrevIs(l, p, t),
           NEW g, NEW f, ListOK(l, g, f), \A y : Has(n, y) => Has(l, y) /\ y # t,
           \A y : Has(l, y) /\ y # t => Has(n, y)
    PROVE  PrevIs(n, p, x)
<1>1. x \in Int /\ x < t
  BY DEF NextIs, Forever
<1>2. ASSUME NEW i \in 1 .. Len(n.list) PROVE n.list[i].te <= x \/ (p # Null /\ p <= n.list[i].te)
  <2>1. PICK k \in 1 .. Len(l.list) : l.list[k].te = n.list[i].te /\ n.list[i].te # t
    <3>1. Has(n, n.list[i].te)
      BY DEF Has
    <3> QED BY <3>1 DEF Has
  <2>2. n.list[i].te \in Nat
    BY <2>1, ListType
  <2>3. n.list[i].te < t \/ (p # Null /\ p <= n.list[i].te)
    BY <2>1, <2>2 DEF PrevIs
  <2> QED BY <2>1, <2>2, <2>3 DEF NextIs
<1>3. p # Null => Has(n, p) /\ p > x
  BY <1>1 DEF PrevIs
<1> QED BY <1>2, <1>3 DEF PrevIs

\* A timer found deleted is freed (ae.c:277-288).
LEMMA ListUnlink ==
    ASSUME NEW l, NEW g, NEW f, ListOK(l, g, f), NEW tm \in g, Has(l, tm), tm \in Nat,
           NEW p, PrevIs(l, p, tm), NEW n, n = Unlink(l, p, tm)
    PROVE  /\ ListOK(n, g, f \cup {tm}) /\ n.nextId = l.nextId /\ Keeps(l, n)
           /\ \A x : Has(l, x) /\ x # tm => Has(n, x)
<1>1. PICK k \in 1 .. Len(l.list) : k = IndexOf(l, tm) /\ l.list[k].te = tm
  BY PlaceOf
<1>2. PICK m \in Nat : m = Len(l.list)
  BY ListType
<1>3. /\ n \in TimerLoop /\ n.nextId = l.nextId /\ Len(n.list) = m - 1
      /\ \A i \in 1 .. m - 1 : n.list[i] = IF i < k THEN l.list[i] ELSE l.list[i + 1]
  <2>1. l \in TimerLoop
    BY ListType
  <2>2. /\ n \in TimerLoop /\ n.nextId = l.nextId /\ n.lastTime = l.lastTime
        /\ Len(n.list) = Len(l.list) - 1
        /\ \A i \in 1 .. Len(l.list) - 1 : n.list[i] = IF i < k THEN l.list[i] ELSE l.list[i + 1]
    BY <1>1, <2>1, PrevPlace, UnlinkEffect
  <2> QED BY <1>2, <2>2
<1> DEFINE old(i) == IF i < k THEN i ELSE i + 1
<1>4. \A i \in 1 .. m - 1 : old(i) \in 1 .. m /\ old(i) # k /\ n.list[i] = l.list[old(i)]
  BY <1>1, <1>2, <1>3
<1>5. \A i, j \in 1 .. m - 1 : i < j => old(i) < old(j)
  BY <1>1, <1>2
<1>6. ASSUME NEW j \in 1 .. m, j # k PROVE \E i \in 1 .. m - 1 : old(i) = j
  <2>1. CASE j < k
    BY <1>1, <1>2, <1>6, <2>1
  <2>2. CASE j > k
    <3>1. j - 1 \in 1 .. m - 1 /\ ~(j - 1 < k) /\ (j - 1) + 1 = j
      BY <1>1, <1>2, <2>2
    <3> QED BY <3>1
  <2> QED BY <1>1, <1>2, <1>6, <2>1, <2>2
<1> HIDE DEF old
<1>7. Descending(n)
  <2>1. Descending(l)
    BY DEF ListOK
  <2>2. ASSUME NEW i \in 1 .. m - 1, NEW j \in 1 .. m - 1, i < j PROVE n.list[i].te > n.list[j].te
    <3>1. /\ old(i) \in 1 .. m /\ old(j) \in 1 .. m /\ old(i) < old(j)
          /\ n.list[i] = l.list[old(i)] /\ n.list[j] = l.list[old(j)]
      BY <1>4, <1>5, <2>2
    <3> QED BY <1>2, <2>1, <3>1 DEF Descending
  <2> QED BY <1>3, <2>2 DEF Descending
<1>8. \A j \in 1 .. m : j # k => l.list[j].te # tm
  BY <1>1, <1>2, PlaceOf
<1>9. \A i \in 1 .. m - 1 : Linked(n.list[i], l.nextId, g, f \cup {tm})
  <2>1. \A j \in 1 .. m : Linked(l.list[j], l.nextId, g, f)
    BY <1>2 DEF ListOK
  <2> QED BY <1>4, <1>8, <2>1 DEF Linked
<1>10. Keeps(l, n)
  BY <1>2, <1>3, <1>4 DEF Keeps, SameTimer
<1>11. ASSUME NEW x, Has(l, x), x # tm PROVE Has(n, x)
  <2>1. PICK j \in 1 .. m : l.list[j].te = x
    BY <1>2, <1>11 DEF Has
  <2>2. j # k
    BY <1>1, <1>11, <2>1
  <2>3. PICK i \in 1 .. m - 1 : old(i) = j
    BY <1>6, <2>2
  <2> QED BY <1>3, <1>4, <2>1, <2>3 DEF Has
<1>12. ListOK(n, g, f \cup {tm})
  <2>1. g \subseteq 0 .. n.nextId - 1 /\ f \cup {tm} \subseteq g
    BY <1>3 DEF ListOK
  <2>2. \A t \in 0 .. n.nextId - 1 : t \in f \cup {tm} \/ Has(n, t)
    BY <1>3, <1>11 DEF ListOK
  <2>3. \A i \in 1 .. Len(n.list) : Linked(n.list[i], n.nextId, g, f \cup {tm})
    BY <1>3, <1>9
  <2> QED BY <1>3, <1>7, <2>1, <2>2, <2>3 DEF ListOK
<1> QED BY <1>3, <1>10, <1>11, <1>12

Rescheduled(l, k, t, r, n) ==
    /\ n \in TimerLoop /\ n.nextId = l.nextId /\ Len(n.list) = Len(l.list)
    /\ \A i \in 1 .. Len(l.list) : n.list[i].te = l.list[i].te
    /\ \A i \in 1 .. Len(l.list) : i # k => n.list[i] = l.list[i]
    /\ n.list[k].id = IF r # AE_NOMORE THEN l.list[k].id ELSE AE_DELETED_EVENT_ID
    /\ n.list[k].when = IF r # AE_NOMORE THEN aeAddMillisecondsToNow(t, r) ELSE l.list[k].when

LEMMA RescheduledAt ==
    ASSUME NEW l, NEW g, NEW f, ListOK(l, g, f), NEW k \in 1 .. Len(l.list), NEW tm, k = IndexOf(l, tm),
           NEW t \in Nat, NEW r \in Nat \cup {AE_NOMORE}, NEW n, n = Reschedule(l, tm, t, r)
    PROVE  Rescheduled(l, k, t, r, n)
<1>1. /\ n \in TimerLoop /\ n.nextId = l.nextId /\ n.lastTime = l.lastTime
      /\ Len(n.list) = Len(l.list)
      /\ \A i \in 1 .. Len(l.list) : n.list[i].te = l.list[i].te
      /\ \A i \in 1 .. Len(l.list) : i # k => n.list[i] = l.list[i]
      /\ n.list[k].id = IF r # AE_NOMORE THEN l.list[k].id ELSE AE_DELETED_EVENT_ID
      /\ n.list[k].when = IF r # AE_NOMORE THEN aeAddMillisecondsToNow(t, r) ELSE l.list[k].when
  <2>1. l \in TimerLoop
    BY ListType
  <2> QED BY <2>1, RescheduleEffect
<1> QED BY <1>1 DEF Rescheduled

\* A callback that wants to run again (ae.c:303-309)
LEMMA ListReschedule ==
    ASSUME NEW l, NEW g, NEW f, ListOK(l, g, f), NEW tm, Has(l, tm), NEW t \in Nat, NEW r \in Nat,
           NEW n, n = Reschedule(l, tm, t, r)
    PROVE  /\ ListOK(n, g, f) /\ Has2(l, n) /\ SamePlaces(l, n)
           /\ Retimed(l, n, tm, t + r)
<1>1. PICK k \in 1 .. Len(l.list) : /\ k = IndexOf(l, tm) /\ l.list[k].te = tm
                                    /\ \A i \in 1 .. Len(l.list) : l.list[i].te = tm => i = k
  BY PlaceOf
<1>2. r \in Nat \cup {AE_NOMORE} /\ r # AE_NOMORE
  BY DEF AE_NOMORE
<1>3. Rescheduled(l, k, t, r, n)
  BY <1>1, <1>2, RescheduledAt
<1>4. n.list[k].id = l.list[k].id /\ Ticks(n.list[k].when) = t + r
  BY <1>2, <1>3, AddTicks DEF Rescheduled
<1>5. SamePlaces(l, n)
  BY <1>3 DEF SamePlaces, Rescheduled
<1>6. g \subseteq 0 .. l.nextId - 1
  BY DEF ListOK
<1>7. \A i \in 1 .. Len(l.list) :
         n.list[i].id = IF l.list[i].te \in g THEN AE_DELETED_EVENT_ID ELSE l.list[i].te
  BY <1>3, <1>4 DEF ListOK, Linked, Rescheduled
<1>8. ListOK(n, g, f) /\ Has2(l, n)
  BY <1>5, <1>6, <1>7, SamePlacesOK
<1>9. Retimed(l, n, tm, t + r)
  <2> SUFFICES ASSUME NEW i \in 1 .. Len(l.list)
               PROVE  \/ n.list[i].te = tm /\ Ticks(n.list[i].when) = t + r
                      \/ n.list[i].te # tm /\ \E j \in 1 .. Len(l.list) : SameTimer(n.list[i], l.list[j])
    BY <1>3, Zenon DEF Retimed, Rescheduled
  <2>1. CASE i = k
    BY <1>1, <1>3, <1>4, <2>1 DEF Rescheduled
  <2>2. CASE i # k
    BY <1>1, <1>3, <2>2 DEF SameTimer, Rescheduled
  <2> QED BY <2>1, <2>2
<1> QED BY <1>5, <1>8, <1>9

\* A callback that does not (ae.c:310-312)
LEMMA ListNoMore ==
    ASSUME NEW l, NEW g, NEW f, ListOK(l, g, f), NEW tm, Has(l, tm), NEW t \in Nat,
           NEW n, n = Reschedule(l, tm, t, AE_NOMORE)
    PROVE  /\ ListOK(n, g \cup {tm}, f) /\ Has2(l, n) /\ n.nextId = l.nextId
           /\ Keeps(l, n)
<1>1. PICK k \in 1 .. Len(l.list) : /\ k = IndexOf(l, tm) /\ l.list[k].te = tm
                                    /\ \A i \in 1 .. Len(l.list) : l.list[i].te = tm => i = k
  BY PlaceOf
<1>2. AE_NOMORE \in Nat \cup {AE_NOMORE}
  OBVIOUS
<1>3. Rescheduled(l, k, t, AE_NOMORE, n)
  BY <1>1, <1>2, RescheduledAt
<1>4. n.list[k].id = AE_DELETED_EVENT_ID /\ n.list[k].when = l.list[k].when
  BY <1>3 DEF Rescheduled
<1>5. SamePlaces(l, n)
  BY <1>3 DEF SamePlaces, Rescheduled
<1>6. g \cup {tm} \subseteq 0 .. l.nextId - 1 /\ g \subseteq g \cup {tm}
  BY <1>1 DEF ListOK, Linked
<1>7. \A i \in 1 .. Len(l.list) :
         n.list[i].id = IF l.list[i].te \in g \cup {tm} THEN AE_DELETED_EVENT_ID ELSE l.list[i].te
  BY <1>1, <1>3, <1>4 DEF ListOK, Linked, Rescheduled
<1>8. ListOK(n, g \cup {tm}, f) /\ Has2(l, n)
  BY <1>5, <1>6, <1>7, SamePlacesOK
<1>9. Keeps(l, n)
  BY <1>3, <1>4 DEF Keeps, SameTimer, Rescheduled
<1> QED BY <1>3, <1>8, <1>9 DEF Rescheduled

-----------------------------------------------------------------------------
(***************************************************************************)
(* The clocks                                                              *)
(***************************************************************************)

\* The wall clock shows the time that passed and how it was set, and stays positive.
ClockInv ==
    /\ real \in 0 .. MaxReal /\ jumps \in 0 .. MaxJumps /\ forward \in Nat /\ setback \in Nat
    /\ now = Start + real + forward - setback
    /\ jumps = 0 => setback = 0
    /\ MaxJumps * setback <= jumps * Start
    /\ spent \in Nat /\ spentBefore \in Nat

LEMMA MaxWithZero ==
    ASSUME NEW d \in Int
    PROVE  Max({0, d}) \in Nat /\ Max({0, d}) \in {0, d} /\ Max({0, d}) >= d
<1>1. \E x \in {0, d} : \A y \in {0, d} : x >= y
  OBVIOUS
<1>2. Max({0, d}) \in {0, d} /\ \A y \in {0, d} : Max({0, d}) >= y
  BY <1>1 DEF Max
<1>3. PICK m : m = Max({0, d})
  OBVIOUS
<1>4. m \in {0, d} /\ m >= 0 /\ m >= d
  BY <1>2, <1>3
<1>5. m \in Nat
  BY <1>4
<1> QED BY <1>3, <1>4, <1>5

LEMMA ClockType ==
    ASSUME ClockInv
    PROVE  now \in Nat /\ setback <= Start
<1>1. /\ Start \in Nat /\ MaxJumps \in Nat /\ MaxReal \in Nat
      /\ real \in Nat /\ jumps \in Nat /\ jumps <= MaxJumps /\ forward \in Nat /\ setback \in Nat
      /\ now = Start + real + forward - setback
      /\ MaxJumps * setback <= jumps * Start
  BY TimersAssumption DEF ClockInv
<1>2. setback <= Start
  <2>1. CASE jumps = 0
    BY <1>1, <2>1 DEF ClockInv
  <2>2. CASE jumps # 0
    <3>1. SUFFICES ASSUME setback > Start PROVE FALSE
      BY <1>1
    <3>2. PICK x \in Nat : setback = Start + 1 + x
      <4>1. setback - Start - 1 \in Nat /\ setback = Start + 1 + (setback - Start - 1)
        BY <1>1, <3>1
      <4> QED BY <4>1
    <3>3. PICK y \in Nat : MaxJumps = jumps + y
      <4>1. MaxJumps - jumps \in Nat /\ MaxJumps = jumps + (MaxJumps - jumps)
        BY <1>1
      <4> QED BY <4>1
    <3>4. /\ MaxJumps * setback = MaxJumps * Start + MaxJumps + MaxJumps * x
          /\ MaxJumps * Start = jumps * Start + y * Start
          /\ MaxJumps * x \in Nat /\ y * Start \in Nat /\ jumps * Start \in Nat
      BY <1>1, <3>2, <3>3
    <3> QED BY <1>1, <2>2, <3>3, <3>4
  <2> QED BY <2>1, <2>2
<1> QED BY <1>1, <1>2

LEMMA ClockStep == ClockInv /\ [Next]_vars => ClockInv'
<1> SUFFICES ASSUME ClockInv, [Next]_vars PROVE ClockInv'
  OBVIOUS
<1>a. /\ Start \in Nat /\ MaxJumps \in Nat /\ MaxReal \in Nat /\ Nap \in Nat
      /\ real \in Nat /\ real <= MaxReal /\ jumps \in Nat /\ jumps <= MaxJumps
      /\ forward \in Nat /\ setback \in Nat /\ now = Start + real + forward - setback
  BY TimersAssumption DEF ClockInv
<1>b. ASSUME UNCHANGED clockVars, spent' \in Nat, spentBefore' \in Nat PROVE ClockInv'
  BY <1>b DEF ClockInv, clockVars
<1>d. spent \in Nat /\ spentBefore \in Nat
  BY DEF ClockInv
<1>c. ASSUME NEW d \in Nat, Pass(d), real + d <= MaxReal, spent' \in Nat, spentBefore' \in Nat PROVE ClockInv'
  BY <1>a, <1>c DEF ClockInv, Pass
<1>1. CASE BeforeSleep
  BY <1>a, <1>c, <1>d, <1>1 DEF BeforeSleep, spentVars
<1>2. CASE aeApiPoll
  <2>1. PICK d \in 0 .. MaxReal - real : Pass(d)
    BY <1>2 DEF aeApiPoll
  <2>2. d \in Nat /\ real + d <= MaxReal
    BY <1>a, <2>1
  <2>3. spent' \in Nat /\ spentBefore' \in Nat
    BY <1>2, <1>d DEF aeApiPoll, spentVars
  <2> QED BY <1>c, <2>1, <2>2, <2>3
<1>6. CASE Spend
  <2>1. Pass(1) /\ real + 1 <= MaxReal /\ spent' \in Nat /\ spentBefore' \in Nat
    BY <1>6, <1>a, <1>d DEF Spend
  <2> QED BY <1>c, <2>1
<1>3. ASSUME NEW d \in Jumps, SetClock(d) PROVE ClockInv'
  <2>1. d \in Int /\ Start + MaxJumps * d >= Tps /\ Tps \in Nat
    BY TimersAssumption, TpsAssumption
  <2>2. PICK b \in Nat, c \in Nat : /\ b = Max({0, -d}) /\ b \in {0, -d} /\ b >= -d
                                    /\ c = Max({0, d}) /\ c \in {0, d} /\ c >= d
    <3>1. -d \in Int
      BY <2>1
    <3> QED BY <2>1, <3>1, MaxWithZero
  <2>3. /\ jumps < MaxJumps /\ jumps' = jumps + 1 /\ now' = now + d
        /\ forward' = forward + c /\ setback' = setback + b /\ real' = real
        /\ spent' \in Nat /\ spentBefore' \in Nat
    BY <1>3, <1>d, <2>2 DEF SetClock, spentVars
  <2>4. c - b = d
    BY <2>1, <2>2
  <2>5. MaxJumps * b <= Start
    <3>1. CASE b = 0
      BY <1>a, <3>1
    <3>2. CASE b = -d
      <4>1. MaxJumps * b = -(MaxJumps * d) /\ MaxJumps * d \in Int
        BY <1>a, <2>1, <3>2
      <4> QED BY <1>a, <2>1, <4>1
    <3> QED BY <2>2, <3>1, <3>2
  <2>6. /\ MaxJumps * (setback + b) = MaxJumps * setback + MaxJumps * b
        /\ (jumps + 1) * Start = jumps * Start + Start
        /\ MaxJumps * setback \in Nat /\ MaxJumps * b \in Nat /\ jumps * Start \in Nat
    BY <1>a
  <2>7. MaxJumps * setback' <= jumps' * Start
    BY <1>a, <2>3, <2>5, <2>6 DEF ClockInv
  <2>8. now' = Start + real' + forward' - setback'
    BY <1>a, <2>1, <2>3, <2>4
  <2>9. jumps' \in 0 .. MaxJumps /\ jumps' # 0 /\ forward' \in Nat /\ setback' \in Nat /\ real' \in 0 .. MaxReal
    BY <1>a, <2>3
  <2> QED BY <2>3, <2>7, <2>8, <2>9 DEF ClockInv
<1>4. CASE \/ \E d \in Intervals : Create(d)
           \/ \E id \in 0 .. MaxTimers - 1 : Delete(id)
           \/ StartRound \/ FreeTimer \/ SkipTimer \/ CallTimer \/ EndRound
           \/ \E r \in Intervals \cup {AE_NOMORE} : Return(r)
  <2>1. UNCHANGED clockVars
    BY <1>4 DEF Create, Delete, StartRound, FreeTimer, SkipTimer, CallTimer, EndRound, Return
  <2>2. spent' \in Nat /\ spentBefore' \in Nat
    BY <1>4, <1>d DEF Create, Delete, StartRound, FreeTimer, SkipTimer, CallTimer, EndRound, Return, spentVars
  <2> QED BY <1>b, <2>1, <2>2
<1>5. CASE UNCHANGED vars
  BY <1>5, <1>b, <1>d DEF vars, spentVars
<1> QED BY <1>1, <1>2, <1>3, <1>4, <1>5, <1>6 DEF Next, Horizon

-----------------------------------------------------------------------------
(***************************************************************************)
(* The walk                                                                *)
(***************************************************************************)

\* The timers s run in a round, when `next' is the next id, m the local maxId and the walk
\* stands on t, which is among them if its callback is running.
RanOK(s, next, m, t, running) ==
    /\ s \in Seq(0 .. next - 1)
    /\ \A i, k \in 1 .. Len(s) : i < k => s[i] > s[k]
    /\ \A i \in 1 .. Len(s) : s[i] <= m /\ s[i] >= t /\ (running \/ s[i] > t)

LEMMA RanNothing ==
    ASSUME NEW next \in Nat, NEW m, NEW t, NEW b
    PROVE  RanOK(<<>>, next, m, t, b)
BY DEF RanOK

\* One more timer runs.
LEMMA RanOneMore ==
    ASSUME NEW s, NEW next \in Nat, NEW m \in Int, NEW t \in 0 .. next - 1, t <= m,
           RanOK(s, next, m, t, FALSE)
    PROVE  RanOK(Append(s, t), next, m, t, TRUE)
<1>1. PICK n \in Nat : n = Len(s) /\ s \in Seq(0 .. next - 1)
  BY DEF RanOK
<1>2. /\ Append(s, t) \in Seq(0 .. next - 1) /\ Len(Append(s, t)) = n + 1
      /\ Append(s, t)[n + 1] = t /\ \A i \in 1 .. n : Append(s, t)[i] = s[i]
  BY <1>1
<1>3. \A i \in 1 .. n : s[i] \in Nat /\ s[i] <= m /\ s[i] > t
  BY <1>1 DEF RanOK
<1>4. \A i \in 1 .. n + 1 : i = n + 1 \/ i \in 1 .. n
  OBVIOUS
<1>5. PICK a : a = Append(s, t)
  OBVIOUS
<1>6. \A i \in 1 .. n + 1 : a[i] <= m /\ a[i] >= t
  BY <1>2, <1>3, <1>4, <1>5
<1>7. ASSUME NEW i \in 1 .. n + 1, NEW k \in 1 .. n + 1, i < k PROVE a[i] > a[k]
  <2>1. i \in 1 .. n /\ a[i] = s[i]
    BY <1>2, <1>5, <1>7
  <2>2. CASE k = n + 1
    BY <1>2, <1>3, <1>5, <2>1, <2>2
  <2>3. CASE k \in 1 .. n
    BY <1>1, <1>2, <1>5, <1>7, <2>1, <2>3 DEF RanOK
  <2> QED BY <1>4, <2>2, <2>3
<1> QED BY <1>2, <1>5, <1>6, <1>7 DEF RanOK

\* The walk goes on to an older timer.
LEMMA RanMovesOn ==
    ASSUME NEW s, NEW next \in Nat, NEW m \in Int, NEW t \in Nat, NEW b, RanOK(s, next, m, t, b),
           NEW x \in Nat \cup {Null}, x < t
    PROVE  RanOK(s, next, m, x, FALSE)
<1>1. s \in Seq(0 .. next - 1) /\ Len(s) \in Nat
  BY DEF RanOK
<1>2. \A i \in 1 .. Len(s) : s[i] \in Nat
  BY <1>1
<1>3. x \in Int
  BY DEF Null, Forever
<1> QED BY <1>1, <1>2, <1>3 DEF RanOK

\* A timer is created meanwhile.
LEMMA RanMoreIds ==
    ASSUME NEW s, NEW next \in Nat, NEW m, NEW t, NEW b, RanOK(s, next, m, t, b)
    PROVE  RanOK(s, next + 1, m, t, b)
<1>1. 0 .. next - 1 \subseteq 0 .. (next + 1) - 1
  OBVIOUS
<1>2. s \in Seq(0 .. (next + 1) - 1)
  <2>1. s \in [1 .. Len(s) -> 0 .. next - 1] /\ Len(s) \in Nat
    BY DEF RanOK
  <2>2. s \in [1 .. Len(s) -> 0 .. (next + 1) - 1]
    BY <1>1, <2>1
  <2> QED BY <2>1, <2>2
<1> QED BY <1>2 DEF RanOK

ListInv == ListOK(tl, gone, freed) /\ tl.nextId <= MaxTimers

\* The walk stands on a listed timer that existed when the round began, prev is the timer
\* before it, and the timers run so far are all newer: a callback that creates timers puts
\* them behind the walk.
WalkInv ==
    /\ pc \in {"sleep", "poll", "dispatch", "walk", "callback"}
    /\ te \in Nat \cup {Null} /\ prev \in Nat \cup {Null} /\ maxId \in Nat \cup {-1}
    /\ te # Null => te <= maxId /\ Has(tl, te)
    /\ prev # Null => Has(tl, prev)
    /\ pc = "walk" => PrevIs(tl, prev, te)
    /\ pc \in {"sleep", "poll", "dispatch"} => te = Null /\ prev = Null /\ ran = <<>>
    /\ pc = "callback" => te # Null
    /\ RanOK(ran, tl.nextId, maxId, te, pc = "callback")

\* The timer that the walk stands on.
LEMMA EventIs ==
    ASSUME ListInv, WalkInv, te # Null
    PROVE  /\ te \in Nat /\ te \in 0 .. tl.nextId - 1 /\ Has(tl, te)
           /\ Event.te = te
           /\ Event.id = IF te \in gone THEN AE_DELETED_EVENT_ID ELSE te
           /\ Event.when \in When /\ Ticks(Event.when) \in Nat
           /\ \E k \in 1 .. Len(tl.list) : Event = tl.list[k]
<1>1. te \in Nat /\ Has(tl, te) /\ ListOK(tl, gone, freed)
  BY DEF WalkInv, ListInv
<1>2. PICK k \in 1 .. Len(tl.list) : k = IndexOf(tl, te) /\ tl.list[k].te = te
  BY <1>1, PlaceOf
<1>3. Event = tl.list[k]
  BY <1>2 DEF Event
<1>4. Linked(tl.list[k], tl.nextId, gone, freed)
  BY <1>1 DEF ListOK
<1>5. tl.list[k].when \in When /\ Ticks(tl.list[k].when) \in Nat
  BY <1>1, ListType
<1> QED BY <1>1, <1>2, <1>3, <1>4, <1>5 DEF Linked

LEMMA TimersInit == Init => ClockInv /\ ListInv /\ WalkInv
<1> SUFFICES ASSUME Init PROVE ClockInv /\ ListInv /\ WalkInv
  OBVIOUS
<1>1. /\ tl = NewTimerLoop(Start) /\ now = Start /\ real = 0 /\ pc = "sleep" /\ te = Null /\ prev = Null /\ maxId = -1
      /\ spent = 0 /\ spentBefore = 0 /\ gone = {} /\ freed = {} /\ ran = <<>> /\ jumps = 0 /\ forward = 0 /\ setback = 0
  BY DEF Init
<1>2. /\ Start \in Nat /\ Start \div Tps \in Nat /\ MaxTimers \in Nat /\ MaxReal \in Nat /\ MaxJumps \in Nat
  BY TimersAssumption, Division
<1>3. tl \in TimerLoop /\ tl.list = <<>> /\ tl.nextId = 0
  BY <1>1, <1>2 DEF NewTimerLoop, TimerLoop
<1>4. ListOK(tl, gone, freed)
  BY <1>1, <1>3 DEF ListOK, Descending
<1>5. ClockInv
  BY <1>1, <1>2 DEF ClockInv
<1>6. WalkInv
  BY <1>1, <1>3, RanNothing DEF WalkInv
<1> QED BY <1>2, <1>3, <1>4, <1>5, <1>6 DEF ListInv

\* Every step keeps the list in order and the walk on a listed timer.
LEMMA TimersStep == ClockInv /\ ListInv /\ WalkInv /\ [Next]_vars => ListInv' /\ WalkInv'
<1> SUFFICES ASSUME ClockInv, ListInv, WalkInv, [Next]_vars PROVE ListInv' /\ WalkInv'
  OBVIOUS
<1>a. /\ ListOK(tl, gone, freed) /\ tl.nextId <= MaxTimers /\ tl.nextId \in Nat /\ now \in Nat
      /\ MaxTimers \in Nat /\ Intervals \subseteq Nat
  <2>1. ListOK(tl, gone, freed) /\ tl.nextId <= MaxTimers
    BY DEF ListInv
  <2> QED BY <2>1, ListType, ClockType, TimersAssumption
<1>b. /\ te \in Nat \cup {Null} /\ maxId \in Nat \cup {-1} /\ te \in Int /\ maxId \in Int
      /\ prev \in Nat \cup {Null} /\ (prev # Null => Has(tl, prev))
      /\ te # Null => te \in Nat /\ te <= maxId /\ Has(tl, te)
      /\ RanOK(ran, tl.nextId, maxId, te, pc = "callback")
  BY DEF WalkInv, Null, Forever
<1>1. ASSUME NEW d \in Intervals, Create(d) PROVE ListInv' /\ WalkInv'
  <2>1. /\ tl.nextId < MaxTimers /\ tl' = aeCreateTimeEvent(tl, now, d)
        /\ UNCHANGED <<pc, te, prev, maxId, gone, freed, ran>> /\ pc \in {"sleep", "dispatch", "callback"}
    BY <1>1 DEF Create, ClientRuns, walkVars
  <2>2. d \in Nat
    BY <1>a
  <2>3. /\ ListOK(tl', gone, freed) /\ Has2(tl, tl') /\ tl'.nextId = tl.nextId + 1
    BY <1>a, <2>1, <2>2, ListCreate
  <2>4. RanOK(ran, tl'.nextId, maxId, te, pc = "callback")
    BY <1>a, <1>b, <2>3, RanMoreIds
  <2>5. ListInv'
    BY <1>a, <2>1, <2>3 DEF ListInv
  <2>6. (te # Null => Has(tl', te)) /\ (prev # Null => Has(tl', prev))
    BY <1>b, <2>3 DEF Has2
  <2> QED BY <2>1, <2>4, <2>5, <2>6 DEF WalkInv
<1>2. ASSUME NEW id \in 0 .. MaxTimers - 1, Delete(id) PROVE ListInv' /\ WalkInv'
  <2>1. /\ HasTimer(tl, id) /\ tl' = aeDeleteTimeEvent(tl, id) /\ gone' = gone \cup {id}
        /\ UNCHANGED <<pc, te, prev, maxId, freed, ran>> /\ pc # "walk"
    BY <1>2 DEF Delete, ClientRuns, walkVars
  <2>2. id \in Nat
    BY <1>a
  <2>3. /\ ListOK(tl', gone \cup {id}, freed) /\ Has2(tl, tl') /\ tl'.nextId = tl.nextId
    BY <1>a, <2>1, <2>2, ListDelete
  <2>4. (te # Null => Has(tl', te)) /\ (prev # Null => Has(tl', prev))
    BY <1>b, <2>3 DEF Has2
  <2>5. WalkInv'
    BY <2>1, <2>3, <2>4 DEF WalkInv
  <2> QED BY <1>a, <2>1, <2>3, <2>5 DEF ListInv
<1>3. CASE BeforeSleep \/ aeApiPoll \/ Spend
  <2>1. /\ UNCHANGED <<tl, te, prev, maxId, gone, freed, ran>>
        /\ \/ pc = "sleep" /\ pc' = "poll"
           \/ pc = "poll" /\ pc' = "dispatch"
           \/ pc' = pc /\ pc # "walk"
    BY <1>3 DEF BeforeSleep, aeApiPoll, Spend, histVars, walkVars
  <2>2. ListInv'
    BY <2>1 DEF ListInv
  <2>3. (pc = "callback") = (pc' = "callback")
    BY <2>1
  <2> QED BY <2>1, <2>2, <2>3 DEF WalkInv
<1>4. CASE StartRound
  <2>1. /\ pc = "dispatch" /\ tl' = CheckSkew(tl, now) /\ prev' = Null /\ te' = IF tl.list = <<>> THEN Null ELSE Head(tl.list).te
        /\ maxId' = tl.nextId - 1 /\ ran' = <<>> /\ pc' = "walk" /\ UNCHANGED <<gone, freed>>
    BY <1>4 DEF StartRound
  <2>2. ListOK(tl', gone, freed) /\ Has2(tl, tl') /\ tl'.nextId = tl.nextId
    BY <1>a, <2>1, ListSkew
  <2>3. ListInv'
    BY <1>a, <2>1, <2>2 DEF ListInv
  <2>4. maxId' \in Nat \cup {-1}
    BY <1>a, <2>1
  <2>5. te' \in Nat \cup {Null} /\ (te' # Null => te' <= maxId' /\ Has(tl', te'))
    <3>1. CASE tl.list = <<>>
      BY <2>1, <3>1
    <3>2. CASE tl.list # <<>>
      <4>1. tl.list \in Seq(TimeEvent)
        BY <1>a, ListType, LoopType
      <4>2. 1 \in 1 .. Len(tl.list) /\ te' = tl.list[1].te
        BY <2>1, <3>2, <4>1
      <4>3. te' \in 0 .. tl.nextId - 1 /\ Has(tl, te')
        <5>1. Linked(tl.list[1], tl.nextId, gone, freed)
          BY <1>a, <4>2 DEF ListOK
        <5> QED BY <4>2, <5>1 DEF Linked, Has
      <4>4. Has(tl', te')
        BY <2>2, <4>3 DEF Has2
      <4> QED BY <1>a, <2>1, <4>3, <4>4
    <3> QED BY <3>1, <3>2
  <2>6. RanOK(ran', tl'.nextId, maxId', te', pc' = "callback")
    BY <1>a, <2>1, <2>2, RanNothing
  <2>7. PrevIs(tl', prev', te')
    <3>1. ASSUME NEW i \in 1 .. Len(tl'.list) PROVE tl'.list[i].te <= te'
      <4>1. /\ tl'.list \in Seq(TimeEvent) /\ Len(tl'.list) \in Nat
            /\ \A j \in 1 .. Len(tl'.list) : tl'.list[j].te \in Nat
        BY <2>2, ListType, LoopType
      <4>2. Earlier(tl, tl')
        BY <1>a, <2>1, ListSkew
      <4>3. PICK k \in 1 .. Len(tl.list) : tl.list[k].te = tl'.list[i].te
        BY <4>2 DEF Earlier
      <4>4. /\ tl.list \in Seq(TimeEvent) /\ Len(tl.list) \in Nat
            /\ \A j \in 1 .. Len(tl.list) : tl.list[j].te \in Nat
        BY <1>a, ListType, LoopType
      <4>5. 1 \in 1 .. Len(tl.list) /\ te' = tl.list[1].te /\ (k = 1 \/ 1 < k)
        BY <2>1, <4>3, <4>4
      <4> QED BY <1>a, <4>3, <4>4, <4>5 DEF ListOK, Descending
    <3> QED BY <2>1, <3>1 DEF PrevIs
  <2> QED BY <2>1, <2>3, <2>4, <2>5, <2>6, <2>7 DEF WalkInv
<1>5. CASE FreeTimer
  <2>1. /\ pc = "walk" /\ te # Null /\ Event.id = AE_DELETED_EVENT_ID /\ tl' = Unlink(tl, prev, te)
        /\ freed' = freed \cup {te} /\ te' = NextOf(tl, te) /\ UNCHANGED <<pc, prev, maxId, gone, ran>>
    BY <1>5 DEF FreeTimer, Visiting, Deleted
  <2>2. te \in Nat /\ te \in gone /\ Has(tl, te) /\ PrevIs(tl, prev, te)
    BY <2>1, EventIs DEF AE_DELETED_EVENT_ID, WalkInv
  <2>3. /\ ListOK(tl', gone, freed \cup {te}) /\ tl'.nextId = tl.nextId /\ Keeps(tl, tl')
        /\ \A x : Has(tl, x) /\ x # te => Has(tl', x)
    BY <1>a, <2>1, <2>2, ListUnlink
  <2>4. NextIs(tl, te, te')
    BY <1>a, <2>1, <2>2, NextOfEffect
  <2>5. te' \in Nat \cup {Null} /\ te' < te /\ (te' # Null => Has(tl', te'))
    BY <2>2, <2>3, <2>4 DEF NextIs, Null
  <2>6. te' # Null => te' <= maxId
    BY <1>b, <2>1, <2>2, <2>5
  <2>7. RanOK(ran, tl.nextId, maxId, te', FALSE)
    BY <1>a, <1>b, <2>2, <2>5, RanMovesOn
  <2>8. ListInv'
    BY <1>a, <2>1, <2>3 DEF ListInv
  <2>9. RanOK(ran', tl'.nextId, maxId', te', pc' = "callback")
    BY <2>1, <2>3, <2>7
  <2>10. \A y : Has(tl', y) => Has(tl, y) /\ y # te
    <3>1. \A y : Has(tl', y) => Has(tl, y)
      BY <2>3 DEF Keeps, SameTimer, Has
    <3>2. ~Has(tl', te)
      BY <2>3 DEF ListOK, Linked, Has
    <3> QED BY <3>1, <3>2
  <2>11. PrevIs(tl', prev, te')
    BY <1>a, <2>2, <2>3, <2>4, <2>10, PrevStays
  <2>12. prev # Null => Has(tl', prev)
    BY <2>11 DEF PrevIs
  <2> QED BY <1>b, <2>1, <2>5, <2>6, <2>8, <2>9, <2>11, <2>12 DEF WalkInv
<1>6. CASE SkipTimer
  <2>1. /\ pc = "walk" /\ te # Null /\ te' = NextOf(tl, te) /\ UNCHANGED <<tl, pc, maxId, gone, freed, ran>>
        /\ ~(Event.id = AE_DELETED_EVENT_ID) /\ prev' = IF Event.id > maxId THEN prev ELSE te
    BY <1>6 DEF SkipTimer, Visiting, Deleted, PrevAfterSkip, TooNew, histVars
  <2>2. te \in Nat /\ Has(tl, te)
    BY <2>1, EventIs
  <2>p. prev' = te
    <3>1. Event.id = te
      BY <2>1, EventIs
    <3>2. te <= maxId
      BY <1>b, <2>1
    <3> QED BY <1>b, <2>1, <3>1, <3>2
  <2>3. NextIs(tl, te, te')
    BY <1>a, <2>1, <2>2, NextOfEffect
  <2>4. te' \in Nat \cup {Null} /\ te' < te /\ (te' # Null => Has(tl', te'))
    BY <2>1, <2>3 DEF NextIs, Null
  <2>5. te' # Null => te' <= maxId
    BY <1>b, <2>1, <2>2, <2>4
  <2>6. RanOK(ran, tl.nextId, maxId, te', FALSE)
    BY <1>a, <1>b, <2>2, <2>4, RanMovesOn
  <2>7. RanOK(ran', tl'.nextId, maxId', te', pc' = "callback")
    BY <2>1, <2>6
  <2>8. ListInv'
    BY <2>1 DEF ListInv
  <2>9. PrevIs(tl, te, te')
    BY <1>a, <2>2, <2>3, PrevMovesOn
  <2>10. PrevIs(tl', prev', te') /\ prev' \in Nat /\ Has(tl', prev')
    BY <2>1, <2>2, <2>p, <2>9
  <2> QED BY <1>b, <2>1, <2>4, <2>5, <2>7, <2>8, <2>10 DEF WalkInv
<1>7. CASE CallTimer
  <2>1. /\ pc = "walk" /\ te # Null /\ ran' = Append(ran, te) /\ pc' = "callback"
        /\ UNCHANGED <<tl, te, prev, maxId, gone, freed>>
    BY <1>7 DEF CallTimer, Visiting
  <2>2. te \in 0 .. tl.nextId - 1 /\ te <= maxId
    BY <1>b, <2>1, EventIs
  <2>3. RanOK(ran, tl.nextId, maxId, te, FALSE)
    BY <1>b, <2>1
  <2>4. RanOK(Append(ran, te), tl.nextId, maxId, te, TRUE)
    BY <1>a, <1>b, <2>2, <2>3, RanOneMore
  <2>5. RanOK(ran', tl'.nextId, maxId', te', pc' = "callback")
    BY <2>1, <2>4
  <2>6. ListInv'
    BY <2>1 DEF ListInv
  <2> QED BY <2>1, <2>5, <2>6 DEF WalkInv
<1>8. CASE EndRound
  <2>1. /\ pc = "walk" /\ te = Null /\ pc' = "sleep" /\ prev' = Null /\ ran' = <<>>
        /\ UNCHANGED <<tl, te, maxId, gone, freed>>
    BY <1>8 DEF EndRound
  <2>2. RanOK(ran', tl'.nextId, maxId', te', pc' = "callback")
    BY <1>a, <2>1, RanNothing
  <2>3. ListInv'
    BY <2>1 DEF ListInv
  <2> QED BY <2>1, <2>2, <2>3 DEF WalkInv
<1>9. ASSUME NEW r \in Intervals \cup {AE_NOMORE}, Return(r) PROVE ListInv' /\ WalkInv'
  <2>1. /\ pc = "callback" /\ tl' = Reschedule(tl, te, now, r) /\ te' = NextOf(tl, te) /\ pc' = "walk"
        /\ gone' = IF r = AE_NOMORE THEN gone \cup {te} ELSE gone
        /\ prev' = te /\ UNCHANGED <<maxId, freed, ran>>
    BY <1>9 DEF Return, AfterCallback
  <2>2. te # Null /\ te \in Nat /\ Has(tl, te)
    BY <1>b, <2>1 DEF WalkInv
  <2>3. /\ ListOK(tl', gone', freed) /\ Has2(tl, tl') /\ tl'.nextId = tl.nextId
        /\ \A y : Has(tl', y) => Has(tl, y)
    <3>1. CASE r = AE_NOMORE
      <4>1. ListOK(tl', gone', freed) /\ Has2(tl, tl') /\ tl'.nextId = tl.nextId /\ Keeps(tl, tl')
        BY <1>a, <2>1, <2>2, <3>1, ListNoMore
      <4> QED BY <4>1 DEF Keeps, SameTimer, Has
    <3>2. CASE r # AE_NOMORE
      <4>1. r \in Nat /\ gone' = gone
        BY <1>a, <2>1, <3>2
      <4>2. tl' = Reschedule(tl, te, now, r)
        BY <2>1
      <4>3. ListOK(tl', gone, freed) /\ Has2(tl, tl') /\ SamePlaces(tl, tl')
        BY <1>a, <2>2, <4>1, <4>2, ListReschedule
      <4> QED BY <4>1, <4>3 DEF SamePlaces, Has
    <3> QED BY <3>1, <3>2
  <2>4. NextIs(tl, te, te')
    BY <1>a, <2>1, <2>2, NextOfEffect
  <2>5. te' \in Nat \cup {Null} /\ te' < te /\ (te' # Null => Has(tl', te'))
    BY <2>3, <2>4 DEF NextIs, Null, Has2
  <2>6. te' # Null => te' <= maxId
    BY <1>b, <2>2, <2>5
  <2>7. RanOK(ran, tl.nextId, maxId, te', FALSE)
    BY <1>a, <1>b, <2>2, <2>5, RanMovesOn
  <2>8. ListInv'
    BY <1>a, <2>1, <2>3 DEF ListInv
  <2>9. RanOK(ran', tl'.nextId, maxId', te', pc' = "callback")
    BY <2>1, <2>3, <2>7
  <2>10. Has(tl', te)
    BY <2>2, <2>3 DEF Has2
  <2>11. PrevIs(tl', te, te')
    BY <1>a, <2>2, <2>3, <2>4, <2>10, PrevMovesOn
  <2> QED BY <1>b, <2>1, <2>2, <2>5, <2>6, <2>8, <2>9, <2>10, <2>11 DEF WalkInv
<1>10. ASSUME NEW d \in Jumps, SetClock(d) PROVE ListInv' /\ WalkInv'
  BY <1>10 DEF SetClock, walkVars, histVars, ListInv, WalkInv
<1>11. CASE UNCHANGED vars
  BY <1>11 DEF vars, walkVars, histVars, ListInv, WalkInv
<1> QED BY <1>1, <1>2, <1>3, <1>4, <1>5, <1>6, <1>7, <1>8, <1>9, <1>10, <1>11 DEF Next, Horizon

LEMMA TimersInductive == Spec => [](ClockInv /\ ListInv /\ WalkInv)
<1>1. ClockInv /\ ListInv /\ WalkInv /\ [Next]_vars => (ClockInv /\ ListInv /\ WalkInv)'
  BY ClockStep, TimersStep
<1> QED BY <1>1, TimersInit, PTL DEF Spec

\* The types of the loop's timers and of the locals of processTimeEvents.
THEOREM TimersTypeCorrect == Spec => []TimersTypeOK
<1>1. ClockInv /\ ListInv /\ WalkInv => TimersTypeOK
  <2> SUFFICES ASSUME ClockInv, ListInv, WalkInv PROVE TimersTypeOK
    OBVIOUS
  <2>1. tl \in TimerLoop /\ gone \subseteq Ids /\ freed \subseteq Ids
    BY DEF ListInv, ListOK, Ids
  <2>2. now \in Nat
    BY ClockType
  <2>3. ran \in Seq(Ids)
    BY DEF WalkInv, RanOK, Ids
  <2> QED BY <2>1, <2>2, <2>3 DEF TimersTypeOK, ClockInv, WalkInv
<1> QED BY <1>1, TimersInductive, PTL

\* A round runs no timer twice and none that one of its callbacks created: the walk goes
\* from newer to older timers (ae.c:201-202, 290-298, 314-315).
THEOREM RoundsRunOnce == Spec => []OncePerRound
<1>1. ClockInv /\ ListInv /\ WalkInv => OncePerRound
  <2> SUFFICES ASSUME ListInv, WalkInv PROVE OncePerRound
    OBVIOUS
  <2>1. tl.nextId \in Nat
    BY ListType DEF ListInv
  <2>2. /\ ran \in Seq(0 .. tl.nextId - 1)
        /\ \A i, k \in 1 .. Len(ran) : i < k => ran[i] > ran[k]
        /\ \A i \in 1 .. Len(ran) : ran[i] <= maxId
    BY DEF WalkInv, RanOK
  <2>3. DOMAIN ran = 1 .. Len(ran) /\ Len(ran) \in Nat /\ \A i \in 1 .. Len(ran) : ran[i] \in Nat
    BY <2>1, <2>2
  <2>4. ASSUME NEW i \in 1 .. Len(ran), NEW k \in 1 .. Len(ran), ran[i] = ran[k] PROVE i = k
    <3>1. ~(i < k) /\ ~(k < i)
      BY <2>2, <2>3, <2>4
    <3> QED BY <2>3, <3>1
  <2> QED BY <2>2, <2>3, <2>4 DEF OncePerRound
<1> QED BY <1>1, TimersInductive, PTL

\* No timer is lost, freed twice or freed before it was deleted, and neither the timer that
\* the walk stands on nor the one it unlinks through is freed: prev is always the timer
\* just before te (ae.c:201-202, 269, 277-288, 295-298, 314-315).
THEOREM TimersAreNotLost == Spec => []NoTimerLost
<1>1. ClockInv /\ ListInv /\ WalkInv => NoTimerLost
  <2> SUFFICES ASSUME ListInv, WalkInv PROVE NoTimerLost
    OBVIOUS
  <2>1. /\ ListOK(tl, gone, freed) /\ Len(tl.list) \in Nat /\ DOMAIN tl.list = 1 .. Len(tl.list)
        /\ \A i \in 1 .. Len(tl.list) : tl.list[i].te \in Nat
    BY ListType DEF ListInv
  <2>2. \A t : t \in Listed <=> Has(tl, t)
    BY <2>1 DEF Listed, Has
  <2>3. \A t : Has(tl, t) => t \in Ids /\ t \notin freed
    BY <2>1 DEF Has, ListOK, Linked, Ids
  <2>4. freed \subseteq Ids /\ freed \subseteq gone /\ \A t \in Ids : t \in freed \/ Has(tl, t)
    BY <2>1 DEF ListOK, Ids
  <2>5. Cardinality(Listed) = Len(tl.list)
    <3> DEFINE S == 1 .. Len(tl.list)
               f == [i \in S |-> tl.list[i].te]
    <3>1. \A i, k \in S : f[i] = f[k] => i = k
      <4> SUFFICES ASSUME NEW i \in S, NEW k \in S, tl.list[i].te = tl.list[k].te PROVE i = k
        OBVIOUS
      <4>1. ~(i < k) /\ ~(k < i)
        BY <2>1 DEF ListOK, Descending
      <4> QED BY <2>1, <4>1
    <3>2. f \in [S -> Listed] /\ \A t \in Listed : \E i \in S : f[i] = t
      BY <2>1 DEF Listed
    <3>3. f \in Bijection(S, Listed)
      BY <3>1, <3>2 DEF Bijection, Injection, Surjection, IsInjective
    <3>4. IsFiniteSet(S) /\ Cardinality(S) = Len(tl.list)
      BY <2>1, FS_Interval
    <3> HIDE DEF S, f
    <3>5. ExistsBijection(S, Listed)
      BY <3>3 DEF ExistsBijection
    <3> QED BY <3>4, <3>5, FS_Bijection
  <2>6. te # Null => te \in Listed
    BY <2>2 DEF WalkInv
  <2>7. prev # Null => prev \in Listed
    BY <2>2 DEF WalkInv
  <2> QED BY <2>2, <2>3, <2>4, <2>5, <2>6, <2>7 DEF NoTimerLost
<1> QED BY <1>1, TimersInductive, PTL

\* Only CallTimer enters a callback.
LEMMA OnlyCallTimerCalls ==
    ASSUME [Next]_vars, pc = "walk", pc' = "callback"
    PROVE  CallTimer
BY DEF Next, Create, Delete, BeforeSleep, aeApiPoll, Spend, StartRound, FreeTimer, SkipTimer, EndRound, Return,
       SetClock, Horizon, vars, walkVars, ClientRuns

\* A timer that is gone does not run, even if the callback before it in the same round
\* deleted it (ae.c:211, 277, 311).
THEOREM GoneTimersDoNotRun == Spec => DeletedNeverRuns
<1>1. ClockInv /\ ListInv /\ WalkInv /\ [Next]_vars => [pc = "walk" /\ pc' = "callback" => te \notin gone]_vars
  <2> SUFFICES ASSUME ListInv, WalkInv, [Next]_vars, pc = "walk", pc' = "callback" PROVE te \notin gone
    OBVIOUS
  <2>1. te # Null /\ Event.id # AE_DELETED_EVENT_ID
    BY OnlyCallTimerCalls DEF CallTimer, Visiting, Deleted
  <2> QED BY <2>1, EventIs
<1> QED BY <1>1, TimersInductive, PTL DEF Spec, DeletedNeverRuns

\* A round ends, whatever its callbacks add to the list: the walk only goes to older timers,
\* of which there are finitely many (ae.c:270-298, 314-315).
THEOREM WalkEnds == Spec => WalkGoesDown
<1>1. ClockInv /\ ListInv /\ WalkInv /\ [Next]_vars
          => [te # Null /\ <<pc, te>>' # <<pc, te>>
                => \/ pc = "walk" /\ pc' = "callback" /\ te' = te
                   \/ pc' = "walk" /\ (te' = Null \/ te' < te)]_vars
  <2> SUFFICES ASSUME ListInv, WalkInv, [Next]_vars, te # Null, ~UNCHANGED <<pc, te>>
               PROVE  \/ pc = "walk" /\ pc' = "callback" /\ te' = te
                      \/ pc' = "walk" /\ (te' = Null \/ te' < te)
    OBVIOUS
  <2>1. pc \in {"walk", "callback"}
    BY DEF WalkInv
  <2>2. NextOf(tl, te) < te
    <3>1. ListOK(tl, gone, freed) /\ te \in Nat /\ Has(tl, te)
      BY EventIs DEF ListInv
    <3> QED BY <3>1, NextOfEffect DEF NextIs
  <2>3. CASE FreeTimer \/ SkipTimer
    BY <2>2, <2>3 DEF FreeTimer, SkipTimer, Visiting
  <2>4. CASE CallTimer
    BY <2>4 DEF CallTimer, Visiting
  <2>5. ASSUME NEW r, Return(r) PROVE pc' = "walk" /\ te' < te
    BY <2>2, <2>5 DEF Return, AfterCallback
  <2>6. ~(BeforeSleep \/ aeApiPoll \/ Spend \/ StartRound \/ EndRound \/ Horizon)
    BY <2>1 DEF BeforeSleep, aeApiPoll, Spend, StartRound, EndRound, Horizon, walkVars
  <2>7. \A d : ~Create(d) /\ ~SetClock(d) /\ ~Delete(d)
    BY DEF Create, SetClock, Delete, walkVars
  <2> QED BY <2>3, <2>4, <2>5, <2>6, <2>7 DEF Next, vars, walkVars
<1> QED BY <1>1, TimersInductive, PTL DEF Spec, WalkGoesDown

-----------------------------------------------------------------------------
(***************************************************************************)
(* Early and late                                                          *)
(***************************************************************************)

\* The beforesleep procedure was called since the last round.
Slack == IF pc \in {"poll", "dispatch"} THEN Nap ELSE 0

\* The timer x that is to run at time w of the wall clock: w differs from the time asked
\* for by how the clock was set.  Once the walk has passed the timer, only what handlers took
\* in this round can make it late, and then one call of the beforesleep procedure.
Punctual(x, w) ==
    /\ w <= due[x] + Start + forward
    /\ skewed \/ w >= due[x] + Start - setback
    /\ x \notin gone => real <= due[x] + Nap + setback + spentBefore + spent
    /\ x \notin gone /\ x > te => real <= due[x] + Slack + setback + spent

\* The list has the timer x, to run at w.
At(l, x, w) == \E i \in 1 .. Len(l.list) : l.list[i].te = x /\ Ticks(l.list[i].when) = w

AllPunctual == \A x, w : At(tl, x, w) => Punctual(x, w)

DelayInv == due \in [0 .. MaxTimers - 1 -> Nat] /\ AllPunctual

LEMMA NearestIsNearest ==
    ASSUME NEW l, NEW g, NEW f, ListOK(l, g, f), l.list # <<>>
    PROVE  /\ aeSearchNearestTimer(l) \in 1 .. Len(l.list)
           /\ \A k \in 1 .. Len(l.list) :
                 Ticks(l.list[aeSearchNearestTimer(l)].when) <= Ticks(l.list[k].when)
<1>1. /\ Len(l.list) \in Nat /\ DOMAIN l.list = 1 .. Len(l.list)
      /\ \A i \in 1 .. Len(l.list) : l.list[i].when \in When /\ Ticks(l.list[i].when) \in Nat
  BY ListType
<1>2. 1 \in 1 .. Len(l.list)
  <2>1. l.list \in Seq(TimeEvent)
    BY ListType, LoopType
  <2> QED BY <2>1
<1> DEFINE S == {Ticks(l.list[i].when) : i \in 1 .. Len(l.list)}
<1>3. S \subseteq Nat /\ S # {}
  BY <1>1, <1>2
<1>4. PICK m \in S : \A x \in S : m <= x
  <2> HIDE DEF S
  <2> QED BY <1>3, LeastNatural
<1>5. PICK i \in 1 .. Len(l.list) : m = Ticks(l.list[i].when)
  BY <1>4
<1>6. \A k \in 1 .. Len(l.list) : Ticks(l.list[i].when) <= Ticks(l.list[k].when)
  BY <1>4, <1>5
<1>7. \A j, k \in 1 .. Len(l.list) :
         Before(l.list[k].when, l.list[j].when) <=> Ticks(l.list[k].when) < Ticks(l.list[j].when)
  BY <1>1, BeforeIsLess
<1>8. \A k \in 1 .. Len(l.list) : ~Before(l.list[k].when, l.list[i].when)
  BY <1>1, <1>6, <1>7
<1>9. /\ aeSearchNearestTimer(l) \in 1 .. Len(l.list)
      /\ \A k \in 1 .. Len(l.list) : ~Before(l.list[k].when, l.list[aeSearchNearestTimer(l)].when)
  BY <1>1, <1>8 DEF aeSearchNearestTimer
<1>10. PICK c \in 1 .. Len(l.list) : c = aeSearchNearestTimer(l)
  BY <1>9
<1>11. \A k \in 1 .. Len(l.list) : Ticks(l.list[c].when) <= Ticks(l.list[k].when)
  BY <1>1, <1>7, <1>9, <1>10
<1> QED BY <1>10, <1>11

\* The poll ends when the first timer is due, or at once (ae.c:350-370).
LEMMA PollIsShort ==
    ASSUME NEW l, NEW g, NEW f, ListOK(l, g, f), NEW t \in Nat, NEW k \in 1 .. Len(l.list)
    PROVE  /\ PollTimeout(l, t) \in Nat
           /\ PollTimeout(l, t) = 0 \/ t + PollTimeout(l, t) <= Ticks(l.list[k].when)
<1>1. /\ Len(l.list) \in Nat /\ l.list # <<>>
      /\ \A i \in 1 .. Len(l.list) : l.list[i].when \in When /\ Ticks(l.list[i].when) \in Nat
  BY ListType
<1>2. PICK c \in 1 .. Len(l.list) : /\ c = aeSearchNearestTimer(l)
                                    /\ Ticks(l.list[c].when) <= Ticks(l.list[k].when)
  BY <1>1, NearestIsNearest
<1>3. PICK w \in When, v \in When : w = l.list[c].when /\ v = aeGetTime(t) /\ Ticks(v) = t
  BY <1>1, GetTimeTicks
<1>4. PollTimeout(l, t) = Max({0, (w.sec - v.sec) * Tps + w.ms - v.ms})
  BY <1>1, <1>2, <1>3 DEF PollTimeout
<1>5. PICK d \in Int : d = (w.sec - v.sec) * Tps + w.ms - v.ms /\ d = Ticks(w) - t
  <2>1. PICK a \in Int, b \in Int, c1 \in Int, c2 \in Int : a = w.sec /\ b = v.sec /\ c1 = w.ms /\ c2 = v.ms
    BY TpsAssumption DEF When
  <2>2. (a - b) * Tps = a * Tps - b * Tps /\ a * Tps \in Int /\ b * Tps \in Int
    BY TpsAssumption
  <2>3. Ticks(w) = a * Tps + c1 /\ t = b * Tps + c2
    BY <1>3, <2>1 DEF Ticks
  <2>4. (a - b) * Tps + c1 - c2 \in Int /\ (a - b) * Tps + c1 - c2 = Ticks(w) - t
    BY <2>2, <2>3
  <2> QED BY <2>1, <2>4
<1>6. PICK p \in Nat : p = PollTimeout(l, t) /\ p \in {0, d}
  BY <1>4, <1>5, MaxWithZero
<1>7. Ticks(w) \in Nat /\ Ticks(l.list[k].when) \in Nat /\ Ticks(w) <= Ticks(l.list[k].when)
  BY <1>1, <1>2, <1>3
<1>8. p = 0 \/ t + p <= Ticks(l.list[k].when)
  BY <1>5, <1>6, <1>7
<1> QED BY <1>6, <1>8


LEMMA AtType ==
    ASSUME ListInv, NEW x, NEW w, At(tl, x, w)
    PROVE  x \in 0 .. MaxTimers - 1 /\ x \in 0 .. tl.nextId - 1 /\ x \in Nat /\ w \in Nat /\ Has(tl, x)
<1>1. ListOK(tl, gone, freed) /\ tl.nextId <= MaxTimers
  BY DEF ListInv
<1>2. PICK k \in 1 .. Len(tl.list) : tl.list[k].te = x /\ Ticks(tl.list[k].when) = w
  BY DEF At
<1>3. x \in 0 .. tl.nextId - 1 /\ tl.nextId \in Nat /\ w \in Nat
  BY <1>1, <1>2, ListType DEF ListOK, Linked
<1> QED BY <1>1, <1>2, <1>3, TimersAssumption DEF Has

LEMMA AtKept ==
    ASSUME NEW l, NEW n, Keeps(l, n), NEW x, NEW w, At(n, x, w)
    PROVE  At(l, x, w)
BY DEF Keeps, At, SameTimer

LEMMA AtRetimed ==
    ASSUME NEW l, NEW n, NEW y, NEW v, Retimed(l, n, y, v), NEW x, NEW w, At(n, x, w)
    PROVE  (x = y /\ w = v) \/ (x # y /\ At(l, x, w))
<1>1. PICK i \in 1 .. Len(n.list) : n.list[i].te = x /\ Ticks(n.list[i].when) = w
  BY DEF At
<1>2. \/ n.list[i].te = y /\ Ticks(n.list[i].when) = v
      \/ n.list[i].te # y /\ \E k \in 1 .. Len(l.list) : SameTimer(n.list[i], l.list[k])
  BY Zenon DEF Retimed
<1> QED BY <1>1, <1>2 DEF SameTimer, At

LEMMA AtEarlier ==
    ASSUME NEW l, NEW n, Earlier(l, n), NEW x, NEW w, At(n, x, w)
    PROVE  \E u : At(l, x, u) /\ w <= u
<1>1. PICK i \in 1 .. Len(n.list) : n.list[i].te = x /\ Ticks(n.list[i].when) = w
  BY DEF At
<1>2. PICK k \in 1 .. Len(l.list) : n.list[i].te = l.list[k].te /\ Ticks(n.list[i].when) <= Ticks(l.list[k].when)
  BY DEF Earlier
<1>3. At(l, x, Ticks(l.list[k].when)) /\ w <= Ticks(l.list[k].when)
  BY <1>1, <1>2 DEF At
<1> QED BY <1>3

LEMMA DelayInit == Init => DelayInv
<1> SUFFICES ASSUME Init PROVE DelayInv
  OBVIOUS
<1>1. tl = NewTimerLoop(Start) /\ due = [k \in 0 .. MaxTimers - 1 |-> 0]
  BY DEF Init
<1>2. tl.list = <<>>
  BY <1>1 DEF NewTimerLoop
<1>3. AllPunctual
  BY <1>2 DEF AllPunctual, At
<1>4. due \in [0 .. MaxTimers - 1 -> Nat]
  BY <1>1
<1> QED BY <1>3, <1>4 DEF DelayInv

\* A bound may be made looser.
LEMMA MoreSlack ==
    ASSUME NEW r \in Nat, NEW a \in Nat, NEW b \in Nat, NEW c \in Nat, NEW e \in Nat, NEW f \in Nat,
           r <= a + b + c + f
    PROVE  r <= a + b + c + e + f
OBVIOUS

\* Every step keeps the timers punctual.
LEMMA DelayStep == ClockInv /\ ListInv /\ WalkInv /\ DelayInv /\ [Next]_vars => DelayInv'
<1> SUFFICES ASSUME ClockInv, ListInv, WalkInv, DelayInv, [Next]_vars PROVE DelayInv'
  OBVIOUS
<1>a. /\ ListOK(tl, gone, freed) /\ tl.nextId \in Nat /\ now \in Nat /\ Start \in Nat /\ Nap \in Nat
      /\ Intervals \subseteq Nat /\ MaxReal \in Nat
      /\ real \in Nat /\ forward \in Nat /\ setback \in Nat /\ now = Start + real + forward - setback
      /\ spent \in Nat /\ spentBefore \in Nat
  <2>1. ListOK(tl, gone, freed)
    BY DEF ListInv
  <2> QED BY <2>1, ListType, ClockType, TimersAssumption DEF ClockInv
<1>n. /\ now \in Nat /\ Start \in Nat /\ Nap \in Nat /\ real \in Nat /\ forward \in Nat /\ setback \in Nat
      /\ spent \in Nat /\ spentBefore \in Nat /\ now = Start + real + forward - setback
  BY <1>a
<1>b. te \in Nat \cup {Null} /\ te \in Int /\ (te # Null => te \in Nat /\ Has(tl, te))
      /\ pc \in {"sleep", "poll", "dispatch", "walk", "callback"}
      /\ (pc \in {"sleep", "poll", "dispatch"} => te = Null)
  BY DEF WalkInv, Null, Forever
<1>c. due \in [0 .. MaxTimers - 1 -> Nat] /\ AllPunctual
  BY DEF DelayInv
<1>d. ASSUME NEW x, NEW w, At(tl, x, w)
      PROVE  x \in 0 .. MaxTimers - 1 /\ x \in Nat /\ w \in Nat /\ due[x] \in Nat /\ Punctual(x, w)
  <2>1. x \in 0 .. MaxTimers - 1 /\ x \in Nat /\ w \in Nat
    BY <1>d, AtType
  <2> QED BY <1>c, <1>d, <2>1 DEF AllPunctual
<1>1. ASSUME NEW d \in Intervals, Create(d) PROVE DelayInv'
  <2>1. /\ tl.nextId < MaxTimers /\ tl' = aeCreateTimeEvent(tl, now, d)
        /\ due' = [due EXCEPT ![tl.nextId] = real + d]
        /\ UNCHANGED <<pc, te, now, real, forward, setback, gone, skewed, spent, spentBefore>>
    BY <1>1 DEF Create, walkVars, clockVars, spentVars
  <2>2. d \in Nat
    BY <1>a
  <2>3. Retimed(tl, tl', tl.nextId, now + d)
    BY <1>a, <2>1, <2>2, ListCreate
  <2>4. due' \in [0 .. MaxTimers - 1 -> Nat] /\ due'[tl.nextId] = real + d
        /\ \A x \in 0 .. MaxTimers - 1 : x # tl.nextId => due'[x] = due[x]
    BY <1>a, <1>c, <2>1, <2>2, TimersAssumption
  <2>5. ASSUME NEW x, NEW w, At(tl', x, w) PROVE Punctual(x, w)'
    <3>1. CASE x = tl.nextId /\ w = now + d
      BY <1>a, <2>1, <2>2, <2>4, <3>1 DEF Punctual, Slack
    <3>2. CASE x # tl.nextId /\ At(tl, x, w)
      BY <1>d, <2>1, <2>4, <3>2 DEF Punctual, Slack
    <3> QED BY <2>3, <2>5, <3>1, <3>2, AtRetimed
  <2> QED BY <2>4, <2>5 DEF DelayInv, AllPunctual
<1>2. ASSUME NEW id \in 0 .. MaxTimers - 1, Delete(id) PROVE DelayInv'
  <2>1. /\ HasTimer(tl, id) /\ tl' = aeDeleteTimeEvent(tl, id) /\ gone' = gone \cup {id}
        /\ UNCHANGED <<pc, te, now, real, forward, setback, due, skewed, spent, spentBefore>>
    BY <1>2 DEF Delete, walkVars, clockVars, spentVars
  <2>2. id \in Nat
    BY TimersAssumption
  <2>3. Keeps(tl, tl')
    BY <1>a, <2>1, <2>2, ListDelete
  <2>4. ASSUME NEW x, NEW w, At(tl', x, w) PROVE Punctual(x, w)'
    <3>1. At(tl, x, w)
      BY <2>3, <2>4, AtKept
    <3> QED BY <1>d, <2>1, <3>1 DEF Punctual, Slack
  <2> QED BY <1>c, <2>1, <2>4 DEF DelayInv, AllPunctual
<1>3. CASE BeforeSleep
  <2>1. /\ pc = "sleep" /\ pc' = "poll" /\ real' = real + Nap /\ now' = now + Nap
        /\ UNCHANGED <<tl, te, forward, setback, due, gone, skewed, spent, spentBefore>>
    BY <1>3 DEF BeforeSleep, Pass, histVars, spentVars
  <2>2. ASSUME NEW x, NEW w, At(tl', x, w) PROVE Punctual(x, w)'
    <3>1. At(tl, x, w)
      BY <2>1, <2>2
    <3>2. x > te
      BY <1>b, <1>d, <2>1, <3>1 DEF Null, Forever
    <3> QED BY <1>a, <1>d, <2>1, <3>1, <3>2 DEF Punctual, Slack
  <2> QED BY <1>c, <2>1, <2>2 DEF DelayInv, AllPunctual
<1>4. CASE aeApiPoll
  <2>1. PICK d \in 0 .. MaxReal - real : /\ PollTimeout(tl, now) # Forever => d <= PollTimeout(tl, now)
                                         /\ real' = real + d
    BY <1>4 DEF aeApiPoll, Pass
  <2>2. pc = "poll" /\ pc' = "dispatch" /\ d \in Nat
        /\ UNCHANGED <<tl, te, forward, setback, due, gone, skewed, spent, spentBefore>>
    BY <1>4, <1>a, <2>1 DEF aeApiPoll, Pass, histVars, spentVars
  <2>3. ASSUME NEW x, NEW w, At(tl', x, w) PROVE Punctual(x, w)'
    <3>1. At(tl, x, w)
      BY <2>2, <2>3
    <3>2. x \in Nat /\ w \in Nat /\ due[x] \in Nat /\ Punctual(x, w)
      BY <1>d, <3>1
    <3>3. PICK k \in 1 .. Len(tl.list) : tl.list[k].te = x /\ Ticks(tl.list[k].when) = w
      BY <3>1 DEF At
    <3>4. PICK p \in Nat : p = PollTimeout(tl, now) /\ (p = 0 \/ now + p <= Ticks(tl.list[k].when))
      BY <1>a, PollIsShort
    <3>5. d <= p
      BY <2>1, <3>4 DEF Forever
    <3>6. d = 0 \/ now + d <= w
      <4>1. now \in Nat /\ d \in Nat /\ w \in Nat
        BY <1>a, <2>2, <3>2
      <4> QED BY <3>3, <3>4, <3>5, <4>1
    <3>7. x > te
      BY <1>b, <2>2, <3>2 DEF Null, Forever
    <3>8. x \notin gone => real + d <= due[x] + Nap + setback + spent
      <4>1. PICK u \in Nat : u = due[x]
        BY <3>2
      <4>2. x \notin gone => real <= u + Nap + setback + spent
        BY <2>2, <3>2, <3>7, <4>1 DEF Punctual, Slack
      <4>3. w <= u + Start + forward
        BY <3>2, <4>1 DEF Punctual
      <4>4. w \in Nat /\ d \in Nat
        BY <2>2, <3>2
      <4>5. x \notin gone => real + d <= u + Nap + setback + spent
        <5>1. CASE d = 0
          BY <1>n, <4>2, <5>1
        <5>2. CASE now + d <= w
          <6>1. real + d <= u + setback
            BY <1>n, <4>1, <4>3, <4>4, <5>2
          <6> QED BY <1>n, <4>1, <4>4, <6>1
        <5> QED BY <3>6, <5>1, <5>2
      <4> QED BY <4>1, <4>5
    <3>9. x \notin gone => real' <= due[x] + Nap + setback + spentBefore + spent
      <4>1. PICK u \in Nat : u = due[x]
        BY <3>2
      <4>2. PICK r \in Nat : r = real + d
        BY <1>n, <2>2
      <4>3. x \notin gone => r <= u + Nap + setback + spent
        BY <3>8, <4>1, <4>2
      <4>4. x \notin gone => r <= u + Nap + setback + spentBefore + spent
        BY <1>n, <4>1, <4>3, MoreSlack
      <4> QED BY <2>1, <4>1, <4>2, <4>4
    <3> QED BY <2>1, <2>2, <3>2, <3>8, <3>9 DEF Punctual, Slack
  <2> QED BY <1>c, <2>2, <2>3 DEF DelayInv, AllPunctual
<1>12. CASE Spend
  <2>1. /\ pc' = pc /\ real' = real + 1 /\ spent' = spent + 1
        /\ UNCHANGED <<tl, te, forward, setback, due, gone, skewed, spentBefore>>
    BY <1>12 DEF Spend, Pass, walkVars, histVars
  <2>2. Slack' = Slack /\ Slack \in Nat
    BY <1>a, <2>1 DEF Slack
  <2>3. ASSUME NEW x, NEW w, At(tl', x, w) PROVE Punctual(x, w)'
    <3>1. At(tl, x, w)
      BY <2>1, <2>3
    <3> QED BY <1>a, <1>d, <2>1, <2>2, <3>1 DEF Punctual
  <2> QED BY <1>c, <2>1, <2>3 DEF DelayInv, AllPunctual
<1>5. CASE StartRound
  <2>1. /\ pc = "dispatch" /\ spentBefore' = spent /\ spent' = 0
        /\ tl' = CheckSkew(tl, now) /\ te' = IF tl.list = <<>> THEN Null ELSE Head(tl.list).te
        /\ skewed' = (skewed \/ SkewDetected(tl, now))
        /\ UNCHANGED <<real, forward, setback, due, gone>>
    BY <1>5 DEF StartRound, clockVars
  <2>2. Earlier(tl, tl') /\ (~SkewDetected(tl, now) => Keeps(tl, tl'))
    BY <1>a, <2>1, ListSkew
  <2>3. ASSUME NEW x, Has(tl, x), x \in Nat PROVE ~(x > te')
    <3>1. PICK k \in 1 .. Len(tl.list) : tl.list[k].te = x
      BY <2>3 DEF Has
    <3>2. /\ tl.list \in Seq(TimeEvent) /\ Len(tl.list) \in Nat
          /\ \A i \in 1 .. Len(tl.list) : tl.list[i].te \in Nat
      BY <1>a, ListType, LoopType
    <3>3. te' = tl.list[1].te /\ 1 \in 1 .. Len(tl.list)
      BY <2>1, <3>1, <3>2
    <3>4. k = 1 \/ 1 < k
      BY <3>1, <3>2
    <3>5. tl.list[1].te >= x
      BY <1>a, <3>1, <3>2, <3>3, <3>4 DEF ListOK, Descending
    <3> QED BY <2>3, <3>2, <3>3, <3>5
  <2>l. ASSUME NEW x \in Nat, NEW w, Punctual(x, w), due[x] \in Nat, x \notin gone
        PROVE  real <= due[x] + Nap + setback + spentBefore' + spent'
    <3>1. x > te
      BY <1>b, <2>1 DEF Null, Forever
    <3> QED BY <1>a, <2>1, <2>l, <3>1 DEF Punctual, Slack
  <2>4. ASSUME NEW x, NEW w, At(tl', x, w) PROVE Punctual(x, w)'
    <3>1. CASE SkewDetected(tl, now)
      <4>1. PICK u : At(tl, x, u) /\ w <= u
        BY <2>2, <2>4, AtEarlier
      <4>2. x \in Nat /\ u \in Nat /\ due[x] \in Nat /\ Punctual(x, u) /\ Has(tl, x)
        BY <1>d, <4>1, AtType
      <4>3. ~(x > te')
        BY <2>3, <4>2
      <4>4. w \in Nat
        <5>1. ListOK(tl', gone, freed)
          BY <1>a, <2>1, ListSkew
        <5> QED BY <2>4, <5>1, ListType DEF At
      <4>5. w <= due[x] + Start + forward
        BY <1>a, <4>1, <4>2, <4>4 DEF Punctual, Slack
      <4> QED BY <2>1, <2>l, <3>1, <4>2, <4>3, <4>5 DEF Punctual, Slack
    <3>2. CASE ~SkewDetected(tl, now)
      <4>1. At(tl, x, w)
        BY <2>2, <2>4, <3>2, AtKept
      <4>2. x \in Nat /\ due[x] \in Nat /\ Punctual(x, w) /\ Has(tl, x)
        BY <1>d, <4>1, AtType
      <4>3. ~(x > te')
        BY <2>3, <4>2
      <4> QED BY <2>1, <2>l, <3>2, <4>2, <4>3 DEF Punctual, Slack
    <3> QED BY <3>1, <3>2
  <2> QED BY <1>c, <2>1, <2>4 DEF DelayInv, AllPunctual
<1>e. ASSUME NEW x, NEW w, At(tl, x, w), te # Null, NextIs(tl, te, te'), x > te' PROVE x >= te
  <2>1. PICK k \in 1 .. Len(tl.list) : tl.list[k].te = x
    BY <1>e DEF At
  <2>2. te \in Nat /\ x \in Nat /\ te' \in Int
    BY <1>b, <1>d, <1>e DEF NextIs, Forever
  <2> QED BY <1>e, <2>1, <2>2 DEF NextIs
<1>6. CASE FreeTimer
  <2>1. /\ pc = "walk" /\ te # Null /\ Event.id = AE_DELETED_EVENT_ID /\ tl' = Unlink(tl, prev, te)
        /\ te' = NextOf(tl, te) /\ UNCHANGED <<pc, real, forward, setback, due, gone, skewed, spent, spentBefore>>
    BY <1>6 DEF FreeTimer, Visiting, Deleted, clockVars, spentVars
  <2>2. te \in Nat /\ te \in gone /\ Has(tl, te) /\ PrevIs(tl, prev, te)
    BY <2>1, EventIs DEF AE_DELETED_EVENT_ID, WalkInv
  <2>3. Keeps(tl, tl')
    BY <1>a, <2>1, <2>2, ListUnlink
  <2>4. NextIs(tl, te, te')
    BY <1>a, <2>1, <2>2, NextOfEffect
  <2>5. ASSUME NEW x, NEW w, At(tl', x, w) PROVE Punctual(x, w)'
    <3>1. At(tl, x, w)
      BY <2>3, <2>5, AtKept
    <3>2. x > te' => x = te \/ x > te
      BY <1>d, <1>e, <2>1, <2>2, <2>4, <3>1
    <3> QED BY <1>d, <2>1, <2>2, <3>1, <3>2 DEF Punctual, Slack
  <2> QED BY <1>c, <2>1, <2>5 DEF DelayInv, AllPunctual
<1>7. CASE SkipTimer
  <2>1. /\ pc = "walk" /\ te # Null /\ Event.id # AE_DELETED_EVENT_ID
        /\ ~(~(Event.id > maxId) /\ Due(Event, now))
        /\ te' = NextOf(tl, te) /\ UNCHANGED <<tl, pc, real, forward, setback, due, gone, skewed, spent, spentBefore>>
    BY <1>7 DEF SkipTimer, Visiting, Deleted, Runs, TooNew, clockVars, histVars, spentVars
  <2>2. te \in Nat /\ Has(tl, te) /\ Event.id = te /\ ~(te > maxId)
    <3>1. te \in Nat /\ Has(tl, te) /\ Event.id = te
      BY <2>1, EventIs
    <3>2. te <= maxId /\ maxId \in Int
      BY <2>1 DEF WalkInv
    <3> QED BY <3>1, <3>2
  <2>3. NextIs(tl, te, te')
    BY <1>a, <2>1, <2>2, NextOfEffect
  <2>4. now < Ticks(Event.when) /\ Ticks(Event.when) \in Nat
    <3>1. Before(aeGetTime(now), Event.when)
      BY <2>1, <2>2 DEF Due
    <3>2. aeGetTime(now) \in When /\ Ticks(aeGetTime(now)) = now
      BY <1>a, GetTimeTicks
    <3>3. Event.when \in When /\ Ticks(Event.when) \in Nat
      BY <2>1, EventIs
    <3> QED BY <3>1, <3>2, <3>3, BeforeIsLess
  <2>5. ASSUME NEW x, NEW w, At(tl', x, w) PROVE Punctual(x, w)'
    <3>1. At(tl, x, w)
      BY <2>1, <2>5
    <3>2. x \in Nat /\ w \in Nat /\ due[x] \in Nat /\ Punctual(x, w)
      BY <1>d, <3>1
    <3>3. x > te' => x = te \/ x > te
      BY <1>e, <2>1, <2>2, <2>3, <3>1, <3>2
    <3>4. CASE x = te
      <4>1. PICK k \in 1 .. Len(tl.list) : tl.list[k].te = te /\ Ticks(tl.list[k].when) = w
        BY <3>1, <3>4 DEF At
      <4>2. Event = tl.list[k]
        BY <1>a, <2>2, <4>1, PlaceOf DEF Event
      <4>3. now < w
        BY <2>4, <4>1, <4>2
      <4>4. PICK u \in Nat : u = due[x] /\ w <= u + Start + forward
        BY <3>2 DEF Punctual
      <4>5. real <= u + setback + spent
        <5>1. w \in Nat /\ u \in Nat
          BY <3>2, <4>4
        <5>2. real <= u + setback
          BY <1>n, <4>3, <4>4, <5>1
        <5> QED BY <1>n, <5>1, <5>2
      <4>6. Slack' = 0 /\ real <= u + 0 + setback + spent
        <5>1. Slack' = 0
          BY <2>1 DEF Slack
        <5> QED BY <1>n, <4>4, <4>5, <5>1
      <4> QED BY <2>1, <3>2, <4>4, <4>6 DEF Punctual
    <3>5. CASE x # te
      BY <2>1, <3>2, <3>3, <3>5 DEF Punctual, Slack
    <3> QED BY <3>4, <3>5
  <2> QED BY <1>c, <2>1, <2>5 DEF DelayInv, AllPunctual
<1>8. CASE CallTimer \/ EndRound
  <2>1. /\ pc = "walk" /\ pc' \in {"callback", "sleep"}
        /\ UNCHANGED <<tl, te, real, forward, setback, due, gone, skewed, spent, spentBefore>>
    BY <1>8 DEF CallTimer, EndRound, Visiting, clockVars, spentVars
  <2>2. ASSUME NEW x, NEW w, At(tl', x, w) PROVE Punctual(x, w)'
    <3>1. At(tl, x, w)
      BY <2>1, <2>2
    <3> QED BY <1>d, <2>1, <3>1 DEF Punctual, Slack
  <2> QED BY <1>c, <2>1, <2>2 DEF DelayInv, AllPunctual
<1>9. ASSUME NEW r \in Intervals \cup {AE_NOMORE}, Return(r) PROVE DelayInv'
  <2>1. /\ pc = "callback" /\ tl' = Reschedule(tl, te, now, r) /\ te' = NextOf(tl, te) /\ pc' = "walk"
        /\ gone' = IF r = AE_NOMORE THEN gone \cup {te} ELSE gone
        /\ due' = [due EXCEPT ![te] = IF r = AE_NOMORE THEN due[te] ELSE real + r]
        /\ UNCHANGED <<real, forward, setback, skewed, spent, spentBefore>>
    BY <1>9 DEF Return, AfterCallback, clockVars, spentVars
  <2>2. te # Null /\ te \in Nat /\ Has(tl, te) /\ te \in 0 .. MaxTimers - 1
    <3>1. te # Null
      BY <2>1 DEF WalkInv
    <3>2. te \in 0 .. tl.nextId - 1 /\ tl.nextId <= MaxTimers
      BY <3>1, EventIs DEF ListInv
    <3> QED BY <1>a, <1>b, <3>1, <3>2, TimersAssumption
  <2>3. NextIs(tl, te, te')
    BY <1>a, <2>1, <2>2, NextOfEffect
  <2>4. CASE r = AE_NOMORE
    <3>1. due' = due /\ gone' = gone \cup {te}
      BY <1>c, <2>1, <2>2, <2>4
    <3>2. Keeps(tl, tl')
      BY <1>a, <2>1, <2>2, <2>4, ListNoMore
    <3>3. ASSUME NEW x, NEW w, At(tl', x, w) PROVE Punctual(x, w)'
      <4>1. At(tl, x, w)
        BY <3>2, <3>3, AtKept
      <4>2. x \in Nat /\ Punctual(x, w)
        BY <1>d, <4>1
      <4>3. x > te' => x = te \/ x > te
        BY <1>e, <2>2, <2>3, <4>1, <4>2
      <4> QED BY <2>1, <3>1, <4>2, <4>3 DEF Punctual, Slack
    <3> QED BY <1>c, <3>1, <3>3 DEF DelayInv, AllPunctual
  <2>5. CASE r # AE_NOMORE
    <3>1. r \in Nat /\ gone' = gone /\ due' = [due EXCEPT ![te] = real + r]
      BY <1>a, <2>1, <2>5
    <3>2. due' \in [0 .. MaxTimers - 1 -> Nat] /\ due'[te] = real + r
          /\ \A x \in 0 .. MaxTimers - 1 : x # te => due'[x] = due[x]
      BY <1>a, <1>c, <2>2, <3>1
    <3>3. Retimed(tl, tl', te, now + r)
      BY <1>a, <2>1, <2>2, <3>1, ListReschedule
    <3>4. ASSUME NEW x, NEW w, At(tl', x, w) PROVE Punctual(x, w)'
      <4>1. CASE x = te /\ w = now + r
        BY <1>a, <2>1, <3>1, <3>2, <4>1 DEF Punctual, Slack
      <4>2. CASE x # te /\ At(tl, x, w)
        <5>1. x \in Nat /\ Punctual(x, w) /\ due'[x] = due[x]
          BY <1>d, <3>2, <4>2
        <5>2. x > te' => x > te
          BY <1>e, <2>2, <2>3, <4>2, <5>1
        <5> QED BY <2>1, <3>1, <5>1, <5>2 DEF Punctual, Slack
      <4> QED BY <3>3, <3>4, <4>1, <4>2, AtRetimed
    <3> QED BY <3>2, <3>4 DEF DelayInv, AllPunctual
  <2> QED BY <2>4, <2>5
<1>10. ASSUME NEW d \in Jumps, SetClock(d) PROVE DelayInv'
  <2>1. d \in Int /\ -d \in Int
    BY TimersAssumption
  <2>2. PICK b \in Nat, c \in Nat : b = Max({0, -d}) /\ c = Max({0, d})
    BY <2>1, MaxWithZero
  <2>3. /\ forward' = forward + c /\ setback' = setback + b
        /\ UNCHANGED <<tl, pc, te, real, due, gone, skewed, spent, spentBefore>>
    BY <1>10, <2>2 DEF SetClock, walkVars, histVars, spentVars
  <2>4. ASSUME NEW x, NEW w, At(tl', x, w) PROVE Punctual(x, w)'
    <3>1. At(tl, x, w)
      BY <2>3, <2>4
    <3> QED BY <1>a, <1>d, <2>3, <3>1 DEF Punctual, Slack
  <2> QED BY <1>c, <2>3, <2>4 DEF DelayInv, AllPunctual
<1>11. CASE UNCHANGED vars
  <2>1. UNCHANGED <<tl, pc, te, real, forward, setback, due, gone, skewed, spent, spentBefore>>
    BY <1>11 DEF vars, walkVars, clockVars, histVars, spentVars
  <2>2. ASSUME NEW x, NEW w, At(tl', x, w) PROVE Punctual(x, w)'
    <3>1. At(tl, x, w)
      BY <2>1, <2>2
    <3> QED BY <1>d, <2>1, <3>1 DEF Punctual, Slack
  <2> QED BY <1>c, <2>1, <2>2 DEF DelayInv, AllPunctual
<1> QED BY <1>1, <1>2, <1>3, <1>4, <1>5, <1>6, <1>7, <1>8, <1>9, <1>10, <1>11, <1>12 DEF Next, Horizon

LEMMA DelayInductive == Spec => [](ClockInv /\ ListInv /\ WalkInv /\ DelayInv)
<1>1. ClockInv /\ ListInv /\ WalkInv /\ DelayInv /\ [Next]_vars => (ClockInv /\ ListInv /\ WalkInv /\ DelayInv)'
  BY ClockStep, TimersStep, DelayStep
<1>2. Init => ClockInv /\ ListInv /\ WalkInv /\ DelayInv
  BY TimersInit, DelayInit
<1> QED BY <1>1, <1>2, PTL DEF Spec

\* A timer runs early only by as much as the clock was set forward, until a skew makes all
\* of them due (ae.c:173-185, 260-266, 300-301).
THEOREM TimersNotEarly == Spec => NeverEarly
<1>1. ClockInv /\ ListInv /\ WalkInv /\ DelayInv /\ [Next]_vars
          => [pc = "walk" /\ pc' = "callback" => skewed \/ real + forward >= due[te]]_vars
  <2> SUFFICES ASSUME ClockInv, ListInv, WalkInv, DelayInv, [Next]_vars, pc = "walk", pc' = "callback"
               PROVE  skewed \/ real + forward >= due[te]
    OBVIOUS
  <2>1. te # Null /\ Due(Event, now)
    BY OnlyCallTimerCalls DEF CallTimer, Visiting, Runs
  <2>2. /\ now \in Nat /\ Start \in Nat /\ real \in Nat /\ forward \in Nat /\ setback \in Nat
        /\ now = Start + real + forward - setback
    BY ClockType, TimersAssumption DEF ClockInv
  <2>3. PICK k \in 1 .. Len(tl.list) : Event = tl.list[k]
    BY <2>1, EventIs
  <2>4. PICK w \in Nat : w = Ticks(tl.list[k].when) /\ tl.list[k].when \in When /\ tl.list[k].te = te
    BY <2>1, <2>3, EventIs
  <2>5. w <= now
    <3>1. ~Before(aeGetTime(now), tl.list[k].when)
      BY <2>1, <2>3 DEF Due
    <3>2. aeGetTime(now) \in When /\ Ticks(aeGetTime(now)) = now
      BY <2>2, GetTimeTicks
    <3>3. ~(now < w)
      BY <2>4, <3>1, <3>2, BeforeIsLess
    <3> QED BY <2>2, <3>3
  <2>6. At(tl, te, w)
    BY <2>4 DEF At
  <2>7. te \in 0 .. MaxTimers - 1 /\ Punctual(te, w)
    BY <2>6, AtType DEF DelayInv, AllPunctual
  <2>8. PICK d \in Nat : d = due[te]
    BY <2>7 DEF DelayInv
  <2>9. skewed \/ w >= d + Start - setback
    BY <2>7, <2>8 DEF Punctual
  <2>10. skewed \/ real + forward >= d
    BY <2>2, <2>5, <2>9
  <2> QED BY <2>8, <2>10
<1> QED BY <1>1, DelayInductive, PTL DEF Spec, NeverEarly

\* A timer is late by one call of the beforesleep procedure, by what the clock was set back and
\* by what the handlers of this iteration and of the round before it took, at most, however
\* long the program has been running (ae.c:230-243, 252-267, 350-370, 384-408).
THEOREM TimersNotLate == Spec => []DelayBounded
<1>1. ClockInv /\ ListInv /\ WalkInv /\ DelayInv => DelayBounded
  <2> SUFFICES ASSUME ListInv, DelayInv, NEW k \in Listed \ gone
               PROVE  real <= due[k] + Nap + setback + spentBefore + spent
    BY DEF DelayBounded
  <2>1. DOMAIN tl.list = 1 .. Len(tl.list)
    BY ListType DEF ListInv
  <2>2. PICK i \in 1 .. Len(tl.list) : tl.list[i].te = k
    BY <2>1 DEF Listed
  <2>3. At(tl, k, Ticks(tl.list[i].when))
    BY <2>2 DEF At
  <2> QED BY <2>3 DEF DelayInv, AllPunctual, Punctual
<1> QED BY <1>1, DelayInductive, PTL
=============================================================================
