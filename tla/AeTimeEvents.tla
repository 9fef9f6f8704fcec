---------------------------- MODULE AeTimeEvents ----------------------------
(***************************************************************************)
(* The time-event half of the event library: the calls of src/src/ae.c on  *)
(* the list of timers, as operators on the part `l' of the event loop that *)
(* they use.  AeTimers runs them against a wall clock, Server uses them    *)
(* for the one timer of the daemon.                                        *)
(*                                                                         *)
(* Time is counted in ticks, Tps of them in a second: Tps is the 1000 of   *)
(* the code, a tick its millisecond.                                       *)
(***************************************************************************)
EXTENDS Integers, Sequences, FiniteSetsExt

CONSTANTS Tps

ASSUME TpsAssumption == Tps \in Nat \ {0}

AE_NOMORE == -1
AE_DELETED_EVENT_ID == -1
Forever == -1

(***************************************************************************)
(* list      timeEventHead and what follows.  A timer has the identity     *)
(*           `te' of its structure, an id that deletion overwrites, and    *)
(*           the wall-clock time `when' at which it is to run              *)
(* nextId    timeEventNextId                                               *)
(* lastTime  second of the last processTimeEvents                          *)
(***************************************************************************)
When == [sec : Nat, ms : 0 .. Tps - 1]
TimeEvent == [te : Nat, id : Nat \cup {AE_DELETED_EVENT_ID}, when : When]
TimerLoop == [list : Seq(TimeEvent), nextId : Nat, lastTime : Nat]

\* aeCreateEventLoop at time t.
NewTimerLoop(t) == [list |-> <<>>, nextId |-> 0, lastTime |-> t \div Tps]

aeGetTime(t) == [sec |-> t \div Tps, ms |-> t % Tps]

\* Mutant: the carry from milliseconds to seconds is forgotten.
BugNoCarry(t, d) == [sec |-> (t \div Tps) + (d \div Tps), ms |-> ((t % Tps) + (d % Tps)) % Tps]

\* Mutant: the milliseconds are not brought below a second.
BugNotNormalised(t, d) == [sec |-> (t \div Tps) + (d \div Tps), ms |-> (t % Tps) + (d % Tps)]

aeAddMillisecondsToNow(t, d) ==
    LET sec == (t \div Tps) + (d \div Tps)
        ms  == (t % Tps) + (d % Tps)
    IN  IF ms >= Tps THEN [sec |-> sec + 1, ms |-> ms - Tps] ELSE [sec |-> sec, ms |-> ms]

aeCreateTimeEvent(l, t, d) ==
    LET new == [te |-> l.nextId, id |-> l.nextId, when |-> aeAddMillisecondsToNow(t, d)]
    IN  [l EXCEPT !.nextId = @ + 1, !.list = <<new>> \o @]

\* Some timer has this id; otherwise aeDeleteTimeEvent returns AE_ERR.
HasTimer(l, id) == \E i \in DOMAIN l.list : l.list[i].id = id

\* Ids are unique: the first timer found is the only one.  It is only marked.
aeDeleteTimeEvent(l, id) ==
    [l EXCEPT !.list = [i \in DOMAIN l.list |->
        IF l.list[i].id = id THEN [l.list[i] EXCEPT !.id = AE_DELETED_EVENT_ID] ELSE l.list[i]]]

Before(w, v) == w.sec < v.sec \/ (w.sec = v.sec /\ w.ms < v.ms)

\* Mutant: the comparison is the wrong way round.
BugFarthest(l) == CHOOSE i \in DOMAIN l.list : \A k \in DOMAIN l.list :
                      ~Before(l.list[i].when, l.list[k].when)

\* Deleted timers count as well.
aeSearchNearestTimer(l) == CHOOSE i \in DOMAIN l.list : \A k \in DOMAIN l.list :
                               ~Before(l.list[k].when, l.list[i].when)

\* The timeout that aeProcessEvents gives to epoll_wait at time t.
PollTimeout(l, t) ==
    IF l.list = <<>> THEN Forever
    ELSE LET when == l.list[aeSearchNearestTimer(l)].when
             now  == aeGetTime(t)
         IN  Max({0, (when.sec - now.sec) * Tps + when.ms - now.ms})

\* The clock went back since the last round, as far as seconds show it.
SkewDetected(l, t) == t \div Tps < l.lastTime

\* processTimeEvents, before its loop: after a skew every timer is due at once.
CheckSkew(l, t) ==
    LET soon(e) == [e EXCEPT !.when = [sec |-> 0, ms |-> e.when.ms]]
    IN  [l EXCEPT !.lastTime = t \div Tps,
                  !.list = IF SkewDetected(l, t)
                           THEN [i \in DOMAIN l.list |-> soon(l.list[i])] ELSE l.list]

Due(e, t) == ~Before(aeGetTime(t), e.when)

IndexOf(l, te) == CHOOSE i \in DOMAIN l.list : l.list[i].te = te

\* te->next, Forever standing for NULL.
NextOf(l, te) == IF IndexOf(l, te) < Len(l.list) THEN l.list[IndexOf(l, te) + 1].te ELSE Forever

\* A timer found deleted is unlinked and freed: what the predecessor of the walk (none, the
\* head of the list) led to is skipped up to te->next.
Unlink(l, prev, te) ==
    LET kept == IF prev = Forever THEN <<>> ELSE SubSeq(l.list, 1, IndexOf(l, prev))
    IN  [l EXCEPT !.list = kept \o SubSeq(l.list, IndexOf(l, te) + 1, Len(l.list))]

\* What comes after the callback: run again after r, or not at all.
Reschedule(l, te, t, r) ==
    LET k == IndexOf(l, te)
        e == l.list[k]
    IN  [l EXCEPT !.list = [l.list EXCEPT ![k] =
            IF r # AE_NOMORE THEN [e EXCEPT !.when = aeAddMillisecondsToNow(t, r)]
                             ELSE [e EXCEPT !.id = AE_DELETED_EVENT_ID]]]
=============================================================================
