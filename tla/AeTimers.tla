------------------------------ MODULE AeTimers ------------------------------
(***************************************************************************)
(* The timers of the event library at work: aeMain calls the beforesleep   *)
(* procedure, polls for at most the time that the nearest timer leaves,    *)
(* calls the handlers of file events, and walks the list of timers         *)
(* (processTimeEvents).  Handlers, callbacks, and clients between two      *)
(* rounds, create and delete timers at will, their own included.           *)
(*                                                                         *)
(* Two clocks: `now' is the wall clock that the code reads, and that may be*)
(* set forward and back at any point; `real' is the time that passes.      *)
(* What takes time is the beforesleep procedure (usleep of a second in this*)
(* program), the poll, and what the handlers and callbacks do: a write()   *)
(* that blocks, an open() of a slow device.                                *)
(***************************************************************************)
EXTENDS AeTimeEvents

CONSTANTS Nap,         \* how long the beforesleep procedure takes
          Intervals,   \* what timers are created with and callbacks return
          Start,       \* the wall clock at the start
          Jumps,       \* by how much the wall clock may be set
          MaxJumps,    \* bound: how often
          MaxTimers,   \* bound: timers created
          MaxReal      \* bound: time observed

ASSUME TimersAssumption ==
    /\ Nap \in Nat /\ Intervals \subseteq Nat /\ Intervals # {}
    /\ Start \in Nat /\ Jumps \subseteq Int
    /\ MaxJumps \in Nat /\ MaxTimers \in Nat /\ MaxReal \in Nat
    \* the clock is never set so far back that second 0 is not over
    /\ \A j \in Jumps : Start + MaxJumps * j >= Tps

VARIABLES tl,           \* the timer part of the event loop
          now, real,    \* the clocks
          pc,           \* "sleep", "poll", "dispatch", "walk" or "callback"
          te, prev,     \* the locals of processTimeEvents
          maxId,
          \* history
          due,          \* the time by which each timer was asked to run
          gone,         \* the timers that were deleted or wanted no more
          freed,        \* the timers that were freed
          ran,          \* the timers run in this round, in order
          jumps, forward, setback,   \* how the clock was set
          skewed,       \* a skew was detected
          spent,        \* time that handlers took since the last round began
          spentBefore   \* and in the iteration before that

walkVars == <<pc, te, prev, maxId>>
clockVars == <<now, real, jumps, forward, setback>>
spentVars == <<spent, spentBefore>>
histVars == <<due, gone, freed, ran, skewed>>
vars == <<tl, walkVars, clockVars, histVars, spentVars>>

Null == Forever

Pass(d) == real' = real + d /\ now' = now + d /\ UNCHANGED <<jumps, forward, setback>>

\* Clients call the library from the handlers of file events, from the callbacks of
\* timers, or between two rounds.
ClientRuns == pc \in {"sleep", "dispatch", "callback"}

Create(d) == /\ ClientRuns
             /\ tl.nextId < MaxTimers
             /\ tl' = aeCreateTimeEvent(tl, now, d)
             /\ due' = [due EXCEPT ![tl.nextId] = real + d]
             /\ UNCHANGED <<walkVars, clockVars, gone, freed, ran, skewed, spentVars>>

\* An id that is gone or was never given is refused: AE_ERR, and nothing happens.
Delete(id) == /\ ClientRuns
              /\ HasTimer(tl, id)
              /\ tl' = aeDeleteTimeEvent(tl, id)
              /\ gone' = gone \cup {id}
              /\ UNCHANGED <<walkVars, clockVars, due, freed, ran, skewed, spentVars>>

BeforeSleep == /\ pc = "sleep"
               /\ real + Nap <= MaxReal
               /\ Pass(Nap)
               /\ pc' = "poll"
               /\ UNCHANGED <<tl, te, prev, maxId, histVars, spentVars>>

\* epoll_wait returns when the timeout is over, or before with file events.
aeApiPoll ==
    /\ pc = "poll"
    /\ \E d \in 0 .. MaxReal - real :
          /\ PollTimeout(tl, now) # Forever => d <= PollTimeout(tl, now)
          /\ Pass(d)
    /\ pc' = "dispatch"
    /\ UNCHANGED <<tl, te, prev, maxId, histVars, spentVars>>

\* A tick passes in a handler of a file event or in the callback of a timer.
Spend ==
    /\ pc \in {"dispatch", "callback"}
    /\ real < MaxReal
    /\ Pass(1)
    /\ spent' = spent + 1
    /\ UNCHANGED <<tl, walkVars, histVars, spentBefore>>

StartRound ==
    /\ pc = "dispatch"
    /\ tl' = CheckSkew(tl, now)
    /\ skewed' = (skewed \/ SkewDetected(tl, now))
    /\ te' = IF tl.list = <<>> THEN Null ELSE Head(tl.list).te
    /\ prev' = Null
    /\ maxId' = tl.nextId - 1
    /\ ran' = <<>>
    /\ spentBefore' = spent /\ spent' = 0
    /\ pc' = "walk"
    /\ UNCHANGED <<clockVars, due, gone, freed>>

Visiting == pc = "walk" /\ te # Null

Event == tl.list[IndexOf(tl, te)]

\* Mutant: deleted timers are not told apart.
BugNotMarked == FALSE

Deleted == Event.id = AE_DELETED_EVENT_ID

FreeTimer ==
    /\ Visiting /\ Deleted
    /\ tl' = Unlink(tl, prev, te)
    /\ freed' = freed \cup {te}
    /\ te' = NextOf(tl, te)
    /\ UNCHANGED <<pc, prev, maxId, clockVars, due, gone, ran, skewed, spentVars>>

\* A callback of this round created the timer.
TooNew == Event.id > maxId

Runs == ~TooNew /\ Due(Event, now)

\* Mutant: a timer that is not due is not remembered as the predecessor.
BugPrevStays == prev

\* A timer that is too new is passed over without becoming the predecessor.
PrevAfterSkip == IF TooNew THEN prev ELSE te

SkipTimer ==
    /\ Visiting /\ ~Deleted /\ ~Runs
    /\ prev' = PrevAfterSkip
    /\ te' = NextOf(tl, te)
    /\ UNCHANGED <<tl, pc, maxId, clockVars, histVars, spentVars>>

CallTimer ==
    /\ Visiting /\ ~Deleted /\ Runs
    /\ ran' = Append(ran, te)
    /\ pc' = "callback"
    /\ UNCHANGED <<tl, te, prev, maxId, clockVars, due, gone, freed, skewed, spentVars>>

\* Mutant: the walk starts again at the head.
BugRestart(l) == Head(l.list).te

AfterCallback(l) == NextOf(l, te)

\* The callback returns r.  Whatever it did to the list, its own timer is still in it.
Return(r) ==
    /\ pc = "callback"
    /\ tl' = Reschedule(tl, te, now, r)
    /\ due' = [due EXCEPT ![te] = IF r = AE_NOMORE THEN @ ELSE real + r]
    /\ gone' = IF r = AE_NOMORE THEN gone \cup {te} ELSE gone
    /\ prev' = te
    /\ te' = AfterCallback(tl)
    /\ pc' = "walk"
    /\ UNCHANGED <<maxId, clockVars, freed, ran, skewed, spentVars>>

EndRound ==
    /\ pc = "walk" /\ te = Null
    /\ pc' = "sleep"
    /\ prev' = Null
    /\ ran' = <<>>
    /\ UNCHANGED <<tl, te, maxId, clockVars, due, gone, freed, skewed, spentVars>>

\* The end of the time observed.
Horizon == pc = "sleep" /\ real + Nap > MaxReal /\ UNCHANGED vars

\* Somebody sets the wall clock.
SetClock(d) ==
    /\ jumps < MaxJumps
    /\ jumps' = jumps + 1
    /\ now' = now + d
    /\ forward' = forward + Max({0, d})
    /\ setback' = setback + Max({0, -d})
    /\ UNCHANGED <<tl, walkVars, real, histVars, spentVars>>

Init ==
    /\ tl = NewTimerLoop(Start)
    /\ now = Start /\ real = 0
    /\ pc = "sleep" /\ te = Null /\ prev = Null /\ maxId = -1
    /\ due = [k \in 0 .. MaxTimers - 1 |-> 0]
    /\ gone = {} /\ freed = {} /\ ran = <<>>
    /\ jumps = 0 /\ forward = 0 /\ setback = 0 /\ skewed = FALSE
    /\ spent = 0 /\ spentBefore = 0

Next == \/ \E d \in Intervals : Create(d)
        \/ \E id \in 0 .. MaxTimers - 1 : Delete(id)
        \/ BeforeSleep \/ aeApiPoll \/ Spend \/ StartRound
        \/ FreeTimer \/ SkipTimer \/ CallTimer \/ EndRound
        \/ \E r \in Intervals \cup {AE_NOMORE} : Return(r)
        \/ \E d \in Jumps : SetClock(d)
        \/ Horizon

Spec == Init /\ [][Next]_vars

-----------------------------------------------------------------------------
Ids == 0 .. tl.nextId - 1
Listed == {tl.list[i].te : i \in DOMAIN tl.list}

\* The types of the loop's timers and of the locals of processTimeEvents.
TimersTypeOK ==
    /\ tl \in TimerLoop /\ now \in Nat /\ real \in 0 .. MaxReal
    /\ pc \in {"sleep", "poll", "dispatch", "walk", "callback"}
    /\ te \in Nat \cup {Null} /\ prev \in Nat \cup {Null} /\ maxId \in Nat \cup {-1}
    /\ gone \subseteq Ids /\ freed \subseteq Ids /\ ran \in Seq(Ids)
    /\ spent \in Nat /\ spentBefore \in Nat

\* No timer is lost when a deleted one is unlinked through the predecessor that the walk
\* remembers; none is freed twice or before it was deleted, and the walk never stands on a
\* freed one, whatever callbacks create and delete while it is under way (ae.c:201-202,
\* 269, 277-288, 295-298, 314-315).
NoTimerLost ==
    /\ Listed \cup freed = Ids
    /\ Listed \cap freed = {}
    /\ Cardinality(Listed) = Len(tl.list)
    /\ freed \subseteq gone
    /\ te # Null => te \in Listed
    /\ prev # Null => prev \in Listed

\* A timer that was deleted, even by the callback before it in the same round, or that
\* returned AE_NOMORE, does not run any more (ae.c:211, 277, 311).
DeletedNeverRuns == [][pc = "walk" /\ pc' = "callback" => te \notin gone]_vars

\* A round ends: it runs no timer twice, even one that asks to run again at once, and
\* none that was created by a callback of the same round (ae.c:290-298).
OncePerRound ==
    \A i \in DOMAIN ran : /\ ran[i] <= maxId
                          /\ \A k \in DOMAIN ran : ran[i] = ran[k] => i = k

\* The walk comes to an end, although callbacks and clients add to the list: each step of it
\* calls the timer that it stands on or leaves it for an older one (ae.c:270-298, 314-315).
WalkGoesDown ==
    [][te # Null /\ <<pc, te>>' # <<pc, te>>
         => \/ pc = "walk" /\ pc' = "callback" /\ te' = te
            \/ pc' = "walk" /\ (te' = Null \/ te' < te)]_vars

\* A timer runs early only by as much as the clock was set forward, unless the clock was
\* seen to go back, after which all of them are due (ae.c:173-185, 260-266, 300-301).
NeverEarly ==
    [][pc = "walk" /\ pc' = "callback" => skewed \/ real + forward >= due[te]]_vars

\* A timer is late by one call of the beforesleep procedure, by what the clock was set back,
\* and by what the handlers took since the round before the current one began, at most: the
\* delays of earlier iterations do not add up (ae.c:230-243, 252-267, 350-370, 384-408).
DelayBounded ==
    \A k \in Listed \ gone : real <= due[k] + Nap + setback + spentBefore + spent
=============================================================================
