----------------------- MODULE SerialProxy_exit_proofs -----------------------
(***************************************************************************)
(* The names of the virtuals and the shutdown of SerialProxy, proved for   *)
(* every configuration: the name of a connected virtual leads to its own   *)
(* terminal, and an orderly exit leaves nothing behind.                    *)
(*                                                                         *)
(* The walk of serialTerm is the delicate part: serialRemoveVirtualNode    *)
(* drops the whole list of a master with the first virtual it removes, so  *)
(* that the nodes still to be visited are only known from where the walk   *)
(* stands.  WalkCovers says that what is not yet closed lies ahead.        *)
(***************************************************************************)
EXTENDS SerialProxy_relay_proofs

Named == \A v \in Virtual : Linked(v) => symlink[v] = pts[v] /\ pts[v] # None

\* Nothing is left of the node.
Closed(n) == ~Linked(n) /\ (n \in Virtual => symlink[n] = None)

\* The pid file goes when the loop is told to stop, and only then is serialTerm reached.
StopRemovesPidfile == /\ stop => pidfile # "present"
                      /\ pc \in {"term", "exited"} => stop

WalkCovers ==
    pc = "term" =>
        /\ \A m \in Masters : /\ Linked(m) => m \in Range(todo)
                              /\ virtuals[m] \in {<<>>, VirtualList[m]}
        /\ \A v \in Virtual : ~Closed(v) =>
              \/ v \in Range(todo)
              \/ /\ VirtualOf[v] \in Range(todo)
                 /\ virtuals[VirtualOf[v]] = VirtualList[VirtualOf[v]]
        /\ \A u, v \in Virtual :
              u \in Range(todo) /\ VirtualOf[u] = VirtualOf[v] /\ ~Closed(v) => v \in Range(todo)

NothingLeft == pc = "exited" => opened = Reserved \ {EpFd} /\ \A n \in Node : Closed(n)

ExitInv == Named /\ StopRemovesPidfile /\ WalkCovers /\ NothingLeft

\* What is in a list that was joined, or whose head was taken off.
LEMMA RangeOfConcat ==
    ASSUME NEW S, NEW s \in Seq(S), NEW t \in Seq(S)
    PROVE  Range(s \o t) = Range(s) \cup Range(t)
<1>1. /\ Len(s) \in Nat /\ Len(t) \in Nat
      /\ DOMAIN s = 1 .. Len(s) /\ DOMAIN t = 1 .. Len(t) /\ DOMAIN (s \o t) = 1 .. Len(s) + Len(t)
      /\ \A i \in 1 .. Len(s) : (s \o t)[i] = s[i]
      /\ \A i \in 1 .. Len(t) : (s \o t)[Len(s) + i] = t[i]
  OBVIOUS
<1>2. ASSUME NEW i \in DOMAIN (s \o t) PROVE (s \o t)[i] \in Range(s) \cup Range(t)
  <2>1. CASE i <= Len(s)
    BY <1>1, <1>2, <2>1 DEF Range
  <2>2. CASE ~(i <= Len(s))
    <3>1. i - Len(s) \in 1 .. Len(t) /\ Len(s) + (i - Len(s)) = i
      BY <1>1, <1>2, <2>2
    <3>2. (s \o t)[i] = t[i - Len(s)]
      BY <1>1, <3>1
    <3> QED BY <1>1, <3>1, <3>2 DEF Range
  <2> QED BY <2>1, <2>2
<1>3. ASSUME NEW i \in DOMAIN s PROVE s[i] \in Range(s \o t)
  <2>1. i \in DOMAIN (s \o t) /\ (s \o t)[i] = s[i]
    BY <1>1
  <2> QED BY <2>1 DEF Range
<1>4. ASSUME NEW i \in DOMAIN t PROVE t[i] \in Range(s \o t)
  <2>1. Len(s) + i \in DOMAIN (s \o t) /\ (s \o t)[Len(s) + i] = t[i]
    BY <1>1
  <2> QED BY <2>1 DEF Range
<1> QED BY <1>2, <1>3, <1>4 DEF Range

LEMMA RangeOfTail ==
    ASSUME NEW S, NEW s \in Seq(S), s # <<>>
    PROVE  Range(s) = {Head(s)} \cup Range(Tail(s)) /\ Head(s) \in S /\ Tail(s) \in Seq(S)
<1>1. /\ Len(s) \in Nat \ {0} /\ DOMAIN s = 1 .. Len(s) /\ DOMAIN Tail(s) = 1 .. Len(s) - 1
      /\ Head(s) = s[1] /\ \A i \in 1 .. Len(s) - 1 : Tail(s)[i] = s[i + 1]
      /\ Head(s) \in S /\ Tail(s) \in Seq(S)
  OBVIOUS
<1>2. ASSUME NEW i \in DOMAIN s PROVE s[i] \in {Head(s)} \cup Range(Tail(s))
  <2>1. CASE i = 1
    BY <1>1, <2>1
  <2>2. CASE i # 1
    <3>1. i - 1 \in DOMAIN Tail(s) /\ (i - 1) + 1 = i
      BY <1>1, <2>2
    <3>2. Tail(s)[i - 1] = s[i]
      BY <1>1, <3>1
    <3> QED BY <3>1, <3>2 DEF Range
  <2> QED BY <2>1, <2>2
<1>3. Head(s) \in Range(s)
  BY <1>1 DEF Range
<1>4. ASSUME NEW i \in DOMAIN Tail(s) PROVE Tail(s)[i] \in Range(s)
  <2>1. i + 1 \in DOMAIN s /\ Tail(s)[i] = s[i + 1]
    BY <1>1
  <2> QED BY <2>1 DEF Range
<1> QED BY <1>1, <1>2, <1>3, <1>4 DEF Range

\* Closing a link that may not be there.
LEMMA CloseLinkEffect ==
    ASSUME IInv, NEW n \in Node, CloseLink(n)
    PROVE  /\ fd'[n] = None
           /\ \A k \in Node \ {n} : fd'[k] = fd[k] /\ pts'[k] = pts[k]
<1>1. fd \in [Node -> {None} \cup Fd] /\ pts \in [Node -> {None} \cup Pts]
  BY DEF IInv, TypeOK
<1>2. CASE Linked(n)
  BY <1>1, <1>2 DEF CloseLink, _serialFreeLink
<1>3. CASE ~Linked(n)
  BY <1>1, <1>3 DEF CloseLink, linkVars, Linked
<1> QED BY <1>2, <1>3

\* Every step keeps the names right (serial.c:128-132, 342-364).
LEMMA NamedStep == IInv /\ Named /\ [Next]_vars => Named'
<1> SUFFICES ASSUME IInv, Named, [Next]_vars PROVE Named'
  OBVIOUS
<1>a. /\ fd \in [Node -> {None} \cup Fd] /\ pts \in [Node -> {None} \cup Pts]
      /\ symlink \in [Virtual -> {None} \cup Pts] /\ Virtual \subseteq Node /\ None \notin Pts
  BY DEF IInv, TypeOK, Virtual, Node, None, Pts
<1>b. ASSUME UNCHANGED <<fd, pts, symlink>> PROVE Named'
  BY <1>b DEF Named, Linked
<1>c. ASSUME NEW n \in Node, _serialFreeLink(n), UNCHANGED symlink PROVE Named'
  BY <1>a, <1>c DEF Named, Linked, _serialFreeLink
<1>1. ASSUME NEW n \in Node, AlreadyConnected(n) \/ OpenFails(n) PROVE Named'
  BY <1>b, <1>1 DEF AlreadyConnected, OpenFails, linkVars
<1>2. ASSUME NEW n \in Node, OpenMaster(n) \/ OpenVirtual(n) PROVE Named'
  BY <1>b, <1>2 DEF OpenMaster, OpenVirtual, Opens
<1>3. ASSUME NEW n \in Node, SetUp(n) PROVE Named'
  <2>1. n = Head(todo) /\ pc = "setup" /\ LinkNode(n)
        /\ symlink' = IF n \in Virtual THEN [symlink EXCEPT ![n] = link.pts] ELSE symlink
    BY <1>3 DEF SetUp, SettingUp, Repoint
  <2>2. n \in Virtual => link.pts # None
    BY <2>1 DEF IInv, LinksLeadHome
  <2>3. pts'[n] = link.pts /\ \A k \in Node \ {n} : fd'[k] = fd[k] /\ pts'[k] = pts[k]
    BY <1>a, <2>1 DEF LinkNode
  <2>4. n \in Virtual => symlink'[n] = link.pts
    BY <1>a, <2>1
  <2>5. \A k \in Virtual \ {n} : symlink'[k] = symlink[k]
    BY <1>a, <2>1
  <2> QED BY <1>a, <2>2, <2>3, <2>4, <2>5 DEF Named, Linked
<1>4. ASSUME NEW n \in Node, SetupFails(n) PROVE Named'
  <2>1. ~Linked(n)
    BY <1>4 DEF SetupFails, SettingUp, IInv, LinksLeadHome
  <2>2. UNCHANGED <<fd, pts>> /\ (UNCHANGED symlink \/ \E s : symlink' = [symlink EXCEPT ![n] = s])
    BY <1>4 DEF SetupFails, FreeNewLink
  <2> QED BY <1>a, <2>1, <2>2 DEF Named, Linked
<1>5. ASSUME ReconnectDone \/ serialBeforeSleep \/ aeApiPoll \/ CallHandler \/ SkipEntry \/ PassDone
             \/ HandlerReturns \/ serverCron \/ TimerNotDue \/ serverTerm
      PROVE  Named'
  BY <1>b, <1>5 DEF ReconnectDone, serialBeforeSleep, aeApiPoll, CallHandler, SkipEntry, PassDone,
                    HandlerReturns, serverCron, TimerNotDue, serverTerm, linkVars
<1>6. ASSUME NEW n \in Node, _serialReadHandler(n) \/ _serialWriteHandler(n) PROVE Named'
  BY <1>b, <1>c, <1>6 DEF _serialReadHandler, _serialWriteHandler, ReadData, ReadError, ReadErrorIgnored,
                    NothingToWrite, WriteDone, WriteError, WriteBlocks, UseAfterFree, linkVars
<1>7. ASSUME NEW n \in Node, TermVirtuals(n) PROVE Named'
  BY <1>b, <1>7 DEF TermVirtuals, linkVars
<1>8. ASSUME NEW n \in Node, TermVirtual(n) PROVE Named'
  <2>1. CloseLink(n) /\ symlink' = [symlink EXCEPT ![n] = None]
    BY <1>8 DEF TermVirtual, RemoveName
  <2> QED BY <1>a, <2>1, CloseLinkEffect DEF Named, Linked
<1>9. ASSUME NEW n \in Node, TermMaster(n) PROVE Named'
  <2>1. CloseLink(n) /\ UNCHANGED symlink
    BY <1>9 DEF TermMaster
  <2> QED BY <1>a, <2>1, CloseLinkEffect DEF Named, Linked
<1>10. ASSUME NEW n \in Node, WriteReturns(n) PROVE Named'
  BY <1>b, <1>c, <1>10 DEF WriteReturns, linkVars
<1>11. ASSUME Signal PROVE Named'
  <2>1. CASE pc = "blocked"
    <3>1. Current \in Node
      BY <2>1 DEF IInv, HandlerGetsItsLink
    <3> QED BY <1>b, <1>c, <1>11, <2>1, <3>1 DEF Signal, linkVars
  <2>2. CASE pc # "blocked"
    BY <1>b, <1>11, <2>2 DEF Signal, linkVars
  <2> QED BY <2>1, <2>2
<1>12. ASSUME NEW n \in Node, Plug(n) \/ Unplug(n) \/ Hangup(n) PROVE Named'
  BY <1>b, <1>12 DEF Plug, Unplug, Hangup, linkVars
<1>13. ASSUME SecondSigint \/ UNCHANGED vars PROVE Named'
  BY <1>b, <1>13 DEF SecondSigint, vars, linkVars
<1>14. CASE Daemon
  BY <1>14, <1>1, <1>2, <1>3, <1>4, <1>5, <1>6, <1>7, <1>8, <1>9 DEF Daemon, _serialReconnect, serialTerm
<1>15. CASE Environment
  <2>1. Masters \subseteq Node /\ Virtual \subseteq Node
    BY ConfiguredLists DEF Node, Virtual
  <2> QED BY <1>15, <1>10, <1>11, <1>12, <1>13, <2>1 DEF Environment
<1> QED BY <1>13, <1>14, <1>15 DEF Next, Terminated

-----------------------------------------------------------------------------
(***************************************************************************)
(* The shutdown                                                            *)
(***************************************************************************)

\* Only the cron stops the loop, and it removes the pid file first.
Stopping == UNCHANGED <<stop, pidfile>> \/ serverCron

ExitKinds ==
    \/ pc' \notin {"term", "exited"} /\ Stopping
    \/ /\ Looping /\ stop' /\ Stopping /\ pc' = "term" /\ todo' = MasterList
       /\ UNCHANGED <<virtuals, fd, symlink>>
    \/ UNCHANGED <<pc, virtuals, fd, symlink, todo, opened, stop, pidfile>>
    \/ \E n \in Node : TermVirtuals(n) \/ TermVirtual(n) \/ TermMaster(n)
    \/ serverTerm

\* Every step is of one of these kinds (ae.c:419-426, server.c:50-54, 88-93, 144-162).
LEMMA StepHasExitKind == IInv /\ [Next]_vars => ExitKinds
<1> SUFFICES ASSUME IInv, [Next]_vars PROVE ExitKinds
  OBVIOUS
<1>1. ASSUME NEW n \in Node,
             AlreadyConnected(n) \/ OpenFails(n) \/ OpenMaster(n) \/ OpenVirtual(n) \/ SetUp(n)
             \/ SetupFails(n)
      PROVE  ExitKinds
  BY <1>1 DEF AlreadyConnected, OpenFails, OpenMaster, OpenVirtual, SetUp, SetupFails, Reconnecting,
              ExitKinds, Stopping, serverVars
<1>2. ASSUME ReconnectDone PROVE ExitKinds
  BY <1>2 DEF ReconnectDone, LoopTest, ExitKinds, Stopping, serverVars, linkVars, Looping, Ended
<1>3. ASSUME serverCron PROVE ExitKinds
  <2>1. /\ pc = "timers" /\ UNCHANGED <<virtuals, fd, symlink>> /\ stop' = StopAfterCron
        /\ pc' = "reconnect" \/ LoopTest(StopAfterCron)
    BY <1>3 DEF serverCron, linkVars
  <2> QED BY <1>3, <2>1 DEF LoopTest, ExitKinds, Stopping, Looping, Ended
<1>4. ASSUME serialBeforeSleep \/ aeApiPoll \/ CallHandler \/ SkipEntry \/ PassDone \/ HandlerReturns
             \/ TimerNotDue \/ SecondSigint
      PROVE  ExitKinds
  BY <1>4 DEF serialBeforeSleep, aeApiPoll, CallHandler, SkipEntry, PassDone, HandlerReturns, TimerNotDue,
              SecondSigint, ExitKinds, Stopping, serverVars
<1>5. ASSUME NEW n \in Node, _serialReadHandler(n) \/ _serialWriteHandler(n) PROVE ExitKinds
  BY <1>5 DEF _serialReadHandler, _serialWriteHandler, ReadData, ReadError, ReadErrorIgnored, Handling,
              NothingToWrite, WriteDone, WriteError, WriteBlocks, UseAfterFree, ExitKinds, Stopping, serverVars
<1>6. ASSUME serialTerm \/ serverTerm PROVE ExitKinds
  BY <1>6 DEF serialTerm, ExitKinds
<1>7. ASSUME Signal PROVE ExitKinds
  BY <1>7 DEF Signal, ExitKinds, Stopping, linkVars
<1>8. ASSUME NEW n \in Node, WriteReturns(n) PROVE ExitKinds
  BY <1>8 DEF WriteReturns, ExitKinds, Stopping, serverVars
<1>9. ASSUME NEW n \in Node, Plug(n) \/ Unplug(n) \/ Hangup(n) PROVE ExitKinds
  BY <1>9 DEF Plug, Unplug, Hangup, ExitKinds, linkVars, serverVars
<1>10. ASSUME UNCHANGED vars PROVE ExitKinds
  BY <1>10 DEF vars, ExitKinds, linkVars, serverVars
<1>11. CASE Daemon
  BY <1>11, <1>1, <1>2, <1>3, <1>4, <1>5, <1>6 DEF Daemon, _serialReconnect
<1>12. CASE Environment
  <2>1. Masters \subseteq Node /\ Virtual \subseteq Node
    BY ConfiguredLists DEF Node, Virtual
  <2> QED BY <1>12, <1>4, <1>7, <1>8, <1>9, <2>1 DEF Environment
<1> QED BY <1>10, <1>11, <1>12 DEF Next, Terminated

\* A loop that stopped has no pid file left (server.c:78-93).
LEMMA StopStep == IInv /\ StopRemovesPidfile /\ [Next]_vars => StopRemovesPidfile'
<1> SUFFICES ASSUME IInv, StopRemovesPidfile, [Next]_vars PROVE StopRemovesPidfile'
  OBVIOUS
<1>0. pidfile \in {"unset", "present", "absent"} /\ stop \in BOOLEAN /\ shutdown \in BOOLEAN
  BY DEF IInv, TypeOK
<1>1. ASSUME Stopping PROVE stop' => pidfile' # "present"
  BY <1>0, <1>1 DEF Stopping, serverCron, StopAfterCron, StopRemovesPidfile
<1>2. ASSUME pc = "term", UNCHANGED <<stop, pidfile>>, pc' \in {"term", "exited"} PROVE StopRemovesPidfile'
  BY <1>2 DEF StopRemovesPidfile
<1>3. CASE pc' \notin {"term", "exited"} /\ Stopping
  BY <1>1, <1>3 DEF StopRemovesPidfile
<1>4. CASE stop' /\ Stopping /\ pc' = "term"
  BY <1>1, <1>4 DEF StopRemovesPidfile
<1>5. CASE UNCHANGED <<pc, stop, pidfile>>
  BY <1>5 DEF StopRemovesPidfile
<1>6. ASSUME NEW n \in Node, TermVirtuals(n) \/ TermVirtual(n) \/ TermMaster(n) PROVE StopRemovesPidfile'
  BY <1>2, <1>6 DEF TermVirtuals, TermVirtual, TermMaster, Terminating, serverVars
<1>7. CASE serverTerm
  BY <1>2, <1>7 DEF serverTerm, serverVars
<1> QED BY <1>3, <1>4, <1>5, <1>6, <1>7, StepHasExitKind DEF ExitKinds

\* What the steps of the walk work on.
LEMMA WalkFacts ==
    ASSUME IInv
    PROVE  /\ todo \in Seq(Node)
           /\ Node = Masters \cup Virtual /\ Masters \cap Virtual = {}
           /\ virtuals \in [Masters -> Seq(Virtual)] /\ symlink \in [Virtual -> {None} \cup Pts]
           /\ \A v \in Virtual : VirtualOf[v] \in Masters /\ v \in Range(VirtualList[VirtualOf[v]])
           /\ \A m \in Masters : \A v \in Range(VirtualList[m]) : v \in Virtual /\ VirtualOf[v] = m
           /\ Range(<<>>) = {}
<1>1. /\ \A m \in Masters : Range(VirtualList[m]) = {v \in Virtual : VirtualOf[v] = m}
      /\ VirtualOf \in [Virtual -> Masters] /\ Masters \subseteq Client
  BY ConfiguredLists
<1>2. Range(<<>>) = {}
  BY DEF Range
<1>3. /\ todo \in Seq(Node)
      /\ virtuals \in [Masters -> Seq(Virtual)] /\ symlink \in [Virtual -> {None} \cup Pts]
  BY DEF IInv, TypeOK
<1> QED BY <1>1, <1>2, <1>3 DEF Node, Virtual

\* serialTerm starts with everything ahead of it (ae.c:419-426, serial.c:738-748).
LEMMA WalkStarts ==
    ASSUME IInv, DispatchInv, Looping, pc' = "term", todo' = MasterList,
           UNCHANGED <<virtuals, fd, symlink>>
    PROVE  WalkCovers'
<1>1. virtuals' = VirtualList /\ Range(todo') = Masters
  BY ConfiguredLists DEF DispatchInv, ListsIntact
<1> QED BY <1>1, WalkFacts DEF WalkCovers, Closed, Linked

\* Going down to the virtuals of a master puts all of them ahead (serial.c:725-733).
LEMMA WalkDescends ==
    ASSUME IInv, WalkCovers, NEW n \in Node, TermVirtuals(n)
    PROVE  WalkCovers'
<1>1. /\ pc = "term" /\ n \in Masters /\ virtuals[n] # <<>> /\ n = Head(todo) /\ todo # <<>>
      /\ todo' = virtuals[n] \o todo /\ UNCHANGED <<virtuals, fd, symlink, pc>>
  BY DEF TermVirtuals, Terminating, linkVars
<1>2. virtuals[n] = VirtualList[n]
  BY <1>1 DEF WalkCovers
<1>3. virtuals[n] \in Seq(Node)
  <2>1. virtuals[n] \in Seq(Virtual) /\ Virtual \subseteq Node
    BY <1>1, WalkFacts
  <2> QED BY <2>1, SeqOfSubset
<1>4. Range(todo') = Range(VirtualList[n]) \cup Range(todo)
  BY <1>1, <1>2, <1>3, RangeOfConcat, WalkFacts
<1> QED BY <1>1, <1>4, WalkFacts DEF WalkCovers, Closed, Linked

\* Closing a virtual drops the list of its master, but the walk holds the rest of it
\* (serial.c:692-709).
LEMMA WalkClosesVirtual ==
    ASSUME IInv, WalkCovers, NEW n \in Node, TermVirtual(n)
    PROVE  WalkCovers'
<1> DEFINE m == VirtualOf[n]
<1>1. /\ pc = "term" /\ n \in Virtual /\ n = Head(todo) /\ todo # <<>> /\ CloseLink(n)
      /\ symlink' = [symlink EXCEPT ![n] = None] /\ todo' = Tail(todo) /\ pc' = pc
      /\ virtuals' = [virtuals EXCEPT ![m] = IF n \in Range(@) THEN <<>> ELSE @]
  BY DEF TermVirtual, Terminating, RemoveName, serialRemoveVirtualNode
<1>2. Range(todo) = {n} \cup Range(todo')
  BY <1>1, RangeOfTail, WalkFacts
<1>3. m \in Masters /\ n \in Range(VirtualList[m])
  BY <1>1, WalkFacts
<1>4. virtuals[m] \in {<<>>, VirtualList[m]}
  BY <1>1, <1>3 DEF WalkCovers
<1>5. virtuals'[m] = <<>> /\ \A k \in Masters \ {m} : virtuals'[k] = virtuals[k]
  BY <1>1, <1>3, <1>4, WalkFacts
<1>6. Closed(n)' /\ \A k \in Node \ {n} : (Linked(k)' <=> Linked(k)) /\ (Closed(k)' <=> Closed(k))
  <2>1. fd'[n] = None /\ \A k \in Node \ {n} : fd'[k] = fd[k]
    BY <1>1, CloseLinkEffect
  <2>2. symlink'[n] = None /\ \A k \in Virtual \ {n} : symlink'[k] = symlink[k]
    BY <1>1, WalkFacts
  <2> QED BY <2>1, <2>2 DEF Closed, Linked
<1> HIDE DEF m
<1>7. \A k \in Masters : /\ Linked(k)' => k \in Range(todo')
                         /\ virtuals'[k] \in {<<>>, VirtualList[k]}
  BY <1>1, <1>2, <1>5, <1>6, WalkFacts DEF WalkCovers
<1>8. ASSUME NEW v \in Virtual, ~Closed(v)', VirtualOf[v] = m PROVE v \in Range(todo')
  <2>1. v # n /\ ~Closed(v)
    BY <1>6, <1>8, WalkFacts
  <2>2. n \in Range(todo) /\ VirtualOf[n] = VirtualOf[v]
    BY <1>2, <1>8 DEF m
  <2> QED BY <1>1, <1>2, <2>1, <2>2 DEF WalkCovers
<1>9. ASSUME NEW v \in Virtual, ~Closed(v)', VirtualOf[v] # m
      PROVE  \/ v \in Range(todo')
             \/ VirtualOf[v] \in Range(todo') /\ virtuals'[VirtualOf[v]] = VirtualList[VirtualOf[v]]
  <2>1. v # n /\ ~Closed(v)
    BY <1>6, <1>9, WalkFacts
  <2>2. VirtualOf[v] \in Masters /\ VirtualOf[v] # n
    BY <1>1, WalkFacts
  <2> QED BY <1>1, <1>2, <1>5, <1>9, <2>1, <2>2 DEF WalkCovers
<1>10. ASSUME NEW u \in Virtual, NEW v \in Virtual, u \in Range(todo'), VirtualOf[u] = VirtualOf[v],
              ~Closed(v)'
       PROVE  v \in Range(todo')
  <2>1. v # n /\ ~Closed(v) /\ u \in Range(todo)
    BY <1>2, <1>6, <1>10, WalkFacts
  <2> QED BY <1>1, <1>2, <1>10, <2>1 DEF WalkCovers
<1> QED BY <1>7, <1>8, <1>9, <1>10 DEF WalkCovers

\* A master is closed when no virtual of it is left (serial.c:734-735).
LEMMA WalkClosesMaster ==
    ASSUME IInv, WalkCovers, NEW n \in Node, TermMaster(n)
    PROVE  WalkCovers'
<1>1. /\ pc = "term" /\ n \in Masters /\ n = Head(todo) /\ todo # <<>> /\ CloseLink(n)
      /\ todo' = Tail(todo) /\ UNCHANGED <<virtuals, symlink, pc>> /\ virtuals[n] = <<>>
  BY DEF TermMaster, Terminating
<1>2. Range(todo) = {n} \cup Range(todo')
  BY <1>1, RangeOfTail, WalkFacts
<1>3. ~Linked(n)' /\ \A k \in Node \ {n} : (Linked(k)' <=> Linked(k)) /\ (Closed(k)' <=> Closed(k))
  <2>1. fd'[n] = None /\ \A k \in Node \ {n} : fd'[k] = fd[k]
    BY <1>1, CloseLinkEffect
  <2> QED BY <1>1, <2>1 DEF Closed, Linked
<1>4. \A k \in Masters : /\ Linked(k)' => k \in Range(todo')
                         /\ virtuals'[k] \in {<<>>, VirtualList[k]}
  BY <1>1, <1>2, <1>3, WalkFacts DEF WalkCovers
<1>5. ASSUME NEW v \in Virtual, ~Closed(v)'
      PROVE  \/ v \in Range(todo')
             \/ VirtualOf[v] \in Range(todo') /\ virtuals'[VirtualOf[v]] = VirtualList[VirtualOf[v]]
  <2>1. v # n /\ ~Closed(v)
    BY <1>1, <1>3, <1>5, WalkFacts
  <2>2. VirtualOf[v] = n => virtuals[n] # VirtualList[n]
    BY <1>1, WalkFacts
  <2> QED BY <1>1, <1>2, <2>1, <2>2 DEF WalkCovers
<1>6. ASSUME NEW u \in Virtual, NEW v \in Virtual, u \in Range(todo'), VirtualOf[u] = VirtualOf[v],
             ~Closed(v)'
      PROVE  v \in Range(todo')
  <2>1. v # n /\ ~Closed(v) /\ u \in Range(todo)
    BY <1>1, <1>2, <1>3, <1>6, WalkFacts
  <2> QED BY <1>1, <1>2, <1>6, <2>1 DEF WalkCovers
<1> QED BY <1>4, <1>5, <1>6 DEF WalkCovers

\* When the walk is over, nothing is left (serial.c:738-748, server.c:144-162).
LEMMA WalkEnds ==
    ASSUME IInv, WalkCovers, serverTerm
    PROVE  NothingLeft'
<1>1. /\ pc = "term" /\ todo = <<>> /\ opened' = opened \ {EpFd} /\ UNCHANGED <<fd, symlink>>
  BY DEF serverTerm
<1>2. \A n \in Node : Closed(n)
  BY <1>1, WalkFacts DEF WalkCovers, Closed
<1>3. Owned = {}
  <2>1. InMaking = {}
    BY <1>1 DEF IInv, LinksLeadHome, Ended, NoLink, InMaking
  <2>2. \A n \in Node : fd[n] = None /\ sfd[n] = None
    BY <1>2 DEF IInv, FdOwnership, Closed, Linked
  <2> QED BY <2>1, <2>2 DEF Owned, Held
<1>4. opened = Reserved
  BY <1>1, <1>3 DEF IInv, FdOwnership, Ended
<1> QED BY <1>1, <1>2, <1>4 DEF NothingLeft, Closed, Linked

LEMMA ExitStep == IInv /\ DispatchInv /\ ExitInv /\ [Next]_vars => ExitInv'
<1> SUFFICES ASSUME IInv, DispatchInv, ExitInv, [Next]_vars PROVE WalkCovers' /\ NothingLeft'
  BY NamedStep, StopStep DEF ExitInv
<1>1. ASSUME pc' \notin {"term", "exited"} PROVE WalkCovers' /\ NothingLeft'
  BY <1>1 DEF WalkCovers, NothingLeft
<1>2. ASSUME Looping, pc' = "term", todo' = MasterList, UNCHANGED <<virtuals, fd, symlink>>
      PROVE  WalkCovers' /\ NothingLeft'
  BY <1>2, WalkStarts DEF NothingLeft
<1>3. CASE UNCHANGED <<pc, virtuals, fd, symlink, todo, opened>>
  BY <1>3 DEF ExitInv, WalkCovers, NothingLeft, Closed, Linked
<1>4. ASSUME NEW n \in Node, TermVirtuals(n) \/ TermVirtual(n) \/ TermMaster(n)
      PROVE  WalkCovers' /\ NothingLeft'
  <2>1. pc' = "term"
    BY <1>4 DEF TermVirtuals, TermVirtual, TermMaster, Terminating
  <2>2. WalkCovers'
    BY <1>4, WalkDescends, WalkClosesVirtual, WalkClosesMaster DEF ExitInv
  <2> QED BY <2>1, <2>2 DEF NothingLeft
<1>5. CASE serverTerm
  <2>1. pc' = "exited"
    BY <1>5 DEF serverTerm
  <2> QED BY <1>5, <2>1, WalkEnds DEF ExitInv, WalkCovers
<1> QED BY <1>1, <1>2, <1>3, <1>4, <1>5, StepHasExitKind DEF ExitKinds

LEMMA ExitInductive == Spec => []ExitInv
<1>1. Init => ExitInv
  BY DEF Init, ExitInv, Named, StopRemovesPidfile, WalkCovers, NothingLeft, Linked, Virtual, Node
<1> QED BY <1>1, ExitStep, Inductive, DispatchInductive, PTL DEF Spec

\* The name of a connected virtual leads to its own terminal, for any number of
\* virtuals and any mixture of failed attempts, leftovers and reconnections
\* (serial.c:128-132, 342-364).
THEOREM NamesLeadToTerminals == Spec => []NameLeadsToTerminal
<1>1. ExitInv => NameLeadsToTerminal
  BY DEF ExitInv, Named, NameLeadsToTerminal
<1> QED BY <1>1, ExitInductive, PTL

\* An orderly exit closes every link, removes every name and the pid file, and returns
\* every descriptor, although serialRemoveVirtualNode drops more of a list than it was
\* asked to (serial.c:692-748, server.c:78-93, 144-162).
THEOREM ExitIsClean == Spec => []CleanExit
<1>1. ExitInv => CleanExit
  BY WalkFacts DEF ExitInv, NothingLeft, StopRemovesPidfile, CleanExit, Closed, Virtual, Node
<1> QED BY <1>1, ExitInductive, PTL
=============================================================================
