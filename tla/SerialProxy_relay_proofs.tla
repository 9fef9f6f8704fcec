---------------------- MODULE SerialProxy_relay_proofs ----------------------
(***************************************************************************)
(* What SerialProxy does with the data, proved for every configuration:    *)
(* no chunk is overwritten, each goes where the configuration says, to     *)
(* every reader once and to nobody more than twice.                        *)
(*                                                                         *)
(* Two inductive invariants.  DispatchInv follows the fired entries through*)
(* the two loops of aeProcessEvents: which of them can still be read, and  *)
(* which links have read.  DataInv counts, on top of it, how often the     *)
(* newest chunk of a source may have been written to a node by the time    *)
(* the loops have come to its entry.                                       *)
(***************************************************************************)
EXTENDS SerialProxy_proofs

Looping == pc # "term" /\ ~Ended
InHandler == pc \in {"handler", "blocked"}
Reader(n) == n \in Virtual \ Writers

\* Entry i of eventLoop->fired is about the link of n.
Concerns(i, n) == Linked(n) /\ fd[n] = fired[i].fd

(***************************************************************************)
(* The dispatch                                                            *)
(***************************************************************************)

ListsIntact == Looping => virtuals = VirtualList

\* A buffer holds nothing or the newest chunk, and only a link has one.
BuffersOK ==
    /\ \A n \in Node : /\ recvbuf[n] \in {Empty, <<n, nread[n]>>}
                       /\ recvbuf[n] # Empty => Linked(n) /\ nread[n] > 0
    /\ pc = "poll" => \A n \in Node : recvbuf[n] = Empty

\* A descriptor fires once; the entries are gone when the iteration ends.
FiredOK ==
    /\ Looping => \A i \in DOMAIN fired :
          /\ fired[i].fd < el.setsize
          /\ \A k \in DOMAIN fired : fired[i].fd = fired[k].fd => i = k
    /\ pc \in {"reconnect", "setup", "sleep", "poll"} => fired = <<>>
    /\ pc = "timers" => \A i \in DOMAIN fired : i < j /\ pass = W
    /\ InHandler => handling \subseteq fired[j].mask

\* An entry whose link is alive: what the first loop has passed has been read, and a
\* link that has read has no read left.
EntryOK(i, n) ==
    /\ R \in fired[i].mask => R \in _serialEventFlags(n)
    /\ pass = W \/ i < j => R \notin fired[i].mask
    /\ recvbuf[n] # Empty /\ R \in fired[i].mask => i = j /\ InHandler /\ R \notin handling
    /\ i = j /\ InHandler => pass \in _serialEventFlags(n)
    /\ Reader(n) => W \in fired[i].mask \/ (pass = W /\ i < j)

EntriesOK == Looping => \A i \in DOMAIN fired, n \in Node : Concerns(i, n) => EntryOK(i, n)

DispatchInv == ListsIntact /\ BuffersOK /\ FiredOK /\ EntriesOK

(***************************************************************************)
(* The data                                                                *)
(***************************************************************************)

Input(n) == ConfiguredSource(n)

\* Where the newest chunk of the source was written to n.
NewestAt(n) == {i \in DOMAIN out[n] : out[n][i] = <<Input(n), nread[Input(n)]>>}

\* The entry was served in this loop.
Served(i) == i < j \/ (i = j /\ pc = "handler" /\ W \notin handling)

\* How often n can have been written in this iteration: a reader only in the second loop.
Chances(i, n) ==
    IF Reader(n) THEN (IF pass = W /\ Served(i) THEN 1 ELSE 0)
    ELSE (IF pass = W THEN 1 ELSE 0) + (IF Served(i) THEN 1 ELSE 0)

FromSource ==
    \A n \in Node : \A i \in DOMAIN out[n] :
        /\ Input(n) \in Node
        /\ out[n][i][1] = Input(n)
        /\ out[n][i][2] <= nread[Input(n)]

CopiesBounded ==
    Looping => \A i \in DOMAIN fired, n \in Node :
        Concerns(i, n) /\ Input(n) \in Node /\ recvbuf[Input(n)] # Empty
            => Cardinality(NewestAt(n)) <= Chances(i, n)

\* The readers that the second loop has served have the chunk of this iteration.
FanoutSoFar ==
    Looping /\ pass = W => \A i \in DOMAIN fired, v \in Virtual \ Writers :
        Concerns(i, v) /\ Served(i) /\ recvbuf[VirtualOf[v]] # Empty
            => out[v] # <<>> /\ Last(out[v]) = recvbuf[VirtualOf[v]]

DataInv == FromSource /\ CopiesBounded /\ FanoutSoFar /\ ReadersGetEachChunkOnce

-----------------------------------------------------------------------------
(***************************************************************************)
(* The steps, as far as the data are concerned                             *)
(***************************************************************************)

\* Buffers are only emptied, and what stays in one stays with its link.
KeepsBuffers == \A n \in Node : /\ recvbuf'[n] \in {Empty, recvbuf[n]}
                                /\ recvbuf'[n] # Empty => fd'[n] = fd[n]

\* Links are only lost.
KeepsLinks == el'.setsize = el.setsize /\ \A n \in Node : fd'[n] \in {None, fd[n]}

Rests == UNCHANGED <<pc, fired, j, pass, handling, fd, el, recvbuf, nread, out, virtuals>>

Leaves == /\ pc' \in {"term", "exited", "killed", "crashed"}
          /\ KeepsBuffers
          /\ UNCHANGED <<nread, out>>

\* Outside the dispatch there are no fired entries.
Idles == /\ Looping /\ fired' = <<>>
         /\ pc' \in {"reconnect", "setup", "sleep", "poll", "timers"}
         /\ pc' = "poll" => \A n \in Node : recvbuf'[n] = Empty
         /\ KeepsBuffers
         /\ UNCHANGED <<nread, out, virtuals>>

\* The handler goes on, its read or write part done, without a byte passed on.
Works == /\ InHandler /\ pc' \in {"handler", "blocked"}
         /\ UNCHANGED <<fired, j, pass, virtuals, nread, out>>
         /\ handling' \subseteq handling
         /\ KeepsLinks /\ KeepsBuffers
         /\ \/ pc' = pc /\ (W \in handling' <=> W \in handling)
            \/ pc = "handler" /\ W \in handling /\ pc' = "blocked"
            \/ pc' = "handler" /\ fd'[Current] = None
            \/ pc' = "handler" /\ ~HasInput(Current)

\* The handler has written, at once or after blocking.
Delivers(n) == /\ InHandler /\ n = Current /\ Linked(n) /\ HasInput(n) /\ Deliver(n)
               /\ pc' = "handler" /\ W \notin handling'
               /\ pc = "handler" => W \in handling
               /\ handling' \subseteq handling
               /\ UNCHANGED <<fired, j, pass, virtuals, nread, fd, el, recvbuf>>

StepKinds == \/ Rests \/ Leaves \/ Idles \/ Works
             \/ \E n \in Node : Delivers(n) \/ ReadData(n)
             \/ CallHandler \/ SkipEntry \/ PassDone \/ HandlerReturns
             \/ aeApiPoll

\* Losing a link empties its buffer and leaves the others alone (serial.c:342-364).
LEMMA FreeKeeps ==
    ASSUME IInv, NEW n \in Node, Linked(n), _serialFreeLink(n)
    PROVE  KeepsLinks /\ KeepsBuffers /\ fd'[n] = None
<1>1. LinkTypeOK /\ hung \subseteq Node
  BY DEF IInv, TypeOK, LinkTypeOK
<1>2. el'.setsize = el.setsize
  BY <1>1, FreeLinkType
<1>3. fd \in [Node -> {None} \cup Fd] /\ recvbuf \in [Node -> Chunk \cup {Empty}]
  BY <1>1 DEF LinkTypeOK
<1>4. fd' = [fd EXCEPT ![n] = None] /\ recvbuf' = [recvbuf EXCEPT ![n] = Empty]
  BY DEF _serialFreeLink
<1> QED BY <1>2, <1>3, <1>4 DEF KeepsLinks, KeepsBuffers, Linked

\* A new link starts with an empty buffer (serial.c:281-287).
LEMMA LinkKeepsBuffers ==
    ASSUME IInv, NEW n \in Node, LinkNode(n)
    PROVE  KeepsBuffers
<1>1. fd \in [Node -> {None} \cup Fd] /\ recvbuf \in [Node -> Chunk \cup {Empty}]
  BY DEF IInv, TypeOK
<1>2. fd' = [fd EXCEPT ![n] = link.fd] /\ recvbuf' = [recvbuf EXCEPT ![n] = Empty]
  BY DEF LinkNode
<1> QED BY <1>1, <1>2 DEF KeepsBuffers

\* Every step is of one of these kinds (ae.c:328-415, serial.c:342-614).
LEMMA StepHasKind == IInv /\ DispatchInv /\ [Next]_vars => StepKinds
<1> SUFFICES ASSUME IInv, DispatchInv, [Next]_vars PROVE StepKinds
  OBVIOUS
<1>a. HandlerGetsItsLink /\ FiredOK
  BY DEF IInv, DispatchInv
<1>b. UNCHANGED <<fd, recvbuf>> => KeepsBuffers
  BY DEF KeepsBuffers
<1>c. UNCHANGED <<el, fd>> => KeepsLinks
  BY DEF KeepsLinks
<1>d. handling \in Mask
  BY DEF IInv, TypeOK
<1>1. ASSUME NEW n \in Node, AlreadyConnected(n) \/ OpenFails(n)
      PROVE  Rests
  BY <1>1 DEF AlreadyConnected, OpenFails, Rests, linkVars, ioVars, loopVars
<1>2. ASSUME NEW n \in Node, OpenMaster(n) \/ OpenVirtual(n) \/ SetUp(n) \/ SetupFails(n)
      PROVE  Idles
  <2>1. /\ pc \in {"reconnect", "setup"} /\ pc' \in {"reconnect", "setup"}
        /\ UNCHANGED <<fired, nread, out, virtuals>>
        /\ UNCHANGED <<fd, recvbuf>> \/ LinkNode(n)
    BY <1>2 DEF OpenMaster, OpenVirtual, Reconnecting, Opens, SetUp, SetupFails, SettingUp, FreeNewLink,
                ioVars, loopVars
  <2>2. KeepsBuffers
    BY <1>b, <2>1, LinkKeepsBuffers
  <2> QED BY <1>a, <2>1, <2>2 DEF Idles, FiredOK, Looping, Ended
<1>3. ASSUME ReconnectDone PROVE Leaves \/ Idles
  BY <1>a, <1>b, <1>3 DEF ReconnectDone, LoopTest, Leaves, Idles, FiredOK, Looping, Ended, linkVars,
                    ioVars, loopVars
<1>4. ASSUME serialBeforeSleep PROVE Idles
  <2>1. /\ pc = "sleep" /\ pc' = "poll" /\ UNCHANGED <<fired, nread, out, virtuals>>
        /\ \A n \in Node : recvbuf'[n] = Empty
    BY <1>4 DEF serialBeforeSleep, ResetBuffers, ioVars, loopVars
  <2> QED BY <1>a, <2>1 DEF Idles, KeepsBuffers, FiredOK, Looping, Ended
<1>5. ASSUME serverCron PROVE Leaves \/ Idles
  <2>1. /\ pc = "timers" /\ fired' = <<>> /\ UNCHANGED <<nread, out, virtuals, fd, recvbuf>>
        /\ pc' \in {"reconnect", "sleep", "term"}
    BY <1>5 DEF serverCron, LoopTest, ForgetFired, linkVars, ioVars
  <2> QED BY <1>b, <2>1 DEF Leaves, Idles, Looping, Ended
<1>6. ASSUME TimerNotDue PROVE Idles
  BY <1>b, <1>6 DEF TimerNotDue, ForgetFired, linkVars, ioVars, Idles, Looping, Ended
<1>7. ASSUME NEW n \in Node, ReadErrorIgnored(n) PROVE Works
  BY <1>b, <1>c, <1>7 DEF ReadErrorIgnored, Handling, Works, InHandler, linkVars, ioVars, R, W
<1>8. ASSUME NEW n \in Node, ReadError(n) PROVE Works
  <2>1. /\ pc = "handler" /\ pc' = pc /\ n = Current /\ R \in handling /\ handling' = handling \ {R}
        /\ UNCHANGED <<fired, j, pass, virtuals, nread, out>> /\ _serialFreeLink(n)
    BY <1>8 DEF ReadError, Handling, ioVars
  <2>2. KeepsLinks /\ KeepsBuffers
    BY <1>a, <2>1, FreeKeeps DEF HandlerGetsItsLink
  <2> QED BY <2>1, <2>2 DEF Works, InHandler, R, W
<1>9. ASSUME NEW n \in Node, NothingToWrite(n) PROVE Works
  BY <1>b, <1>c, <1>9 DEF NothingToWrite, Handling, Works, InHandler, linkVars, ioVars
<1>10. ASSUME NEW n \in Node, WriteDone(n) PROVE Delivers(n)
  BY <1>10 DEF WriteDone, Handling, Delivers, InHandler, linkVars
<1>11. ASSUME NEW n \in Node, WriteError(n) PROVE Works
  <2>1. /\ pc = "handler" /\ pc' = pc /\ n = Current /\ handling' = handling \ {W} /\ Linked(n)
        /\ UNCHANGED <<fired, j, pass, virtuals, nread, out>> /\ _serialFreeLink(n)
    BY <1>11 DEF WriteError, Handling, ioVars
  <2>2. KeepsLinks /\ KeepsBuffers /\ fd'[n] = None
    BY <2>1, FreeKeeps
  <2> QED BY <2>1, <2>2 DEF Works, InHandler
<1>12. ASSUME NEW n \in Node, WriteBlocks(n) PROVE Works
  BY <1>b, <1>c, <1>12 DEF WriteBlocks, Handling, Works, InHandler, linkVars, ioVars
<1>13. ASSUME NEW n \in Node, UseAfterFree(n) PROVE Works \/ Leaves
  <2>1. /\ pc = "handler" /\ n = Current /\ handling' = handling \ {W} /\ ~Linked(n)
        /\ UNCHANGED <<fired, j, pass, virtuals, nread, out, el, fd, recvbuf>>
        /\ pc' \in {pc, "crashed"}
    BY <1>13 DEF UseAfterFree, Handling, linkVars, ioVars
  <2>2. fd'[Current] = None
    BY <2>1 DEF Linked
  <2> QED BY <1>b, <1>c, <2>1, <2>2 DEF Works, Leaves, InHandler
<1>14. ASSUME NEW n \in Node, TermVirtuals(n) \/ TermVirtual(n) \/ TermMaster(n) PROVE Leaves
  <2>1. pc' = "term" /\ UNCHANGED <<nread, out>>
    BY <1>14 DEF TermVirtuals, TermVirtual, TermMaster, Terminating, ioVars
  <2>2. UNCHANGED linkVars \/ (Linked(n) /\ _serialFreeLink(n))
    BY <1>14 DEF TermVirtuals, TermVirtual, TermMaster, CloseLink
  <2>3. KeepsBuffers
    BY <1>b, <2>2, FreeKeeps DEF linkVars
  <2> QED BY <2>1, <2>3 DEF Leaves
<1>15. ASSUME serverTerm \/ SecondSigint PROVE Leaves
  BY <1>b, <1>15 DEF serverTerm, SecondSigint, Leaves, linkVars, ioVars
<1>16. ASSUME NEW n \in Node, pc = "blocked", n = Current, pc' = "handler",
              UNCHANGED <<nread, virtuals, loopVars>>,
              \/ Deliver(n) /\ UNCHANGED linkVars
              \/ _serialFreeLink(n) /\ UNCHANGED out
       PROVE  Works \/ Delivers(n)
  <2>1. Linked(n) /\ HasInput(n) /\ handling = {}
    BY <1>a, <1>16 DEF HandlerGetsItsLink
  <2>2. CASE Deliver(n) /\ UNCHANGED linkVars
    BY <1>16, <2>1, <2>2 DEF Delivers, InHandler, linkVars, loopVars
  <2>3. CASE _serialFreeLink(n) /\ UNCHANGED out
    <3>1. KeepsLinks /\ KeepsBuffers /\ fd'[n] = None
      BY <2>1, <2>3, FreeKeeps
    <3> QED BY <1>16, <2>1, <2>3, <3>1 DEF Works, InHandler, loopVars
  <2> QED BY <1>16, <2>2, <2>3
<1>17. ASSUME NEW n \in Node, WriteReturns(n) PROVE Works \/ Delivers(n)
  BY <1>16, <1>17 DEF WriteReturns
<1>18. ASSUME Signal PROVE StepKinds
  <2>1. CASE pc = "blocked"
    <3>1. Current \in Node
      BY <1>a, <2>1 DEF HandlerGetsItsLink
    <3>2. Works \/ Delivers(Current)
      BY <1>16, <1>18, <2>1, <3>1 DEF Signal
    <3> QED BY <3>1, <3>2 DEF StepKinds
  <2>2. CASE pc = "poll"
    <3>1. Idles
      BY <1>a, <1>b, <1>18, <2>2 DEF Signal, Idles, FiredOK, Looping, Ended, linkVars, loopVars
    <3> QED BY <3>1 DEF StepKinds
  <2>3. CASE pc \notin {"poll", "blocked"}
    <3>1. Rests
      BY <1>18, <2>3 DEF Signal, Rests, linkVars, loopVars
    <3> QED BY <3>1 DEF StepKinds
  <2> QED BY <2>1, <2>2, <2>3
<1>19. ASSUME NEW n \in Node, Plug(n) \/ Unplug(n) \/ Hangup(n) PROVE Rests
  BY <1>19 DEF Plug, Unplug, Hangup, Rests, linkVars, ioVars, loopVars
<1>20. ASSUME UNCHANGED vars PROVE Rests
  BY <1>20 DEF vars, Rests, linkVars, ioVars, loopVars
<1>21. CASE Daemon
  BY <1>21, <1>1, <1>2, <1>3, <1>4, <1>5, <1>6, <1>7, <1>8, <1>9, <1>10, <1>11, <1>12, <1>13, <1>14,
     <1>15 DEF Daemon, _serialReconnect, _serialReadHandler, _serialWriteHandler, serialTerm, StepKinds
<1>22. CASE Environment
  <2>1. Masters \subseteq Node /\ Virtual \subseteq Node
    BY ConfiguredLists DEF Node, Virtual
  <2> QED BY <1>22, <1>15, <1>17, <1>18, <1>19, <2>1 DEF Environment, StepKinds
<1> QED BY <1>20, <1>21, <1>22 DEF Next, Terminated, StepKinds

-----------------------------------------------------------------------------
(***************************************************************************)
(* The dispatch                                                            *)
(***************************************************************************)

\* The entry of a live link: its registration is the link's own (ae.c:385-404).
LEMMA EntryRegistered ==
    ASSUME IInv, FiredOK, Looping, NEW i \in DOMAIN fired, NEW n \in Node, Concerns(i, n)
    PROVE  el.mask[fired[i].fd] = _serialEventFlags(n) /\ el.data[fired[i].fd] = n
BY DEF IInv, RegistrationConsistent, TableMatchesLinks, FiredOK, Looping, Concerns

\* A read() or write() that finds its link alive works on the link of its entry.
LEMMA CurrentConcerns ==
    ASSUME IInv, InHandler, Linked(Current)
    PROVE  j \in DOMAIN fired /\ Current \in Node /\ Concerns(j, Current)
BY DEF IInv, HandlerGetsItsLink, InHandler, Concerns, Linked

\* The steps that do not touch the entries.
LEMMA DispatchRests ==
    ASSUME DispatchInv, Rests \/ Leaves \/ Idles
    PROVE  DispatchInv'
<1>1. CASE Rests
  <2> USE DEF Rests
  <2>1. ListsIntact' /\ BuffersOK'
    BY <1>1 DEF DispatchInv, ListsIntact, BuffersOK, Looping, Ended, Linked
  <2>2. FiredOK'
    BY <1>1 DEF DispatchInv, FiredOK, Looping, Ended, InHandler
  <2>3. EntriesOK'
    BY <1>1 DEF DispatchInv, EntriesOK, EntryOK, Looping, Ended, InHandler, Concerns, Linked,
                _serialEventFlags, HasWriter, Reader
  <2> QED BY <2>1, <2>2, <2>3 DEF DispatchInv
<1>2. ASSUME KeepsBuffers, UNCHANGED nread, pc' = "poll" => \A n \in Node : recvbuf'[n] = Empty
      PROVE  BuffersOK'
  BY <1>2 DEF DispatchInv, BuffersOK, KeepsBuffers, Linked
<1>3. CASE Leaves
  <2>1. BuffersOK'
    BY <1>2, <1>3 DEF Leaves
  <2> QED BY <1>3, <2>1 DEF Leaves, DispatchInv, ListsIntact, FiredOK, EntriesOK, Looping, Ended, InHandler
<1>4. CASE Idles
  <2>1. BuffersOK'
    BY <1>2, <1>4 DEF Idles
  <2>2. DOMAIN fired' = {}
    BY <1>4 DEF Idles
  <2> QED BY <1>4, <2>1, <2>2 DEF Idles, DispatchInv, ListsIntact, FiredOK, EntriesOK, Looping, Ended,
                                  InHandler
<1> QED BY <1>1, <1>3, <1>4

\* The handler at work.
LEMMA DispatchWorks ==
    ASSUME IInv, DispatchInv, NEW n \in Node, Works \/ Delivers(n)
    PROVE  DispatchInv'
<1>1. /\ InHandler /\ pc' \in {"handler", "blocked"} /\ handling' \subseteq handling
      /\ UNCHANGED <<fired, j, pass, virtuals, nread>>
      /\ KeepsLinks /\ KeepsBuffers
  BY DEF Works, Delivers, KeepsLinks, KeepsBuffers
<1>2. Looping /\ Looping' /\ InHandler'
  BY <1>1 DEF Looping, Ended, InHandler
<1>3. ListsIntact' /\ BuffersOK'
  BY <1>1, <1>2 DEF DispatchInv, ListsIntact, BuffersOK, KeepsBuffers, Linked
<1>4. FiredOK'
  BY <1>1, <1>2 DEF DispatchInv, FiredOK, KeepsLinks, InHandler
<1>5. EntriesOK'
  <2> SUFFICES ASSUME NEW i \in DOMAIN fired, NEW k \in Node, Concerns(i, k)'
               PROVE  EntryOK(i, k)'
    BY <1>1 DEF EntriesOK
  <2>1. Concerns(i, k)
    BY <1>1 DEF Concerns, KeepsLinks, Linked
  <2>2. EntryOK(i, k)
    BY <1>2, <2>1 DEF DispatchInv, EntriesOK
  <2>3. _serialEventFlags(k)' = _serialEventFlags(k) /\ (recvbuf'[k] # Empty => recvbuf[k] # Empty)
    BY <1>1 DEF _serialEventFlags, HasWriter, KeepsBuffers
  <2> QED BY <1>1, <1>2, <2>2, <2>3 DEF EntryOK, Reader
<1> QED BY <1>3, <1>4, <1>5 DEF DispatchInv

\* A read or a write on a live link works on the terminal of its own node.
LEMMA TerminalIsOwn == ASSUME IInv, NEW n \in Node, Linked(n) PROVE Terminal(n) = n
BY DEF IInv, LinksLeadHome

\* What a read that delivers data does, seen from its node (serial.c:597-614).
LEMMA ReadEffect ==
    ASSUME IInv, NEW n \in Node, ReadData(n)
    PROVE  /\ nread' = [nread EXCEPT ![n] = @ + 1]
           /\ recvbuf' = [recvbuf EXCEPT ![n] = <<n, nread[n] + 1>>]
<1>1. Linked(n)
  BY DEF IInv, HandlerGetsItsLink, ReadData, Handling
<1>2. Terminal(n) = n
  BY <1>1, TerminalIsOwn
<1> QED BY <1>2 DEF ReadData

\* The buffer was empty.
LEMMA ReadsOnce ==
    ASSUME IInv, DispatchInv, NEW n \in Node, ReadData(n)
    PROVE  /\ InHandler /\ n = Current /\ pass = R /\ recvbuf[n] = Empty
           /\ j \in DOMAIN fired /\ Concerns(j, n)
<1>1. pc = "handler" /\ n = Current /\ R \in handling
  BY DEF ReadData, Handling
<1>2. Linked(n) /\ Looping /\ InHandler
  BY <1>1 DEF IInv, HandlerGetsItsLink, Looping, Ended, InHandler
<1>3. j \in DOMAIN fired /\ Concerns(j, n)
  BY <1>1, <1>2, CurrentConcerns
<1>4. EntryOK(j, n) /\ R \in fired[j].mask
  BY <1>1, <1>2, <1>3 DEF DispatchInv, EntriesOK, FiredOK
<1>5. pass \in {R, W}
  BY DEF IInv, TypeOK
<1> QED BY <1>1, <1>2, <1>3, <1>4, <1>5 DEF EntryOK

LEMMA DispatchReads ==
    ASSUME IInv, DispatchInv, NEW n \in Node, ReadData(n)
    PROVE  DispatchInv'
<1>1. /\ pc = "handler" /\ pc' = pc /\ n = Current /\ handling' = handling \ {R}
      /\ UNCHANGED <<fired, j, pass, virtuals, fd, el>>
      /\ nread' = [nread EXCEPT ![n] = @ + 1]
      /\ recvbuf' = [recvbuf EXCEPT ![n] = <<n, nread[n] + 1>>]
  BY ReadEffect DEF ReadData, Handling
<1>2. Looping /\ Looping' /\ InHandler /\ InHandler'
  BY <1>1 DEF Looping, Ended, InHandler
<1>3. recvbuf[n] = Empty /\ j \in DOMAIN fired /\ Concerns(j, n)
  BY ReadsOnce
<1>4. recvbuf \in [Node -> Chunk \cup {Empty}] /\ nread \in [Node -> Nat]
  BY DEF IInv, TypeOK
<1>5. ListsIntact' /\ BuffersOK'
  <2>1. ListsIntact'
    BY <1>1, <1>2 DEF DispatchInv, ListsIntact
  <2>2. /\ recvbuf'[n] = <<n, nread'[n]>> /\ nread'[n] > 0
        /\ \A k \in Node \ {n} : recvbuf'[k] = recvbuf[k] /\ nread'[k] = nread[k]
    BY <1>1, <1>4
  <2>3. Linked(n)' /\ \A k \in Node : Linked(k)' = Linked(k)
    BY <1>1, <1>3 DEF Linked, Concerns
  <2> QED BY <1>1, <2>1, <2>2, <2>3 DEF DispatchInv, BuffersOK
<1>6. FiredOK'
  BY <1>1, <1>2 DEF DispatchInv, FiredOK, InHandler
<1>7. EntriesOK'
  <2> SUFFICES ASSUME NEW i \in DOMAIN fired, NEW k \in Node, Concerns(i, k)'
               PROVE  EntryOK(i, k)'
    BY <1>1 DEF EntriesOK
  <2>1. Concerns(i, k)
    BY <1>1 DEF Concerns, Linked
  <2>2. EntryOK(i, k)
    BY <1>2, <2>1 DEF DispatchInv, EntriesOK
  <2>3. _serialEventFlags(k)' = _serialEventFlags(k)
    BY <1>1 DEF _serialEventFlags, HasWriter
  <2>4. k = n => i = j
    BY <1>2, <1>3, <2>1 DEF DispatchInv, FiredOK, Concerns
  <2>5. k # n => recvbuf'[k] = recvbuf[k]
    BY <1>1, <1>4
  <2> QED BY <1>1, <1>2, <2>2, <2>3, <2>4, <2>5 DEF EntryOK, Reader
<1> QED BY <1>5, <1>6, <1>7 DEF DispatchInv

\* The bit that is cleared is that of the entry at work (ae.c:392, 402).
LEMMA ClearBitMask ==
    ASSUME fired \in Seq(FiredEvent), j \in DOMAIN fired
    PROVE  \A i \in DOMAIN fired :
             ClearBit[i].mask = IF i = j THEN fired[i].mask \ {pass} ELSE fired[i].mask
<1>1. fired[j] \in FiredEvent
  BY EntryType
<1> DEFINE e == [fired[j] EXCEPT !.mask = @ \ {pass}]
<1>2. e \in FiredEvent /\ e.mask = fired[j].mask \ {pass}
  BY <1>1 DEF FiredEvent, Mask
<1>3. ClearBit = [fired EXCEPT ![j] = e]
  BY DEF ClearBit
<1> HIDE DEF e
<1> QED BY <1>2, <1>3, ExceptIsSeq

\* The two loops of aeProcessEvents (ae.c:385-404).
LEMMA DispatchLoops ==
    ASSUME IInv, DispatchInv, CallHandler \/ SkipEntry \/ PassDone \/ HandlerReturns
    PROVE  DispatchInv'
<1>0. /\ UNCHANGED <<virtuals, nread, fd, el, recvbuf>>
      /\ pc \in {"dispatch", "handler"} /\ pc' \in {"dispatch", "handler", "timers"}
  BY DEF CallHandler, SkipEntry, PassDone, HandlerReturns, linkVars, ioVars
<1>1. Looping /\ Looping'
  BY <1>0 DEF Looping, Ended
<1>2. ListsIntact' /\ BuffersOK'
  BY <1>0, <1>1 DEF DispatchInv, ListsIntact, BuffersOK, Linked
<1>3. fired \in Seq(FiredEvent) /\ j \in Nat \ {0} /\ pass \in {R, W} /\ handling \in Mask
  BY DEF IInv, TypeOK, FiredEvent
<1>4. \A k \in Node : _serialEventFlags(k)' = _serialEventFlags(k)
  BY <1>0 DEF _serialEventFlags, HasWriter
<1>5. \A i \in DOMAIN fired, k \in Node : Concerns(i, k) =>
         EntryOK(i, k) /\ el.mask[fired[i].fd] = _serialEventFlags(k)
  BY <1>1, EntryRegistered DEF DispatchInv, EntriesOK
<1>6. DOMAIN fired = 1 .. Len(fired) /\ Len(fired) \in Nat
  BY <1>3
<1>7. R # W
  BY DEF R, W
<1>8. CASE CallHandler
  <2>1. /\ pc = "dispatch" /\ pc' = "handler" /\ UNCHANGED <<fired, j, pass>>
        /\ handling' = fired[j].mask /\ pass \in el.mask[fired[j].fd]
    BY <1>8 DEF CallHandler
  <2>2. FiredOK'
    BY <1>0, <1>1, <2>1 DEF DispatchInv, FiredOK, InHandler
  <2>3. EntriesOK'
    <3> SUFFICES ASSUME NEW i \in DOMAIN fired, NEW k \in Node, Concerns(i, k)'
                 PROVE  EntryOK(i, k)'
      BY <2>1 DEF EntriesOK
    <3>1. Concerns(i, k)
      BY <1>0, <2>1 DEF Concerns, Linked
    <3> QED BY <1>0, <1>4, <1>5, <2>1, <3>1 DEF EntryOK, Reader, InHandler
  <2> QED BY <1>2, <2>2, <2>3 DEF DispatchInv
<1>9. CASE SkipEntry
  <2>1. /\ pc = "dispatch" /\ pc' = pc /\ UNCHANGED <<fired, pass, handling>> /\ j' = j + 1
        /\ pass \notin el.mask[fired[j].fd] \cap fired[j].mask /\ j \in DOMAIN fired
    BY <1>3, <1>6, <1>9 DEF SkipEntry
  <2>2. FiredOK'
    BY <1>0, <1>1, <2>1 DEF DispatchInv, FiredOK, InHandler
  <2>3. EntriesOK'
    <3> SUFFICES ASSUME NEW i \in DOMAIN fired, NEW k \in Node, Concerns(i, k)'
                 PROVE  EntryOK(i, k)'
      BY <2>1 DEF EntriesOK
    <3>1. Concerns(i, k)
      BY <1>0, <2>1 DEF Concerns, Linked
    <3>2. EntryOK(i, k) /\ el.mask[fired[i].fd] = _serialEventFlags(k)
      BY <1>5, <3>1
    <3>3. Reader(k) => W \in _serialEventFlags(k)
      BY DEF Reader, Virtual, _serialEventFlags
    <3>4. i < j + 1 <=> i < j \/ i = j
      BY <1>3, <1>6
    <3> QED BY <1>0, <1>3, <1>4, <1>7, <2>1, <3>2, <3>3, <3>4 DEF EntryOK, Reader, InHandler
  <2> QED BY <1>2, <2>2, <2>3 DEF DispatchInv
<1>10. CASE PassDone
  <2>1. /\ pc = "dispatch" /\ j > Len(fired) /\ UNCHANGED <<fired, handling>>
        /\ pass = R => pc' = pc /\ pass' = W /\ j' = 1
        /\ pass # R => pc' = "timers" /\ UNCHANGED <<pass, j>>
    BY <1>10 DEF PassDone, StartPass
  <2>2. \A i \in DOMAIN fired : i < j
    BY <1>3, <1>6, <2>1
  <2>3. FiredOK'
    BY <1>0, <1>1, <1>3, <2>1, <2>2 DEF DispatchInv, FiredOK, InHandler
  <2>4. EntriesOK'
    <3> SUFFICES ASSUME NEW i \in DOMAIN fired, NEW k \in Node, Concerns(i, k)'
                 PROVE  EntryOK(i, k)'
      BY <2>1 DEF EntriesOK
    <3>1. Concerns(i, k)
      BY <1>0, <2>1 DEF Concerns, Linked
    <3>2. EntryOK(i, k) /\ i < j
      BY <1>5, <2>2, <3>1
    <3> QED BY <1>0, <1>3, <1>4, <1>7, <2>1, <3>2 DEF EntryOK, Reader, InHandler
  <2> QED BY <1>2, <2>3, <2>4 DEF DispatchInv
<1>11. CASE HandlerReturns
  <2>1. /\ pc = "handler" /\ handling = {} /\ fired' = ClearBit /\ j' = j + 1 /\ pc' = "dispatch"
        /\ UNCHANGED <<pass, handling>>
    BY <1>11 DEF HandlerReturns
  <2>2. j \in DOMAIN fired
    BY <2>1 DEF IInv, HandlerGetsItsLink
  <2>3. DOMAIN fired' = DOMAIN fired /\ \A i \in DOMAIN fired : fired'[i].fd = fired[i].fd
    BY <1>3, <2>1, <2>2, ClearBitEffect
  <2>4. \A i \in DOMAIN fired : fired'[i].mask = IF i = j THEN fired[i].mask \ {pass} ELSE fired[i].mask
    BY <1>3, <2>1, <2>2, ClearBitMask
  <2>5. FiredOK'
    BY <1>0, <1>1, <2>1, <2>3 DEF DispatchInv, FiredOK, InHandler
  <2>6. EntriesOK'
    <3> SUFFICES ASSUME NEW i \in DOMAIN fired, NEW k \in Node, Concerns(i, k)'
                 PROVE  EntryOK(i, k)'
      BY <2>3 DEF EntriesOK
    <3>1. Concerns(i, k)
      BY <1>0, <2>3 DEF Concerns, Linked
    <3>2. EntryOK(i, k)
      BY <1>5, <3>1
    <3>3. i < j + 1 <=> i < j \/ i = j
      BY <1>3, <1>6
    <3> QED BY <1>0, <1>3, <1>4, <1>7, <2>1, <2>4, <3>2, <3>3 DEF EntryOK, Reader, InHandler
  <2> QED BY <1>2, <2>5, <2>6 DEF DispatchInv
<1> QED BY <1>8, <1>9, <1>10, <1>11

\* epoll_wait reports a watched descriptor once, and asks for a read only where the link
\* was registered for it (ae_epoll.c:108-135).
LEMMA DispatchPolls ==
    ASSUME IInv, DispatchInv, aeApiPoll
    PROVE  DispatchInv'
<1>1. /\ pc = "poll" /\ pc' = "dispatch" /\ pass' = R /\ j' = 1
      /\ UNCHANGED <<el, fd, recvbuf, virtuals, nread>>
  BY DEF aeApiPoll, StartPass, linkVars, ioVars
<1>2. Looping /\ Looping' /\ ~InHandler'
  BY <1>1 DEF Looping, Ended, InHandler
<1>3. \A n \in Node : recvbuf'[n] = Empty
  BY <1>1 DEF DispatchInv, BuffersOK
<1>4. ListsIntact' /\ BuffersOK'
  BY <1>1, <1>2, <1>3 DEF DispatchInv, ListsIntact, BuffersOK
<1>5. TableMatchesLinks /\ fd \in [Node -> {None} \cup Fd]
  BY <1>2 DEF IInv, RegistrationConsistent, Looping, TypeOK
<1>6. PICK ev \in [Watched -> UNION {Reports(n) : n \in Watched}] :
         /\ \A n \in Watched : ev[n] \in Reports(n)
         /\ \E order \in SetToSeqs({n \in Watched : ev[n] # {}}) :
               fired' = [i \in DOMAIN order |->
                           [fd |-> fd[order[i]], mask |-> aeApiPollMask(ev[order[i]])]]
  BY DEF aeApiPoll
<1> DEFINE S == {n \in Watched : ev[n] # {}}
<1>7. PICK order \in SetToSeqs(S) :
         fired' = [i \in DOMAIN order |->
                     [fd |-> fd[order[i]], mask |-> aeApiPollMask(ev[order[i]])]]
  BY <1>6
<1>8. /\ order \in [1 .. Cardinality(S) -> S]
      /\ \A i, k \in DOMAIN order : order[i] = order[k] => i = k
  BY DEF SetToSeqs
<1>9. /\ DOMAIN fired' = DOMAIN order
      /\ \A i \in DOMAIN order : /\ order[i] \in Watched /\ ev[order[i]] # {}
                                 /\ fired'[i].fd = fd[order[i]]
                                 /\ fired'[i].mask = aeApiPollMask(ev[order[i]])
  BY <1>7, <1>8
\* what the table says of a watched node
<1>10. ASSUME NEW n \in Watched
       PROVE  /\ n \in Node /\ Linked(n) /\ fd[n] \in Fd /\ fd[n] < el.setsize
              /\ el.epoll[fd[n]] = _serialEventFlags(n)
  <2>1. n \in Node /\ Linked(n) /\ fd[n] \in Fd /\ el.epoll[fd[n]] # {}
    BY <1>5 DEF Watched, Linked
  <2> QED BY <1>5, <2>1 DEF TableMatchesLinks
<1>11. \A n, k \in Node : Linked(n) /\ fd[n] = fd[k] => n = k
  BY DEF IInv, FdOwnership
<1>12. FiredOK'
  <2>1. ASSUME NEW i \in DOMAIN order PROVE fired'[i].fd < el'.setsize
    BY <1>1, <1>9, <1>10
  <2>2. ASSUME NEW i \in DOMAIN order, NEW k \in DOMAIN order, fired'[i].fd = fired'[k].fd PROVE i = k
    <3>1. order[i] \in Watched /\ order[k] \in Watched /\ fd[order[i]] = fd[order[k]]
      BY <1>9, <2>2
    <3>2. order[i] = order[k]
      BY <1>10, <1>11, <3>1
    <3> QED BY <1>8, <3>2
  <2> QED BY <1>1, <1>2, <1>9, <2>1, <2>2 DEF FiredOK
<1>13. EntriesOK'
  <2> SUFFICES ASSUME NEW i \in DOMAIN order, NEW n \in Node, Concerns(i, n)'
               PROVE  EntryOK(i, n)'
    BY <1>9 DEF EntriesOK
  <2>1. order[i] = n
    BY <1>1, <1>9, <1>10, <1>11 DEF Concerns
  <2>2. /\ n \in Watched /\ ev[n] # {} /\ ev[n] \in Reports(n)
        /\ fired'[i].mask = aeApiPollMask(ev[n])
    BY <1>6, <1>9, <2>1
  <2>3. R \in fired'[i].mask => R \in _serialEventFlags(n)
    <3>1. R \in fired'[i].mask => "EPOLLIN" \in ev[n]
      BY <2>2 DEF aeApiPollMask, R, W
    <3>2. "EPOLLIN" \in ev[n] => "EPOLLIN" \in Interest(n)
      BY <2>2 DEF Reports
    <3>3. "EPOLLIN" \in Interest(n) => R \in el.epoll[fd[n]]
      BY DEF Interest
    <3> QED BY <1>10, <2>2, <3>1, <3>2, <3>3
  <2>4. Reader(n) => W \in fired'[i].mask
    <3>1. ASSUME Reader(n) PROVE R \notin _serialEventFlags(n)
      BY <3>1 DEF Reader, Virtual, _serialEventFlags, R, W
    <3>2. ASSUME Reader(n) PROVE "EPOLLIN" \notin ev[n]
      <4>1. "EPOLLIN" \notin Interest(n)
        BY <1>10, <2>2, <3>1, <3>2 DEF Interest
      <4> QED BY <2>2, <4>1 DEF Reports
    <3>3. ev[n] \subseteq {"EPOLLIN", "EPOLLOUT", "EPOLLERR", "EPOLLHUP"}
      BY <2>2 DEF Reports, Interest
    <3> QED BY <2>2, <3>2, <3>3 DEF aeApiPollMask
  <2>5. _serialEventFlags(n)' = _serialEventFlags(n)
    BY <1>1 DEF _serialEventFlags, HasWriter
  <2>6. ~(pass' = W \/ i < j')
    <3>1. i \in 1 .. Cardinality(S)
      BY <1>8
    <3>2. ~(i < 1)
      BY <3>1
    <3> QED BY <1>1, <3>2 DEF R, W
  <2> QED BY <1>2, <1>3, <2>3, <2>4, <2>5, <2>6 DEF EntryOK, Reader
<1> QED BY <1>4, <1>12, <1>13 DEF DispatchInv

\* Every step keeps the dispatch in order.
LEMMA DispatchStep == IInv /\ DispatchInv /\ [Next]_vars => DispatchInv'
<1> SUFFICES ASSUME IInv, DispatchInv, [Next]_vars PROVE DispatchInv'
  OBVIOUS
<1>1. StepKinds
  BY StepHasKind
<1>2. CASE Works
  <2>1. Current \in Node
    BY <1>2 DEF Works, InHandler, IInv, HandlerGetsItsLink
  <2> QED BY <1>2, <2>1, DispatchWorks
<1> QED BY <1>1, <1>2, DispatchRests, DispatchWorks, DispatchReads, DispatchLoops, DispatchPolls
        DEF StepKinds

\* DispatchInv holds in every reachable state.
LEMMA DispatchInductive == Spec => []DispatchInv
<1>1. Init => DispatchInv
  <2> SUFFICES ASSUME Init PROVE DispatchInv
    OBVIOUS
  <2>1. /\ virtuals = VirtualList /\ recvbuf = [n \in Node |-> Empty] /\ pc = "reconnect" /\ fired = <<>>
    BY DEF Init
  <2>2. DOMAIN fired = {}
    BY <2>1
  <2> QED BY <2>1, <2>2 DEF DispatchInv, ListsIntact, BuffersOK, FiredOK, EntriesOK, InHandler
<1>2. IInv /\ DispatchInv /\ [Next]_vars => DispatchInv'
  BY DispatchStep
<1> QED BY <1>1, <1>2, Inductive, PTL DEF Spec

\* A link is read at most once between two resets of the buffers: no chunk is ever
\* overwritten before it could be passed on (ae.c:390-393, serial.c:597-614).
THEOREM BuffersNotOverwritten == Spec => NoBufferOverwrite
<1> DEFINE Keeps == \A n \in Node : recvbuf[n] # Empty /\ recvbuf'[n] # Empty => recvbuf'[n] = recvbuf[n]
<1>1. IInv /\ DispatchInv /\ [Next]_vars => Keeps
  <2> SUFFICES ASSUME IInv, DispatchInv, [Next]_vars PROVE Keeps
    OBVIOUS
  <2>1. StepKinds
    BY StepHasKind
  <2>2. ASSUME KeepsBuffers PROVE Keeps
    BY <2>2 DEF KeepsBuffers
  <2>3. ASSUME UNCHANGED recvbuf PROVE Keeps
    BY <2>3
  <2>4. CASE Leaves \/ Idles \/ Works
    BY <2>2, <2>4 DEF Leaves, Idles, Works
  <2>5. CASE Rests \/ CallHandler \/ SkipEntry \/ PassDone \/ HandlerReturns \/ aeApiPoll
    BY <2>3, <2>5 DEF Rests, CallHandler, SkipEntry, PassDone, HandlerReturns, aeApiPoll, linkVars
  <2>6. CASE \E n \in Node : Delivers(n)
    BY <2>3, <2>6 DEF Delivers
  <2>7. ASSUME NEW n \in Node, ReadData(n) PROVE Keeps
    <3>1. /\ recvbuf \in [Node -> Chunk \cup {Empty}]
          /\ recvbuf' = [recvbuf EXCEPT ![n] = <<n, nread[n] + 1>>]
      BY <2>7, ReadEffect DEF IInv, TypeOK
    <3>2. recvbuf[n] = Empty
      BY <2>7, ReadsOnce
    <3> QED BY <3>1, <3>2
  <2> QED BY <2>1, <2>4, <2>5, <2>6, <2>7 DEF StepKinds
<1> QED BY <1>1, Inductive, DispatchInductive, PTL DEF Spec, NoBufferOverwrite

-----------------------------------------------------------------------------
(***************************************************************************)
(* The data                                                                *)
(***************************************************************************)

\* As long as the lists are those of the configuration, the search of
\* serialGetVirtualWriterNode finds the configured source (serial.c:581-595, 676-690).
LEMMA SourceIsConfigured ==
    ASSUME virtuals = VirtualList, NEW n \in Node
    PROVE  SourceOf(n) = Input(n)
<1>1. CASE n \in Masters
  <2> DEFINE list == VirtualList[n]
             flagged == {i \in DOMAIN list : list[i] \in Writers}
             First(i) == /\ list[i] \in Writers
                         /\ \A k \in 1 .. i - 1 : list[k] \notin Writers
             Least(i) == \A k \in flagged : i <= k
  <2>0. /\ DOMAIN list \subseteq Nat
        /\ \A x \in DOMAIN list : x > 0 /\ \A y \in 1 .. x - 1 : y \in DOMAIN list
    BY <1>1, ConfiguredLists
  <2>1. n \notin Virtual
    BY <1>1 DEF Virtual
  <2>2. CASE flagged = {}
    <3>1. ~HasWriter(n)
      BY <2>2 DEF HasWriter
    <3> QED BY <1>1, <2>1, <2>2, <3>1 DEF SourceOf, serialGetVirtualWriterNode, Input, ConfiguredSource
  <2>3. CASE flagged # {}
    <3>1. PICK m \in flagged : Least(m)
      <4>1. flagged \subseteq Nat
        BY <2>0
      <4> HIDE DEF flagged
      <4> QED BY <2>3, <4>1, LeastNatural
    <3>2. \A i \in flagged : Least(i) => i = m
      BY <2>0, <3>1
    <3>3. First(m)
      BY <2>0, <3>1
    <3>4. ASSUME NEW i \in DOMAIN list, First(i) PROVE i = m
      <4>1. i \in flagged /\ m <= i /\ i \in Nat /\ m \in Nat /\ m > 0
        BY <2>0, <3>1, <3>4
      <4>2. ~(m \in 1 .. i - 1)
        BY <3>1, <3>4
      <4> QED BY <4>1, <4>2
    <3>5. HasWriter(n)
      BY <2>3 DEF HasWriter
    <3>6. SourceOf(n) = list[CHOOSE i \in DOMAIN list : First(i)]
      BY <1>1, <3>5 DEF SourceOf, serialGetVirtualWriterNode
    <3>7. Input(n) = list[CHOOSE i \in flagged : Least(i)]
      BY <2>1, <2>3 DEF Input, ConfiguredSource
    <3>8. m \in DOMAIN list
      BY <3>1
    <3> HIDE DEF list, First, Least, flagged
    <3>9. (CHOOSE i \in DOMAIN list : First(i)) = m
      BY <3>3, <3>4, <3>8
    <3>10. (CHOOSE i \in flagged : Least(i)) = m
      BY <3>1, <3>2
    <3> QED BY <3>6, <3>7, <3>9, <3>10
  <2> QED BY <2>2, <2>3
<1>2. CASE n \notin Masters
  BY <1>2 DEF SourceOf, Input, ConfiguredSource, Virtual, Node
<1> QED BY <1>1, <1>2

\* A virtual receives from its master.
LEMMA VirtualInput == ASSUME NEW v \in Virtual
                      PROVE  Input(v) = VirtualOf[v] /\ Input(v) \in Node /\ v \in Node
BY ConfiguredLists DEF Input, ConfiguredSource, Virtual, Node

\* Occurrences in a sequence: finitely many, and one more for what is appended.
At(s, c) == {i \in DOMAIN s : s[i] = c}

LEMMA AtIsFinite == ASSUME NEW S, NEW s \in Seq(S), NEW c
                    PROVE  IsFiniteSet(At(s, c)) /\ Cardinality(At(s, c)) \in Nat
<1>1. At(s, c) \subseteq 1 .. Len(s) /\ Len(s) \in Nat
  BY DEF At
<1>2. IsFiniteSet(1 .. Len(s))
  BY <1>1, FS_Interval
<1>3. IsFiniteSet(At(s, c))
  BY <1>1, <1>2, FS_Subset
<1> QED BY <1>3, FS_CardinalityType

LEMMA AtAppended ==
    ASSUME NEW S, NEW s \in Seq(S), NEW x \in S
    PROVE  Cardinality(At(Append(s, x), x)) = Cardinality(At(s, x)) + 1
<1>1. /\ DOMAIN Append(s, x) = 1 .. Len(s) + 1 /\ DOMAIN s = 1 .. Len(s) /\ Len(s) \in Nat
      /\ Append(s, x)[Len(s) + 1] = x
      /\ \A i \in 1 .. Len(s) : Append(s, x)[i] = s[i]
  OBVIOUS
<1>2. At(Append(s, x), x) = At(s, x) \cup {Len(s) + 1}
  <2>1. \A i : i \in 1 .. Len(s) + 1 <=> i \in 1 .. Len(s) \/ i = Len(s) + 1
    BY <1>1
  <2> QED BY <1>1, <2>1 DEF At
<1>3. Len(s) + 1 \notin At(s, x)
  BY <1>1 DEF At
<1> QED BY <1>2, <1>3, AtIsFinite, FS_AddElement

LEMMA NewestIsFinite == ASSUME IInv, NEW n \in Node
                        PROVE  /\ IsFiniteSet(NewestAt(n)) /\ Cardinality(NewestAt(n)) \in Nat
                               /\ NewestAt(n) = At(out[n], <<Input(n), nread[Input(n)]>>)
<1>1. out[n] \in Seq(Chunk)
  BY DEF IInv, TypeOK
<1>2. NewestAt(n) = At(out[n], <<Input(n), nread[Input(n)]>>)
  BY DEF NewestAt, At
<1> QED BY <1>1, <1>2, AtIsFinite

\* What a handler writes: the newest chunk of the configured source.
LEMMA DeliversNewest ==
    ASSUME IInv, DispatchInv, NEW n \in Node, Delivers(n)
    PROVE  /\ Input(n) \in Node /\ Looping
           /\ recvbuf[Input(n)] = <<Input(n), nread[Input(n)]>> /\ nread[Input(n)] > 0
           /\ out' = [out EXCEPT ![n] = Append(@, <<Input(n), nread[Input(n)]>>)]
           /\ j \in DOMAIN fired /\ Concerns(j, n) /\ EntryOK(j, n)
           /\ \A i \in DOMAIN fired : Concerns(i, n) => i = j
<1>1. Looping /\ InHandler /\ n = Current /\ Linked(n) /\ HasInput(n) /\ Deliver(n)
  BY DEF Delivers, Looping, InHandler, Ended
<1>2. SourceOf(n) = Input(n)
  BY <1>1, SourceIsConfigured DEF DispatchInv, ListsIntact
<1>3. Input(n) \in Node
  <2>1. CASE n \in Virtual
    BY <2>1, VirtualInput
  <2>2. CASE n \notin Virtual
    <3> DEFINE list == VirtualList[n]
               flagged == {i \in DOMAIN list : list[i] \in Writers}
               Least(i) == \A k \in flagged : i <= k
    <3>1. list \in Seq(Virtual)
      BY <2>2, ConfiguredLists DEF Virtual, Node
    <3>2. flagged # {}
      BY <1>1, <1>2, <2>2 DEF HasInput, Input, ConfiguredSource
    <3>3. Input(n) = list[CHOOSE i \in flagged : Least(i)]
      BY <2>2, <3>2 DEF Input, ConfiguredSource
    <3>4. \E i \in flagged : Least(i)
      <4>1. flagged \subseteq Nat
        BY <3>1
      <4> HIDE DEF flagged
      <4> QED BY <3>2, <4>1, LeastNatural
    <3>5. flagged \subseteq DOMAIN list
      OBVIOUS
    <3>6. (CHOOSE i \in flagged : Least(i)) \in DOMAIN list
      <4> HIDE DEF flagged, Least
      <4> QED BY <3>4, <3>5
    <3>7. list[CHOOSE i \in flagged : Least(i)] \in Virtual
      <4> HIDE DEF flagged, Least, list
      <4> QED BY <3>1, <3>6, EntryType
    <3> QED BY <3>3, <3>7 DEF Virtual, Node
  <2> QED BY <2>1, <2>2
<1>4. recvbuf[Input(n)] = <<Input(n), nread[Input(n)]>> /\ nread[Input(n)] > 0
  BY <1>1, <1>2, <1>3 DEF HasInput, DispatchInv, BuffersOK
<1>5. out' = [out EXCEPT ![n] = Append(@, <<Input(n), nread[Input(n)]>>)]
  <2>1. Terminal(n) = n
    BY <1>1, TerminalIsOwn
  <2> QED BY <1>1, <1>2, <1>4, <2>1 DEF Deliver
<1>6. j \in DOMAIN fired /\ Concerns(j, n)
  BY <1>1, CurrentConcerns
<1>7. EntryOK(j, n)
  BY <1>1, <1>6 DEF DispatchInv, EntriesOK
<1>8. \A i \in DOMAIN fired : Concerns(i, n) => i = j
  BY <1>1, <1>6 DEF DispatchInv, FiredOK, Concerns
<1> QED BY <1>1, <1>3, <1>4, <1>5, <1>6, <1>7, <1>8

\* Steps that neither read nor write nor walk the entries.
LEMMA DataRests ==
    ASSUME DataInv, Rests \/ Leaves \/ Idles
    PROVE  DataInv'
<1>1. UNCHANGED <<nread, out>>
  BY DEF Rests, Leaves, Idles
<1>2. FromSource' /\ ReadersGetEachChunkOnce'
  BY <1>1 DEF DataInv, FromSource, ReadersGetEachChunkOnce, Input, ConfiguredSource
<1>3. CASE Rests
  <2>1. /\ Looping' = Looping
        /\ \A i \in DOMAIN fired, n \in Node :
              /\ Concerns(i, n)' = Concerns(i, n) /\ Served(i)' = Served(i)
              /\ Chances(i, n)' = Chances(i, n) /\ NewestAt(n)' = NewestAt(n)
    BY <1>3 DEF Rests, Looping, Ended, Concerns, Linked, Served, Chances, Reader, NewestAt, Input,
                ConfiguredSource
  <2>2. CopiesBounded'
    BY <1>3, <2>1 DEF Rests, DataInv, CopiesBounded, Input, ConfiguredSource
  <2>3. FanoutSoFar'
    BY <1>3, <2>1 DEF Rests, DataInv, FanoutSoFar, Virtual, Node
  <2> QED BY <1>2, <2>2, <2>3 DEF DataInv
<1>4. CASE Leaves
  BY <1>2, <1>4 DEF Leaves, DataInv, CopiesBounded, FanoutSoFar, Looping, Ended
<1>5. CASE Idles
  <2>1. DOMAIN fired' = {}
    BY <1>5 DEF Idles
  <2> QED BY <1>2, <2>1 DEF DataInv, CopiesBounded, FanoutSoFar
<1> QED BY <1>3, <1>4, <1>5

\* The steps that pass nothing on and read nothing: it is enough that the links of the
\* entries and what was served are accounted for.
LEMMA DataKept ==
    ASSUME IInv, DataInv, Looping, UNCHANGED <<nread, out>>, DOMAIN fired' = DOMAIN fired,
           KeepsBuffers,
           \A i \in DOMAIN fired, n \in Node : Concerns(i, n)' =>
               /\ Concerns(i, n)
               /\ Chances(i, n) <= Chances(i, n)'
               /\ Reader(n) /\ pass' = W /\ Served(i)' /\ recvbuf'[Input(n)] # Empty
                    => pass = W /\ Served(i)
    PROVE  DataInv'
<1>1. FromSource' /\ ReadersGetEachChunkOnce'
  BY DEF DataInv, FromSource, ReadersGetEachChunkOnce, Input, ConfiguredSource
<1>2. \A n \in Node : Input(n)' = Input(n) /\ NewestAt(n)' = NewestAt(n)
  BY DEF NewestAt, Input, ConfiguredSource
<1>3. CopiesBounded'
  <2> SUFFICES ASSUME NEW i \in DOMAIN fired, NEW n \in Node, Concerns(i, n)', Input(n) \in Node,
                      recvbuf'[Input(n)] # Empty
               PROVE  Cardinality(NewestAt(n)) <= Chances(i, n)'
    BY <1>2 DEF CopiesBounded
  <2>1. recvbuf[Input(n)] # Empty
    BY DEF KeepsBuffers
  <2>2. Cardinality(NewestAt(n)) <= Chances(i, n) /\ Chances(i, n) <= Chances(i, n)'
    BY <2>1 DEF DataInv, CopiesBounded
  <2>3. Chances(i, n) \in Int /\ Chances(i, n)' \in Int
    BY DEF Chances
  <2>4. Cardinality(NewestAt(n)) \in Nat
    BY NewestIsFinite
  <2> QED BY <2>2, <2>3, <2>4
<1>4. FanoutSoFar'
  <2> SUFFICES ASSUME NEW i \in DOMAIN fired, NEW v \in Virtual \ Writers, Concerns(i, v)',
                      pass' = W, Served(i)', recvbuf'[VirtualOf[v]] # Empty
               PROVE  out[v] # <<>> /\ Last(out[v]) = recvbuf'[VirtualOf[v]]
    BY DEF FanoutSoFar
  <2>1. v \in Node /\ Reader(v) /\ Input(v) = VirtualOf[v] /\ VirtualOf[v] \in Node
    BY VirtualInput DEF Reader
  <2>2. Concerns(i, v) /\ pass = W /\ Served(i)
    BY <2>1
  <2>3. recvbuf'[VirtualOf[v]] = recvbuf[VirtualOf[v]]
    BY <2>1 DEF KeepsBuffers
  <2> QED BY <2>2, <2>3 DEF DataInv, FanoutSoFar
<1> QED BY <1>1, <1>3, <1>4 DEF DataInv

\* The handler at work, without a write that passes anything on.
LEMMA DataWorks ==
    ASSUME IInv, DispatchInv, DataInv, Works
    PROVE  DataInv'
<1>1. /\ Looping /\ InHandler /\ KeepsBuffers /\ KeepsLinks /\ handling' \subseteq handling
      /\ UNCHANGED <<fired, j, pass, virtuals, nread, out>>
  BY DEF Works, Looping, Ended, InHandler
<1>2. ASSUME NEW i \in DOMAIN fired, NEW n \in Node, Concerns(i, n)'
      PROVE  /\ Concerns(i, n)
             /\ Chances(i, n) <= Chances(i, n)'
             /\ Reader(n) /\ pass' = W /\ Served(i)' /\ recvbuf'[Input(n)] # Empty
                  => pass = W /\ Served(i)
  <2>1. Concerns(i, n)
    BY <1>1, <1>2 DEF Concerns, KeepsLinks, Linked
  <2>2. Served(i) => Served(i)'
    BY <1>1 DEF Works, Served, InHandler
  <2>3. Chances(i, n) <= Chances(i, n)'
    BY <1>1, <2>2 DEF Chances, Reader
  <2>4. ASSUME Reader(n), Served(i)', ~Served(i), recvbuf'[Input(n)] # Empty PROVE FALSE
    <3>1. i = j /\ pc' = "handler"
      BY <1>1, <2>4 DEF Served
    <3>2. n = Current
      BY <1>1, <2>1, <3>1, EntryRegistered DEF DispatchInv, Current
    <3>3. fd'[n] # None
      BY <1>2 DEF Concerns, Linked
    <3>4. HasInput(n)
      <4>1. n \in Virtual /\ Input(n) = VirtualOf[n] /\ Input(n) \in Node
        BY <2>4, VirtualInput DEF Reader
      <4>2. SourceOf(n) = Input(n)
        BY <1>1, SourceIsConfigured DEF DispatchInv, ListsIntact
      <4>3. recvbuf[Input(n)] # Empty /\ Linked(Input(n))
        BY <1>1, <2>4, <4>1 DEF KeepsBuffers, IInv, TypeOK, DispatchInv, BuffersOK
      <4>4. Input(n) # NoClient
        BY <4>1, AeAssumption DEF Node
      <4> QED BY <4>2, <4>3, <4>4 DEF HasInput
    <3>5. pc' = pc /\ (W \in handling' <=> W \in handling)
      BY <3>1, <3>2, <3>3, <3>4 DEF Works
    <3> QED BY <1>1, <2>4, <3>1, <3>5 DEF Served
  <2> QED BY <1>1, <2>1, <2>3, <2>4
<1> QED BY <1>1, <1>2, DataKept

\* The two loops, and the poll.
LEMMA DataLoops ==
    ASSUME IInv, DispatchInv, DataInv,
           CallHandler \/ SkipEntry \/ PassDone \/ HandlerReturns
    PROVE  DataInv'
<1>1. /\ Looping /\ KeepsBuffers /\ UNCHANGED <<fd, nread, out>>
  BY DEF CallHandler, SkipEntry, PassDone, HandlerReturns, linkVars, ioVars, Looping, Ended, KeepsBuffers
<1>2. fired \in Seq(FiredEvent) /\ j \in Nat \ {0} /\ pass \in {R, W} /\ handling \in Mask
  BY DEF IInv, TypeOK, FiredEvent
<1>3. DOMAIN fired = 1 .. Len(fired) /\ Len(fired) \in Nat
  BY <1>2
<1>4. R # W
  BY DEF R, W
<1>5. ASSUME DOMAIN fired' = DOMAIN fired, \A i \in DOMAIN fired : fired'[i].fd = fired[i].fd,
             ASSUME NEW i \in DOMAIN fired, NEW n \in Node, Concerns(i, n)
             PROVE  /\ Chances(i, n) <= Chances(i, n)'
                    /\ Reader(n) /\ pass' = W /\ Served(i)' => pass = W /\ Served(i)
      PROVE  DataInv'
  <2>1. \A i \in DOMAIN fired, n \in Node : Concerns(i, n)' => Concerns(i, n)
    BY <1>1, <1>5 DEF Concerns, Linked
  <2> QED BY <1>1, <1>5, <2>1, DataKept
<1>6. CASE CallHandler
  <2>1. /\ pc = "dispatch" /\ pc' = "handler" /\ UNCHANGED <<fired, j, pass>>
        /\ handling' = fired[j].mask /\ pass \in fired[j].mask
    BY <1>6 DEF CallHandler
  <2>2. ASSUME NEW i \in DOMAIN fired, NEW n \in Node, Concerns(i, n)
        PROVE  /\ Chances(i, n) <= Chances(i, n)'
               /\ Reader(n) /\ pass' = W /\ Served(i)' => pass = W /\ Served(i)
    BY <1>2, <2>1 DEF Chances, Served, Reader
  <2> QED BY <1>5, <2>1, <2>2
<1>7. CASE SkipEntry
  <2>1. /\ pc = "dispatch" /\ pc' = pc /\ UNCHANGED <<fired, pass, handling>> /\ j' = j + 1
        /\ pass \notin el.mask[fired[j].fd] \cap fired[j].mask /\ j \in DOMAIN fired
    BY <1>2, <1>3, <1>7 DEF SkipEntry
  <2>2. ASSUME NEW i \in DOMAIN fired, NEW n \in Node, Concerns(i, n)
        PROVE  /\ Chances(i, n) <= Chances(i, n)'
               /\ Reader(n) /\ pass' = W /\ Served(i)' => pass = W /\ Served(i)
    <3>1. EntryOK(i, n) /\ el.mask[fired[i].fd] = _serialEventFlags(n)
      BY <1>1, <2>2, EntryRegistered DEF DispatchInv, EntriesOK
    <3>2. Reader(n) => W \in _serialEventFlags(n)
      BY DEF Reader, Virtual, _serialEventFlags
    <3>3. i < j + 1 <=> i < j \/ i = j
      BY <1>2, <1>3
    <3>4. Reader(n) /\ pass = W => i # j
      BY <1>2, <2>1, <3>1, <3>2 DEF EntryOK
    <3> QED BY <1>2, <2>1, <3>3, <3>4 DEF Chances, Served, Reader
  <2> QED BY <1>5, <2>1, <2>2
<1>8. CASE PassDone
  <2>1. /\ pc = "dispatch" /\ j > Len(fired) /\ UNCHANGED <<fired, handling>>
        /\ pass = R => pc' = pc /\ pass' = W /\ j' = 1
        /\ pass # R => pc' = "timers" /\ UNCHANGED <<pass, j>>
    BY <1>8 DEF PassDone, StartPass
  <2>2. ASSUME NEW i \in DOMAIN fired, NEW n \in Node, Concerns(i, n)
        PROVE  /\ Chances(i, n) <= Chances(i, n)'
               /\ Reader(n) /\ pass' = W /\ Served(i)' => pass = W /\ Served(i)
    <3>1. i < j /\ ~(i < 1)
      BY <1>2, <1>3, <2>1
    <3> QED BY <1>2, <1>4, <2>1, <3>1 DEF Chances, Served, Reader
  <2> QED BY <1>5, <2>1, <2>2
<1>9. CASE HandlerReturns
  <2>1. /\ pc = "handler" /\ handling = {} /\ fired' = ClearBit /\ j' = j + 1 /\ pc' = "dispatch"
        /\ UNCHANGED pass
    BY <1>9 DEF HandlerReturns
  <2>2. j \in DOMAIN fired
    BY <2>1 DEF IInv, HandlerGetsItsLink
  <2>3. DOMAIN fired' = DOMAIN fired /\ \A i \in DOMAIN fired : fired'[i].fd = fired[i].fd
    BY <1>2, <2>1, <2>2, ClearBitEffect
  <2>4. ASSUME NEW i \in DOMAIN fired, NEW n \in Node, Concerns(i, n)
        PROVE  /\ Chances(i, n) <= Chances(i, n)'
               /\ Reader(n) /\ pass' = W /\ Served(i)' => pass = W /\ Served(i)
    <3>1. i < j + 1 <=> i < j \/ i = j
      BY <1>2, <1>3
    <3> QED BY <2>1, <3>1 DEF Chances, Served, Reader
  <2> QED BY <1>5, <2>3, <2>4
<1> QED BY <1>6, <1>7, <1>8, <1>9

LEMMA DataPolls ==
    ASSUME DispatchInv, DataInv, aeApiPoll
    PROVE  DataInv'
<1>1. pc = "poll" /\ UNCHANGED <<recvbuf, nread, out>>
  BY DEF aeApiPoll, linkVars, ioVars
<1>2. \A n \in Node : recvbuf'[n] = Empty
  BY <1>1 DEF DispatchInv, BuffersOK
<1>3. FromSource' /\ ReadersGetEachChunkOnce'
  BY <1>1 DEF DataInv, FromSource, ReadersGetEachChunkOnce, Input, ConfiguredSource
<1>4. CopiesBounded'
  BY <1>2 DEF CopiesBounded
<1>5. FanoutSoFar'
  BY <1>2, VirtualInput DEF FanoutSoFar
<1> QED BY <1>3, <1>4, <1>5 DEF DataInv

\* A new chunk was written to nobody yet.
LEMMA DataReads ==
    ASSUME IInv, DispatchInv, DataInv, NEW n \in Node, ReadData(n)
    PROVE  DataInv'
<1>1. /\ pc = "handler" /\ pc' = pc /\ handling' = handling \ {R}
      /\ UNCHANGED <<fired, j, pass, fd, out>>
      /\ nread' = [nread EXCEPT ![n] = @ + 1]
      /\ recvbuf' = [recvbuf EXCEPT ![n] = <<n, nread[n] + 1>>]
  BY ReadEffect DEF ReadData, Handling
<1>2. pass = R /\ R # W
  BY ReadsOnce DEF R, W
<1>3. recvbuf \in [Node -> Chunk \cup {Empty}] /\ nread \in [Node -> Nat] /\ out \in [Node -> Seq(Chunk)]
  BY DEF IInv, TypeOK
<1>4. /\ nread'[n] = nread[n] + 1
      /\ \A k \in Node \ {n} : nread'[k] = nread[k] /\ recvbuf'[k] = recvbuf[k]
  BY <1>1, <1>3
<1>5. ReadersGetEachChunkOnce'
  BY <1>1 DEF DataInv, ReadersGetEachChunkOnce
<1>6. FanoutSoFar'
  BY <1>1, <1>2 DEF FanoutSoFar
<1>7. \A k \in Node : Input(k)' = Input(k)
  BY DEF Input, ConfiguredSource
<1>8. ASSUME NEW k \in Node, NEW i \in DOMAIN out[k]
      PROVE  out[k][i] \in Node \X Nat
  <2>1. out[k] \in Seq(Chunk)
    BY <1>3
  <2> QED BY <2>1, EntryType DEF Chunk
<1>9. FromSource'
  <2> SUFFICES ASSUME NEW k \in Node, NEW i \in DOMAIN out[k]
               PROVE  /\ Input(k) \in Node
                      /\ out[k][i][1] = Input(k)
                      /\ out[k][i][2] <= nread'[Input(k)]
    BY <1>1, <1>7 DEF FromSource
  <2>1. Input(k) \in Node /\ out[k][i][1] = Input(k) /\ out[k][i][2] <= nread[Input(k)]
    BY DEF DataInv, FromSource
  <2>2. out[k][i][2] \in Nat
    BY <1>8
  <2>3. nread[Input(k)] \in Nat /\ nread[Input(k)] <= nread'[Input(k)] /\ nread'[Input(k)] \in Nat
    <3>1. nread[Input(k)] \in Nat
      BY <1>3, <2>1
    <3>2. nread'[Input(k)] \in {nread[Input(k)], nread[Input(k)] + 1}
      BY <1>4, <2>1
    <3> QED BY <3>1, <3>2
  <2> QED BY <2>1, <2>2, <2>3
<1>10. CopiesBounded'
  <2> SUFFICES ASSUME NEW i \in DOMAIN fired, NEW k \in Node, Concerns(i, k)', Input(k) \in Node,
                      recvbuf'[Input(k)] # Empty, Looping'
               PROVE  Cardinality(NewestAt(k)') <= Chances(i, k)'
    BY <1>1, <1>7 DEF CopiesBounded
  <2>1. Concerns(i, k) /\ Looping
    BY <1>1 DEF Concerns, Linked, Looping, Ended
  <2>2. Chances(i, k)' = Chances(i, k) /\ Chances(i, k) \in Nat
    BY <1>1, <1>2 DEF Chances, Served, Reader
  <2>3. CASE Input(k) = n
    <3>1. ASSUME NEW x \in DOMAIN out[k] PROVE out[k][x] # <<n, nread'[n]>>
      <4>1. out[k][x][2] <= nread[n] /\ out[k][x][2] \in Nat /\ nread[n] \in Nat
        BY <1>3, <1>8, <2>3 DEF DataInv, FromSource
      <4> QED BY <1>4, <4>1
    <3>2. NewestAt(k)' = {}
      BY <1>1, <1>7, <2>3, <3>1 DEF NewestAt
    <3>3. Cardinality(NewestAt(k)') = 0
      BY <3>2, FS_EmptySet
    <3> QED BY <2>2, <3>3
  <2>4. CASE Input(k) # n
    <3>1. NewestAt(k)' = NewestAt(k)
      BY <1>1, <1>4, <1>7, <2>4 DEF NewestAt
    <3>2. recvbuf[Input(k)] # Empty
      BY <1>4, <2>4
    <3> QED BY <2>1, <2>2, <3>1, <3>2 DEF DataInv, CopiesBounded
  <2> QED BY <2>3, <2>4
<1> QED BY <1>5, <1>6, <1>9, <1>10 DEF DataInv

\* A write uses up a chance of its entry.
LEMMA DataDelivers ==
    ASSUME IInv, DispatchInv, DataInv, NEW n \in Node, Delivers(n)
    PROVE  /\ DataInv'
           /\ Cardinality(NewestAt(n)) < IF Reader(n) THEN 1 ELSE 2
<1> DEFINE s == Input(n)
           c == <<s, nread[s]>>
<1>1. /\ InHandler /\ pc' = "handler" /\ W \notin handling' /\ (pc = "handler" => W \in handling)
      /\ UNCHANGED <<fired, j, pass, nread, fd, recvbuf>>
  BY DEF Delivers
<1>2. /\ s \in Node /\ Looping /\ recvbuf[s] = c /\ nread[s] > 0
      /\ out' = [out EXCEPT ![n] = Append(@, c)]
      /\ j \in DOMAIN fired /\ Concerns(j, n) /\ EntryOK(j, n)
      /\ \A i \in DOMAIN fired : Concerns(i, n) => i = j
  BY DeliversNewest
<1>3. nread \in [Node -> Nat] /\ out \in [Node -> Seq(Chunk)] /\ pass \in {R, W} /\ j \in Nat
  BY DEF IInv, TypeOK
<1>4. c \in Chunk /\ nread[s] \in Nat
  BY <1>2, <1>3 DEF Chunk
<1>5. out[n] \in Seq(Chunk) /\ out'[n] = Append(out[n], c) /\ \A k \in Node \ {n} : out'[k] = out[k]
  BY <1>2, <1>3
<1>6. /\ Len(out[n]) \in Nat /\ DOMAIN out[n] = 1 .. Len(out[n])
      /\ DOMAIN out'[n] = 1 .. Len(out[n]) + 1 /\ Len(out'[n]) = Len(out[n]) + 1
      /\ out'[n][Len(out[n]) + 1] = c
      /\ \A i \in 1 .. Len(out[n]) : out'[n][i] = out[n][i]
  BY <1>4, <1>5
<1>7. \A k \in Node : Input(k)' = Input(k)
  BY DEF Input, ConfiguredSource
<1>8. ~Served(j) /\ Served(j)' /\ \A i \in DOMAIN fired : i # j => Served(i)' = Served(i)
  BY <1>1, <1>3 DEF Served, InHandler
<1>9. Reader(n) => pass = W
  <2>1. pass \in _serialEventFlags(n)
    BY <1>1, <1>2 DEF EntryOK
  <2> QED BY <1>3, <2>1 DEF Reader, Virtual, _serialEventFlags
<1>10. Cardinality(NewestAt(n)) <= Chances(j, n)
  <2>1. recvbuf[s] # Empty
    BY <1>2, AeAssumption DEF Empty, Node
  <2> QED BY <1>2, <2>1 DEF DataInv, CopiesBounded
<1>11. Cardinality(NewestAt(n)) \in Nat /\ NewestAt(n) = At(out[n], c)
  BY NewestIsFinite
<1>12. /\ Chances(j, n) < IF Reader(n) THEN 1 ELSE 2
       /\ Chances(j, n) \in Nat
  BY <1>1, <1>8, <1>9 DEF Chances, Reader
<1>13. Cardinality(NewestAt(n)) < IF Reader(n) THEN 1 ELSE 2
  BY <1>10, <1>11, <1>12
<1>14. Cardinality(NewestAt(n)') = Cardinality(NewestAt(n)) + 1
  <2>1. NewestAt(n)' = At(Append(out[n], c), c)
    BY <1>1, <1>5, <1>7 DEF NewestAt, At
  <2> HIDE DEF c
  <2> QED BY <1>4, <1>5, <1>11, <2>1, AtAppended
<1>15. FromSource'
  <2> SUFFICES ASSUME NEW k \in Node, NEW i \in DOMAIN out'[k]
               PROVE  /\ Input(k) \in Node
                      /\ out'[k][i][1] = Input(k)
                      /\ out'[k][i][2] <= nread[Input(k)]
    BY <1>1, <1>7 DEF FromSource
  <2>1. CASE k = n /\ i = Len(out[n]) + 1
    BY <1>2, <1>4, <1>6, <2>1
  <2>2. CASE k # n \/ i # Len(out[n]) + 1
    <3>1. ASSUME k # n PROVE i \in DOMAIN out[k] /\ out'[k][i] = out[k][i]
      BY <1>5, <3>1
    <3>2. ASSUME k = n PROVE i \in DOMAIN out[k] /\ out'[k][i] = out[k][i]
      <4>1. i \in 1 .. Len(out[n])
        BY <1>6, <2>2, <3>2
      <4> QED BY <1>6, <3>2, <4>1
    <3>3. i \in DOMAIN out[k] /\ out'[k][i] = out[k][i]
      BY <3>1, <3>2
    <3> QED BY <3>3 DEF DataInv, FromSource
  <2> QED BY <2>1, <2>2
<1>16. CopiesBounded'
  <2> SUFFICES ASSUME NEW i \in DOMAIN fired, NEW k \in Node, Concerns(i, k)', Input(k) \in Node,
                      recvbuf[Input(k)] # Empty
               PROVE  Cardinality(NewestAt(k)') <= Chances(i, k)'
    BY <1>1, <1>7 DEF CopiesBounded
  <2>1. Concerns(i, k)
    BY <1>1 DEF Concerns, Linked
  <2>2. CASE k = n
    <3>1. i = j
      BY <1>2, <2>1, <2>2
    <3>2. Chances(i, n)' = Chances(j, n) + 1
      BY <1>1, <1>8, <1>9, <3>1 DEF Chances, Served, Reader
    <3> QED BY <1>10, <1>11, <1>12, <1>14, <2>2, <3>2
  <2>3. CASE k # n
    <3>1. NewestAt(k)' = NewestAt(k)
      BY <1>1, <1>5, <1>7, <2>3 DEF NewestAt
    <3>2. Cardinality(NewestAt(k)) <= Chances(i, k)
      BY <1>2, <2>1 DEF DataInv, CopiesBounded
    <3>3. Chances(i, k) <= Chances(i, k)' /\ Chances(i, k) \in Int /\ Chances(i, k)' \in Int
      <4>1. Served(i) => Served(i)'
        BY <1>8
      <4> QED BY <1>1, <4>1 DEF Chances, Reader
    <3>4. Cardinality(NewestAt(k)) \in Nat
      BY NewestIsFinite
    <3> QED BY <3>1, <3>2, <3>3, <3>4
  <2> QED BY <2>2, <2>3
<1>17. FanoutSoFar'
  <2> SUFFICES ASSUME NEW i \in DOMAIN fired, NEW v \in Virtual \ Writers, Concerns(i, v)',
                      pass = W, Served(i)', recvbuf[VirtualOf[v]] # Empty
               PROVE  out'[v] # <<>> /\ Last(out'[v]) = recvbuf[VirtualOf[v]]
    BY <1>1 DEF FanoutSoFar
  <2>1. Concerns(i, v) /\ v \in Node /\ Input(v) = VirtualOf[v]
    BY <1>1, VirtualInput DEF Concerns, Linked
  <2>2. CASE v = n
    <3>1. out'[n] # <<>> /\ Last(out'[n]) = c
      BY <1>4, <1>5, <1>6 DEF Last
    <3> QED BY <1>2, <2>1, <2>2, <3>1
  <2>3. CASE v # n
    <3>1. i # j
      <4>1. \A x, y \in Node : Linked(x) /\ fd[x] = fd[y] => x = y
        BY DEF IInv, FdOwnership
      <4> QED BY <1>2, <2>1, <2>3, <4>1 DEF Concerns
    <3>2. Served(i) /\ out'[v] = out[v]
      BY <1>5, <1>8, <2>1, <2>3, <3>1
    <3> QED BY <1>2, <2>1, <3>2 DEF DataInv, FanoutSoFar
  <2> QED BY <2>2, <2>3
<1>18. ReadersGetEachChunkOnce'
  <2> SUFFICES ASSUME NEW v \in Virtual \ Writers, NEW i \in 1 .. Len(out'[v]) - 1
               PROVE  Newer(out'[v][i], out'[v][i + 1])
    BY DEF ReadersGetEachChunkOnce
  <2>0. v \in Node
    BY VirtualInput
  <2>1. CASE v # n
    <3>1. out'[v] = out[v]
      BY <1>5, <2>0, <2>1
    <3> QED BY <3>1 DEF DataInv, ReadersGetEachChunkOnce
  <2>2. CASE v = n /\ i # Len(out[n])
    <3>1. i \in 1 .. Len(out[n]) - 1 /\ i \in 1 .. Len(out[n]) /\ i + 1 \in 1 .. Len(out[n])
      BY <1>6, <2>2
    <3>2. Newer(out[n][i], out[n][i + 1])
      BY <2>2, <3>1 DEF DataInv, ReadersGetEachChunkOnce
    <3> QED BY <1>6, <2>2, <3>1, <3>2
  <2>3. CASE v = n /\ i = Len(out[n])
    <3>1. i \in DOMAIN out[n] /\ out'[n][i] = out[n][i] /\ out'[n][i + 1] = c
      BY <1>6, <2>3
    <3>2. out[n][i] \in Node \X Nat /\ out[n][i][1] = s /\ out[n][i][2] <= nread[s]
      BY <1>5, <3>1, EntryType DEF DataInv, FromSource, Chunk
    <3>3. out[n][i] # c
      <4>1. Cardinality(NewestAt(n)) = 0
        BY <1>11, <1>13, <2>3 DEF Reader
      <4>2. NewestAt(n) = {}
        BY <4>1, NewestIsFinite, FS_EmptySet
      <4> QED BY <3>1, <4>2 DEF NewestAt
    <3>4. out[n][i] = <<out[n][i][1], out[n][i][2]>>
      BY <3>2
    <3>5. out[n][i][2] < nread[s]
      BY <1>4, <3>2, <3>3, <3>4
    <3> QED BY <2>3, <3>1, <3>5 DEF Newer
  <2> QED BY <2>1, <2>2, <2>3
<1> QED BY <1>13, <1>15, <1>16, <1>17, <1>18 DEF DataInv

\* Every step keeps the account of what was written.
LEMMA DataStep == IInv /\ DispatchInv /\ DataInv /\ [Next]_vars => DataInv'
<1> SUFFICES ASSUME IInv, DispatchInv, DataInv, [Next]_vars PROVE DataInv'
  OBVIOUS
<1>1. StepKinds
  BY StepHasKind
<1> QED BY <1>1, DataRests, DataWorks, DataDelivers, DataReads, DataLoops, DataPolls DEF StepKinds

\* DataInv holds in every reachable state.
LEMMA DataInductive == Spec => []DataInv
<1>1. Init => DataInv
  <2> SUFFICES ASSUME Init PROVE DataInv
    OBVIOUS
  <2>1. out = [n \in Node |-> <<>>] /\ fired = <<>>
    BY DEF Init
  <2>2. DOMAIN fired = {} /\ \A n \in Node : DOMAIN out[n] = {} /\ Len(out[n]) = 0
    BY <2>1
  <2>3. ReadersGetEachChunkOnce
    BY <2>2, VirtualInput DEF ReadersGetEachChunkOnce
  <2> QED BY <2>2, <2>3 DEF DataInv, FromSource, CopiesBounded, FanoutSoFar
<1>2. IInv /\ DispatchInv /\ DataInv /\ [Next]_vars => DataInv'
  BY DataStep
<1> QED BY <1>1, <1>2, Inductive, DispatchInductive, PTL DEF Spec

-----------------------------------------------------------------------------
\* A virtual that is not a writer gets the chunks of its master in order and none of them
\* twice, whatever is lost, reconnected or blocked (serial.c:412-432, ae.c:395-404).
THEOREM ReadersSeeChunksOnce == Spec => []ReadersGetEachChunkOnce
BY DataInductive, PTL DEF DataInv

\* Data never crosses from one device to another, whatever descriptors are closed and
\* reused on the way, and a device only gets the data of the first virtual flagged as its
\* writer (serial.c:342-364, 581-614, 676-690).
THEOREM DataIsRouted == Spec => []RoutingCorrect
<1>1. DataInv => RoutingCorrect
  BY DEF DataInv, FromSource, RoutingCorrect, Input
<1> QED BY <1>1, DataInductive, PTL

\* At the end of the dispatch every reader that was reported writable and kept its link
\* has what its master read in this iteration (ae.c:385-404).
THEOREM FanoutIsComplete == Spec => []FanoutComplete
<1>1. DispatchInv /\ DataInv => FanoutComplete
  <2> SUFFICES ASSUME DispatchInv, DataInv, pc = "timers", NEW v \in Virtual \ Writers,
                      Linked(v), HasInput(v), NEW i \in DOMAIN fired, fired[i].fd = fd[v]
               PROVE  out[v] # <<>> /\ Last(out[v]) = recvbuf[VirtualOf[v]]
    BY DEF FanoutComplete
  <2>1. pass = W /\ i < j /\ Looping
    BY DEF DispatchInv, FiredOK, Looping, Ended
  <2>2. recvbuf[VirtualOf[v]] # Empty
    BY DEF HasInput, SourceOf, Virtual
  <2>3. Concerns(i, v) /\ Served(i)
    BY <2>1 DEF Concerns, Served
  <2> QED BY <2>1, <2>2, <2>3 DEF DataInv, FanoutSoFar
<1> QED BY <1>1, DispatchInductive, DataInductive, PTL

\* The daemon implements the abstract relay: a step of it reads a chunk, passes the newest
\* one of the configured source on, once to a reader and at most twice to anybody else, or
\* does nothing to the data (serial.c:556-614, ae.c:385-404).
THEOREM ImplementsRelay == Spec => RelaySpec
<1>1. Init => Relayed!RelayInit
  BY DEF Init, Relayed!RelayInit
<1>2. IInv /\ DispatchInv /\ DataInv /\ [Next]_vars => [Relayed!RelayNext]_(Relayed!relayVars)
  <2> SUFFICES ASSUME IInv, DispatchInv, DataInv, [Next]_vars
               PROVE  UNCHANGED <<nread, out>> \/ Relayed!RelayNext
    BY DEF Relayed!relayVars
  <2>1. StepKinds
    BY StepHasKind
  <2>2. CASE Rests \/ Leaves \/ Idles \/ Works
    BY <2>2 DEF Rests, Leaves, Idles, Works
  <2>3. CASE CallHandler \/ SkipEntry \/ PassDone \/ HandlerReturns \/ aeApiPoll
    BY <2>3 DEF CallHandler, SkipEntry, PassDone, HandlerReturns, aeApiPoll, ioVars
  <2>4. ASSUME NEW n \in Node, ReadData(n) PROVE Relayed!RelayNext
    <3>1. Relayed!Read(n)
      BY <2>4, ReadEffect DEF ReadData, Relayed!Read
    <3> QED BY <3>1 DEF Relayed!RelayNext
  <2>5. ASSUME NEW n \in Node, Delivers(n) PROVE Relayed!RelayNext
    <3>1. /\ Input(n) \in Node /\ nread[Input(n)] > 0
          /\ out' = [out EXCEPT ![n] = Append(@, <<Input(n), nread[Input(n)]>>)]
      BY <2>5, DeliversNewest
    <3>2. nread' = nread
      BY <2>5 DEF Delivers
    <3>3. Input(n) # NoClient
      BY <3>1, AeAssumption DEF Node
    <3>4. Relayed!Newest(n) = <<Input(n), nread[Input(n)]>>
      BY DEF Relayed!Newest, Input
    <3>5. Relayed!Times(n) = Cardinality(NewestAt(n))
      BY <3>4 DEF Relayed!Times, NewestAt, Relayed!Cardinality, Cardinality
    <3>6. Cardinality(NewestAt(n)) < IF n \in Virtual \ Writers THEN 1 ELSE 2
      BY <2>5, DataDelivers DEF Reader
    <3>7. Relayed!Send(n)
      BY <3>1, <3>2, <3>3, <3>4, <3>5, <3>6 DEF Relayed!Send, Input
    <3> QED BY <3>7 DEF Relayed!RelayNext
  <2> QED BY <2>1, <2>2, <2>3, <2>4, <2>5 DEF StepKinds
<1> QED BY <1>1, <1>2, Inductive, DispatchInductive, DataInductive, PTL
        DEF Spec, RelaySpec, Relayed!Promise
=============================================================================
