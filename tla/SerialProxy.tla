----------------------------- MODULE SerialProxy -----------------------------
(***************************************************************************)
(* The running daemon: the serial nodes and their links (src/src/serial.c),*)
(* driven by the event loop (aeMain, aeProcessEvents of src/src/ae.c) and  *)
(* by the cron and the signal handler of src/src/server.c, from serialInit *)
(* (configuration loaded) to the end of main.                              *)
(*                                                                         *)
(* The process is a single thread, so the daemon is one control point `pc' *)
(* that walks the loop; what interleaves with it is the environment: data  *)
(* and hang-ups on the devices, signals, applications that stop reading.   *)
(* A link is identified with its node once it has one: a node has a link   *)
(* exactly when fd[n] # -1.  `link' is the one that _serialCreateLink is   *)
(* making.  Descriptors are numbers, reused by the kernel: `file' tells    *)
(* which node's terminal is behind one, and what is read or written is     *)
(* found through it.  Data are chunks: the k-th successful read() on the   *)
(* terminal of node n is the pair <<n, k>>, and out[n] is what was written *)
(* to that terminal.                                                       *)
(***************************************************************************)
EXTENDS AeFileEvents, SerialLists

CONSTANTS Masters,            \* the nodes with SERIAL_FLAG_MASTER
          MasterList,         \* server.serial.master_head, in list order
          VirtualOf,          \* node->virtualof of each virtual
          VirtualList,        \* virtual_head of each master, in list order
          Writers,            \* the nodes with SERIAL_FLAG_WRITER
          Reserved,           \* descriptors open before serialInit
          EpFd,               \* the epoll descriptor, one of them
          NPts,               \* pseudo-terminals the kernel has for the daemon
          Hz,                 \* server.hz
          ReconnectInterval,  \* server.reconnect_interval, in ms
          Pidfile,            \* server.pidfile: "unset", "present" or "absent"
          MaxReads,           \* bound: chunks read, for each node
          MaxFaults           \* bound: unplugs, hang-ups and failing calls

Node == Client
Virtual == Client \ Masters

ASSUME SerialAssumption ==
    /\ ProperLists(Client, Masters, MasterList, VirtualOf, VirtualList, Writers)
    /\ Reserved \subseteq Fd /\ EpFd \in Reserved
    /\ NPts \in Nat \ {0}
    /\ Hz \in 1 .. 500 /\ ReconnectInterval \in Nat \ {0}
    /\ Pidfile \in {"unset", "present", "absent"}
    /\ MaxReads \in [Client -> Nat] /\ MaxFaults \in Nat

VARIABLES virtuals,   \* virtual_head of each master
          fd, sfd,    \* link->fd and link->sfd of each node, -1 without a link
          pts,        \* index of the pseudo-terminal of each virtual
          recvbuf,    \* the chunk in link->recvbuf, Empty when recvbuflen = 0
          link,       \* the local link of _serialCreateLink, not yet its node's
          file,       \* the kernel: the node whose terminal a descriptor leads to
          symlink,    \* the pts index that the virtual's name points to
          nread, out, \* chunks read from, and written to, each node
          present,    \* the masters whose device exists
          hung,       \* the links whose device hung up
          faults,     \* how much of MaxFaults is used
          pc, todo,   \* control point; nodes still to visit
          fired, j,   \* eventLoop->fired and the loop index of aeProcessEvents
          pass,       \* R in its first loop, W in its second
          handling,   \* what is left of the mask of the running handler
          shutdown, cronloops, pidfile,   \* fields of server
          stop        \* eventLoop->stop

linkVars == <<el, opened, file, fd, sfd, pts, recvbuf, link>>
ioVars == <<nread, out>>
envVars == <<present, hung, faults>>
loopVars == <<fired, j, pass, handling>>
serverVars == <<shutdown, cronloops, pidfile, stop>>
vars == <<linkVars, virtuals, symlink, ioVars, envVars, pc, todo, loopVars, serverVars>>

None == -1
Pts == 0 .. NPts - 1

\* The link before open() or openpty(), and when there is none.
NoLink == [fd |-> None, sfd |-> None, pts |-> None]

Chunk == Node \X Nat
Empty == <<NoClient, 0>>

Linked(n) == fd[n] # None

\* Cron runs between two reconnection rounds; cronloops is kept modulo this.
Period == IF ReconnectInterval <= 1000 \div Hz THEN 1
          ELSE ReconnectInterval \div (1000 \div Hz)

-----------------------------------------------------------------------------
(***************************************************************************)
(* Nodes and links                                                         *)
(***************************************************************************)

HasWriter(m) == \E i \in DOMAIN virtuals[m] : virtuals[m][i] \in Writers

\* Mutant: the search does not stop at the first one.
BugLastWriter(m) ==
    IF HasWriter(m)
    THEN LET i == CHOOSE i \in DOMAIN virtuals[m] :
                    /\ virtuals[m][i] \in Writers
                    /\ \A k \in i + 1 .. Len(virtuals[m]) : virtuals[m][k] \notin Writers
         IN  virtuals[m][i]
    ELSE NoClient

\* The first flagged virtual of the list: the only one whose data is used.
serialGetVirtualWriterNode(m) ==
    IF HasWriter(m)
    THEN LET i == CHOOSE i \in DOMAIN virtuals[m] :
                    /\ virtuals[m][i] \in Writers
                    /\ \A k \in 1 .. i - 1 : virtuals[m][k] \notin Writers
         IN  virtuals[m][i]
    ELSE NoClient

_serialEventFlags(n) ==
    IF n \in Masters THEN {R} \cup (IF HasWriter(n) THEN {W} ELSE {})
                     ELSE {W} \cup (IF n \in Writers THEN {R} ELSE {})

\* Mutant: the slave side stays open.
BugMasterSideOnly(n) == {fd[n]}

Descriptors(n) == {fd[n], sfd[n]}

\* Mutant: the link is not unregistered before it is closed.
BugStillRegistered(n) == el

Unregister(n) == aeDeleteFileEvent(el, fd[n], _serialEventFlags(n))

CloseAll(S) == /\ opened' = opened \ S
               /\ file' = [f \in Fd |-> IF f \in S THEN NoClient ELSE file[f]]

\* _serialFreeLink of a link that has its node: unregister, forget the link, close
\* both descriptors.  The kernel drops the pseudo-terminal with them; the symbolic
\* link stays.
_serialFreeLink(n) ==
    /\ el' = KernelClose(Unregister(n), fd[n])
    /\ CloseAll(Descriptors(n))
    /\ fd' = [fd EXCEPT ![n] = None]
    /\ sfd' = [sfd EXCEPT ![n] = None]
    /\ pts' = [pts EXCEPT ![n] = None]
    /\ recvbuf' = [recvbuf EXCEPT ![n] = Empty]
    /\ hung' = hung \ {n}
    /\ UNCHANGED link

\* Mutant: the slave side of a link without a node stays open.
BugSlaveStaysOpen == {link.fd}

NewDescriptors == {link.fd, link.sfd}

\* _serialFreeLink of a link that never got its node: it was not registered, no node
\* forgets it, its descriptors are closed all the same.
FreeNewLink ==
    /\ CloseAll(NewDescriptors)
    /\ link' = NoLink
    /\ UNCHANGED <<el, fd, sfd, pts, recvbuf>>

\* open() and openpty() leave the terminal of n behind f (and g).
Opens(n, f, g, p) ==
    /\ opened' = opened \cup ({f, g} \ {None})
    /\ file' = [h \in Fd |-> IF h \in {f, g} THEN n ELSE file[h]]
    /\ link' = [fd |-> f, sfd |-> g, pts |-> p]
    /\ UNCHANGED <<el, fd, sfd, pts, recvbuf>>

\* The successful end of _serialCreateLink: the link is registered and becomes its
\* node's.  The result of aeCreateFileEvent is not looked at.
LinkNode(n) ==
    /\ el' = aeCreateFileEvent(el, link.fd, _serialEventFlags(n), n)
    /\ fd' = [fd EXCEPT ![n] = link.fd]
    /\ sfd' = [sfd EXCEPT ![n] = link.sfd]
    /\ pts' = [pts EXCEPT ![n] = link.pts]
    /\ recvbuf' = [recvbuf EXCEPT ![n] = Empty]
    /\ link' = NoLink
    /\ UNCHANGED <<opened, file>>

UsedPts == {pts[v] : v \in Virtual}
LowestPts(p) == p \in Pts \ UsedPts /\ \A q \in Pts \ UsedPts : p <= q

\* _serialReconnect goes on with the virtuals of a connected master.
Descend(n) == (IF n \in Masters THEN virtuals[n] ELSE <<>>) \o Tail(todo)

Reconnecting(n) == pc = "reconnect" /\ todo # <<>> /\ n = Head(todo)

AlreadyConnected(n) ==
    /\ Reconnecting(n)
    /\ Linked(n)
    /\ todo' = Descend(n)
    /\ UNCHANGED <<linkVars, virtuals, symlink, ioVars, envVars, pc, loopVars, serverVars>>

OpenMaster(n) ==
    /\ Reconnecting(n)
    /\ n \in Masters /\ ~Linked(n) /\ n \in present
    /\ \E f \in Fd : Lowest(f, opened) /\ Opens(n, f, None, None)
    /\ pc' = "setup"
    /\ UNCHANGED <<virtuals, symlink, ioVars, envVars, todo, loopVars, serverVars>>

\* openpty takes the master side first, then the slave.
OpenVirtual(n) ==
    /\ Reconnecting(n)
    /\ n \in Virtual /\ ~Linked(n)
    /\ \E f, g \in Fd, p \in Pts :
          /\ Lowest(f, opened) /\ Lowest(g, opened \cup {f}) /\ LowestPts(p)
          /\ Opens(n, f, g, p)
    /\ pc' = "setup"
    /\ UNCHANGED <<virtuals, symlink, ioVars, envVars, todo, loopVars, serverVars>>

\* open() or openpty() has what it needs: the device, descriptors, a terminal.
CanOpen(n) == IF n \in Masters
              THEN n \in present /\ opened # Fd
              ELSE ~(Pts \subseteq UsedPts) /\ \E f, g \in Fd \ opened : f # g

\* open() or openpty() fails, for want of something or otherwise: nothing to close.
OpenFails(n) ==
    /\ Reconnecting(n)
    /\ ~Linked(n)
    /\ \/ ~CanOpen(n) /\ UNCHANGED faults
       \/ faults < MaxFaults /\ faults' = faults + 1
    /\ todo' = Tail(todo)
    /\ UNCHANGED <<linkVars, virtuals, symlink, ioVars, present, hung, pc, loopVars, serverVars>>

\* _serialCreateLink has opened a terminal for n.
SettingUp(n) == pc = "setup" /\ n = Head(todo)

\* Mutant: the name is not removed first, so that an old one stays.
BugKeepsOldName(n, p) == [symlink EXCEPT ![n] = IF @ = None THEN p ELSE @]

\* remove() and symlink(): the name leads to terminal p.
Repoint(n, p) == [symlink EXCEPT ![n] = p]

\* The name, the terminal's settings and the registration: everything works.
SetUp(n) ==
    /\ SettingUp(n)
    /\ n \notin hung
    /\ LinkNode(n)
    /\ symlink' = IF n \in Virtual THEN Repoint(n, link.pts) ELSE symlink
    /\ pc' = "reconnect"
    /\ todo' = Descend(n)
    /\ UNCHANGED <<virtuals, ioVars, envVars, loopVars, serverVars>>

\* The err path.  A call fails because the device is gone already, or otherwise.  For a
\* virtual the name was by then left alone (remove() and hence symlink() failed),
\* removed (symlink() failed) or repointed to the dying pseudo-terminal (tcgetattr()
\* or tcsetattr() failed).
SetupFails(n) ==
    /\ SettingUp(n)
    /\ \/ n \in hung /\ UNCHANGED faults
       \/ faults < MaxFaults /\ faults' = faults + 1
    /\ FreeNewLink
    /\ hung' = hung \ {n}
    /\ IF n \in Masters THEN UNCHANGED symlink
       ELSE \E s \in {symlink[n], None, link.pts} : symlink' = [symlink EXCEPT ![n] = s]
    /\ pc' = "reconnect"
    /\ todo' = Tail(todo)
    /\ UNCHANGED <<virtuals, ioVars, present, loopVars, serverVars>>

\* The test of aeMain's loop: sleep again, or leave it for serialTerm.
LoopTest(stopped) == /\ pc' = IF stopped THEN "term" ELSE "sleep"
                     /\ todo' = IF stopped THEN MasterList ELSE <<>>

ReconnectDone ==
    /\ pc = "reconnect" /\ todo = <<>>
    /\ LoopTest(stop)
    /\ UNCHANGED <<linkVars, virtuals, symlink, ioVars, envVars, loopVars, serverVars>>

_serialReconnect ==
    \/ \E n \in Node : \/ AlreadyConnected(n)
                       \/ OpenMaster(n) \/ OpenVirtual(n) \/ OpenFails(n)
                       \/ SetUp(n) \/ SetupFails(n)
    \/ ReconnectDone

-----------------------------------------------------------------------------
(***************************************************************************)
(* The event loop                                                          *)
(***************************************************************************)

\* Mutant: the buffers are not reset.
BugNoReset == recvbuf

ResetBuffers == [n \in Node |-> Empty]

\* Every link's recvbuflen is reset, whatever was still undelivered.
serialBeforeSleep ==
    /\ pc = "sleep"
    /\ recvbuf' = ResetBuffers
    /\ pc' = "poll"
    /\ UNCHANGED <<el, opened, file, fd, sfd, pts, link, virtuals, symlink, ioVars, envVars,
                   todo, loopVars, serverVars>>

Watched == {n \in Node : Linked(n) /\ el.epoll[fd[n]] # {}}

\* What a read() or write() on the link of n works on.
Terminal(n) == file[fd[n]]

Interest(n) == (IF R \in el.epoll[fd[n]] THEN {"EPOLLIN"} ELSE {}) \cup
               (IF W \in el.epoll[fd[n]] THEN {"EPOLLOUT"} ELSE {})

\* What epoll_wait may say of a node: ERR and HUP are reported whether asked for or
\* not, and a terminal that hung up is always readable and writable.
Reports(n) ==
    IF n \in hung THEN {Interest(n) \cup {"EPOLLERR", "EPOLLHUP"}}
    ELSE {E \in SUBSET Interest(n) : "EPOLLIN" \in E => nread[Terminal(n)] < MaxReads[Terminal(n)]}

\* Mutant: the second loop starts at the second entry.
BugSecondPassLate(bit) == pass' = bit /\ j' = IF bit = W THEN 2 ELSE 1

\* The two loops of aeProcessEvents over the fired entries.
StartPass(bit) == pass' = bit /\ j' = 1

\* epoll_wait returns, in any order, what happened; nothing when the timer is due.
aeApiPoll ==
    /\ pc = "poll"
    /\ \E ev \in [Watched -> UNION {Reports(n) : n \in Watched}] :
          /\ \A n \in Watched : ev[n] \in Reports(n)
          /\ \E order \in SetToSeqs({n \in Watched : ev[n] # {}}) :
                fired' = [i \in DOMAIN order |->
                            [fd |-> fd[order[i]], mask |-> aeApiPollMask(ev[order[i]])]]
    /\ pc' = "dispatch" /\ StartPass(R)
    /\ UNCHANGED <<linkVars, virtuals, symlink, ioVars, envVars, todo, handling, serverVars>>

\* The registration is looked up again for every entry: a handler that ran before
\* may have deleted it.  The handler gets the whole fired mask.
CallHandler ==
    /\ pc = "dispatch" /\ j <= Len(fired)
    /\ pass \in el.mask[fired[j].fd] \cap fired[j].mask
    /\ handling' = fired[j].mask
    /\ pc' = "handler"
    /\ UNCHANGED <<linkVars, virtuals, symlink, ioVars, envVars, todo, fired, j, pass, serverVars>>

SkipEntry ==
    /\ pc = "dispatch" /\ j <= Len(fired)
    /\ pass \notin el.mask[fired[j].fd] \cap fired[j].mask
    /\ j' = j + 1
    /\ UNCHANGED <<linkVars, virtuals, symlink, ioVars, envVars, pc, todo, fired, pass, handling,
                   serverVars>>

PassDone ==
    /\ pc = "dispatch" /\ j > Len(fired)
    /\ IF pass = R THEN pc' = pc /\ StartPass(W)
                   ELSE pc' = "timers" /\ UNCHANGED <<pass, j>>
    /\ UNCHANGED <<linkVars, virtuals, symlink, ioVars, envVars, todo, fired, handling, serverVars>>

\* Mutant: the bit is not cleared.
BugBitStays == fired

ClearBit == [fired EXCEPT ![j].mask = @ \ {pass}]

\* Back in aeProcessEvents: the bit of this pass is cleared.
HandlerReturns ==
    /\ pc = "handler" /\ handling = {}
    /\ fired' = ClearBit
    /\ j' = j + 1
    /\ pc' = "dispatch"
    /\ UNCHANGED <<linkVars, virtuals, symlink, ioVars, envVars, todo, pass, handling, serverVars>>

-----------------------------------------------------------------------------
(***************************************************************************)
(* _serialEventHandler: the read part, then the write part, of the link    *)
(* that events[fd].clientData points to                                    *)
(***************************************************************************)

Current == el.data[fired[j].fd]

Handling(n, bit) == /\ pc = "handler" /\ n = Current
                    /\ bit \in handling
                    /\ bit = W => R \notin handling
                    /\ handling' = handling \ {bit}

ReadData(n) ==
    /\ Handling(n, R)
    /\ n \notin hung /\ nread[Terminal(n)] < MaxReads[Terminal(n)]
    /\ nread' = [nread EXCEPT ![Terminal(n)] = @ + 1]
    /\ recvbuf' = [recvbuf EXCEPT ![n] = <<Terminal(n), nread[Terminal(n)] + 1>>]
    /\ UNCHANGED <<el, opened, file, fd, sfd, pts, link, virtuals, symlink, out, envVars, pc,
                   todo, fired, j, pass, serverVars>>

ReadError(n) ==
    /\ Handling(n, R)
    /\ n \in hung
    /\ _serialFreeLink(n)
    /\ UNCHANGED <<virtuals, symlink, ioVars, present, faults, pc, todo, fired, j, pass,
                   serverVars>>

\* read() of a hung-up terminal returns 0 and leaves errno alone: if it happens to
\* be EAGAIN the link stays.
ReadErrorIgnored(n) ==
    /\ Handling(n, R)
    /\ n \in hung
    /\ faults < MaxFaults
    /\ faults' = faults + 1
    /\ UNCHANGED <<linkVars, virtuals, symlink, ioVars, present, hung, pc, todo, fired, j, pass,
                   serverVars>>

_serialReadHandler(n) == ReadData(n) \/ ReadError(n) \/ ReadErrorIgnored(n)

\* The node whose receive buffer is written to n, NoClient when there is none.
SourceOf(n) == IF n \in Masters THEN serialGetVirtualWriterNode(n) ELSE VirtualOf[n]

HasInput(n) == SourceOf(n) # NoClient /\ Linked(SourceOf(n)) /\ recvbuf[SourceOf(n)] # Empty

\* The source's buffer goes to whatever terminal the link's descriptor leads to.
Deliver(n) == out' = [out EXCEPT ![Terminal(n)] = Append(@, recvbuf[SourceOf(n)])]

NothingToWrite(n) ==
    /\ Handling(n, W)
    /\ Linked(n) /\ ~HasInput(n)
    /\ UNCHANGED <<linkVars, virtuals, symlink, ioVars, envVars, pc, todo, fired, j, pass,
                   serverVars>>

WriteDone(n) ==
    /\ Handling(n, W)
    /\ Linked(n) /\ HasInput(n) /\ n \notin hung
    /\ Deliver(n)
    /\ UNCHANGED <<linkVars, virtuals, symlink, nread, envVars, pc, todo, fired, j, pass,
                   serverVars>>

WriteError(n) ==
    /\ Handling(n, W)
    /\ Linked(n) /\ HasInput(n) /\ n \in hung
    /\ _serialFreeLink(n)
    /\ UNCHANGED <<virtuals, symlink, ioVars, present, faults, pc, todo, fired, j, pass,
                   serverVars>>

\* The descriptors are blocking: a write() larger than the room left does not return.
WriteBlocks(n) ==
    /\ Handling(n, W)
    /\ Linked(n) /\ HasInput(n) /\ n \notin hung
    /\ pc' = "blocked"
    /\ UNCHANGED <<linkVars, virtuals, symlink, ioVars, envVars, todo, fired, j, pass, serverVars>>

\* The read part freed the link and the write part uses it: undefined behaviour.
\* Nothing comes of it, or the process dies (the write fails and the memory is
\* freed again).
UseAfterFree(n) ==
    /\ Handling(n, W)
    /\ ~Linked(n)
    /\ pc' \in {pc, "crashed"}
    /\ UNCHANGED <<linkVars, virtuals, symlink, ioVars, envVars, todo, fired, j, pass, serverVars>>

_serialWriteHandler(n) == \/ NothingToWrite(n) \/ WriteDone(n) \/ WriteError(n)
                          \/ WriteBlocks(n) \/ UseAfterFree(n)

\* A blocked write() returns: complete because the reader drained the terminal, short
\* or failed because it hung up.
WriteReturns(n) ==
    /\ pc = "blocked" /\ n = Current
    /\ pc' = "handler"
    /\ \/ Deliver(n) /\ UNCHANGED <<linkVars, hung>>
       \/ n \in hung /\ _serialFreeLink(n) /\ UNCHANGED out
    /\ UNCHANGED <<virtuals, symlink, nread, present, faults, todo, loopVars, serverVars>>

-----------------------------------------------------------------------------
(***************************************************************************)
(* Cron, signals, shutdown                                                 *)
(***************************************************************************)

\* The fired entries are dead after this iteration.
ForgetFired == fired' = <<>> /\ j' = 1 /\ pass' = R /\ UNCHANGED handling

\* Mutant: the loop counter runs over its period.
BugCronOverruns == (cronloops + 1) % (Period + 1)

NextCronloop == (cronloops + 1) % Period

\* Mutant: the reconnection waits for a count that never comes.
BugNeverDue == cronloops = Period

\* run_with_period(server.reconnect_interval)
ReconnectDue == cronloops = 0

\* Mutant: aeStop is forgotten.
BugNeverStops == stop

\* aeStop, when a signal asked for it.
StopAfterCron == stop \/ shutdown

serverCron ==
    /\ pc = "timers"
    /\ stop' = StopAfterCron
    /\ pidfile' = IF shutdown /\ pidfile = "present" THEN "absent" ELSE pidfile
    /\ cronloops' = NextCronloop
    /\ IF ReconnectDue THEN pc' = "reconnect" /\ todo' = MasterList
                       ELSE LoopTest(StopAfterCron)
    /\ ForgetFired
    /\ UNCHANGED <<linkVars, virtuals, symlink, ioVars, envVars, shutdown>>

TimerNotDue ==
    /\ pc = "timers"
    /\ pc' = "sleep"
    /\ ForgetFired
    /\ UNCHANGED <<linkVars, virtuals, symlink, ioVars, envVars, todo, serverVars>>

\* serialRemoveVirtualNode never advances prev: whichever virtual is found, the
\* whole list is dropped.
serialRemoveVirtualNode(m, v) ==
    virtuals' = [virtuals EXCEPT ![m] = IF v \in Range(@) THEN <<>> ELSE @]

Terminating(n) == pc = "term" /\ todo # <<>> /\ n = Head(todo)

CloseLink(n) == IF Linked(n) THEN _serialFreeLink(n) ELSE UNCHANGED <<linkVars, hung>>

\* serialTerm closes the virtuals of a master before the master itself.
TermVirtuals(n) ==
    /\ Terminating(n)
    /\ n \in Masters /\ virtuals[n] # <<>>
    /\ todo' = virtuals[n] \o todo
    /\ UNCHANGED <<linkVars, virtuals, symlink, ioVars, envVars, pc, loopVars, serverVars>>

\* Mutant: the name is only removed with a link.
BugNameStays(n) == IF Linked(n) THEN [symlink EXCEPT ![n] = None] ELSE symlink

\* serialFreeNode removes the name, link or no link.
RemoveName(n) == [symlink EXCEPT ![n] = None]

TermVirtual(n) ==
    /\ Terminating(n)
    /\ n \in Virtual
    /\ CloseLink(n)
    /\ symlink' = RemoveName(n)
    /\ serialRemoveVirtualNode(VirtualOf[n], n)
    /\ todo' = Tail(todo)
    /\ UNCHANGED <<ioVars, present, faults, pc, loopVars, serverVars>>

TermMaster(n) ==
    /\ Terminating(n)
    /\ n \in Masters /\ virtuals[n] = <<>>
    /\ CloseLink(n)
    /\ todo' = Tail(todo)
    /\ UNCHANGED <<virtuals, symlink, ioVars, present, faults, pc, loopVars, serverVars>>

\* serverTerm, aeDeleteEventLoop and the return of main.
serverTerm ==
    /\ pc = "term" /\ todo = <<>>
    /\ opened' = opened \ {EpFd}
    /\ pc' = "exited"
    /\ UNCHANGED <<el, file, fd, sfd, pts, recvbuf, link, virtuals, symlink, ioVars, envVars,
                   todo, loopVars, serverVars>>

serialTerm == \E n \in Node : TermVirtuals(n) \/ TermVirtual(n) \/ TermMaster(n)

Ended == pc \in {"exited", "killed", "crashed"}

\* SIGTERM, or the first SIGINT.  There is no SA_RESTART: epoll_wait returns with
\* nothing, a blocked write() returns short or fails.
Signal ==
    /\ ~Ended
    /\ shutdown' = TRUE
    /\ UNCHANGED <<virtuals, symlink, nread, present, faults, todo, loopVars,
                   cronloops, pidfile, stop>>
    /\ \/ /\ pc \notin {"poll", "blocked"}
          /\ UNCHANGED <<pc, linkVars, hung, out>>
       \/ /\ pc = "poll" /\ pc' = "timers"
          /\ UNCHANGED <<linkVars, hung, out>>
       \/ /\ pc = "blocked" /\ pc' = "handler"
          /\ \/ Deliver(Current) /\ UNCHANGED <<linkVars, hung>>
             \/ _serialFreeLink(Current) /\ UNCHANGED out

\* The second SIGINT: exit(1) from the handler, no cleaning up.
SecondSigint ==
    /\ ~Ended
    /\ shutdown
    /\ pc' = "killed"
    /\ UNCHANGED <<linkVars, virtuals, symlink, ioVars, envVars, todo, loopVars, serverVars>>

-----------------------------------------------------------------------------
(***************************************************************************)
(* The devices and the applications                                        *)
(***************************************************************************)

Plug(m) ==
    /\ ~Ended
    /\ m \notin present
    /\ present' = present \cup {m}
    /\ UNCHANGED <<linkVars, virtuals, symlink, ioVars, hung, faults, pc, todo, loopVars, serverVars>>

Unplug(m) ==
    /\ ~Ended
    /\ m \in present /\ faults < MaxFaults
    /\ present' = present \ {m}
    /\ hung' = IF Linked(m) \/ SettingUp(m) THEN hung \cup {m} ELSE hung
    /\ faults' = faults + 1
    /\ UNCHANGED <<linkVars, virtuals, symlink, ioVars, pc, todo, loopVars, serverVars>>

\* The pseudo-terminal of a virtual goes into an error state.
Hangup(v) ==
    /\ ~Ended
    /\ Linked(v) /\ v \notin hung /\ faults < MaxFaults
    /\ hung' = hung \cup {v}
    /\ faults' = faults + 1
    /\ UNCHANGED <<linkVars, virtuals, symlink, ioVars, present, pc, todo, loopVars, serverVars>>

Environment == \/ Signal \/ SecondSigint
               \/ \E m \in Masters : Plug(m) \/ Unplug(m)
               \/ \E v \in Virtual : Hangup(v)
               \/ \E n \in Node : WriteReturns(n)

Daemon == \/ _serialReconnect \/ serialBeforeSleep
          \/ aeApiPoll \/ CallHandler \/ SkipEntry \/ PassDone \/ HandlerReturns
          \/ \E n \in Node : _serialReadHandler(n) \/ _serialWriteHandler(n)
          \/ serverCron \/ TimerNotDue
          \/ serialTerm \/ serverTerm

\* A process that ended stays ended.
Terminated == Ended /\ UNCHANGED vars

Init ==
    /\ el = aeCreateEventLoop
    /\ opened = Reserved
    /\ virtuals = VirtualList
    /\ fd = [n \in Node |-> None]
    /\ sfd = [n \in Node |-> None]
    /\ pts = [n \in Node |-> None]
    /\ recvbuf = [n \in Node |-> Empty]
    /\ link = NoLink /\ file = [f \in Fd |-> NoClient]
    \* names may be left over from an instance that was killed
    /\ symlink \in [Virtual -> {None} \cup Pts]
    /\ nread = [n \in Node |-> 0]
    /\ out = [n \in Node |-> <<>>]
    /\ present \in SUBSET Masters
    /\ hung = {} /\ faults = 0
    /\ pc = "reconnect" /\ todo = MasterList
    /\ fired = <<>> /\ j = 1 /\ pass = R /\ handling = {}
    /\ shutdown = FALSE /\ stop = FALSE /\ cronloops = 0 /\ pidfile = Pidfile

Next == Daemon \/ Environment \/ Terminated

Spec == Init /\ [][Next]_vars

\* The process keeps running, and its timer comes due again and again: serverCron
\* asks for 1000/hz <= 1000 ms and every iteration sleeps for a second.
Fairness == WF_vars(Daemon) /\ SF_vars(serverCron)

FairSpec == Spec /\ Fairness

-----------------------------------------------------------------------------
(***************************************************************************)
(* Safety                                                                  *)
(***************************************************************************)

\* The types of the links, of the loop and of the server's fields.
TypeOK ==
    /\ AeTypeOK
    /\ virtuals \in [Masters -> Seq(Virtual)]
    /\ fd \in [Node -> {None} \cup Fd] /\ sfd \in [Node -> {None} \cup Fd]
    /\ pts \in [Node -> {None} \cup Pts] /\ symlink \in [Virtual -> {None} \cup Pts]
    /\ recvbuf \in [Node -> Chunk \cup {Empty}] /\ nread \in [Node -> Nat]
    /\ link \in [fd : {None} \cup Fd, sfd : {None} \cup Fd, pts : {None} \cup Pts]
    /\ file \in [Fd -> Node \cup {NoClient}]
    /\ out \in [Node -> Seq(Chunk)]
    /\ present \subseteq Masters /\ hung \subseteq Node /\ faults \in 0 .. MaxFaults
    /\ pc \in {"reconnect", "setup", "sleep", "poll", "dispatch", "handler", "blocked",
               "timers", "term", "exited", "killed", "crashed"}
    /\ todo \in Seq(Node)
    /\ fired \in Seq([fd : Fd, mask : Mask]) /\ j \in Nat \ {0}
    /\ pass \in {R, W} /\ handling \in Mask
    /\ shutdown \in BOOLEAN /\ stop \in BOOLEAN /\ cronloops \in 0 .. Period - 1
    /\ pidfile \in {"unset", "present", "absent"}

\* The descriptors of a link, and of the one that is being made.
Held(n) == {fd[n], sfd[n]} \ {None}
InMaking == {link.fd, link.sfd} \ {None}

Owned == InMaking \cup UNION {Held(n) : n \in Node}

\* Descriptors are neither leaked nor shared: what is open beyond the descriptors of
\* the start is exactly fd and sfd of the links and of the link in the making, each
\* owned by one of them, through every order of connection, I/O error and failed
\* connection (serial.c:112-132, 298-302, 342-360).
FdOwnership ==
    /\ ~Ended => opened = Reserved \cup Owned
    /\ Owned \cap Reserved = {}
    /\ \A n \in Node : sfd[n] # None <=> n \in Virtual /\ Linked(n)
    /\ \A n, k \in Node : /\ Linked(n) /\ fd[n] = fd[k] => n = k
                          /\ sfd[n] # None /\ sfd[n] = sfd[k] => n = k
                          /\ Linked(n) => fd[n] # sfd[k]
    /\ \A n \in Node : Held(n) \cap InMaking = {}

TableMatchesLinks ==
    /\ \A n \in Node : Linked(n) /\ fd[n] < el.setsize =>
          el.mask[fd[n]] = _serialEventFlags(n) /\ el.data[fd[n]] = n
    /\ \A f \in Fd : /\ el.epoll[f] = el.mask[f]
                     /\ el.mask[f] # {} => f < el.setsize /\ \E n \in Node : fd[n] = f

\* While the loop runs, table, interest list and links agree: a link that fits in the
\* table is registered with its own flags and as its own clientData, and nothing
\* else is registered (serial.c:289-296, 342-350).  It is the discipline that
\* AeFileEvents asks of its clients: a descriptor is unregistered when it is closed.
RegistrationConsistent == pc # "term" /\ ~Ended => TableMatchesLinks

\* A handler is called with the link of the descriptor that fired; its read part, and
\* a write() it is blocked in, always find that link alive and, for the write, its
\* source too: no descriptor is closed and reused between epoll_wait and the
\* dispatch of its events (ae.c:385-404, serial.c:535-579).
HandlerGetsItsLink ==
    /\ pc \in {"handler", "blocked"} =>
          /\ j \in DOMAIN fired
          /\ Current \in Node
          /\ fd[Current] \in {fired[j].fd, None}
    /\ pc = "handler" /\ R \in handling => Linked(Current)
    /\ pc = "blocked" => Linked(Current) /\ HasInput(Current) /\ handling = {}

Newer(c, d) == c[2] < d[2]

\* A virtual that is not a writer gets each chunk of its master at most once and in
\* order: its handler only runs in the second pass, and the buffers are reset
\* before the next one (serial.c:412-432, ae.c:395-404).
ReadersGetEachChunkOnce ==
    \A v \in Virtual \ Writers : \A i \in 1 .. Len(out[v]) - 1 : Newer(out[v][i], out[v][i + 1])

\* A link is read at most once between two resets: a chunk is never overwritten in
\* its buffer, and no second read() can block on a descriptor that was drained
\* (ae.c:390-393, serial.c:597-614).
NoBufferOverwrite ==
    [][\A n \in Node : recvbuf[n] # Empty /\ recvbuf'[n] # Empty => recvbuf'[n] = recvbuf[n]]_vars

\* The node that n receives from, by the configuration alone: a virtual from its master,
\* a master from the first of its virtuals that is flagged.
ConfiguredSource(n) ==
    IF n \in Virtual THEN VirtualOf[n]
    ELSE LET list == VirtualList[n]
             flagged == {i \in DOMAIN list : list[i] \in Writers}
         IN  IF flagged = {} THEN NoClient
             ELSE list[CHOOSE i \in flagged : \A k \in flagged : i <= k]

\* Data never crosses from one device to another, whatever descriptors were closed and
\* reused, and a device is only ever written by one virtual, even when several are
\* flagged as writers (serial.c:581-595, 676-690).
RoutingCorrect == \A n \in Node : \A i \in DOMAIN out[n] : out[n][i][1] = ConfiguredSource(n)

Relayed == INSTANCE Relay WITH
              Port <- Node, NoPort <- NoClient,
              Source <- [n \in Node |-> ConfiguredSource(n)],
              Copies <- [n \in Node |-> IF n \in Virtual \ Writers THEN 1 ELSE 2],
              read <- nread, sent <- out

\* The daemon implements the abstract relay: every write passes on the newest chunk of
\* the configured source, once to a reader and at most twice to a writer or a device,
\* whatever links were lost and reopened meanwhile (serial.c:556-614, ae.c:385-404).
RelaySpec == Relayed!Promise

\* The fan-out: when the dispatch ends, every reader that was reported writable and
\* kept its link has what its master read in this iteration, whatever the order of
\* the events, unless the master itself was lost meanwhile (ae.c:385-404).
FanoutComplete ==
    pc = "timers" =>
        \A v \in Virtual \ Writers :
            LET m == VirtualOf[v]
            IN  (Linked(v) /\ HasInput(v) /\ \E i \in DOMAIN fired : fired[i].fd = fd[v])
                    => out[v] # <<>> /\ Last(out[v]) = recvbuf[m]

\* The name of a connected virtual leads to its own pseudo-terminal, whatever an
\* earlier instance or a failed attempt left behind (serial.c:128-132).
NameLeadsToTerminal ==
    \A v \in Virtual : Linked(v) /\ pc # "exited" => symlink[v] = pts[v] /\ pts[v] # None

\* An orderly exit leaves nothing: no name, no descriptor, no pid file
\* (serial.c:711-748, server.c:78-86, 144-162).
CleanExit ==
    pc = "exited" => /\ \A v \in Virtual : symlink[v] = None
                     /\ \A n \in Node : ~Linked(n)
                     /\ opened = Reserved \ {EpFd}
                     /\ pidfile # "present"

-----------------------------------------------------------------------------
(***************************************************************************)
(* Liveness.  A blocked write() is the business of the application behind  *)
(* the virtual: both properties assume that no write blocks for ever.      *)
(***************************************************************************)

NoWriteBlocksForever == []<>(pc # "blocked")

\* A device that stays plugged in ends up connected for good, over a link that works
\* (serial.c:371-410, server.c:95-97), unless the process was told to stop or died.
MasterReconnected ==
    \A m \in Masters :
        NoWriteBlocksForever /\ <>[](m \in present)
            => <>(shutdown \/ Ended) \/ <>[](Linked(m) /\ m \notin hung)

\* A signal leads to the end of the process (server.c:50-54, 88-93).
ShutdownCompletes == NoWriteBlocksForever => (shutdown ~> Ended)

-----------------------------------------------------------------------------
(***************************************************************************)
(* What comments and documentation say and the code does not do            *)
(***************************************************************************)

\* serial.c:542 "Could be closed if an error occurred while processing a read
\* event": the handler is never at work on a link that was freed.
HandlerLinkAlive == pc = "handler" /\ handling # {} => Linked(Current)

\* README.md:3-6, several applications "receive raw data from a single serial port
\* and pretend it is reading from a physical device": every chunk once, for a
\* writer too.
EveryoneGetsEachChunkOnce ==
    \A n \in Node : \A i \in 1 .. Len(out[n]) - 1 : Newer(out[n][i], out[n][i + 1])

\* README.md:3-5, data goes to the devices' "respective pseudo-terminals": a name
\* never leads to the terminal of another virtual.
NamesNotCrossed ==
    pc \in {"sleep", "poll"} =>
        \A v, u \in Virtual : symlink[v] # None /\ symlink[v] = pts[u] => u = v
=============================================================================
