------------------------- MODULE SerialProxy_proofs -------------------------
(***************************************************************************)
(* Proofs about SerialProxy, for every configuration of masters, virtuals  *)
(* and writers, every descriptor limit and set size, and every bound.      *)
(*                                                                         *)
(* One inductive invariant, IInv, carries the type invariant, the          *)
(* ownership of descriptors, where they lead, the agreement of links and   *)
(* registrations, and what a handler may assume of its link.  None is      *)
(* inductive alone: the type of the loop needs that only a live link is    *)
(* freed, which the handler part says; that one needs the registrations    *)
(* when a handler is called; those need that no two links share a          *)
(* descriptor; and the ownership needs to know what the link in the making *)
(* holds.                                                                  *)
(***************************************************************************)
EXTENDS SerialProxy, AeFileEvents_proofs, FiniteSetTheorems

\* The lists of nodes that the configuration leaves.
LEMMA ConfiguredLists ==
    /\ Masters \subseteq Client /\ IsFiniteSet(Client)
    /\ MasterList \in Seq(Masters) /\ Range(MasterList) = Masters
    /\ VirtualOf \in [Virtual -> Masters]
    /\ VirtualList \in [Masters -> Seq(Virtual)]
    /\ \A m \in Masters : Range(VirtualList[m]) = {v \in Virtual : VirtualOf[v] = m}
    /\ Writers \subseteq Virtual
BY SerialAssumption DEF ProperLists, Virtual

\* Descriptors lead where they should: that of a link to the terminal of its node, that
\* of the link in the making to the node it is made for (serial.c:108-133).
LinksLeadHome ==
    /\ \A n \in Node : Linked(n) => Terminal(n) = n
    /\ pc = "setup" =>
          /\ todo # <<>> /\ ~Linked(Head(todo))
          /\ link.fd # None /\ link.sfd # link.fd /\ file[link.fd] = Head(todo)
          /\ link.sfd # None <=> Head(todo) \in Virtual
          /\ link.pts # None <=> Head(todo) \in Virtual
    /\ pc # "setup" /\ ~Ended => link = NoLink

IInv == /\ TypeOK /\ FdOwnership /\ LinksLeadHome
        /\ RegistrationConsistent /\ HandlerGetsItsLink

\* There is at least one cron run to a reconnection period (server.h:40-41).
LEMMA PeriodPositive == Period \in Nat \ {0}
<1>1. PICK d \in 1 .. 1000 : d = 1000 \div Hz
  BY SerialAssumption
<1>2. ReconnectInterval \in Nat \ {0}
  BY SerialAssumption
<1>3. ASSUME ~(ReconnectInterval <= d) PROVE ReconnectInterval \div d \in Nat \ {0}
  BY <1>2, <1>3
<1> QED BY <1>1, <1>2, <1>3 DEF Period

\* Every node asks for at least one event, and a mask of known ones (serial.c:307-324).
LEMMA FlagsType == ASSUME NEW n \in Node
                   PROVE  _serialEventFlags(n) \in Mask /\ _serialEventFlags(n) # {}
BY DEF _serialEventFlags, Mask

LinkTypeOK ==
    /\ AeTypeOK
    /\ fd \in [Node -> {None} \cup Fd] /\ sfd \in [Node -> {None} \cup Fd]
    /\ pts \in [Node -> {None} \cup Pts] /\ recvbuf \in [Node -> Chunk \cup {Empty}]
    /\ link \in [fd : {None} \cup Fd, sfd : {None} \cup Fd, pts : {None} \cup Pts]
    /\ file \in [Fd -> Node \cup {NoClient}]

\* _serialFreeLink keeps the types and the clientData of every descriptor.
LEMMA FreeLinkType ==
    ASSUME LinkTypeOK, hung \subseteq Node, NEW n \in Node, Linked(n), _serialFreeLink(n)
    PROVE  /\ LinkTypeOK' /\ hung' \subseteq Node
           /\ el'.data = el.data /\ el'.setsize = el.setsize
<1>1. fd[n] \in Fd
  BY DEF LinkTypeOK, Linked
<1>2. el \in EventLoop
  BY DEF LinkTypeOK, AeTypeOK
<1> DEFINE l == aeDeleteFileEvent(el, fd[n], _serialEventFlags(n))
<1>3. l \in EventLoop /\ l.data = el.data /\ l.setsize = el.setsize
  BY <1>1, <1>2, FlagsType, DeleteEffect
<1>4. el' = KernelClose(l, fd[n])
  BY DEF _serialFreeLink, Unregister
<1>5. el' \in EventLoop /\ el'.data = el.data /\ el'.setsize = el.setsize
  BY <1>1, <1>3, <1>4, CloseEffect
<1>6. opened' \subseteq Fd /\ hung' \subseteq Node
  BY DEF _serialFreeLink, CloseAll, LinkTypeOK, AeTypeOK
<1>7. /\ fd' \in [Node -> {None} \cup Fd] /\ sfd' \in [Node -> {None} \cup Fd]
      /\ pts' \in [Node -> {None} \cup Pts]
  BY DEF _serialFreeLink, LinkTypeOK
<1>8. recvbuf' \in [Node -> Chunk \cup {Empty}] /\ UNCHANGED link
  BY DEF _serialFreeLink, LinkTypeOK
<1>9. file' \in [Fd -> Node \cup {NoClient}]
  BY DEF _serialFreeLink, CloseAll, LinkTypeOK
<1> QED BY <1>5, <1>6, <1>7, <1>8, <1>9 DEF LinkTypeOK, AeTypeOK

\* The successful end of _serialCreateLink keeps the types.
LEMMA LinkNodeType ==
    ASSUME LinkTypeOK, NEW n \in Node, link.fd # None, LinkNode(n)
    PROVE  LinkTypeOK'
<1>0. link.fd \in Fd /\ link.sfd \in {None} \cup Fd /\ link.pts \in {None} \cup Pts
  BY DEF LinkTypeOK
<1>1. el' \in EventLoop
  BY <1>0, FlagsType, CreateEffect DEF LinkNode, LinkTypeOK, AeTypeOK, Node
<1>2. /\ fd' \in [Node -> {None} \cup Fd] /\ sfd' \in [Node -> {None} \cup Fd]
      /\ pts' \in [Node -> {None} \cup Pts]
  BY <1>0 DEF LinkNode, LinkTypeOK
<1>3. recvbuf' \in [Node -> Chunk \cup {Empty}] /\ UNCHANGED <<opened, file>>
  BY DEF LinkNode, LinkTypeOK
<1>4. link' \in [fd : {None} \cup Fd, sfd : {None} \cup Fd, pts : {None} \cup Pts]
  BY DEF LinkNode, NoLink
<1> QED BY <1>1, <1>2, <1>3, <1>4 DEF LinkTypeOK, AeTypeOK

\* So do open() and openpty(), and the err path.
LEMMA OpensType ==
    ASSUME LinkTypeOK, NEW n \in Node, NEW f \in Fd, NEW g \in {None} \cup Fd,
           NEW p \in {None} \cup Pts, Opens(n, f, g, p)
    PROVE  LinkTypeOK'
<1>1. opened' \subseteq Fd
  BY DEF Opens, LinkTypeOK, AeTypeOK
<1>2. file' \in [Fd -> Node \cup {NoClient}]
  BY DEF Opens, LinkTypeOK
<1>3. link' \in [fd : {None} \cup Fd, sfd : {None} \cup Fd, pts : {None} \cup Pts]
  BY DEF Opens
<1> QED BY <1>1, <1>2, <1>3 DEF Opens, LinkTypeOK, AeTypeOK

LEMMA FreeNewLinkType ==
    ASSUME LinkTypeOK, FreeNewLink
    PROVE  LinkTypeOK'
<1>1. opened' \subseteq Fd
  BY DEF FreeNewLink, CloseAll, LinkTypeOK, AeTypeOK
<1>2. file' \in [Fd -> Node \cup {NoClient}]
  BY DEF FreeNewLink, CloseAll, LinkTypeOK
<1>3. link' \in [fd : {None} \cup Fd, sfd : {None} \cup Fd, pts : {None} \cup Pts]
  BY DEF FreeNewLink, NoLink
<1> QED BY <1>1, <1>2, <1>3 DEF FreeNewLink, LinkTypeOK, AeTypeOK

\* A list of virtuals, or of masters, is a list of nodes.
LEMMA SeqOfSubset == ASSUME NEW S, NEW T, S \subseteq T, NEW s \in Seq(S) PROVE s \in Seq(T)
OBVIOUS

\* Sequences as functions: a function on 1..n is one, an entry has the element type,
\* and replacing an entry keeps the type.
LEMMA FunctionIsSeq == ASSUME NEW S, NEW n \in Nat, NEW f \in [1 .. n -> S] PROVE f \in Seq(S)
OBVIOUS

LEMMA EntryType == ASSUME NEW S, NEW s \in Seq(S), NEW i \in DOMAIN s PROVE s[i] \in S
OBVIOUS

LEMMA ExceptIsSeq ==
    ASSUME NEW S, NEW s \in Seq(S), NEW i \in DOMAIN s, NEW x \in S
    PROVE  /\ [s EXCEPT ![i] = x] \in Seq(S)
           /\ DOMAIN [s EXCEPT ![i] = x] = DOMAIN s
           /\ [s EXCEPT ![i] = x][i] = x
           /\ \A k \in DOMAIN s \ {i} : [s EXCEPT ![i] = x][k] = s[k]
<1>1. s \in [1 .. Len(s) -> S] /\ Len(s) \in Nat
  OBVIOUS
<1>2. [s EXCEPT ![i] = x] \in [1 .. Len(s) -> S]
  BY <1>1
<1> QED BY <1>1, <1>2, FunctionIsSeq

\* An entry of eventLoop->fired.
FiredEvent == [fd : Fd, mask : Mask]

\* The rest of the type invariant.
RestTypeOK ==
    /\ virtuals \in [Masters -> Seq(Virtual)]
    /\ symlink \in [Virtual -> {None} \cup Pts]
    /\ nread \in [Node -> Nat] /\ out \in [Node -> Seq(Chunk)]
    /\ present \subseteq Masters /\ hung \subseteq Node /\ faults \in 0 .. MaxFaults
    /\ pc \in {"reconnect", "setup", "sleep", "poll", "dispatch", "handler", "blocked",
               "timers", "term", "exited", "killed", "crashed"}
    /\ todo \in Seq(Node)
    /\ fired \in Seq([fd : Fd, mask : Mask]) /\ j \in Nat \ {0}
    /\ pass \in {R, W} /\ handling \in Mask
    /\ shutdown \in BOOLEAN /\ stop \in BOOLEAN /\ cronloops \in 0 .. Period - 1
    /\ pidfile \in {"unset", "present", "absent"}

\* The walks of _serialReconnect and serialTerm over the lists stay lists of nodes.
LEMMA TodoType ==
    ASSUME RestTypeOK
    PROVE  /\ MasterList \in Seq(Node)
           /\ todo # <<>> => /\ Head(todo) \in Node /\ Tail(todo) \in Seq(Node)
                             /\ \A n \in Node : Descend(n) \in Seq(Node)
                             /\ \A m \in Masters : virtuals[m] \o todo \in Seq(Node)
<1>1. MasterList \in Seq(Node)
  BY ConfiguredLists, SeqOfSubset DEF Node
<1>2. \A m \in Masters : virtuals[m] \in Seq(Node)
  <2> TAKE m \in Masters
  <2>1. virtuals[m] \in Seq(Virtual)
    BY DEF RestTypeOK
  <2>2. Virtual \subseteq Node
    BY DEF Virtual, Node
  <2> QED BY <2>1, <2>2, SeqOfSubset
<1>3. todo \in Seq(Node)
  BY DEF RestTypeOK
<1>4. ASSUME todo # <<>> PROVE Head(todo) \in Node /\ Tail(todo) \in Seq(Node)
  BY <1>3, <1>4
<1>5. ASSUME todo # <<>>, NEW n \in Node PROVE Descend(n) \in Seq(Node)
  <2>1. CASE n \in Masters
    BY <1>2, <1>4, <1>5, <2>1 DEF Descend
  <2>2. CASE n \notin Masters
    BY <1>4, <1>5, <2>2 DEF Descend
  <2> QED BY <2>1, <2>2
<1> QED BY <1>1, <1>2, <1>3, <1>4, <1>5

\* What a handler writes is a chunk of a node (serial.c:581-595).
LEMMA DeliverType ==
    ASSUME LinkTypeOK, RestTypeOK, NEW n \in Node, Terminal(n) = n, HasInput(n), Deliver(n)
    PROVE  out' \in [Node -> Seq(Chunk)]
<1>1. SourceOf(n) \in Node
  <2>1. CASE n \in Masters
    <3>1. HasWriter(n)
      BY <2>1 DEF HasInput, SourceOf, serialGetVirtualWriterNode
    <3> DEFINE First(i) == /\ virtuals[n][i] \in Writers
                           /\ \A k \in 1 .. i - 1 : virtuals[n][k] \notin Writers
               i == CHOOSE i \in DOMAIN virtuals[n] : First(i)
    <3>2. SourceOf(n) = virtuals[n][i]
      BY <2>1, <3>1 DEF SourceOf, serialGetVirtualWriterNode
    <3>3. \E k \in DOMAIN virtuals[n] : First(k)
      <4> DEFINE T == {k \in DOMAIN virtuals[n] : virtuals[n][k] \in Writers}
      <4>0. DOMAIN virtuals[n] \subseteq Nat /\ \A x \in DOMAIN virtuals[n] :
                  x > 0 /\ \A y \in 1 .. x - 1 : y \in DOMAIN virtuals[n]
        BY <2>1 DEF RestTypeOK
      <4>1. T \subseteq Nat /\ T # {}
        BY <3>1, <4>0 DEF HasWriter
      <4>2. PICK k \in T : \A l \in T : k <= l
        <5> HIDE DEF T
        <5> QED BY <4>1, LeastNatural
      <4>3. ASSUME NEW y \in 1 .. k - 1, virtuals[n][y] \in Writers PROVE FALSE
        BY <4>0, <4>1, <4>2, <4>3
      <4> QED BY <4>3
    <3>4. i \in DOMAIN virtuals[n]
      <4> HIDE DEF First
      <4> QED BY <3>3
    <3>5. virtuals[n] \in Seq(Virtual)
      BY <2>1 DEF RestTypeOK
    <3> HIDE DEF i
    <3> QED BY <3>2, <3>4, <3>5 DEF Virtual, Node
  <2>2. CASE n \notin Masters
    BY <2>2, ConfiguredLists DEF SourceOf, Virtual, Node
  <2> QED BY <2>1, <2>2
<1>2. recvbuf[SourceOf(n)] \in Chunk
  BY <1>1 DEF LinkTypeOK, HasInput
<1> HIDE DEF RestTypeOK
<1>3. out \in [Node -> Seq(Chunk)]
  BY DEF RestTypeOK
<1>4. Append(out[n], recvbuf[SourceOf(n)]) \in Seq(Chunk)
  BY <1>2, <1>3
<1> QED BY <1>3, <1>4 DEF Deliver

\* Clearing a bit changes one mask and no descriptor (ae.c:392, 402).
LEMMA ClearBitEffect ==
    ASSUME fired \in Seq(FiredEvent), j \in DOMAIN fired
    PROVE  /\ ClearBit \in Seq(FiredEvent) /\ DOMAIN ClearBit = DOMAIN fired
           /\ \A i \in DOMAIN fired : ClearBit[i].fd = fired[i].fd
<1>1. fired[j] \in FiredEvent
  BY EntryType
<1> DEFINE e == [fired[j] EXCEPT !.mask = @ \ {pass}]
<1>2. e \in FiredEvent /\ e.fd = fired[j].fd
  BY <1>1 DEF FiredEvent, Mask
<1>3. ClearBit = [fired EXCEPT ![j] = e]
  BY DEF ClearBit
<1> HIDE DEF e
<1> QED BY <1>2, <1>3, ExceptIsSeq

\* Every step of daemon and environment keeps the types.
LEMMA TypeStep == IInv /\ [Next]_vars => TypeOK'
<1> SUFFICES ASSUME IInv, [Next]_vars PROVE TypeOK'
  OBVIOUS
<1>a. LinkTypeOK /\ RestTypeOK
  BY DEF IInv, TypeOK, LinkTypeOK, RestTypeOK
<1>b. HandlerGetsItsLink
  BY DEF IInv
<1>d. LinksLeadHome
  BY DEF IInv
<1> SUFFICES LinkTypeOK' /\ RestTypeOK'
  BY DEF TypeOK, LinkTypeOK, RestTypeOK
<1>c. UNCHANGED linkVars => LinkTypeOK'
  BY <1>a DEF linkVars, LinkTypeOK, AeTypeOK
<1>1. ASSUME NEW n \in Node, AlreadyConnected(n) PROVE LinkTypeOK' /\ RestTypeOK'
  <2>1. todo' \in Seq(Node)
    BY <1>a, <1>1, TodoType DEF AlreadyConnected, Reconnecting
  <2> QED BY <1>a, <1>c, <1>1, <2>1 DEF AlreadyConnected, RestTypeOK, ioVars, envVars, loopVars, serverVars
<1>2. ASSUME NEW n \in Node, OpenMaster(n) PROVE LinkTypeOK' /\ RestTypeOK'
  <2>1. PICK f \in Fd : Opens(n, f, None, None)
    BY <1>2 DEF OpenMaster
  <2>2. LinkTypeOK'
    BY <1>a, <2>1, OpensType
  <2> QED BY <1>a, <1>2, <2>2 DEF OpenMaster, RestTypeOK, ioVars, envVars, loopVars, serverVars
<1>3. ASSUME NEW n \in Node, OpenVirtual(n) PROVE LinkTypeOK' /\ RestTypeOK'
  <2>1. PICK f \in Fd, g \in Fd, p \in Pts : Opens(n, f, g, p)
    BY <1>3 DEF OpenVirtual
  <2>2. LinkTypeOK'
    BY <1>a, <2>1, OpensType
  <2> QED BY <1>a, <1>3, <2>2 DEF OpenVirtual, RestTypeOK, ioVars, envVars, loopVars, serverVars
<1>4. ASSUME NEW n \in Node, OpenFails(n) PROVE LinkTypeOK' /\ RestTypeOK'
  <2>1. todo' \in Seq(Node)
    BY <1>a, <1>4, TodoType DEF OpenFails, Reconnecting
  <2>2. faults' \in 0 .. MaxFaults
    BY <1>a, <1>4, SerialAssumption DEF OpenFails, RestTypeOK
  <2> QED BY <1>a, <1>c, <1>4, <2>1, <2>2 DEF OpenFails, RestTypeOK, ioVars, loopVars, serverVars
<1>5. ASSUME NEW n \in Node, SetUp(n) PROVE LinkTypeOK' /\ RestTypeOK'
  <2>0. todo # <<>> /\ link.fd # None
    BY <1>d, <1>5 DEF SetUp, SettingUp, LinksLeadHome
  <2>1. todo' \in Seq(Node)
    BY <1>a, <1>5, <2>0, TodoType DEF SetUp
  <2>2. symlink' \in [Virtual -> {None} \cup Pts]
    <3>1. link.pts \in {None} \cup Pts
      BY <1>a DEF LinkTypeOK
    <3> QED BY <1>a, <1>5, <3>1 DEF SetUp, Repoint, RestTypeOK
  <2>3. LinkTypeOK'
    BY <1>a, <1>5, <2>0, LinkNodeType DEF SetUp
  <2> QED BY <1>a, <1>5, <2>1, <2>2, <2>3
          DEF SetUp, RestTypeOK, ioVars, envVars, loopVars, serverVars
<1>5a. ASSUME NEW n \in Node, SetupFails(n) PROVE LinkTypeOK' /\ RestTypeOK'
  <2>0. todo # <<>>
    BY <1>d, <1>5a DEF SetupFails, SettingUp, LinksLeadHome
  <2>1. todo' \in Seq(Node)
    BY <1>a, <1>5a, <2>0, TodoType DEF SetupFails
  <2>2. symlink' \in [Virtual -> {None} \cup Pts]
    <3>1. CASE n \in Masters
      BY <1>a, <1>5a, <3>1 DEF SetupFails, RestTypeOK
    <3>2. CASE n \notin Masters
      <4>1. \E s \in {symlink[n], None, link.pts} : symlink' = [symlink EXCEPT ![n] = s]
        BY <1>5a, <3>2 DEF SetupFails
      <4>2. n \in Virtual /\ link.pts \in {None} \cup Pts
        BY <1>a, <3>2 DEF Virtual, Node, LinkTypeOK
      <4> QED BY <1>a, <4>1, <4>2 DEF RestTypeOK
    <3> QED BY <3>1, <3>2
  <2>3. faults' \in 0 .. MaxFaults /\ hung' \subseteq Node
    BY <1>a, <1>5a, SerialAssumption DEF SetupFails, RestTypeOK
  <2>4. LinkTypeOK'
    BY <1>a, <1>5a, FreeNewLinkType DEF SetupFails
  <2> QED BY <1>a, <1>5a, <2>1, <2>2, <2>3, <2>4
          DEF SetupFails, RestTypeOK, ioVars, loopVars, serverVars
<1>6. ASSUME ReconnectDone PROVE LinkTypeOK' /\ RestTypeOK'
  <2>1. todo' \in Seq(Node) /\ pc' \in {"term", "sleep"}
    BY <1>a, <1>6, TodoType DEF ReconnectDone, LoopTest
  <2> QED BY <1>a, <1>c, <1>6, <2>1 DEF ReconnectDone, RestTypeOK, ioVars, envVars, loopVars, serverVars
<1>7. ASSUME serialBeforeSleep PROVE LinkTypeOK' /\ RestTypeOK'
  BY <1>a, <1>7 DEF serialBeforeSleep, ResetBuffers, LinkTypeOK, AeTypeOK, RestTypeOK, ioVars, envVars,
                    loopVars, serverVars
<1>8. ASSUME aeApiPoll PROVE LinkTypeOK' /\ RestTypeOK'
  <2>0. PICK ev \in [Watched -> UNION {Reports(n) : n \in Watched}] :
           \E order \in SetToSeqs({n \in Watched : ev[n] # {}}) :
             fired' = [i \in DOMAIN order |->
                         [fd |-> fd[order[i]], mask |-> aeApiPollMask(ev[order[i]])]]
    BY <1>8 DEF aeApiPoll
  <2> DEFINE S == {n \in Watched : ev[n] # {}}
  <2>1. PICK order \in SetToSeqs(S) :
             fired' = [i \in DOMAIN order |->
                         [fd |-> fd[order[i]], mask |-> aeApiPollMask(ev[order[i]])]]
    BY <2>0
  <2>2. Cardinality(S) \in Nat
    <3>1. S \subseteq Client /\ IsFiniteSet(Client)
      BY ConfiguredLists DEF Watched, Node
    <3>2. IsFiniteSet(S)
      BY <3>1, FS_Subset
    <3> QED BY <3>2, FS_CardinalityType
  <2>3. order \in [1 .. Cardinality(S) -> S]
    BY DEF SetToSeqs
  <2>4. \A i \in DOMAIN order : fd[order[i]] \in Fd /\ aeApiPollMask(ev[order[i]]) \in Mask
    <3> TAKE i \in DOMAIN order
    <3>1. order[i] \in Watched
      BY <2>3
    <3> QED BY <1>a, <3>1 DEF Watched, Linked, LinkTypeOK, aeApiPollMask, Mask
  <2>5. fired' \in [1 .. Cardinality(S) -> [fd : Fd, mask : Mask]]
    BY <2>1, <2>3, <2>4
  <2>6. fired' \in Seq([fd : Fd, mask : Mask])
    <3> HIDE DEF S
    <3> QED BY <2>2, <2>5, FunctionIsSeq
  <2> QED BY <1>a, <1>c, <1>8, <2>6 DEF aeApiPoll, StartPass, RestTypeOK, ioVars, envVars, serverVars
<1>9. ASSUME CallHandler PROVE LinkTypeOK' /\ RestTypeOK'
  <2>1. handling' \in Mask
    <3>1. fired \in Seq(FiredEvent) /\ j \in DOMAIN fired
      BY <1>a, <1>9 DEF CallHandler, RestTypeOK, FiredEvent
    <3>2. fired[j] \in FiredEvent
      BY <3>1, EntryType
    <3> QED BY <1>9, <3>2 DEF CallHandler, FiredEvent
  <2> QED BY <1>a, <1>c, <1>9, <2>1 DEF CallHandler, RestTypeOK, ioVars, envVars, serverVars
<1>10. ASSUME SkipEntry PROVE LinkTypeOK' /\ RestTypeOK'
  BY <1>a, <1>c, <1>10 DEF SkipEntry, RestTypeOK, ioVars, envVars, serverVars
<1>11. ASSUME PassDone PROVE LinkTypeOK' /\ RestTypeOK'
  BY <1>a, <1>c, <1>11 DEF PassDone, StartPass, RestTypeOK, ioVars, envVars, serverVars
<1>12. ASSUME HandlerReturns PROVE LinkTypeOK' /\ RestTypeOK'
  <2>1. j \in DOMAIN fired /\ fired \in Seq(FiredEvent)
    BY <1>a, <1>b, <1>12 DEF HandlerReturns, HandlerGetsItsLink, RestTypeOK, FiredEvent
  <2>2. fired' \in Seq(FiredEvent)
    BY <1>12, <2>1, ClearBitEffect DEF HandlerReturns
  <2>3. fired' \in Seq([fd : Fd, mask : Mask])
    BY <2>2 DEF FiredEvent
  <2> QED BY <1>a, <1>c, <1>12, <2>3 DEF HandlerReturns, RestTypeOK, ioVars, envVars, serverVars
<1>13. ASSUME NEW n \in Node, ReadData(n) PROVE LinkTypeOK' /\ RestTypeOK'
  <2>1. handling' \in Mask
    BY <1>a, <1>13 DEF ReadData, Handling, RestTypeOK, Mask
  <2>2. nread' \in [Node -> Nat] /\ recvbuf' \in [Node -> Chunk \cup {Empty}]
    <3>1. Terminal(n) = n
      BY <1>b, <1>d, <1>13 DEF ReadData, Handling, HandlerGetsItsLink, LinksLeadHome
    <3>2. nread \in [Node -> Nat] /\ recvbuf \in [Node -> Chunk \cup {Empty}]
      BY <1>a DEF RestTypeOK, LinkTypeOK
    <3>3. <<n, nread[n] + 1>> \in Chunk
      BY <3>2 DEF Chunk
    <3> QED BY <1>13, <3>1, <3>2, <3>3 DEF ReadData
  <2> QED BY <1>a, <1>13, <2>1, <2>2 DEF ReadData, LinkTypeOK, AeTypeOK, RestTypeOK, envVars, serverVars
<1>14. ASSUME NEW n \in Node, ReadError(n) PROVE LinkTypeOK' /\ RestTypeOK'
  <2>1. handling' \in Mask
    BY <1>a, <1>14 DEF ReadError, Handling, RestTypeOK, Mask
  <2>2. Linked(n)
    BY <1>b, <1>14 DEF ReadError, Handling, HandlerGetsItsLink
  <2>3. LinkTypeOK' /\ hung' \subseteq Node
    <3>1. hung \subseteq Node /\ _serialFreeLink(n)
      BY <1>a, <1>14 DEF RestTypeOK, ReadError
    <3> QED BY <1>a, <2>2, <3>1, FreeLinkType
  <2> QED BY <1>a, <1>14, <2>1, <2>3 DEF ReadError, RestTypeOK, ioVars, serverVars
<1>15. ASSUME NEW n \in Node, ReadErrorIgnored(n) PROVE LinkTypeOK' /\ RestTypeOK'
  <2>1. handling' \in Mask
    BY <1>a, <1>15 DEF ReadErrorIgnored, Handling, RestTypeOK, Mask
  <2>2. faults' \in 0 .. MaxFaults
    BY <1>a, <1>15, SerialAssumption DEF ReadErrorIgnored, RestTypeOK
  <2> QED BY <1>a, <1>c, <1>15, <2>1, <2>2 DEF ReadErrorIgnored, RestTypeOK, ioVars, serverVars
<1>16. ASSUME NEW n \in Node, NothingToWrite(n) PROVE LinkTypeOK' /\ RestTypeOK'
  <2>1. handling' \in Mask
    BY <1>a, <1>16 DEF NothingToWrite, Handling, RestTypeOK, Mask
  <2> QED BY <1>a, <1>c, <1>16, <2>1 DEF NothingToWrite, RestTypeOK, ioVars, envVars, serverVars
<1>17. ASSUME NEW n \in Node, WriteDone(n) PROVE LinkTypeOK' /\ RestTypeOK'
  <2>1. handling' \in Mask
    BY <1>a, <1>17 DEF WriteDone, Handling, RestTypeOK, Mask
  <2>2. out' \in [Node -> Seq(Chunk)]
    <3>1. Terminal(n) = n
      BY <1>d, <1>17 DEF WriteDone, LinksLeadHome
    <3> QED BY <1>a, <1>17, <3>1, DeliverType DEF WriteDone
  <2> QED BY <1>a, <1>c, <1>17, <2>1, <2>2 DEF WriteDone, RestTypeOK, envVars, serverVars
<1>18. ASSUME NEW n \in Node, WriteError(n) PROVE LinkTypeOK' /\ RestTypeOK'
  <2>1. handling' \in Mask
    BY <1>a, <1>18 DEF WriteError, Handling, RestTypeOK, Mask
  <2>2. LinkTypeOK' /\ hung' \subseteq Node
    <3>1. hung \subseteq Node /\ Linked(n) /\ _serialFreeLink(n)
      BY <1>a, <1>18 DEF RestTypeOK, WriteError
    <3> QED BY <1>a, <3>1, FreeLinkType
  <2> QED BY <1>a, <1>18, <2>1, <2>2 DEF WriteError, RestTypeOK, ioVars, serverVars
<1>19. ASSUME NEW n \in Node, WriteBlocks(n) PROVE LinkTypeOK' /\ RestTypeOK'
  <2>1. handling' \in Mask
    BY <1>a, <1>19 DEF WriteBlocks, Handling, RestTypeOK, Mask
  <2> QED BY <1>a, <1>c, <1>19, <2>1 DEF WriteBlocks, RestTypeOK, ioVars, envVars, serverVars
<1>20. ASSUME NEW n \in Node, UseAfterFree(n) PROVE LinkTypeOK' /\ RestTypeOK'
  <2>1. handling' \in Mask
    BY <1>a, <1>20 DEF UseAfterFree, Handling, RestTypeOK, Mask
  <2> QED BY <1>a, <1>c, <1>20, <2>1 DEF UseAfterFree, RestTypeOK, ioVars, envVars, serverVars
<1>21. ASSUME serverCron PROVE LinkTypeOK' /\ RestTypeOK'
  <2>1. todo' \in Seq(Node) /\ pc' \in {"reconnect", "term", "sleep"}
    <3>1. MasterList \in Seq(Node) /\ <<>> \in Seq(Node)
      BY <1>a, TodoType
    <3>2. CASE ReconnectDue
      BY <1>21, <3>1, <3>2 DEF serverCron
    <3>3. CASE ~ReconnectDue
      BY <1>21, <3>1, <3>3 DEF serverCron, LoopTest
    <3> QED BY <3>2, <3>3
  <2>2. cronloops' \in 0 .. Period - 1
    BY <1>a, <1>21, PeriodPositive DEF serverCron, NextCronloop, RestTypeOK
  <2>3. stop' \in BOOLEAN /\ pidfile' \in {"unset", "present", "absent"}
    BY <1>a, <1>21 DEF serverCron, StopAfterCron, RestTypeOK
  <2> QED BY <1>a, <1>c, <1>21, <2>1, <2>2, <2>3
          DEF serverCron, ForgetFired, RestTypeOK, ioVars, envVars
<1>22. ASSUME TimerNotDue PROVE LinkTypeOK' /\ RestTypeOK'
  BY <1>a, <1>c, <1>22 DEF TimerNotDue, ForgetFired, RestTypeOK, ioVars, envVars, serverVars
<1>23. ASSUME NEW n \in Node, TermVirtuals(n) PROVE LinkTypeOK' /\ RestTypeOK'
  <2>1. todo' \in Seq(Node)
    BY <1>a, <1>23, TodoType DEF TermVirtuals, Terminating
  <2> QED BY <1>a, <1>c, <1>23, <2>1 DEF TermVirtuals, RestTypeOK, ioVars, envVars, loopVars, serverVars
<1>24. ASSUME NEW n \in Node, CloseLink(n) PROVE LinkTypeOK' /\ hung' \subseteq Node
  <2>1. hung \subseteq Node
    BY <1>a DEF RestTypeOK
  <2> QED BY <1>a, <1>c, <1>24, <2>1, FreeLinkType DEF CloseLink
<1>25. ASSUME NEW n \in Node, TermVirtual(n) PROVE LinkTypeOK' /\ RestTypeOK'
  <2>1. LinkTypeOK' /\ hung' \subseteq Node
    BY <1>24, <1>25 DEF TermVirtual
  <2>2. todo' \in Seq(Node)
    BY <1>a, <1>25, TodoType DEF TermVirtual, Terminating
  <2>3. symlink' \in [Virtual -> {None} \cup Pts]
    BY <1>a, <1>25 DEF TermVirtual, RemoveName, RestTypeOK
  <2>4. virtuals' \in [Masters -> Seq(Virtual)]
    <3> DEFINE m == VirtualOf[n]
               left == IF n \in Range(virtuals[m]) THEN <<>> ELSE virtuals[m]
    <3>1. m \in Masters
      BY <1>25, ConfiguredLists DEF TermVirtual
    <3>2. virtuals \in [Masters -> Seq(Virtual)]
      BY <1>a DEF RestTypeOK
    <3>3. virtuals' = [virtuals EXCEPT ![m] = left]
      BY <1>25 DEF TermVirtual, serialRemoveVirtualNode
    <3>4. left \in Seq(Virtual)
      BY <3>1, <3>2
    <3> HIDE DEF m, left
    <3> QED BY <3>1, <3>2, <3>3, <3>4
  <2> QED BY <1>a, <1>25, <2>1, <2>2, <2>3, <2>4
          DEF TermVirtual, RestTypeOK, ioVars, loopVars, serverVars
<1>26. ASSUME NEW n \in Node, TermMaster(n) PROVE LinkTypeOK' /\ RestTypeOK'
  <2>1. LinkTypeOK' /\ hung' \subseteq Node
    BY <1>24, <1>26 DEF TermMaster
  <2>2. todo' \in Seq(Node)
    BY <1>a, <1>26, TodoType DEF TermMaster, Terminating
  <2> QED BY <1>a, <1>26, <2>1, <2>2 DEF TermMaster, RestTypeOK, ioVars, loopVars, serverVars
<1>27. ASSUME serverTerm PROVE LinkTypeOK' /\ RestTypeOK'
  BY <1>a, <1>27 DEF serverTerm, LinkTypeOK, AeTypeOK, RestTypeOK, ioVars, envVars, loopVars, serverVars
<1>28. ASSUME NEW n \in Node, pc = "blocked", n = Current,
              \/ Deliver(n) /\ UNCHANGED <<linkVars, hung>>
              \/ _serialFreeLink(n) /\ UNCHANGED out
       PROVE  LinkTypeOK' /\ hung' \subseteq Node /\ out' \in [Node -> Seq(Chunk)]
  <2>1. Linked(n) /\ HasInput(n) /\ Terminal(n) = n
    BY <1>b, <1>d, <1>28 DEF HandlerGetsItsLink, LinksLeadHome
  <2>2. hung \subseteq Node /\ out \in [Node -> Seq(Chunk)]
    BY <1>a DEF RestTypeOK
  <2>3. CASE Deliver(n) /\ UNCHANGED <<linkVars, hung>>
    BY <1>a, <1>c, <2>1, <2>2, <2>3, DeliverType
  <2>4. CASE _serialFreeLink(n) /\ UNCHANGED out
    BY <1>a, <2>1, <2>2, <2>4, FreeLinkType
  <2> QED BY <1>28, <2>3, <2>4
<1>29. ASSUME NEW n \in Node, WriteReturns(n) PROVE LinkTypeOK' /\ RestTypeOK'
  <2>1. LinkTypeOK' /\ hung' \subseteq Node /\ out' \in [Node -> Seq(Chunk)]
    BY <1>28, <1>29 DEF WriteReturns
  <2> QED BY <1>a, <1>29, <2>1 DEF WriteReturns, RestTypeOK, loopVars, serverVars
<1>30. ASSUME Signal PROVE LinkTypeOK' /\ RestTypeOK'
  <2>1. CASE pc = "blocked"
    <3>1. Current \in Node
      BY <1>b, <2>1 DEF HandlerGetsItsLink
    <3>2. LinkTypeOK' /\ hung' \subseteq Node /\ out' \in [Node -> Seq(Chunk)]
      BY <1>28, <1>30, <2>1, <3>1 DEF Signal
    <3> QED BY <1>a, <1>30, <2>1, <3>2 DEF Signal, RestTypeOK, loopVars
  <2>2. CASE pc # "blocked"
    <3>1. UNCHANGED <<linkVars, hung, out>> /\ pc' \in {pc, "timers"}
      BY <1>30, <2>2 DEF Signal
    <3> QED BY <1>a, <1>c, <1>30, <3>1 DEF Signal, RestTypeOK, loopVars
  <2> QED BY <2>1, <2>2
<1>31. ASSUME SecondSigint PROVE LinkTypeOK' /\ RestTypeOK'
  BY <1>a, <1>c, <1>31 DEF SecondSigint, RestTypeOK, ioVars, envVars, loopVars, serverVars
<1>32. ASSUME NEW m \in Masters, Plug(m) PROVE LinkTypeOK' /\ RestTypeOK'
  BY <1>a, <1>c, <1>32 DEF Plug, RestTypeOK, ioVars, loopVars, serverVars
<1>33. ASSUME NEW m \in Masters, Unplug(m) PROVE LinkTypeOK' /\ RestTypeOK'
  <2>1. faults' \in 0 .. MaxFaults
    BY <1>a, <1>33, SerialAssumption DEF Unplug, RestTypeOK
  <2>2. hung' \subseteq Node /\ present' \subseteq Masters
    BY <1>a, <1>33, ConfiguredLists DEF Unplug, RestTypeOK, Node
  <2> QED BY <1>a, <1>c, <1>33, <2>1, <2>2 DEF Unplug, RestTypeOK, ioVars, loopVars, serverVars
<1>34. ASSUME NEW v \in Virtual, Hangup(v) PROVE LinkTypeOK' /\ RestTypeOK'
  <2>1. faults' \in 0 .. MaxFaults
    BY <1>a, <1>34, SerialAssumption DEF Hangup, RestTypeOK
  <2>2. hung' \subseteq Node
    BY <1>a, <1>34 DEF Hangup, RestTypeOK, Virtual, Node
  <2> QED BY <1>a, <1>c, <1>34, <2>1, <2>2 DEF Hangup, RestTypeOK, ioVars, loopVars, serverVars
<1>35. ASSUME UNCHANGED vars PROVE LinkTypeOK' /\ RestTypeOK'
  BY <1>a, <1>c, <1>35 DEF vars, linkVars, RestTypeOK, ioVars, envVars, loopVars, serverVars
<1>36. CASE Daemon
  BY <1>36, <1>1, <1>2, <1>3, <1>4, <1>5, <1>5a, <1>6, <1>7, <1>8, <1>9, <1>10, <1>11, <1>12, <1>13, <1>14,
     <1>15, <1>16, <1>17, <1>18, <1>19, <1>20, <1>21, <1>22, <1>23, <1>25, <1>26, <1>27
     DEF Daemon, _serialReconnect, _serialReadHandler, _serialWriteHandler, serialTerm
<1>37. CASE Environment
  BY <1>37, <1>29, <1>30, <1>31, <1>32, <1>33, <1>34 DEF Environment
<1> QED BY <1>35, <1>36, <1>37 DEF Next, Terminated

-----------------------------------------------------------------------------
(***************************************************************************)
(* Ownership and registration: only five kinds of steps touch descriptors  *)
(* and registrations.                                                      *)
(***************************************************************************)

Frees(n) == ~Ended /\ Linked(n) /\ _serialFreeLink(n)
FdOpens(n) == OpenMaster(n) \/ OpenVirtual(n)

\* What a step may do to descriptors and registrations, and when the lists of
\* virtuals may change.
StepShape ==
    /\ \/ /\ UNCHANGED <<el, opened, file, fd, sfd, link>>
          /\ (pc' = "setup") <=> (pc = "setup" /\ ~Ended')
          /\ pc' = "setup" => UNCHANGED todo
       \/ \E n \in Node : /\ Frees(n) /\ pc # "setup" /\ pc' # "setup"
       \/ \E n \in Node : FdOpens(n) \/ SetUp(n) \/ SetupFails(n)
       \/ serverTerm
    /\ pc = "term" => pc' = "term" \/ Ended'
    /\ Ended => Ended'
    /\ pc # "term" => UNCHANGED virtuals

\* Every step has that shape (serial.c:96-369, 711-748).
LEMMA StepHasShape == IInv /\ [Next]_vars => StepShape
<1> SUFFICES ASSUME IInv, [Next]_vars PROVE StepShape
  OBVIOUS
<1>b. HandlerGetsItsLink
  BY DEF IInv
<1> USE DEF StepShape, Ended
<1>1. ASSUME NEW n \in Node, AlreadyConnected(n) \/ OpenFails(n) PROVE StepShape
  BY <1>1 DEF AlreadyConnected, OpenFails, Reconnecting, linkVars
<1>2. ASSUME NEW n \in Node, FdOpens(n) \/ SetUp(n) \/ SetupFails(n) PROVE StepShape
  BY <1>2 DEF FdOpens, OpenMaster, OpenVirtual, Reconnecting, SetUp, SetupFails, SettingUp
<1>3. ASSUME ReconnectDone \/ serialBeforeSleep \/ aeApiPoll PROVE StepShape
  BY <1>3 DEF ReconnectDone, LoopTest, serialBeforeSleep, aeApiPoll, linkVars
<1>4. ASSUME CallHandler \/ SkipEntry \/ PassDone \/ HandlerReturns PROVE StepShape
  BY <1>4 DEF CallHandler, SkipEntry, PassDone, HandlerReturns, linkVars
<1>5. ASSUME NEW n \in Node, ReadData(n) \/ ReadErrorIgnored(n) \/ NothingToWrite(n)
                             \/ WriteDone(n) \/ WriteBlocks(n) \/ UseAfterFree(n)
      PROVE  StepShape
  BY <1>5 DEF ReadData, ReadErrorIgnored, NothingToWrite, WriteDone, WriteBlocks, UseAfterFree,
              Handling, linkVars
<1>6. ASSUME NEW n \in Node, ReadError(n) \/ WriteError(n) PROVE StepShape
  <2>1. Linked(n) /\ _serialFreeLink(n) /\ pc = "handler" /\ UNCHANGED <<virtuals, pc>>
    BY <1>b, <1>6 DEF ReadError, WriteError, Handling, HandlerGetsItsLink
  <2> QED BY <2>1 DEF Frees
<1>7. ASSUME serverCron \/ TimerNotDue PROVE StepShape
  BY <1>7 DEF serverCron, LoopTest, TimerNotDue, linkVars
<1>8. ASSUME NEW n \in Node, TermVirtuals(n) \/ TermVirtual(n) \/ TermMaster(n) PROVE StepShape
  BY <1>8 DEF TermVirtuals, TermVirtual, TermMaster, Terminating, CloseLink, Frees, linkVars
<1>9. ASSUME serverTerm PROVE StepShape
  BY <1>9 DEF serverTerm
<1>10. ASSUME pc = "blocked", pc' = "handler", NEW n \in Node, n = Current, UNCHANGED virtuals,
              UNCHANGED linkVars \/ _serialFreeLink(n)
       PROVE  StepShape
  <2>1. Linked(n)
    BY <1>b, <1>10 DEF HandlerGetsItsLink
  <2> QED BY <1>10, <2>1 DEF Frees, linkVars
<1>11. ASSUME NEW n \in Node, WriteReturns(n) PROVE StepShape
  BY <1>10, <1>11 DEF WriteReturns
<1>12. ASSUME Signal PROVE StepShape
  <2>1. CASE pc = "blocked"
    <3>1. Current \in Node
      BY <1>b, <2>1 DEF HandlerGetsItsLink
    <3> QED BY <1>10, <1>12, <2>1, <3>1 DEF Signal
  <2>2. CASE pc # "blocked"
    BY <1>12, <2>2 DEF Signal, linkVars
  <2> QED BY <2>1, <2>2
<1>13. ASSUME SecondSigint PROVE StepShape
  BY <1>13 DEF SecondSigint, linkVars
<1>14. ASSUME NEW n \in Node, Plug(n) \/ Unplug(n) \/ Hangup(n) PROVE StepShape
  BY <1>14 DEF Plug, Unplug, Hangup, linkVars
<1>15. CASE Daemon
  BY <1>15, <1>1, <1>2, <1>3, <1>4, <1>5, <1>6, <1>7, <1>8, <1>9
     DEF Daemon, _serialReconnect, _serialReadHandler, _serialWriteHandler, serialTerm, FdOpens
<1>16. CASE Environment
  <2>1. Masters \subseteq Node /\ Virtual \subseteq Node
    BY ConfiguredLists DEF Node, Virtual
  <2> QED BY <1>16, <1>11, <1>12, <1>13, <1>14, <2>1 DEF Environment
<1>17. CASE UNCHANGED vars
  BY <1>17 DEF vars, linkVars
<1> QED BY <1>15, <1>16, <1>17 DEF Next, Terminated

\* What the descriptors are to a step that starts before the end.
OwnershipBefore ==
    /\ fd \in [Node -> {None} \cup Fd] /\ sfd \in [Node -> {None} \cup Fd]
    /\ opened = Reserved \cup Owned /\ Owned \cap Reserved = {}
    /\ None \notin Fd /\ None \notin Reserved /\ opened \subseteq Fd
    /\ \A k \in Node : sfd[k] # None <=> k \in Virtual /\ Linked(k)
    /\ \A k, l \in Node : /\ Linked(k) /\ fd[k] = fd[l] => k = l
                          /\ sfd[k] # None /\ sfd[k] = sfd[l] => k = l
                          /\ Linked(k) => fd[k] # sfd[l]
    /\ \A k \in Node : Held(k) \cap InMaking = {}

LEMMA OwnershipIs == ASSUME LinkTypeOK, FdOwnership, ~Ended PROVE OwnershipBefore
BY SerialAssumption, AeAssumption DEF OwnershipBefore, LinkTypeOK, AeTypeOK, FdOwnership, None, Fd

\* Freeing a link gives back exactly its own descriptors (serial.c:342-364).
LEMMA FreeKeepsOwnership ==
    ASSUME LinkTypeOK, FdOwnership, NEW n \in Node, Frees(n)
    PROVE  FdOwnership'
<1>1. /\ fd' = [fd EXCEPT ![n] = None] /\ sfd' = [sfd EXCEPT ![n] = None]
      /\ opened' = opened \ {fd[n], sfd[n]} /\ UNCHANGED link
  BY DEF Frees, _serialFreeLink, CloseAll, Descriptors
<1>2. OwnershipBefore
  BY OwnershipIs DEF Frees
<1> USE DEF OwnershipBefore
<1>3. \A k \in Node : sfd'[k] # None <=> k \in Virtual /\ Linked(k)'
  BY <1>1, <1>2 DEF Linked
<1>4. \A k, l \in Node : /\ Linked(k)' /\ fd'[k] = fd'[l] => k = l
                         /\ sfd'[k] # None /\ sfd'[k] = sfd'[l] => k = l
                         /\ Linked(k)' => fd'[k] # sfd'[l]
  BY <1>1, <1>2 DEF Linked
<1>5. InMaking' = InMaking
  BY <1>1 DEF InMaking
<1>6. Held(n)' = {} /\ \A k \in Node \ {n} : Held(k)' = Held(k)
  BY <1>1, <1>2 DEF Held
<1>7. \A k \in Node \ {n} : Held(k) \cap {fd[n], sfd[n]} = {}
  BY <1>2 DEF Held, Linked, Frees
<1>8. InMaking \cap {fd[n], sfd[n]} = {} /\ None \notin InMaking
  BY <1>2 DEF Held, InMaking
<1>9. Held(n) = {fd[n], sfd[n]} \ {None}
  BY DEF Held
<1>9a. \A k \in Node : None \notin Held(k)
  BY DEF Held
<1>10. Owned' = Owned \ {fd[n], sfd[n]}
  <2> HIDE DEF OwnershipBefore
  <2>1. Owned = InMaking \cup UNION {Held(k) : k \in Node}
    BY DEF Owned
  <2>2. Owned' = InMaking' \cup UNION {Held(k)' : k \in Node}
    BY DEF Owned
  <2>3. \A x \in Owned' : x \in Owned /\ x \notin {fd[n], sfd[n]}
    BY <1>5, <1>6, <1>7, <1>8, <2>1, <2>2
  <2>4. \A x \in Owned \ {fd[n], sfd[n]} : x \in Owned'
    BY <1>5, <1>6, <1>9, <2>1, <2>2
  <2> QED BY <2>3, <2>4
<1>11. {fd[n], sfd[n]} \cap Reserved = {}
  <2>1. Held(n) \subseteq Owned
    BY DEF Owned
  <2> QED BY <1>2, <1>9, <2>1
<1>12. \A k \in Node : Held(k)' \cap InMaking' = {}
  BY <1>2, <1>5, <1>6
<1> QED BY <1>1, <1>2, <1>3, <1>4, <1>10, <1>11, <1>12 DEF FdOwnership

\* What open() and openpty() do to the descriptors (serial.c:112, 123).
OpensFree(n, f, g, p) ==
    /\ f \in Fd \ opened /\ g \in {None} \cup Fd /\ p \in {None} \cup Pts
    /\ g # f /\ g \notin opened /\ (g # None <=> n \in Virtual) /\ (p # None <=> n \in Virtual)
    /\ Opens(n, f, g, p)

LEMMA OpenEffect ==
    ASSUME LinkTypeOK, NEW n \in Node, FdOpens(n)
    PROVE  /\ pc = "reconnect" /\ pc' = "setup" /\ ~Linked(n)
           /\ UNCHANGED <<todo, virtuals>> /\ todo # <<>> /\ n = Head(todo)
           /\ \E f \in Fd, g \in {None} \cup Fd, p \in {None} \cup Pts : OpensFree(n, f, g, p)
<1>0. n \in Masters <=> n \notin Virtual
  BY DEF Virtual, Node
<1>1. None \notin Fd /\ None \notin Pts /\ opened \subseteq Fd
  BY AeAssumption, SerialAssumption DEF None, Fd, Pts, LinkTypeOK, AeTypeOK
<1>2. CASE OpenMaster(n)
  <2>1. PICK f \in Fd : Lowest(f, opened) /\ Opens(n, f, None, None)
    BY <1>2 DEF OpenMaster
  <2>2. OpensFree(n, f, None, None)
    BY <1>0, <1>1, <1>2, <2>1 DEF OpensFree, OpenMaster, Lowest
  <2> QED BY <1>2, <2>2 DEF OpenMaster, Reconnecting
<1>3. CASE OpenVirtual(n)
  <2>1. PICK f \in Fd, g \in Fd, p \in Pts :
           Lowest(f, opened) /\ Lowest(g, opened \cup {f}) /\ Opens(n, f, g, p)
    BY <1>3 DEF OpenVirtual
  <2>2. OpensFree(n, f, g, p)
    BY <1>0, <1>1, <1>3, <2>1 DEF OpensFree, OpenVirtual, Lowest
  <2> QED BY <1>3, <2>2 DEF OpenVirtual, Reconnecting
<1> QED BY <1>2, <1>3 DEF FdOpens

\* The link in the making gets descriptors that nobody holds.
LEMMA OpenKeepsOwnership ==
    ASSUME LinkTypeOK, FdOwnership, LinksLeadHome, NEW n \in Node, FdOpens(n)
    PROVE  FdOwnership'
<1>0. pc = "reconnect" /\ pc' = "setup"
  BY OpenEffect
<1>1. PICK f \in Fd, g \in {None} \cup Fd, p \in {None} \cup Pts : OpensFree(n, f, g, p)
  BY OpenEffect
<1>2. OwnershipBefore
  BY <1>0, OwnershipIs DEF Ended
<1>3. InMaking = {}
  BY <1>0 DEF LinksLeadHome, NoLink, InMaking, Ended
<1>4. /\ InMaking' = {f, g} \ {None} /\ UNCHANGED <<fd, sfd>>
      /\ opened' = opened \cup ({f, g} \ {None})
  BY <1>1 DEF OpensFree, Opens, InMaking
<1>5. \A k \in Node : Held(k)' = Held(k) /\ Held(k) \subseteq opened
  BY <1>2, <1>4 DEF Held, Owned, OwnershipBefore
<1>6. Owned' = Owned \cup InMaking'
  BY <1>3, <1>5 DEF Owned
<1>7. InMaking' \cap opened = {}
  BY <1>1, <1>4 DEF OpensFree
<1>8. \A k \in Node : Linked(k)' <=> Linked(k)
  BY <1>4 DEF Linked
<1>9. /\ \A k \in Node : sfd'[k] # None <=> k \in Virtual /\ Linked(k)'
      /\ \A k, l \in Node : /\ Linked(k)' /\ fd'[k] = fd'[l] => k = l
                            /\ sfd'[k] # None /\ sfd'[k] = sfd'[l] => k = l
                            /\ Linked(k)' => fd'[k] # sfd'[l]
  BY <1>2, <1>4, <1>8 DEF OwnershipBefore
<1>10. opened' = Reserved \cup Owned' /\ Owned' \cap Reserved = {}
  BY <1>2, <1>4, <1>6, <1>7 DEF OwnershipBefore
<1>11. \A k \in Node : Held(k)' \cap InMaking' = {}
  BY <1>5, <1>7
<1> QED BY <1>9, <1>10, <1>11 DEF FdOwnership

\* They pass from the link in the making to its node (serial.c:295-296).
LEMMA SetUpKeepsOwnership ==
    ASSUME LinkTypeOK, FdOwnership, LinksLeadHome, NEW n \in Node, SetUp(n)
    PROVE  FdOwnership'
<1>0. pc = "setup" /\ pc' = "reconnect" /\ n = Head(todo)
  BY DEF SetUp, SettingUp
<1>1. /\ fd' = [fd EXCEPT ![n] = link.fd] /\ sfd' = [sfd EXCEPT ![n] = link.sfd]
      /\ link' = NoLink /\ UNCHANGED opened
  BY DEF SetUp, LinkNode
<1>2. OwnershipBefore
  BY <1>0, OwnershipIs DEF Ended
<1>3. /\ ~Linked(n) /\ link.fd # None /\ link.sfd # link.fd
      /\ link.sfd # None <=> n \in Virtual
  BY <1>0 DEF LinksLeadHome
<1>4. fd[n] = None /\ sfd[n] = None
  BY <1>2, <1>3 DEF OwnershipBefore, Linked
<1>5. /\ Held(n) = {} /\ Held(n)' = InMaking /\ InMaking' = {}
      /\ \A k \in Node \ {n} : Held(k)' = Held(k)
  BY <1>1, <1>2, <1>4 DEF Held, InMaking, NoLink, OwnershipBefore
<1>6. Owned' = Owned
  BY <1>5 DEF Owned
<1>7. \A k \in Node : fd[k] \notin InMaking /\ sfd[k] \notin InMaking
  BY <1>2 DEF OwnershipBefore, Held, InMaking
<1>8. /\ fd'[n] = link.fd /\ sfd'[n] = link.sfd /\ Linked(n)'
      /\ link.fd \in InMaking /\ (link.sfd # None => link.sfd \in InMaking)
      /\ \A k \in Node \ {n} : fd'[k] = fd[k] /\ sfd'[k] = sfd[k] /\ (Linked(k)' <=> Linked(k))
  BY <1>1, <1>2, <1>3 DEF OwnershipBefore, Linked, InMaking
<1>9. \A k \in Node : sfd'[k] # None <=> k \in Virtual /\ Linked(k)'
  BY <1>2, <1>3, <1>8 DEF OwnershipBefore
<1>10. ASSUME NEW k \in Node, NEW l \in Node
       PROVE  /\ Linked(k)' /\ fd'[k] = fd'[l] => k = l
              /\ sfd'[k] # None /\ sfd'[k] = sfd'[l] => k = l
              /\ Linked(k)' => fd'[k] # sfd'[l]
  <2>1. CASE k # n /\ l # n
    BY <1>2, <1>8, <2>1 DEF OwnershipBefore
  <2>2. CASE k = n /\ l # n
    BY <1>3, <1>7, <1>8, <2>2
  <2>3. CASE k # n /\ l = n
    BY <1>2, <1>3, <1>7, <1>8, <2>3 DEF OwnershipBefore, Linked
  <2>4. CASE k = n /\ l = n
    BY <1>3, <1>8, <2>4
  <2> QED BY <2>1, <2>2, <2>3, <2>4
<1>11. opened' = Reserved \cup Owned' /\ Owned' \cap Reserved = {}
  BY <1>1, <1>2, <1>6 DEF OwnershipBefore
<1>12. \A k \in Node : Held(k)' \cap InMaking' = {}
  BY <1>5
<1> QED BY <1>9, <1>10, <1>11, <1>12 DEF FdOwnership

\* The err path closes what the link in the making holds, and nothing else
\* (serial.c:298-302, 342-364).
LEMMA SetupFailsKeepsOwnership ==
    ASSUME LinkTypeOK, FdOwnership, LinksLeadHome, NEW n \in Node, SetupFails(n)
    PROVE  FdOwnership'
<1>0. pc = "setup" /\ pc' = "reconnect"
  BY DEF SetupFails, SettingUp
<1>1. UNCHANGED <<fd, sfd>> /\ link' = NoLink /\ opened' = opened \ {link.fd, link.sfd}
  BY DEF SetupFails, FreeNewLink, CloseAll, NewDescriptors
<1>2. OwnershipBefore
  BY <1>0, OwnershipIs DEF Ended
<1>3. InMaking' = {} /\ \A k \in Node : Held(k)' = Held(k) /\ (Linked(k)' <=> Linked(k))
  BY <1>1 DEF InMaking, Held, NoLink, Linked
<1>4. opened' = opened \ InMaking
  BY <1>1, <1>2 DEF OwnershipBefore, InMaking
<1>5. Owned' = Owned \ InMaking
  <2>1. Owned = InMaking \cup UNION {Held(k) : k \in Node}
    BY DEF Owned
  <2>2. Owned' = UNION {Held(k) : k \in Node}
    BY <1>3 DEF Owned
  <2>3. \A k \in Node : Held(k) \cap InMaking = {}
    BY <1>2 DEF OwnershipBefore
  <2> QED BY <2>1, <2>2, <2>3
<1>6. InMaking \subseteq Owned
  BY DEF Owned
<1>7. opened' = Reserved \cup Owned' /\ Owned' \cap Reserved = {}
  BY <1>2, <1>4, <1>5, <1>6 DEF OwnershipBefore
<1>8. /\ \A k \in Node : sfd'[k] # None <=> k \in Virtual /\ Linked(k)'
      /\ \A k, l \in Node : /\ Linked(k)' /\ fd'[k] = fd'[l] => k = l
                            /\ sfd'[k] # None /\ sfd'[k] = sfd'[l] => k = l
                            /\ Linked(k)' => fd'[k] # sfd'[l]
  BY <1>1, <1>2, <1>3 DEF OwnershipBefore
<1>9. \A k \in Node : Held(k)' \cap InMaking' = {}
  BY <1>3
<1> QED BY <1>7, <1>8, <1>9 DEF FdOwnership

\* Descriptors are neither leaked nor shared by any step.
LEMMA OwnershipStep == IInv /\ [Next]_vars => FdOwnership'
<1> SUFFICES ASSUME IInv, [Next]_vars PROVE FdOwnership'
  OBVIOUS
<1>1. LinkTypeOK /\ FdOwnership /\ LinksLeadHome
  BY DEF IInv, TypeOK, LinkTypeOK
<1>2. StepShape
  BY StepHasShape
<1>3. CASE UNCHANGED <<el, opened, file, fd, sfd, link>>
  <2>1. Ended => Ended'
    BY <1>2 DEF StepShape
  <2> QED BY <1>1, <1>3, <2>1 DEF FdOwnership, Owned, Held, InMaking, Linked
<1>4. CASE \E n \in Node : Frees(n) \/ FdOpens(n) \/ SetUp(n) \/ SetupFails(n)
  BY <1>1, <1>4, FreeKeepsOwnership, OpenKeepsOwnership, SetUpKeepsOwnership,
     SetupFailsKeepsOwnership
<1>5. CASE serverTerm
  BY <1>1, <1>5 DEF serverTerm, FdOwnership, Owned, Held, InMaking, Linked, Ended
<1> QED BY <1>2, <1>3, <1>4, <1>5 DEF StepShape

\* No step changes where the descriptor of a link leads.
LEMMA LinksLeadHomeStep == IInv /\ [Next]_vars => LinksLeadHome'
<1> SUFFICES ASSUME IInv, [Next]_vars PROVE LinksLeadHome'
  OBVIOUS
<1>1. LinkTypeOK /\ FdOwnership /\ LinksLeadHome
  BY DEF IInv, TypeOK, LinkTypeOK
<1>2. StepShape
  BY StepHasShape
<1>a. ASSUME ~Ended PROVE OwnershipBefore
  BY <1>1, <1>a, OwnershipIs
<1>b. /\ file \in [Fd -> Node \cup {NoClient}] /\ fd \in [Node -> {None} \cup Fd]
      /\ link \in [fd : {None} \cup Fd, sfd : {None} \cup Fd, pts : {None} \cup Pts]
  BY <1>1 DEF LinkTypeOK
<1>3. CASE /\ UNCHANGED <<el, opened, file, fd, sfd, link>>
           /\ (pc' = "setup") <=> (pc = "setup" /\ ~Ended')
           /\ pc' = "setup" => UNCHANGED todo
  <2>1. Ended => Ended'
    BY <1>2 DEF StepShape
  <2> QED BY <1>1, <1>3, <2>1 DEF LinksLeadHome, Linked, Terminal
<1>4. ASSUME NEW n \in Node, Frees(n), pc # "setup", pc' # "setup" PROVE LinksLeadHome'
  <2>1. /\ fd' = [fd EXCEPT ![n] = None] /\ UNCHANGED link
        /\ file' = [f \in Fd |-> IF f \in {fd[n], sfd[n]} THEN NoClient ELSE file[f]]
    BY <1>4 DEF Frees, _serialFreeLink, CloseAll, Descriptors
  <2>2. ASSUME NEW k \in Node, Linked(k)' PROVE Terminal(k)' = k
    <3>1. k # n /\ fd'[k] = fd[k] /\ Linked(k) /\ fd[k] \in Fd
      BY <1>b, <2>1, <2>2 DEF Linked
    <3>2. fd[k] \notin {fd[n], sfd[n]}
      BY <1>4, <1>a, <3>1 DEF Frees, OwnershipBefore
    <3> QED BY <1>1, <2>1, <3>1, <3>2 DEF Terminal, LinksLeadHome
  <2>3. link' = NoLink
    BY <1>1, <1>4, <2>1 DEF LinksLeadHome, Frees
  <2> QED BY <1>4, <2>2, <2>3 DEF LinksLeadHome
<1>5. ASSUME NEW n \in Node, FdOpens(n) PROVE LinksLeadHome'
  <2>1. /\ pc = "reconnect" /\ pc' = "setup" /\ ~Linked(n)
        /\ UNCHANGED todo /\ todo # <<>> /\ n = Head(todo)
    BY <1>1, <1>5, OpenEffect
  <2>2. PICK f \in Fd, g \in {None} \cup Fd, p \in {None} \cup Pts : OpensFree(n, f, g, p)
    BY <1>1, <1>5, OpenEffect
  <2>3. /\ file' = [h \in Fd |-> IF h \in {f, g} THEN n ELSE file[h]] /\ UNCHANGED fd
        /\ link' = [fd |-> f, sfd |-> g, pts |-> p]
        /\ f \notin opened /\ g \notin opened /\ g # f
        /\ (g # None <=> n \in Virtual) /\ (p # None <=> n \in Virtual)
    BY <2>2 DEF OpensFree, Opens
  <2>4. ASSUME NEW k \in Node, Linked(k)' PROVE Terminal(k)' = k
    <3>1. Linked(k) /\ fd[k] \in Fd
      BY <1>b, <2>3, <2>4 DEF Linked
    <3>2. fd[k] \in opened
      BY <1>a, <2>1, <3>1 DEF OwnershipBefore, Owned, Held, Linked, Ended
    <3> QED BY <1>1, <2>3, <3>1, <3>2 DEF Terminal, LinksLeadHome
  <2>5. link'.fd = f /\ link'.sfd = g /\ link'.pts = p /\ file'[f] = n /\ f # None
    BY <1>a, <2>1, <2>3 DEF Ended, OwnershipBefore
  <2>6. ~(Linked(Head(todo))')
    BY <2>1, <2>3 DEF Linked
  <2> QED BY <2>1, <2>3, <2>4, <2>5, <2>6 DEF LinksLeadHome
<1>6. ASSUME NEW n \in Node, SetUp(n) PROVE LinksLeadHome'
  <2>1. /\ pc = "setup" /\ pc' = "reconnect" /\ n = Head(todo)
        /\ fd' = [fd EXCEPT ![n] = link.fd] /\ link' = NoLink /\ UNCHANGED file
    BY <1>6 DEF SetUp, SettingUp, LinkNode
  <2>2. file[link.fd] = n
    BY <1>1, <2>1 DEF LinksLeadHome
  <2>3. \A k \in Node : Linked(k)' => Terminal(k)' = k
    BY <1>1, <1>b, <2>1, <2>2 DEF LinksLeadHome, Linked, Terminal
  <2> QED BY <2>1, <2>3 DEF LinksLeadHome
<1>7. ASSUME NEW n \in Node, SetupFails(n) PROVE LinksLeadHome'
  <2>1. /\ pc = "setup" /\ pc' = "reconnect" /\ UNCHANGED fd /\ link' = NoLink
        /\ file' = [f \in Fd |-> IF f \in {link.fd, link.sfd} THEN NoClient ELSE file[f]]
    BY <1>7 DEF SetupFails, SettingUp, FreeNewLink, CloseAll, NewDescriptors
  <2>2. ASSUME NEW k \in Node, Linked(k)' PROVE Terminal(k)' = k
    <3>1. Linked(k) /\ fd[k] \in Fd
      BY <1>b, <2>1, <2>2 DEF Linked
    <3>2. fd[k] \notin {link.fd, link.sfd}
      BY <1>a, <2>1, <3>1 DEF OwnershipBefore, Held, InMaking, Linked, Ended
    <3> QED BY <1>1, <2>1, <3>1, <3>2 DEF Terminal, LinksLeadHome
  <2> QED BY <2>1, <2>2 DEF LinksLeadHome
<1>8. CASE serverTerm
  BY <1>1, <1>8 DEF serverTerm, LinksLeadHome, Linked, Terminal, Ended
<1> QED BY <1>2, <1>3, <1>4, <1>5, <1>6, <1>7, <1>8 DEF StepShape

\* Freeing a link unregisters it, and nothing else (serial.c:344-350).
LEMMA FreeKeepsRegistrations ==
    ASSUME LinkTypeOK, FdOwnership, TableMatchesLinks, NEW n \in Node, Frees(n), UNCHANGED virtuals
    PROVE  TableMatchesLinks'
<1> DEFINE f0 == fd[n]
           l == aeDeleteFileEvent(el, f0, _serialEventFlags(n))
<1>1. /\ el' = KernelClose(l, f0) /\ fd' = [fd EXCEPT ![n] = None]
      /\ f0 \in Fd /\ Linked(n) /\ el \in EventLoop /\ fd \in [Node -> {None} \cup Fd]
  BY DEF Frees, _serialFreeLink, Unregister, LinkTypeOK, AeTypeOK, Linked
<1>2. /\ \A k \in Node : Linked(k) /\ fd[k] < el.setsize =>
            el.mask[fd[k]] = _serialEventFlags(k) /\ el.data[fd[k]] = k
      /\ \A f \in Fd : /\ el.epoll[f] = el.mask[f]
                       /\ el.mask[f] # {} => f < el.setsize /\ \E k \in Node : fd[k] = f
  BY DEF TableMatchesLinks
<1>3. \A k \in Node \ {n} : Linked(k) => fd[k] # f0
  BY DEF FdOwnership
<1>4. \A k \in Node : _serialEventFlags(k)' = _serialEventFlags(k)
  BY DEF _serialEventFlags, HasWriter
<1>5. /\ l \in EventLoop /\ l.setsize = el.setsize /\ l.data = el.data
      /\ \A g \in Fd \ {f0} : l.mask[g] = el.mask[g] /\ l.epoll[g] = el.epoll[g]
      /\ f0 >= el.setsize \/ el.mask[f0] = {} => l = el
      /\ f0 < el.setsize => l.mask[f0] = el.mask[f0] \ _serialEventFlags(n)
  BY <1>1, FlagsType, DeleteEffect
<1> HIDE DEF l, f0
<1>6. /\ el'.setsize = l.setsize /\ el'.data = l.data /\ el'.mask = l.mask
      /\ el'.epoll[f0] = {} /\ \A g \in Fd \ {f0} : el'.epoll[g] = l.epoll[g]
  BY <1>1, <1>5, CloseEffect
<1>7. el.setsize \in Int /\ \A g \in Fd : g \in Int
  BY <1>1, AeAssumption DEF EventLoop, Fd
<1>8. l.mask[f0] = {}
  <2>1. CASE f0 < el.setsize
    BY <1>1, <1>2, <1>5, <2>1 DEF f0
  <2>2. CASE ~(f0 < el.setsize)
    BY <1>1, <1>2, <1>5, <1>7, <2>2
  <2> QED BY <2>1, <2>2
<1>9. ASSUME NEW k \in Node, Linked(k)', fd'[k] < el'.setsize
      PROVE  el'.mask[fd'[k]] = _serialEventFlags(k)' /\ el'.data[fd'[k]] = k
  <2>1. k # n /\ fd'[k] = fd[k] /\ Linked(k)
    BY <1>1, <1>9 DEF Linked
  <2>2. fd[k] \in Fd \ {f0}
    BY <1>1, <1>3, <2>1 DEF Linked
  <2> QED BY <1>2, <1>4, <1>5, <1>6, <1>9, <2>1, <2>2
<1>10. ASSUME NEW g \in Fd
       PROVE  /\ el'.epoll[g] = el'.mask[g]
              /\ el'.mask[g] # {} => g < el'.setsize /\ \E k \in Node : fd'[k] = g
  <2>1. CASE g = f0
    BY <1>6, <1>8, <2>1
  <2>2. CASE g # f0
    <3>1. el'.epoll[g] = el.epoll[g] /\ el'.mask[g] = el.mask[g]
      BY <1>5, <1>6, <2>2
    <3>2. ASSUME NEW k \in Node, fd[k] = g PROVE fd'[k] = g
      BY <1>1, <2>2, <3>2 DEF f0
    <3> QED BY <1>2, <1>5, <1>6, <3>1, <3>2
  <2> QED BY <2>1, <2>2
<1> QED BY <1>9, <1>10 DEF TableMatchesLinks

\* A new link is registered as itself, over an entry that nobody uses, or, beyond
\* the end of the table, not at all (serial.c:289-296).
LEMMA LinkKeepsRegistrations ==
    ASSUME LinkTypeOK, FdOwnership, LinksLeadHome, TableMatchesLinks, NEW n \in Node, SetUp(n)
    PROVE  TableMatchesLinks'
<1>0. pc = "setup" /\ ~Linked(n) /\ link.fd # None /\ UNCHANGED virtuals
  BY DEF LinksLeadHome, SetUp, SettingUp
<1> DEFINE f == link.fd
<1>1. /\ f \in Fd /\ f \in InMaking
      /\ fd' = [fd EXCEPT ![n] = f]
      /\ el' = aeCreateFileEvent(el, f, _serialEventFlags(n), n)
  BY <1>0 DEF LinkTypeOK, SetUp, LinkNode, InMaking
<1> HIDE DEF f
<1>2. /\ \A k \in Node : Linked(k) /\ fd[k] < el.setsize =>
            el.mask[fd[k]] = _serialEventFlags(k) /\ el.data[fd[k]] = k
      /\ \A g \in Fd : /\ el.epoll[g] = el.mask[g]
                       /\ el.mask[g] # {} => g < el.setsize /\ \E k \in Node : fd[k] = g
  BY DEF TableMatchesLinks
<1>3. el \in EventLoop /\ fd \in [Node -> {None} \cup Fd] /\ None \notin Fd
  BY AeAssumption DEF LinkTypeOK, AeTypeOK, None, Fd
<1>4. \A k \in Node : fd[k] # f
  <2>1. \A k \in Node : Linked(k) => fd[k] \notin InMaking
    BY DEF FdOwnership, Held, Linked
  <2> QED BY <1>1, <1>3, <2>1 DEF Linked
<1>5. el.mask[f] = {} /\ el.epoll[f] = {}
  BY <1>1, <1>2, <1>4
<1>6. \A k \in Node : _serialEventFlags(k)' = _serialEventFlags(k)
  BY <1>0 DEF _serialEventFlags, HasWriter
<1>7. Accepted(el, f) <=> f < el.setsize
  BY <1>5 DEF Accepted, CtlAccepts
<1>8. /\ el'.setsize = el.setsize
      /\ \A g \in Fd \ {f} : /\ el'.mask[g] = el.mask[g] /\ el'.data[g] = el.data[g]
                             /\ el'.epoll[g] = el.epoll[g]
      /\ ~(f < el.setsize) => el' = el
      /\ f < el.setsize => /\ el'.mask[f] = _serialEventFlags(n) /\ el'.data[f] = n
                           /\ el'.epoll[f] = _serialEventFlags(n)
  <2>1. _serialEventFlags(n) \in Mask /\ n \in Client
    BY FlagsType DEF Node
  <2>2. /\ el'.setsize = el.setsize
        /\ \A g \in Fd \ {f} : /\ el'.mask[g] = el.mask[g] /\ el'.data[g] = el.data[g]
                               /\ el'.epoll[g] = el.epoll[g]
        /\ ~Accepted(el, f) => el' = el
        /\ Accepted(el, f) => /\ el'.mask[f] = el.mask[f] \cup _serialEventFlags(n)
                              /\ el'.data[f] = n
                              /\ el'.epoll[f] = el.mask[f] \cup _serialEventFlags(n)
    BY <1>1, <1>3, <2>1, CreateEffect
  <2> QED BY <1>5, <1>7, <2>2
<1>9. ~Linked(n)
  BY <1>0
<1>10. ASSUME NEW k \in Node, Linked(k)', fd'[k] < el'.setsize
       PROVE  el'.mask[fd'[k]] = _serialEventFlags(k)' /\ el'.data[fd'[k]] = k
  <2>1. CASE k = n
    <3>1. fd'[n] = f
      BY <1>1, <1>3
    <3> QED BY <1>6, <1>8, <1>10, <2>1, <3>1
  <2>2. CASE k # n
    <3>1. fd'[k] = fd[k] /\ Linked(k) /\ fd[k] \in Fd \ {f}
      BY <1>1, <1>3, <1>4, <1>10, <2>2 DEF Linked
    <3> QED BY <1>2, <1>6, <1>8, <1>10, <3>1
  <2> QED BY <2>1, <2>2
<1>11. ASSUME NEW g \in Fd
       PROVE  /\ el'.epoll[g] = el'.mask[g]
              /\ el'.mask[g] # {} => g < el'.setsize /\ \E k \in Node : fd'[k] = g
  <2>1. CASE g = f
    <3>1. fd'[n] = f
      BY <1>1, <1>3
    <3> QED BY <1>5, <1>8, <2>1, <3>1
  <2>2. CASE g # f
    <3>1. ASSUME NEW k \in Node, fd[k] = g PROVE fd'[k] = g
      BY <1>1, <1>3, <1>9, <3>1 DEF Linked
    <3> QED BY <1>2, <1>8, <2>2, <3>1
  <2> QED BY <2>1, <2>2
<1> QED BY <1>10, <1>11 DEF TableMatchesLinks

\* Until the shutdown every step keeps links and registrations in agreement.
LEMMA RegistrationStep == IInv /\ [Next]_vars => RegistrationConsistent'
<1> SUFFICES ASSUME IInv, [Next]_vars, pc' # "term", ~Ended' PROVE TableMatchesLinks'
  BY DEF RegistrationConsistent
<1>1. StepShape
  BY StepHasShape
<1>2. pc # "term" /\ ~Ended /\ UNCHANGED virtuals
  BY <1>1 DEF StepShape
<1>3. LinkTypeOK /\ FdOwnership /\ LinksLeadHome /\ TableMatchesLinks
  BY <1>2 DEF IInv, TypeOK, LinkTypeOK, RegistrationConsistent
<1>4. ASSUME UNCHANGED <<el, fd>> PROVE TableMatchesLinks'
  BY <1>2, <1>3, <1>4 DEF TableMatchesLinks, Linked, _serialEventFlags, HasWriter
<1>5. CASE \E n \in Node : Frees(n) \/ SetUp(n)
  BY <1>2, <1>3, <1>5, FreeKeepsRegistrations, LinkKeepsRegistrations
<1>5a. CASE \E n \in Node : FdOpens(n) \/ SetupFails(n)
  BY <1>4, <1>5a DEF FdOpens, OpenMaster, OpenVirtual, Opens, SetupFails, FreeNewLink
<1>6. CASE serverTerm
  BY <1>6 DEF serverTerm, Ended
<1> QED BY <1>1, <1>4, <1>5, <1>5a, <1>6 DEF StepShape

-----------------------------------------------------------------------------
(***************************************************************************)
(* What a handler may assume of its link                                   *)
(***************************************************************************)

\* A handler is called with a live link: the entry that made aeProcessEvents call it
\* is registered, hence belongs to a link (ae.c:385-404).
LEMMA CalledWithItsLink ==
    ASSUME IInv, CallHandler
    PROVE  HandlerGetsItsLink'
<1>1. /\ fired \in Seq(FiredEvent) /\ j \in DOMAIN fired
      /\ pc' = "handler" /\ UNCHANGED <<el, fd, fired, j>>
      /\ el.mask[fired[j].fd] # {}
  BY DEF IInv, TypeOK, CallHandler, linkVars, FiredEvent
<1>2. TableMatchesLinks
  BY DEF IInv, RegistrationConsistent, CallHandler, Ended
<1>3. fired[j].fd \in Fd
  <2>1. fired[j] \in FiredEvent
    BY <1>1, EntryType
  <2> QED BY <2>1 DEF FiredEvent
<1>4. PICK n \in Node : fd[n] = fired[j].fd /\ fd[n] < el.setsize
  BY <1>1, <1>2, <1>3 DEF TableMatchesLinks
<1>5. Linked(n)
  BY <1>3, <1>4, AeAssumption DEF Linked, None, Fd
<1>6. Current = n
  BY <1>2, <1>4, <1>5 DEF TableMatchesLinks, Current
<1> QED BY <1>1, <1>4, <1>5, <1>6 DEF HandlerGetsItsLink, Current, Linked

\* The link a handler works on is only ever lost by its own read() or write().
LEMMA HandlerStep == IInv /\ [Next]_vars => HandlerGetsItsLink'
<1> SUFFICES ASSUME IInv, [Next]_vars PROVE HandlerGetsItsLink'
  OBVIOUS
<1>a. LinkTypeOK /\ RestTypeOK /\ HandlerGetsItsLink
  BY DEF IInv, TypeOK, LinkTypeOK, RestTypeOK
<1>b. ASSUME pc' \notin {"handler", "blocked"} PROVE HandlerGetsItsLink'
  BY <1>b DEF HandlerGetsItsLink
\* steps of the handler, and of the environment while it runs
<1>c. ASSUME pc \in {"handler", "blocked"}, pc' = pc, UNCHANGED <<el, fd, fired, j>>,
             handling' \subseteq handling, pc = "blocked" => UNCHANGED <<recvbuf, virtuals>>
      PROVE  HandlerGetsItsLink'
  BY <1>a, <1>c DEF HandlerGetsItsLink, Current, Linked, HasInput, SourceOf,
                    serialGetVirtualWriterNode, HasWriter
\* the handler loses its link, with no read left to do
<1>d. ASSUME pc \in {"handler", "blocked"}, pc' = "handler", UNCHANGED <<fired, j>>,
             Linked(Current), _serialFreeLink(Current), R \notin handling'
      PROVE  HandlerGetsItsLink'
  <2>1. j \in DOMAIN fired /\ Current \in Node
    BY <1>a, <1>d DEF HandlerGetsItsLink
  <2>2. hung \subseteq Node /\ fd \in [Node -> {None} \cup Fd]
    BY <1>a DEF RestTypeOK, LinkTypeOK
  <2>3. el'.data = el.data
    BY <1>a, <1>d, <2>1, <2>2, FreeLinkType
  <2>4. Current' = Current
    BY <1>d, <2>3 DEF Current
  <2>5. fd'[Current] = None
    BY <1>d, <2>1, <2>2 DEF _serialFreeLink
  <2> QED BY <1>d, <2>1, <2>4, <2>5 DEF HandlerGetsItsLink
<1>1. ASSUME NEW n \in Node, AlreadyConnected(n) \/ OpenMaster(n) \/ OpenVirtual(n)
                             \/ OpenFails(n) \/ SetUp(n) \/ SetupFails(n)
      PROVE  HandlerGetsItsLink'
  BY <1>b, <1>1 DEF AlreadyConnected, OpenMaster, OpenVirtual, OpenFails, SetUp, SetupFails,
                    Reconnecting
<1>2. ASSUME ReconnectDone \/ serialBeforeSleep \/ aeApiPoll \/ serverCron \/ TimerNotDue
      PROVE  HandlerGetsItsLink'
  BY <1>b, <1>2 DEF ReconnectDone, LoopTest, serialBeforeSleep, aeApiPoll, serverCron, TimerNotDue
<1>3. ASSUME SkipEntry \/ PassDone \/ HandlerReturns PROVE HandlerGetsItsLink'
  BY <1>b, <1>3 DEF SkipEntry, PassDone, HandlerReturns
<1>4. ASSUME CallHandler PROVE HandlerGetsItsLink'
  BY <1>4, CalledWithItsLink
<1>5. ASSUME NEW n \in Node, ReadData(n) \/ ReadErrorIgnored(n) \/ NothingToWrite(n) \/ WriteDone(n)
      PROVE  HandlerGetsItsLink'
  BY <1>c, <1>5 DEF ReadData, ReadErrorIgnored, NothingToWrite, WriteDone, Handling, linkVars
<1>6. ASSUME NEW n \in Node, ReadError(n) PROVE HandlerGetsItsLink'
  <2>1. /\ pc = "handler" /\ pc' = pc /\ UNCHANGED <<fired, j>> /\ n = Current
        /\ R \in handling /\ handling' = handling \ {R} /\ _serialFreeLink(n)
    BY <1>6 DEF ReadError, Handling
  <2>2. Linked(Current)
    BY <1>a, <2>1 DEF HandlerGetsItsLink
  <2> QED BY <1>d, <2>1, <2>2
<1>7. ASSUME NEW n \in Node, WriteError(n) PROVE HandlerGetsItsLink'
  <2>1. /\ pc = "handler" /\ pc' = pc /\ UNCHANGED <<fired, j>> /\ n = Current
        /\ R \notin handling /\ handling' = handling \ {W} /\ Linked(n) /\ _serialFreeLink(n)
    BY <1>7 DEF WriteError, Handling
  <2> QED BY <1>d, <2>1
<1>8. ASSUME NEW n \in Node, WriteBlocks(n) PROVE HandlerGetsItsLink'
  <2>1. /\ pc = "handler" /\ pc' = "blocked" /\ UNCHANGED <<el, fd, fired, j, recvbuf, virtuals>>
        /\ n = Current /\ R \notin handling /\ handling' = handling \ {W}
        /\ Linked(n) /\ HasInput(n)
    BY <1>8 DEF WriteBlocks, Handling, linkVars
  <2>2. handling' = {}
    BY <1>a, <2>1 DEF RestTypeOK, Mask
  <2>3. HasInput(n)' /\ Linked(n)' /\ Current' = n
    BY <2>1 DEF HasInput, SourceOf, serialGetVirtualWriterNode, HasWriter, Linked, Current
  <2>4. j \in DOMAIN fired /\ fd[n] \in {fired[j].fd, None}
    BY <1>a, <2>1 DEF HandlerGetsItsLink
  <2> QED BY <2>1, <2>2, <2>3, <2>4 DEF HandlerGetsItsLink
<1>9. ASSUME NEW n \in Node, UseAfterFree(n) PROVE HandlerGetsItsLink'
  BY <1>b, <1>c, <1>9 DEF UseAfterFree, Handling, linkVars
<1>10. ASSUME NEW n \in Node, TermVirtuals(n) \/ TermVirtual(n) \/ TermMaster(n)
       PROVE  HandlerGetsItsLink'
  BY <1>b, <1>10 DEF TermVirtuals, TermVirtual, TermMaster, Terminating
<1>11. ASSUME serverTerm \/ SecondSigint PROVE HandlerGetsItsLink'
  BY <1>b, <1>11 DEF serverTerm, SecondSigint
\* a blocked write() returns
<1>12. ASSUME pc = "blocked", pc' = "handler", UNCHANGED loopVars, UNCHANGED virtuals,
              UNCHANGED linkVars \/ _serialFreeLink(Current)
       PROVE  HandlerGetsItsLink'
  <2>1. Linked(Current) /\ handling = {}
    BY <1>a, <1>12 DEF HandlerGetsItsLink
  <2>2. CASE UNCHANGED linkVars
    BY <1>a, <1>12, <2>1, <2>2 DEF HandlerGetsItsLink, Current, Linked, loopVars, linkVars
  <2>3. CASE _serialFreeLink(Current)
    BY <1>d, <1>12, <2>1, <2>3 DEF loopVars
  <2> QED BY <1>12, <2>2, <2>3
<1>13. ASSUME NEW n \in Node, WriteReturns(n) PROVE HandlerGetsItsLink'
  BY <1>12, <1>13 DEF WriteReturns
<1>14. ASSUME Signal PROVE HandlerGetsItsLink'
  <2>1. CASE pc = "blocked"
    BY <1>12, <1>14, <2>1 DEF Signal
  <2>2. CASE pc = "handler"
    BY <1>c, <1>14, <2>2 DEF Signal, linkVars, loopVars
  <2>3. CASE pc \notin {"handler", "blocked"}
    BY <1>b, <1>14, <2>3 DEF Signal
  <2> QED BY <2>1, <2>2, <2>3
<1>15. ASSUME NEW n \in Node, Plug(n) \/ Unplug(n) \/ Hangup(n) PROVE HandlerGetsItsLink'
  BY <1>b, <1>c, <1>15 DEF Plug, Unplug, Hangup, linkVars, loopVars
<1>16. ASSUME UNCHANGED vars PROVE HandlerGetsItsLink'
  BY <1>b, <1>c, <1>16 DEF vars, linkVars, loopVars
<1>17. CASE Daemon
  BY <1>17, <1>1, <1>2, <1>3, <1>4, <1>5, <1>6, <1>7, <1>8, <1>9, <1>10, <1>11
     DEF Daemon, _serialReconnect, _serialReadHandler, _serialWriteHandler, serialTerm
<1>18. CASE Environment
  <2>1. Masters \subseteq Node /\ Virtual \subseteq Node
    BY ConfiguredLists DEF Node, Virtual
  <2> QED BY <1>18, <1>11, <1>13, <1>14, <1>15, <2>1 DEF Environment
<1> QED BY <1>16, <1>17, <1>18 DEF Next, Terminated

-----------------------------------------------------------------------------
\* The state serialInit leaves behind.
LEMMA InitInv == Init => IInv
<1> SUFFICES ASSUME Init PROVE IInv
  OBVIOUS
<1>0. fd = [n \in Node |-> None] /\ sfd = [n \in Node |-> None] /\ pc = "reconnect"
  BY DEF Init
<1>1. AeTypeOK
  <2>1. el \in EventLoop
    BY AeAssumption DEF Init, aeCreateEventLoop, EventLoop, Mask
  <2> QED BY <2>1, SerialAssumption DEF Init, AeTypeOK
<1>2. MasterList \in Seq(Node)
  BY ConfiguredLists, SeqOfSubset DEF Node
<1>3. TypeOK
  <2>1. /\ virtuals \in [Masters -> Seq(Virtual)]
        /\ fd \in [Node -> {None} \cup Fd] /\ sfd \in [Node -> {None} \cup Fd]
        /\ pts \in [Node -> {None} \cup Pts] /\ symlink \in [Virtual -> {None} \cup Pts]
        /\ recvbuf \in [Node -> Chunk \cup {Empty}] /\ nread \in [Node -> Nat]
        /\ out \in [Node -> Seq(Chunk)] /\ present \subseteq Masters
    BY ConfiguredLists DEF Init
  <2>1a. /\ link \in [fd : {None} \cup Fd, sfd : {None} \cup Fd, pts : {None} \cup Pts]
         /\ file \in [Fd -> Node \cup {NoClient}]
    BY DEF Init, NoLink
  <2>2. /\ hung \subseteq Node /\ faults \in 0 .. MaxFaults /\ todo \in Seq(Node)
        /\ fired \in Seq([fd : Fd, mask : Mask]) /\ j \in Nat \ {0}
        /\ pass \in {R, W} /\ handling \in Mask
    BY <1>2, SerialAssumption DEF Init, Mask
  <2>3. /\ shutdown \in BOOLEAN /\ stop \in BOOLEAN /\ cronloops \in 0 .. Period - 1
        /\ pidfile \in {"unset", "present", "absent"}
    <3>1. cronloops = 0 /\ shutdown = FALSE /\ stop = FALSE /\ pidfile = Pidfile
      BY DEF Init
    <3>2. 0 \in 0 .. Period - 1
      BY PeriodPositive
    <3>3. Pidfile \in {"unset", "present", "absent"}
      BY SerialAssumption
    <3> QED BY <3>1, <3>2, <3>3
  <2> QED BY <1>0, <1>1, <2>1, <2>1a, <2>2, <2>3 DEF TypeOK
<1>4. \A n \in Node : ~Linked(n)
  BY <1>0 DEF Linked
<1>5. Owned = {}
  BY <1>0 DEF Init, NoLink, Owned, Held, InMaking
<1>6. FdOwnership
  BY <1>0, <1>4, <1>5 DEF Init, FdOwnership, InMaking, NoLink
<1>6a. LinksLeadHome
  BY <1>0, <1>4 DEF Init, LinksLeadHome
<1>7. RegistrationConsistent
  <2>1. el.mask = [f \in Fd |-> {}] /\ el.epoll = [f \in Fd |-> {}]
    BY DEF Init, aeCreateEventLoop
  <2> QED BY <1>4, <2>1 DEF RegistrationConsistent, TableMatchesLinks
<1>8. HandlerGetsItsLink
  BY <1>0 DEF HandlerGetsItsLink
<1> QED BY <1>3, <1>6, <1>6a, <1>7, <1>8 DEF IInv

\* IInv holds in every reachable state.
LEMMA Inductive == Spec => []IInv
<1>1. Init => IInv
  BY InitInv
<1>2. IInv /\ [Next]_vars => IInv'
  BY TypeStep, OwnershipStep, LinksLeadHomeStep, RegistrationStep, HandlerStep DEF IInv
<1> QED BY <1>1, <1>2, PTL DEF Spec

\* The daemon's state is always well typed; in particular no event is ever dispatched
\* from outside the fired array, and the cron counter stays in its period.
THEOREM TypeCorrect == Spec => []TypeOK
BY Inductive, PTL DEF IInv

\* No sequence of connections, connections that fail half-way, I/O errors and signals
\* leaks a descriptor or lets two links hold the same one (serial.c:96-305, 342-364).
THEOREM NoDescriptorLeak == Spec => []FdOwnership
BY Inductive, PTL DEF IInv

\* Until the shutdown the registrations are those of the live links, whatever their
\* number and the size of the table (serial.c:289-296, 342-350).
THEOREM LinksAreRegistered == Spec => []RegistrationConsistent
BY Inductive, PTL DEF IInv

\* A handler runs with the link whose descriptor fired, never with that of a reused
\* descriptor, and its read part and a blocked write find it alive
\* (ae.c:385-404, serial.c:535-614).
THEOREM HandlersGetTheirLinks == Spec => []HandlerGetsItsLink
BY Inductive, PTL DEF IInv
=============================================================================
