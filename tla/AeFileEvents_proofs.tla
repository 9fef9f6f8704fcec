------------------------ MODULE AeFileEvents_proofs ------------------------
(***************************************************************************)
(* Proofs about AeFileEvents, for every number of descriptors, every set   *)
(* size and every set of clients.  First what each library call does to    *)
(* the event loop (SerialProxy_proofs uses these lemmas too), then the     *)
(* invariant of AeSpec.                                                    *)
(***************************************************************************)
EXTENDS AeFileEvents, NaturalLemmas, TLAPS

\* The downward scan of aeDeleteFileEvent (ae.c:151-153) finds the highest
\* registered descriptor below `top', or -1.  Its distance from the top is the
\* least of a nonempty set of naturals.
LEMMA HighestBelowIsHighest ==
    ASSUME NEW mask \in [Fd -> Mask], NEW top \in Fd
    PROVE  LET h == HighestBelow(mask, top)
           IN  /\ h \in -1 .. top - 1
               /\ h = -1 \/ mask[h] # {}
               /\ \A g \in 0 .. top - 1 : mask[g] # {} => g <= h
<1> DEFINE T == {k \in Nat : k <= top /\ (k = top \/ mask[top - 1 - k] # {})}
<1>1. T \subseteq Nat /\ top \in T
  BY AeAssumption DEF Fd
<1>3. PICK k \in T : \A l \in T : k <= l
  <2> HIDE DEF T
  <2> QED BY <1>1, LeastNatural
<1> DEFINE h == top - 1 - k
<1>4. h \in -1 .. top - 1 /\ (h = -1 \/ mask[h] # {})
  BY <1>1, AeAssumption DEF Fd
<1>5. ASSUME NEW g \in 0 .. top - 1, mask[g] # {} PROVE g <= h
  <2>1. top - 1 - g \in T
    BY <1>5, AeAssumption DEF Fd
  <2>2. k <= top - 1 - g
    BY <2>1, <1>3
  <2>3. k \in Nat /\ top \in Int /\ g \in Int
    BY <1>1, AeAssumption DEF Fd
  <2> QED BY <2>2, <2>3
<1> HIDE DEF h
<1> QED BY <1>4, <1>5 DEF HighestBelow

\* What aeCreateFileEvent (ae.c:119-137) changes: the entry of f, when it succeeds.
LEMMA CreateEffect ==
    ASSUME NEW l \in EventLoop, NEW f \in Fd, NEW m \in Mask, NEW c \in Client
    PROVE  LET r == aeCreateFileEvent(l, f, m, c)
           IN  /\ r \in EventLoop
               /\ r.setsize = l.setsize
               /\ \A g \in Fd \ {f} : r.mask[g] = l.mask[g] /\ r.data[g] = l.data[g]
                                      /\ r.epoll[g] = l.epoll[g]
               /\ ~Accepted(l, f) => r = l
               /\ Accepted(l, f) => /\ r.mask[f] = l.mask[f] \cup m /\ r.data[f] = c
                                    /\ r.epoll[f] = l.mask[f] \cup m
                                    /\ r.maxfd = IF f > l.maxfd THEN f ELSE l.maxfd
<1>1. CASE ~Accepted(l, f)
  BY <1>1 DEF aeCreateFileEvent
<1>2. CASE Accepted(l, f)
  <2> DEFINE r == aeCreateFileEvent(l, f, m, c)
  <2>1. r = [l EXCEPT !.epoll = [l.epoll EXCEPT ![f] = m \cup l.mask[f]],
                      !.mask[f] = @ \cup m,
                      !.data[f] = c,
                      !.maxfd = IF f > @ THEN f ELSE @]
    BY <1>2 DEF aeCreateFileEvent, aeApiAddEvent
  <2> HIDE DEF r
  <2>2. l.mask[f] \cup m \in Mask
    BY DEF EventLoop, Mask
  <2>3. r \in EventLoop
    BY <2>1, <2>2 DEF EventLoop
  <2>4. /\ r.setsize = l.setsize
        /\ r.maxfd = IF f > l.maxfd THEN f ELSE l.maxfd
        /\ r.mask = [l.mask EXCEPT ![f] = l.mask[f] \cup m]
        /\ r.data = [l.data EXCEPT ![f] = c]
        /\ r.epoll = [l.epoll EXCEPT ![f] = l.mask[f] \cup m]
    BY <2>1 DEF EventLoop
  <2>5. /\ r.mask[f] = l.mask[f] \cup m /\ r.data[f] = c /\ r.epoll[f] = l.mask[f] \cup m
        /\ \A g \in Fd \ {f} : r.mask[g] = l.mask[g] /\ r.data[g] = l.data[g]
                               /\ r.epoll[g] = l.epoll[g]
    BY <2>4 DEF EventLoop
  <2> QED BY <1>2, <2>3, <2>4, <2>5 DEF r
<1> QED BY <1>1, <1>2

\* What aeDeleteFileEvent (ae.c:139-155) changes: the entry of f, and maxfd when the
\* highest entry is emptied.
LEMMA DeleteEffect ==
    ASSUME NEW l \in EventLoop, NEW f \in Fd, NEW m \in Mask
    PROVE  LET r == aeDeleteFileEvent(l, f, m)
           IN  /\ r \in EventLoop
               /\ r.setsize = l.setsize /\ r.data = l.data
               /\ \A g \in Fd \ {f} : r.mask[g] = l.mask[g] /\ r.epoll[g] = l.epoll[g]
               /\ f >= l.setsize \/ l.mask[f] = {} => r = l
               /\ f < l.setsize => /\ r.mask[f] = l.mask[f] \ m
                                   /\ l.epoll[f] = l.mask[f] => r.epoll[f] = r.mask[f]
               /\ ~(f = l.maxfd /\ r.mask[f] = {}) => r.maxfd = l.maxfd
               /\ r # l /\ f = l.maxfd /\ r.mask[f] = {} =>
                     r.maxfd = HighestBelow(r.mask, l.maxfd)
<1>1. CASE f >= l.setsize \/ l.mask[f] = {}
  <2>1. aeDeleteFileEvent(l, f, m) = l
    BY <1>1 DEF aeDeleteFileEvent
  <2>2. f < l.setsize => l.mask[f] = {} /\ l.mask[f] = l.mask[f] \ m
    <3>1. f \in Int /\ l.setsize \in Int
      BY AeAssumption DEF Fd, EventLoop
    <3> QED BY <1>1, <3>1
  <2> QED BY <2>1, <2>2
<1>2. CASE ~(f >= l.setsize \/ l.mask[f] = {})
  <2> DEFINE r == aeDeleteFileEvent(l, f, m)
             left == [l.mask EXCEPT ![f] = @ \ m]
             mx == IF f = l.maxfd /\ left[f] = {} THEN HighestBelow(left, l.maxfd) ELSE l.maxfd
             ep == [l.epoll EXCEPT ![f] = IF @ = {} THEN {} ELSE l.mask[f] \ m]
  <2>1. r = [l EXCEPT !.epoll = ep, !.mask = left, !.maxfd = mx]
    BY <1>2 DEF aeDeleteFileEvent, aeApiDelEvent
  <2>2. left \in [Fd -> Mask] /\ ep \in [Fd -> Mask]
    BY DEF EventLoop, Mask
  <2>3. mx \in {-1} \cup Fd
    <3>1. CASE f = l.maxfd /\ left[f] = {}
      <4>1. HighestBelow(left, l.maxfd) \in -1 .. l.maxfd - 1
        BY <2>2, <3>1, HighestBelowIsHighest
      <4> QED BY <4>1, <3>1, AeAssumption DEF Fd
    <3>2. CASE ~(f = l.maxfd /\ left[f] = {})
      BY <3>2 DEF EventLoop
    <3> QED BY <3>1, <3>2
  <2>4. left[f] = l.mask[f] \ m /\ \A g \in Fd \ {f} : left[g] = l.mask[g]
    BY DEF EventLoop
  <2>5. ep[f] = (IF l.epoll[f] = {} THEN {} ELSE l.mask[f] \ m)
        /\ \A g \in Fd \ {f} : ep[g] = l.epoll[g]
    BY DEF EventLoop
  <2>6. /\ ~(f = l.maxfd /\ left[f] = {}) => mx = l.maxfd
        /\ f = l.maxfd /\ left[f] = {} => mx = HighestBelow(left, l.maxfd)
    OBVIOUS
  <2> HIDE DEF r, left, mx, ep
  <2>7. r \in EventLoop
    BY <2>1, <2>2, <2>3 DEF EventLoop
  <2>8. r.setsize = l.setsize /\ r.data = l.data /\ r.mask = left /\ r.maxfd = mx /\ r.epoll = ep
    BY <2>1 DEF EventLoop
  <2> QED BY <1>2, <2>4, <2>5, <2>6, <2>7, <2>8 DEF r
<1> QED BY <1>1, <1>2

\* What close(2) does to the loop: the kernel forgets the descriptor.
LEMMA CloseEffect ==
    ASSUME NEW l \in EventLoop, NEW f \in Fd
    PROVE  LET r == KernelClose(l, f)
           IN  /\ r \in EventLoop
               /\ r.setsize = l.setsize /\ r.data = l.data /\ r.mask = l.mask
               /\ r.maxfd = l.maxfd /\ r.epoll[f] = {}
               /\ \A g \in Fd \ {f} : r.epoll[g] = l.epoll[g]
BY DEF KernelClose, EventLoop, Mask

-----------------------------------------------------------------------------
\* The three parts support each other: deletion finds the new maxfd only in a table
\* that agrees with the old one, and a creation succeeds or fails by the agreement
\* of table and kernel.
AeInv == AeTypeOK /\ MaxfdIsHighest /\ EpollMatchesTable

\* aeCreateEventLoop establishes the invariant.
LEMMA AeInitInv == AeInit => AeInv
<1> SUFFICES ASSUME AeInit PROVE AeInv
  OBVIOUS
<1>1. /\ el.setsize = MaxClients /\ el.maxfd = -1
      /\ el.mask = [f \in Fd |-> {}] /\ el.epoll = [f \in Fd |-> {}]
      /\ opened = {}
  BY DEF AeInit, aeCreateEventLoop
<1>2. el \in EventLoop
  BY AeAssumption DEF AeInit, aeCreateEventLoop, EventLoop, Mask
<1> QED BY <1>1, <1>2 DEF AeInv, AeTypeOK, MaxfdIsHighest, EpollMatchesTable

\* Every call of the library preserves it.
LEMMA AeNextInv == AeInv /\ [AeNext]_aeVars => AeInv'
<1> SUFFICES ASSUME AeInv, [AeNext]_aeVars PROVE AeInv'
  OBVIOUS
<1>0. /\ el \in EventLoop /\ opened \subseteq Fd
      /\ el.maxfd # -1 => el.mask[el.maxfd] # {}
      /\ \A f \in Fd : el.mask[f] # {} => f <= el.maxfd
      /\ \A f \in Fd : el.epoll[f] = el.mask[f] /\ (el.mask[f] # {} => f \in opened)
  BY DEF AeInv, AeTypeOK, MaxfdIsHighest, EpollMatchesTable
<1>00. /\ el.maxfd \in {-1} \cup Fd /\ el.setsize \in Int
       /\ el.maxfd \in Int /\ \A f \in Fd : f \in Int /\ f >= 0
  BY <1>0, AeAssumption DEF EventLoop, Fd
<1> SUFFICES /\ el' \in EventLoop /\ opened' \subseteq Fd
             /\ el'.maxfd # -1 => el'.mask[el'.maxfd] # {}
             /\ \A f \in Fd : el'.mask[f] # {} => f <= el'.maxfd
             /\ \A f \in Fd : /\ el'.epoll[f] = el'.mask[f]
                              /\ el'.mask[f] # {} => f \in opened'
  BY DEF AeInv, AeTypeOK, MaxfdIsHighest, EpollMatchesTable
<1>1. ASSUME NEW f \in Fd, Open(f) PROVE /\ el' = el /\ opened' = opened \cup {f}
  BY <1>1 DEF Open
<1>2. ASSUME NEW f \in Fd, NEW m \in Mask \ {{}}, NEW c \in Client, Create(f, m, c)
      PROVE  /\ el' \in EventLoop
             /\ el'.maxfd # -1 => el'.mask[el'.maxfd] # {}
             /\ \A g \in Fd : el'.mask[g] # {} => g <= el'.maxfd
             /\ \A g \in Fd : el'.epoll[g] = el'.mask[g] /\ (el'.mask[g] # {} => g \in opened)
  <2>1. el' = aeCreateFileEvent(el, f, m, c) /\ f \in opened
    BY <1>2 DEF Create
  <2>2. CASE ~Accepted(el, f)
    BY <1>0, <2>1, <2>2, CreateEffect
  <2>3. CASE Accepted(el, f)
    <3>1. /\ el' \in EventLoop
          /\ el'.mask[f] = el.mask[f] \cup m /\ el'.epoll[f] = el.mask[f] \cup m
          /\ el'.maxfd = IF f > el.maxfd THEN f ELSE el.maxfd
          /\ \A g \in Fd \ {f} : el'.mask[g] = el.mask[g] /\ el'.epoll[g] = el.epoll[g]
      BY <1>0, <2>1, <2>3, CreateEffect
    <3>2. el'.mask[f] # {}
      BY <3>1
    <3>3. \A g \in Fd : el'.epoll[g] = el'.mask[g] /\ (el'.mask[g] # {} => g \in opened)
      <4> TAKE g \in Fd
      <4> QED BY <1>0, <2>1, <3>1
    <3>4. el'.maxfd # -1 => el'.mask[el'.maxfd] # {}
      BY <1>0, <1>00, <3>1, <3>2
    <3>5. \A g \in Fd : el'.mask[g] # {} => g <= el'.maxfd
      <4> TAKE g \in Fd
      <4> QED BY <1>0, <1>00, <3>1
    <3> QED BY <3>1, <3>3, <3>4, <3>5
  <2> QED BY <2>2, <2>3
<1>3. ASSUME NEW f \in Fd, NEW m \in Mask \ {{}}, Delete(f, m)
      PROVE  /\ el' \in EventLoop
             /\ el'.maxfd # -1 => el'.mask[el'.maxfd] # {}
             /\ \A g \in Fd : el'.mask[g] # {} => g <= el'.maxfd
             /\ \A g \in Fd : el'.epoll[g] = el'.mask[g] /\ (el'.mask[g] # {} => g \in opened)
  <2>1. el' = aeDeleteFileEvent(el, f, m)
    BY <1>3 DEF Delete
  <2>2. CASE f >= el.setsize \/ el.mask[f] = {}
    BY <1>0, <2>1, <2>2, DeleteEffect
  <2>3. CASE ~(f >= el.setsize \/ el.mask[f] = {})
    <3>1. /\ el' \in EventLoop
          /\ el'.mask[f] = el.mask[f] \ m /\ el'.epoll[f] = el'.mask[f]
          /\ ~(f = el.maxfd /\ el'.mask[f] = {}) => el'.maxfd = el.maxfd
          /\ el' # el /\ f = el.maxfd /\ el'.mask[f] = {} =>
                el'.maxfd = HighestBelow(el'.mask, el.maxfd)
          /\ \A g \in Fd \ {f} : el'.mask[g] = el.mask[g] /\ el'.epoll[g] = el.epoll[g]
      BY <1>0, <1>00, <2>1, <2>3, DeleteEffect
    <3>2. \A g \in Fd : el'.epoll[g] = el'.mask[g] /\ (el'.mask[g] # {} => g \in opened)
      BY <1>0, <3>1
    <3>3. CASE f = el.maxfd /\ el'.mask[f] = {}
      <4>1. el' # el /\ el'.maxfd = HighestBelow(el'.mask, el.maxfd)
        BY <2>3, <3>1, <3>3
      <4>2. el'.mask \in [Fd -> Mask]
        BY <3>1 DEF EventLoop
      <4>3. /\ el'.maxfd \in -1 .. el.maxfd - 1
            /\ el'.maxfd = -1 \/ el'.mask[el'.maxfd] # {}
            /\ \A g \in 0 .. el.maxfd - 1 : el'.mask[g] # {} => g <= el'.maxfd
        BY <3>3, <4>1, <4>2, HighestBelowIsHighest
      <4>4. ASSUME NEW g \in Fd, el'.mask[g] # {} PROVE g \in 0 .. el.maxfd - 1
        BY <1>0, <1>00, <3>1, <3>3, <4>4
      <4> QED BY <3>1, <3>2, <4>3, <4>4
    <3>4. CASE ~(f = el.maxfd /\ el'.mask[f] = {})
      BY <1>0, <1>00, <3>1, <3>2, <3>4
    <3> QED BY <3>3, <3>4
  <2> QED BY <2>2, <2>3
<1>4. ASSUME NEW f \in Fd, Close(f)
      PROVE  /\ el' \in EventLoop /\ opened' = opened \ {f} /\ el.mask[f] = {}
             /\ el'.mask = el.mask /\ el'.maxfd = el.maxfd
             /\ \A g \in Fd : el'.epoll[g] = el.epoll[g]
  <2>1. el' = KernelClose(el, f) /\ opened' = opened \ {f} /\ el.mask[f] = {}
    BY <1>4 DEF Close
  <2>2. /\ el' \in EventLoop /\ el'.mask = el.mask /\ el'.maxfd = el.maxfd
        /\ el'.epoll[f] = {} /\ \A g \in Fd \ {f} : el'.epoll[g] = el.epoll[g]
    BY <1>0, <2>1, CloseEffect
  <2> QED BY <1>0, <2>1, <2>2
<1>5. ASSUME NEW n \in 1 .. NFile, Resize(n)
      PROVE  /\ el' \in EventLoop /\ el'.maxfd = el.maxfd /\ el'.epoll = el.epoll
             /\ \A g \in Fd : el'.mask[g] = el.mask[g]
  <2>1. CASE n = el.setsize \/ el.maxfd >= n
    BY <1>0, <1>5, <2>1 DEF Resize, aeResizeSetSize
  <2>2. CASE ~(n = el.setsize \/ el.maxfd >= n)
    <3> DEFINE mk == [f \in Fd |-> IF f > el.maxfd THEN {} ELSE el.mask[f]]
    <3>1. el' = [el EXCEPT !.setsize = n, !.mask = mk]
      BY <1>5, <2>2 DEF Resize, aeResizeSetSize
    <3>2. \A g \in Fd : mk[g] = el.mask[g]
      BY <1>0, <1>00
    <3>3. mk \in [Fd -> Mask]
      BY <1>0, <3>2 DEF EventLoop
    <3> HIDE DEF mk
    <3>4. n \in Nat \ {0}
      BY AeAssumption
    <3>5. el' \in EventLoop /\ el'.maxfd = el.maxfd /\ el'.epoll = el.epoll /\ el'.mask = mk
      BY <1>0, <3>1, <3>3, <3>4 DEF EventLoop
    <3> QED BY <3>2, <3>5
  <2> QED BY <2>1, <2>2
<1>6. CASE AeNext
  <2>1. CASE \E f \in Fd : Open(f)
    BY <1>0, <1>1, <2>1
  <2>2. CASE \E f \in Fd : Close(f)
    BY <1>0, <1>4, <2>2
  <2>3. CASE \E f \in Fd, m \in Mask \ {{}}, c \in Client : Create(f, m, c)
    BY <1>0, <1>2, <2>3 DEF Create
  <2>4. CASE \E f \in Fd, m \in Mask \ {{}} : Delete(f, m)
    BY <1>0, <1>3, <2>4 DEF Delete
  <2>5. CASE \E n \in 1 .. NFile : Resize(n)
    <3>1. /\ el' \in EventLoop /\ el'.maxfd = el.maxfd /\ el'.epoll = el.epoll
          /\ \A g \in Fd : el'.mask[g] = el.mask[g]
      BY <1>5, <2>5
    <3>2. opened' = opened
      BY <2>5 DEF Resize
    <3>3. el'.maxfd # -1 => el'.mask[el'.maxfd] # {}
      BY <1>0, <1>00, <3>1
    <3> QED BY <1>0, <3>1, <3>2, <3>3
  <2> QED BY <1>6, <2>1, <2>2, <2>3, <2>4, <2>5 DEF AeNext
<1>7. CASE UNCHANGED aeVars
  BY <1>0, <1>7 DEF aeVars
<1> QED BY <1>6, <1>7

\* The library keeps its table, its maxfd and the kernel's list consistent under
\* every sequence of calls (ae.c:119-155, ae_epoll.c:73-106).
THEOREM AeInvariant == AeSpec => [](AeTypeOK /\ MaxfdIsHighest /\ EpollMatchesTable)
<1>1. AeInit => AeInv
  BY AeInitInv
<1>2. AeInv /\ [AeNext]_aeVars => AeInv'
  BY AeNextInv
<1> QED BY <1>1, <1>2, PTL DEF AeSpec, AeInv

\* The table stays well typed: no call indexes it outside the descriptors, and maxfd is
\* -1 or a descriptor (ae.c:119-155).
THEOREM AeTypeCorrect == AeSpec => []AeTypeOK
BY AeInvariant, PTL

\* The kernel's interest list is the table's, and only open descriptors are registered:
\* the choice of ADD, MOD and DEL from the table is always the right one
\* (ae_epoll.c:73-106).
THEOREM KernelListMatches == AeSpec => []EpollMatchesTable
BY AeInvariant, PTL

\* aeResizeSetSize never drops a registration (ae.c:90-106): the only entries it
\* touches lie above maxfd, which the invariant makes the highest.
THEOREM ResizeIsSafe == AeSpec => ResizeKeepsRegistrations
<1> DEFINE Keeps == el'.setsize # el.setsize =>
         \A f \in Fd : el.mask[f] # {} => el'.mask[f] = el.mask[f] /\ f < el'.setsize
<1>1. AeInv /\ [AeNext]_aeVars => [Keeps]_aeVars
  <2> SUFFICES ASSUME AeInv, AeNext, el'.setsize # el.setsize,
                      NEW f \in Fd, el.mask[f] # {}
               PROVE  el'.mask[f] = el.mask[f] /\ f < el'.setsize
    OBVIOUS
  <2>0. el \in EventLoop /\ f <= el.maxfd
    BY DEF AeInv, AeTypeOK, MaxfdIsHighest
  <2>1. ~\E g \in Fd : Open(g)
    BY DEF Open
  <2>2. ~\E g \in Fd : Close(g)
    BY <2>0, CloseEffect DEF Close
  <2>3. ~\E g \in Fd, m \in Mask \ {{}}, c \in Client : Create(g, m, c)
    BY <2>0, CreateEffect DEF Create
  <2>4. ~\E g \in Fd, m \in Mask \ {{}} : Delete(g, m)
    BY <2>0, DeleteEffect DEF Delete
  <2>5. PICK n \in 1 .. NFile : Resize(n)
    BY <2>1, <2>2, <2>3, <2>4 DEF AeNext
  <2>6. /\ el' = [el EXCEPT !.setsize = n,
                            !.mask = [g \in Fd |-> IF g > el.maxfd THEN {} ELSE el.mask[g]]]
        /\ ~(el.maxfd >= n)
    BY <2>5 DEF Resize, aeResizeSetSize
  <2>7. /\ el'.setsize = n
        /\ el'.mask = [g \in Fd |-> IF g > el.maxfd THEN {} ELSE el.mask[g]]
    BY <2>0, <2>6 DEF EventLoop
  <2>8. el.maxfd \in Int /\ f \in Int /\ n \in Int
    BY <2>0, AeAssumption DEF EventLoop, Fd
  <2> QED BY <2>0, <2>6, <2>7, <2>8
<1>2. AeSpec => []AeInv
  BY AeInvariant, PTL DEF AeInv
<1> QED BY <1>1, <1>2, PTL DEF AeSpec, ResizeKeepsRegistrations
=============================================================================
