---------------------------- MODULE AeFileEvents ----------------------------
(***************************************************************************)
(* The file-event half of the event library: the table of src/src/ae.c     *)
(* (events[], setsize, maxfd) and the interest list that src/src/ae_epoll.c*)
(* keeps in the kernel.                                                    *)
(*                                                                         *)
(* Every library call is an operator on the event loop `el', so that       *)
(* SerialProxy can use the same calls inside its handlers.  AeSpec is the  *)
(* library on its own, with clients that open, register, unregister and    *)
(* close descriptors in any order; the only discipline asked of them is    *)
(* that a descriptor is unregistered before it is closed.  SerialProxy     *)
(* shows that the daemon keeps it until it shuts down.                     *)
(***************************************************************************)
EXTENDS Integers

CONSTANTS NFile,       \* RLIMIT_NOFILE: descriptors are 0 .. NFile - 1
          MaxClients,  \* the set size the loop is created with
          Client,      \* the clientData pointers: one per link
          NoClient     \* clientData of an entry that was never registered

ASSUME AeAssumption == /\ NFile \in Nat \ {0}
                       /\ MaxClients \in Nat \ {0}
                       /\ NoClient \notin Client

VARIABLES el,      \* the aeEventLoop and its epoll interest list
          opened   \* the descriptors open in this process

aeVars == <<el, opened>>

R == "AE_READABLE"
W == "AE_WRITABLE"

Mask == SUBSET {R, W}
Fd == 0 .. NFile - 1

(***************************************************************************)
(* setsize  number of entries of events[]                                  *)
(* maxfd    highest registered descriptor, -1 when there is none           *)
(* mask     events[fd].mask                                                *)
(* data     events[fd].clientData                                          *)
(* epoll    what the kernel watches; {} when the descriptor is not in the  *)
(*          interest list (every registration has a nonempty mask)         *)
(***************************************************************************)
EventLoop == [setsize : Nat \ {0}, maxfd : {-1} \cup Fd, mask : [Fd -> Mask],
              data : [Fd -> Client \cup {NoClient}], epoll : [Fd -> Mask]]

aeCreateEventLoop == [setsize |-> MaxClients, maxfd |-> -1,
                      mask |-> [f \in Fd |-> {}], data |-> [f \in Fd |-> NoClient],
                      epoll |-> [f \in Fd |-> {}]]

\* The kernel: ADD wants a descriptor that is not in the list, MOD one that is.
\* aeApiAddEvent chooses between them by the table, not by the list.
CtlAccepts(l, f) == (l.mask[f] = {}) <=> (l.epoll[f] = {})

\* Mutant: a descriptor beyond the table is not refused.
BugNoSizeCheck(l, f) == CtlAccepts(l, f)

\* aeCreateFileEvent returns AE_OK.
Accepted(l, f) == f < l.setsize /\ CtlAccepts(l, f)

aeApiAddEvent(l, f, m) == [l.epoll EXCEPT ![f] = m \cup l.mask[f]]

\* Mutant: the delete mask is taken for the mask that stays.
BugDelKeepsMask(l, f, m) == [l.epoll EXCEPT ![f] = IF @ = {} THEN {} ELSE l.mask[f] \cap m]

\* MOD with what is left, DEL when nothing is; the return value is ignored, and
\* the kernel does nothing for a descriptor it does not watch.
aeApiDelEvent(l, f, m) ==
    [l.epoll EXCEPT ![f] = IF @ = {} THEN {} ELSE l.mask[f] \ m]

\* Mutant: the clientData of the descriptor's former owner stays.
BugOldClientData(l, f, m, c) ==
    IF Accepted(l, f)
    THEN [l EXCEPT !.epoll = aeApiAddEvent(l, f, m),
                   !.mask[f] = @ \cup m,
                   !.data[f] = IF @ = NoClient THEN c ELSE @,
                   !.maxfd = IF f > @ THEN f ELSE @]
    ELSE l

\* An AE_ERR return leaves the loop as it is.
aeCreateFileEvent(l, f, m, c) ==
    IF Accepted(l, f)
    THEN [l EXCEPT !.epoll = aeApiAddEvent(l, f, m),
                   !.mask[f] = @ \cup m,
                   !.data[f] = c,
                   !.maxfd = IF f > @ THEN f ELSE @]
    ELSE l

\* Mutant: a scan that finds nothing ends one too low.
BugScanTooLow(mask, top) ==
    IF \A g \in 0 .. top - 1 : mask[g] = {} THEN -2
    ELSE CHOOSE h \in 0 .. top - 1 :
            /\ mask[h] # {}
            /\ \A g \in 0 .. top - 1 : mask[g] # {} => g <= h

\* The downward scan of aeDeleteFileEvent: the highest registered descriptor
\* below `top', -1 when there is none.
HighestBelow(mask, top) ==
    CHOOSE h \in -1 .. top - 1 :
        /\ h = -1 \/ mask[h] # {}
        /\ \A g \in 0 .. top - 1 : mask[g] # {} => g <= h

\* Mutant: maxfd is decremented, there is no scan.
BugDeleteNoScan(l, f, m) ==
    IF f >= l.setsize \/ l.mask[f] = {} THEN l
    ELSE [l EXCEPT !.epoll = aeApiDelEvent(l, f, m),
                   !.mask[f] = @ \ m,
                   !.maxfd = IF f = @ /\ l.mask[f] \ m = {} THEN @ - 1 ELSE @]

aeDeleteFileEvent(l, f, m) ==
    IF f >= l.setsize \/ l.mask[f] = {} THEN l
    ELSE LET left == [l.mask EXCEPT ![f] = @ \ m]
         IN  [l EXCEPT !.epoll = aeApiDelEvent(l, f, m),
                       !.mask = left,
                       !.maxfd = IF f = l.maxfd /\ left[f] = {}
                                 THEN HighestBelow(left, l.maxfd) ELSE @]

\* Mutant: off by one, the entry of maxfd itself may fall off the end.
BugResizeDropsLast(l, n) ==
    IF n = l.setsize \/ l.maxfd > n THEN l
    ELSE [l EXCEPT !.setsize = n,
                   !.mask = [f \in Fd |-> IF f > l.maxfd \/ f >= n THEN {} ELSE l.mask[f]]]

\* realloc drops the entries from n on; the slots above maxfd are (re)initialised.
aeResizeSetSize(l, n) ==
    IF n = l.setsize \/ l.maxfd >= n THEN l
    ELSE [l EXCEPT !.setsize = n,
                   !.mask = [f \in Fd |-> IF f > l.maxfd THEN {} ELSE l.mask[f]]]

\* close(2): the kernel forgets the descriptor, the table does not.
KernelClose(l, f) == [l EXCEPT !.epoll[f] = {}]

\* aeApiPoll: what the kernel reports for one descriptor, as an ae mask.
aeApiPollMask(events) ==
    (IF "EPOLLIN" \in events THEN {R} ELSE {}) \cup
    (IF events \cap {"EPOLLOUT", "EPOLLERR", "EPOLLHUP"} # {} THEN {W} ELSE {})

\* open(2) and its kin return the lowest free descriptor.
Lowest(f, used) == f \in Fd \ used /\ \A g \in Fd \ used : f <= g

-----------------------------------------------------------------------------
AeInit == el = aeCreateEventLoop /\ opened = {}

Open(f) == /\ Lowest(f, opened)
           /\ opened' = opened \cup {f}
           /\ UNCHANGED el

Create(f, m, c) == /\ f \in opened
                   /\ el' = aeCreateFileEvent(el, f, m, c)
                   /\ UNCHANGED opened

Delete(f, m) == /\ el' = aeDeleteFileEvent(el, f, m)
                /\ UNCHANGED opened

\* The client's side of the contract: unregister, then close.
Close(f) == /\ f \in opened
            /\ el.mask[f] = {}
            /\ el' = KernelClose(el, f)
            /\ opened' = opened \ {f}

Resize(n) == /\ el' = aeResizeSetSize(el, n)
             /\ UNCHANGED opened

AeNext == \/ \E f \in Fd : Open(f) \/ Close(f)
          \/ \E f \in Fd, m \in Mask \ {{}}, c \in Client : Create(f, m, c)
          \/ \E f \in Fd, m \in Mask \ {{}} : Delete(f, m)
          \/ \E n \in 1 .. NFile : Resize(n)

AeSpec == AeInit /\ [][AeNext]_aeVars

-----------------------------------------------------------------------------
\* The types of the table and of the set of open descriptors (ae.h, aeEventLoop).
AeTypeOK == /\ el \in EventLoop
            /\ opened \subseteq Fd

\* maxfd is the highest registered descriptor: it is what aeResizeSetSize trusts
\* when it drops the tail of the table, and what decides that there is nothing to
\* poll.  It is maintained incrementally by create (ae.c:134) and by the downward
\* scan of delete (ae.c:147-154).
MaxfdIsHighest ==
    /\ el.maxfd # -1 => el.mask[el.maxfd] # {}
    /\ \A f \in Fd : el.mask[f] # {} => f <= el.maxfd

\* The table and the kernel's interest list never disagree, although ADD, MOD and
\* DEL are chosen from the table and their failures are ignored on deletion
\* (ae_epoll.c:78, 99-105): a disagreement would make every later call for the
\* descriptor fail.
EpollMatchesTable ==
    \A f \in Fd : /\ el.epoll[f] = el.mask[f]
                  /\ el.mask[f] # {} => f \in opened

\* Resizing never loses a registration (ae.c:93-105), whatever creations and
\* deletions came before.
ResizeKeepsRegistrations ==
    [][el'.setsize # el.setsize =>
         \A f \in Fd : el.mask[f] # {} => el'.mask[f] = el.mask[f] /\ f < el'.setsize]_aeVars
=============================================================================
