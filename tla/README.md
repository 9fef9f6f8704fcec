# serial-proxy: TLA+ models, model checking and proofs

serial-proxy (`sproxyd`) is a single-process daemon. It opens physical serial
devices ("masters"), gives each of them pseudo-terminals ("virtuals") that are
reached by a symbolic link, copies what a device sends to all its virtuals, and
what one of them (the "writer") sends back to the device. It is driven by a copy
of Redis' event library `ae` on epoll.

This directory models the daemon from its command line to its exit. TLC checks small
instances; TLAPS proves the invariants, the action properties and the refinement for
every configuration.

## Inventory

| Component | State | Operations | Interaction |
|---|---|---|---|
| File events, `ae.c`, `ae_epoll.c` | `events[]` (mask, clientData), `setsize`, `maxfd`; the kernel's interest list | `aeCreateEventLoop`, `aeCreateFileEvent`, `aeDeleteFileEvent`, `aeResizeSetSize`, `aeApiAddEvent`, `aeApiDelEvent` | called by the links; the kernel forgets a descriptor on `close` |
| Dispatch, `ae.c` | `fired[]`, loop index, `stop` | `aeMain`, `aeProcessEvents`, `aeApiPoll` | calls `_serialEventHandler`, `serverCron`, `serialBeforeSleep` |
| Time events, `ae.c` | list of timers, `timeEventNextId`, `lastTime`; the wall clock | `aeCreateTimeEvent`, `aeDeleteTimeEvent`, `aeSearchNearestTimer`, the poll timeout, `processTimeEvents` | callbacks call the library; the daemon has one timer, `serverCron` |
| Nodes and links, `serial.c` | master list, virtual lists, flags; for a link `fd`, `sfd`, `recvbuf` | open, set up, free, reconnect, read, write, terminate | files of the kernel: devices, pseudo-terminals, names |
| Server, `server.c` | settings, `shutdown`, `cronloops`, pid file, log file | options, daemonize, signal handler, cron, logging, start, stop | signals set `shutdown`; cron stops the loop; everybody logs |
| INI parser, `ini.c` | `section`, `prev_name`, `lineno`, `error` | one step per line | calls a handler per key |
| Configuration, `config.c` | the settings, the node lists | `_serverConfigHandler`, `_serialConfigHandler` | builds what the server and the links start from |

What is hard here, and the properties that answer it (PROJECT.json lists every
hazard at its line):

* two dispatch passes over one array of events, with handlers that free links whose
  events are still in it (`HandlerGetsItsLink`, `HandlerLinkAlive`);
* one receive buffer per link, shared by all virtuals and valid for one iteration
  (`RelaySpec`, `ReadersGetEachChunkOnce`, `FanoutComplete`, `NoBufferOverwrite`);
* descriptors that are reused at once, connections that fail half-way, tables indexed
  by descriptor, and failures that are ignored (`FdOwnership`,
  `RegistrationConsistent`, `RoutingCorrect`, `EpollMatchesTable`, `MaxfdIsHighest`);
* names in the file system that outlive links and processes
  (`NameLeadsToTerminal`, `NamesNotCrossed`, `CleanExit`);
* blocking writes, signals that interrupt them, and reconnection after a hang-up
  (`MasterReconnected`, `ShutdownCompletes`);
* a list of timers that callbacks change while it is walked and unlinked from, a wall
  clock that is set under it, and handlers that take their time (`NoTimerLost`, `OncePerRound`, `WalkGoesDown`, `DeletedNeverRuns`,
  `NeverEarly`, `DelayBounded`);
* periods counted in runs of a cron that is late by design (`ReconnectNotTooSoon`,
  `ReconnectOnTime`, `CronDivisionsDefined`);
* configuration files whose meaning depends on order, indentation and lines in error
  (`ListsWellFormed`, `FileMeansWhatItSays`, `CommaListsAreVirtuals`);
* resources of the process that messages and the shutdown rely on: the log file's
  path and the pid file (`LogfileIsEnough`, `RunsWithoutLogfile`,
  `OwnPidFileRemoved`).

## Modules

* `AeFileEvents` - the library's file events. Every call is an operator on the
  record `el` (`setsize`, `maxfd`, `mask`, `data`, `epoll`); `AeSpec` lets clients
  call them in any order. Resizing is never called by the daemon and is checked
  here.
* `SerialProxy` - extends `AeFileEvents` with links, dispatch, handlers, cron,
  signals and shutdown. `pc` is the control point of the single thread:

  | `pc` | code |
  |---|---|
  | `reconnect` | in `_serialReconnect` (from `serialInit` or the cron); `todo` holds the nodes to visit |
  | `setup` | in `_serialCreateLink`, after `open` or `openpty` succeeded |
  | `sleep` | in `serialBeforeSleep` |
  | `poll` | in `epoll_wait` |
  | `dispatch` | in one of the two loops of `aeProcessEvents`; `pass` says which |
  | `handler` | in `_serialEventHandler`; `handling` is what is left of its mask |
  | `blocked` | in a `write()` that does not return |
  | `timers` | in `processTimeEvents` |
  | `term` | in `serialTerm`; `todo` as above |
  | `exited`, `killed`, `crashed` | `main` returned; second SIGINT; died of undefined behaviour |

  A connection is two steps. `OpenMaster` and `OpenVirtual` take descriptors into `link`,
  the local variable of `_serialCreateLink`; `SetUp` registers them and gives the link
  to its node, `SetupFails` is the err path, where `_serialFreeLink` meets a link
  without a node (`FreeNewLink`). `file` is the kernel's table of open files: which
  terminal is behind a descriptor. A link reads and writes `file[fd[n]]`, so that a
  descriptor that was closed or reused too early would carry data elsewhere.

* `Relay` - the abstract specification of the data path: what was read from a node
  goes only to the nodes configured to receive from it, only while it is the newest
  chunk, at most once to a reader and at most twice to a writer or a device; it may be
  lost. `SerialProxy` implements it: `RelaySpec` maps `read` to `nread` and `sent` to
  `out`, and takes the source of each node from the configuration alone.
* `AeTimeEvents` - the library's time events as operators on the timer list; `Tps`
  ticks make a second.
* `AeTimers` - those operators at work: the loop of `aeMain` and the walk of
  `processTimeEvents`, one action per timer visited, with `te`, `prev` and `maxId` its
  locals; a deleted timer is unlinked through `prev`, which a timer that is too new does
  not become. While `pc` is `sleep`, `dispatch` (handlers of file events) or `callback`
  clients create and delete timers. `now` is the wall clock, which may be set at any
  point, `real` the time that passes: in the beforesleep procedure, in the poll, and in
  handlers and callbacks (`Spend`), for as long as they like.
* `IniConfig` - the parser of `ini.c` on one line and the two handlers of `config.c`,
  as operators on the parser's locals, the settings and the node lists.
* `SerialLists` - `ProperLists`, what makes lists of nodes a configuration of the daemon.
  `SerialProxy` assumes it of its constants, `Server` shows it of what it has read.
* `Server` - one process, from `main` to its return. It extends `IniConfig`, with
  which it reads both files line by line, and `AeTimeEvents`, with which it keeps its
  cron timer:

  | `pc` | code |
  |---|---|
  | `options` | `getopt` in `main` |
  | `sproxy.ini`, `serial.ini` | in `ini_parse` for that file; `ini` holds the parser's locals, `file` the lines read |
  | `daemonize` | in `main`, before `daemonize` and `createPidFile` |
  | `init` | in `serverInit`, before the signal handlers are installed |
  | `started` | after `serverInit` |
  | `sleep`, `poll` | in `serialBeforeSleep`, in `epoll_wait` |
  | `timers`, `cron` | before `serverCron`, and in it before `run_with_period` |
  | `term`, `free` | in `serverTerm`, before and after its strings are freed |
  | `exited`, `quit`, `failed`, `killed`, `crashed` | returned; left by an option or as the parent; `exit(1)`; killed; dereferenced NULL |

  The links of `SerialProxy` are reduced to what they write to the log: a round of
  `_serialReconnect` and the handlers of a poll log messages of any combination of the
  levels that they have.
* `MCAeFileEvents`, `MCSerialProxy`, `MCAeTimers`, `MCServer` - instances for TLC.
* Theorems and proofs: `NaturalLemmas` (least elements and induction on the naturals),
  `AeFileEvents_proofs`, `SerialProxy_proofs` (types, descriptors, registrations,
  handlers), `SerialProxy_relay_proofs` (the data path and `Relay`),
  `SerialProxy_exit_proofs` (names and shutdown), `AeTimeEvents_proofs` (the effect of
  each call on the timer list), `AeTimers_proofs` and `Server_proofs`.

Abstractions. A link is identified with its node once it has one (a node has at most
one). The k-th successful `read()` from the terminal of node n is the chunk <<n, k>>;
`out[n]` is the sequence of chunks written to that terminal, through whichever
descriptor, so duplication, loss and misrouting show in it.
A short `write()` counts as complete. Logging is in `Server`; the termios settings and the
table of baud rates are left out: of lines 135-287 of `serial.c` what remains is
that each call may fail, with descriptors open that have to be closed. `cronloops` is kept modulo its period. The kernel's part
(lowest free descriptor and pseudo-terminal index, epoll forgetting a closed
descriptor, HUP and ERR being reported unasked) is modelled from how the code
relies on it and marked external in the map.

The use of a freed link in `_serialEventHandler` is undefined behaviour; the model
lets it do nothing or end the process. The dereference of a NULL log file in
`serverLogRaw` ends it: the build maps nothing there. In the configuration files a
value is a sequence of words, a line one of five kinds (blank or comment, section,
section without its bracket, pair, anything else), indented or not; conversions of
words (`atoi`, the path of a virtual, a section line taken as a value) are constants.
Names in the file system may be left over
from an earlier, killed instance: `Init` starts with any.

The operators `Bug...` are single-definition variants that stand for plausible
mistakes; each is named in PROJECT.json with the property that notices it. They
are used by no specification.

## Runs

Passing:

| Run | Instance | Shows |
|---|---|---|
| `ae_file_events` | 4 descriptors, table of 3 (resized 1 to 4), 2 clients, symmetric | table, `maxfd` and interest list agree; a resize keeps registrations |
| `ae_timers` | 3 timers, intervals of 0 and 3 ticks, 2 ticks a second, the clock set once by -3 or 2, handlers that take any time | no timer is lost in unlinking, run twice in a round or after its deletion; the walk only goes on to older timers; a timer is early only as far as the clock was set, late only as far as the clock and the handlers of two iterations explain |
| `relay` | 1 device, a reader and a writer; the device is read twice, the writer once; 1 fault | `Relay` is implemented; a reader gets no chunk twice; the fan-out is complete; no buffer is overwritten |
| `faults` | 2 devices, one with two virtuals, both flagged as writers and read once, 2 faults; 7 descriptors, a table of 5, so that the link connected last lies beyond it | ownership, registration, names, clean exit; a refused registration leaves the table alone; handlers get their own links although descriptors are reused across devices; only the first of the list writes to the device |
| `liveness` | 1 device, 1 writer, 2 faults | reconnection and shutdown |
| `startup` | every `sproxy.ini` and `serial.ini` of up to 3 lines out of 10 and 11; 4 ticks a second, hz 1 or 2, intervals of 5 and 8 ticks | the lists are what `SerialProxy` assumes and what the file says; no division by zero; a log file named is enough; the pid file goes; rounds are not too close |

With violations, each a finding in PROJECT.json:

| Run | Shows |
|---|---|
| `handler_use_after_free` | the read part of a handler frees the link that the write part uses |
| `writer_duplicates` | a writer gets a chunk in both passes (the device, from its writer, likewise) |
| `names_crossed` | a stale name leads to another virtual's terminal |
| `comma_list` | `virtuals = a,b`, as README.md:102 writes it, makes one virtual instead of two: the code splits at blanks only (`config.c:179`) |
| `logfile_unset` | without a log file in the configuration the first message that passes the level dereferences NULL |
| `reconnect_late` | the one-second sleep stretches the reconnection interval, with no signal and no fault |

Other differences that the modelling met, without a run of their own: a link whose
descriptor lies beyond the table is connected and never polled (`serial.c:289`
ignores the result); `aeResizeSetSize` shrinks to `maxfd + 1` entries, which its
comment says it refuses (`ae.c:85`); `createPidFile` writes to the default path when
another is configured, the test at `server.c:197` being the wrong way round;
an instance in the foreground removes the pid file of a daemon (`server.c:83`);
the usage text lists `-s`, which `getopt` is not
given (`server.c:220`, `336`).

Bounds. `MaxReads` bounds the chunks per node: two chunks of the device are needed
for order and for staleness, one suffices for ownership and routing. `MaxFaults`
bounds unplugs, hang-ups and failing calls together: two let a failure meet the
recovery from another. In `liveness` the second is the read
of an unplugged device that leaves the dead link in place (`ReadErrorIgnored`).
`NFile` is large enough for all links. In `faults` the table (`MaxClients`) is
smaller: with all links up, descriptors 5 and 6 belong to the virtual connected last,
and after a failure to whichever link is opened then. The second device of `faults` has
no virtuals and sends nothing: it is there for its descriptor. `NPts` is the number of virtuals, so that indices
are reused. `Hz` and `ReconnectInterval` matter by their quotient only: 1, and 2
in `liveness`, where a cron run without a reconnection has to occur.

`MaxTimers` = 3 gives the walk a predecessor, a current timer and one created at the
head meanwhile. The clock is set back by more than a second, which is detected as a skew
unless the sleep has made up for it, or forward; the theorems are for any number of
jumps. `MaxReal` = 5 leaves room for two calls of the beforesleep procedure and for
handlers before, between and after them, which is what `DelayBounded` relates. Three lines hold a section, its virtuals and a writer, in
every order, and each kind of line meets each state of the parser. The settings of
`startup` make periods of one, two and four cron runs; `MaxNow` leaves room for three
iterations, and for nine in `reconnect_late`. The constants `CONFIG_...` keep the
relations of `server.h` on this scale: `CONFIG_MAX_HZ` <= `Tps`, the least interval a
second.

Fairness, in `FairSpec`. `WF_vars(Daemon)`: the process is scheduled again and
again, and everything it does between two calls of the kernel ends.
`SF_vars(serverCron)`: the timer asks for 1000/hz <= 1000 ms and every iteration
sleeps for a second, so that it is due time after time. Nothing is assumed of the
environment but the hypothesis written in the properties themselves,
`[]<>(pc # "blocked")`: an application that never reads again stops the daemon for
ever, and neither property holds without it.

## Proofs

The theorems hold for every value of the constants that the named assumptions of the
modules allow. For `AeAssumption` and `SerialAssumption` these are any finite set of
nodes, any lists, limits and bounds; the invariants and the argument:

* `AeInvariant`: `AeSpec => [](AeTypeOK /\ MaxfdIsHighest /\ EpollMatchesTable)`.
  The conjunction is inductive: a deletion finds the new `maxfd` only if the old
  one was the highest, and whether a registration succeeds depends on the
  agreement of table and kernel. That the downward scan finds the highest entry is
  `HighestBelowIsHighest`, from the well-foundedness of the naturals.
* `ResizeIsSafe`: `AeSpec => ResizeKeepsRegistrations`, from that invariant.
* `TypeCorrect`, `NoDescriptorLeak`, `LinksAreRegistered`, `HandlersGetTheirLinks`:
  `SerialProxy` keeps `TypeOK`, `FdOwnership`, `RegistrationConsistent` and
  `HandlerGetsItsLink`. They are proved together as `IInv`. A handler that loses its
  link must have had one (`HandlerGetsItsLink`), or the types break; it had one
  because the entry that called it was registered (`RegistrationConsistent`); the
  registrations stay those of the links because a new descriptor is nobody else's
  (`FdOwnership`). `LinksLeadHome` joins them: behind the descriptor of a link is the
  terminal of its node, and while a link is in the making, and only then, `link` holds
  the descriptors that were opened for the node being connected; without it the err path
  could close what is not its own, or nothing. `StepHasShape` says that only five kinds
  of steps touch descriptors and registrations; ownership and registration are then
  proved per kind.

`RegistrationConsistent` stops at the shutdown for a reason: `serialTerm` empties
the list of virtuals before it frees the master, whose flags are then computed
without the writer, so that its WRITABLE registration stays in the table until the
loop is destroyed. Nothing polls any more by then.

The data path (`SerialProxy_relay_proofs`), on top of `IInv`:

* `DispatchInv` follows the fired entries through the two loops of `aeProcessEvents`. A
  descriptor fires once; an entry that the first loop has passed, and an entry whose
  link has read, has no READABLE bit left; a buffer holds nothing or the newest chunk,
  and nothing when the poll begins. `BuffersNotOverwritten` (`NoBufferOverwrite`) is one
  of its consequences.
* `DataInv` counts. `Chances(i, n)` is how often the loops can have written to the node
  n of entry i so far: a reader only in the second loop, anybody else in both. The
  copies of the newest chunk never exceed it (`CopiesBounded`), which by itself says
  nothing of older chunks; those stay counted because every chunk has a number of its
  own and a new read makes all earlier ones old. It also follows where a chunk comes
  from: a buffer holds what was read from the terminal behind its link's descriptor,
  which is the link's own (`LinksLeadHome`). From it follow `ReadersSeeChunksOnce`
  (`ReadersGetEachChunkOnce`), `DataIsRouted` (`RoutingCorrect`) and
  `FanoutIsComplete` (`FanoutComplete`).
* `ImplementsRelay`: `Spec => RelaySpec`. A step that reads maps to `Read`, a successful
  write to `Send`, whose guard `Times(p) < Copies[p]` is `CopiesBounded`; all other steps
  leave `nread` and `out` alone.

Names and shutdown (`SerialProxy_exit_proofs`): `NamesLeadToTerminals`
(`NameLeadsToTerminal`) and `ExitIsClean` (`CleanExit`) from `ExitInv`.
`serialRemoveVirtualNode` drops a master's whole list with the first virtual that it
removes, so that the nodes ahead of the walk can no longer be read off the lists.
`WalkCovers` says what saves it: a node that is not closed is in `todo`, or its master
is and still has its list; and once one virtual of a master is in `todo`, all that are
not closed are.

Timers (`AeTimers_proofs`), for every set of intervals, any number of timers and any way
to set the clock that `TimersAssumption` allows:

* `ListInv`: the list is in descending order of creation, every timer ever created is
  in it or freed, and one is marked if and only if it is gone. `WalkInv`: the walk stands
  on a listed timer that existed when the round began, those run so far are newer, and
  `prev` is the timer just before it (`PrevIs`), so that unlinking through it drops
  exactly the one that is freed. The order is what makes the walk safe: callbacks add
  timers at the head, behind it, and by the time one has run `prev` is not NULL.
  `TimersAreNotLost`, `RoundsRunOnce`, `GoneTimersDoNotRun` and `TimersTypeCorrect`
  follow, and `WalkEnds` (`WalkGoesDown`): each step of the walk calls its timer or goes
  on to an older one, so that callbacks cannot keep a round from ending.
* `DelayInv`: the time at which a listed timer is to run differs from the one asked for
  by how far the clock was set forward or back, and a timer that the walk has passed is
  overdue only by what handlers took since the round began. That is why the bound of
  `DelayBounded` has the handlers' time of two iterations and not of all: a round makes
  up for everything before it. `ClockInv` keeps the clock positive, without which the division into
  seconds and milliseconds says nothing. `TimersNotEarly` (`NeverEarly`) and
  `TimersNotLate` (`DelayBounded`) follow; the second needs `PollIsShort`, that the poll
  ends when the nearest timer is due, and that from `BeforeIsLess` and `AddTicks`, that
  pairs of seconds and milliseconds are compared and added as numbers.

The process (`Server_proofs`), for every pair of configuration files:

* `ConfigInv`: settings within their limits, a parser that counts its lines, lists that
  are well formed. `ListsAreWellFormed`, `CronNeverDividesByZero` and
  `ServerTypeCorrect` follow. `ListsWellFormed` includes `ProperLists`, which is also the
  first conjunct of `SerialAssumption`: what is proved of `SerialProxy` for every
  configuration that it assumes holds for every configuration that can be read. The loop over the words of a value is a recursive
  function, and what it keeps is proved by induction on the number of words
  (`SetInduction`).
* `MeaningInv`: while `serial.ini` is read, and as long as no line is indented, the parser
  is in the section of the last line, and the lists, the flags and the error are those
  that the lines so far describe. `FilesMeanWhatTheySay` (`FileMeansWhatItSays`) is its
  consequence. The description (`Devices`, `Virtuals`, `Flagged`, `WrongLines`) is a set
  of names with the line and the word that tells of each, and says nothing of how a list
  is built; `LatestFirst` relates the two. `OneMoreName` is the step: a name told of after
  all others becomes the head, unless it is in the list. A line adds one device
  (`DevicesTold`), the words of a value by induction (`AddVirtualsMeaning`), or a writer,
  which counts only if its virtual was told of on a line before (`FlaggedTold`).
* `TimerInv`: between `serverInit` and `serverTerm` the list holds the cron timer and
  nothing else, no skew is ever detected (this model's clock is not set), and the timer
  is as far from the last round as the cron runs since then say. `RoundsAreApart`
  (`ReconnectNotTooSoon`) is its consequence, a signal at any point included.
* `LogInv` and `PidInv`: a configured path lives until `serverTerm` frees it, after which
  only a missing cron timer could be logged, and `TimerInv` excludes that; a pid file of
  this process is at the default path, which is the one remembered. They give
  `LogfileSuffices` and `PidFileRemoved`.

Every one of these invariants was checked by TLC as an invariant of the run of its
module before it was proved.

Model-checked only:

* Liveness (`MasterReconnected`, `ShutdownCompletes`): fairness and ENABLED are out of
  the prover's reach.
* The findings, which are counterexamples.

## Not modelled

* Short writes: a chunk is written or not. The descriptors are blocking.
* Characters: lines that overflow the parser's buffers, names beyond `PATH_MAX`,
  the comparison of keys without regard to case.
* Failures of `malloc`, `calloc` and `strdup`, which exit; the table of baud rates and
  the termios settings, which are data.
* Finalizers of timers, which the daemon does not pass. (A finalizer that creates a
  timer while the head of the list is unlinked could lose it: `ae.c:279-284`.)
* `aeWait`, `serialDelNode`, the flags of `aeProcessEvents` other than
  `AE_ALL_EVENTS`: never used.
* The text of messages, and syslog, which has no effect on the process.
* The Python tools and the Debian packaging.

`SerialProxy` and `Server` are not composed into one state: the first has links
without time, the second time without links, and they meet in the node lists
(`ProperLists`, which `ListsWellFormed` establishes and `SerialAssumption` asks for) and
in the levels that a round
may log. Together they would be beyond TLC, and no property needs both.

## Plan

Modelling is complete as far as the list above, and every invariant and action property
of the passing runs is proved. What could be added: the meaning of `sproxy.ini` (the last
value of a setting counts), and of indented lines in `serial.ini`, for which only
`ListsWellFormed` is stated.
