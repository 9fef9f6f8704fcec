------------------------------- MODULE Server -------------------------------
(***************************************************************************)
(* The life of one process of the daemon (src/src/server.c), from the      *)
(* command line to the end of main: sproxy.ini, daemonize, the pid file,   *)
(* serial.ini, the loop with its cron timer and its log, the shutdown.     *)
(*                                                                         *)
(* It reads its files with IniConfig and keeps its timer with AeTimeEvents.*)
(* What happens on the links is the business of SerialProxy: here a        *)
(* reconnection round, or the events of a poll, only write to the log.     *)
(***************************************************************************)
EXTENDS IniConfig, AeTimeEvents, SerialLists

CONSTANTS ServerLines, SerialLines,         \* the lines a file may have
          MaxServerLines, MaxSerialLines,   \* bound: lines in a file
          CONFIG_DEFAULT_HZ, CONFIG_DEFAULT_RECONNECT_INTERVAL_MS,
          CONFIG_DEFAULT_PID_FILE,
          CommaSeparated,                   \* the suffixes a word lists, as the documentation reads it
          MaxNow                            \* bound: time observed

ASSUME ServerAssumption ==
    /\ ServerLines \subseteq Line /\ SerialLines \subseteq Line
    /\ MaxServerLines \in Nat /\ MaxSerialLines \in Nat /\ MaxNow \in Nat /\ MaxNow >= Tps
    /\ CONFIG_MAX_HZ <= Tps /\ CONFIG_DEFAULT_HZ \in 1 .. CONFIG_MAX_HZ
    /\ CONFIG_DEFAULT_RECONNECT_INTERVAL_MS \in Nat \ {0}
    /\ CONFIG_DEFAULT_PID_FILE \in Seq(Word)
    /\ CommaSeparated \in [Word -> SUBSET Word]

VARIABLES pc,          \* control point
          sv,          \* the settings of struct sproxyServer
          ini, file,   \* the parser's locals; the lines read so far
          nodes,       \* server.serial
          tl, now,     \* timers and clock
          shutdown, stop, cronloops, cron_event_id,
          pids,        \* whose pid the file at a path holds: "none", "own" or "other"
          hadLog,      \* history: sproxy.ini named a log file
          lastRound    \* history: time of the cron's last reconnection round

parseVars == <<ini, file, nodes, hadLog>>
loopVars == <<tl, now, shutdown, stop, cronloops, cron_event_id, lastRound>>
vars == <<pc, sv, parseVars, loopVars, pids>>

PidPath == {CONFIG_DEFAULT_PID_FILE} \cup {<<w>> : w \in Word}
Never == -1

-----------------------------------------------------------------------------
(***************************************************************************)
(* The log                                                                 *)
(***************************************************************************)

\* serverLogRaw looks at logfile[0] before anything else, once the level passes.
LogCrashes(levels) == sv.logfile = NULL /\ \E lv \in levels : lv >= sv.verbosity

\* Messages of these levels are written on the way to the control point `next'.
LogThen(levels, next) == pc' = IF LogCrashes(levels) THEN "crashed" ELSE next

\* The messages of _serialReconnect: every node that has no link is reconnected, or is
\* a problem after an error (not all of which are logged).
ReconnectLogs == IF nodes.masters = <<>> THEN {{}}
                 ELSE {ls \in SUBSET {LL_INFO, LL_WARN, LL_ERROR} : LL_ERROR \in ls => LL_WARN \in ls}

-----------------------------------------------------------------------------
(***************************************************************************)
(* Start-up                                                                *)
(***************************************************************************)

\* serverInitConfig
Init ==
    /\ pc = "options"
    /\ sv = [logfile |-> NULL, syslog |-> 0, verbosity |-> LL_ERROR,
             hz |-> CONFIG_DEFAULT_HZ,
             reconnect_interval |-> CONFIG_DEFAULT_RECONNECT_INTERVAL_MS,
             pidfile |-> NULL, serial_configfile |-> <<"serial.ini">>, daemonize |-> FALSE]
    /\ ini = NewParser /\ file = <<>> /\ nodes = NoNodes /\ hadLog = FALSE
    /\ now = Tps /\ tl = NewTimerLoop(Tps)
    /\ shutdown = FALSE /\ stop = FALSE /\ cronloops = 0 /\ cron_event_id = -1
    /\ lastRound = Never
    \* other instances may be running, or have left their files
    /\ \E owner \in {"none", "other"} : pids = [path \in PidPath |-> owner]

\* getopt: -d and -c; everything else prints something and exits.
Options ==
    /\ pc = "options"
    /\ \E d \in BOOLEAN : sv' = [sv EXCEPT !.daemonize = d]
    /\ pc' \in {"sproxy.ini", "daemonize", "quit"}
    /\ UNCHANGED <<parseVars, loopVars, pids>>

\* ini_parse returns -1: the process exits with an error.
FileMissing ==
    /\ pc \in {"sproxy.ini", "serial.ini"} /\ ini = NewParser
    /\ pc' = "failed"
    /\ UNCHANGED <<sv, parseVars, loopVars, pids>>

ReadServerLine(l) ==
    /\ pc = "sproxy.ini" /\ ini.lineno < MaxServerLines
    /\ LET name == CallName(ini, l)
       IN  /\ sv' = IF Calls(ini, l)
                    THEN _serverConfigHandler(sv, ini.section, name, CallValue(ini, l)) ELSE sv
           /\ ini' = ParseLine(ini, l, ServerKnows(ini.section, name))
    /\ file' = Append(file, l)
    /\ UNCHANGED <<pc, nodes, hadLog, loopVars, pids>>

\* The end of the file.  Lines in error are not looked at: only a file that cannot be
\* opened is fatal.
ServerFileRead ==
    /\ pc = "sproxy.ini"
    /\ pc' = "daemonize"
    /\ ini' = NewParser /\ file' = <<>>
    /\ hadLog' = (sv.logfile # NULL)
    /\ UNCHANGED <<sv, nodes, loopVars, pids>>

StayForeground ==
    /\ pc = "daemonize" /\ ~sv.daemonize
    /\ pc' = "init"
    /\ UNCHANGED <<sv, parseVars, loopVars, pids>>

\* The parent exits, and so does a process that cannot fork.
ForkFails ==
    /\ pc = "daemonize" /\ sv.daemonize
    /\ pc' = "quit"
    /\ UNCHANGED <<sv, parseVars, loopVars, pids>>

\* Mutant: the path that is written is not the one that is remembered.
BugPathForgotten == sv.pidfile

\* A configured path is replaced by the default one.
PathAfterCreate == IF sv.pidfile # NULL THEN CONFIG_DEFAULT_PID_FILE ELSE sv.pidfile

\* The child goes on.  It writes a pid file, if it can, when a path is configured.
Daemonize ==
    /\ pc = "daemonize" /\ sv.daemonize
    /\ sv' = [sv EXCEPT !.pidfile = PathAfterCreate]
    /\ pids' \in IF sv.pidfile = NULL THEN {pids}
                 ELSE {pids, [pids EXCEPT ![CONFIG_DEFAULT_PID_FILE] = "own"]}
    /\ pc' = "init"
    /\ UNCHANGED <<parseVars, loopVars>>

serverInit ==
    /\ pc = "init"
    /\ tl' = aeCreateTimeEvent(tl, now, 1)
    /\ cron_event_id' = tl.nextId
    /\ pc' = "serial.ini"
    /\ UNCHANGED <<sv, parseVars, now, shutdown, stop, cronloops, lastRound, pids>>

ReadSerialLine(l) ==
    /\ pc = "serial.ini" /\ ini.lineno < MaxSerialLines
    /\ LET name == CallName(ini, l)
       IN  /\ nodes' = IF Calls(ini, l)
                       THEN _serialConfigHandler(nodes, ini.section, name, CallValue(ini, l))
                       ELSE nodes
           /\ ini' = ParseLine(ini, l, SerialKnows(name))
    /\ file' = Append(file, l)
    /\ UNCHANGED <<pc, sv, hadLog, loopVars, pids>>

\* The end of serialInit: the file is read, and every node is connected or not.
SerialFileRead ==
    /\ pc = "serial.ini"
    /\ \E levels \in ReconnectLogs :
          /\ levels = {} => nodes.masters = <<>>
          /\ LogThen(levels, "started")
    /\ ini' = NewParser /\ file' = <<>>
    /\ UNCHANGED <<sv, nodes, hadLog, loopVars, pids>>

Started ==
    /\ pc = "started"
    /\ LogThen({LL_INFO}, "sleep")
    /\ UNCHANGED <<sv, parseVars, loopVars, pids>>

-----------------------------------------------------------------------------
(***************************************************************************)
(* The loop                                                                *)
(***************************************************************************)

Wait(d) == now + d <= MaxNow /\ now' = now + d

\* usleep(1000000), unless a signal interrupted it.
SleepTimes == IF shutdown THEN 0 .. Tps ELSE {Tps}

serverBeforeSleep ==
    /\ pc = "sleep"
    /\ \E d \in SleepTimes : Wait(d)
    /\ pc' = "poll"
    /\ UNCHANGED <<sv, parseVars, tl, shutdown, stop, cronloops, cron_event_id, lastRound, pids>>

\* The poll ends with the cron timer, with events or with a signal; the handlers log what
\* they read and wrote, and I/O errors.
Poll ==
    /\ pc = "poll"
    /\ \E d \in 0 .. PollTimeout(tl, now) : Wait(d)
    /\ \E levels \in SUBSET {LL_DEBUG, LL_ERROR} :
          /\ levels # {} => nodes.masters # <<>>
          /\ LogThen(levels, "timers")
    /\ UNCHANGED <<sv, parseVars, tl, shutdown, stop, cronloops, cron_event_id, lastRound, pids>>

CronEvent == tl.list[1]

\* processTimeEvents, when the only timer has time left.
TimerNotDue ==
    /\ pc = "timers" /\ ~Due(CronEvent, now)
    /\ tl' = CheckSkew(tl, now)
    /\ pc' = "sleep"
    /\ UNCHANGED <<sv, parseVars, now, shutdown, stop, cronloops, cron_event_id, lastRound, pids>>

\* _prepareForShutdown: unlink(NULL) does nothing.
PidsAfterUnlink == IF sv.pidfile \in PidPath THEN [pids EXCEPT ![sv.pidfile] = "none"] ELSE pids

\* The first half of serverCron.
CronShutdown ==
    /\ pc = "timers" /\ Due(CronEvent, now)
    /\ tl' = CheckSkew(tl, now)
    /\ stop' = (stop \/ shutdown)
    /\ pids' = IF shutdown /\ ~LogCrashes({LL_INFO}) THEN PidsAfterUnlink ELSE pids
    /\ LogThen(IF shutdown THEN {LL_INFO} ELSE {}, "cron")
    /\ UNCHANGED <<sv, parseVars, now, shutdown, cronloops, cron_event_id, lastRound>>

CronTicks == Tps \div sv.hz

\* Mutant: the comparison is the wrong way round.
BugAlwaysDue == \/ sv.reconnect_interval >= CronTicks
                \/ cronloops % (sv.reconnect_interval \div CronTicks) = 0

\* run_with_period(server.reconnect_interval)
ReconnectDue == \/ sv.reconnect_interval <= CronTicks
                \/ cronloops % (sv.reconnect_interval \div CronTicks) = 0

\* Mutant: the cron asks not to be called again once it has stopped the loop.
BugNoMoreCron == IF stop THEN AE_NOMORE ELSE CronTicks

CronReturns == CronTicks

\* The second half: reconnect, reschedule, and the test of aeMain's loop.
CronReconnect ==
    /\ pc = "cron"
    /\ LET next == IF stop THEN "term" ELSE "sleep"
       IN  IF ReconnectDue
           THEN /\ \E levels \in ReconnectLogs : LogThen(levels, next)
                /\ lastRound' = now
           ELSE pc' = next /\ UNCHANGED lastRound
    /\ cronloops' = cronloops + 1
    /\ tl' = Reschedule(tl, CronEvent.te, now, CronReturns)
    /\ UNCHANGED <<sv, parseVars, now, shutdown, stop, cron_event_id, pids>>

\* serialTerm, and the strings of the settings are freed.
Term ==
    /\ pc = "term"
    /\ LogThen(IF nodes.masters = <<>> THEN {} ELSE {LL_INFO}, "free")
    /\ nodes' = NoNodes
    /\ sv' = [sv EXCEPT !.logfile = NULL, !.pidfile = NULL]
    /\ UNCHANGED <<ini, file, hadLog, loopVars, pids>>

\* The rest of serverTerm and of main.
Exit ==
    /\ pc = "free"
    /\ tl' = aeDeleteTimeEvent(tl, cron_event_id)
    /\ LogThen(IF HasTimer(tl, cron_event_id) THEN {} ELSE {LL_WARN}, "exited")
    /\ cron_event_id' = -1
    /\ UNCHANGED <<sv, parseVars, now, shutdown, stop, cronloops, lastRound, pids>>

Ended == pc \in {"exited", "quit", "failed", "killed", "crashed"}

\* The handlers are installed at the beginning of serverInit.
Guarded == ~Ended /\ pc \notin {"options", "sproxy.ini", "daemonize", "init"}

Signal ==
    /\ Guarded /\ ~shutdown
    /\ shutdown' = TRUE
    /\ UNCHANGED <<pc, sv, parseVars, tl, now, stop, cronloops, cron_event_id, lastRound, pids>>

\* Before, a signal kills; afterwards a second SIGINT exits at once.
FatalSignal ==
    /\ ~Ended
    /\ Guarded => shutdown
    /\ pc' = "killed"
    /\ UNCHANGED <<sv, parseVars, loopVars, pids>>

\* The process ended, or the time observed is over.
Over == /\ Ended \/ (pc \in {"sleep", "poll"} /\ now + Tps > MaxNow)
        /\ UNCHANGED vars

Next == \/ Options \/ FileMissing
        \/ \E l \in ServerLines : ReadServerLine(l)
        \/ ServerFileRead \/ StayForeground \/ ForkFails \/ Daemonize \/ serverInit
        \/ \E l \in SerialLines : ReadSerialLine(l)
        \/ SerialFileRead \/ Started
        \/ serverBeforeSleep \/ Poll \/ TimerNotDue \/ CronShutdown \/ CronReconnect
        \/ Term \/ Exit
        \/ Signal \/ FatalSignal \/ Over

Spec == Init /\ [][Next]_vars

-----------------------------------------------------------------------------
(***************************************************************************)
(* Configuration                                                           *)
(***************************************************************************)

Path == Range(VirtualName)

\* The types of the settings, the parser's locals, the node lists and the loop.
ServerTypeOK ==
    /\ pc \in {"options", "sproxy.ini", "daemonize", "init", "serial.ini", "started", "sleep",
               "poll", "timers", "cron", "term", "free",
               "exited", "quit", "failed", "killed", "crashed"}
    /\ sv.verbosity \in LL_DEBUG .. LL_ERROR /\ sv.syslog \in -1 .. 1
    /\ sv.daemonize \in BOOLEAN /\ sv.hz \in Int /\ sv.reconnect_interval \in Int
    /\ ini.section \in Section /\ ini.lineno = Len(file) /\ ini.error \in 0 .. ini.lineno
    /\ nodes.masters \in Seq(Section) /\ nodes.virtuals \in [Section -> Seq(Path)]
    /\ tl \in TimerLoop /\ now \in 0 .. MaxNow /\ cronloops \in Nat
    /\ pids \in [PidPath -> {"none", "own", "other"}]

NoDuplicates(list) == \A i, k \in DOMAIN list : list[i] = list[k] => i = k

\* The nodes and their lists, as SerialProxy takes them over: a node is its section, and its
\* path if it is a virtual.
MasterNode(s) == <<"master", s, NoName>>
VirtualNode(s, path) == <<"virtual", s, path>>
MasterNodes == {MasterNode(s) : s \in Range(nodes.masters)}
NodesOf(paths) == UNION {{VirtualNode(s, path) : path \in paths[s]} : s \in Section}
VirtualNodes == NodesOf([s \in Section |-> Range(nodes.virtuals[s])])
MasterList == [i \in DOMAIN nodes.masters |-> MasterNode(nodes.masters[i])]
VirtualOf == [v \in VirtualNodes |-> MasterNode(v[2])]
NodeList(s) == [i \in DOMAIN nodes.virtuals[s] |-> VirtualNode(s, nodes.virtuals[s][i])]
VirtualList == [m \in MasterNodes |-> NodeList(m[2])]

\* Whatever serial.ini holds, including repeated sections and keys, continuation lines and
\* lines in error, the lists that it leaves are the ones SerialProxy starts from (its
\* SerialAssumption): virtuals and writers only of listed masters, every writer one of its
\* master's virtuals; and no node is listed twice (config.c:158-212, serial.c:506-514,
\* 616-674).
ListsWellFormed ==
    /\ ProperLists(MasterNodes \cup VirtualNodes, MasterNodes, MasterList, VirtualOf, VirtualList,
                   NodesOf(nodes.writers))
    /\ NoDuplicates(nodes.masters) /\ \A s \in Section : NoDuplicates(nodes.virtuals[s])

\* What a file without indented lines says, read as a whole.  Lines are numbers.
Pairs == {i \in DOMAIN file : file[i].kind = "pair"}
SectionOf(i) == LET heads == {k \in 1 .. i : file[k].kind = "section"}
                IN  IF heads = {} THEN NoName ELSE file[Max(heads)].key
Says(i, s, key) == i \in Pairs /\ file[i].key = key /\ SectionOf(i) = s
Value(i) == BeforeComment(file[i].words)

\* The names that it tells of, with the line and the word: a device with every key of its
\* section, a virtual with every suffix.
Devices == {[line |-> i, word |-> 0, name |-> SectionOf(i)] : i \in Pairs}
VirtualsOn(i, s) ==
    {[line |-> i, word |-> k, name |-> VirtualName[<<s, Value(i)[k]>>]] : k \in DOMAIN Value(i)}
Virtuals(s) == UNION {VirtualsOn(i, s) : i \in {k \in Pairs : Says(k, s, "virtuals")}}

Sooner(t, u) == t.line < u.line \/ (t.line = u.line /\ t.word < u.word)

\* `list' has the names of `told', and so only once each: of two, the one that was told of
\* first comes later.
LatestFirst(list, told) ==
    /\ Range(list) = {t.name : t \in told}
    /\ \A i, k \in DOMAIN list : i < k =>
          \E t \in told : t.name = list[k] /\ \A u \in told : u.name = list[i] => Sooner(t, u)

\* A writer line counts when its virtual was told of before.
Counts(i, s) == /\ Says(i, s, "writer") /\ Len(Value(i)) = 1
                /\ \E t \in Virtuals(s) : t.line < i /\ t.name = VirtualName[<<s, Value(i)[1]>>]
Flagged(s) == {VirtualName[<<s, Value(i)[1]>>] : i \in {k \in Pairs : Counts(k, s)}}

WrongLines == {i \in DOMAIN file : \/ file[i].kind \in {"unclosed", "junk"}
                                   \/ i \in Pairs /\ ~SerialKnows(file[i].key)}

\* A file of unindented lines means what it says: a device for every section with a key, a
\* virtual for every suffix between blanks, in reverse order of appearance; a writer for
\* every writer line that comes after its virtual; lines in error change nothing and do
\* not stop the parser, which reports the first of them (ini.c:99-174, config.c:150-217).
\* Commas do not separate, although the documentation has them (CommaListsAreVirtuals).
FileMeansWhatItSays ==
    (pc = "serial.ini" /\ \A i \in DOMAIN file : ~file[i].indent) =>
        /\ LatestFirst(nodes.masters, Devices)
        /\ \A s \in Section : /\ LatestFirst(nodes.virtuals[s], Virtuals(s))
                              /\ nodes.writers[s] = Flagged(s)
        /\ ini.error = IF WrongLines = {} THEN 0 ELSE Min(WrongLines)

\* No value of hz and reconnect-interval, absent, zero, negative or too large, lets the
\* divisions of serverCron and of run_with_period divide by zero (config.c:107-118,
\* server.h:40-41, server.c:95-100).
CronDivisionsDefined ==
    /\ sv.hz > 0 /\ CronTicks > 0
    /\ sv.reconnect_interval > CronTicks => sv.reconnect_interval \div CronTicks > 0

-----------------------------------------------------------------------------
(***************************************************************************)
(* Life cycle                                                              *)
(***************************************************************************)

\* With a log file configured no message can kill the process, not even one written in
\* serverTerm after the path was freed: the cron timer is always there to be deleted
\* (server.c:148-159, 249).
LogfileIsEnough == pc = "crashed" => ~hadLog

\* An orderly exit leaves no pid file of this process, although createPidFile does not
\* write where the configuration says (server.c:83-85, 197-210).
OwnPidFileRemoved == pc = "exited" => \A path \in PidPath : pids[path] # "own"

\* Reconnection rounds of the cron are reconnect_interval apart, less at most one cron
\* run: the period is counted in cron runs and rounded down (server.h:40-41,
\* server.c:95-100).  With hz = 1 and an interval of 1500 ms it is one second.
ReconnectNotTooSoon ==
    [][lastRound' # lastRound /\ lastRound # Never
         => now - lastRound > sv.reconnect_interval - CronTicks]_vars

-----------------------------------------------------------------------------
(***************************************************************************)
(* What comments and documentation say and the code does not do            *)
(***************************************************************************)

\* README.md:49, "sproxy.ini - system configuration (optional)": the daemon runs without
\* it, or with one that names no log file, as in README.md:93-97.
RunsWithoutLogfile == pc # "crashed"

\* server.h:58, reconnect_interval is the "Number of milliseconds to wait before
\* reconnecting serial devices": as long as no signal came, two rounds are no further apart
\* than that, give or take the sleep of two iterations.
ReconnectOnTime ==
    (pc = "sleep" /\ lastRound # Never /\ ~shutdown)
        => now - lastRound <= sv.reconnect_interval + 2 * Tps

\* README.md:102, "virtuals = app1,app2", after which README.md:112-114 lists a name for
\* app1 and one for app2: every suffix between commas has its virtual.  The code splits
\* the value at blanks only (config.c:179, 195).
CommaListsAreVirtuals ==
    (pc = "serial.ini" /\ \A i \in DOMAIN file : ~file[i].indent) =>
        \A i \in Pairs, s \in Section \ {NoName} : Says(i, s, "virtuals") =>
            \A w \in UNION {CommaSeparated[v] : v \in Range(Value(i))} :
                serialGetVirtualNode(nodes.virtuals[s], VirtualName[<<s, w>>])
=============================================================================
