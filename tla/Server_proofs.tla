---------------------------- MODULE Server_proofs ----------------------------
(***************************************************************************)
(* Proofs about Server, for every pair of configuration files, every       *)
(* limit of the settings and every resolution of the clock.                *)
(***************************************************************************)
EXTENDS Server, AeTimeEvents_proofs, FiniteSetTheorems

(***************************************************************************)
(* The parser and the handlers                                             *)
(***************************************************************************)

Text == Seq(Word) \cup {NULL, <<"serial.ini">>}

Settings == [logfile : Text, syslog : -1 .. 1, verbosity : LL_DEBUG .. LL_ERROR,
             hz : 1 .. CONFIG_MAX_HZ, reconnect_interval : Nat, pidfile : Text,
             serial_configfile : Text, daemonize : BOOLEAN]

Parser == {p \in [section : Section, prev_name : Word \cup {NoName}, lineno : Nat, error : Nat] :
              p.error <= p.lineno}

Nodes == [masters : Seq(Section), virtuals : [Section -> Seq(Path)], writers : [Section -> SUBSET Path]]

\* A value without its comment is a text (ini.c:93-107, 156-160).
LEMMA BeforeCommentType ==
    ASSUME NEW ws \in Seq(Word)
    PROVE  BeforeComment(ws) \in Seq(Word)
<1> DEFINE comments == {i \in DOMAIN ws : i > 1 /\ ws[i] = Semicolon}
<1>1. CASE comments = {}
  BY <1>1 DEF BeforeComment
<1>2. CASE comments # {}
  <2>1. comments \subseteq Nat /\ comments \subseteq 1 .. Len(ws) /\ Len(ws) \in Nat
    OBVIOUS
  <2>2. BeforeComment(ws) = SubSeq(ws, 1, Min(comments) - 1)
    BY <1>2 DEF BeforeComment
  <2> HIDE DEF comments
  <2>3. \E i \in comments : \A k \in comments : i <= k
    BY <1>2, <2>1, LeastNatural
  <2>4. Min(comments) \in comments
    BY <2>3 DEF Min
  <2>5. PICK n \in 0 .. Len(ws) : n = Min(comments) - 1
    <3>1. PICK i \in comments : i = Min(comments)
      BY <2>4
    <3>2. i - 1 \in 0 .. Len(ws)
      BY <2>1
    <3> QED BY <3>1, <3>2
  <2>6. SubSeq(ws, 1, n) \in Seq(Word)
    BY <2>5, SubSeqProperties
  <2> QED BY <2>2, <2>5, <2>6
<1> QED BY <1>1, <1>2

\* What the parser hands on is a key and a text (ini.c:136-182).
LEMMA CallType ==
    ASSUME NEW p \in Parser, NEW l \in Line, Calls(p, l)
    PROVE  CallValue(p, l) \in Seq(Word) /\ CallName(p, l) \in Word \cup {NoName}
<1>1. /\ l.words \in Seq(Word) /\ l.kind \in {"skip", "section", "unclosed", "pair", "junk"}
      /\ l.kind \in {"section", "unclosed"} => l.key \in Section
      /\ l.kind = "pair" => l.key \in Word
      /\ p.prev_name \in Word \cup {NoName}
  BY DEF Line, Parser
<1>2. CallName(p, l) \in Word \cup {NoName}
  BY <1>1 DEF CallName, Calls
<1>3. CASE ~Continues(p, l)
  <2>1. CallValue(p, l) = BeforeComment(l.words)
    BY <1>3, Zenon DEF CallValue
  <2> QED BY <1>1, <1>2, <2>1, BeforeCommentType
<1>4. CASE Continues(p, l)
  <2>1. CASE l.kind = "pair"
    <3>1. <<l.key, "=">> \in Seq(Word)
      BY <1>1, <2>1, ConfigAssumption
    <3>2. <<l.key, "=">> \o l.words \in Seq(Word)
      BY <1>1, <3>1
    <3>3. CallValue(p, l) = <<l.key, "=">> \o l.words
      BY <1>4, <2>1, Zenon DEF CallValue
    <3> QED BY <1>2, <3>2, <3>3
  <2>2. CASE l.kind = "junk"
    <3>1. CallValue(p, l) = l.words
      BY <1>4, <2>2, Zenon DEF CallValue
    <3> QED BY <1>1, <1>2, <3>1
  <2>3. CASE l.kind \in {"section", "unclosed"}
    <3>1. Bracketed[<<l.key, l.kind>>] \in Word
      BY <1>1, <2>3, ConfigAssumption
    <3>2. l.kind # "pair" /\ l.kind # "junk"
      BY <2>3
    <3>3. CallValue(p, l) = <<Bracketed[<<l.key, l.kind>>]>>
      BY <1>4, <3>2, Zenon DEF CallValue
    <3>4. \A w \in Word : <<w>> \in Seq(Word)
      OBVIOUS
    <3> QED BY <1>2, <3>1, <3>3, <3>4
  <2> QED BY <1>1, <1>4, <2>1, <2>2, <2>3 DEF Continues
<1> QED BY <1>2, <1>3, <1>4

\* A line moves the parser on; the line in error is one that was read (ini.c:109-196).
LEMMA ParseLineType ==
    ASSUME NEW p \in Parser, NEW l \in Line, NEW ok
    PROVE  ParseLine(p, l, ok) \in Parser /\ ParseLine(p, l, ok).lineno = p.lineno + 1
<1>1. /\ p.section \in Section /\ p.prev_name \in Word \cup {NoName} /\ p.lineno \in Nat /\ p.error \in Nat
      /\ p.error <= p.lineno
  BY DEF Parser
<1>2. SectionAfter(p, l) \in Section
  BY <1>1 DEF SectionAfter, Line
<1>3. ASSUME NEW good PROVE ErrorAfter(p, good) \in Nat /\ ErrorAfter(p, good) <= p.lineno + 1
  BY <1>1 DEF ErrorAfter
<1> DEFINE name == CASE Continues(p, l) -> p.prev_name
                     [] l.kind = "section" -> NoName
                     [] l.kind = "pair" -> l.key
                     [] OTHER -> p.prev_name
           error == ErrorAfter(p, IF Calls(p, l) THEN ok ELSE l.kind \notin {"unclosed", "junk"})
<1>4. l.kind = "pair" => l.key \in Word
  BY DEF Line
<1>5. name \in Word \cup {NoName}
  BY <1>1, <1>4, Zenon
<1>6. ParseLine(p, l, ok) = [section |-> SectionAfter(p, l), prev_name |-> name,
                             lineno |-> p.lineno + 1, error |-> error]
  BY Zenon DEF ParseLine
<1>7. error \in Nat /\ error <= p.lineno + 1
  BY <1>3
<1> HIDE DEF name, error
<1> QED BY <1>1, <1>2, <1>5, <1>6, <1>7 DEF Parser

\* A value is brought between its limits (config.c:107-118).
LEMMA ClampType ==
    ASSUME NEW n \in Int, NEW lo \in Nat, NEW hi \in Nat
    PROVE  /\ Clamp(n, lo, hi) \in Nat
           /\ lo <= hi => Clamp(n, lo, hi) \in lo .. hi
BY DEF Clamp

LEMMA AtoiType == ASSUME NEW ws \in Seq(Word) PROVE atoi(ws) \in Int
<1>1. ws # <<>> => ws[1] \in Word
  OBVIOUS
<1>2. Atoi \in [Word -> Int]
  BY ConfigAssumption
<1> QED BY <1>1, <1>2 DEF atoi

\* One setting is replaced.
LEMMA SettingsExcept ==
    ASSUME NEW s \in Settings, NEW v
    PROVE  /\ v \in Text => /\ [s EXCEPT !.logfile = v] \in Settings
                            /\ [s EXCEPT !.pidfile = v] \in Settings
                            /\ [s EXCEPT !.serial_configfile = v] \in Settings
           /\ v \in -1 .. 1 => [s EXCEPT !.syslog = v] \in Settings
           /\ v \in LL_DEBUG .. LL_ERROR => [s EXCEPT !.verbosity = v] \in Settings
           /\ v \in 1 .. CONFIG_MAX_HZ => [s EXCEPT !.hz = v] \in Settings
           /\ v \in Nat => [s EXCEPT !.reconnect_interval = v] \in Settings
           /\ v \in BOOLEAN => [s EXCEPT !.daemonize = v] \in Settings
BY DEF Settings

\* Whatever a line of sproxy.ini says, the settings stay usable (config.c:70-130).
LEMMA ServerHandlerType ==
    ASSUME NEW s \in Settings, NEW section, NEW name, NEW ws \in Seq(Word)
    PROVE  _serverConfigHandler(s, section, name, ws) \in Settings
<1>1. ws \in Text
  BY DEF Text
<1>2. _yesnotoi(ws) \in -1 .. 1
  <2>1. -1 \in -1 .. 1 /\ 0 \in -1 .. 1 /\ 1 \in -1 .. 1
    OBVIOUS
  <2> QED BY <2>1, Zenon DEF _yesnotoi
<1>3. _getLogLevel(ws) \in LL_DEBUG .. LL_ERROR
  <2>1. {LL_DEBUG, LL_INFO, LL_WARN, LL_ERROR} \subseteq LL_DEBUG .. LL_ERROR
    BY DEF LL_DEBUG, LL_INFO, LL_WARN, LL_ERROR
  <2> QED BY <2>1, Zenon DEF _getLogLevel
<1>4. Clamp(atoi(ws), CONFIG_MIN_HZ, CONFIG_MAX_HZ) \in 1 .. CONFIG_MAX_HZ
  <2>1. CONFIG_MIN_HZ = 1 /\ CONFIG_MAX_HZ \in Nat /\ 1 <= CONFIG_MAX_HZ
    BY ConfigAssumption DEF CONFIG_MIN_HZ
  <2>2. PICK n \in Int : n = atoi(ws)
    BY AtoiType
  <2> QED BY <2>1, <2>2, ClampType
<1>5. Clamp(atoi(ws), CONFIG_MIN_RECONNECT_INTERVAL_MS, CONFIG_MAX_RECONNECT_INTERVAL_MS) \in Nat
  <2>1. CONFIG_MIN_RECONNECT_INTERVAL_MS \in Nat /\ CONFIG_MAX_RECONNECT_INTERVAL_MS \in Nat
    BY ConfigAssumption
  <2>2. PICK n \in Int : n = atoi(ws)
    BY AtoiType
  <2> QED BY <2>1, <2>2, ClampType
<1>6. /\ [s EXCEPT !.logfile = ws] \in Settings
      /\ [s EXCEPT !.pidfile = ws] \in Settings
      /\ [s EXCEPT !.serial_configfile = ws] \in Settings
      /\ [s EXCEPT !.syslog = _yesnotoi(ws)] \in Settings
      /\ [s EXCEPT !.verbosity = _getLogLevel(ws)] \in Settings
      /\ [s EXCEPT !.hz = Clamp(atoi(ws), CONFIG_MIN_HZ, CONFIG_MAX_HZ)] \in Settings
      /\ [s EXCEPT !.reconnect_interval = Clamp(atoi(ws), CONFIG_MIN_RECONNECT_INTERVAL_MS,
                                                CONFIG_MAX_RECONNECT_INTERVAL_MS)] \in Settings
  BY <1>1, <1>2, <1>3, <1>4, <1>5, SettingsExcept
<1> QED BY <1>6, Zenon DEF _serverConfigHandler

-----------------------------------------------------------------------------
(***************************************************************************)
(* The lists of nodes                                                      *)
(***************************************************************************)

\* A new head that was not in the list: no duplicate comes in (serial.c:616-674).
LEMMA PrependEffect ==
    ASSUME NEW S, NEW list \in Seq(S), NoDuplicates(list), NEW x \in S, x \notin Range(list)
    PROVE  /\ <<x>> \o list \in Seq(S) /\ NoDuplicates(<<x>> \o list)
           /\ Range(<<x>> \o list) = {x} \cup Range(list)
<1> DEFINE n == <<x>> \o list
<1>1. /\ n \in Seq(S) /\ Len(list) \in Nat /\ DOMAIN list = 1 .. Len(list)
      /\ DOMAIN n = 1 .. Len(list) + 1
      /\ n[1] = x /\ \A i \in 1 .. Len(list) : n[i + 1] = list[i]
  OBVIOUS
<1> HIDE DEF n
<1>2. ASSUME NEW i \in DOMAIN n PROVE i = 1 \/ (i - 1 \in DOMAIN list /\ n[i] = list[i - 1])
  <2>1. CASE i # 1
    <3>1. i - 1 \in 1 .. Len(list) /\ (i - 1) + 1 = i
      BY <1>1, <2>1
    <3> QED BY <1>1, <3>1
  <2> QED BY <2>1
<1>3. Range(n) = {x} \cup Range(list)
  <2>1. \A i \in DOMAIN list : list[i] \in Range(n)
    <3> TAKE i \in DOMAIN list
    <3>1. i + 1 \in DOMAIN n /\ n[i + 1] = list[i]
      BY <1>1
    <3> QED BY <3>1 DEF Range
  <2>2. x \in Range(n)
    BY <1>1 DEF Range
  <2> QED BY <1>1, <1>2, <2>1, <2>2 DEF Range
<1>4. NoDuplicates(n)
  <2> SUFFICES ASSUME NEW i \in DOMAIN n, NEW k \in DOMAIN n, n[i] = n[k] PROVE i = k
    BY DEF NoDuplicates
  <2>1. CASE i = 1 \/ k = 1
    BY <1>1, <1>2, <2>1 DEF Range
  <2>2. CASE i # 1 /\ k # 1
    <3>1. i - 1 = k - 1
      BY <1>2, <2>2 DEF NoDuplicates
    <3> QED BY <1>1, <3>1
  <2> QED BY <2>1, <2>2
<1> QED BY <1>1, <1>3, <1>4 DEF n

LEMMA GetOrAddVirtualEffect ==
    ASSUME NEW list \in Seq(Path), NoDuplicates(list), NEW x \in Path
    PROVE  /\ GetOrAddVirtual(list, x) \in Seq(Path) /\ NoDuplicates(GetOrAddVirtual(list, x))
           /\ Range(list) \subseteq Range(GetOrAddVirtual(list, x))
<1>1. CASE x \in Range(list)
  <2>1. GetOrAddVirtual(list, x) = list
    BY <1>1 DEF GetOrAddVirtual, serialGetVirtualNode
  <2> QED BY <2>1
<1>2. CASE x \notin Range(list)
  <2>1. GetOrAddVirtual(list, x) = <<x>> \o list
    BY <1>2 DEF GetOrAddVirtual, serialGetVirtualNode, serialAddVirtualNode
  <2> QED BY <1>2, <2>1, PrependEffect
<1> QED BY <1>1, <1>2

LEMMA NameIsPath == ASSUME NEW s \in Section, NEW w \in Word PROVE VirtualName[<<s, w>>] \in Path
BY ConfigAssumption DEF Path, Range

\* f is the list after each word of the value.
Loop(f, list, s, ws) ==
    f = [k \in 0 .. Len(ws) |->
            IF k = 0 THEN list ELSE GetOrAddVirtual(f[k - 1], VirtualName[<<s, ws[k]>>])]

\* The loop over the words has a result.
LEMMA VirtualsLoop ==
    ASSUME NEW list, NEW s, NEW ws \in Seq(Word)
    PROVE  \E f : Loop(f, list, s, ws)
<1> DEFINE Step(f, k) == GetOrAddVirtual(f[k - 1], VirtualName[<<s, ws[k]>>])
           Upto(n, f) == f = [k \in 0 .. n |-> IF k = 0 THEN list ELSE Step(f, k)]
           S == {n \in Nat : \E f : Upto(n, f)}
<1>1. 0 \in S
  <2>1. Upto(0, [k \in 0 .. 0 |-> list])
    OBVIOUS
  <2> HIDE DEF Upto
  <2> QED BY <2>1
<1>2. ASSUME NEW n \in Nat, n \in S PROVE n + 1 \in S
  <2>1. PICK f : Upto(n, f)
    BY <1>2
  <2> DEFINE x == Step(f, n + 1)
             g == [k \in 0 .. n + 1 |-> IF k = n + 1 THEN x ELSE f[k]]
  <2>2. \A k \in 0 .. n + 1 : k # n + 1 => k \in 0 .. n /\ k - 1 # n + 1
    OBVIOUS
  <2>3. ASSUME NEW k \in 0 .. n + 1 PROVE g[k] = IF k = 0 THEN list ELSE Step(g, k)
    <3>1. k # 0 => k - 1 \in 0 .. n + 1 /\ k - 1 # n + 1 /\ g[k - 1] = f[k - 1]
      OBVIOUS
    <3>2. CASE k = n + 1
      <4>1. g[k] = Step(f, k) /\ k # 0
        BY <3>2
      <4> QED BY <3>1, <4>1
    <3>3. CASE k # n + 1
      <4>1. k \in 0 .. n /\ g[k] = f[k]
        BY <3>3
      <4>2. f[k] = IF k = 0 THEN list ELSE Step(f, k)
        BY <2>1, <4>1
      <4> QED BY <3>1, <4>1, <4>2
    <3> QED BY <3>2, <3>3
  <2>4. Upto(n + 1, g)
    BY <2>3
  <2> HIDE DEF Upto, g
  <2> QED BY <2>4
<1>3. Nat \subseteq S
  <2> HIDE DEF S
  <2> QED BY <1>1, <1>2, SetInduction
<1>4. Len(ws) \in Nat
  OBVIOUS
<1>5. PICK f : Upto(Len(ws), f)
  <2> HIDE DEF Upto
  <2> QED BY <1>3, <1>4
<1> QED BY <1>5 DEF Loop

LEMMA AddVirtualsLoop ==
    ASSUME NEW list, NEW s, NEW ws \in Seq(Word)
    PROVE  \E f : Loop(f, list, s, ws) /\ AddVirtuals(list, s, ws) = f[Len(ws)]
<1> DEFINE after[k \in 0 .. Len(ws)] ==
              IF k = 0 THEN list ELSE GetOrAddVirtual(after[k - 1], VirtualName[<<s, ws[k]>>])
<1>1. AddVirtuals(list, s, ws) = after[Len(ws)]
  BY Zenon DEF AddVirtuals
<1>2. Loop(after, list, s, ws)
  <2>1. \E f : Loop(f, list, s, ws)
    BY VirtualsLoop
  <2>2. after = CHOOSE f : Loop(f, list, s, ws)
    BY DEF Loop
  <2> HIDE DEF after
  <2>3. Loop(CHOOSE f : Loop(f, list, s, ws), list, s, ws)
    BY <2>1, Zenon
  <2> QED BY <2>2, <2>3
<1> HIDE DEF after
<1> QED BY <1>1, <1>2

\* All the words of a value are added, each once, and no virtual is lost
\* (config.c:160-177).
LEMMA AddVirtualsEffect ==
    ASSUME NEW list \in Seq(Path), NoDuplicates(list), NEW s \in Section, NEW ws \in Seq(Word)
    PROVE  /\ AddVirtuals(list, s, ws) \in Seq(Path) /\ NoDuplicates(AddVirtuals(list, s, ws))
           /\ Range(list) \subseteq Range(AddVirtuals(list, s, ws))
<1>1. PICK after : Loop(after, list, s, ws) /\ AddVirtuals(list, s, ws) = after[Len(ws)]
  BY AddVirtualsLoop
<1>2. Loop(after, list, s, ws)
  BY <1>1
<1> DEFINE Good(k) == /\ after[k] \in Seq(Path) /\ NoDuplicates(after[k])
                      /\ Range(list) \subseteq Range(after[k])
           S == {k \in Nat : k <= Len(ws) => Good(k)}
<1>3. Len(ws) \in Nat
  OBVIOUS
<1>4. 0 \in S
  <2>1. after[0] = list
    BY <1>2, <1>3 DEF Loop
  <2> QED BY <2>1
<1>5. ASSUME NEW n \in Nat, n \in S PROVE n + 1 \in S
  <2>1. SUFFICES ASSUME n + 1 <= Len(ws) PROVE Good(n + 1)
    OBVIOUS
  <2>2. Good(n) /\ n + 1 \in 0 .. Len(ws) /\ n + 1 # 0 /\ (n + 1) - 1 = n
    BY <1>3, <1>5, <2>1
  <2>3. VirtualName[<<s, ws[n + 1]>>] \in Path
    <3>1. ws[n + 1] \in Word
      BY <1>3, <2>1
    <3> QED BY <3>1, NameIsPath
  <2>4. after[n + 1] = GetOrAddVirtual(after[n], VirtualName[<<s, ws[n + 1]>>])
    BY <1>2, <2>2 DEF Loop
  <2> QED BY <2>2, <2>3, <2>4, GetOrAddVirtualEffect
<1>6. Nat \subseteq S
  <2> HIDE DEF S
  <2> QED BY <1>4, <1>5, SetInduction
<1>7. Good(Len(ws))
  <2>1. Len(ws) \in S
    BY <1>3, <1>6
  <2> HIDE DEF Good
  <2> QED BY <1>3, <2>1
<1> QED BY <1>1, <1>7

\* What keeps lists in order, of any lists.
WellFormed(nd) ==
    /\ NoDuplicates(nd.masters)
    /\ \A s \in Section :
          /\ NoDuplicates(nd.virtuals[s])
          /\ nd.writers[s] \subseteq Range(nd.virtuals[s])
          /\ nd.virtuals[s] # <<>> => s \in Range(nd.masters)

\* Any key creates the node of its section, once (config.c:143-156, serial.c:470-514).
LEMMA GetOrAddNodeEffect ==
    ASSUME NEW nd \in Nodes, WellFormed(nd), NEW s \in Section
    PROVE  LET n == GetOrAddNode(nd, s)
           IN  /\ n \in Nodes /\ WellFormed(n) /\ s \in Range(n.masters)
               /\ n.virtuals = nd.virtuals /\ n.writers = nd.writers
<1>1. nd.masters \in Seq(Section) /\ NoDuplicates(nd.masters)
  BY DEF Nodes, WellFormed
<1>2. CASE s \in Range(nd.masters)
  <2>1. GetOrAddNode(nd, s) = nd
    BY <1>2 DEF GetOrAddNode, serialGetNode
  <2> QED BY <1>2, <2>1
<1>3. CASE s \notin Range(nd.masters)
  <2> DEFINE m == <<s>> \o nd.masters
  <2>1. GetOrAddNode(nd, s) = [nd EXCEPT !.masters = m]
    BY <1>3 DEF GetOrAddNode, serialGetNode, serialAddNode
  <2>2. m \in Seq(Section) /\ NoDuplicates(m) /\ Range(m) = {s} \cup Range(nd.masters)
    BY <1>1, <1>3, PrependEffect
  <2> HIDE DEF m
  <2>3. /\ [nd EXCEPT !.masters = m] \in Nodes
        /\ [nd EXCEPT !.masters = m].masters = m
        /\ [nd EXCEPT !.masters = m].virtuals = nd.virtuals
        /\ [nd EXCEPT !.masters = m].writers = nd.writers
    BY <2>2 DEF Nodes
  <2> QED BY <2>1, <2>2, <2>3 DEF WellFormed
<1> QED BY <1>2, <1>3

\* A line of serial.ini keeps the lists well formed (config.c:135-190).
LEMMA SerialHandlerEffect ==
    ASSUME NEW nd \in Nodes, WellFormed(nd), NEW s \in Section, NEW name, NEW ws \in Seq(Word)
    PROVE  /\ _serialConfigHandler(nd, s, name, ws) \in Nodes
           /\ WellFormed(_serialConfigHandler(nd, s, name, ws))
<1> DEFINE n == GetOrAddNode(nd, s)
           r == _serialConfigHandler(nd, s, name, ws)
<1>1. n \in Nodes /\ WellFormed(n) /\ s \in Range(n.masters)
  BY GetOrAddNodeEffect
<1>a. /\ name = "virtuals" => r = [n EXCEPT !.virtuals[s] = AddVirtuals(n.virtuals[s], s, ws)]
      /\ name = "writer" => r = FlagWriter(n, s, ws)
      /\ name \notin {"virtuals", "writer"} => r = n
  <2>1. "virtuals" # "writer"
    OBVIOUS
  <2> QED BY <2>1, Zenon DEF _serialConfigHandler
<1> HIDE DEF n, r
<1>2. n.virtuals \in [Section -> Seq(Path)] /\ n.writers \in [Section -> SUBSET Path]
  BY <1>1 DEF Nodes
<1>3. CASE name = "virtuals"
  <2> DEFINE v == AddVirtuals(n.virtuals[s], s, ws)
             f == [n.virtuals EXCEPT ![s] = v]
  <2>1. v \in Seq(Path) /\ NoDuplicates(v) /\ Range(n.virtuals[s]) \subseteq Range(v)
    BY <1>1, <1>2, AddVirtualsEffect DEF WellFormed
  <2>2. r = [n EXCEPT !.virtuals[s] = v]
    BY <1>3, <1>a
  <2> HIDE DEF v
  <2>3. /\ f \in [Section -> Seq(Path)] /\ f[s] = v /\ \A k \in Section \ {s} : f[k] = n.virtuals[k]
    BY <1>2, <2>1
  <2>4. r \in Nodes /\ r.masters = n.masters /\ r.virtuals = f /\ r.writers = n.writers
    BY <1>1, <2>2, <2>1 DEF Nodes
  <2> HIDE DEF f
  <2>5. ASSUME NEW k \in Section
        PROVE  /\ NoDuplicates(r.virtuals[k]) /\ r.writers[k] \subseteq Range(r.virtuals[k])
               /\ r.virtuals[k] # <<>> => k \in Range(r.masters)
    <3>1. CASE k = s
      BY <1>1, <2>1, <2>3, <2>4, <3>1 DEF WellFormed
    <3>2. CASE k # s
      BY <1>1, <2>3, <2>4, <3>2 DEF WellFormed
    <3> QED BY <3>1, <3>2
  <2>6. WellFormed(r)
    BY <1>1, <2>4, <2>5 DEF WellFormed
  <2> QED BY <2>4, <2>6 DEF r
<1>4. CASE name = "writer"
  <2>1. CASE Len(ws) = 1 /\ VirtualName[<<s, ws[1]>>] \in Range(n.virtuals[s])
    <3> DEFINE p == VirtualName[<<s, ws[1]>>]
               f == [n.writers EXCEPT ![s] = @ \cup {p}]
    <3>1. p \in Path
      <4>1. ws[1] \in Word
        BY <2>1
      <4> QED BY <4>1, NameIsPath
    <3>2. r = [n EXCEPT !.writers[s] = @ \cup {p}] /\ p \in Range(n.virtuals[s])
      BY <1>4, <1>a, <2>1 DEF FlagWriter, serialGetVirtualNode
    <3> HIDE DEF p
    <3>3. f \in [Section -> SUBSET Path] /\ f[s] = n.writers[s] \cup {p}
          /\ \A k \in Section \ {s} : f[k] = n.writers[k]
      BY <1>2, <3>1
    <3>4. r \in Nodes /\ r.masters = n.masters /\ r.virtuals = n.virtuals /\ r.writers = f
      BY <1>1, <3>1, <3>2 DEF Nodes
    <3> HIDE DEF f
    <3>5. ASSUME NEW k \in Section PROVE r.writers[k] \subseteq Range(r.virtuals[k])
      <4>1. CASE k = s
        BY <1>1, <3>2, <3>3, <3>4, <4>1 DEF WellFormed
      <4>2. CASE k # s
        BY <1>1, <3>3, <3>4, <4>2 DEF WellFormed
      <4> QED BY <4>1, <4>2
    <3>6. WellFormed(r)
      BY <1>1, <3>4, <3>5 DEF WellFormed
    <3> QED BY <3>4, <3>6 DEF r
  <2>2. CASE ~(Len(ws) = 1 /\ VirtualName[<<s, ws[1]>>] \in Range(n.virtuals[s]))
    <3>1. r = n
      BY <1>4, <1>a, <2>2 DEF FlagWriter, serialGetVirtualNode
    <3> QED BY <1>1, <3>1 DEF r
  <2> QED BY <2>1, <2>2
<1>5. CASE name \notin {"virtuals", "writer"}
  BY <1>1, <1>5, <1>a DEF r
<1> QED BY <1>3, <1>4, <1>5

-----------------------------------------------------------------------------
(***************************************************************************)
(* The configuration that was read                                         *)
(***************************************************************************)

ConfigInv ==
    /\ pc \in {"options", "sproxy.ini", "daemonize", "init", "serial.ini", "started", "sleep",
               "poll", "timers", "cron", "term", "free",
               "exited", "quit", "failed", "killed", "crashed"}
    /\ sv \in Settings
    /\ ini \in Parser /\ file \in Seq(Line) /\ ini.lineno = Len(file)
    /\ nodes \in Nodes /\ WellFormed(nodes)

LEMMA NoNodesOK == NoNodes \in Nodes /\ WellFormed(NoNodes)
<1>1. Range(<<>>) = {} /\ NoDuplicates(<<>>)
  BY DEF Range, NoDuplicates
<1> QED BY <1>1 DEF NoNodes, Nodes, WellFormed

LEMMA NewParserOK == NewParser \in Parser /\ NewParser.lineno = 0
<1>1. NoName \in Section
  BY ConfigAssumption
<1> QED BY <1>1 DEF NewParser, Parser

LEMMA ConfigInit == Init => ConfigInv
<1> SUFFICES ASSUME Init PROVE ConfigInv
  OBVIOUS
<1>1. CONFIG_DEFAULT_HZ \in 1 .. CONFIG_MAX_HZ /\ CONFIG_DEFAULT_RECONNECT_INTERVAL_MS \in Nat
  BY ServerAssumption
<1>2. NULL \in Text /\ <<"serial.ini">> \in Text
  BY DEF Text
<1>3. LL_ERROR \in LL_DEBUG .. LL_ERROR
  BY DEF LL_ERROR, LL_DEBUG
<1>4. sv = [logfile |-> NULL, syslog |-> 0, verbosity |-> LL_ERROR,
            hz |-> CONFIG_DEFAULT_HZ,
            reconnect_interval |-> CONFIG_DEFAULT_RECONNECT_INTERVAL_MS,
            pidfile |-> NULL, serial_configfile |-> <<"serial.ini">>, daemonize |-> FALSE]
  BY Zenon DEF Init
<1>5. PICK c : c = <<"serial.ini">>
  OBVIOUS
<1>6. sv \in Settings
  BY <1>1, <1>2, <1>3, <1>4, <1>5 DEF Settings
<1>7. ini = NewParser /\ file = <<>> /\ nodes = NoNodes /\ pc = "options"
  BY Zenon DEF Init
<1> QED BY <1>6, <1>7, NoNodesOK, NewParserOK DEF ConfigInv

\* Every step keeps the configuration in its types, and the lists well formed.
LEMMA ConfigStep == ConfigInv /\ [Next]_vars => ConfigInv'
<1> SUFFICES ASSUME ConfigInv, [Next]_vars PROVE ConfigInv'
  OBVIOUS
<1>a. ASSUME UNCHANGED <<sv, ini, file, nodes>>,
             pc' \in {pc, "sproxy.ini", "daemonize", "init", "serial.ini", "started", "sleep",
                      "poll", "timers", "cron", "term", "exited", "quit", "failed", "killed", "crashed"}
      PROVE  ConfigInv'
  BY <1>a DEF ConfigInv
<1>b. ASSUME UNCHANGED <<sv, nodes>>, ini' = NewParser, file' = <<>>,
             pc' \in {"daemonize", "started", "crashed"}
      PROVE  ConfigInv'
  BY <1>b, NewParserOK DEF ConfigInv
<1>1. CASE Options
  <2>1. /\ UNCHANGED <<ini, file, nodes>> /\ pc' \in {"sproxy.ini", "daemonize", "quit"}
        /\ \E d \in BOOLEAN : sv' = [sv EXCEPT !.daemonize = d]
    BY <1>1 DEF Options, parseVars
  <2>2. sv' \in Settings
    BY <2>1, SettingsExcept DEF ConfigInv
  <2> QED BY <2>1, <2>2 DEF ConfigInv
<1>2. ASSUME NEW l \in ServerLines, ReadServerLine(l) PROVE ConfigInv'
  <2>1. l \in Line /\ ini \in Parser /\ file \in Seq(Line) /\ sv \in Settings
    BY ServerAssumption DEF ConfigInv
  <2>2. PICK ok : ini' = ParseLine(ini, l, ok)
    BY <1>2 DEF ReadServerLine
  <2>3. /\ UNCHANGED <<pc, nodes>> /\ file' = Append(file, l)
        /\ sv' = IF Calls(ini, l) THEN _serverConfigHandler(sv, ini.section, CallName(ini, l), CallValue(ini, l))
                 ELSE sv
    BY <1>2, Zenon DEF ReadServerLine
  <2>4. ini' \in Parser /\ ini'.lineno = ini.lineno + 1
    BY <2>1, <2>2, ParseLineType
  <2>5. file' \in Seq(Line) /\ Len(file') = Len(file) + 1
    BY <2>1, <2>3
  <2>6. sv' \in Settings
    BY <2>1, <2>3, CallType, ServerHandlerType
  <2> QED BY <2>3, <2>4, <2>5, <2>6 DEF ConfigInv
<1>3. ASSUME NEW l \in SerialLines, ReadSerialLine(l) PROVE ConfigInv'
  <2>1. l \in Line /\ ini \in Parser /\ file \in Seq(Line) /\ nodes \in Nodes /\ WellFormed(nodes)
    BY ServerAssumption DEF ConfigInv
  <2>2. PICK ok : ini' = ParseLine(ini, l, ok)
    BY <1>3 DEF ReadSerialLine
  <2>3. /\ UNCHANGED <<pc, sv>> /\ file' = Append(file, l)
        /\ nodes' = IF Calls(ini, l)
                    THEN _serialConfigHandler(nodes, ini.section, CallName(ini, l), CallValue(ini, l))
                    ELSE nodes
    BY <1>3, Zenon DEF ReadSerialLine
  <2>4. ini' \in Parser /\ ini'.lineno = ini.lineno + 1
    BY <2>1, <2>2, ParseLineType
  <2>5. file' \in Seq(Line) /\ Len(file') = Len(file) + 1
    BY <2>1, <2>3
  <2>6. ini.section \in Section
    BY <2>1 DEF Parser
  <2>7. nodes' \in Nodes /\ WellFormed(nodes')
    BY <2>1, <2>3, <2>6, CallType, SerialHandlerEffect
  <2> QED BY <2>3, <2>4, <2>5, <2>7 DEF ConfigInv
<1>4. CASE ServerFileRead
  BY <1>4, <1>b DEF ServerFileRead
<1>5. CASE SerialFileRead
  BY <1>5, <1>b DEF SerialFileRead, LogThen
<1>6. CASE Daemonize
  <2>1. /\ sv' = [sv EXCEPT !.pidfile = PathAfterCreate] /\ UNCHANGED <<ini, file, nodes>> /\ pc' = "init"
    BY <1>6 DEF Daemonize, parseVars
  <2>2. PathAfterCreate \in Text
    <3>1. CONFIG_DEFAULT_PID_FILE \in Text /\ sv.pidfile \in Text
      BY ServerAssumption DEF ConfigInv, Settings, Text
    <3> QED BY <3>1 DEF PathAfterCreate
  <2>3. sv' \in Settings
    BY <2>1, <2>2, SettingsExcept DEF ConfigInv
  <2> QED BY <2>1, <2>3 DEF ConfigInv
<1>7. CASE Term
  <2>1. /\ sv' = [sv EXCEPT !.logfile = NULL, !.pidfile = NULL] /\ UNCHANGED <<ini, file>>
        /\ nodes' = NoNodes /\ pc' \in {"free", "crashed"}
    BY <1>7 DEF Term, LogThen
  <2>2. NULL \in Text
    BY DEF Text
  <2>3. sv' \in Settings
    BY <2>1, <2>2 DEF ConfigInv, Settings
  <2> QED BY <2>1, <2>3, NoNodesOK DEF ConfigInv
<1>8. CASE FileMissing \/ StayForeground \/ ForkFails \/ serverInit \/ Started \/ serverBeforeSleep \/ Poll
           \/ TimerNotDue \/ CronShutdown
  BY <1>8, <1>a DEF FileMissing, StayForeground, ForkFails, serverInit, Started, serverBeforeSleep, Poll,
                    TimerNotDue, CronShutdown, LogThen, parseVars
<1>9. CASE CronReconnect
  <2>1. UNCHANGED <<sv, ini, file, nodes>> /\ pc' \in {"term", "sleep", "crashed"}
    BY <1>9 DEF CronReconnect, LogThen, parseVars
  <2> QED BY <1>a, <2>1
<1>10. CASE Exit \/ Signal \/ FatalSignal
  BY <1>10, <1>a DEF Exit, Signal, FatalSignal, LogThen, parseVars
<1>11. CASE UNCHANGED vars
  BY <1>11, <1>a DEF vars, parseVars
<1> QED BY <1>1, <1>2, <1>3, <1>4, <1>5, <1>6, <1>7, <1>8, <1>9, <1>10, <1>11 DEF Next, Over

LEMMA ConfigInductive == Spec => []ConfigInv
BY ConfigInit, ConfigStep, PTL DEF Spec

LEMMA DivisionIsPositive ==
    ASSUME NEW a \in Nat, NEW b \in Nat \ {0}, b <= a
    PROVE  a \div b \in Nat \ {0}
<1>1. PICK q \in Nat, r \in 0 .. b - 1 : q = a \div b /\ a = b * q + r
  <2>1. a \div b \in Nat /\ a % b \in 0 .. b - 1 /\ a = b * (a \div b) + (a % b)
    OBVIOUS
  <2> QED BY <2>1
<1>2. q # 0
  BY <1>1
<1> QED BY <1>1, <1>2

\* The cron asks for at least one tick (config.c:107-112, server.c:100).
LEMMA CronTicksPositive == ConfigInv => CronTicks \in Nat \ {0}
<1> SUFFICES ASSUME ConfigInv PROVE CronTicks \in Nat \ {0}
  OBVIOUS
<1>1. sv.hz \in 1 .. CONFIG_MAX_HZ
  BY DEF ConfigInv, Settings
<1>2. CONFIG_MAX_HZ \in Nat /\ CONFIG_MAX_HZ <= Tps /\ Tps \in Nat
  BY ConfigAssumption, ServerAssumption, TpsAssumption
<1>3. sv.hz \in Nat \ {0} /\ sv.hz <= Tps
  BY <1>1, <1>2
<1> QED BY <1>2, <1>3, DivisionIsPositive DEF CronTicks

\* The values of a function with finitely many arguments.
LEMMA FiniteRange ==
    ASSUME NEW S, IsFiniteSet(S), NEW f, f = [x \in S |-> f[x]]
    PROVE  IsFiniteSet(Range(f))
<1>1. f \in Surjection(S, Range(f))
  BY DEF Surjection, Range
<1> QED BY <1>1, FS_Surjection

\* Well-formed lists are the ones that SerialProxy assumes.
LEMMA ListsAreProper == nodes \in Nodes /\ WellFormed(nodes) => ListsWellFormed
<1> SUFFICES ASSUME nodes \in Nodes, WellFormed(nodes) PROVE ListsWellFormed
  OBVIOUS
<1> DEFINE M == MasterNodes
           V == VirtualNodes
<1>1. /\ nodes.masters \in Seq(Section) /\ nodes.virtuals \in [Section -> Seq(Path)]
      /\ nodes.writers \in [Section -> SUBSET Path]
  BY DEF Nodes
<1>2. \A x : x \in M <=> \E s \in Range(nodes.masters) : x = MasterNode(s)
  BY DEF MasterNodes
<1>3. \A x : x \in V <=> \E s \in Section : \E p \in Range(nodes.virtuals[s]) : x = VirtualNode(s, p)
  <2>1. \A s \in Section : [k \in Section |-> Range(nodes.virtuals[k])][s] = Range(nodes.virtuals[s])
    OBVIOUS
  <2> QED BY <2>1 DEF VirtualNodes, NodesOf
<1>4. \A s, q, p : /\ MasterNode(s)[2] = s /\ VirtualNode(s, p)[2] = s /\ VirtualNode(s, p) # MasterNode(q)
                   /\ MasterNode(s) = MasterNode(q) => s = q
  BY DEF MasterNode, VirtualNode
<1>5. (M \cup V) \ M = V
  BY <1>2, <1>3, <1>4
<1>6. Range(nodes.masters) \subseteq Section
  BY <1>1 DEF Range
<1>7. MasterList \in Seq(M) /\ Range(MasterList) = M
  <2>1. Len(nodes.masters) \in Nat /\ DOMAIN nodes.masters = 1 .. Len(nodes.masters)
    BY <1>1
  <2>2. \A i \in 1 .. Len(nodes.masters) : MasterNode(nodes.masters[i]) \in M
    BY <1>2, <2>1 DEF Range
  <2>3. MasterList = [i \in 1 .. Len(nodes.masters) |-> MasterNode(nodes.masters[i])]
    BY <2>1 DEF MasterList
  <2> HIDE DEF M
  <2>4. MasterList \in Seq(M)
    BY <2>1, <2>2, <2>3
  <2>5. \A x : x \in Range(MasterList) <=> x \in M
    BY <1>2, <2>1, <2>3 DEF Range
  <2> QED BY <2>4, <2>5
<1>8. VirtualOf \in [V -> M]
  <2>1. ASSUME NEW v \in V PROVE MasterNode(v[2]) \in M
    <3>0. PICK s \in Section : \E p \in Range(nodes.virtuals[s]) : v = VirtualNode(s, p)
      BY <1>3
    <3>1. PICK p \in Range(nodes.virtuals[s]) : v = VirtualNode(s, p)
      BY <3>0
    <3>2. nodes.virtuals[s] # <<>>
      BY <3>1 DEF Range
    <3>3. s \in Range(nodes.masters)
      BY <3>2 DEF WellFormed
    <3> QED BY <1>2, <1>4, <3>1, <3>3
  <2> QED BY <2>1 DEF VirtualOf
<1>9. ASSUME NEW s \in Section
      PROVE  /\ NodeList(s) \in Seq(V)
             /\ \A x : x \in Range(NodeList(s)) <=> \E p \in Range(nodes.virtuals[s]) : x = VirtualNode(s, p)
             /\ IsFiniteSet(Range(NodeList(s)))
  <2> DEFINE l == nodes.virtuals[s]
  <2>1. Len(l) \in Nat /\ DOMAIN l = 1 .. Len(l)
    BY <1>1
  <2>2. \A i \in 1 .. Len(l) : VirtualNode(s, l[i]) \in V
    BY <1>3, <2>1 DEF Range
  <2>3. NodeList(s) = [i \in 1 .. Len(l) |-> VirtualNode(s, l[i])]
    BY <2>1 DEF NodeList
  <2> HIDE DEF l, V
  <2>4. NodeList(s) \in Seq(V)
    BY <2>1, <2>2, <2>3
  <2>5. \A x : x \in Range(NodeList(s)) <=> \E p \in Range(l) : x = VirtualNode(s, p)
    BY <2>1, <2>3 DEF Range
  <2>6. IsFiniteSet(1 .. Len(l)) /\ NodeList(s) = [i \in 1 .. Len(l) |-> NodeList(s)[i]]
    <3>1. PICK n \in Nat : n = Len(l)
      BY <2>1
    <3>2. IsFiniteSet(1 .. n)
      BY FS_Interval
    <3> QED BY <2>3, <3>1, <3>2
  <2>7. IsFiniteSet(Range(NodeList(s)))
    BY <2>6, FiniteRange
  <2> QED BY <2>4, <2>5, <2>7 DEF l
<1>10. \A m \in M : m[2] \in Section /\ m = MasterNode(m[2]) /\ VirtualList[m] = NodeList(m[2])
  BY <1>2, <1>4, <1>6 DEF VirtualList
<1>11. VirtualList \in [M -> Seq(V)]
  BY <1>9, <1>10 DEF VirtualList
<1>12. ASSUME NEW m \in M PROVE Range(VirtualList[m]) = {v \in V : VirtualOf[v] = m}
  <2>1. m[2] \in Section /\ m = MasterNode(m[2]) /\ VirtualList[m] = NodeList(m[2])
    BY <1>10
  <2>2. \A v \in V : VirtualOf[v] = MasterNode(v[2])
    BY DEF VirtualOf
  <2>3. ASSUME NEW x \in Range(NodeList(m[2])) PROVE x \in V /\ VirtualOf[x] = m
    <3>1. PICK p \in Range(nodes.virtuals[m[2]]) : x = VirtualNode(m[2], p)
      BY <1>9, <2>1, <2>3
    <3>2. x \in V /\ x[2] = m[2]
      BY <1>3, <1>4, <2>1, <3>1
    <3> QED BY <2>1, <2>2, <3>2
  <2>4. ASSUME NEW x \in V, VirtualOf[x] = m PROVE x \in Range(NodeList(m[2]))
    <3>0. PICK s \in Section : \E p \in Range(nodes.virtuals[s]) : x = VirtualNode(s, p)
      BY <1>3, <2>4
    <3>1. PICK p \in Range(nodes.virtuals[s]) : x = VirtualNode(s, p)
      BY <3>0
    <3>2. s = m[2]
      BY <1>4, <2>1, <2>2, <2>4, <3>1
    <3> QED BY <1>9, <3>1, <3>2
  <2> HIDE DEF V
  <2> QED BY <2>1, <2>3, <2>4
<1>13. IsFiniteSet(M \cup V)
  <2>1. IsFiniteSet(M)
    <3>1. PICK n \in Nat : MasterList = [i \in 1 .. n |-> MasterList[i]]
      <4>1. Len(nodes.masters) \in Nat /\ DOMAIN nodes.masters = 1 .. Len(nodes.masters)
        BY <1>1
      <4> QED BY <4>1 DEF MasterList
    <3>2. IsFiniteSet(1 .. n)
      BY FS_Interval
    <3> QED BY <1>7, <3>1, <3>2, FiniteRange
  <2> DEFINE g == [m \in M |-> Range(VirtualList[m])]
  <2>2. IsFiniteSet(Range(g))
    <3>1. g = [m \in M |-> g[m]]
      OBVIOUS
    <3> HIDE DEF g, M
    <3> QED BY <2>1, <3>1, FiniteRange
  <2>3. \A T \in Range(g) : IsFiniteSet(T)
    BY <1>9, <1>10 DEF Range
  <2>4. V \subseteq UNION Range(g)
    <3>1. ASSUME NEW v \in V PROVE \E m \in M : v \in g[m]
      <4>1. VirtualOf[v] \in M
        BY <1>8
      <4> QED BY <1>12, <4>1
    <3> HIDE DEF V
    <3> QED BY <3>1 DEF Range
  <2> HIDE DEF g, M, V
  <2>5. IsFiniteSet(UNION Range(g))
    BY <2>2, <2>3, FS_UNION
  <2>6. IsFiniteSet(V)
    BY <2>4, <2>5, FS_Subset
  <2> QED BY <2>1, <2>6, FS_Union
<1>14. NodesOf(nodes.writers) \subseteq V
  <2>1. \A s \in Section : nodes.writers[s] \subseteq Range(nodes.virtuals[s])
    BY DEF WellFormed
  <2> QED BY <1>3, <2>1 DEF NodesOf
<1> HIDE DEF M, V
<1>15. ProperLists(M \cup V, M, MasterList, VirtualOf, VirtualList, NodesOf(nodes.writers))
  BY <1>5, <1>7, <1>8, <1>11, <1>12, <1>13, <1>14 DEF ProperLists
<1> QED BY <1>15 DEF ListsWellFormed, WellFormed, M, V

\* Whatever serial.ini holds, of any length and with any names, the lists that
\* SerialProxy starts from are well formed (config.c:135-190, serial.c:470-514, 616-674).
THEOREM ListsAreWellFormed == Spec => []ListsWellFormed
<1>1. ConfigInv => ListsWellFormed
  BY ListsAreProper DEF ConfigInv
<1> QED BY <1>1, ConfigInductive, PTL

\* No sproxy.ini makes the cron divide by zero (config.c:107-118, server.h:40-41,
\* server.c:95-100).
THEOREM CronNeverDividesByZero == Spec => []CronDivisionsDefined
<1>1. ConfigInv => CronDivisionsDefined
  <2> SUFFICES ASSUME ConfigInv PROVE CronDivisionsDefined
    OBVIOUS
  <2>1. CronTicks \in Nat \ {0} /\ sv.hz \in 1 .. CONFIG_MAX_HZ /\ sv.reconnect_interval \in Nat
    BY CronTicksPositive DEF ConfigInv, Settings
  <2>2. sv.hz > 0 /\ CronTicks > 0
    BY <2>1, ConfigAssumption
  <2>3. sv.reconnect_interval > CronTicks => sv.reconnect_interval \div CronTicks > 0
    BY <2>1, DivisionIsPositive
  <2> QED BY <2>2, <2>3 DEF CronDivisionsDefined
<1> QED BY <1>1, ConfigInductive, PTL

-----------------------------------------------------------------------------
(***************************************************************************)
(* The cron timer and the period of the reconnections                      *)
(***************************************************************************)

\* Quotient and remainder are unique.
LEMMA DivisionIsUnique ==
    ASSUME NEW p \in Nat \ {0}, NEW q \in Nat, NEW r \in 0 .. p - 1
    PROVE  (p * q + r) % p = r /\ (p * q + r) \div p = q
<1>1. PICK a \in Nat : a = p * q + r
  BY p * q \in Nat
<1>2. PICK d \in Nat, m \in 0 .. p - 1 : d = a \div p /\ m = a % p /\ a = p * d + m
  <2>1. a \div p \in Nat /\ a % p \in 0 .. p - 1 /\ a = p * (a \div p) + (a % p)
    OBVIOUS
  <2> QED BY <2>1
<1>3. ASSUME NEW x \in Nat, NEW y \in Nat, x < y PROVE p * x + p <= p * y
  <2>1. PICK z \in Nat : y = x + 1 + z
    BY <1>3
  <2>2. p * y = p * x + p + p * z /\ p * z \in Nat /\ p * x \in Nat
    BY <2>1
  <2> QED BY <2>2
<1>4. p * q \in Nat /\ p * d \in Nat
  OBVIOUS
<1>5. ~(q < d) /\ ~(d < q)
  BY <1>1, <1>2, <1>3, <1>4
<1>6. q = d
  BY <1>5
<1>7. r = m
  BY <1>1, <1>2, <1>4, <1>6
<1> QED BY <1>1, <1>2, <1>6, <1>7

\* The remainder of a counter that goes up by one.
LEMMA NextRemainder ==
    ASSUME NEW p \in Nat \ {0}, NEW c \in Nat
    PROVE  /\ c % p \in 0 .. p - 1
           /\ c % p = p - 1 => (c + 1) % p = 0
           /\ c % p # p - 1 => (c + 1) % p = (c % p) + 1
<1>1. PICK q \in Nat, r \in 0 .. p - 1 : r = c % p /\ c = p * q + r
  <2>1. c \div p \in Nat /\ c % p \in 0 .. p - 1 /\ c = p * (c \div p) + (c % p)
    OBVIOUS
  <2> QED BY <2>1
<1>2. CASE r = p - 1
  <2>1. c + 1 = p * (q + 1) + 0
    <3>1. p * (q + 1) = p * q + p /\ p * q \in Nat
      OBVIOUS
    <3> QED BY <1>1, <1>2, <3>1
  <2>2. (c + 1) % p = 0
    <3>1. q + 1 \in Nat /\ 0 \in 0 .. p - 1
      OBVIOUS
    <3>2. (p * (q + 1) + 0) % p = 0
      BY <3>1, DivisionIsUnique
    <3> QED BY <2>1, <3>2
  <2> QED BY <1>1, <1>2, <2>2
<1>3. CASE r # p - 1
  <2>1. r + 1 \in 0 .. p - 1
    BY <1>3
  <2>2. c + 1 = p * q + (r + 1)
    BY <1>1, p * q \in Nat
  <2>3. (c + 1) % p = r + 1
    BY <2>1, <2>2, DivisionIsUnique
  <2> QED BY <1>1, <1>3, <2>3
<1> QED BY <1>2, <1>3

\* A later time is in the same second or in a later one.
LEMMA SecondsGrow ==
    ASSUME NEW a \in Nat, NEW b \in Nat, a <= b
    PROVE  a \div Tps <= b \div Tps
<1>1. PICK x \in Nat, r \in 0 .. Tps - 1 : x = a \div Tps /\ a = x * Tps + r
  BY Division
<1>2. PICK y \in Nat, s \in 0 .. Tps - 1 : y = b \div Tps /\ b = y * Tps + s
  BY Division
<1>3. SUFFICES ASSUME y < x PROVE FALSE
  BY <1>1, <1>2
<1>4. PICK z \in Nat : x = y + 1 + z
  BY <1>3
<1>5. x * Tps = y * Tps + Tps + z * Tps /\ y * Tps \in Nat /\ z * Tps \in Nat /\ Tps \in Nat
  BY <1>4, TpsAssumption
<1> QED BY <1>1, <1>2, <1>5

\* How long before the next cron run the last round was, at least, when the interval is
\* ri, a cron run takes ct, and c runs were counted (server.h:40-41).
Apart(ri, ct, c) == IF ri <= ct THEN ct ELSE (((c - 1) % (ri \div ct)) + 1) * ct

\* run_with_period(ri)
RoundDue(ri, ct, c) == ri <= ct \/ c % (ri \div ct) = 0

\* A round starts the distance anew, a run without one adds to it, and a round comes only
\* when it exceeds the interval less one run.
LEMMA ApartGrows ==
    ASSUME NEW ri \in Nat, NEW ct \in Nat \ {0}, NEW c \in Nat
    PROVE  /\ RoundDue(ri, ct, c) => Apart(ri, ct, c + 1) = ct
           /\ c > 0 => Apart(ri, ct, c) \in Nat
           /\ c > 0 /\ ~RoundDue(ri, ct, c) => Apart(ri, ct, c + 1) = Apart(ri, ct, c) + ct
           /\ c > 0 /\ RoundDue(ri, ct, c) => Apart(ri, ct, c) > ri - ct
<1>1. CASE ri <= ct
  BY <1>1 DEF Apart, RoundDue
<1>2. CASE ~(ri <= ct)
  <2>1. PICK p \in Nat \ {0}, s \in 0 .. ct - 1 : p = ri \div ct /\ ri = ct * p + s
    <3>1. ri \div ct \in Nat \ {0}
      BY <1>2, DivisionIsPositive
    <3>2. ri % ct \in 0 .. ct - 1 /\ ri = ct * (ri \div ct) + (ri % ct)
      OBVIOUS
    <3> QED BY <3>1, <3>2
  <2>2. /\ \A x : Apart(ri, ct, x) = (((x - 1) % p) + 1) * ct
        /\ RoundDue(ri, ct, c) <=> c % p = 0
    BY <1>2, <2>1 DEF Apart, RoundDue
  <2>3. Apart(ri, ct, c + 1) = ((c % p) + 1) * ct
    <3>1. (c + 1) - 1 = c
      OBVIOUS
    <3> QED BY <2>2, <3>1
  <2>4. RoundDue(ri, ct, c) => Apart(ri, ct, c + 1) = ct
    BY <2>2, <2>3
  <2>5. ASSUME c > 0
        PROVE  /\ Apart(ri, ct, c) \in Nat
               /\ ~RoundDue(ri, ct, c) => Apart(ri, ct, c + 1) = Apart(ri, ct, c) + ct
               /\ RoundDue(ri, ct, c) => Apart(ri, ct, c) > ri - ct
    <3>1. PICK b \in Nat : c = b + 1
      <4>1. c - 1 \in Nat /\ c = (c - 1) + 1
        BY <2>5
      <4> QED BY <4>1
    <3>2. PICK m \in 0 .. p - 1 : /\ m = b % p
                                  /\ m = p - 1 => c % p = 0
                                  /\ m # p - 1 => c % p = m + 1
      BY <3>1, NextRemainder
    <3>3. Apart(ri, ct, c) = (m + 1) * ct
      <4>1. c - 1 = b
        BY <3>1
      <4> QED BY <2>2, <3>2, <4>1
    <3>4. (m + 1) * ct \in Nat /\ (m + 2) * ct = (m + 1) * ct + ct
      OBVIOUS
    <3>5. CASE m = p - 1
      <4>1. Apart(ri, ct, c) = p * ct /\ p * ct = ct * p /\ ct * p \in Nat
        BY <3>3, <3>5
      <4>2. Apart(ri, ct, c) > ri - ct
        BY <2>1, <4>1
      <4> QED BY <2>2, <3>2, <3>5, <4>1, <4>2
    <3>6. CASE m # p - 1
      <4>1. c % p = m + 1 /\ c % p # 0 /\ (m + 1) + 1 = m + 2
        BY <3>2, <3>6
      <4> QED BY <2>2, <2>3, <3>3, <3>4, <4>1
    <3> QED BY <3>5, <3>6
  <2> QED BY <2>4, <2>5
<1> QED BY <1>1, <1>2

BeforeTimer == {"options", "sproxy.ini", "daemonize", "init"}
InLoop == {"sleep", "poll", "timers", "cron"}
WithTimer == {"serial.ini", "started", "sleep", "poll", "timers", "cron", "term", "free"}

\* From serverInit to serverTerm the list holds the cron timer and nothing else; the clock
\* of this process does not go back, so no skew makes the timer due early; the timer is
\* never nearer to the last round than the count of cron runs says.
TimerInv ==
    /\ tl \in TimerLoop /\ now \in Tps .. MaxNow /\ cronloops \in Nat
    /\ lastRound \in Nat \cup {Never}
    /\ tl.lastTime <= now \div Tps
    /\ pc \in BeforeTimer => tl.list = <<>>
    /\ pc \in WithTimer => Len(tl.list) = 1 /\ tl.list[1].id = cron_event_id
    /\ pc \in BeforeTimer \cup {"serial.ini", "started"} => lastRound = Never
    /\ pc = "cron" => Due(CronEvent, now)
    /\ pc \in InLoop /\ lastRound # Never =>
          /\ cronloops > 0
          /\ Ticks(CronEvent.when) >= lastRound + Apart(sv.reconnect_interval, CronTicks, cronloops)

LEMMA TimerInit == Init => TimerInv
<1> SUFFICES ASSUME Init PROVE TimerInv
  OBVIOUS
<1>1. /\ pc = "options" /\ now = Tps /\ tl = NewTimerLoop(Tps) /\ cronloops = 0 /\ lastRound = Never
  BY Zenon DEF Init
<1>2. Tps \div Tps \in Nat /\ Tps \in Nat /\ Tps \in Tps .. MaxNow
  BY TpsAssumption, ServerAssumption
<1>3. tl.list = <<>> /\ tl.lastTime = Tps \div Tps /\ tl \in TimerLoop
  BY <1>1, <1>2 DEF NewTimerLoop, TimerLoop
<1> QED BY <1>1, <1>2, <1>3 DEF TimerInv, WithTimer, InLoop

\* The only timer is due when its time has come.
LEMMA CronTimer ==
    ASSUME TimerInv, pc \in WithTimer
    PROVE  /\ CronEvent \in TimeEvent /\ CronEvent.when \in When /\ now \in Nat
           /\ Ticks(CronEvent.when) \in Nat
           /\ Due(CronEvent, now) <=> now >= Ticks(CronEvent.when)
<1>1. tl \in TimerLoop /\ Len(tl.list) = 1 /\ now \in Nat
  BY TpsAssumption DEF TimerInv
<1>2. CronEvent \in TimeEvent
  BY <1>1, LoopType DEF CronEvent
<1>3. CronEvent.when \in When
  BY <1>2 DEF TimeEvent
<1>4. /\ aeGetTime(now) \in When /\ Ticks(aeGetTime(now)) = now
  BY <1>1, GetTimeTicks
<1>5. Ticks(CronEvent.when) \in Nat
  BY <1>3, TpsAssumption DEF When, Ticks
<1>6. Before(aeGetTime(now), CronEvent.when) <=> now < Ticks(CronEvent.when)
  BY <1>3, <1>4, BeforeIsLess
<1> QED BY <1>1, <1>2, <1>3, <1>5, <1>6 DEF Due

\* The clock did not go back: processTimeEvents only notes the second (ae.c:252-267).
LEMMA NoSkew ==
    ASSUME TimerInv, NEW n, n = CheckSkew(tl, now)
    PROVE  n \in TimerLoop /\ n.list = tl.list /\ n.lastTime = now \div Tps
<1>1. tl \in TimerLoop /\ now \in Nat /\ tl.lastTime <= now \div Tps
  BY TpsAssumption DEF TimerInv
<1>2. now \div Tps \in Nat /\ tl.lastTime \in Nat
  BY <1>1, Division, LoopType
<1>3. ~SkewDetected(tl, now)
  BY <1>1, <1>2 DEF SkewDetected
<1> QED BY <1>1, <1>3, SkewEffect

\* The timer that serverInit creates (server.c:139).
LEMMA CronCreated ==
    ASSUME NEW l \in TimerLoop, NEW t \in Nat, NEW d \in Nat, NEW n, n = aeCreateTimeEvent(l, t, d)
    PROVE  /\ n \in TimerLoop /\ n.lastTime = l.lastTime
           /\ Len(n.list) = Len(l.list) + 1 /\ n.list[1].id = l.nextId
<1>1. /\ n \in TimerLoop /\ n.nextId = l.nextId + 1 /\ n.lastTime = l.lastTime
      /\ Len(n.list) = Len(l.list) + 1
      /\ n.list[1] = [te |-> l.nextId, id |-> l.nextId, when |-> aeAddMillisecondsToNow(t, d)]
  BY CreateTimerEffect
<1> QED BY <1>1

OneTimer(l) == l \in TimerLoop /\ Len(l.list) = 1

\* n is l after its only timer was given the time t.
RunsAgain(l, t, n) ==
    /\ n \in TimerLoop /\ n.lastTime = l.lastTime
    /\ Len(n.list) = 1 /\ n.list[1].id = l.list[1].id
    /\ Ticks(n.list[1].when) = t

\* And it keeps running (ae.c:303-313).
LEMMA CronRescheduled ==
    ASSUME NEW l, OneTimer(l), NEW te, te = l.list[1].te, NEW t \in Nat, NEW r \in Nat,
           NEW n, n = Reschedule(l, te, t, r)
    PROVE  RunsAgain(l, t + r, n)
<1>1. l \in TimerLoop /\ Len(l.list) = 1 /\ DOMAIN l.list = 1 .. 1
  BY LoopType DEF OneTimer
<1>2. PICK k \in 1 .. Len(l.list) : k = 1 /\ IndexOf(l, te) = k
  <2>1. IndexOf(l, l.list[1].te) = 1 /\ 1 \in 1 .. Len(l.list)
    BY <1>1 DEF IndexOf
  <2> QED BY <2>1
<1>3. r \in Nat \cup {AE_NOMORE} /\ r # AE_NOMORE
  BY DEF AE_NOMORE
<1>4. n \in TimerLoop /\ n.nextId = l.nextId /\ n.lastTime = l.lastTime /\ Len(n.list) = Len(l.list)
  BY <1>1, <1>2, <1>3, RescheduleEffect
<1>5. n.list[k].id = IF r # AE_NOMORE THEN l.list[k].id ELSE AE_DELETED_EVENT_ID
  BY <1>1, <1>2, <1>3, RescheduleEffect
<1>6. n.list[k].when = IF r # AE_NOMORE THEN aeAddMillisecondsToNow(t, r) ELSE l.list[k].when
  BY <1>1, <1>2, <1>3, RescheduleEffect
<1> QED BY <1>1, <1>2, <1>3, <1>4, <1>5, <1>6, AddTicks DEF RunsAgain

\* Every step keeps the timer in the list and the rounds apart.
LEMMA TimerStep == ConfigInv /\ TimerInv /\ [Next]_vars => TimerInv'
<1> SUFFICES ASSUME ConfigInv, TimerInv, [Next]_vars PROVE TimerInv'
  OBVIOUS
<1>a. now \in Nat /\ now \div Tps \in Nat /\ Tps \in Nat /\ MaxNow \in Nat /\ now \in Tps .. MaxNow
      /\ tl \in TimerLoop
  <2>1. now \in Tps .. MaxNow /\ Tps \in Nat /\ MaxNow \in Nat /\ tl \in TimerLoop
    BY TpsAssumption, ServerAssumption DEF TimerInv
  <2>2. now \in Nat
    BY <2>1
  <2> QED BY <2>1, <2>2, Division
<1>b. ASSUME UNCHANGED <<tl, now, cronloops, cron_event_id, lastRound>>,
             \/ pc \in BeforeTimer /\ pc' \in BeforeTimer \cup {"quit", "failed", "killed"}
             \/ UNCHANGED sv /\ pc' = pc
             \/ pc' \in {"quit", "failed", "killed", "crashed"}
             \/ pc = "serial.ini" /\ pc' = "started"
             \/ pc = "started" /\ pc' = "sleep"
             \/ pc = "term" /\ pc' = "free"
      PROVE  TimerInv'
  BY <1>b DEF TimerInv, BeforeTimer, InLoop, WithTimer, CronEvent, CronTicks
<1>1. CASE Options \/ FileMissing \/ ServerFileRead \/ StayForeground \/ ForkFails \/ Daemonize
           \/ SerialFileRead \/ Started \/ FatalSignal
  BY <1>1, <1>b DEF Options, FileMissing, ServerFileRead, StayForeground, ForkFails, Daemonize,
       SerialFileRead, Started, FatalSignal, LogThen, loopVars, BeforeTimer
<1>2. ASSUME NEW l \in ServerLines, ReadServerLine(l) PROVE TimerInv'
  <2>1. UNCHANGED <<pc, loopVars>> /\ pc = "sproxy.ini"
    BY <1>2 DEF ReadServerLine
  <2> QED BY <1>b, <2>1 DEF loopVars, BeforeTimer
<1>3. ASSUME NEW l \in SerialLines, ReadSerialLine(l) PROVE TimerInv'
  <2>1. UNCHANGED <<pc, sv, loopVars>>
    BY <1>3 DEF ReadSerialLine
  <2> QED BY <1>b, <2>1 DEF loopVars
<1>4. CASE serverInit
  <2>1. /\ pc = "init" /\ tl' = aeCreateTimeEvent(tl, now, 1) /\ cron_event_id' = tl.nextId
        /\ pc' = "serial.ini" /\ UNCHANGED <<now, cronloops, lastRound>>
    BY <1>4 DEF serverInit
  <2>2. tl.list = <<>> /\ lastRound = Never
    BY <2>1 DEF TimerInv, BeforeTimer
  <2>3. /\ tl' \in TimerLoop /\ tl'.lastTime = tl.lastTime
        /\ Len(tl'.list) = 1 /\ tl'.list[1].id = tl.nextId
    <3>1. PICK d \in Nat : d = 1
      OBVIOUS
    <3>2. tl' = aeCreateTimeEvent(tl, now, d)
      BY <2>1, <3>1
    <3>3. /\ tl' \in TimerLoop /\ tl'.lastTime = tl.lastTime
          /\ Len(tl'.list) = Len(tl.list) + 1 /\ tl'.list[1].id = tl.nextId
      BY <1>a, <3>2, CronCreated
    <3> QED BY <2>2, <3>3
  <2> QED BY <2>1, <2>2, <2>3 DEF TimerInv, BeforeTimer, InLoop, WithTimer
<1>5. CASE serverBeforeSleep \/ Poll
  <2>1. /\ UNCHANGED <<sv, tl, cronloops, cron_event_id, lastRound>>
        /\ \/ pc = "sleep" /\ pc' = "poll"
           \/ pc = "poll" /\ pc' \in {"timers", "crashed"}
    BY <1>5 DEF serverBeforeSleep, Poll, LogThen
  <2>2. now' \in now .. MaxNow
    <3>1. \E d \in Nat : now' = now + d /\ now + d <= MaxNow
      BY <1>5, TpsAssumption DEF serverBeforeSleep, Poll, Wait, SleepTimes
    <3> QED BY <1>a, <3>1
  <2>3. now' \in Tps .. MaxNow /\ now \div Tps <= now' \div Tps /\ now' \div Tps \in Nat
    <3>1. now' \in Nat /\ now <= now' /\ now' \in Tps .. MaxNow
      BY <1>a, <2>2
    <3> QED BY <1>a, <3>1, SecondsGrow, Division
  <2>4. tl'.lastTime <= now' \div Tps
    BY <1>a, <2>1, <2>3, LoopType DEF TimerInv
  <2> QED BY <2>1, <2>3, <2>4 DEF TimerInv, BeforeTimer, InLoop, WithTimer, CronEvent, CronTicks
<1>6. CASE TimerNotDue \/ CronShutdown
  <2>1. /\ pc = "timers" /\ tl' = CheckSkew(tl, now) /\ UNCHANGED <<sv, now, cronloops, cron_event_id, lastRound>>
        /\ pc' = "sleep" \/ pc' = "crashed" \/ (pc' = "cron" /\ Due(CronEvent, now))
    BY <1>6 DEF TimerNotDue, CronShutdown, LogThen
  <2>2. tl' \in TimerLoop /\ tl'.list = tl.list /\ tl'.lastTime = now \div Tps
    BY <2>1, NoSkew
  <2>3. tl'.lastTime <= now' \div Tps
    BY <1>a, <2>1, <2>2
  <2> QED BY <2>1, <2>2, <2>3 DEF TimerInv, BeforeTimer, InLoop, WithTimer, CronEvent, CronTicks
<1>7. CASE CronReconnect
  <2> DEFINE ri == sv.reconnect_interval
             ct == CronTicks
  <2>1. ct \in Nat \ {0} /\ ri \in Nat
    BY CronTicksPositive DEF ConfigInv, Settings
  <2>2. /\ pc = "cron" /\ pc' \in {"sleep", "term", "crashed"}
        /\ IF RoundDue(ri, ct, cronloops) THEN lastRound' = now ELSE lastRound' = lastRound
        /\ cronloops' = cronloops + 1 /\ tl' = Reschedule(tl, CronEvent.te, now, ct)
        /\ UNCHANGED <<sv, now, cron_event_id>>
    BY <1>7 DEF CronReconnect, ReconnectDue, RoundDue, CronReturns, LogThen
  <2>3. CronTicks' = ct /\ sv.reconnect_interval' = ri
    BY <2>2 DEF CronTicks
  <2>4. Len(tl.list) = 1
    BY <2>2 DEF TimerInv, WithTimer
  <2>5. /\ tl' \in TimerLoop /\ tl'.lastTime = tl.lastTime /\ Len(tl'.list) = 1
        /\ tl'.list[1].id = tl.list[1].id /\ Ticks(tl'.list[1].when) = now + ct
    <3>1. PICK r \in Nat, te \in {tl.list[1].te} : r = ct /\ te = tl.list[1].te
      BY <2>1
    <3>2. tl' = Reschedule(tl, te, now, r)
      BY <2>2, <3>1 DEF CronEvent
    <3>3. OneTimer(tl)
      BY <1>a, <2>4 DEF OneTimer
    <3>4. RunsAgain(tl, now + r, tl')
      BY <1>a, <3>1, <3>2, <3>3, CronRescheduled
    <3> QED BY <3>1, <3>4 DEF RunsAgain
  <2>6. Ticks(CronEvent'.when) = now + ct
    BY <2>5 DEF CronEvent
  <2>7. now >= Ticks(CronEvent.when) /\ Ticks(CronEvent.when) \in Nat
    BY <2>2, CronTimer DEF TimerInv, WithTimer
  <2>8. cronloops \in Nat /\ lastRound \in Nat \cup {Never}
    BY DEF TimerInv
  <2>9. lastRound # Never => cronloops > 0 /\ Ticks(CronEvent.when) >= lastRound + Apart(ri, ct, cronloops)
    BY <2>2 DEF TimerInv, InLoop
  <2> HIDE DEF ri, ct
  <2>10. lastRound' # Never => now + ct >= lastRound' + Apart(ri, ct, cronloops + 1)
    <3>1. CASE RoundDue(ri, ct, cronloops)
      BY <1>a, <2>1, <2>2, <2>8, <3>1, ApartGrows
    <3>2. CASE ~RoundDue(ri, ct, cronloops)
      <4>1. lastRound' = lastRound
        BY <2>2, <3>2
      <4>2. SUFFICES ASSUME lastRound # Never PROVE now + ct >= lastRound + Apart(ri, ct, cronloops + 1)
        BY <4>1
      <4>3. /\ Apart(ri, ct, cronloops) \in Nat
            /\ Apart(ri, ct, cronloops + 1) = Apart(ri, ct, cronloops) + ct
        BY <2>1, <2>8, <2>9, <3>2, <4>2, ApartGrows
      <4>4. lastRound \in Nat
        BY <2>8, <4>2
      <4> QED BY <1>a, <2>1, <2>7, <2>9, <4>2, <4>3, <4>4
    <3> QED BY <3>1, <3>2
  <2>11. cronloops' \in Nat /\ cronloops' > 0 /\ lastRound' \in Nat \cup {Never}
    BY <1>a, <2>2, <2>8
  <2>12. tl'.list[1].id = cron_event_id' /\ tl'.lastTime <= now' \div Tps /\ now' \in Tps .. MaxNow
    BY <2>2, <2>5 DEF TimerInv, WithTimer
  <2>13. lastRound' # Never =>
            Ticks(CronEvent'.when) >= lastRound' + Apart(sv.reconnect_interval, CronTicks, cronloops)'
    BY <2>2, <2>3, <2>6, <2>10
  <2> QED BY <2>2, <2>5, <2>11, <2>12, <2>13 DEF TimerInv, BeforeTimer, InLoop, WithTimer
<1>8. CASE Term
  BY <1>8, <1>b DEF Term, LogThen, loopVars
<1>9. CASE Exit
  <2>1. /\ pc = "free" /\ tl' = aeDeleteTimeEvent(tl, cron_event_id) /\ pc' \in {"exited", "crashed"}
        /\ UNCHANGED <<now, cronloops, lastRound>>
    BY <1>9 DEF Exit, LogThen
  <2>2. tl' \in TimerLoop /\ tl'.lastTime = tl.lastTime
    BY <2>1, DeleteTimerEffect DEF TimerInv
  <2> QED BY <2>1, <2>2 DEF TimerInv, BeforeTimer, InLoop, WithTimer
<1>10. CASE Signal
  BY <1>10, <1>b DEF Signal
<1>11. CASE UNCHANGED vars
  BY <1>11, <1>b DEF vars, loopVars
<1> QED BY <1>1, <1>2, <1>3, <1>4, <1>5, <1>6, <1>7, <1>8, <1>9, <1>10, <1>11 DEF Next, Over

LEMMA TimerInductive == Spec => [](ConfigInv /\ TimerInv)
<1>1. ConfigInv /\ TimerInv /\ [Next]_vars => (ConfigInv /\ TimerInv)'
  BY ConfigStep, TimerStep
<1> QED BY <1>1, ConfigInit, TimerInit, PTL DEF Spec

\* Only serverCron moves the time of the last round, and only in a run that is due
\* (server.c:95-99).
LEMMA OnlyCronReconnects ==
    ASSUME [Next]_vars, lastRound' # lastRound
    PROVE  pc = "cron" /\ RoundDue(sv.reconnect_interval, CronTicks, cronloops)
<1>1. CASE CronReconnect
  BY <1>1 DEF CronReconnect, ReconnectDue, RoundDue
<1>2. CASE UNCHANGED lastRound
  BY <1>2
<1>3. CronReconnect \/ UNCHANGED lastRound
  BY DEF Next, Options, FileMissing, ReadServerLine, ServerFileRead, StayForeground, ForkFails, Daemonize,
     serverInit, ReadSerialLine, SerialFileRead, Started, serverBeforeSleep, Poll, TimerNotDue, CronShutdown,
     Term, Exit, Signal, FatalSignal, Over, vars, loopVars
<1> QED BY <1>1, <1>2, <1>3

\* Rounds of the cron are never closer than the interval less one cron run, for every hz
\* and every interval that the configuration lets through (server.h:40-41,
\* server.c:95-100).
THEOREM RoundsAreApart == Spec => ReconnectNotTooSoon
<1>1. ASSUME ConfigInv, TimerInv, [Next]_vars, lastRound' # lastRound, lastRound # Never
      PROVE  now - lastRound > sv.reconnect_interval - CronTicks
  <2> DEFINE ri == sv.reconnect_interval
             ct == CronTicks
  <2>1. ct \in Nat \ {0} /\ ri \in Nat
    BY <1>1, CronTicksPositive DEF ConfigInv, Settings
  <2>2. pc = "cron" /\ RoundDue(ri, ct, cronloops)
    BY <1>1, OnlyCronReconnects
  <2>3. /\ cronloops \in Nat /\ cronloops > 0 /\ lastRound \in Nat
        /\ Ticks(CronEvent.when) >= lastRound + Apart(ri, ct, cronloops)
    BY <1>1, <2>2 DEF TimerInv, InLoop
  <2>4. now \in Nat /\ Ticks(CronEvent.when) \in Nat /\ now >= Ticks(CronEvent.when)
    BY <1>1, <2>2, CronTimer DEF TimerInv, WithTimer
  <2> HIDE DEF ri, ct
  <2>5. Apart(ri, ct, cronloops) \in Nat /\ Apart(ri, ct, cronloops) > ri - ct
    BY <2>1, <2>2, <2>3, ApartGrows
  <2>6. now - lastRound > ri - ct
    BY <2>1, <2>3, <2>4, <2>5
  <2> QED BY <2>6 DEF ri, ct
<1>2. ConfigInv /\ TimerInv /\ [Next]_vars =>
         [lastRound' # lastRound /\ lastRound # Never
            => now - lastRound > sv.reconnect_interval - CronTicks]_vars
  BY <1>1
<1> QED BY <1>2, TimerInductive, PTL DEF Spec, ReconnectNotTooSoon

-----------------------------------------------------------------------------
(***************************************************************************)
(* The log and the pid file                                                *)
(***************************************************************************)

\* A path that sproxy.ini named stays until serverTerm frees it.
LogInv ==
    /\ pc \in {"options", "sproxy.ini"} => ~hadLog
    /\ hadLog /\ pc # "free" /\ ~Ended => sv.logfile # NULL
    /\ pc = "crashed" => ~hadLog

LEMMA LogStep == ConfigInv /\ TimerInv /\ LogInv /\ [Next]_vars => LogInv'
<1> SUFFICES ASSUME ConfigInv, TimerInv, LogInv, [Next]_vars PROVE LogInv'
  OBVIOUS
<1>a. ASSUME UNCHANGED <<sv, hadLog>>, pc # "free", ~Ended, NEW levels, NEW next,
             pc' = IF LogCrashes(levels) THEN "crashed" ELSE next,
             next \notin {"options", "sproxy.ini"}, next # "crashed"
      PROVE  LogInv'
  BY <1>a DEF LogInv, LogCrashes, Ended
<1>b. ASSUME UNCHANGED <<sv, hadLog>>, pc # "free", ~Ended,
             pc' \notin {"options", "sproxy.ini", "crashed"}
      PROVE  LogInv'
  BY <1>b DEF LogInv, Ended
<1>1. CASE Options
  <2>1. /\ pc = "options" /\ UNCHANGED hadLog /\ pc' \in {"sproxy.ini", "daemonize", "quit"}
    BY <1>1 DEF Options, parseVars
  <2> QED BY <2>1 DEF LogInv, Ended
<1>2. ASSUME NEW l \in ServerLines, ReadServerLine(l) PROVE LogInv'
  <2>1. pc = "sproxy.ini" /\ UNCHANGED <<pc, hadLog>>
    BY <1>2 DEF ReadServerLine
  <2> QED BY <2>1 DEF LogInv
<1>3. CASE ServerFileRead
  <2>1. pc' = "daemonize" /\ hadLog' = (sv.logfile # NULL) /\ UNCHANGED sv
    BY <1>3 DEF ServerFileRead
  <2> QED BY <2>1, Zenon DEF LogInv
<1>4. CASE Daemonize
  <2>1. /\ sv' = [sv EXCEPT !.pidfile = PathAfterCreate] /\ pc' = "init" /\ pc = "daemonize"
        /\ UNCHANGED hadLog
    BY <1>4 DEF Daemonize, parseVars
  <2>2. sv'.logfile = sv.logfile
    BY <2>1 DEF ConfigInv, Settings
  <2> QED BY <2>1, <2>2 DEF LogInv, Ended
<1>5. ASSUME NEW l \in SerialLines, ReadSerialLine(l) PROVE LogInv'
  <2>1. UNCHANGED <<pc, sv, hadLog>>
    BY <1>5 DEF ReadSerialLine
  <2> QED BY <2>1 DEF LogInv, Ended
<1>6. CASE FileMissing \/ StayForeground \/ ForkFails \/ serverInit \/ serverBeforeSleep \/ TimerNotDue
  BY <1>6, <1>b DEF FileMissing, StayForeground, ForkFails, serverInit, serverBeforeSleep, TimerNotDue,
                    parseVars, Ended
<1>7. CASE SerialFileRead \/ Poll
  <2>1. \E levels, next : /\ pc' = IF LogCrashes(levels) THEN "crashed" ELSE next
                          /\ next \in {"started", "timers"}
    BY <1>7 DEF SerialFileRead, Poll, LogThen
  <2>2. UNCHANGED <<sv, hadLog>> /\ pc \in {"serial.ini", "poll"}
    BY <1>7 DEF SerialFileRead, Poll, parseVars
  <2> QED BY <2>1, <2>2, <1>a DEF Ended
<1>8. CASE Started \/ CronShutdown
  <2>1. \E levels, next : /\ pc' = IF LogCrashes(levels) THEN "crashed" ELSE next
                          /\ next \in {"sleep", "cron"}
    BY <1>8 DEF Started, CronShutdown, LogThen
  <2>2. UNCHANGED <<sv, hadLog>> /\ pc \in {"started", "timers"}
    BY <1>8 DEF Started, CronShutdown, parseVars
  <2> QED BY <2>1, <2>2, <1>a DEF Ended
<1>9. CASE CronReconnect
  <2>1. UNCHANGED <<sv, hadLog>> /\ pc = "cron"
    BY <1>9 DEF CronReconnect, parseVars
  <2>2. PICK next \in {"term", "sleep"} :
           pc' = next \/ \E levels : pc' = IF LogCrashes(levels) THEN "crashed" ELSE next
    BY <1>9 DEF CronReconnect, LogThen
  <2> QED BY <2>1, <2>2, <1>a, <1>b DEF Ended
<1>10. CASE Term
  <2>1. /\ pc = "term" /\ UNCHANGED hadLog
        /\ \E levels : pc' = IF LogCrashes(levels) THEN "crashed" ELSE "free"
    BY <1>10 DEF Term, LogThen
  <2> QED BY <2>1 DEF LogInv, LogCrashes, Ended
<1>11. CASE Exit
  <2>1. pc = "free" /\ UNCHANGED hadLog
        /\ pc' = IF LogCrashes(IF HasTimer(tl, cron_event_id) THEN {} ELSE {LL_WARN}) THEN "crashed" ELSE "exited"
    BY <1>11 DEF Exit, LogThen, parseVars
  <2>2. HasTimer(tl, cron_event_id)
    <3>1. tl \in TimerLoop /\ Len(tl.list) = 1 /\ tl.list[1].id = cron_event_id
      BY <2>1 DEF TimerInv, WithTimer
    <3>2. 1 \in DOMAIN tl.list
      BY <3>1, LoopType
    <3> QED BY <3>1, <3>2 DEF HasTimer
  <2>3. pc' = "exited"
    BY <2>1, <2>2 DEF LogCrashes
  <2> QED BY <2>1, <2>3 DEF LogInv, Ended
<1>12. CASE Signal
  <2>1. UNCHANGED <<pc, sv, hadLog>>
    BY <1>12 DEF Signal, parseVars
  <2> QED BY <2>1 DEF LogInv, Ended
<1>13. CASE FatalSignal
  BY <1>13 DEF FatalSignal, parseVars, LogInv, Ended
<1>14. CASE UNCHANGED vars
  BY <1>14 DEF vars, parseVars, LogInv, Ended
<1> QED BY <1>1, <1>2, <1>3, <1>4, <1>5, <1>6, <1>7, <1>8, <1>9, <1>10, <1>11, <1>12, <1>13, <1>14
        DEF Next, Over

\* With a log file configured no message kills the process, not even the ones of
\* serverTerm, after the path was freed (server.c:148-159, 249).
THEOREM LogfileSuffices == Spec => []LogfileIsEnough
<1>1. Init => LogInv
  BY DEF Init, LogInv
<1>2. LogInv => LogfileIsEnough
  BY DEF LogInv, LogfileIsEnough
<1> QED BY <1>1, <1>2, LogStep, TimerInductive, PTL DEF Spec

\* A pid file of this process is at the default path, which is the one remembered and
\* removed: by the cron run that stops the loop, unless its message killed the process.
PidInv ==
    /\ pids \in [PidPath -> {"none", "own", "other"}]
    /\ pc \in BeforeTimer \cup {"serial.ini", "started"} => ~stop
    /\ pc \in {"term", "free", "exited"} => stop
    /\ \A path \in PidPath : pids[path] = "own" =>
          /\ path = CONFIG_DEFAULT_PID_FILE
          /\ pc \notin {"options", "sproxy.ini", "daemonize"}
          /\ stop => pc = "crashed"
          /\ pc # "crashed" => sv.pidfile = CONFIG_DEFAULT_PID_FILE

LEMMA PidInit == Init => PidInv
<1> SUFFICES ASSUME Init PROVE PidInv
  OBVIOUS
<1>1. pc = "options" /\ stop = FALSE /\ \E owner \in {"none", "other"} : pids = [path \in PidPath |-> owner]
  BY Zenon DEF Init
<1> QED BY <1>1 DEF PidInv

LEMMA PidStep == ConfigInv /\ PidInv /\ [Next]_vars => PidInv'
<1> SUFFICES ASSUME ConfigInv, PidInv, [Next]_vars PROVE PidInv'
  OBVIOUS
<1>a. ASSUME UNCHANGED <<stop, pids>>, sv'.pidfile = sv.pidfile,
             \/ pc' = pc
             \/ pc' \in {"quit", "failed", "killed", "crashed"} /\ ~Ended
             \/ pc \in {"options", "sproxy.ini"} /\ pc' \in {"sproxy.ini", "daemonize"}
             \/ pc = "daemonize" /\ pc' = "init"
             \/ pc = "init" /\ pc' = "serial.ini"
             \/ pc = "serial.ini" /\ pc' = "started"
             \/ pc = "started" /\ pc' = "sleep"
             \/ pc = "sleep" /\ pc' = "poll"
             \/ pc = "poll" /\ pc' = "timers"
             \/ pc = "timers" /\ pc' = "sleep"
             \/ pc = "cron" /\ pc' = IF stop THEN "term" ELSE "sleep"
             \/ pc = "free" /\ pc' = "exited"
      PROVE  PidInv'
  BY <1>a DEF PidInv, BeforeTimer, Ended
<1>1. CASE Options
  <2>1. /\ UNCHANGED <<stop, pids>> /\ pc = "options" /\ pc' \in {"sproxy.ini", "daemonize", "quit"}
        /\ \E d \in BOOLEAN : sv' = [sv EXCEPT !.daemonize = d]
    BY <1>1 DEF Options, loopVars
  <2>2. sv'.pidfile = sv.pidfile
    BY <2>1 DEF ConfigInv, Settings
  <2> QED BY <2>1, <2>2, <1>a DEF Ended
<1>2. ASSUME NEW l \in ServerLines, ReadServerLine(l) PROVE PidInv'
  <2>1. pc = "sproxy.ini" /\ UNCHANGED <<pc, stop, pids>>
    BY <1>2 DEF ReadServerLine, loopVars
  <2> QED BY <2>1 DEF PidInv, BeforeTimer
<1>3. ASSUME NEW l \in SerialLines, ReadSerialLine(l) PROVE PidInv'
  <2>1. UNCHANGED <<pc, sv, stop, pids>>
    BY <1>3 DEF ReadSerialLine, loopVars
  <2> QED BY <2>1, <1>a
<1>4. CASE FileMissing \/ ServerFileRead \/ StayForeground \/ ForkFails \/ serverInit \/ serverBeforeSleep
           \/ TimerNotDue \/ Signal \/ FatalSignal
  BY <1>4, <1>a DEF FileMissing, ServerFileRead, StayForeground, ForkFails, serverInit, serverBeforeSleep,
       TimerNotDue, Signal, FatalSignal, loopVars, Ended
<1>5. CASE SerialFileRead \/ Started \/ Poll \/ CronReconnect \/ Exit
  <2>1. UNCHANGED <<sv, stop, pids>>
    BY <1>5 DEF SerialFileRead, Started, Poll, CronReconnect, Exit, loopVars
  <2>2. \/ pc = "serial.ini" /\ pc' \in {"started", "crashed"}
        \/ pc = "started" /\ pc' \in {"sleep", "crashed"}
        \/ pc = "poll" /\ pc' \in {"timers", "crashed"}
        \/ pc = "cron" /\ pc' \in {IF stop THEN "term" ELSE "sleep", "crashed"}
        \/ pc = "free" /\ pc' \in {"exited", "crashed"}
    BY <1>5 DEF SerialFileRead, Started, Poll, CronReconnect, Exit, LogThen
  <2> QED BY <2>1, <2>2, <1>a DEF Ended
<1>6. CASE Daemonize
  <2>1. /\ sv' = [sv EXCEPT !.pidfile = PathAfterCreate] /\ pc = "daemonize" /\ pc' = "init" /\ UNCHANGED stop
        /\ pids' \in IF sv.pidfile = NULL THEN {pids} ELSE {pids, [pids EXCEPT ![CONFIG_DEFAULT_PID_FILE] = "own"]}
    BY <1>6 DEF Daemonize, loopVars
  <2>2. sv'.pidfile = PathAfterCreate
    BY <2>1 DEF ConfigInv, Settings
  <2>3. CONFIG_DEFAULT_PID_FILE \in PidPath
    BY DEF PidPath
  <2>4. \A path \in PidPath : pids[path] # "own"
    BY <2>1 DEF PidInv
  <2>5. ~stop /\ pids \in [PidPath -> {"none", "own", "other"}]
    BY <2>1 DEF PidInv, BeforeTimer
  <2>6. CASE pids' = pids
    BY <2>1, <2>4, <2>5, <2>6 DEF PidInv
  <2>7. CASE sv.pidfile # NULL /\ pids' = [pids EXCEPT ![CONFIG_DEFAULT_PID_FILE] = "own"]
    <3>1. sv'.pidfile = CONFIG_DEFAULT_PID_FILE
      BY <2>2, <2>7 DEF PathAfterCreate
    <3>2. /\ pids' \in [PidPath -> {"none", "own", "other"}]
          /\ \A path \in PidPath : path # CONFIG_DEFAULT_PID_FILE => pids'[path] = pids[path]
      BY <2>3, <2>5, <2>7
    <3> QED BY <2>1, <2>4, <2>5, <3>1, <3>2 DEF PidInv
  <2> QED BY <2>1, <2>6, <2>7
<1>7. CASE CronShutdown
  <2>1. /\ pc = "timers" /\ stop' = (stop \/ shutdown) /\ UNCHANGED sv
        /\ pids' = IF shutdown /\ ~LogCrashes({LL_INFO}) THEN PidsAfterUnlink ELSE pids
        /\ pc' = IF LogCrashes(IF shutdown THEN {LL_INFO} ELSE {}) THEN "crashed" ELSE "cron"
    BY <1>7 DEF CronShutdown, LogThen
  <2>2. \A path \in PidPath : pids[path] = "own" => path = CONFIG_DEFAULT_PID_FILE /\ ~stop /\ sv.pidfile = path
    BY <2>1 DEF PidInv
  <2>3. pids \in [PidPath -> {"none", "own", "other"}]
    BY DEF PidInv
  <2>4. CASE shutdown /\ ~LogCrashes({LL_INFO})
    <3>1. pids' = PidsAfterUnlink /\ pc' = "cron"
      BY <2>1, <2>4
    <3>2. /\ pids' \in [PidPath -> {"none", "own", "other"}]
          /\ \A path \in PidPath : pids'[path] = "own" => pids[path] = "own" /\ path # sv.pidfile
      BY <2>3, <3>1 DEF PidsAfterUnlink
    <3> QED BY <2>2, <3>1, <3>2 DEF PidInv, BeforeTimer
  <2>5. CASE shutdown /\ LogCrashes({LL_INFO})
    <3>1. pids' = pids /\ pc' = "crashed"
      BY <2>1, <2>5
    <3> QED BY <2>2, <2>3, <3>1 DEF PidInv, BeforeTimer
  <2>6. CASE ~shutdown
    <3>1. pids' = pids /\ pc' = "cron" /\ (stop' <=> stop)
      BY <2>1, <2>6 DEF LogCrashes
    <3> QED BY <2>1, <2>2, <2>3, <3>1 DEF PidInv, BeforeTimer
  <2> QED BY <2>4, <2>5, <2>6
<1>8. CASE Term
  <2>1. pc = "term" /\ pc' \in {"free", "crashed"} /\ UNCHANGED <<stop, pids>>
    BY <1>8 DEF Term, LogThen, loopVars
  <2> QED BY <2>1 DEF PidInv, BeforeTimer
<1>9. CASE UNCHANGED vars
  BY <1>9, <1>a DEF vars, loopVars
<1> QED BY <1>1, <1>2, <1>3, <1>4, <1>5, <1>6, <1>7, <1>8, <1>9 DEF Next, Over

\* An orderly exit leaves no pid file of this process, whatever path is configured
\* (server.c:83-85, 197-210).
THEOREM PidFileRemoved == Spec => []OwnPidFileRemoved
<1>1. PidInv => OwnPidFileRemoved
  BY DEF PidInv, OwnPidFileRemoved
<1> QED BY <1>1, PidInit, PidStep, ConfigInductive, PTL DEF Spec

\* The types of the settings, the parser, the lists, the loop and the pid files.
THEOREM ServerTypeCorrect == Spec => []ServerTypeOK
<1>1. ConfigInv /\ TimerInv /\ PidInv => ServerTypeOK
  <2> SUFFICES ASSUME ConfigInv, TimerInv, PidInv PROVE ServerTypeOK
    OBVIOUS
  <2>1. /\ sv.verbosity \in LL_DEBUG .. LL_ERROR /\ sv.syslog \in -1 .. 1
        /\ sv.daemonize \in BOOLEAN /\ sv.hz \in Int /\ sv.reconnect_interval \in Int
    BY ConfigAssumption DEF ConfigInv, Settings
  <2>2. ini.section \in Section /\ ini.lineno = Len(file) /\ ini.error \in 0 .. ini.lineno
    BY DEF ConfigInv, Parser
  <2>3. nodes.masters \in Seq(Section) /\ nodes.virtuals \in [Section -> Seq(Path)]
    BY DEF ConfigInv, Nodes
  <2>4. now \in 0 .. MaxNow
    BY TpsAssumption DEF TimerInv
  <2> QED BY <2>1, <2>2, <2>3, <2>4 DEF ServerTypeOK, ConfigInv, TimerInv, PidInv
<1> QED BY <1>1, PidInit, PidStep, TimerInductive, PTL DEF Spec

-----------------------------------------------------------------------------
(***************************************************************************)
(* What the file says                                                      *)
(***************************************************************************)

\* A name told of after all others: it becomes the head, or is in the list already.
LEMMA OneMoreName ==
    ASSUME NEW S, NEW list \in Seq(S), NEW told, LatestFirst(list, told),
           NEW t, t.name \in S, \A u \in told : Sooner(u, t)
    PROVE  LatestFirst(IF t.name \in Range(list) THEN list ELSE <<t.name>> \o list, told \cup {t})
<1>1. /\ Range(list) = {u.name : u \in told}
      /\ \A i, k \in DOMAIN list : i < k =>
            \E u \in told : u.name = list[k] /\ \A v \in told : v.name = list[i] => Sooner(u, v)
  BY DEF LatestFirst
<1>2. CASE t.name \in Range(list)
  <2>1. Range(list) = {u.name : u \in told \cup {t}}
    BY <1>1, <1>2
  <2>2. \A i, k \in DOMAIN list : i < k =>
            \E u \in told \cup {t} : u.name = list[k] /\ \A v \in told \cup {t} : v.name = list[i] => Sooner(u, v)
    BY <1>1
  <2> QED BY <1>2, <2>1, <2>2 DEF LatestFirst
<1>3. CASE t.name \notin Range(list)
  <2> DEFINE n == <<t.name>> \o list
  <2>1. /\ Len(list) \in Nat /\ DOMAIN list = 1 .. Len(list) /\ DOMAIN n = 1 .. Len(list) + 1
        /\ n[1] = t.name /\ \A i \in 1 .. Len(list) : n[i + 1] = list[i]
    OBVIOUS
  <2> HIDE DEF n
  <2>2. ASSUME NEW i \in DOMAIN n, i # 1 PROVE i - 1 \in DOMAIN list /\ n[i] = list[i - 1]
    <3>1. i - 1 \in 1 .. Len(list) /\ (i - 1) + 1 = i
      BY <2>1, <2>2
    <3> QED BY <2>1, <3>1
  <2>3. Range(n) = {t.name} \cup Range(list)
    <3>1. \A i \in DOMAIN list : list[i] \in Range(n)
      <4> TAKE i \in DOMAIN list
      <4>1. i + 1 \in DOMAIN n /\ n[i + 1] = list[i]
        BY <2>1
      <4> QED BY <4>1 DEF Range
    <3>2. t.name \in Range(n)
      BY <2>1 DEF Range
    <3> QED BY <2>1, <2>2, <3>1, <3>2 DEF Range
  <2>4. Range(n) = {u.name : u \in told \cup {t}}
    BY <1>1, <2>3
  <2>5. ASSUME NEW i \in DOMAIN n, NEW k \in DOMAIN n, i < k
        PROVE  \E u \in told \cup {t} : u.name = n[k] /\ \A v \in told \cup {t} : v.name = n[i] => Sooner(u, v)
    <3>1. k # 1 /\ k - 1 \in DOMAIN list /\ n[k] = list[k - 1]
      BY <2>1, <2>2, <2>5
    <3>2. CASE i = 1
      <4>1. n[k] \in Range(list)
        BY <3>1 DEF Range
      <4>2. PICK u \in told : u.name = n[k]
        BY <1>1, <4>1
      <4>3. \A v \in told : v.name # n[i]
        BY <1>1, <1>3, <2>1, <3>2
      <4> QED BY <4>2, <4>3
    <3>3. CASE i # 1
      <4>1. i - 1 \in DOMAIN list /\ n[i] = list[i - 1] /\ i - 1 < k - 1
        BY <2>1, <2>2, <2>5, <3>3
      <4>2. PICK u \in told : u.name = list[k - 1] /\ \A v \in told : v.name = list[i - 1] => Sooner(u, v)
        BY <1>1, <3>1, <4>1
      <4> QED BY <3>1, <4>1, <4>2
    <3> QED BY <3>2, <3>3
  <2>6. LatestFirst(n, told \cup {t})
    BY <2>4, <2>5 DEF LatestFirst
  <2> QED BY <1>3, <2>6 DEF n
<1> QED BY <1>2, <1>3

\* The words ws of line i, as names of virtuals of s, up to word n.
WordsUpTo(i, s, ws, n) ==
    {[line |-> i, word |-> k, name |-> VirtualName[<<s, ws[k]>>]] : k \in 1 .. n}

\* All told of so far is on a line before i.
BeforeLine(told, i) == \A u \in told : u.line < i

\* The loop over the words of a value adds what the value says (config.c:160-177).
LEMMA AddVirtualsMeaning ==
    ASSUME NEW list \in Seq(Path), NoDuplicates(list), NEW s \in Section, NEW ws \in Seq(Word),
           NEW told, LatestFirst(list, told), NEW i \in Nat, BeforeLine(told, i)
    PROVE  LatestFirst(AddVirtuals(list, s, ws), told \cup WordsUpTo(i, s, ws, Len(ws)))
<1>1. PICK after : Loop(after, list, s, ws) /\ AddVirtuals(list, s, ws) = after[Len(ws)]
  BY AddVirtualsLoop
<1> DEFINE Good(k) == /\ after[k] \in Seq(Path) /\ NoDuplicates(after[k])
                      /\ LatestFirst(after[k], told \cup WordsUpTo(i, s, ws, k))
           S == {k \in Nat : k <= Len(ws) => Good(k)}
<1>2. Len(ws) \in Nat
  OBVIOUS
<1>3. 0 \in S
  <2>1. after[0] = list
    BY <1>1, <1>2 DEF Loop
  <2>2. WordsUpTo(i, s, ws, 0) = {}
    BY DEF WordsUpTo
  <2>3. told \cup WordsUpTo(i, s, ws, 0) = told
    BY <2>2
  <2> QED BY <2>1, <2>3
<1>4. ASSUME NEW n \in Nat, n \in S PROVE n + 1 \in S
  <2>1. SUFFICES ASSUME n + 1 <= Len(ws) PROVE Good(n + 1)
    OBVIOUS
  <2>2. Good(n) /\ n + 1 \in 0 .. Len(ws) /\ n + 1 # 0 /\ (n + 1) - 1 = n
    BY <1>2, <1>4, <2>1
  <2> DEFINE p == VirtualName[<<s, ws[n + 1]>>]
             t == [line |-> i, word |-> n + 1, name |-> p]
             before == told \cup WordsUpTo(i, s, ws, n)
  <2>3. p \in Path
    <3>1. ws[n + 1] \in Word
      BY <1>2, <2>1
    <3> QED BY <3>1, NameIsPath
  <2>4. after[n + 1] = GetOrAddVirtual(after[n], p)
    BY <1>1, <2>2 DEF Loop
  <2>5. WordsUpTo(i, s, ws, n + 1) = WordsUpTo(i, s, ws, n) \cup {t}
    <3>1. 1 .. n + 1 = 1 .. n \cup {n + 1}
      OBVIOUS
    <3> QED BY <3>1, Zenon DEF WordsUpTo
  <2>6. \A u \in before : Sooner(u, t)
    <3>1. \A u \in told : Sooner(u, t)
      BY DEF BeforeLine, Sooner
    <3>2. ASSUME NEW k \in 1 .. n PROVE Sooner([line |-> i, word |-> k, name |-> VirtualName[<<s, ws[k]>>]], t)
      BY DEF Sooner
    <3> QED BY <3>1, <3>2, Zenon DEF WordsUpTo
  <2>7. t.name = p
    OBVIOUS
  <2>8. after[n + 1] = IF p \in Range(after[n]) THEN after[n] ELSE <<p>> \o after[n]
    BY <2>4, Zenon DEF GetOrAddVirtual, serialGetVirtualNode, serialAddVirtualNode
  <2>9. told \cup WordsUpTo(i, s, ws, n + 1) = before \cup {t}
    BY <2>5
  <2> HIDE DEF t, p
  <2>10. LatestFirst(after[n + 1], before \cup {t})
    <3> HIDE DEF before
    <3>1. after[n] \in Seq(Path) /\ LatestFirst(after[n], before)
      BY <2>2 DEF before
    <3>2. LatestFirst(IF t.name \in Range(after[n]) THEN after[n] ELSE <<t.name>> \o after[n], before \cup {t})
      BY <2>3, <2>6, <2>7, <3>1, OneMoreName
    <3> QED BY <2>7, <2>8, <3>2
  <2> QED BY <2>2, <2>3, <2>4, <2>9, <2>10, GetOrAddVirtualEffect
<1>5. Nat \subseteq S
  <2> HIDE DEF S
  <2> QED BY <1>3, <1>4, SetInduction
<1>6. Good(Len(ws))
  <2>1. Len(ws) \in S
    BY <1>2, <1>5
  <2> HIDE DEF Good
  <2> QED BY <1>2, <2>1
<1> QED BY <1>1, <1>6

\* r is what a key makes of the lists nd: the device, then its virtuals or its writer.
Handled(nd, s, name, ws, r) ==
    /\ r.masters = IF s \in Range(nd.masters) THEN nd.masters ELSE <<s>> \o nd.masters
    /\ \A k \in Section :
          /\ r.virtuals[k] = IF name = "virtuals" /\ k = s THEN AddVirtuals(nd.virtuals[s], s, ws)
                             ELSE nd.virtuals[k]
          /\ r.writers[k] = IF /\ name = "writer" /\ k = s /\ Len(ws) = 1
                               /\ VirtualName[<<s, ws[1]>>] \in Range(nd.virtuals[s])
                            THEN nd.writers[s] \cup {VirtualName[<<s, ws[1]>>]} ELSE nd.writers[k]

\* One call of the handler (config.c:150-217).
LEMMA SerialHandlerMeaning ==
    ASSUME NEW nd \in Nodes, WellFormed(nd), NEW s \in Section, NEW name, NEW ws \in Seq(Word)
    PROVE  Handled(nd, s, name, ws, _serialConfigHandler(nd, s, name, ws))
<1> SUFFICES ASSUME NEW r, r = _serialConfigHandler(nd, s, name, ws) PROVE Handled(nd, s, name, ws, r)
  OBVIOUS
<1> USE DEF Handled
<1> DEFINE n == GetOrAddNode(nd, s)
           p == VirtualName[<<s, ws[1]>>]
           m == IF s \in Range(nd.masters) THEN nd.masters ELSE <<s>> \o nd.masters
           v == AddVirtuals(nd.virtuals[s], s, ws)
<1>1. n \in Nodes /\ n.virtuals = nd.virtuals /\ n.writers = nd.writers
  BY GetOrAddNodeEffect
<1>2. n.masters = m
  <2>1. nd.masters \in Seq(Section)
    BY DEF Nodes
  <2> QED BY <2>1 DEF GetOrAddNode, serialGetNode, serialAddNode, Nodes
<1>3. /\ name = "virtuals" => r = [n EXCEPT !.virtuals[s] = AddVirtuals(n.virtuals[s], s, ws)]
      /\ name = "writer" => r = FlagWriter(n, s, ws)
      /\ name \notin {"virtuals", "writer"} => r = n
  <2>1. "virtuals" # "writer"
    OBVIOUS
  <2> QED BY <2>1, Zenon DEF _serialConfigHandler
<1>4. nd.virtuals \in [Section -> Seq(Path)] /\ nd.writers \in [Section -> SUBSET Path]
  BY DEF Nodes
<1> HIDE DEF n, p, m
<1>5. CASE name = "virtuals"
  <2>1. r = [n EXCEPT !.virtuals[s] = v]
    BY <1>1, <1>3, <1>5
  <2> HIDE DEF v
  <2>2. r.masters = m /\ r.virtuals = [nd.virtuals EXCEPT ![s] = v] /\ r.writers = nd.writers
    BY <1>1, <1>2, <2>1 DEF Nodes
  <2>3. /\ r.virtuals[s] = v /\ \A k \in Section : k # s => r.virtuals[k] = nd.virtuals[k]
    BY <1>4, <2>2
  <2> QED BY <1>5, <2>2, <2>3 DEF m, v
<1>6. CASE name = "writer"
  <2>1. CASE Len(ws) = 1 /\ p \in Range(nd.virtuals[s])
    <3>1. r = [n EXCEPT !.writers[s] = n.writers[s] \cup {p}]
      BY <1>1, <1>3, <1>6, <2>1 DEF FlagWriter, serialGetVirtualNode, p
    <3>2. r.masters = m /\ r.virtuals = nd.virtuals /\ r.writers = [nd.writers EXCEPT ![s] = nd.writers[s] \cup {p}]
      BY <1>1, <1>2, <3>1 DEF Nodes
    <3>3. r.writers[s] = nd.writers[s] \cup {p} /\ \A k \in Section : k # s => r.writers[k] = nd.writers[k]
      BY <1>4, <3>2
    <3> QED BY <1>6, <2>1, <3>2, <3>3 DEF m, p
  <2>2. CASE ~(Len(ws) = 1 /\ p \in Range(nd.virtuals[s]))
    <3>1. r = n
      BY <1>1, <1>3, <1>6, <2>2 DEF FlagWriter, serialGetVirtualNode, p
    <3> QED BY <1>1, <1>2, <1>6, <2>2, <3>1 DEF m, p
  <2> QED BY <2>1, <2>2
<1>7. CASE name \notin {"virtuals", "writer"}
  <2>1. r = n
    BY <1>3, <1>7
  <2> QED BY <1>1, <1>2, <1>7, <2>1 DEF m
<1> QED BY <1>5, <1>6, <1>7

\* A bound that is in the set is what the community modules choose.
LEMMA MaxIs ==
    ASSUME NEW S, S \subseteq Int, NEW m \in S, \A x \in S : x <= m
    PROVE  Max(S) = m
<1>1. \E x \in S : \A y \in S : x >= y
  OBVIOUS
<1>2. PICK x \in S : x = Max(S) /\ \A y \in S : x >= y
  BY <1>1 DEF Max
<1> QED BY <1>2

LEMMA MinIs ==
    ASSUME NEW S, S \subseteq Int, NEW m \in S, \A x \in S : m <= x
    PROVE  Min(S) = m
<1>1. \E x \in S : \A y \in S : x <= y
  OBVIOUS
<1>2. PICK x \in S : x = Min(S) /\ \A y \in S : x <= y
  BY <1>1 DEF Min
<1> QED BY <1>2

\* The line l was read as line n + 1.
LineRead(l, n) ==
    /\ n \in Nat /\ l \in Line /\ n = Len(file) /\ DOMAIN file = 1 .. n
    /\ Len(file') = n + 1 /\ DOMAIN file' = 1 .. n + 1
    /\ file'[n + 1] = l /\ \A i \in 1 .. n : file'[i] = file[i]
    /\ \A i \in 1 .. n : file[i] \in Line

\* What the history `file' keeps of a line that was read.
LEMMA AppendedLine ==
    ASSUME file \in Seq(Line), NEW l \in Line, file' = Append(file, l)
    PROVE  \E n : LineRead(l, n)
<1>1. PICK n \in Nat : n = Len(file)
  OBVIOUS
<1>2. LineRead(l, n)
  BY <1>1 DEF LineRead
<1> QED BY <1>2

\* A section lasts until the next one.
LEMMA SectionsKept ==
    ASSUME NEW l, NEW n, LineRead(l, n)
    PROVE  /\ \A i \in 0 .. n : SectionOf(i)' = SectionOf(i)
           /\ SectionOf(n + 1)' = IF l.kind = "section" THEN l.key ELSE SectionOf(n)
<1> DEFINE H(i) == {k \in 1 .. i : file[k].kind = "section"}
<1>1. n \in Nat /\ file'[n + 1] = l /\ \A i \in 1 .. n : file'[i] = file[i]
  BY DEF LineRead
<1>2. ASSUME NEW i \in 0 .. n PROVE H(i)' = H(i)
  BY <1>1
<1>3. ASSUME NEW i \in 0 .. n, H(i) # {} PROVE Max(H(i)) \in 1 .. n
  <2>1. H(i) \subseteq Nat /\ H(i) \subseteq 1 .. n /\ \A k \in H(i) : k <= n
    BY <1>1
  <2> HIDE DEF H
  <2>2. {n - k : k \in H(i)} \subseteq Nat /\ {n - k : k \in H(i)} # {}
    BY <1>1, <1>3, <2>1
  <2>3. PICK d \in {n - k : k \in H(i)} : \A c \in {n - k : k \in H(i)} : d <= c
    BY <2>2, LeastNatural
  <2>4. PICK m \in H(i) : d = n - m
    BY <2>3
  <2>5. \A k \in H(i) : k <= m
    <3> TAKE k \in H(i)
    <3>1. d <= n - k
      BY <2>3
    <3> QED BY <1>1, <2>1, <2>4, <3>1
  <2>6. Max(H(i)) = m
    BY <2>1, <2>5, MaxIs
  <2> QED BY <2>1, <2>6
<1>4. ASSUME NEW i \in 0 .. n PROVE SectionOf(i)' = SectionOf(i)
  <2>1. SectionOf(i) = IF H(i) = {} THEN NoName ELSE file[Max(H(i))].key
    BY DEF SectionOf
  <2>2. SectionOf(i)' = IF H(i)' = {} THEN NoName ELSE file'[Max(H(i)')].key
    BY DEF SectionOf
  <2>3. H(i)' = H(i) /\ (H(i) # {} => Max(H(i)) \in 1 .. n)
    BY <1>2, <1>3
  <2>4. H(i) # {} => file'[Max(H(i))] = file[Max(H(i))]
    BY <1>1, <2>3
  <2> HIDE DEF H
  <2> QED BY <2>1, <2>2, <2>3, <2>4
<1>5. SectionOf(n + 1)' = IF H(n + 1)' = {} THEN NoName ELSE file'[Max(H(n + 1)')].key
  BY DEF SectionOf
<1>6. CASE l.kind = "section"
  <2>1. H(n + 1)' \subseteq Int /\ n + 1 \in H(n + 1)' /\ \A k \in H(n + 1)' : k <= n + 1
    BY <1>1, <1>6
  <2>2. Max(H(n + 1)') = n + 1
    <3> HIDE DEF H
    <3> QED BY <2>1, MaxIs
  <2> QED BY <1>1, <1>4, <1>5, <1>6, <2>1, <2>2
<1>7. CASE l.kind # "section"
  <2>1. H(n + 1)' = H(n)
    BY <1>1, <1>7
  <2>2. n \in 0 .. n /\ SectionOf(n) = IF H(n) = {} THEN NoName ELSE file[Max(H(n))].key
    BY <1>1 DEF SectionOf
  <2>3. H(n) # {} => file'[Max(H(n))] = file[Max(H(n))]
    BY <1>1, <1>3, <2>2
  <2> QED BY <1>4, <1>5, <1>7, <2>1, <2>2, <2>3
<1> QED BY <1>4, <1>6, <1>7

\* A line does not change what the lines before it say.
LEMMA PairsKept ==
    ASSUME NEW l, NEW n, LineRead(l, n)
    PROVE  /\ n \in Nat /\ Pairs \subseteq 1 .. n
           /\ Pairs' = IF l.kind = "pair" THEN Pairs \cup {n + 1} ELSE Pairs
           /\ l.kind = "pair" => SectionOf(n + 1)' = SectionOf(n)
           /\ \A i \in 1 .. n : \A s, key : Says(i, s, key)' <=> Says(i, s, key)
           /\ \A s, key : Says(n + 1, s, key)' <=> l.kind = "pair" /\ l.key = key /\ SectionOf(n) = s
<1>1. /\ n \in Nat /\ DOMAIN file = 1 .. n /\ DOMAIN file' = 1 .. n + 1
      /\ file'[n + 1] = l /\ \A i \in 1 .. n : file'[i] = file[i]
  BY DEF LineRead
<1>2. /\ \A i \in 0 .. n : SectionOf(i)' = SectionOf(i)
      /\ SectionOf(n + 1)' = IF l.kind = "section" THEN l.key ELSE SectionOf(n)
  BY SectionsKept
<1>3. Pairs \subseteq 1 .. n
  BY <1>1 DEF Pairs
<1>4. Pairs' = IF l.kind = "pair" THEN Pairs \cup {n + 1} ELSE Pairs
  <2>1. \A i \in 1 .. n + 1 : i \in 1 .. n \/ i = n + 1
    BY <1>1
  <2>2. \A i \in 1 .. n : i \in 1 .. n + 1 /\ i # n + 1
    BY <1>1
  <2>3. n + 1 \in 1 .. n + 1
    BY <1>1
  <2> QED BY <1>1, <2>1, <2>2, <2>3 DEF Pairs
<1>5. l.kind = "pair" => SectionOf(n + 1)' = SectionOf(n)
  BY <1>2
<1>6. ASSUME NEW i \in 1 .. n, NEW s, NEW key PROVE Says(i, s, key)' <=> Says(i, s, key)
  <2>1. i \in 0 .. n /\ i # n + 1
    BY <1>1
  <2>2. i \in Pairs' <=> i \in Pairs
    BY <1>4, <2>1
  <2>3. SectionOf(i)' = SectionOf(i) /\ file'[i] = file[i]
    BY <1>1, <1>2, <2>1
  <2> QED BY <2>2, <2>3 DEF Says
<1>7. ASSUME NEW s, NEW key
      PROVE  Says(n + 1, s, key)' <=> l.kind = "pair" /\ l.key = key /\ SectionOf(n) = s
  <2>1. n + 1 \notin Pairs
    BY <1>1, <1>3
  <2> QED BY <1>1, <1>4, <1>5, <2>1 DEF Says
<1> QED BY <1>1, <1>3, <1>4, <1>5, <1>6, <1>7

\* A line with a key tells of its section's device, after all others.
LEMMA DevicesTold ==
    ASSUME NEW l, NEW n, LineRead(l, n)
    PROVE  /\ Devices' = IF l.kind = "pair"
                         THEN Devices \cup {[line |-> n + 1, word |-> 0, name |-> SectionOf(n)]} ELSE Devices
           /\ BeforeLine(Devices, n + 1)
<1>1. /\ n \in Nat /\ Pairs \subseteq 1 .. n
      /\ Pairs' = IF l.kind = "pair" THEN Pairs \cup {n + 1} ELSE Pairs
      /\ l.kind = "pair" => SectionOf(n + 1)' = SectionOf(n)
  BY PairsKept
<1> DEFINE D(i, s) == [line |-> i, word |-> 0, name |-> s]
<1>2. \A i \in Pairs : SectionOf(i)' = SectionOf(i)
  <2>1. \A i \in 1 .. n : i \in 0 .. n
    BY <1>1
  <2> QED BY <1>1, <2>1, SectionsKept
<1>3. Devices = {D(i, SectionOf(i)) : i \in Pairs}
  BY DEF Devices
<1>4. Devices' = {D(i, SectionOf(i)') : i \in Pairs'}
  BY DEF Devices
<1>5. BeforeLine(Devices, n + 1)
  <2>1. \A i \in Pairs : i < n + 1
    BY <1>1
  <2>2. \A i \in Pairs : D(i, SectionOf(i)).line < n + 1
    BY <2>1
  <2> QED BY <1>3, <2>2 DEF BeforeLine
<1> HIDE DEF D
<1>6. Devices' = IF l.kind = "pair" THEN Devices \cup {D(n + 1, SectionOf(n))} ELSE Devices
  BY <1>1, <1>2, <1>3, <1>4
<1> QED BY <1>5, <1>6 DEF D

\* A virtuals line tells of its words, after all others.
LEMMA VirtualsTold ==
    ASSUME NEW l, NEW n, LineRead(l, n), NEW s, NEW ws, ws = BeforeComment(l.words), ws \in Seq(Word)
    PROVE  /\ Virtuals(s)' = IF l.kind = "pair" /\ l.key = "virtuals" /\ SectionOf(n) = s
                             THEN Virtuals(s) \cup WordsUpTo(n + 1, s, ws, Len(ws)) ELSE Virtuals(s)
           /\ BeforeLine(Virtuals(s), n + 1)
<1>1. /\ n \in Nat /\ Pairs \subseteq 1 .. n
      /\ Pairs' = IF l.kind = "pair" THEN Pairs \cup {n + 1} ELSE Pairs
      /\ \A i \in 1 .. n : Says(i, s, "virtuals")' <=> Says(i, s, "virtuals")
      /\ Says(n + 1, s, "virtuals")' <=> l.kind = "pair" /\ l.key = "virtuals" /\ SectionOf(n) = s
  BY PairsKept
<1> DEFINE L == {i \in Pairs : Says(i, s, "virtuals")}
           new == l.kind = "pair" /\ l.key = "virtuals" /\ SectionOf(n) = s
<1>2. ASSUME NEW i \in 1 .. n PROVE VirtualsOn(i, s)' = VirtualsOn(i, s)
  <2>1. file'[i] = file[i]
    BY DEF LineRead
  <2>2. Value(i)' = Value(i)
    BY <2>1 DEF Value
  <2> QED BY <2>2 DEF VirtualsOn
<1>3. VirtualsOn(n + 1, s)' = WordsUpTo(n + 1, s, ws, Len(ws))
  <2>1. Value(n + 1)' = ws
    BY DEF Value, LineRead
  <2>2. DOMAIN ws = 1 .. Len(ws)
    OBVIOUS
  <2> QED BY <2>1, <2>2, Zenon DEF VirtualsOn, WordsUpTo
<1>4. L \subseteq 1 .. n /\ L' = IF new THEN L \cup {n + 1} ELSE L
  <2>1. CASE l.kind = "pair"
    BY <1>1, <2>1
  <2>2. CASE l.kind # "pair"
    BY <1>1, <2>2
  <2> QED BY <1>1, <2>1, <2>2
<1>5. Virtuals(s) = UNION {VirtualsOn(i, s) : i \in L} /\ Virtuals(s)' = UNION {VirtualsOn(i, s)' : i \in L'}
  BY DEF Virtuals
<1> DEFINE On(i) == VirtualsOn(i, s)
           More == WordsUpTo(n + 1, s, ws, Len(ws))
<1>6. \A u : u \in Virtuals(s) <=> \E i \in L : u \in On(i)
  BY <1>5
<1>7. \A u : u \in Virtuals(s)' <=> \E i \in L' : u \in On(i)'
  BY <1>5
<1>8. BeforeLine(Virtuals(s), n + 1)
  <2>1. ASSUME NEW i \in 1 .. n, NEW u \in On(i) PROVE u.line < n + 1
    <3>1. PICK k \in DOMAIN Value(i) : u = [line |-> i, word |-> k, name |-> VirtualName[<<s, Value(i)[k]>>]]
      BY DEF VirtualsOn
    <3>2. u.line = i
      BY <3>1
    <3> QED BY <1>1, <3>2
  <2> HIDE DEF L, On
  <2> QED BY <1>4, <1>6, <2>1 DEF BeforeLine
<1>9. \A i \in L : On(i)' = On(i)
  BY <1>2, <1>4
<1>10. On(n + 1)' = More
  BY <1>3
<1> HIDE DEF L, On, More
<1>11. CASE new
  <2>1. L' = L \cup {n + 1}
    BY <1>4, <1>11
  <2>2. \A u : u \in Virtuals(s)' <=> u \in Virtuals(s) \/ u \in More
    BY <1>6, <1>7, <1>9, <1>10, <2>1
  <2>3. Virtuals(s)' = Virtuals(s) \cup More
    BY <2>2
  <2> QED BY <1>8, <1>11, <2>3 DEF More
<1>12. CASE ~new
  <2>1. L' = L
    BY <1>4, <1>12
  <2>2. \A u : u \in Virtuals(s)' <=> u \in Virtuals(s)
    BY <1>6, <1>7, <1>9, <2>1
  <2>3. Virtuals(s)' = Virtuals(s)
    BY <2>2
  <2> QED BY <1>8, <1>12, <2>3
<1> QED BY <1>11, <1>12

\* A line changes no value before it.
LEMMA ValuesKept ==
    ASSUME NEW l, NEW n, LineRead(l, n)
    PROVE  (\A i \in 1 .. n : Value(i)' = Value(i)) /\ Value(n + 1)' = BeforeComment(l.words)
BY DEF Value, LineRead

\* A line adds at most one writer: a virtual that lines before it told of.
LEMMA FlaggedTold ==
    ASSUME NEW l, NEW n, LineRead(l, n), NEW s \in Section,
           NEW ws, ws = BeforeComment(l.words), ws \in Seq(Word)
    PROVE  LET p == VirtualName[<<s, ws[1]>>]
           IN  Flagged(s)' = IF /\ l.kind = "pair" /\ l.key = "writer" /\ SectionOf(n) = s
                                /\ Len(ws) = 1 /\ p \in {t.name : t \in Virtuals(s)}
                             THEN Flagged(s) \cup {p} ELSE Flagged(s)
<1> DEFINE p == VirtualName[<<s, ws[1]>>]
           Told(i, w) == \E t \in Virtuals(s) : t.line < i /\ t.name = w
           F(i, w) == /\ Says(i, s, "writer") /\ Len(Value(i)) = 1 /\ w = VirtualName[<<s, Value(i)[1]>>]
                      /\ Told(i, w)
           new == /\ l.kind = "pair" /\ l.key = "writer" /\ SectionOf(n) = s
                  /\ Len(ws) = 1 /\ p \in {t.name : t \in Virtuals(s)}
<1>1. /\ n \in Nat /\ Pairs \subseteq 1 .. n
      /\ Pairs' = IF l.kind = "pair" THEN Pairs \cup {n + 1} ELSE Pairs
      /\ \A i \in 1 .. n : Says(i, s, "writer")' <=> Says(i, s, "writer")
      /\ Says(n + 1, s, "writer")' <=> l.kind = "pair" /\ l.key = "writer" /\ SectionOf(n) = s
  BY PairsKept
<1>2. (\A i \in 1 .. n : Value(i)' = Value(i)) /\ Value(n + 1)' = ws
  BY ValuesKept
<1>3. /\ Virtuals(s)' = IF l.kind = "pair" /\ l.key = "virtuals" /\ SectionOf(n) = s
                        THEN Virtuals(s) \cup WordsUpTo(n + 1, s, ws, Len(ws)) ELSE Virtuals(s)
      /\ BeforeLine(Virtuals(s), n + 1)
  BY VirtualsTold
<1>4. \A t \in WordsUpTo(n + 1, s, ws, Len(ws)) : t.line = n + 1
  <2>1. \A k \in 1 .. Len(ws) : [line |-> n + 1, word |-> k, name |-> VirtualName[<<s, ws[k]>>]].line = n + 1
    OBVIOUS
  <2> QED BY <2>1, Zenon DEF WordsUpTo
<1>5. ASSUME NEW i \in 1 .. n, NEW w PROVE Told(i, w)' <=> Told(i, w)
  <2>1. i \in Nat /\ i <= n /\ ~(n + 1 < i)
    BY <1>1
  <2>2. \A t \in WordsUpTo(n + 1, s, ws, Len(ws)) : ~(t.line < i)
    BY <1>4, <2>1
  <2> QED BY <1>3, <2>2
<1>6. ASSUME NEW i \in 1 .. n, NEW w PROVE F(i, w)' <=> F(i, w)
  <2>1. /\ Says(i, s, "writer")' <=> Says(i, s, "writer")
        /\ Value(i)' = Value(i) /\ (Told(i, w)' <=> Told(i, w))
    BY <1>1, <1>2, <1>5
  <2> HIDE DEF Told
  <2> QED BY <2>1
<1>7. ASSUME NEW w PROVE F(n + 1, w)' <=> new /\ w = p
  <2>1. CASE l.kind = "pair" /\ l.key = "writer" /\ SectionOf(n) = s
    <3>1. Virtuals(s)' = Virtuals(s)
      BY <1>3, <2>1
    <3>2. Told(n + 1, w)' <=> w \in {t.name : t \in Virtuals(s)}
      <4>1. \A t \in Virtuals(s) : t.line < n + 1
        BY <1>3 DEF BeforeLine
      <4> QED BY <3>1, <4>1
    <3> HIDE DEF Told
    <3> QED BY <1>1, <1>2, <2>1, <3>2
  <2>2. CASE ~(l.kind = "pair" /\ l.key = "writer" /\ SectionOf(n) = s)
    BY <1>1, <2>2
  <2> QED BY <2>1, <2>2
<1>8. \A w : w \in Flagged(s) <=> \E i \in Pairs : F(i, w)
  BY DEF Flagged, Counts
<1>9. \A w : w \in Flagged(s)' <=> \E i \in Pairs' : F(i, w)'
  BY DEF Flagged, Counts
<1>10. new => l.kind = "pair"
  OBVIOUS
<1> HIDE DEF F, p, new
<1>11. \A w : w \in Flagged(s)' <=> w \in Flagged(s) \/ (new /\ w = p)
  BY <1>1, <1>6, <1>7, <1>8, <1>9, <1>10
<1>12. Flagged(s)' = IF new THEN Flagged(s) \cup {p} ELSE Flagged(s)
  BY <1>11
<1> QED BY <1>12 DEF new, p

\* A line in error comes after the others.
LEMMA WrongLinesKept ==
    ASSUME NEW l, NEW n, LineRead(l, n)
    PROVE  /\ WrongLines \subseteq 1 .. n
           /\ WrongLines' = IF l.kind \in {"unclosed", "junk"} \/ (l.kind = "pair" /\ ~SerialKnows(l.key))
                            THEN WrongLines \cup {n + 1} ELSE WrongLines
<1>1. /\ n \in Nat /\ DOMAIN file = 1 .. n /\ DOMAIN file' = 1 .. n + 1
      /\ file'[n + 1] = l /\ \A i \in 1 .. n : file'[i] = file[i]
  BY DEF LineRead
<1>2. Pairs \subseteq 1 .. n /\ Pairs' = IF l.kind = "pair" THEN Pairs \cup {n + 1} ELSE Pairs
  BY PairsKept
<1> DEFINE W(i) == file[i].kind \in {"unclosed", "junk"} \/ (i \in Pairs /\ ~SerialKnows(file[i].key))
           wrong == l.kind \in {"unclosed", "junk"} \/ (l.kind = "pair" /\ ~SerialKnows(l.key))
<1>3. \A i \in 1 .. n : i # n + 1
  BY <1>1
<1>4. \A i \in 1 .. n : W(i)' <=> W(i)
  BY <1>1, <1>2, <1>3
<1>5. W(n + 1)' <=> wrong
  <2>1. n + 1 \notin Pairs
    BY <1>2, <1>3
  <2> QED BY <1>1, <1>2, <2>1
<1>6. WrongLines = {i \in 1 .. n : W(i)} /\ WrongLines' = {i \in 1 .. n + 1 : W(i)'}
  BY <1>1 DEF WrongLines
<1>7. \A i : i \in 1 .. n + 1 <=> i \in 1 .. n \/ i = n + 1
  BY <1>1
<1> HIDE DEF W, wrong
<1>8. \A i : i \in WrongLines' <=> i \in WrongLines \/ (wrong /\ i = n + 1)
  BY <1>4, <1>5, <1>6, <1>7
<1>9. WrongLines' = IF wrong THEN WrongLines \cup {n + 1} ELSE WrongLines
  BY <1>8
<1> QED BY <1>6, <1>9 DEF wrong

FirstOf(S) == IF S = {} THEN 0 ELSE Min(S)

\* The first error is the first line in error (ini.c:165-171).
LEMMA ErrorTold ==
    ASSUME NEW S, NEW n \in Nat, S \subseteq 1 .. n, NEW p \in Parser, p.error = FirstOf(S), p.lineno = n
    PROVE  ErrorAfter(p, TRUE) = FirstOf(S) /\ ErrorAfter(p, FALSE) = FirstOf(S \cup {n + 1})
<1> DEFINE T == S \cup {n + 1}
<1>1. T \subseteq Int /\ n + 1 \in T /\ T # {} /\ S \subseteq Int /\ S \subseteq Nat
  OBVIOUS
<1>2. CASE S = {}
  <2>1. Min(T) = n + 1
    <3>1. \A x \in T : n + 1 <= x
      BY <1>2
    <3> HIDE DEF T
    <3> QED BY <1>1, <3>1, MinIs
  <2> HIDE DEF T
  <2>2. FirstOf(S) = 0 /\ FirstOf(T) = n + 1
    BY <1>1, <1>2, <2>1 DEF FirstOf
  <2> QED BY <2>2 DEF ErrorAfter, T
<1>3. CASE S # {}
  <2>1. PICK m \in S : \A x \in S : m <= x
    BY <1>1, <1>3, LeastNatural
  <2>2. m \in 1 .. n /\ m \in T /\ \A x \in T : m <= x
    BY <2>1
  <2> HIDE DEF T
  <2>3. Min(S) = m /\ Min(T) = m
    BY <1>1, <2>1, <2>2, MinIs
  <2>4. FirstOf(S) = m /\ FirstOf(T) = m /\ m # 0
    BY <1>1, <1>3, <2>2, <2>3 DEF FirstOf
  <2> QED BY <2>4 DEF ErrorAfter, T
<1> QED BY <1>2, <1>3

Unindented == \A i \in DOMAIN file : ~file[i].indent

\* The meaning of the lines read so far, and what it takes to go on with the next one:
\* the parser is in the section that the last line is in.
Meaning ==
    /\ ini.section = SectionOf(Len(file))
    /\ LatestFirst(nodes.masters, Devices)
    /\ \A s \in Section : LatestFirst(nodes.virtuals[s], Virtuals(s)) /\ nodes.writers[s] = Flagged(s)
    /\ ini.error = FirstOf(WrongLines)

\* Nothing is read before its file is opened.
MeaningInv ==
    /\ pc \in {"options", "daemonize", "init"} => ini = NewParser /\ file = <<>>
    /\ pc \in {"options", "sproxy.ini", "daemonize", "init"} => nodes = NoNodes
    /\ pc = "serial.ini" /\ Unindented => Meaning

\* An empty file and the lists of a new process agree.
LEMMA NothingSaid ==
    ASSUME file = <<>>, ini = NewParser, nodes = NoNodes
    PROVE  Meaning
<1>1. Pairs = {} /\ WrongLines = {}
  BY DEF Pairs, WrongLines
<1>2. Devices = {}
  BY <1>1 DEF Devices
<1>3. ASSUME NEW s PROVE Virtuals(s) = {} /\ Flagged(s) = {}
  <2>1. {k \in Pairs : Says(k, s, "virtuals")} = {}
    BY <1>1
  <2>2. {k \in Pairs : Counts(k, s)} = {}
    BY <1>1
  <2> QED BY <2>1, <2>2 DEF Virtuals, Flagged
<1>4. Range(<<>>) = {} /\ DOMAIN <<>> = {} /\ Len(<<>>) = 0
  BY DEF Range
<1>5. LatestFirst(<<>>, {})
  BY <1>4 DEF LatestFirst
<1>6. SectionOf(Len(file)) = NoName
  <2>1. {k \in 1 .. 0 : file[k].kind = "section"} = {}
    OBVIOUS
  <2> QED BY <1>4, <2>1 DEF SectionOf
<1>7. /\ nodes.masters = <<>> /\ \A s \in Section : nodes.virtuals[s] = <<>> /\ nodes.writers[s] = {}
  BY DEF NoNodes
<1>8. ini.section = NoName /\ ini.error = 0
  BY DEF NewParser
<1>9. FirstOf(WrongLines) = 0
  BY <1>1 DEF FirstOf
<1> QED BY <1>2, <1>3, <1>5, <1>6, <1>7, <1>8, <1>9 DEF Meaning

\* One more line.
LEMMA MeaningGoesOn ==
    ASSUME ConfigInv, Unindented, Meaning, NEW l \in SerialLines, ReadSerialLine(l), ~l.indent
    PROVE  Meaning'
<1>1. l \in Line /\ ini \in Parser /\ file \in Seq(Line) /\ nodes \in Nodes /\ WellFormed(nodes) /\ ini.lineno = Len(file)
  BY ServerAssumption DEF ConfigInv
<1>2. /\ file' = Append(file, l)
      /\ nodes' = IF Calls(ini, l)
                  THEN _serialConfigHandler(nodes, ini.section, CallName(ini, l), CallValue(ini, l))
                  ELSE nodes
      /\ ini' = ParseLine(ini, l, SerialKnows(CallName(ini, l)))
  BY Zenon DEF ReadSerialLine
<1>3. PICK n : LineRead(l, n)
  BY <1>1, <1>2, AppendedLine
<1>4. PICK ws \in Seq(Word) : ws = BeforeComment(l.words)
  BY <1>1, BeforeCommentType DEF Line
<1>5. PICK s \in Section : s = ini.section
  BY <1>1 DEF Parser
<1>6. /\ n \in Nat /\ n = Len(file) /\ Len(file') = n + 1 /\ s = SectionOf(n)
      /\ n \in 0 .. n
  BY <1>3, <1>5 DEF LineRead, Meaning
<1>7. /\ ~Continues(ini, l) /\ (Calls(ini, l) <=> l.kind = "pair")
      /\ CallName(ini, l) = l.key /\ CallValue(ini, l) = ws
  BY <1>4 DEF Continues, Calls, CallName, CallValue
<1>8. ini'.section = SectionOf(n + 1)'
  <2>1. ini'.section = SectionAfter(ini, l)
    BY <1>2 DEF ParseLine
  <2>2. SectionOf(n + 1)' = IF l.kind = "section" THEN l.key ELSE SectionOf(n)
    BY <1>3, SectionsKept
  <2> QED BY <1>5, <1>6, <1>7, <2>1, <2>2 DEF SectionAfter
<1>9. ini'.error = FirstOf(WrongLines')
  <2> DEFINE good == IF l.kind = "pair" THEN SerialKnows(l.key) ELSE l.kind \notin {"unclosed", "junk"}
  <2>1. ini'.error = ErrorAfter(ini, good)
    BY <1>2, <1>7, Zenon DEF ParseLine
  <2>2. WrongLines \subseteq 1 .. n /\ WrongLines' = IF good THEN WrongLines ELSE WrongLines \cup {n + 1}
    BY <1>3, WrongLinesKept
  <2> HIDE DEF good
  <2>3. ini.error = FirstOf(WrongLines) /\ ini.lineno = n
    BY <1>1, <1>6 DEF Meaning
  <2>4. ErrorAfter(ini, good) = FirstOf(IF good THEN WrongLines ELSE WrongLines \cup {n + 1})
    <3>1. PICK S : S = WrongLines
      OBVIOUS
    <3>2. PICK p \in Parser : p = ini
      BY <1>1
    <3>3. S \subseteq 1 .. n /\ p.error = FirstOf(S) /\ p.lineno = n /\ n \in Nat
      BY <1>6, <2>2, <2>3, <3>1, <3>2
    <3>4. ErrorAfter(p, TRUE) = FirstOf(S) /\ ErrorAfter(p, FALSE) = FirstOf(S \cup {n + 1})
      BY <3>3, ErrorTold
    <3>5. CASE good
      BY <3>1, <3>2, <3>4, <3>5 DEF ErrorAfter
    <3>6. CASE ~good
      BY <3>1, <3>2, <3>4, <3>6 DEF ErrorAfter
    <3> QED BY <3>5, <3>6
  <2> QED BY <2>1, <2>2, <2>4
<1>10. /\ Devices' = IF l.kind = "pair"
                     THEN Devices \cup {[line |-> n + 1, word |-> 0, name |-> s]} ELSE Devices
       /\ BeforeLine(Devices, n + 1)
  BY <1>3, <1>6, DevicesTold
<1>11. ASSUME NEW k \in Section
       PROVE  /\ Virtuals(k)' = IF l.kind = "pair" /\ l.key = "virtuals" /\ s = k
                                THEN Virtuals(k) \cup WordsUpTo(n + 1, k, ws, Len(ws)) ELSE Virtuals(k)
              /\ BeforeLine(Virtuals(k), n + 1)
  BY <1>3, <1>4, <1>6, VirtualsTold
<1>12. ASSUME NEW k \in Section
       PROVE  Flagged(k)' = IF /\ l.kind = "pair" /\ l.key = "writer" /\ s = k /\ Len(ws) = 1
                               /\ VirtualName[<<k, ws[1]>>] \in {t.name : t \in Virtuals(k)}
                            THEN Flagged(k) \cup {VirtualName[<<k, ws[1]>>]} ELSE Flagged(k)
  BY <1>3, <1>4, <1>6, FlaggedTold
<1>13. /\ LatestFirst(nodes.masters, Devices)
       /\ \A k \in Section : LatestFirst(nodes.virtuals[k], Virtuals(k)) /\ nodes.writers[k] = Flagged(k)
  BY DEF Meaning
<1>14. CASE l.kind = "pair"
  <2>1. nodes' = _serialConfigHandler(nodes, s, l.key, ws)
    BY <1>2, <1>5, <1>7, <1>14
  <2>2. /\ nodes'.masters = IF s \in Range(nodes.masters) THEN nodes.masters ELSE <<s>> \o nodes.masters
        /\ \A k \in Section :
              /\ nodes'.virtuals[k] = IF l.key = "virtuals" /\ k = s THEN AddVirtuals(nodes.virtuals[s], s, ws)
                                      ELSE nodes.virtuals[k]
              /\ nodes'.writers[k] = IF /\ l.key = "writer" /\ k = s /\ Len(ws) = 1
                                        /\ VirtualName[<<s, ws[1]>>] \in Range(nodes.virtuals[s])
                                     THEN nodes.writers[s] \cup {VirtualName[<<s, ws[1]>>]} ELSE nodes.writers[k]
    <3>1. Handled(nodes, s, l.key, ws, _serialConfigHandler(nodes, s, l.key, ws))
      BY <1>1, SerialHandlerMeaning
    <3>2. Handled(nodes, s, l.key, ws, nodes')
      BY <2>1, <3>1
    <3> QED BY <3>2 DEF Handled
  <2>3. LatestFirst(nodes'.masters, Devices')
    <3> DEFINE t == [line |-> n + 1, word |-> 0, name |-> s]
    <3>1. t.name = s /\ t.line = n + 1
      OBVIOUS
    <3>2. Devices' = Devices \cup {t}
      BY <1>10, <1>14
    <3> HIDE DEF t
    <3>3. \A u \in Devices : Sooner(u, t)
      BY <1>10, <3>1 DEF BeforeLine, Sooner
    <3>4. nodes.masters \in Seq(Section)
      BY <1>1 DEF Nodes
    <3>5. LatestFirst(IF t.name \in Range(nodes.masters) THEN nodes.masters ELSE <<t.name>> \o nodes.masters,
                      Devices \cup {t})
      BY <1>13, <3>1, <3>3, <3>4, OneMoreName
    <3> QED BY <2>2, <3>1, <3>2, <3>5
  <2>4. ASSUME NEW k \in Section PROVE LatestFirst(nodes'.virtuals[k], Virtuals(k)')
    <3>1. CASE l.key = "virtuals" /\ k = s
      <4>1. nodes.virtuals[s] \in Seq(Path) /\ NoDuplicates(nodes.virtuals[s]) /\ LatestFirst(nodes.virtuals[s], Virtuals(s))
        BY <1>1, <1>13 DEF Nodes, WellFormed
      <4>2. n + 1 \in Nat /\ BeforeLine(Virtuals(s), n + 1)
        BY <1>6, <1>11
      <4>3. LatestFirst(AddVirtuals(nodes.virtuals[s], s, ws), Virtuals(s) \cup WordsUpTo(n + 1, s, ws, Len(ws)))
        BY <4>1, <4>2, AddVirtualsMeaning
      <4>4. /\ Virtuals(k)' = Virtuals(s) \cup WordsUpTo(n + 1, s, ws, Len(ws))
            /\ nodes'.virtuals[k] = AddVirtuals(nodes.virtuals[s], s, ws)
        BY <1>11, <1>14, <2>2, <3>1
      <4> QED BY <4>3, <4>4
    <3>2. CASE ~(l.key = "virtuals" /\ k = s)
      <4>1. Virtuals(k)' = Virtuals(k) /\ nodes'.virtuals[k] = nodes.virtuals[k]
        BY <1>11, <2>2, <3>2
      <4> QED BY <1>13, <4>1
    <3> QED BY <3>1, <3>2
  <2>5. ASSUME NEW k \in Section PROVE nodes'.writers[k] = Flagged(k)'
    <3>1. Range(nodes.virtuals[k]) = {t.name : t \in Virtuals(k)} /\ nodes.writers[k] = Flagged(k)
      BY <1>13 DEF LatestFirst
    <3>2. CASE k = s
      BY <1>12, <1>14, <2>2, <3>1, <3>2
    <3>3. CASE k # s
      BY <1>12, <2>2, <3>1, <3>3
    <3> QED BY <3>2, <3>3
  <2> QED BY <1>6, <1>8, <1>9, <2>3, <2>4, <2>5 DEF Meaning
<1>15. CASE l.kind # "pair"
  <2>1. nodes' = nodes /\ Devices' = Devices
    BY <1>2, <1>7, <1>10, <1>15
  <2>2. \A k \in Section : Virtuals(k)' = Virtuals(k) /\ Flagged(k)' = Flagged(k)
    BY <1>11, <1>12, <1>15
  <2> QED BY <1>6, <1>8, <1>9, <1>13, <2>1, <2>2 DEF Meaning
<1> QED BY <1>14, <1>15

\* The process starts with nothing read.
LEMMA MeaningInit == Init => MeaningInv
<1> SUFFICES ASSUME Init PROVE MeaningInv
  OBVIOUS
<1>1. pc = "options" /\ ini = NewParser /\ file = <<>> /\ nodes = NoNodes
  BY Zenon DEF Init
<1> QED BY <1>1 DEF MeaningInv

\* Every step keeps the meaning: only ReadSerialLine moves it.
LEMMA MeaningStep == ConfigInv /\ MeaningInv /\ [Next]_vars => MeaningInv'
<1> SUFFICES ASSUME ConfigInv, MeaningInv, [Next]_vars PROVE MeaningInv'
  OBVIOUS
<1>a. ASSUME UNCHANGED <<ini, file, nodes>> PROVE (Meaning' <=> Meaning) /\ (Unindented' <=> Unindented)
  BY <1>a DEF Meaning, Unindented, SectionOf, Devices, Virtuals, VirtualsOn, Value, Says, Pairs, Counts, Flagged, WrongLines
<1>b. ASSUME pc' \notin {"options", "sproxy.ini", "daemonize", "init", "serial.ini"} PROVE MeaningInv'
  BY <1>b DEF MeaningInv
<1>c. ASSUME UNCHANGED <<ini, file, nodes, pc>> PROVE MeaningInv'
  BY <1>a, <1>c DEF MeaningInv
<1>1. CASE Options
  <2>1. pc = "options" /\ UNCHANGED <<ini, file, nodes>> /\ pc' \in {"sproxy.ini", "daemonize", "quit"}
    BY <1>1 DEF Options, parseVars
  <2> QED BY <2>1 DEF MeaningInv
<1>2. ASSUME NEW l \in ServerLines, ReadServerLine(l) PROVE MeaningInv'
  <2>1. pc = "sproxy.ini" /\ UNCHANGED <<pc, nodes>>
    BY <1>2 DEF ReadServerLine
  <2> QED BY <2>1 DEF MeaningInv
<1>3. CASE ServerFileRead
  <2>1. pc = "sproxy.ini" /\ pc' = "daemonize" /\ ini' = NewParser /\ file' = <<>> /\ nodes' = nodes
    BY <1>3 DEF ServerFileRead
  <2> QED BY <2>1 DEF MeaningInv
<1>4. CASE StayForeground \/ Daemonize
  <2>1. pc = "daemonize" /\ pc' = "init" /\ UNCHANGED <<ini, file, nodes>>
    BY <1>4 DEF StayForeground, Daemonize, parseVars
  <2> QED BY <2>1 DEF MeaningInv
<1>5. CASE serverInit
  <2>1. pc = "init" /\ pc' = "serial.ini" /\ UNCHANGED <<ini, file, nodes>>
    BY <1>5 DEF serverInit, parseVars
  <2>2. Meaning
    BY <2>1, NothingSaid DEF MeaningInv
  <2> QED BY <1>a, <2>1, <2>2 DEF MeaningInv
<1>6. ASSUME NEW l \in SerialLines, ReadSerialLine(l) PROVE MeaningInv'
  <2>1. pc = "serial.ini" /\ pc' = pc /\ file' = Append(file, l)
    BY <1>6 DEF ReadSerialLine
  <2>2. ASSUME Unindented' PROVE Unindented /\ ~l.indent
    <3>1. file \in Seq(Line) /\ l \in Line
      BY ServerAssumption DEF ConfigInv
    <3>2. PICK n : LineRead(l, n)
      BY <2>1, <3>1, AppendedLine
    <3>3. n + 1 \in 1 .. n + 1 /\ \A i \in 1 .. n : i \in 1 .. n + 1
      BY <3>2 DEF LineRead
    <3> QED BY <2>2, <3>2, <3>3 DEF Unindented, LineRead
  <2>3. Unindented' => Meaning'
    BY <1>6, <2>1, <2>2, MeaningGoesOn DEF MeaningInv
  <2> QED BY <2>1, <2>3 DEF MeaningInv
<1>7. CASE FileMissing \/ ForkFails \/ SerialFileRead \/ Started \/ serverBeforeSleep \/ Poll \/ TimerNotDue
           \/ CronShutdown \/ Term \/ Exit \/ FatalSignal
  BY <1>7, <1>b DEF FileMissing, ForkFails, SerialFileRead, Started, serverBeforeSleep, Poll, TimerNotDue,
                    CronShutdown, Term, Exit, FatalSignal, LogThen
<1>8. CASE CronReconnect
  <2>1. pc' \in {"term", "sleep", "crashed"}
    BY <1>8 DEF CronReconnect, LogThen
  <2> QED BY <1>b, <2>1
<1>9. CASE Signal \/ UNCHANGED vars
  BY <1>9, <1>c DEF Signal, vars, parseVars
<1> QED BY <1>1, <1>2, <1>3, <1>4, <1>5, <1>6, <1>7, <1>8, <1>9 DEF Next, Over

\* Whatever lines a serial.ini of unindented lines has, in whatever order, the lists and
\* the error that the parser and the handler make of it are the ones it describes
\* (ini.c:99-174, config.c:150-217, serial.c:506-514, 616-674).
THEOREM FilesMeanWhatTheySay == Spec => []FileMeansWhatItSays
<1>1. MeaningInv => FileMeansWhatItSays
  BY DEF MeaningInv, Meaning, Unindented, FirstOf, FileMeansWhatItSays
<1> QED BY <1>1, MeaningInit, MeaningStep, ConfigInductive, PTL DEF Spec
=============================================================================
