------------------------------ MODULE IniConfig ------------------------------
(***************************************************************************)
(* The configuration files: the line parser of src/src/ini.c and the two   *)
(* handlers of src/src/config.c, as operators on the parser's locals `p',  *)
(* on the settings `sv' of struct sproxyServer and on the node lists `nd'  *)
(* of src/src/serial.c.  Server reads its files with them, line by line.   *)
(*                                                                         *)
(* A text is a sequence of words; Semicolon is a word that begins with a   *)
(* semicolon.  Lines fit in the parser's buffers.                          *)
(***************************************************************************)
EXTENDS Integers, SequencesExt

CONSTANTS Section,      \* the sections: devices, or the parts of sproxy.ini
          Word,         \* the words of the values; keys are among them
          Atoi,         \* atoi of a word
          Bracketed,    \* a section line as a word, from its section and its kind
          VirtualName,  \* the path of a virtual, from its device and its suffix
          CONFIG_MAX_HZ, CONFIG_MIN_RECONNECT_INTERVAL_MS, CONFIG_MAX_RECONNECT_INTERVAL_MS

NoName == ""
Semicolon == ";"

ASSUME ConfigAssumption ==
    /\ NoName \in Section /\ {"virtuals", "writer", "=", Semicolon} \subseteq Word
    /\ "NULL" \notin Word
    /\ Atoi \in [Word -> Int]
    /\ Bracketed \in [Section \X {"section", "unclosed"} -> Word]
    /\ DOMAIN VirtualName = Section \X Word
    /\ CONFIG_MAX_HZ \in Nat \ {0}
    /\ CONFIG_MIN_RECONNECT_INTERVAL_MS \in Nat \ {0}
    /\ CONFIG_MAX_RECONNECT_INTERVAL_MS \in Nat

\* A char pointer that was never set; every other value of one is a text.
NULL == <<"NULL">>

-----------------------------------------------------------------------------
(***************************************************************************)
(* The parser                                                              *)
(*                                                                         *)
(* indent  the line begins with blanks                                     *)
(* kind    "skip": blank or comment; "section": [key]; "unclosed": no      *)
(*         closing bracket; "pair": key = words; "junk": anything else     *)
(***************************************************************************)
Line == {l \in [indent : BOOLEAN, kind : {"skip", "section", "unclosed", "pair", "junk"},
                 key : Section \cup Word, words : Seq(Word)] :
            /\ l.kind \in {"section", "unclosed"} => l.key \in Section
            /\ l.kind = "pair" => l.key \in Word}

NewParser == [section |-> NoName, prev_name |-> NoName, lineno |-> 0, error |-> 0]

\* An indented line after a key goes on with that key's value, whatever it looks like.
Continues(p, l) == l.kind # "skip" /\ l.indent /\ p.prev_name # NoName

Calls(p, l) == Continues(p, l) \/ l.kind = "pair"

CallName(p, l) == IF Continues(p, l) THEN p.prev_name ELSE l.key

\* The words up to an inline comment; the first word never begins one.
BeforeComment(ws) ==
    LET comments == {i \in DOMAIN ws : i > 1 /\ ws[i] = Semicolon}
    IN  IF comments = {} THEN ws ELSE SubSeq(ws, 1, Min(comments) - 1)

\* A continuation line is passed on as it stands, comments and brackets included.
CallValue(p, l) ==
    IF ~Continues(p, l) THEN BeforeComment(l.words)
    ELSE IF l.kind = "pair" THEN <<l.key, "=">> \o l.words
    ELSE IF l.kind = "junk" THEN l.words ELSE <<Bracketed[<<l.key, l.kind>>]>>

\* Mutant: a section line without a bracket ends the section before it.
BugUnclosedEnds(p, l) ==
    IF Continues(p, l) THEN p.section
    ELSE CASE l.kind = "section" -> l.key
           [] l.kind = "unclosed" -> NoName
           [] OTHER -> p.section

SectionAfter(p, l) == IF l.kind = "section" /\ ~Continues(p, l) THEN l.key ELSE p.section

\* Mutant: the line after the one in error is reported.
BugErrorOffByOne(p, good) == IF p.error # 0 \/ good THEN p.error ELSE p.lineno + 2

ErrorAfter(p, good) == IF p.error # 0 \/ good THEN p.error ELSE p.lineno + 1

\* The body of the loop of ini_parse_stream, `ok' being what the handler returned.
\* The first error is recorded; parsing goes on.
ParseLine(p, l, ok) ==
    [section |-> SectionAfter(p, l),
     prev_name |-> CASE Continues(p, l) -> p.prev_name
                     [] l.kind = "section" -> NoName
                     [] l.kind = "pair" -> l.key
                     [] OTHER -> p.prev_name,
     lineno |-> p.lineno + 1,
     error |-> ErrorAfter(p, IF Calls(p, l) THEN ok ELSE l.kind \notin {"unclosed", "junk"})]

-----------------------------------------------------------------------------
(***************************************************************************)
(* sproxy.ini                                                              *)
(***************************************************************************)
LL_DEBUG == 0
LL_INFO == 1
LL_WARN == 2
LL_ERROR == 3

CONFIG_MIN_HZ == 1

atoi(ws) == IF ws = <<>> THEN 0 ELSE Atoi[ws[1]]

_yesnotoi(ws) == CASE ws = <<"yes">> -> 1 [] ws = <<"no">> -> 0 [] OTHER -> -1

_getLogLevel(ws) == CASE ws = <<"debug">> -> LL_DEBUG
                      [] ws = <<"info">> -> LL_INFO
                      [] ws = <<"warn">> -> LL_WARN
                      [] OTHER -> LL_ERROR

\* Mutant: only the upper limit is kept.
BugUpperLimitOnly(n, lo, hi) == IF n > hi THEN hi ELSE n

Clamp(n, lo, hi) == IF n < lo THEN lo ELSE IF n > hi THEN hi ELSE n

_serverConfigHandler(sv, section, name, ws) ==
    CASE section = "logging" /\ name = "logfile" -> [sv EXCEPT !.logfile = ws]
      [] section = "logging" /\ name = "syslog-enabled" -> [sv EXCEPT !.syslog = _yesnotoi(ws)]
      [] section = "logging" /\ name = "loglevel" -> [sv EXCEPT !.verbosity = _getLogLevel(ws)]
      [] section = "system" /\ name = "hz" ->
            [sv EXCEPT !.hz = Clamp(atoi(ws), CONFIG_MIN_HZ, CONFIG_MAX_HZ)]
      [] section = "system" /\ name = "reconnect-interval" ->
            [sv EXCEPT !.reconnect_interval =
                Clamp(atoi(ws), CONFIG_MIN_RECONNECT_INTERVAL_MS,
                      CONFIG_MAX_RECONNECT_INTERVAL_MS)]
      [] section = "system" /\ name = "pidfile" -> [sv EXCEPT !.pidfile = ws]
      [] section = "system" /\ name = "serial-configfile" ->
            [sv EXCEPT !.serial_configfile = ws]
      [] OTHER -> sv

\* The handler knows the key: it returns 1.
ServerKnows(section, name) ==
    \/ section = "logging" /\ name \in {"logfile", "syslog-enabled", "loglevel"}
    \/ section = "system" /\ name \in {"hz", "reconnect-interval", "pidfile", "serial-configfile"}

-----------------------------------------------------------------------------
(***************************************************************************)
(* serial.ini                                                              *)
(*                                                                         *)
(* masters   server.serial.master_head, in list order                      *)
(* virtuals  virtual_head of each master: paths in list order              *)
(* writers   the virtuals of each master with SERIAL_FLAG_WRITER           *)
(***************************************************************************)
NoNodes == [masters |-> <<>>,
            virtuals |-> [s \in Section |-> <<>>], writers |-> [s \in Section |-> {}]]

serialGetNode(nd, s) == s \in Range(nd.masters)

serialAddNode(nd, s) == [nd EXCEPT !.masters = <<s>> \o @]

\* Any key, even one that is not known, creates the node of its section.
GetOrAddNode(nd, s) == IF serialGetNode(nd, s) THEN nd ELSE serialAddNode(nd, s)

serialGetVirtualNode(list, path) == path \in Range(list)

serialAddVirtualNode(list, path) == <<path>> \o list

\* Mutant: the lookup is left out.
BugAddTwice(list, path) == serialAddVirtualNode(list, path)

GetOrAddVirtual(list, path) ==
    IF serialGetVirtualNode(list, path) THEN list ELSE serialAddVirtualNode(list, path)

\* strtok(value, " ") over the words of the value; a comma is part of its word.
AddVirtuals(list, s, ws) ==
    LET after[k \in 0 .. Len(ws)] ==
            IF k = 0 THEN list ELSE GetOrAddVirtual(after[k - 1], VirtualName[<<s, ws[k]>>])
    IN  after[Len(ws)]

\* The whole value is one name, which is flagged if the device has it by now.
FlagWriter(nd, s, ws) ==
    IF Len(ws) = 1 /\ serialGetVirtualNode(nd.virtuals[s], VirtualName[<<s, ws[1]>>])
    THEN [nd EXCEPT !.writers[s] = @ \cup {VirtualName[<<s, ws[1]>>]}] ELSE nd

_serialConfigHandler(nd, s, name, ws) ==
    LET node == GetOrAddNode(nd, s)
    IN  CASE name = "virtuals" -> [node EXCEPT !.virtuals[s] = AddVirtuals(@, s, ws)]
          [] name = "writer" -> FlagWriter(node, s, ws)
          [] OTHER -> node

SerialKnows(name) == name \in {"baudrate", "virtuals", "writer"}
=============================================================================
