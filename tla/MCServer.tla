------------------------------ MODULE MCServer ------------------------------
(***************************************************************************)
(* Instances of Server for TLC.  A second has four ticks.                  *)
(***************************************************************************)
EXTENDS Server

MCSection == {"", "logging", "system", "gps", "usb"}
MCBracketed == [p \in MCSection \X {"section", "unclosed"} |->
                  IF p[2] = "section" THEN "[" \o p[1] \o "]" ELSE "[" \o p[1]]
MCWord == {"virtuals", "writer", "baudrate", "=", ";", "a", "b", "a,b", "log", "warn", "0", "2", "5",
           "logfile", "loglevel", "hz", "reconnect-interval", "pidfile",
           "9600", "own.pid", "sproxyd.pid", "colour"} \cup Range(MCBracketed)
MCAtoi == [w \in MCWord |-> CASE w = "2" -> 2 [] w = "5" -> 5 [] w = "9600" -> 9600
                              [] OTHER -> 0]
MCVirtualName == [p \in MCSection \X MCWord |-> p[1] \o "." \o p[2]]
MCCommaSeparated == [w \in MCWord |-> IF w = "a,b" THEN {"a", "b"} ELSE {w}]

Head_(s) == [indent |-> FALSE, kind |-> "section", key |-> s, words |-> <<>>]
Pair(k, ws) == [indent |-> FALSE, kind |-> "pair", key |-> k, words |-> ws]
Other(i, kind, ws) == [indent |-> i, kind |-> kind, key |-> "", words |-> ws]

\* Log file named or empty, a level, hz at and below its limit, an interval, a pid file,
\* a continuation.
MCServerLines ==
    {Head_("logging"), Head_("system"), Pair("logfile", <<"log">>), Pair("logfile", <<>>),
     Pair("loglevel", <<"warn">>), Pair("hz", <<"0">>), Pair("hz", <<"2">>),
     Pair("reconnect-interval", <<"5">>), Pair("pidfile", <<"own.pid">>),
     Other(TRUE, "junk", <<"5">>)}

\* Two devices, one of them also without its bracket and indented; one or two virtuals, a
\* comment after the first; a writer; a key that is not known.
MCSerialLines ==
    {Head_("gps"), Head_("usb"), [Head_("usb") EXCEPT !.indent = TRUE],
     [Head_("usb") EXCEPT !.kind = "unclosed"],
     Pair("virtuals", <<"a", "b">>), Pair("virtuals", <<"b", ";", "a">>),
     Pair("writer", <<"a">>), Pair("baudrate", <<"9600">>), Pair("colour", <<"a">>),
     Other(FALSE, "skip", <<>>), Other(TRUE, "junk", <<"a", ";">>)}

NoLines == {}
DevicePair == {Head_("gps"), Pair("virtuals", <<"a">>)}
CommaPair == {Head_("gps"), Pair("virtuals", <<"a,b">>)}
MCPidFile == <<"sproxyd.pid">>
=============================================================================
