--------------------------- MODULE MCApplication ----------------------------
(* Model checking the afina process (Application, with Logging) and the      *)
(* parts that do their work without a thread of their own: the stream of a   *)
(* client and its parser (STBlocking), the commands of several threads on    *)
(* one storage (Commands), and the coroutine engine (Engine).  A behaviour   *)
(* runs one part; the others stay where they begin.                          *)
EXTENDS Application, STBlocking, Commands, Engine, TLC

CONSTANTS
    Parts,          \* the parts to run
    MaxPattern      \* longest pattern that create is given

VARIABLE part

Chars == {"%", "X", "{", "}", "k"}
Format == <<"%", "v">>
Lg(as) == [appenders |-> as, format |-> Format]
A(type, color) == [type |-> type, color |-> color]

\* Files shared by loggers, behind one dist_sink twice, unused, unknown.
Shared ==
    [appenders |-> "f" :> A("FILE", FALSE) @@ "g" :> A("FILE", FALSE) @@ "u" :> A("FILE", FALSE)
                   @@ "o" :> A("STDOUT", FALSE) @@ "e" :> A("STDERR", TRUE),
     loggers |-> Root :> Lg(<<"f">>) @@ <<"a">> :> Lg(<<"f", "g", "f">>)
                 @@ <<"a", "b">> :> Lg(<<"o", "x">>) @@ <<"c">> :> Lg(<<>>)]
Rootless ==
    [appenders |-> "e" :> A("SYSLOG", FALSE) @@ "d" :> A("DAILY", FALSE),
     loggers |-> <<"a">> :> Lg(<<"e">>) @@ <<"">> :> Lg(<<>>)]
Invalid ==
    [appenders |-> "f" :> A("OTHER", FALSE), loggers |-> Root :> Lg(<<"f">>)]
Patterned(p) ==
    [appenders |-> "f" :> A("SIZED", FALSE),
     loggers |-> Root :> [appenders |-> <<"f">>, format |-> p]]

MCLogNames == {<<"root">>, <<"a">>, <<"a", "b">>, <<"a", "b", "c">>, <<"d", "a">>,
               <<"">>, <<"", "a">>, <<"d", "a", "b">>}
MCMDC == {<<"k">>, <<>>}

\* What clients send: data that looks like the end of a block, a get of two
\* keys, stats, two commands the parser knows and Build, or the parser itself,
\* does not, a put without data, and flags of 6 bits that wrap around to a
\* larger number.
PutOf(name, data, flags, exprtime) ==
    [name |-> name, keys |-> <<"a">>, flags |-> flags, exprtime |-> exprtime,
     data |-> data]
Other(name, keys) ==
    [name |-> name, keys |-> keys, flags |-> 0, exprtime |-> 0]
Mixed ==
    {PutOf("set", <<"CR", "LF">>, 10, -1), Other("get", <<"a", "b">>),
     Other("stats", <<>>), Other("gets", <<"a">>), Other("incr", <<"a">>),
     PutOf("set", <<>>, 1, 0), PutOf("add", <<"b">>, 39, 0)}
Ordinary == {PutOf("set", <<"b">>, 1, 0)}

\* The process does not run, and what the logging service is started with.
NoProcess(configs) ==
    /\ LogInit(configs)
    /\ main = "off"
    /\ options = [storage |-> "default", network |-> "default",
                  logger |-> "default", parse |-> "ok"]
    /\ service = [storage |-> None, network |-> None]
    /\ handled = {} /\ stop_semaphore = 0 /\ stop_reason = None /\ interrupted = FALSE
    /\ storage = "none" /\ server = "none"
    /\ threads = FALSE /\ busy = FALSE /\ sent = 0

MCInit ==
    /\ part \in Parts
    /\ CASE part = "process" -> AppInit
         [] part = "logging" ->
               NoProcess({Shared, Rootless, Invalid}
                  \cup {Patterned(p) : p \in UNION {[1 .. n -> Chars] : n \in 0 .. MaxPattern}})
         [] OTHER -> NoProcess({AppConfig})
    /\ STBInit /\ CmdInit /\ EngInit

MCNext ==
    /\ \/ part = "process" /\ AppNext /\ UNCHANGED <<stbVars, cmdVars, engVars>>
       \/ part = "logging" /\ LogNext /\ UNCHANGED <<appVars, stbVars, cmdVars, engVars>>
       \/ part = "stream" /\ STBNext /\ UNCHANGED <<vars, cmdVars, engVars>>
       \/ part = "commands" /\ CmdNext /\ UNCHANGED <<vars, stbVars, engVars>>
       \/ part = "engine" /\ EngNext /\ UNCHANGED <<vars, stbVars, cmdVars>>
    /\ UNCHANGED part

MCSpec ==
    /\ MCInit
    /\ [][MCNext]_<<part, vars, stbVars, cmdVars, engVars>>
    /\ AppFairness
=============================================================================
