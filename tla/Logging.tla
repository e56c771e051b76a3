------------------------------ MODULE Logging -------------------------------
(***************************************************************************)
(* The logging service of afina (src/logging/ServiceImpl.{h,cpp} over      *)
(* include/afina/logging/Config.h): Start turns a Config into sinks and    *)
(* loggers in the registry of spdlog, select finds the logger for a dotted *)
(* name, create copies one with the MDC variables of its pattern filled    *)
(* in, and reopen_all reopens the files.                                   *)
(*                                                                         *)
(* A name "a.b" is the sequence <<"a", "b">> of its parts, the empty name  *)
(* is <<"">>; a pattern is a sequence of characters.                       *)
(***************************************************************************)
EXTENDS Naturals, Sequences, FiniteSets, SequencesExt

CONSTANTS
    Null,       \* nullptr
    LogNames,   \* names that select and create are called with
    MDC         \* keys of the map passed to create

VARIABLES
    _cfg,       \* the Config
    registry,   \* spdlog's loggers: name -> [sink, format]
    _root,      \* the logger that select falls back to
    call,       \* the call in progress, or its outcome
    deque,      \* reopen_all: sinks to visit
    seen,       \* reopen_all: sinks visited
    reopened,   \* history: how often this reopen_all reopened each sink
    it, ss      \* create: position in the pattern, and the text so far

fixedVars == <<_cfg, registry, _root>>
reopenVars == <<deque, seen, reopened>>
createVars == <<it, ss>>
logVars == <<fixedVars, call, reopenVars, createVars>>

AppenderTypes == {"STDOUT", "STDERR", "FILE", "DAILY", "SIZED", "SYSLOG"}

\* A name has a part at least, and a null pointer is not a sink.
ASSUME LogAssumption ==
    /\ LogNames \subseteq Seq(STRING) \ {<<>>}
    /\ Null \notin [kind : AppenderTypes \cup {"dist"}, of : STRING \cup Seq(STRING)]

Root == <<"root">>
NoCall == [op |-> "none", state |-> "done"]
Call(op, state) == [op |-> op, state |-> state]

----------------------------------------------------------------------------
(* Start *)

\* The sink of an appender: the consoles without colour are one object each,
\* every other appender makes its own.  An appender that is not configured is
\* a null entry that operator[] leaves in the map.
SinkOf(a) ==
    CASE a \notin DOMAIN _cfg.appenders -> Null
      [] a \in DOMAIN _cfg.appenders /\ _cfg.appenders[a].type \in {"STDOUT", "STDERR"}
            /\ ~_cfg.appenders[a].color ->
            [kind |-> _cfg.appenders[a].type, of |-> ""]
      [] OTHER -> [kind |-> _cfg.appenders[a].type, of |-> a]

\* The one sink that logger l is made with; several appenders are put
\* behind a dist_sink.
LoggerSink(l) ==
    LET as == _cfg.loggers[l].appenders
    IN  CASE Len(as) = 0 -> Null
          [] Len(as) = 1 -> SinkOf(as[1])
          [] OTHER -> [kind |-> "dist", of |-> l]

\* dist_sink::sinks()
DistSinks(s) ==
    LET as == _cfg.loggers[s.of].appenders IN [i \in DOMAIN as |-> SinkOf(as[i])]

\* The loop over the appenders throws: a type outside the enumeration, or a
\* file that cannot be opened.  No logger was registered.
StartAppenderThrows ==
    /\ call.state # "run"
    /\ \E a \in DOMAIN _cfg.appenders :
          _cfg.appenders[a].type \in {"FILE", "DAILY", "SIZED"}
             \/ _cfg.appenders[a].type \notin AppenderTypes
    /\ call' = Call("Start", "throws")
    /\ UNCHANGED <<fixedVars, reopenVars, createVars>>

\* The loggers were registered by an earlier Start: register_logger throws at
\* the first one.
StartAgainThrows ==
    /\ call.state # "run"
    /\ DOMAIN registry # {}
    /\ call' = Call("Start", "throws")
    /\ UNCHANGED <<fixedVars, reopenVars, createVars>>

StartLoggers ==
    /\ call.state # "run"
    /\ \A a \in DOMAIN _cfg.appenders : _cfg.appenders[a].type \in AppenderTypes
    /\ DOMAIN registry = {}
    /\ registry' = [l \in DOMAIN _cfg.loggers |->
                       [sink |-> LoggerSink(l), format |-> _cfg.loggers[l].format]]
    /\ _root' = IF Root \in DOMAIN _cfg.loggers THEN Root ELSE Null
    /\ call' = Call("Start", IF Root \in DOMAIN _cfg.loggers THEN "done" ELSE "throws")
    /\ UNCHANGED <<_cfg, reopenVars, createVars>>

----------------------------------------------------------------------------
(* select *)

\* Mutant: the part after the last dot is kept, not the one before it.
Select_Mutant(name) ==
    IF name \in DOMAIN registry THEN name
    ELSE IF <<Last(name)>> \in DOMAIN registry THEN <<Last(name)>> ELSE _root

\* The do-while loop: look the name up, cut it at its last dot, until nothing
\* is left.  The name itself is looked up even if it is empty.
Select(name) ==
    LET try[n \in 1 .. Len(name)] ==
            IF SubSeq(name, 1, n) \in DOMAIN registry
            THEN SubSeq(name, 1, n)
            ELSE IF n = 1 \/ SubSeq(name, 1, n - 1) = <<"">>
                 THEN _root
                 ELSE try[n - 1]
    IN  try[Len(name)]

----------------------------------------------------------------------------
(* create *)

\* create is noexcept: without a root logger it dies at base->sinks().
Create(name) ==
    /\ call.state # "run"
    /\ it' = 1
    /\ ss' = <<>>
    /\ call' = IF Select(name) = Null
               THEN Call("create", "null")
               ELSE [op |-> "create", state |-> "run",
                     pattern |-> registry[Select(name)].format]
    /\ UNCHANGED <<fixedVars, reopenVars>>

\* What one iteration of the loop over the pattern p at position i writes, and
\* where the iterator is afterwards; Len(p) + 1 is end, and what lies behind
\* it must not be read.
Expand(p, i) ==
    LET end == Len(p) + 1
        close == {j \in i + 2 .. Len(p) : p[j] = "}"}
        brace == Min(close)
        key == SubSeq(p, i + 3, brace - 1)
    IN  CASE p[i] # "%" -> [out |-> <<p[i]>>, next |-> i + 1]
          [] p[i] = "%" /\ i + 1 = end -> [out |-> <<>>, next |-> i + 3]
          [] p[i] = "%" /\ i + 1 # end /\ p[i + 1] # "X" ->
                [out |-> <<"%", p[i + 1]>>, next |-> i + 2]
          [] p[i] = "%" /\ i + 1 # end /\ p[i + 1] = "X" /\ i + 2 # end /\ p[i + 2] # "{" ->
                [out |-> <<"%", "X", p[i + 2]>>, next |-> i + 3]
          [] p[i] = "%" /\ i + 1 # end /\ p[i + 1] = "X" /\ (i + 2 = end \/ p[i + 2] = "{") ->
                IF close # {} /\ key \in MDC
                THEN [out |-> key, next |-> brace + 1]
                ELSE [out |-> <<"%", "X", "{">> \o (IF i + 2 = end THEN <<>> ELSE <<"{">>),
                      next |-> i + 3]

CreateStep ==
    /\ call.op = "create" /\ call.state = "run"
    /\ it <= Len(call.pattern)
    /\ ss' = ss \o Expand(call.pattern, it).out
    /\ it' = Expand(call.pattern, it).next
    /\ UNCHANGED <<fixedVars, call, reopenVars>>

\* The loop ends at end and nowhere else: an iterator behind it runs away.
CreateEnds ==
    /\ call.op = "create" /\ call.state = "run"
    /\ it > Len(call.pattern)
    /\ call' = [call EXCEPT !.state = IF it = Len(call.pattern) + 1
                                      THEN "done" ELSE "overrun"]
    /\ UNCHANGED <<fixedVars, reopenVars, createVars>>

----------------------------------------------------------------------------
(* reopen_all *)

\* apply_all visits the loggers in the order of a hash table, which may be any, and
\* collects the one sink of each.
ReopenAll ==
    /\ call.state # "run"
    /\ call' = Call("reopen_all", "run")
    /\ \E visit \in [1 .. Cardinality(DOMAIN registry) -> DOMAIN registry] :
          /\ \A l \in DOMAIN registry : \E i \in DOMAIN visit : visit[i] = l
          /\ deque' = [i \in DOMAIN visit |-> registry[visit[i]].sink]
    /\ seen' = {}
    /\ reopened' = [a \in DOMAIN _cfg.appenders |-> 0]
    /\ UNCHANGED <<fixedVars, createVars>>

InReopen == call = Call("reopen_all", "run")

IsDist(s) == s # Null /\ s.kind = "dist"
IsFile(s) == s # Null /\ s.kind = "FILE"

ReopenSeen ==
    /\ InReopen /\ deque # <<>> /\ Head(deque) \in seen
    /\ deque' = Tail(deque)
    /\ UNCHANGED <<fixedVars, call, seen, reopened, createVars>>

\* Mutant: every sink of the queue is visited.
ReopenVisit_Mutant(fails) ==
    LET s == Head(deque)
    IN  /\ InReopen /\ deque # <<>> /\ fails = FALSE
        /\ seen' = seen \cup {s}
        /\ deque' = Tail(deque) \o (IF IsDist(s) THEN DistSinks(s) ELSE <<>>)
        /\ reopened' = IF IsFile(s) THEN [reopened EXCEPT ![s.of] = @ + 1] ELSE reopened
        /\ UNCHANGED <<fixedVars, call, createVars>>

\* A sink that is seen for the first time: the sinks behind a dist_sink are
\* queued, a file is reopened, which throws out of the loop if it fails.
ReopenVisit(fails) ==
    LET s == Head(deque)
    IN  /\ InReopen /\ deque # <<>> /\ s \notin seen
        /\ fails => IsFile(s)
        /\ seen' = seen \cup {s}
        /\ deque' = Tail(deque) \o (IF IsDist(s) THEN DistSinks(s) ELSE <<>>)
        /\ reopened' = IF IsFile(s) /\ ~fails
                       THEN [reopened EXCEPT ![s.of] = @ + 1] ELSE reopened
        /\ call' = IF fails THEN Call("reopen_all", "throws") ELSE call
        /\ UNCHANGED <<fixedVars, createVars>>

ReopenEnds ==
    /\ InReopen /\ deque = <<>>
    /\ call' = Call("reopen_all", "done")
    /\ UNCHANGED <<fixedVars, reopenVars, createVars>>

----------------------------------------------------------------------------
LogInit(configs) ==
    /\ _cfg \in configs
    /\ registry = [l \in {} |-> Null]
    /\ _root = Null
    /\ call = NoCall
    /\ deque = <<>>
    /\ seen = {}
    /\ reopened = [a \in DOMAIN _cfg.appenders |-> 0]
    /\ it = 1
    /\ ss = <<>>

LogNext ==
    \/ StartAppenderThrows \/ StartAgainThrows \/ StartLoggers
    \/ \E name \in LogNames : Create(name)
    \/ CreateStep \/ CreateEnds
    \/ ReopenAll \/ ReopenSeen \/ ReopenEnds
    \/ \E fails \in BOOLEAN : ReopenVisit(fails)

----------------------------------------------------------------------------
(* Properties. *)

\* select finds the configured logger whose name is the longest part of the
\* wanted name that ends at a dot (the empty one only for itself), and the root
\* logger if there is none.
SelectNearest ==
    \A name \in LogNames :
        LET own == {l \in DOMAIN registry : IsPrefix(l, name) /\ (l = <<"">> => name = l)}
        IN  /\ own = {} => Select(name) = _root
            /\ own # {} => /\ Select(name) \in own
                           /\ \A l \in own : Len(l) <= Len(Select(name))

\* The appenders of files that some registered logger writes to.
FilesInUse ==
    {a \in DOMAIN _cfg.appenders :
        /\ _cfg.appenders[a].type = "FILE"
        /\ \E l \in DOMAIN registry :
              \E i \in DOMAIN _cfg.loggers[l].appenders :
                  _cfg.loggers[l].appenders[i] = a}

\* reopen_all reopens no file twice, however many loggers share it, and when it
\* returns every file in use was reopened and no other.
ReopenExact ==
    /\ \A a \in DOMAIN reopened : reopened[a] <= 1
    /\ call = Call("reopen_all", "done") =>
          \A a \in DOMAIN reopened : (reopened[a] = 1) = (a \in FilesInUse)

HasMDC(p) == \E i \in 1 .. Len(p) - 1 : p[i] = "%" /\ p[i + 1] = "X"

\* create keeps a pattern without MDC variables as it is, and the iterator runs
\* over the end of a pattern only if the pattern ends within a directive.
PatternKept ==
    call.op = "create" =>
        /\ call.state = "done" /\ ~HasMDC(call.pattern) => ss = call.pattern
        /\ call.state = "overrun" =>
              \/ Last(call.pattern) = "%"
              \/ IsSuffix(<<"%", "X">>, call.pattern)

\* A name gets the logger that is configured nearest to it, with its pattern.
LoggerAsAsked == SelectNearest /\ PatternKept
=============================================================================
