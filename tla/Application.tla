---------------------------- MODULE Application -----------------------------
(***************************************************************************)
(* The afina process (src/main.cpp): options, Configure, the semaphore and *)
(* the signal handlers, Start, the wait for a signal, and Stop, with the   *)
(* services it drives.  The logging service is the module Logging; of the  *)
(* server only what Server.h promises to main is kept: Start may throw,    *)
(* Stop asks its threads to end, Join waits for them.  A thread of the     *)
(* blocking servers ends only when the client it serves lets it.           *)
(***************************************************************************)
EXTENDS Logging

CONSTANTS
    Signals,    \* SIGINT and SIGTERM
    MaxSignals  \* bound on the signals that are sent

VARIABLES
    main,       \* where the main thread is
    options,    \* the command line: option -> value, or "default"
    service,    \* which storage and server Configure made
    handled,    \* signals whose handler is on_term
    stop_semaphore,
    stop_reason,
    interrupted,    \* whether on_term has run on top of sem_wait
    storage,    \* "none", "new", "started", "stopped"
    server,     \* "none", "new", "started", "stopping", "joined"
    threads,    \* whether threads of the server run
    busy,       \* whether a client holds a thread of a blocking server
    sent        \* history: signals sent so far

cfgVars == <<options, service>>
sigVars == <<handled, stop_semaphore, stop_reason, interrupted, sent>>
runVars == <<storage, server, threads, busy>>
appVars == <<main, cfgVars, sigVars, runVars>>
vars == <<logVars, appVars>>

Storages == {"st_lru", "mt_lru"}
Networks == {"st_block", "mt_block", "st_nonblock", "mt_nonblock"}
Levels == {"warn", "info", "critical", "error", "debug", "trace"}
None == "none"

\* The command lines: each option absent, known or unknown.
CommandLines ==
    [storage : Storages \cup {"default", "bad"},
     network : Networks \cup {"default", "bad"},
     logger : {"default", "info", "bad"},
     parse : {"ok", "help", "error"}]

\* The Config that Configure makes: the root logger writes to the console.
AppConfig ==
    [appenders |-> [a \in {"console"} |-> [type |-> "STDOUT", color |-> TRUE]],
     loggers |-> [l \in {Root} |-> [appenders |-> <<"console">>, format |-> <<"%", "v">>]]]

AppInit ==
    /\ LogInit({AppConfig})
    /\ main = "parse"
    /\ options \in CommandLines
    /\ service = [storage |-> None, network |-> None]
    /\ handled = {}
    /\ stop_semaphore = 0
    /\ stop_reason = None
    /\ interrupted = FALSE
    /\ storage = "none"
    /\ server = "none"
    /\ threads = FALSE
    /\ busy = FALSE
    /\ sent = 0

Goto(from, to) == main = from /\ main' = to

\* Help and malformed command lines end main at once.
ParseOptions ==
    /\ Goto("parse", IF options.parse = "ok" THEN "configure" ELSE "exited")
    /\ UNCHANGED <<logVars, cfgVars, sigVars, runVars>>

Chosen(option, default) == IF option = "default" THEN default ELSE option

\* Configure, called outside the try block: an unknown value terminates.
Configure ==
    LET st == Chosen(options.storage, "st_lru")
        nw == Chosen(options.network, "st_block")
        ok == /\ Chosen(options.logger, "warn") \in Levels
              /\ st \in Storages
              /\ nw \in Networks
    IN  /\ Goto("configure", IF ok THEN "sem_init" ELSE "terminated")
        /\ service' = IF ok THEN [storage |-> st, network |-> nw] ELSE service
        /\ storage' = IF ok THEN "new" ELSE storage
        /\ server' = IF ok THEN "new" ELSE server
        /\ UNCHANGED <<logVars, options, sigVars, threads, busy>>

SemInit(ok) ==
    /\ Goto("sem_init", IF ok THEN "sigaction" ELSE "terminated")
    /\ stop_semaphore' = 0
    /\ UNCHANGED <<logVars, cfgVars, handled, stop_reason, interrupted, runVars,
                   sent>>

\* Two calls, one signal after the other.
SigAction(s) ==
    /\ main = "sigaction"
    /\ s \notin handled
    /\ handled' = handled \cup {s}
    /\ main' = IF handled' = Signals THEN "start" ELSE main
    /\ UNCHANGED <<logVars, cfgVars, stop_semaphore, stop_reason, interrupted,
                   runVars, sent>>

\* Application::Start: the logging service and the storage, ...
StartServices ==
    /\ Goto("start", "start_server")
    /\ StartLoggers
    /\ storage' = "started"
    /\ UNCHANGED <<cfgVars, sigVars, server, threads, busy>>

\* ... and the server, which throws if it cannot listen; then main only
\* reports the error and returns.
StartServer(ok) ==
    /\ Goto("start_server", IF ok THEN "test" ELSE "exited")
    /\ server' = IF ok THEN "started" ELSE server
    /\ threads' = ok
    /\ UNCHANGED <<logVars, cfgVars, sigVars, storage, busy>>

\* The condition of the loop: a signal that came before ends it at once.
TestReason ==
    /\ Goto("test", IF stop_reason = None THEN "sem_wait" ELSE "stop_server")
    /\ UNCHANGED <<logVars, cfgVars, sigVars, runVars>>

SemWait ==
    /\ Goto("sem_wait", "stop_server")
    /\ stop_semaphore > 0
    /\ stop_semaphore' = stop_semaphore - 1
    /\ interrupted' = FALSE
    /\ UNCHANGED <<logVars, cfgVars, handled, stop_reason, runVars, sent>>

\* The handler interrupted sem_wait, which fails with EINTR: test again.
Interrupted ==
    /\ Goto("sem_wait", "test")
    /\ interrupted
    /\ interrupted' = FALSE
    /\ UNCHANGED <<logVars, cfgVars, handled, stop_semaphore, stop_reason,
                   runVars, sent>>

\* Application::Stop.
StopServer ==
    /\ Goto("stop_server", "join")
    /\ server' = "stopping"
    /\ UNCHANGED <<logVars, cfgVars, sigVars, storage, threads, busy>>

\* Stop of the event servers throws if it cannot write its eventfd: main
\* returns with threads that nobody joined.
StopThrows ==
    /\ Goto("stop_server", "terminated")
    /\ service.network \in {"st_nonblock", "mt_nonblock"}
    /\ server' = "stopping"
    /\ UNCHANGED <<logVars, cfgVars, sigVars, storage, threads, busy>>

JoinServer ==
    /\ Goto("join", "stop_storage")
    /\ ~threads
    /\ server' = "joined"
    /\ UNCHANGED <<logVars, cfgVars, sigVars, storage, threads, busy>>

\* storage->Stop(), and logService->Stop(), which does nothing; main returns.
StopStorage ==
    /\ Goto("stop_storage", "exited")
    /\ storage' = "stopped"
    /\ UNCHANGED <<logVars, cfgVars, sigVars, server, threads, busy>>

----------------------------------------------------------------------------
(* Signals, server threads and clients. *)

Ended == main \in {"exited", "terminated", "killed"}

\* Mutant: the handler relies on EINTR and does not post.
Signal_Mutant(s, onMain) ==
    /\ ~Ended /\ sent < MaxSignals
    /\ onMain => main = "sem_wait"
    /\ sent' = sent + 1
    /\ IF s \in handled
       THEN /\ stop_reason' = s
            /\ UNCHANGED stop_semaphore
            /\ interrupted' = (interrupted \/ onMain)
            /\ UNCHANGED main
       ELSE /\ main' = "killed"
            /\ UNCHANGED <<stop_reason, stop_semaphore, interrupted>>
    /\ UNCHANGED <<logVars, cfgVars, handled, runVars>>

\* A signal reaches some thread: on_term runs, or the default action kills.  It
\* interrupts sem_wait only if it is delivered to the main thread in there.
Signal(s, onMain) ==
    /\ ~Ended /\ sent < MaxSignals
    /\ onMain => main = "sem_wait"
    /\ sent' = sent + 1
    /\ IF s \in handled
       THEN /\ stop_reason' = s
            /\ stop_semaphore' = stop_semaphore + 1
            /\ interrupted' = (interrupted \/ onMain)
            /\ UNCHANGED main
       ELSE /\ main' = "killed"
            /\ UNCHANGED <<stop_reason, stop_semaphore, interrupted>>
    /\ UNCHANGED <<logVars, cfgVars, handled, runVars>>

\* The threads of the server end after Stop, those of the blocking servers when
\* no client holds them.
ThreadsEnd ==
    /\ ~Ended /\ threads /\ server = "stopping"
    /\ ~busy
    /\ threads' = FALSE
    /\ UNCHANGED <<logVars, main, cfgVars, sigVars, storage, server, busy>>

\* A client holds a thread of a blocking server, before or after Stop: it talks
\* to the only thread of st_block, or does not read what a thread sends, which
\* has no timeout; and one leaves, reads, or is silent for 5 seconds.
ClientHolds(b) ==
    /\ ~Ended /\ threads /\ service.network \in {"st_block", "mt_block"}
    /\ busy # b
    /\ busy' = b
    /\ UNCHANGED <<logVars, main, cfgVars, sigVars, storage, server, threads>>

MainStep ==
    \/ ParseOptions \/ Configure \/ StartServices
    \/ \E ok \in BOOLEAN : SemInit(ok) \/ StartServer(ok)
    \/ \E s \in Signals : SigAction(s)
    \/ TestReason \/ SemWait \/ Interrupted
    \/ StopServer \/ StopThrows \/ JoinServer \/ StopStorage

AppNext ==
    \/ MainStep
    \/ ThreadsEnd
    \/ \E s \in Signals, onMain \in BOOLEAN : Signal(s, onMain)
    \/ \E b \in BOOLEAN : ClientHolds(b)

\* The main thread and the server's threads are scheduled; nothing makes a
\* client leave or a signal arrive.
AppFairness == WF_vars(MainStep) /\ WF_vars(ThreadsEnd)

----------------------------------------------------------------------------
(* Properties. *)

\* Once on_term has run, the process ends, wherever the signal found it
\* (inside Start, between the test of stop_reason and sem_wait, in the wait),
\* unless a client of a blocking server holds a thread for ever.
SignalEnds == <>[]~busy => (stop_reason # None ~> Ended)
=============================================================================
