----------------------------- MODULE MTBlocking -----------------------------
(***************************************************************************)
(* The thread-per-connection server, src/network/mt_blocking.  Three kinds *)
(* of threads share _workers (descriptor -> thread) under _main_mutex: the *)
(* main thread that calls Start, Stop and Join, the acceptor (OnRun) and   *)
(* one worker per connection (_connection_processing).                     *)
(*                                                                         *)
(* A critical section is one step: it never blocks inside, apart from the  *)
(* wait of Join, which gives the mutex back.  Everything between two       *)
(* sections, and every blocking call, is a step of its own.  Descriptors   *)
(* are handed out again by the system as soon as they are closed.          *)
(***************************************************************************)
EXTENDS Integers, FiniteSets

CONSTANTS
    Conn,           \* worker threads that may ever be created (bound)
    Fd,             \* descriptors the system hands out for connections
    None,           \* no descriptor, no thread
    MaxConnections, \* _max_connections
    MaxLate         \* bound on the count of commands run after Stop

ASSUME MTBAssumption ==
    /\ None \notin Conn \cup Fd
    /\ MaxConnections \in Nat
    /\ MaxLate \in Nat /\ MaxLate >= 2 \* a second command is counted
    /\ IsFiniteSet(Fd)

VARIABLES
    running,    \* the atomic flag
    listener,   \* _server_socket: "closed", "listening" or "shut"
    main,       \* where the main thread is
    notified,   \* a notify_one is on its way to the waiting main thread
    acc,        \* where the acceptor is
    accFd,      \* client_socket in the acceptor's hand
    workers,    \* _workers: descriptor -> thread, None where absent
    wpc,        \* where each worker is
    wfd,        \* client_socket of each worker
    open,       \* open connection descriptors
    shut,       \* descriptors after shutdown(SHUT_RD)
    late,       \* history: commands each worker ran after Stop returned
    terminated  \* why std::terminate was called, "no" while it was not

mainVars == <<running, listener, main, notified>>
accVars == <<acc, accFd>>
regVars == <<workers, wfd>>
fdVars == <<open, shut>>
vars == <<running, listener, main, notified, acc, accFd, workers, wpc, wfd,
          open, shut, late, terminated>>

Registered == {f \in Fd : workers[f] # None}

Init ==
    /\ running = FALSE
    /\ listener = "closed"
    /\ main = "init"
    /\ notified = FALSE
    /\ acc = "unborn"
    /\ accFd = None
    /\ workers = [f \in Fd |-> None]
    /\ wpc = [c \in Conn |-> "unborn"]
    /\ wfd = [c \in Conn |-> None]
    /\ open = {}
    /\ shut = {}
    /\ late = [c \in Conn |-> 0]
    /\ terminated = "no"

----------------------------------------------------------------------------
(* The main thread. *)

\* Start: a failure of socket, setsockopt, bind or listen closes the socket
\* and throws; so does the constructor of the acceptor thread, with the flag
\* up and the socket listening; otherwise the acceptor thread is running.
Start ==
    /\ main = "init"
    /\ \/ main' = "failed" /\ UNCHANGED <<running, listener, acc>>
       \/ /\ main' = "failed"
          /\ listener' = "listening"
          /\ running' = TRUE
          /\ UNCHANGED acc
       \/ /\ main' = "serving"
          /\ listener' = "listening"
          /\ running' = TRUE
          /\ acc' = "check"
    /\ UNCHANGED <<regVars, fdVars, notified, accFd, wpc, late, terminated>>

\* The main thread goes on, and touches nothing of the other threads.
MainGoto(from, to) ==
    /\ main = from
    /\ main' = to
    /\ UNCHANGED <<accVars, regVars, wpc, open, late, terminated>>

\* Stop, first part: the flag, then the listening socket.
StopFlag ==
    /\ MainGoto("serving", "stopping")
    /\ running' = FALSE
    /\ UNCHANGED <<listener, notified, shut>>

StopListener ==
    /\ MainGoto("stopping", "stop_workers")
    /\ listener' = "shut"
    /\ UNCHANGED <<running, notified, shut>>

\* Stop, second part: shutdown(SHUT_RD) of every descriptor in _workers.  A
\* descriptor that its worker has closed already is another connection or
\* none.
StopWorkers ==
    /\ MainGoto("stop_workers", "join")
    /\ shut' = shut \cup (Registered \cap open)
    /\ UNCHANGED <<running, listener, notified>>

\* Mutant: Join does not wait for the workers.
JoinTest_Mutant ==
    /\ MainGoto("join", "join_acceptor")
    /\ notified' = FALSE
    /\ UNCHANGED <<running, listener, shut>>

\* Join tests _workers.empty() under the mutex.
JoinTest ==
    /\ MainGoto("join", IF Registered = {} THEN "join_acceptor" ELSE "waiting")
    /\ notified' = FALSE
    /\ UNCHANGED <<running, listener, shut>>

\* The wait ends after a notification, or for no reason at all.
JoinWake ==
    /\ notified
    /\ MainGoto("waiting", "join")
    /\ UNCHANGED <<running, listener, notified, shut>>

JoinSpurious ==
    /\ ~notified
    /\ MainGoto("waiting", "join")
    /\ UNCHANGED <<running, listener, notified, shut>>

JoinAcceptor ==
    /\ acc = "exited"
    /\ MainGoto("join_acceptor", "joined")
    /\ listener' = "closed"
    /\ UNCHANGED <<running, notified, shut>>

Terminate(cause) ==
    /\ terminated' = cause
    /\ UNCHANGED <<accVars, regVars, fdVars, wpc, late>>

\* After Join the application drops the server.  A worker that is still in
\* _workers is a joinable thread, whose destructor calls std::terminate.
Destroy ==
    /\ main = "joined"
    /\ \/ Registered = {} /\ main' = "destroyed"
          /\ UNCHANGED <<running, listener, notified>>
          /\ UNCHANGED <<accVars, regVars, fdVars, wpc, late, terminated>>
       \/ Registered # {} /\ Terminate("destructor") /\ UNCHANGED mainVars

----------------------------------------------------------------------------
(* The acceptor thread, OnRun. *)

AcceptCheck ==
    /\ acc = "check"
    /\ acc' = IF running THEN "accept" ELSE "exited"
    /\ UNCHANGED <<mainVars, regVars, fdVars, accFd, wpc, late, terminated>>

\* accept() returns a descriptor that is not in use.
Accept(f) ==
    /\ acc = "accept"
    /\ listener = "listening"
    /\ f \notin open
    /\ \E c \in Conn : wpc[c] = "unborn"
    /\ acc' = "register"
    /\ accFd' = f
    /\ open' = open \cup {f}
    /\ UNCHANGED <<mainVars, regVars, wpc, shut, late, terminated>>

\* accept() fails: the listening socket was shut down.
AcceptFails ==
    /\ acc = "accept"
    /\ listener # "listening"
    /\ acc' = "check"
    /\ UNCHANGED <<mainVars, regVars, fdVars, accFd, wpc, late, terminated>>

TooMany == Cardinality(Registered) >= MaxConnections

\* Mutant: the refused connection is not closed.
RegisterReject_Mutant ==
    /\ acc = "register"
    /\ TooMany
    /\ acc' = "check"
    /\ accFd' = None
    /\ UNCHANGED <<mainVars, regVars, fdVars, wpc, late, terminated>>

\* The limit is reached: the connection is closed again.
RegisterReject ==
    /\ acc = "register"
    /\ TooMany
    /\ acc' = "check"
    /\ accFd' = None
    /\ open' = open \ {accFd}
    /\ shut' = shut \ {accFd}
    /\ UNCHANGED <<mainVars, regVars, wpc, late, terminated>>

\* Mutant: the entry of a worker that has not left yet is overwritten.
Register_Mutant(c) ==
    /\ acc = "register"
    /\ ~TooMany
    /\ wpc[c] = "unborn"
    /\ workers' = [workers EXCEPT ![accFd] = c]
    /\ wpc' = [wpc EXCEPT ![c] = "check"]
    /\ wfd' = [wfd EXCEPT ![c] = accFd]
    /\ acc' = "check"
    /\ accFd' = None
    /\ UNCHANGED <<mainVars, fdVars, late, terminated>>

\* The thread starts and is entered into _workers.
Register(c) ==
    /\ acc = "register"
    /\ ~TooMany
    /\ workers[accFd] = None
    /\ wpc[c] = "unborn"
    /\ workers' = [workers EXCEPT ![accFd] = c]
    /\ wpc' = [wpc EXCEPT ![c] = "check"]
    /\ wfd' = [wfd EXCEPT ![c] = accFd]
    /\ acc' = "check"
    /\ accFd' = None
    /\ UNCHANGED <<mainVars, fdVars, late, terminated>>

\* The descriptor is still a key of _workers: emplace inserts nothing, and the
\* destructor of the joinable std::thread calls std::terminate.
RegisterClash ==
    /\ acc = "register"
    /\ ~TooMany
    /\ workers[accFd] # None
    /\ Terminate("clash")
    /\ UNCHANGED mainVars

\* The constructor of std::thread throws: the system has no thread to give.
\* Nothing in OnRun catches it.
RegisterThrows ==
    /\ acc = "register"
    /\ ~TooMany
    /\ Terminate("no_thread")
    /\ UNCHANGED mainVars

----------------------------------------------------------------------------
(* A worker thread, _connection_processing. *)

Goto(c, from, to) ==
    /\ wpc[c] = from
    /\ wpc' = [wpc EXCEPT ![c] = to]

\* A worker goes on, and touches nothing that is shared.
WorkerGoto(c, from, to) ==
    /\ Goto(c, from, to)
    /\ UNCHANGED <<mainVars, accVars, regVars, fdVars, late, terminated>>

\* The flag is tested before every read, and before every round over the
\* chunk that was read.
WorkerCheck(c) == WorkerGoto(c, "check", IF running THEN "read" ELSE "close")

\* Mutant: the inner loop does not look at the flag.
ChunkCheck_Mutant(c) == WorkerGoto(c, "chunk", "round")

ChunkCheck(c) == WorkerGoto(c, "chunk", IF running THEN "round" ELSE "check")

\* read() returns bytes; or 0, when the client or Stop ended the stream, or
\* -1 after the receive timeout of five seconds or an error.
WorkerRead(c) ==
    \/ WorkerGoto(c, "read", "chunk")
    \/ WorkerGoto(c, "read", "close")

\* A round uses up the chunk without completing a command, or throws a
\* runtime_error: the parser or Build refuses the input.
RoundStops(c) ==
    \/ WorkerGoto(c, "round", "check")
    \/ WorkerGoto(c, "round", "close")

\* Only runtime_error is caught: any other exception of a round (no memory for
\* the argument, say) leaves the thread.
RoundThrows(c) ==
    /\ wpc[c] = "round"
    /\ Terminate("exception")
    /\ UNCHANGED mainVars

StopReturned ==
    main \in {"join", "waiting", "join_acceptor", "joined", "destroyed"}

\* A round completes a command and runs it; the worker is in send().
RoundExecutes(c) ==
    /\ Goto(c, "round", "send")
    /\ late' = IF StopReturned /\ late[c] < MaxLate
               THEN [late EXCEPT ![c] = @ + 1] ELSE late
    /\ UNCHANGED <<mainVars, accVars, regVars, fdVars, terminated>>

\* The blocking send() returns: the answer is with the system, and bytes of
\* the chunk are left or not; or it fails, and the loop is left by a throw.
\* There is no send timeout, and Stop shuts down reading only: a client that
\* does not read may keep the worker here for ever.
SendReturns(c, to) ==
    /\ to \in {"chunk", "check", "close"}
    /\ WorkerGoto(c, "send", to)

WorkerClose(c) ==
    /\ Goto(c, "close", "erase")
    /\ open' = open \ {wfd[c]}
    /\ shut' = shut \ {wfd[c]}
    /\ UNCHANGED <<mainVars, accVars, regVars, late, terminated>>

\* Mutant: emptiness is tested before the entry is erased.
WorkerErase_Mutant(c) ==
    /\ Goto(c, "erase", "gone")
    /\ workers' = [workers EXCEPT ![wfd[c]] = None]
    /\ notified' = IF main = "waiting" /\ Registered = {} THEN TRUE ELSE notified
    /\ UNCHANGED <<accVars, fdVars, running, listener, main, wfd, late,
                   terminated>>

\* Mutant: the entry stays in _workers.
WorkerErase_Kept(c) ==
    /\ Goto(c, "erase", "gone")
    /\ notified' = IF main = "waiting" /\ Registered \ {wfd[c]} = {}
                   THEN TRUE ELSE notified
    /\ UNCHANGED <<accVars, regVars, fdVars, running, listener, main, late,
                   terminated>>

\* The last section: the entry found under the descriptor is detached and
\* erased, and Join is notified when no entry is left.
WorkerErase(c) ==
    /\ Goto(c, "erase", "gone")
    /\ workers' = [workers EXCEPT ![wfd[c]] = None]
    /\ notified' = IF main = "waiting" /\ Registered \ {wfd[c]} = {}
                   THEN TRUE ELSE notified
    /\ UNCHANGED <<accVars, fdVars, running, listener, main, wfd, late,
                   terminated>>

\* The steps of a worker that end by themselves.
WorkerStep(c) ==
    \/ WorkerCheck(c) \/ WorkerRead(c) \/ ChunkCheck(c) \/ RoundStops(c)
    \/ RoundThrows(c) \/ RoundExecutes(c) \/ WorkerClose(c) \/ WorkerErase(c)

\* The steps of the acceptor that wait for nobody.
AcceptorGoesOn ==
    \/ AcceptCheck \/ AcceptFails \/ RegisterReject \/ RegisterClash
    \/ RegisterThrows
    \/ \E c \in Conn : Register(c)

\* The steps of Stop and Join.
StopGoesOn ==
    StopListener \/ StopWorkers \/ JoinTest \/ JoinWake \/ JoinAcceptor

Next ==
    /\ terminated = "no"
    /\ \/ Start \/ StopFlag \/ StopGoesOn \/ JoinSpurious \/ Destroy
       \/ AcceptorGoesOn
       \/ \E f \in Fd : Accept(f)
       \/ \E c \in Conn : WorkerStep(c)
       \/ \E c \in Conn, to \in {"chunk", "check", "close"} : SendReturns(c, to)

Spec == Init /\ [][Next]_vars

\* Threads that can go on do; read() returns because of the receive timeout.
\* Nothing makes a client connect or read its answers, Stop be called, or a
\* wait end by itself.
FairSpec ==
    /\ Spec
    /\ WF_vars(terminated = "no" /\ StopGoesOn)
    /\ WF_vars(terminated = "no" /\ AcceptorGoesOn)
    /\ \A c \in Conn : WF_vars(terminated = "no" /\ WorkerStep(c))

----------------------------------------------------------------------------
(* Properties. *)

MainStates == {"init", "failed", "serving", "stopping", "stop_workers", "join",
               "waiting", "join_acceptor", "joined", "destroyed"}

Causes == {"no", "clash", "no_thread", "exception", "destructor"}

\* A worker before it closes its descriptor, and before it leaves _workers.
HoldsFd == {"check", "read", "chunk", "round", "send", "close"}
Alive == HoldsFd \cup {"erase"}

\* Every variable stays in its type.
TypeOK ==
    /\ running \in BOOLEAN
    /\ listener \in {"closed", "listening", "shut"}
    /\ main \in MainStates
    /\ notified \in BOOLEAN
    /\ acc \in {"unborn", "check", "accept", "register", "exited"}
    /\ accFd \in Fd \cup {None}
    /\ workers \in [Fd -> Conn \cup {None}]
    /\ wpc \in [Conn -> Alive \cup {"unborn", "gone"}]
    /\ wfd \in [Conn -> Fd \cup {None}]
    /\ open \subseteq Fd
    /\ shut \subseteq open
    /\ late \in [Conn -> 0 .. MaxLate]
    /\ terminated \in Causes

\* _workers holds exactly the threads that have not left yet, each under its
\* own descriptor.  So the find() of a leaving worker succeeds and detaches
\* the worker's own thread, although its descriptor may already belong to a
\* newer connection.
RegistryExact ==
    /\ \A c \in Conn : wpc[c] \in Alive => wfd[c] \in Fd /\ workers[wfd[c]] = c
    /\ \A f \in Fd : workers[f] # None =>
                        wpc[workers[f]] \in Alive /\ wfd[workers[f]] = f

\* An open descriptor has one owner, the acceptor or one worker, and an owner's
\* descriptor is open: nobody reads, answers on or closes the connection of
\* another, and no descriptor leaks.
FdOwnership ==
    /\ acc = "register" <=> accFd # None
    /\ accFd # None => accFd \in open
    /\ \A c \in Conn : wpc[c] \in HoldsFd => wfd[c] \in open /\ wfd[c] # accFd
    /\ \A c, d \in Conn : /\ wpc[c] \in HoldsFd /\ wpc[d] \in HoldsFd
                           /\ wfd[c] = wfd[d]
                           => c = d
    /\ \A f \in open : \/ f = accFd
                        \/ \E c \in Conn : wpc[c] \in HoldsFd /\ wfd[c] = f

\* Never more threads than _max_connections.
ConnectionLimit == Cardinality(Registered) <= MaxConnections

\* Once Stop has returned a connection runs at most one more command: the one
\* whose round had passed the test of the flag.
LateOnce == \A c \in Conn : late[c] <= 1

\* After Stop, Join returns and all connections get closed, if the clients read
\* their answers: the notification of the last worker is not lost, and nobody
\* waits for ever for another thread (unless the process was terminated).  A
\* client that stops reading holds its worker in send(), and with it Join.
StopsCleanly ==
    (\A c \in Conn : []<>(wpc[c] # "send")) =>
        (main = "stopping" ~>
            (main \in {"joined", "destroyed"} /\ open = {}) \/ terminated # "no")

\* When Join has returned at most one worker is left: one that the acceptor
\* started between the last test of _workers and the end of the acceptor
\* ("Blocks calling thread until all workers will be stopped", Server.h:42,
\* up to that one).
JoinLeavesOne ==
    main \in {"joined", "destroyed"} =>
        Cardinality({c \in Conn : wpc[c] \in Alive}) <= 1

\* What the interleaving of threads can do to the process, apart from threads
\* or memory running out.  Emplacing a worker terminates it only if the
\* accepted connection got the descriptor of a worker that has closed it and
\* not yet left _workers; dropping the joined server only if exactly one
\* worker slipped past Join, and that worker is not in the way of another
\* registration: the acceptor is gone.
TerminateExplained ==
    /\ terminated = "clash" =>
          \E c \in Conn : wpc[c] = "erase" /\ wfd[c] = accFd
    /\ terminated = "destructor" =>
          /\ acc = "exited"
          /\ \E c \in Conn : /\ wpc[c] \in Alive
                             /\ \A d \in Conn \ {c} : wpc[d] \notin Alive
=============================================================================
