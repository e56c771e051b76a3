--------------------------- MODULE MTNonblocking ----------------------------
(***************************************************************************)
(* The epoll server, src/network/mt_nonblocking.  Acceptors (OnRun) create *)
(* a Connection for every client, register it with the epoll instance that *)
(* the workers share (EPOLLONESHOT) and enter it into _connections, which  *)
(* owns it through a unique_ptr; workers handle the events and delete the  *)
(* connections that were closed; the main thread calls Stop and Join.      *)
(*                                                                         *)
(* Every system call and every critical section is one step.  A Connection *)
(* is named by its client, so freed memory is never taken for a new one;   *)
(* input is counted in whole commands and output in whole answers.  After  *)
(* a fault (undefined behaviour or std::terminate) nothing is said.        *)
(***************************************************************************)
EXTENDS Integers, Sequences, FiniteSets

CONSTANTS
    Conn,       \* clients that may ever connect, and their Connections (bound)
    Fd,         \* numbers of descriptors for accepted sockets
    Acceptor,   \* _acceptors
    Worker,     \* _workers
    None,       \* no connection
    Leavers,    \* clients that may end their stream, reset the connection or
                \* send "bad" input, which is refused
    MaxCmds,    \* bound on the commands of a client
    MaxEvents,  \* size of mod_list
    Stops,      \* whether Stop is ever called
    CtlMayFail  \* whether epoll_create1 and epoll_ctl may fail

\* An event of epoll_wait: the Connection it was registered with, the flags.
Event == [conn : Conn, ev : SUBSET {"ERR", "RDHUP", "IN", "OUT"}]

ASSUME MTNAssumption ==
    /\ None \notin Conn \cup Fd \cup Event
    /\ Fd \subseteq Nat
    /\ MaxEvents \in Nat \ {0}
    /\ MaxCmds \in Nat
    /\ {Stops, CtlMayFail} \subseteq BOOLEAN

VARIABLES
    main,        \* where the main thread is
    running,     \* isRunning of each worker
    eventfd,     \* _event_fd was written; nobody ever reads it
    connections, \* _connections: descriptor -> Connection, None where absent
    apc, arun,   \* where each acceptor is, its local run flag
    aconn,       \* pc, the Connection in the acceptor's hand
    wpc,         \* where each worker is
    batch, cur,  \* events of mod_list not handled yet, and the current one
    heap,        \* Connection objects: "none", "live" or "freed"
    fd,          \* _socket
    alive,       \* _connection_alive
    events,      \* _event.events: "in", or "inout" with EPOLLOUT
    results,     \* _results: answers to be sent
    reg,         \* epoll registration: "no", "off" (disarmed), "in", "inout"
    net,         \* client: "new", "open", "shut" (FIN sent), "reset"
    rx,          \* input of the client that was not executed
    executed,    \* history: commands executed
    got,         \* history: answers sent
    fault        \* "none", or what went wrong

mainVars == <<main, running, eventfd>>
accVars == <<apc, arun, aconn>>
workVars == <<wpc, batch, cur>>
objVars == <<heap, fd, alive, events, results>>
netVars == <<net, rx>>
histVars == <<executed, got>>
vars == <<main, running, eventfd, connections, apc, arun, aconn, wpc, batch,
          cur, heap, fd, alive, events, results, reg, net, rx, executed, got,
          fault>>

\* A socket is closed by the destructor of its Connection.
UsedFds == {fd[c] : c \in {d \in Conn : heap[d] = "live"}}

\* accept4 returns the lowest number that is free.
Lowest(f) == f \notin UsedFds /\ \A g \in Fd \ UsedFds : f <= g

\* Connections established by the kernel that nobody has accepted.
Backlog == {c \in Conn : net[c] # "new" /\ heap[c] = "none"}

Init ==
    /\ main = "init"
    /\ running = [w \in Worker |-> FALSE]
    /\ eventfd = FALSE
    /\ connections = [f \in Fd |-> None]
    /\ apc = [a \in Acceptor |-> "unborn"]
    /\ arun = [a \in Acceptor |-> TRUE]
    /\ aconn = [a \in Acceptor |-> None]
    /\ wpc = [w \in Worker |-> "unborn"]
    /\ batch = [w \in Worker |-> {}]
    /\ cur = [w \in Worker |-> None]
    /\ heap = [c \in Conn |-> "none"]
    /\ fd = [c \in Conn |-> None]
    /\ alive = [c \in Conn |-> FALSE]
    /\ events = [c \in Conn |-> "in"]
    /\ results = [c \in Conn |-> 0]
    /\ reg = [c \in Conn |-> "no"]
    /\ net = [c \in Conn |-> "new"]
    /\ rx = [c \in Conn |-> <<>>]
    /\ executed = [c \in Conn |-> 0]
    /\ got = [c \in Conn |-> 0]
    /\ fault = "none"

\* delete of a Connection: ~Connection closes the socket, which also takes it
\* out of the epoll instance.
Delete(c) ==
    IF heap[c] = "live"
    THEN /\ heap' = [heap EXCEPT ![c] = "freed"]
         /\ reg' = [reg EXCEPT ![c] = "no"]
         /\ UNCHANGED fault
    ELSE /\ fault' = "double_free"
         /\ UNCHANGED <<heap, reg>>

----------------------------------------------------------------------------
(* The main thread. *)

\* Start throws when a system call fails, else all threads are running.
Start ==
    /\ main = "init"
    /\ \/ main' = "failed" /\ UNCHANGED <<running, apc, wpc>>
       \/ /\ main' = "serving"
          /\ running' = [w \in Worker |-> TRUE]
          /\ apc' = [a \in Acceptor |-> "start"]
          /\ wpc' = [w \in Worker |-> "loop"]
    /\ UNCHANGED <<objVars, netVars, histVars, eventfd, connections, arun, aconn,
                   batch, cur, reg, fault>>

MainGoto(from, to) ==
    /\ main = from
    /\ main' = to
    /\ UNCHANGED <<accVars, workVars, netVars, histVars, fd, alive, events,
                   results>>

\* Stop: first all the flags, ...
StopWorker(w) ==
    /\ Stops
    /\ main \in {"serving", "stopping"}
    /\ running[w]
    /\ MainGoto(main, "stopping")
    /\ running' = [running EXCEPT ![w] = FALSE]
    /\ UNCHANGED <<eventfd, connections, heap, reg, fault>>

\* Mutant: the event is not written.
Wakeup_Mutant ==
    /\ MainGoto("stopping", "freeing")
    /\ \A w \in Worker : ~running[w]
    /\ UNCHANGED <<running, eventfd, connections, heap, reg, fault>>

\* ... then the event that wakes everybody up, ...
Wakeup ==
    /\ MainGoto("stopping", "freeing")
    /\ \A w \in Worker : ~running[w]
    /\ eventfd' = TRUE
    /\ UNCHANGED <<running, connections, heap, reg, fault>>

\* ... then every connection in the map is destroyed, without the mutex.
FreeConnection(f) ==
    /\ connections[f] # None
    /\ MainGoto("freeing", "freeing")
    /\ Delete(connections[f])
    /\ connections' = [connections EXCEPT ![f] = None]
    /\ UNCHANGED <<running, eventfd>>

Cleared ==
    /\ MainGoto("freeing", "join")
    /\ \A f \in Fd : connections[f] = None
    /\ UNCHANGED <<running, eventfd, connections, heap, reg, fault>>

Join ==
    /\ MainGoto("join", "joined")
    /\ \A a \in Acceptor : apc[a] = "exited"
    /\ \A w \in Worker : wpc[w] = "exited"
    /\ UNCHANGED <<running, eventfd, connections, heap, reg, fault>>

\* The destructor of the server destroys what is in the map.
Destroy(f) ==
    /\ connections[f] # None
    /\ MainGoto("joined", "joined")
    /\ Delete(connections[f])
    /\ connections' = [connections EXCEPT ![f] = None]
    /\ UNCHANGED <<running, eventfd>>

Destroyed ==
    /\ MainGoto("joined", "destroyed")
    /\ \A f \in Fd : connections[f] = None
    /\ UNCHANGED <<running, eventfd, connections, heap, reg, fault>>

----------------------------------------------------------------------------
(* The clients. *)

Client(c, to) ==
    /\ main \notin {"init", "failed", "joined", "destroyed"}
    /\ heap[c] # "freed"
    /\ net' = [net EXCEPT ![c] = to]
    /\ UNCHANGED <<mainVars, accVars, workVars, objVars, histVars, connections,
                   reg, fault>>

Connect(c) ==
    /\ net[c] = "new"
    /\ Client(c, "open")
    /\ UNCHANGED rx

Send(c, m) ==
    /\ net[c] = "open"
    /\ m = "bad" => c \in Leavers
    /\ Len(rx[c]) + executed[c] < MaxCmds
    /\ Client(c, "open")
    /\ rx' = [rx EXCEPT ![c] = Append(@, m)]

\* The client ends its stream but still reads.
Shut(c) ==
    /\ c \in Leavers
    /\ net[c] = "open"
    /\ Client(c, "shut")
    /\ UNCHANGED rx

Reset(c) ==
    /\ c \in Leavers
    /\ net[c] \in {"open", "shut"}
    /\ Client(c, "reset")
    /\ rx' = [rx EXCEPT ![c] = <<>>]

----------------------------------------------------------------------------
(* An acceptor, ServerImpl::OnRun. *)

AcceptorGoto(a, from, to) ==
    /\ apc[a] = from
    /\ apc' = [apc EXCEPT ![a] = to]
    /\ UNCHANGED <<mainVars, workVars, netVars, histVars, results>>

\* The private epoll instance; nobody catches the exceptions of the thread.
AcceptorStart(a) ==
    /\ \/ AcceptorGoto(a, "start", "wait") /\ UNCHANGED fault
       \/ CtlMayFail /\ AcceptorGoto(a, "start", "exited")
             /\ fault' = "terminate"
    /\ UNCHANGED <<connections, arun, aconn, heap, fd, alive, events, reg>>

\* epoll_wait returns the listening socket, the event, or both: then the
\* sockets are still accepted before the thread ends.
AcceptorWake(a) ==
    /\ Backlog # {} \/ eventfd
    /\ AcceptorGoto(a, "wait", IF Backlog # {} THEN "accept" ELSE "exited")
    /\ arun' = [arun EXCEPT ![a] = ~eventfd]
    /\ UNCHANGED <<connections, aconn, heap, fd, alive, events, reg, fault>>

\* accept4 finds nobody, or no descriptor is left.
AcceptNone(a) ==
    /\ Backlog = {} \/ UsedFds = Fd
    /\ AcceptorGoto(a, "accept", IF arun[a] THEN "wait" ELSE "exited")
    /\ UNCHANGED <<connections, arun, aconn, heap, fd, alive, events, reg, fault>>

\* accept4, new Connection and Connection::Start.
AcceptOne(a, c, f) ==
    /\ c \in Backlog
    /\ Lowest(f)
    /\ AcceptorGoto(a, "accept", "add")
    /\ aconn' = [aconn EXCEPT ![a] = c]
    /\ heap' = [heap EXCEPT ![c] = "live"]
    /\ fd' = [fd EXCEPT ![c] = f]
    /\ alive' = [alive EXCEPT ![c] = TRUE]
    /\ events' = [events EXCEPT ![c] = "in"]
    /\ UNCHANGED <<connections, arun, reg, fault>>

AddConnection(a) ==
    /\ AcceptorGoto(a, "add", "insert")
    /\ reg' = [reg EXCEPT ![aconn[a]] = "in"]
    /\ UNCHANGED <<connections, arun, aconn, heap, fd, alive, events, fault>>

\* Mutant: the connection is closed, but not deleted.
AddFails_Mutant(a) ==
    /\ CtlMayFail
    /\ AcceptorGoto(a, "add", "accept")
    /\ alive' = [alive EXCEPT ![aconn[a]] = FALSE]
    /\ aconn' = [aconn EXCEPT ![a] = None]
    /\ UNCHANGED <<connections, arun, heap, reg, fault, fd, events>>

AddFails(a) ==
    /\ CtlMayFail
    /\ AcceptorGoto(a, "add", "accept")
    /\ alive' = [alive EXCEPT ![aconn[a]] = FALSE]
    /\ Delete(aconn[a])
    /\ aconn' = [aconn EXCEPT ![a] = None]
    /\ UNCHANGED <<connections, arun, fd, events>>

\* _connections.insert under the mutex; the unique_ptr that is not inserted
\* deletes the connection.  Stop walks the map without the mutex.
Insert(a) ==
    LET c == aconn[a] IN
    /\ AcceptorGoto(a, "insert", "accept")
    /\ \/ /\ main = "freeing"
          /\ fault' = "race"
          /\ UNCHANGED <<connections, heap, reg>>
       \/ /\ main # "freeing"
          /\ connections[fd[c]] = None
          /\ connections' = [connections EXCEPT ![fd[c]] = c]
          /\ UNCHANGED <<heap, reg, fault>>
       \/ /\ main # "freeing"
          /\ connections[fd[c]] # None
          /\ Delete(c)
          /\ UNCHANGED connections
    /\ aconn' = [aconn EXCEPT ![a] = None]
    /\ UNCHANGED <<arun, fd, alive, events>>

----------------------------------------------------------------------------
(* A worker, Worker::OnRun. *)

WorkerGoto(w, from, to) ==
    /\ wpc[w] = from
    /\ wpc' = [wpc EXCEPT ![w] = to]
    /\ UNCHANGED <<mainVars, accVars, connections, net, fd>>

WorkerLoop(w) ==
    /\ WorkerGoto(w, "loop", IF running[w] THEN "wait" ELSE "exited")
    /\ UNCHANGED <<batch, cur, heap, alive, events, results, reg, rx, histVars,
                   fault>>

\* What epoll reports of a registered socket.
Ready(c) ==
    IF net[c] = "reset" THEN {"ERR", "IN"}
    ELSE (IF net[c] = "shut" THEN {"RDHUP", "IN"} ELSE {})
         \cup (IF rx[c] # <<>> THEN {"IN"} ELSE {})
         \cup (IF reg[c] = "inout" THEN {"OUT"} ELSE {})

\* Mutant: EPOLLONESHOT is forgotten, the socket stays armed.
EpollWait_Mutant(w) ==
    LET R == {c \in Conn : reg[c] \in {"in", "inout"} /\ Ready(c) # {}} IN
    /\ R # {} \/ eventfd
    /\ \E B \in SUBSET R :
          /\ IF Cardinality(R) <= MaxEvents THEN B = R
             ELSE Cardinality(B) = MaxEvents
          /\ batch' = [batch EXCEPT ![w] = {[conn |-> c, ev |-> Ready(c)] : c \in B}]
          /\ UNCHANGED reg
    /\ WorkerGoto(w, "wait", "pick")
    /\ UNCHANGED <<cur, heap, alive, events, results, rx, histVars, fault>>

\* epoll_wait: events of armed sockets, which EPOLLONESHOT disarms, or the
\* event of Stop, which stays.
EpollWait(w) ==
    LET R == {c \in Conn : reg[c] \in {"in", "inout"} /\ Ready(c) # {}} IN
    /\ R # {} \/ eventfd
    /\ \E B \in SUBSET R :
          /\ IF Cardinality(R) <= MaxEvents THEN B = R
             ELSE Cardinality(B) = MaxEvents
          /\ batch' = [batch EXCEPT ![w] = {[conn |-> c, ev |-> Ready(c)] : c \in B}]
          /\ reg' = [c \in Conn |-> IF c \in B THEN "off" ELSE reg[c]]
    /\ WorkerGoto(w, "wait", "pick")
    /\ UNCHANGED <<cur, heap, alive, events, results, rx, histVars, fault>>

\* The next event of the batch decides what is called: OnError or OnClose
\* (the stream has ended: what was not read never will be), DoRead, DoWrite.
Pick(w, e) ==
    /\ heap[e.conn] = "live"
    /\ batch' = [batch EXCEPT ![w] = @ \ {e}]
    /\ cur' = [cur EXCEPT ![w] = e]
    /\ \/ /\ e.ev \cap {"ERR", "RDHUP"} # {}
          /\ WorkerGoto(w, "pick", "rearm")
          /\ alive' = [alive EXCEPT ![e.conn] = FALSE]
       \/ /\ e.ev \cap {"ERR", "RDHUP"} = {}
          /\ WorkerGoto(w, "pick", IF "IN" \in e.ev THEN "read" ELSE "write")
          /\ UNCHANGED alive
    /\ UNCHANGED <<heap, events, results, reg, rx, histVars, fault>>

BatchDone(w) ==
    /\ batch[w] = {}
    /\ WorkerGoto(w, "pick", "loop")
    /\ UNCHANGED <<batch, cur, heap, alive, events, results, reg, rx, histVars,
                   fault>>

AfterRead(w) == IF "OUT" \in cur[w].ev THEN "write" ELSE "rearm"

\* Mutant: the interest in EPOLLOUT is not asked for.
ReadCommand_Mutant(w) ==
    LET c == cur[w].conn IN
    /\ WorkerGoto(w, "read", "read")
    /\ heap[c] = "live"
    /\ rx[c] # <<>> /\ Head(rx[c]) = "cmd"
    /\ rx' = [rx EXCEPT ![c] = Tail(@)]
    /\ executed' = [executed EXCEPT ![c] = @ + 1]
    /\ results' = [results EXCEPT ![c] = @ + 1]
    /\ UNCHANGED <<events, batch, cur, heap, alive, reg, got, fault>>

\* DoRead, a command arrives and is executed.
ReadCommand(w) ==
    LET c == cur[w].conn IN
    /\ WorkerGoto(w, "read", "read")
    /\ heap[c] = "live"
    /\ rx[c] # <<>> /\ Head(rx[c]) = "cmd"
    /\ rx' = [rx EXCEPT ![c] = Tail(@)]
    /\ executed' = [executed EXCEPT ![c] = @ + 1]
    /\ results' = [results EXCEPT ![c] = @ + 1]
    /\ events' = [events EXCEPT ![c] = "inout"]
    /\ UNCHANGED <<batch, cur, heap, alive, reg, got, fault>>

Refused(c) == rx[c] # <<>> /\ Head(rx[c]) = "bad"

\* DoRead, the parser refuses the input, which stays in the buffer, or read
\* fails: an exception closes the connection.
ReadThrows(w) ==
    LET c == cur[w].conn IN
    /\ WorkerGoto(w, "read", AfterRead(w))
    /\ heap[c] = "live"
    /\ Refused(c) \/ net[c] = "reset"
    /\ alive' = [alive EXCEPT ![c] = FALSE]
    /\ UNCHANGED <<batch, cur, heap, events, results, reg, rx, histVars, fault>>

\* DoRead, nothing is left: read returns 0 or EAGAIN.
ReadDone(w) ==
    LET c == cur[w].conn IN
    /\ WorkerGoto(w, "read", AfterRead(w))
    /\ heap[c] = "live"
    /\ rx[c] = <<>> /\ net[c] # "reset"
    /\ UNCHANGED <<batch, cur, heap, alive, events, results, reg, rx, histVars,
                   fault>>

\* Mutant: the part that was not sent is dropped.
WriteAnswer_Mutant(w, n) ==
    LET c == cur[w].conn IN
    /\ WorkerGoto(w, "write", "rearm")
    /\ heap[c] = "live"
    /\ net[c] # "reset"
    /\ n \in 1 .. results[c]
    /\ results' = [results EXCEPT ![c] = 0]
    /\ got' = [got EXCEPT ![c] = @ + n]
    /\ events' = [events EXCEPT ![c] = "in"]
    /\ UNCHANGED <<batch, cur, heap, alive, reg, rx, executed, fault>>

\* DoWrite: send takes all of _results, which are not empty (ArmedForAnswers),
\* or a part.
WriteAnswer(w, n) ==
    LET c == cur[w].conn IN
    /\ WorkerGoto(w, "write", "rearm")
    /\ heap[c] = "live"
    /\ net[c] # "reset"
    /\ n \in 1 .. results[c]
    /\ results' = [results EXCEPT ![c] = @ - n]
    /\ got' = [got EXCEPT ![c] = @ + n]
    /\ events' = [events EXCEPT ![c] = IF n = results[c] THEN "in" ELSE "inout"]
    /\ UNCHANGED <<batch, cur, heap, alive, reg, rx, executed, fault>>

\* DoWrite, send returns -1: as an unsigned number that is not <= 0 and not
\* below the size of _results, so everything counts as sent.
WriteFails(w) ==
    LET c == cur[w].conn IN
    /\ WorkerGoto(w, "write", "rearm")
    /\ heap[c] = "live"
    /\ net[c] = "reset"
    /\ results' = [results EXCEPT ![c] = 0]
    /\ events' = [events EXCEPT ![c] = "in"]
    /\ UNCHANGED <<batch, cur, heap, alive, reg, rx, histVars, fault>>

\* The connection is armed again, ...
Rearm(w) ==
    LET c == cur[w].conn IN
    /\ WorkerGoto(w, "rearm", "pick")
    /\ heap[c] = "live"
    /\ alive[c]
    /\ reg' = [reg EXCEPT ![c] = events[c]]
    /\ cur' = [cur EXCEPT ![w] = None]
    /\ UNCHANGED <<batch, heap, alive, events, results, rx, histVars, fault>>

\* Mutant: its entry in _connections, which owns it, is erased as well.
CloseConnection_Mutant(w) ==
    LET c == cur[w].conn IN
    /\ WorkerGoto(w, "rearm", "pick")
    /\ heap[c] = "live"
    /\ ~alive[c] \/ CtlMayFail
    /\ fault' = IF connections[fd[c]] = c THEN "double_free" ELSE "none"
    /\ heap' = [heap EXCEPT ![c] = "freed"]
    /\ alive' = [alive EXCEPT ![c] = FALSE]
    /\ cur' = [cur EXCEPT ![w] = None]
    /\ UNCHANGED <<batch, events, results, rx, reg, histVars>>

\* ... or deleted if it was closed, or if it cannot be armed; its entry in
\* _connections stays.
CloseConnection(w) ==
    LET c == cur[w].conn IN
    /\ WorkerGoto(w, "rearm", "pick")
    /\ heap[c] = "live"
    /\ ~alive[c] \/ CtlMayFail
    /\ Delete(c)
    /\ alive' = [alive EXCEPT ![c] = FALSE]
    /\ cur' = [cur EXCEPT ![w] = None]
    /\ UNCHANGED <<batch, events, results, rx, histVars>>

\* The Connection of the event was freed by another thread.
UseAfterFree(w) ==
    /\ \/ wpc[w] = "pick" /\ \E e \in batch[w] : heap[e.conn] = "freed"
       \/ wpc[w] \in {"read", "write", "rearm"} /\ heap[cur[w].conn] = "freed"
    /\ fault' = "use_after_free"
    /\ UNCHANGED <<mainVars, accVars, workVars, objVars, netVars, histVars,
                   connections, reg>>

StopGoesOn ==
    \/ main = "stopping" /\ \E w \in Worker : StopWorker(w)
    \/ Wakeup \/ Cleared \/ Join \/ Destroyed
    \/ \E f \in Fd : FreeConnection(f) \/ Destroy(f)

AcceptorStep(a) ==
    \/ AcceptorStart(a) \/ AcceptorWake(a) \/ AcceptNone(a)
    \/ \E c \in Conn, f \in Fd : AcceptOne(a, c, f)
    \/ AddConnection(a) \/ AddFails(a) \/ Insert(a)

WorkerStep(w) ==
    \/ WorkerLoop(w) \/ EpollWait(w) \/ BatchDone(w)
    \/ \E e \in batch[w] : Pick(w, e)
    \/ ReadCommand(w) \/ ReadThrows(w) \/ ReadDone(w)
    \/ \E n \in 1 .. MaxCmds : WriteAnswer(w, n)
    \/ WriteFails(w) \/ Rearm(w) \/ CloseConnection(w) \/ UseAfterFree(w)

ClientStep(c) ==
    \/ Connect(c) \/ Shut(c) \/ Reset(c)
    \/ \E m \in {"cmd", "bad"} : Send(c, m)

Next ==
    /\ fault = "none"
    /\ \/ Start
       \/ main = "serving" /\ \E w \in Worker : StopWorker(w)
       \/ StopGoesOn
       \/ \E a \in Acceptor : AcceptorStep(a)
       \/ \E w \in Worker : WorkerStep(w)
       \/ \E c \in Conn : ClientStep(c)

Spec == Init /\ [][Next]_vars

\* Threads that can go on do: epoll_wait returns while something is ready.
\* Nothing makes a client do anything, or Stop be called.
FairSpec ==
    /\ Spec
    /\ WF_vars(fault = "none" /\ StopGoesOn)
    /\ \A a \in Acceptor : WF_vars(fault = "none" /\ AcceptorStep(a))
    /\ \A w \in Worker : WF_vars(fault = "none" /\ WorkerStep(w))

----------------------------------------------------------------------------
(* Properties. *)

\* The connections a worker has in its hands.
Held(w) ==
    {e.conn : e \in batch[w]}
        \cup (IF cur[w] = None THEN {} ELSE {cur[w].conn})

\* EPOLLONESHOT: a connection is in the hands of one worker at most, and is not
\* armed meanwhile; so no two threads ever run DoRead or DoWrite, which take no
\* lock, on the same Connection.
OneHandler ==
    /\ \A w \in Worker : \A c \in Held(w) :
          /\ reg[c] \in {"off", "no"}
          /\ \A v \in Worker \ {w} : c \notin Held(v)
    /\ \A w \in Worker : \A e, e2 \in batch[w] : e.conn = e2.conn => e = e2
    /\ \A w \in Worker : \A e \in batch[w] : cur[w] # None => e.conn # cur[w].conn

\* While a connection is armed it waits for EPOLLOUT exactly if there is
\* something to send: no answer is left behind, and send is never called for
\* nothing (it would return 0, which closes the connection).
ArmedForAnswers ==
    /\ \A c \in Conn : reg[c] \in {"in", "inout"} /\ net[c] # "reset" =>
                          (reg[c] = "inout") = (results[c] > 0)
    /\ \A w \in Worker : wpc[w] = "write" => results[cur[w].conn] > 0

\* While a client has a Connection, no answer is lost or sent twice: what was
\* executed was sent or is in _results.
AnswersConserved ==
    \A c \in Conn : net[c] # "reset" /\ heap[c] # "freed" =>
                       executed[c] = results[c] + got[c]

\* Answers are destroyed with their Connection only if the client has shut its
\* stream down (though it may still read, as the client of
\* itest/network_test.pl:58-67 does), if its next command was refused, if
\* _connections had an old entry under its descriptor, if epoll_ctl failed, or
\* by Stop (which Worker.h:44-47 says waits until the answers are sent).
DropsExplained ==
    \A c \in Conn : heap[c] = "freed" /\ got[c] < executed[c] =>
        \/ net[c] \in {"shut", "reset"}
        \/ Refused(c)
        \/ connections[fd[c]] \notin {None, c}
        \/ CtlMayFail
        \/ main \notin {"serving", "stopping"}

\* Answers are neither forgotten by epoll nor lost or repeated on their way, and
\* none is thrown away for another reason than these.
AnswersSafe == ArmedForAnswers /\ AnswersConserved /\ DropsExplained

\* When the server object is gone no Connection is left, and none before that
\* is lost: who will delete it is the acceptor that holds it or the map.
NothingLeaks ==
    \A c \in Conn : heap[c] = "live" /\ fault = "none" =>
        \/ \E a \in Acceptor : aconn[a] = c
        \/ connections[fd[c]] = c

\* Until Stop destroys the connections, a thread touches or deletes a Connection
\* that was deleted only when a descriptor was used again: the map has another
\* connection under its number.  ServerImpl.cpp:216 deletes the one that it does
\* not enter, which workers serve already or, with several acceptors, which they
\* have deleted; a worker is in trouble only if the other one is gone as well.
FaultNeedsReuse ==
    main \in {"serving", "stopping"} /\ fault \notin {"none", "terminate"} =>
        \E c, d \in Conn :
            /\ c # d /\ fd[c] = fd[d]
            /\ heap[d] = "freed"
            /\ connections[fd[d]] = c
            /\ fault = "use_after_free" => heap[c] = "freed"

\* The workers answer what a client sends, as long as it stays and its
\* Connection is not deleted.
Answered ==
    \A c \in Conn : rx[c] # <<>> /\ heap[c] = "live" ~>
        \/ rx[c] = <<>> /\ results[c] = 0
        \/ net[c] # "open" \/ heap[c] = "freed"
        \/ main # "serving" \/ fault # "none"

\* After Stop all threads end, whatever the clients do: the event is not read
\* by anybody, so one write wakes all of them, and flags are cleared before it.
StopEnds == main = "stopping" ~> main = "destroyed" \/ fault # "none"
=============================================================================
