--------------------------- MODULE STNonblocking ----------------------------
(***************************************************************************)
(* The epoll server with one thread, src/network/st_nonblocking.  OnRun    *)
(* accepts clients, handles the events of their connections (level         *)
(* triggered) and destroys the closed ones; _connections owns them.  The   *)
(* main thread calls Stop, which destroys all connections by itself, and   *)
(* Join.                                                                   *)
(*                                                                         *)
(* A step is a system call or what lies between two accesses to state the  *)
(* threads share.  Connections are named by their clients; input is        *)
(* counted in commands and output in answers.  After a fault nothing is    *)
(* said.                                                                   *)
(***************************************************************************)
EXTENDS Integers, Sequences, FiniteSets

CONSTANTS
    Conn,       \* clients that may ever connect, and their Connections (bound)
    Fd,         \* numbers of descriptors for accepted sockets
    None,       \* no connection
    Leavers,    \* clients that may end their stream, reset the connection or
                \* send "bad" input, which is refused
    MaxCmds,    \* bound on the commands of a client
    Stops,      \* whether Stop is ever called
    CtlMayFail  \* whether epoll_create1 and epoll_ctl may fail

ASSUME STNAssumption ==
    /\ None \notin Conn \cup Fd
    /\ Fd \subseteq Nat
    /\ MaxCmds \in Nat
    /\ {Stops, CtlMayFail} \subseteq BOOLEAN

VARIABLES
    main,        \* where the main thread is
    eventfd,     \* _event_fd was written
    connections, \* _connections: descriptor -> Connection, None where absent
    pc, run,     \* where OnRun is, its local flag
    batch, cur,  \* events of mod_list not handled yet, and the current one
    old_mask,    \* events of the connection before it was handled
    heap,        \* Connection objects: "none", "live" or "freed"
    fd, alive,   \* _socket, _connection_alive
    events,      \* _event.events: "in", or "inout" with EPOLLOUT
    results,     \* _results: answers to be sent
    reg,         \* interest the kernel knows: "no", "in" or "inout"
    net,         \* client: "new", "open", "shut" (FIN sent), "reset"
    rx,          \* input of the client that was not executed
    executed,    \* history: commands executed
    got,         \* history: answers sent
    fault        \* "none", or what went wrong

loopVars == <<pc, run, batch, cur, old_mask>>
objVars == <<heap, fd, alive, events, results>>
histVars == <<executed, got>>
vars == <<main, eventfd, connections, pc, run, batch, cur, old_mask, heap, fd,
          alive, events, results, reg, net, rx, executed, got, fault>>

UsedFds == {fd[c] : c \in {d \in Conn : heap[d] = "live"}}

\* accept4 returns the lowest number that is free.
Lowest(f) == f \notin UsedFds /\ \A g \in Fd \ UsedFds : f <= g

Backlog == {c \in Conn : net[c] # "new" /\ heap[c] = "none"}

\* The event of the listening socket.
Listen == [conn |-> None, ev |-> {"IN"}]

Init ==
    /\ main = "init"
    /\ eventfd = FALSE
    /\ connections = [f \in Fd |-> None]
    /\ pc = "unborn"
    /\ run = TRUE
    /\ batch = {}
    /\ cur = None
    /\ old_mask = "in"
    /\ heap = [c \in Conn |-> "none"]
    /\ fd = [c \in Conn |-> None]
    /\ alive = [c \in Conn |-> FALSE]
    /\ events = [c \in Conn |-> "in"]
    /\ results = [c \in Conn |-> 0]
    /\ reg = [c \in Conn |-> "no"]
    /\ net = [c \in Conn |-> "new"]
    /\ rx = [c \in Conn |-> <<>>]
    /\ executed = [c \in Conn |-> 0]
    /\ got = [c \in Conn |-> 0]
    /\ fault = "none"

\* ~Connection closes the socket, which takes it out of the epoll instance.
Delete(c) ==
    IF heap[c] = "live"
    THEN /\ heap' = [heap EXCEPT ![c] = "freed"]
         /\ reg' = [reg EXCEPT ![c] = "no"]
         /\ UNCHANGED fault
    ELSE /\ fault' = "double_free"
         /\ UNCHANGED <<heap, reg>>

----------------------------------------------------------------------------
(* The main thread. *)

MainGoto(from, to) ==
    /\ main = from
    /\ main' = to
    /\ UNCHANGED <<run, batch, cur, old_mask, fd, alive, events, results, net, rx,
                   histVars>>

Start ==
    /\ \/ MainGoto("init", "failed") /\ UNCHANGED pc
       \/ MainGoto("init", "serving") /\ pc' = "start"
    /\ UNCHANGED <<eventfd, connections, heap, reg, fault>>

\* Mutant: the event is not written.
StopWakeup_Mutant ==
    /\ Stops
    /\ MainGoto("serving", "freeing")
    /\ UNCHANGED <<eventfd, pc, connections, heap, reg, fault>>

StopWakeup ==
    /\ Stops
    /\ MainGoto("serving", "freeing")
    /\ eventfd' = TRUE
    /\ UNCHANGED <<pc, connections, heap, reg, fault>>

\* Stop destroys the connections; OnRun may be at work with them.
StopFree(f) ==
    /\ connections[f] # None
    /\ MainGoto("freeing", "freeing")
    /\ Delete(connections[f])
    /\ connections' = [connections EXCEPT ![f] = None]
    /\ UNCHANGED <<pc, eventfd>>

StopClear ==
    /\ MainGoto("freeing", "join")
    /\ \A f \in Fd : connections[f] = None
    /\ UNCHANGED <<pc, eventfd, connections, heap, reg, fault>>

Join ==
    /\ MainGoto("join", "joined")
    /\ pc = "exited"
    /\ UNCHANGED <<pc, eventfd, connections, heap, reg, fault>>

----------------------------------------------------------------------------
(* The clients. *)

Client(c, to) ==
    /\ pc \notin {"unborn", "exited"} \* before and after nobody notices
    /\ heap[c] # "freed"
    /\ net' = [net EXCEPT ![c] = to]
    /\ UNCHANGED <<loopVars, objVars, histVars, main, eventfd, connections, reg,
                   fault>>

Connect(c) == net[c] = "new" /\ Client(c, "open") /\ UNCHANGED rx

Send(c, m) ==
    /\ net[c] = "open"
    /\ m = "bad" => c \in Leavers
    /\ Len(rx[c]) + executed[c] < MaxCmds
    /\ Client(c, "open")
    /\ rx' = [rx EXCEPT ![c] = Append(@, m)]

Shut(c) == c \in Leavers /\ net[c] = "open" /\ Client(c, "shut") /\ UNCHANGED rx

Reset(c) ==
    /\ c \in Leavers
    /\ net[c] \in {"open", "shut"}
    /\ Client(c, "reset")
    /\ rx' = [rx EXCEPT ![c] = <<>>]

----------------------------------------------------------------------------
(* The thread, OnRun. *)

LoopGoto(from, to) ==
    /\ pc = from
    /\ pc' = to
    /\ UNCHANGED <<main, eventfd, net>>

\* The epoll instance; nobody catches the exceptions of the thread.
LoopStart ==
    /\ \/ LoopGoto("start", "wait") /\ UNCHANGED fault
       \/ CtlMayFail /\ LoopGoto("start", "exited") /\ fault' = "terminate"
    /\ UNCHANGED <<objVars, histVars, connections, run, batch, cur, old_mask, reg,
                   rx>>

\* What epoll reports of a connection.
Ready(c) ==
    IF net[c] = "reset" THEN {"ERR", "IN"}
    ELSE (IF net[c] = "shut" THEN {"RDHUP", "IN"} ELSE {})
         \cup (IF rx[c] # <<>> THEN {"IN"} ELSE {})
         \cup (IF reg[c] = "inout" THEN {"OUT"} ELSE {})

\* epoll_wait returns everything that is ready; the event of Stop ends the loop
\* after this batch.
EpollWait ==
    LET R == {c \in Conn : reg[c] # "no" /\ Ready(c) # {}} IN
    /\ run
    /\ R # {} \/ Backlog # {} \/ eventfd
    /\ LoopGoto("wait", "pick")
    /\ batch' = {[conn |-> c, ev |-> Ready(c)] : c \in R}
                   \cup (IF Backlog # {} THEN {Listen} ELSE {})
    /\ run' = ~eventfd
    /\ UNCHANGED <<objVars, histVars, connections, cur, old_mask, reg, rx, fault>>

LoopEnds ==
    /\ ~run
    /\ LoopGoto("wait", "exited")
    /\ UNCHANGED <<objVars, histVars, connections, run, batch, cur, old_mask, reg,
                   rx, fault>>

BatchDone ==
    /\ batch = {}
    /\ LoopGoto("pick", "wait")
    /\ UNCHANGED <<objVars, histVars, connections, run, batch, cur, old_mask, reg,
                   rx, fault>>

PickListen ==
    /\ Listen \in batch
    /\ LoopGoto("pick", "accept")
    /\ batch' = batch \ {Listen}
    /\ UNCHANGED <<objVars, histVars, connections, run, cur, old_mask, reg, rx,
                   fault>>

\* OnNewConnection: accept4, new Connection, Start and ADD, then the map.  The
\* unique_ptr that cannot be inserted would destroy the connection.
AcceptOne(c, f) ==
    /\ c \in Backlog
    /\ Lowest(f)
    /\ LoopGoto("accept", "accept")
    /\ fd' = [fd EXCEPT ![c] = f]
    /\ events' = [events EXCEPT ![c] = "in"]
    /\ \/ /\ main = "freeing"
          /\ fault' = "race"
          /\ UNCHANGED <<connections, heap, alive, reg>>
       \/ /\ main # "freeing"
          /\ LET taken == connections[f] # None IN
                /\ heap' = [heap EXCEPT ![c] = IF taken THEN "freed" ELSE "live"]
                /\ reg' = [reg EXCEPT ![c] = IF taken THEN "no" ELSE "in"]
                /\ connections' = IF taken THEN connections
                                  ELSE [connections EXCEPT ![f] = c]
          /\ alive' = [alive EXCEPT ![c] = TRUE]
          /\ UNCHANGED fault
    /\ UNCHANGED <<histVars, run, batch, cur, old_mask, results, rx>>

\* ADD fails: the connection is deleted, and an exception ends the acceptance.
AcceptAddFails(c, f) ==
    /\ CtlMayFail
    /\ c \in Backlog
    /\ Lowest(f)
    /\ LoopGoto("accept", "pick")
    /\ heap' = [heap EXCEPT ![c] = "freed"]
    /\ fd' = [fd EXCEPT ![c] = f]
    /\ UNCHANGED <<histVars, connections, run, batch, cur, old_mask, alive, events,
                   results, reg, rx, fault>>

AcceptNone ==
    /\ Backlog = {} \/ UsedFds = Fd
    /\ LoopGoto("accept", "pick")
    /\ UNCHANGED <<objVars, histVars, connections, run, batch, cur, old_mask, reg,
                   rx, fault>>

\* The event of a connection: OnError or OnClose, DoRead, DoWrite.
Pick(e) ==
    /\ e # Listen
    /\ heap[e.conn] = "live"
    /\ batch' = batch \ {e}
    /\ cur' = e
    /\ old_mask' = events[e.conn]
    /\ \/ /\ e.ev \cap {"ERR", "RDHUP"} # {}
          /\ LoopGoto("pick", "after")
          /\ alive' = [alive EXCEPT ![e.conn] = FALSE]
       \/ /\ e.ev \cap {"ERR", "RDHUP"} = {}
          /\ LoopGoto("pick", IF "IN" \in e.ev THEN "read" ELSE "write")
          /\ UNCHANGED alive
    /\ UNCHANGED <<histVars, connections, run, heap, fd, events, results, reg, rx,
                   fault>>

\* A step that handles the current connection.
Handle(from, to) ==
    /\ LoopGoto(from, to)
    /\ heap[cur.conn] = "live"
    /\ UNCHANGED <<run, batch, cur, old_mask, fd>>

AfterRead == IF "OUT" \in cur.ev THEN "write" ELSE "after"

\* Mutant: the interest in EPOLLOUT is not asked for.
ReadCommand_Mutant ==
    LET c == cur.conn IN
    /\ Handle("read", "read")
    /\ rx[c] # <<>> /\ Head(rx[c]) = "cmd"
    /\ rx' = [rx EXCEPT ![c] = Tail(@)]
    /\ executed' = [executed EXCEPT ![c] = @ + 1]
    /\ results' = [results EXCEPT ![c] = @ + 1]
    /\ UNCHANGED <<events, connections, heap, alive, reg, got, fault>>

ReadCommand ==
    LET c == cur.conn IN
    /\ Handle("read", "read")
    /\ rx[c] # <<>> /\ Head(rx[c]) = "cmd"
    /\ rx' = [rx EXCEPT ![c] = Tail(@)]
    /\ executed' = [executed EXCEPT ![c] = @ + 1]
    /\ results' = [results EXCEPT ![c] = @ + 1]
    /\ events' = [events EXCEPT ![c] = "inout"]
    /\ UNCHANGED <<connections, heap, alive, reg, got, fault>>

Refused(c) == rx[c] # <<>> /\ Head(rx[c]) = "bad"

\* The parser refuses the input, which stays in the buffer, or read fails.
ReadThrows ==
    LET c == cur.conn IN
    /\ Handle("read", AfterRead)
    /\ Refused(c) \/ net[c] = "reset"
    /\ alive' = [alive EXCEPT ![c] = FALSE]
    /\ UNCHANGED <<histVars, connections, heap, events, results, reg, rx, fault>>

ReadDone ==
    /\ Handle("read", AfterRead)
    /\ rx[cur.conn] = <<>> /\ net[cur.conn] # "reset"
    /\ UNCHANGED <<histVars, connections, heap, alive, events, results, reg, rx,
                   fault>>

\* send takes all of _results, which are not empty (WatchedForAnswers), or a
\* part.
WriteAnswer(n) ==
    LET c == cur.conn IN
    /\ Handle("write", "after")
    /\ net[c] # "reset"
    /\ n \in 1 .. results[c]
    /\ results' = [results EXCEPT ![c] = @ - n]
    /\ got' = [got EXCEPT ![c] = @ + n]
    /\ events' = [events EXCEPT ![c] = IF n = results[c] THEN "in" ELSE "inout"]
    /\ UNCHANGED <<connections, heap, alive, reg, rx, executed, fault>>

\* send returns -1, which is not negative as an unsigned number: all is sent.
WriteFails ==
    /\ Handle("write", "after")
    /\ net[cur.conn] = "reset"
    /\ results' = [results EXCEPT ![cur.conn] = 0]
    /\ events' = [events EXCEPT ![cur.conn] = "in"]
    /\ UNCHANGED <<histVars, connections, heap, alive, reg, rx, fault>>

\* Mutant: it is also deleted by hand.
CloseConnection_Twice ==
    LET c == cur.conn IN
    /\ Handle("after", "pick")
    /\ ~alive[c]
    /\ heap' = [heap EXCEPT ![c] = "freed"]
    /\ fault' = "double_free"
    /\ connections' = [connections EXCEPT ![fd[c]] = None]
    /\ UNCHANGED <<histVars, alive, events, results, reg, rx>>

\* A closed connection is moved out of the map, which Stop may be walking
\* through, and destroyed.
CloseConnection ==
    LET c == cur.conn IN
    /\ Handle("after", "pick")
    /\ ~alive[c]
    /\ \/ /\ main = "freeing"
          /\ fault' = "race"
          /\ UNCHANGED <<connections, heap, reg>>
       \/ /\ main # "freeing"
          /\ Delete(c)
          /\ connections' = [connections EXCEPT ![fd[c]] = None]
    /\ UNCHANGED <<histVars, alive, events, results, rx>>

\* Mutant: only a new interest in EPOLLOUT is passed on.
Rearm_Mutant ==
    LET c == cur.conn IN
    /\ Handle("after", "pick")
    /\ alive[c]
    /\ reg' = [reg EXCEPT ![c] = IF events[c] = "inout" THEN events[c] ELSE @]
    /\ UNCHANGED <<histVars, connections, heap, alive, events, results, rx, fault>>

\* The kernel is told about the interest only if it has changed.
Rearm ==
    LET c == cur.conn IN
    /\ Handle("after", "pick")
    /\ alive[c]
    /\ reg' = [reg EXCEPT ![c] = IF events[c] # old_mask THEN events[c] ELSE @]
    /\ UNCHANGED <<histVars, connections, heap, alive, events, results, rx, fault>>

\* MOD fails: erase destroys the connection, then OnError is called on it and
\* it is deleted once more.
RearmFails ==
    LET c == cur.conn IN
    /\ CtlMayFail
    /\ Handle("after", "pick")
    /\ alive[c]
    /\ events[c] # old_mask
    /\ connections' = [connections EXCEPT ![fd[c]] = None]
    /\ heap' = [heap EXCEPT ![c] = "freed"]
    /\ reg' = [reg EXCEPT ![c] = "no"]
    /\ fault' = "failed_mod"
    /\ UNCHANGED <<histVars, alive, events, results, rx>>

\* The connection was destroyed by Stop.
UseAfterFree ==
    /\ \/ pc = "pick" /\ \E e \in batch : e # Listen /\ heap[e.conn] = "freed"
       \/ pc \in {"read", "write", "after"} /\ heap[cur.conn] = "freed"
    /\ fault' = "use_after_free"
    /\ UNCHANGED <<loopVars, objVars, histVars, main, eventfd, connections, reg,
                   net, rx>>

MainStep ==
    \/ Start \/ StopWakeup \/ StopClear \/ Join
    \/ \E f \in Fd : StopFree(f)

LoopStep ==
    \/ LoopStart \/ EpollWait \/ LoopEnds \/ BatchDone \/ PickListen \/ AcceptNone
    \/ \E c \in Conn, f \in Fd : AcceptOne(c, f) \/ AcceptAddFails(c, f)
    \/ \E e \in batch : Pick(e)
    \/ ReadCommand \/ ReadThrows \/ ReadDone
    \/ \E n \in 1 .. MaxCmds : WriteAnswer(n)
    \/ WriteFails \/ CloseConnection \/ Rearm \/ RearmFails \/ UseAfterFree

ClientStep(c) ==
    \/ Connect(c) \/ Shut(c) \/ Reset(c)
    \/ \E m \in {"cmd", "bad"} : Send(c, m)

Next ==
    /\ fault = "none"
    /\ MainStep \/ LoopStep \/ \E c \in Conn : ClientStep(c)

Spec == Init /\ [][Next]_vars

\* The threads go on while they can: epoll_wait returns while something is
\* ready.  Nothing makes a client do anything, or Stop be called.
FairSpec ==
    /\ Spec
    /\ WF_vars(fault = "none" /\ LoopStep)
    /\ WF_vars(fault = "none" /\ main \in {"freeing", "join"} /\ MainStep)

----------------------------------------------------------------------------
(* Properties. *)

\* When the thread waits, EPOLLOUT is watched for exactly the connections with
\* something to send: no answer is left behind, the thread does not spin, and
\* send is never called for nothing (it would return 0, which closes the
\* connection).
WatchedForAnswers ==
    /\ pc = "wait" /\ main = "serving" => \A c \in Conn :
          heap[c] = "live" /\ net[c] # "reset" =>
              (reg[c] = "inout") = (results[c] > 0)
    /\ pc = "write" => results[cur.conn] > 0

\* While a client has a Connection, no answer is lost or sent twice.
AnswersConserved ==
    \A c \in Conn : net[c] # "reset" /\ heap[c] # "freed" =>
                       executed[c] = results[c] + got[c]

\* Answers are destroyed with their Connection only if the client has shut its
\* stream down (though it may still read, as the client of
\* itest/network_test.pl:58-67 does), if its next command was refused, if
\* EPOLL_CTL_MOD failed, or by Stop.
DropsExplained ==
    \A c \in Conn : heap[c] = "freed" /\ got[c] < executed[c] =>
        \/ net[c] \in {"shut", "reset"}
        \/ Refused(c)
        \/ fault = "failed_mod"
        \/ main # "serving"

\* Answers are neither forgotten by epoll nor lost or repeated on their way, and
\* none is thrown away for another reason than these.
AnswersSafe == WatchedForAnswers /\ AnswersConserved /\ DropsExplained

\* Until Stop is called the thread never touches or deletes a connection that
\* was destroyed, except right after EPOLL_CTL_MOD has failed
\* (ServerImpl.cpp:189-191); and what the map owns is never deleted twice, by
\* Stop neither.
NoFault ==
    /\ main = "serving" => fault \in {"none", "terminate", "failed_mod"}
    /\ fault # "double_free"

\* The server answers what a client sends, as long as it stays and its
\* connection is not closed because of bad input or a failed ADD.
Answered ==
    \A c \in Conn : rx[c] # <<>> ~>
        \/ rx[c] = <<>> /\ results[c] = 0
        \/ net[c] # "open"
        \/ heap[c] = "freed" /\ ~alive[c]
        \/ main # "serving" \/ fault # "none"

\* After Stop the thread ends and Join returns, whatever the clients do.
StopEnds == main = "freeing" ~> main = "joined" \/ fault # "none"
=============================================================================
