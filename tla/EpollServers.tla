---------------------------- MODULE EpollServers ----------------------------
(***************************************************************************)
(* The two epoll programs of afina/materials/05-non-blocking-network:      *)
(* epoll-example.c, which copies what its clients send to standard output  *)
(* and is edge-triggered, and echo.c, which sends it back and removes a    *)
(* descriptor from the epoll set while it is handled.  Which program runs  *)
(* is fixed by prog.  All descriptors are non-blocking.  The bytes of a    *)
(* client are numbered 1, 2, ...; a write may take fewer bytes than asked. *)
(***************************************************************************)
EXTENDS Naturals, Sequences, FiniteSets, SequencesExt, FiniteSetsExt

CONSTANTS Peers,      \* connections
          Serverfd,   \* the listening socket: sfd, serverfd
          MAXLEN,     \* size of the buffer of one read
          MaxBytes    \* bytes each client sends

ASSUME EpAssumption ==
  /\ Serverfd \notin Peers
  /\ MAXLEN \in Nat \ {0}
  /\ MaxBytes \in [Peers -> Nat]

VARIABLES
  prog,      \* "example" or "echo"
  ePc,       \* where main is
  armed,     \* descriptor -> the events it is registered for, "IN", "OUT" or "no"
  edge,      \* EPOLLET of the example: descriptors with an edge not reported yet
  events,    \* the events of this epoll_wait that are not handled yet
  waiting,   \* connections that are not accepted yet
  conn,      \* the server's end of each connection
  echoEvent, \* the EchoEvent of each connection, of echo.c
  output,    \* what each client was sent back, or its part of standard output; 0
             \* stands for a byte that was not put out there
  stale,     \* history: connections that had a chunk read while offset was not 0
  short      \* history: connections of which a write to standard output was short

ctlVars == <<armed, edge>>
dataVars == <<echoEvent, output, stale, short>>
epVars == <<prog, ePc, ctlVars, events, waiting, conn, dataVars>>

EpInit(pc0, progs) ==
  /\ prog \in progs
  /\ ePc = pc0
  /\ armed = [f \in Peers \cup {Serverfd} |-> "no"]
  /\ edge = {} /\ events = {} /\ waiting = <<>>
  /\ conn = [c \in Peers |-> [state |-> "new", sent |-> 0, unread |-> <<>>, end |-> "none"]]
  /\ echoEvent = [c \in Peers |-> [data |-> [i \in 1..MAXLEN |-> 0], length |-> 0, offset |-> 0]]
  /\ output = [c \in Peers |-> <<>>]
  /\ stale = {}
  /\ short = {}

----------------------------------------------------------------------------
(* The clients and the network.                                            *)

NewEdge(f) == IF prog = "example" THEN edge \cup {f} ELSE edge

PeerConnects(c) ==
  /\ conn[c].state = "new" /\ ePc \notin {"off", "setup", "exit"}
  /\ conn' = [conn EXCEPT ![c].state = "queued"]
  /\ waiting' = Append(waiting, c)
  /\ edge' = NewEdge(Serverfd)
  /\ UNCHANGED <<prog, ePc, armed, events, dataVars>>

\* A byte is sent, the client closes, or the connection is reset.
PeerActs(c) ==
  /\ conn[c].state \in {"queued", "open"} /\ conn[c].end = "none" /\ ePc # "exit"
  /\ \/ /\ conn[c].sent < MaxBytes[c]
        /\ conn' = [conn EXCEPT ![c].sent = @ + 1, ![c].unread = Append(@, conn[c].sent + 1)]
     \/ \E e \in {"fin", "rst"} : conn' = [conn EXCEPT ![c].end = e]
  /\ edge' = NewEdge(c)
  /\ UNCHANGED <<prog, ePc, armed, events, waiting, dataVars>>

----------------------------------------------------------------------------
(* The epoll set.                                                          *)

Readable(f) == IF f = Serverfd THEN waiting # <<>> ELSE conn[f].unread # <<>> \/ conn[f].end # "none"
Broken(f) == f # Serverfd /\ conn[f].end = "rst"
Has(f) == armed[f] # "no" /\ (Broken(f) \/ armed[f] = "OUT" \/ Readable(f))

\* epoll_wait: with EPOLLET a descriptor is reported once for each edge.
Reported ==
  {[fd |-> f, events |-> IF Broken(f) THEN "ERR" ELSE armed[f]] :
     f \in {g \in DOMAIN armed : Has(g) /\ (prog = "example" => g \in edge)}}

\* close takes the descriptor out of the epoll set.
CloseFd(c) ==
  /\ conn' = [conn EXCEPT ![c].state = "closed"]
  /\ armed' = [armed EXCEPT ![c] = "no"]
Handled(e) == events' = events \ {e} /\ ePc' = IF events' = {} THEN "wait" ELSE "handle"

----------------------------------------------------------------------------
(* The loop of both programs.                                              *)

\* Creation of the socket and the epoll set, both of which may fail.
SetsUp(ok) ==
  /\ ePc = "setup"
  /\ ePc' = IF ok THEN "wait" ELSE "exit"
  /\ armed' = [armed EXCEPT ![Serverfd] = "IN"]
  /\ UNCHANGED <<prog, edge, events, waiting, conn, dataVars>>

EpollWait ==
  /\ ePc = "wait" /\ Reported # {}
  /\ events' = Reported /\ ePc' = "handle"
  /\ edge' = edge \ {e.fd : e \in Reported}
  /\ UNCHANGED <<prog, armed, waiting, conn, dataVars>>

\* exit(1) and abort(): fcntl, epoll_wait, epoll_ctl or the write to standard output fails.
CallFails ==
  /\ ePc \in {"wait", "handle"}
  /\ ePc' = "exit"
  /\ UNCHANGED <<prog, ctlVars, events, waiting, conn, dataVars>>

\* EPOLLERR or EPOLLHUP of a connection: close, whatever is still unread.
HandleError(e) ==
  /\ ePc = "handle" /\ e \in events /\ e.events = "ERR"
  /\ CloseFd(e.fd) /\ Handled(e)
  /\ UNCHANGED <<prog, edge, waiting, dataVars>>

\* The first connection that waits is accepted and registered.
AcceptFirst ==
  LET c == Head(waiting) IN
  /\ waiting # <<>>
  /\ waiting' = Tail(waiting)
  /\ conn' = [conn EXCEPT ![c].state = "open"]
  /\ armed' = [armed EXCEPT ![c] = "IN"]
  /\ edge' = NewEdge(c)

\* epoll-example.c accepts until accept fails, because nothing is waiting or for
\* another reason (no descriptor is left, the client is gone).
HandleAccept(e) ==
  /\ prog = "example" /\ ePc = "handle" /\ e \in events /\ e.fd = Serverfd
  /\ UNCHANGED <<prog, dataVars>>
  /\ \/ AcceptFirst /\ UNCHANGED <<events, ePc>>
     \/ Handled(e) /\ UNCHANGED <<ctlVars, waiting, conn>>

\* echo.c accepts one connection, and exits if accept fails.
EchoAccept(e) ==
  /\ prog = "echo" /\ ePc = "handle" /\ e \in events /\ e.fd = Serverfd
  /\ UNCHANGED <<prog, dataVars>>
  /\ \/ AcceptFirst /\ Handled(e)
     \/ ePc' = "exit" /\ UNCHANGED <<ctlVars, events, waiting, conn>>

----------------------------------------------------------------------------
(* epoll-example.c: read until nothing is left.                            *)

\* Mutant: one read for one event.
HandleRead_Mutant(e) ==
  /\ prog = "example" /\ ePc = "handle" /\ e \in events /\ e.fd # Serverfd /\ e.events = "IN"
  /\ LET c == e.fd
         n == Min({MAXLEN, Len(conn[c].unread)})
     IN /\ output' = [output EXCEPT ![c] = @ \o SubSeq(conn[c].unread, 1, n)]
        /\ conn' = [conn EXCEPT ![c].unread = SubSeq(@, n + 1, Len(@))]
        /\ Handled(e)
  /\ UNCHANGED <<prog, ctlVars, waiting, echoEvent, stale, short>>

\* One read of the inner loop: data goes to standard output, in one write that may
\* take only the first k bytes (main tests for -1 only); EAGAIN ends the loop, and
\* the end of the stream or an error also closes the descriptor.
HandleRead(e) ==
  /\ prog = "example" /\ ePc = "handle" /\ e \in events /\ e.fd # Serverfd /\ e.events = "IN"
  /\ UNCHANGED <<prog, edge, waiting, echoEvent, stale>>
  /\ LET c == e.fd
         n == Min({MAXLEN, Len(conn[c].unread)})
     IN \/ /\ \E k \in 1..n :
                /\ output' = [output EXCEPT ![c] =
                     @ \o [i \in 1..n |-> IF i <= k THEN conn[c].unread[i] ELSE 0]]
                /\ short' = IF k < n THEN short \cup {c} ELSE short
           /\ conn' = [conn EXCEPT ![c].unread = SubSeq(@, n + 1, Len(@))]
           /\ UNCHANGED <<armed, events, ePc>>
        \/ /\ n = 0 /\ conn[c].end = "none"
           /\ Handled(e) /\ UNCHANGED <<armed, conn, output, short>>
        \/ /\ n = 0 /\ conn[c].end # "none"
           /\ CloseFd(c) /\ Handled(e)
           /\ UNCHANGED <<output, short>>

----------------------------------------------------------------------------
(* echo.c: handle, which is called with the descriptor taken out of the    *)
(* epoll set and puts it back.                                             *)

\* EPOLLIN: one read into data; the answer waits for EPOLLOUT.
EchoRead(e) ==
  /\ prog = "echo" /\ ePc = "handle" /\ e \in events /\ e.fd # Serverfd /\ e.events = "IN"
  /\ LET c == e.fd
         n == Min({MAXLEN, Len(conn[c].unread)})
     IN \/ /\ n > 0
           /\ conn' = [conn EXCEPT ![c].unread = SubSeq(@, n + 1, Len(@))]
           /\ echoEvent' = [echoEvent EXCEPT
                ![c].data = [i \in 1..MAXLEN |-> IF i <= n THEN conn[c].unread[i] ELSE @[i]],
                ![c].length = n]
           /\ stale' = IF echoEvent[c].offset # 0 THEN stale \cup {c} ELSE stale
           /\ armed' = [armed EXCEPT ![c] = "OUT"]
        \/ n = 0 /\ CloseFd(c) /\ UNCHANGED <<echoEvent, stale>>
  /\ Handled(e)
  /\ UNCHANGED <<prog, edge, waiting, output, short>>

\* Mutant: only the offset moves.
Remaining_Mutant(ev, k) == [ev EXCEPT !.offset = @ + k]

\* The record after a write of k bytes.
Remaining(ev, k) == [ev EXCEPT !.length = @ - k, !.offset = @ + k]

\* The n bytes at data + offset; what lies behind data is no byte of the client.
ToWrite(ev, n) == [i \in 1..n |-> IF ev.offset + i <= MAXLEN THEN ev.data[ev.offset + i] ELSE 0]

\* EPOLLOUT: a write of length bytes from data + offset, which may run past data.  A
\* partial write and an error (-1 is less than length) both ask for EPOLLOUT again;
\* after a full one the connection is read again and offset stays as it is.
EchoWrite(e) ==
  /\ prog = "echo" /\ ePc = "handle" /\ e \in events /\ e.fd # Serverfd /\ e.events = "OUT"
  /\ LET c == e.fd
         ev == echoEvent[c]
     IN \/ /\ conn[c].end # "rst"
           /\ \E k \in 1..ev.length :
                /\ output' = [output EXCEPT ![c] = @ \o ToWrite(ev, k)]
                /\ IF k < ev.length
                   THEN /\ echoEvent' = [echoEvent EXCEPT ![c] = Remaining(ev, k)]
                        /\ armed' = [armed EXCEPT ![c] = "OUT"]
                   ELSE /\ UNCHANGED echoEvent
                        /\ armed' = [armed EXCEPT ![c] = "IN"]
        \/ conn[c].end = "rst" /\ UNCHANGED <<armed, output, echoEvent>>
  /\ Handled(e)
  /\ UNCHANGED <<prog, edge, waiting, conn, stale, short>>

EpStep ==
  \/ EpollWait
  \/ \E e \in events : \/ HandleError(e) \/ HandleAccept(e) \/ HandleRead(e)
                     \/ EchoAccept(e) \/ EchoRead(e) \/ EchoWrite(e)

EpNext ==
  \/ \E ok \in BOOLEAN : SetsUp(ok)
  \/ EpStep
  \/ CallFails
  \/ \E c \in Peers : PeerConnects(c) \/ PeerActs(c)

\* The server is a loop that nothing blocks but epoll_wait.
EpFairness == WF_epVars(EpStep)

----------------------------------------------------------------------------
(* No byte is lost, repeated or reordered on its way through the two       *)
(* programs: what was put out, what waits in data and what is unread are   *)
(* together what the client sent, each byte in its place, but for those    *)
(* that a short write of epoll-example.c dropped.  For echo.c this ends    *)
(* when a chunk is read after a partial write (see EchoFaithful).          *)
InTransit(c) == IF armed[c] = "OUT" THEN ToWrite(echoEvent[c], echoEvent[c].length) ELSE <<>>
Sequel(c) == output[c] \o InTransit(c) \o conn[c].unread
OutputFaithful ==
  \A c \in Peers \ stale :
    conn[c].state # "closed" =>
      /\ Len(Sequel(c)) = conn[c].sent
      /\ \A i \in 1..conn[c].sent : Sequel(c)[i] = i \/ (Sequel(c)[i] = 0 /\ c \in short)

(* echo.c sends back what it has read: "We have read the data. Add an write *)
(* event so that we can write data whenever the socket is ready to be       *)
(* written." (echo.c:46-47).  But offset is never reset after a partial     *)
(* write, and the next chunk is written from there on.                      *)
EchoFaithful ==
  prog = "echo" =>
    \A c \in Peers :
      conn[c].state # "closed" => Sequel(c) = [i \in 1..conn[c].sent |-> i]

(* Every byte that reaches an accepted connection is read and goes into a  *)
(* write, unless the connection is reset or the program ends:              *)
(* epoll-example.c must have read all there is before it waits for the     *)
(* next edge.                                                              *)
AllPutOut ==
  \A c \in Peers :
    (conn[c].state = "open" /\ (conn[c].unread # <<>> \/ armed[c] = "OUT")) ~>
      ((conn[c].unread = <<>> /\ armed[c] # "OUT") \/ conn[c].end = "rst" \/ ePc = "exit")
=============================================================================
