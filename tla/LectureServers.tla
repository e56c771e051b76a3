--------------------------- MODULE LectureServers ---------------------------
(***************************************************************************)
(* The four servers of lecture_examples/9_aio that answer a number with    *)
(* its successor: 4_server_select.c, 5_server_poll.c, 6_server_kqueue.c    *)
(* and 7_server_epoll.c, together with their client 4_client.c.  Which     *)
(* program runs is fixed by api.  One thread serves all clients with       *)
(* blocking reads, and relies on the readiness it was told of: a set (in   *)
(* the first two) or one event (in the last two) that was true when the    *)
(* system call returned.  The numbers themselves are left out; what is     *)
(* kept is who is owed an answer.  A timeout of the wait changes nothing   *)
(* and is a stuttering step.                                               *)
(***************************************************************************)
EXTENDS Naturals, Integers, Sequences, FiniteSets, SequencesExt

CONSTANTS Conns,       \* connections, each made by one run of 4_client.c
          Listener,    \* the descriptor `server'
          MaxAsks      \* numbers a client reads from its input

VARIABLES
  api,       \* the program: "select", "poll", "kqueue" or "epoll"
  loop,      \* where its main function is
  fds,       \* clients / fds / the registrations, in the order of the array
  ready,     \* readset, the revents, or the one event new_ev
  evEof,     \* EV_EOF of new_ev
  nfds,      \* as in the code
  at,        \* i + 1
  backlog,   \* connections made and not accepted yet
  sock,      \* the server's end of each connection
  peer,      \* where each client is
  asks       \* numbers each client has sent

loopVars == <<fds, ready, evEof, nfds, at>>
netVars == <<sock, peer, asks>>
lecVars == <<api, loop, loopVars, backlog, netVars>>

LecInit(pc0, apis) ==
  /\ api \in apis
  /\ loop = pc0
  /\ fds = IF api = "select" THEN <<>> ELSE <<Listener>>
  /\ ready = {} /\ evEof = FALSE /\ nfds = 0 /\ at = 1
  /\ backlog = <<>>
  /\ sock = [c \in Conns |-> [req |-> FALSE, ans |-> FALSE, end |-> "none"]]
  /\ peer = [c \in Conns |-> "new"]
  /\ asks = [c \in Conns |-> 0]

----------------------------------------------------------------------------
(* The client: 4_client.c.                                                 *)

Connect(c) ==
  /\ peer[c] = "new" /\ loop \notin {"off", "setup", "ended"}
  /\ peer' = [peer EXCEPT ![c] = "idle"]
  /\ backlog' = Append(backlog, c)
  /\ UNCHANGED <<api, loop, loopVars, sock, asks>>

\* scanf and write: the next number is only sent after the last answer.
Ask(c) ==
  /\ peer[c] = "idle" /\ asks[c] < MaxAsks /\ loop # "ended"
  /\ peer' = [peer EXCEPT ![c] = "asks"]
  /\ asks' = [asks EXCEPT ![c] = @ + 1]
  /\ sock' = [sock EXCEPT ![c].req = TRUE]
  /\ UNCHANGED <<api, loop, loopVars, backlog>>

\* read returns the answer; once the server has ended it returns 0 or -1.
Receive(c) ==
  /\ peer[c] = "asks" /\ (sock[c].ans \/ loop = "ended")
  /\ peer' = [peer EXCEPT ![c] = IF sock[c].ans THEN "idle" ELSE "gone"]
  /\ sock' = [sock EXCEPT ![c].ans = FALSE]
  /\ UNCHANGED <<api, loop, loopVars, backlog, asks>>

\* The input ends and the client closes the socket, or it is killed, which may be
\* before it has read an answer: then its system resets the connection.
Leave(c) ==
  /\ peer[c] \in {"idle", "asks"} /\ loop # "ended"
  /\ peer' = [peer EXCEPT ![c] = "gone"]
  /\ sock' = [sock EXCEPT ![c].end = IF sock[c].ans THEN "rst" ELSE "fin",
                          ![c].ans = FALSE]
  /\ UNCHANGED <<api, loop, loopVars, backlog, asks>>

----------------------------------------------------------------------------
(* interact.                                                               *)

CanRead(c) == IF c = Listener THEN backlog # <<>> ELSE sock[c].req \/ sock[c].end # "none"

\* What interact returns: a listening socket cannot be read, a reset is reported
\* once, and the end of the stream after it.
Rc(c) ==
  CASE c = Listener -> -1
    [] c # Listener /\ sock[c].req -> 1
    [] c # Listener /\ ~sock[c].req -> IF sock[c].end = "rst" THEN -1 ELSE 0

\* What it does to the connection: one request is taken and answered.
Interacted(c) ==
  IF c = Listener THEN sock
  ELSE [sock EXCEPT ![c].req = FALSE,
                    ![c].ans = sock[c].req /\ peer[c] # "gone",
                    ![c].end = IF ~sock[c].req /\ @ = "rst" THEN "fin" ELSE @]

\* Mutant: one entry too many is skipped when the rest is copied.
RemoveClient_Mutant(s, i) == SubSeq(s, 1, i - 1) \o SubSeq(s, i + 2, Len(s))

\* remove_client: the entries behind the one removed move up.
RemoveClient(s, i) == SubSeq(s, 1, i - 1) \o SubSeq(s, i + 1, Len(s))

\* Back at the top of the while loop, or out of it; what the round kept is dead.
Leaves(l) == loop' = l /\ ready' = {} /\ evEof' = FALSE /\ nfds' = 0 /\ at' = 1

----------------------------------------------------------------------------
(* main of each server.                                                    *)

\* socket, bind, listen, and the creation of the queue; any of them may fail.
SetUp(ok) ==
  /\ loop = "setup"
  /\ loop' = IF ok THEN "wait" ELSE "ended"
  /\ UNCHANGED <<api, loopVars, backlog, netVars>>

ReadyNow == {f \in {Listener} \cup Range(fds) : CanRead(f)}

\* fill_fdset and select, or poll.
WaitSet ==
  /\ loop = "wait" /\ api \in {"select", "poll"} /\ ReadyNow # {}
  /\ ready' = ReadyNow /\ nfds' = Cardinality(ReadyNow)
  /\ loop' = IF Listener \in ReadyNow THEN "accept" ELSE "scan"
  /\ UNCHANGED <<api, fds, evEof, at, backlog, netVars>>

\* kevent and epoll_wait with room for one event.
WaitEvent(f) ==
  /\ loop = "wait" /\ api \in {"kqueue", "epoll"} /\ f \in ReadyNow
  /\ ready' = {f} /\ nfds' = 1
  /\ evEof' = (f # Listener /\ sock[f].end # "none")
  /\ loop' = IF f = Listener THEN "accept" ELSE "event"
  /\ UNCHANGED <<api, fds, at, backlog, netVars>>

\* accept, which may fail: select and poll never close a descriptor, so that they
\* run out of them.  The revents of a new entry of poll are what realloc left there.
Accept ==
  /\ loop = "accept"
  /\ UNCHANGED <<api, netVars>>
  /\ \/ Leaves("ended") /\ UNCHANGED <<fds, backlog>>
     \/ /\ backlog' = Tail(backlog)
        /\ fds' = Append(fds, Head(backlog))
        /\ \/ /\ api \in {"select", "poll"}
              /\ loop' = "scan" /\ nfds' = nfds - 1
              /\ ready' \in IF api = "poll" THEN {ready, ready \cup {Head(backlog)}} ELSE {ready}
              /\ UNCHANGED <<evEof, at>>
           \/ api \in {"kqueue", "epoll"} /\ Leaves("wait")

\* One turn of the for loop of select and poll.  rc = -1 leaves the for loop only;
\* rc = 0 removes the entry without closing it, and i moves past its successor.
Scan ==
  /\ loop = "scan" /\ at <= Len(fds) /\ nfds > 0
  /\ UNCHANGED <<api, backlog, peer, asks>>
  /\ \/ /\ fds[at] \notin ready
        /\ at' = at + 1
        /\ UNCHANGED <<loop, fds, ready, evEof, nfds, sock>>
     \/ LET c == fds[at] IN
        /\ c \in ready /\ (c = Listener \/ CanRead(c))
        /\ sock' = Interacted(c)
        /\ fds' = IF Rc(c) = 0 THEN RemoveClient(fds, at) ELSE fds
        /\ \/ Rc(c) = -1 /\ Leaves("wait")
           \/ /\ Rc(c) # -1
              /\ nfds' = nfds - 1 /\ at' = at + 1
              /\ UNCHANGED <<loop, ready, evEof>>

ScanEnds ==
  /\ loop = "scan" /\ ~(at <= Len(fds) /\ nfds > 0)
  /\ Leaves("wait")
  /\ UNCHANGED <<api, fds, backlog, netVars>>

\* The else branch of kqueue and epoll.  An error ends the server; the end of the
\* stream closes the connection, which also removes its registration.
Event ==
  /\ loop = "event"
  /\ UNCHANGED <<api, backlog, peer, asks>>
  /\ \E c \in ready :
       LET closes == Rc(c) # -1 /\ IF api = "kqueue" THEN evEof ELSE Rc(c) = 0 IN
       /\ sock' = Interacted(c)
       /\ fds' = IF closes THEN SelectSeq(fds, LAMBDA f : f # c) ELSE fds
       /\ Leaves(IF Rc(c) = -1 THEN "ended" ELSE "wait")

ServerStep == WaitSet \/ Accept \/ Scan \/ ScanEnds \/ Event

LecNext ==
  \/ \E ok \in BOOLEAN : SetUp(ok)
  \/ ServerStep
  \/ \E f \in Conns \cup {Listener} : WaitEvent(f)
  \/ \E c \in Conns : Connect(c) \/ Ask(c) \/ Receive(c) \/ Leave(c)

\* The server runs on while it can, the kernel reports the ready descriptors in
\* turn, and a client that waits for its answer takes it.
LecFairness ==
  /\ WF_lecVars(ServerStep)
  /\ \A f \in Conns \cup {Listener} : SF_lecVars(WaitEvent(f))
  /\ \A c \in Conns : WF_lecVars(Receive(c))

----------------------------------------------------------------------------
(* A number that was sent is answered, unless its client leaves or the     *)
(* server ends: neither the entries that remove_client moves under the     *)
(* running index, nor the attempt of the poll server to read its listening *)
(* socket, nor the reset of another client make a client of the select and *)
(* poll servers wait for ever.                                             *)
RequestAnswered == \A c \in Conns : peer[c] = "asks" ~> (peer[c] # "asks" \/ loop = "ended")
=============================================================================
