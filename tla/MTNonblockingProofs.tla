------------------------ MODULE MTNonblockingProofs -------------------------
(***************************************************************************)
(* For any number of clients, descriptors, acceptors and workers, with and *)
(* without Stop, whether epoll_ctl fails or not: a Connection has one      *)
(* handler, no answer in it is forgotten, lost or sent twice, answers are  *)
(* destroyed with it for named reasons only, every live Connection has an  *)
(* owner, and until Stop destroys connections memory is misused only after *)
(* a descriptor was used again.                                            *)
(*                                                                         *)
(* None of these is inductive.  What carries them is where a Connection    *)
(* may be: fresh (in an acceptor's hand, unknown to epoll), armed, or in   *)
(* the hands of one worker, which alone changes _results, _event and the   *)
(* registration.  For the faults it matters that a living Connection has   *)
(* its descriptor for itself, so that the entry that keeps a new one out   *)
(* of _connections belongs to a dead one.                                  *)
(***************************************************************************)
EXTENDS MTNonblocking, TLAPS

MainStates == {"init", "failed", "serving", "stopping", "freeing", "join",
               "joined", "destroyed"}
AcceptorStates == {"unborn", "start", "wait", "accept", "add", "insert", "exited"}
WorkerStates == {"unborn", "loop", "wait", "pick", "read", "write", "rearm",
                 "exited"}

\* The types of the variables.
TypeOK ==
    /\ main \in MainStates
    /\ running \in [Worker -> BOOLEAN]
    /\ eventfd \in BOOLEAN
    /\ connections \in [Fd -> Conn \cup {None}]
    /\ apc \in [Acceptor -> AcceptorStates]
    /\ arun \in [Acceptor -> BOOLEAN]
    /\ aconn \in [Acceptor -> Conn \cup {None}]
    /\ wpc \in [Worker -> WorkerStates]
    /\ batch \in [Worker -> SUBSET Event]
    /\ cur \in [Worker -> Event \cup {None}]
    /\ heap \in [Conn -> {"none", "live", "freed"}]
    /\ fd \in [Conn -> Fd \cup {None}]
    /\ alive \in [Conn -> BOOLEAN]
    /\ events \in [Conn -> {"in", "inout"}]
    /\ results \in [Conn -> Nat]
    /\ reg \in [Conn -> {"no", "off", "in", "inout"}]
    /\ net \in [Conn -> {"new", "open", "shut", "reset"}]
    /\ rx \in [Conn -> Seq({"cmd", "bad"})]
    /\ executed \in [Conn -> Nat]
    /\ got \in [Conn -> Nat]
    /\ fault \in {"none", "terminate", "race", "double_free", "use_after_free"}

\* Before Start there are no threads.
Unborn ==
    main = "init" => /\ \A a \in Acceptor : apc[a] = "unborn"
                     /\ \A w \in Worker : wpc[w] = "unborn" /\ batch[w] = {}

\* An acceptor has a Connection from accept4 until it has inserted it, and no
\* two have the same.
AcceptorHand ==
    /\ \A a \in Acceptor : aconn[a] # None <=> apc[a] \in {"add", "insert"}
    /\ \A a \in Acceptor : aconn[a] # None => heap[aconn[a]] # "none"
    /\ \A a, b \in Acceptor : aconn[a] = aconn[b] /\ aconn[a] # None => a = b

\* An entry of _connections is under the descriptor of its Connection, dead or
\* alive, and no acceptor is still about to enter it.
MapInv ==
    \A f \in Fd : connections[f] # None =>
        /\ heap[connections[f]] # "none"
        /\ fd[connections[f]] = f
        /\ \A a \in Acceptor : aconn[a] # connections[f]

\* The events a worker has in its hands.
Hand(w) == batch[w] \cup ({cur[w]} \ {None})

\* A Connection that is not registered yet.
Fresh(c) == heap[c] = "none" \/ \E a \in Acceptor : apc[a] = "add" /\ aconn[a] = c

\* epoll does not know of it, no worker has it, it has no answers.
FreshInv ==
    /\ \A c \in Conn : Fresh(c) =>
          /\ reg[c] = "no"
          /\ results[c] = 0
          /\ \A w \in Worker : \A e \in Hand(w) : e.conn # c
    /\ \A a \in Acceptor : apc[a] = "add" => heap[aconn[a]] = "live"

\* A living Connection has a descriptor of its own; only it is registered.
FdInv ==
    /\ \A c \in Conn : heap[c] # "none" => fd[c] \in Fd
    /\ \A c, d \in Conn :
          heap[c] = "live" /\ heap[d] = "live" /\ fd[c] = fd[d] => c = d
    /\ \A c \in Conn : reg[c] # "no" => heap[c] = "live"

\* What a worker has is disarmed and no other worker's.
HandInv ==
    /\ \A w \in Worker : cur[w] # None <=> wpc[w] \in {"read", "write", "rearm"}
    /\ \A w \in Worker : cur[w] \notin batch[w]
    /\ \A w \in Worker : \A e \in Hand(w) : reg[e.conn] \in {"off", "no"}
    /\ \A w, v \in Worker : \A e \in Hand(w), d \in Hand(v) :
          e.conn = d.conn => w = v /\ e = d

\* _event asks for EPOLLOUT exactly if there is something to send, ...
EventsInv ==
    \A c \in Conn : net[c] # "reset" => (events[c] = "inout" <=> results[c] > 0)

\* ... and so does the registration while it is armed, ...
ArmedInv ==
    \A c \in Conn : reg[c] \in {"in", "inout"} /\ net[c] # "reset" =>
        (reg[c] = "inout" <=> results[c] > 0)

\* ... and whoever was told that he can write has something to send.
OutInv ==
    \A w \in Worker :
        /\ \A e \in batch[w] :
              e.ev # {} /\ ("OUT" \in e.ev => results[e.conn] > 0)
        /\ wpc[w] = "read" /\ "OUT" \in cur[w].ev => results[cur[w].conn] > 0
        /\ wpc[w] = "write" => results[cur[w].conn] > 0

\* Until Stop destroys the connections: a Connection that was deleted in the hands
\* of a worker left its number to another one, which is dead as well.
FreedInv ==
    main \in {"serving", "stopping"} =>
        \A w \in Worker : \A e \in Hand(w) : heap[e.conn] = "freed" =>
            /\ connections[fd[e.conn]] \notin {None, e.conn}
            /\ heap[connections[fd[e.conn]]] = "freed"

\* What was executed was sent or is in _results, destroyed or not.
Conserved ==
    \A c \in Conn : net[c] # "reset" => executed[c] = results[c] + got[c]

\* The inductive invariant.
IInv ==
    /\ TypeOK /\ Unborn
    /\ AcceptorHand /\ MapInv /\ FreshInv /\ FdInv /\ HandInv
    /\ EventsInv /\ ArmedInv /\ OutInv /\ FreedInv
    /\ Conserved /\ NothingLeaks /\ FaultNeedsReuse

USE MTNAssumption

\* The initial state satisfies the invariant.
LEMMA InitInv == Init => IInv
<1> SUFFICES ASSUME Init PROVE IInv
  OBVIOUS
<1>1. TypeOK
  <2>1. /\ running \in [Worker -> BOOLEAN]
        /\ eventfd \in BOOLEAN
        /\ arun \in [Acceptor -> BOOLEAN]
        /\ alive \in [Conn -> BOOLEAN]
    BY DEF Init
  <2>2. /\ main \in MainStates
        /\ apc \in [Acceptor -> AcceptorStates]
        /\ wpc \in [Worker -> WorkerStates]
    BY DEF Init, MainStates, AcceptorStates, WorkerStates
  <2>3. /\ connections \in [Fd -> Conn \cup {None}]
        /\ aconn \in [Acceptor -> Conn \cup {None}]
        /\ batch \in [Worker -> SUBSET Event]
        /\ cur \in [Worker -> Event \cup {None}]
        /\ heap \in [Conn -> {"none", "live", "freed"}]
        /\ fd \in [Conn -> Fd \cup {None}]
    BY DEF Init
  <2>4. /\ events \in [Conn -> {"in", "inout"}]
        /\ results \in [Conn -> Nat]
        /\ reg \in [Conn -> {"no", "off", "in", "inout"}]
        /\ net \in [Conn -> {"new", "open", "shut", "reset"}]
        /\ rx \in [Conn -> Seq({"cmd", "bad"})]
        /\ executed \in [Conn -> Nat]
        /\ got \in [Conn -> Nat]
        /\ fault \in {"none", "terminate", "race", "double_free", "use_after_free"}
    BY DEF Init
  <2>5. QED
    BY <2>1, <2>2, <2>3, <2>4 DEF TypeOK
<1>2. Unborn /\ AcceptorHand /\ MapInv /\ FreshInv /\ FdInv
  BY DEF Init, Unborn, AcceptorHand, MapInv, FreshInv, FdInv, Hand, Fresh
<1>3. HandInv /\ EventsInv /\ ArmedInv /\ OutInv /\ FreedInv
  BY DEF Init, HandInv, Hand, EventsInv, ArmedInv, OutInv, FreedInv
<1>4. Conserved /\ NothingLeaks /\ FaultNeedsReuse
  BY DEF Init, Conserved, NothingLeaks, FaultNeedsReuse
<1>5. QED
  BY <1>1, <1>2, <1>3, <1>4 DEF IInv

\* Nothing but a client's side of its socket changes.
LEMMA ClientInv ==
    ASSUME IInv, fault = "none", NEW c \in Conn, ClientStep(c) PROVE IInv'
<1> USE DEF mainVars, accVars, workVars, objVars, histVars
<1>1. UNCHANGED <<main, running, eventfd, connections, apc, arun, aconn, wpc, batch,
                  cur, heap, fd, alive, events, results, reg, executed, got, fault>>
  BY DEF ClientStep, Connect, Send, Shut, Reset, Client
<1>2. TypeOK'
  <2>1. PICK n \in {"open", "shut", "reset"} : net' = [net EXCEPT ![c] = n]
    BY DEF ClientStep, Connect, Send, Shut, Reset, Client
  <2>2. net' \in [Conn -> {"new", "open", "shut", "reset"}]
    BY <2>1 DEF IInv, TypeOK
  <2>3. PICK q \in Seq({"cmd", "bad"}) : rx' = [rx EXCEPT ![c] = q]
    <3>1. rx = [rx EXCEPT ![c] = rx[c]] /\ rx[c] \in Seq({"cmd", "bad"})
      BY DEF IInv, TypeOK
    <3>2. ASSUME NEW m \in {"cmd", "bad"} PROVE Append(rx[c], m) \in Seq({"cmd", "bad"})
      BY <3>1
    <3>3. CASE Connect(c) \/ Shut(c)
      BY <3>1, <3>3 DEF Connect, Shut
    <3>4. CASE Reset(c)
      <4>1. << >> \in Seq({"cmd", "bad"})
        OBVIOUS
      <4>2. QED
        BY <3>4, <4>1 DEF Reset
    <3>5. ASSUME NEW m \in {"cmd", "bad"}, Send(c, m)
          PROVE  \E q \in Seq({"cmd", "bad"}) : rx' = [rx EXCEPT ![c] = q]
      BY <3>2, <3>5 DEF Send
    <3>6. QED
      BY <3>3, <3>4, <3>5 DEF ClientStep
  <2>4. rx' \in [Conn -> Seq({"cmd", "bad"})]
    BY <2>3 DEF IInv, TypeOK
  <2>5. QED
    BY <1>1, <2>2, <2>4 DEF IInv, TypeOK
<1>3. \A d \in Conn : net'[d] # "reset" => net[d] # "reset"
  BY DEF IInv, TypeOK, ClientStep, Connect, Send, Shut, Reset, Client
<1>4. EventsInv' /\ ArmedInv' /\ Conserved'
  BY <1>1, <1>3 DEF IInv, EventsInv, ArmedInv, Conserved
<1>5. Unborn' /\ AcceptorHand' /\ MapInv' /\ FreshInv' /\ FdInv'
  BY <1>1 DEF IInv, Unborn, AcceptorHand, MapInv, FreshInv, FdInv, Hand, Fresh
<1>6. HandInv' /\ OutInv' /\ FreedInv'
  BY <1>1 DEF IInv, HandInv, Hand, OutInv, FreedInv
<1>7. NothingLeaks' /\ FaultNeedsReuse'
  BY <1>1 DEF IInv, NothingLeaks, FaultNeedsReuse
<1>8. QED
  BY <1>2, <1>4, <1>5, <1>6, <1>7 DEF IInv

\* DoRead and DoWrite of a worker: only _results of the connection at hand
\* change, of what other threads see.
LEMMA WorkFrame ==
    ASSUME IInv, NEW w \in Worker, NEW p \in {"read", "write", "rearm"},
           wpc[w] \in {"read", "write"}, wpc' = [wpc EXCEPT ![w] = p],
           UNCHANGED <<main, connections, apc, aconn, batch, cur, heap, fd, reg, net,
                       fault>>,
           \A d \in Conn : d # cur[w].conn => results'[d] = results[d]
    PROVE  /\ cur[w].conn \in Conn
           /\ Unborn' /\ AcceptorHand' /\ MapInv' /\ FreshInv' /\ FdInv' /\ HandInv'
           /\ ArmedInv' /\ FreedInv' /\ NothingLeaks' /\ FaultNeedsReuse'
<1>0. cur[w].conn \in Conn /\ cur[w] \in Hand(w)
  BY DEF IInv, TypeOK, HandInv, Hand, Event
<1>1. \A v \in Worker : Hand(v)' = Hand(v)
  BY DEF Hand
<1>2. Unborn' /\ AcceptorHand' /\ MapInv' /\ FdInv'
  BY DEF IInv, TypeOK, Unborn, AcceptorHand, MapInv, FdInv
<1>3. FreshInv'
  BY <1>0, <1>1 DEF IInv, FreshInv, Fresh
<1>4. HandInv'
  BY <1>1 DEF IInv, TypeOK, HandInv
<1>5. ArmedInv'
  BY <1>0 DEF IInv, HandInv, ArmedInv
<1>6. FreedInv' /\ NothingLeaks' /\ FaultNeedsReuse'
  BY <1>1 DEF IInv, FreedInv, NothingLeaks, FaultNeedsReuse
<1>7. QED
  BY <1>0, <1>2, <1>3, <1>4, <1>5, <1>6

\* An executed command adds an answer and asks for EPOLLOUT.
LEMMA ReadCommandInv ==
    ASSUME IInv, NEW w \in Worker, ReadCommand(w) PROVE IInv'
<1> DEFINE c == cur[w].conn
<1>0. c \in Conn
  BY DEF IInv, TypeOK, HandInv, Event, ReadCommand, WorkerGoto
<1>1. /\ UNCHANGED <<main, running, eventfd, connections, apc, arun, aconn, batch, cur,
                     heap, fd, alive, reg, net, got, fault>>
      /\ wpc[w] = "read" /\ wpc' = [wpc EXCEPT ![w] = "read"]
      /\ rx[c] # << >>
      /\ rx' = [rx EXCEPT ![c] = Tail(@)]
      /\ executed' = [executed EXCEPT ![c] = @ + 1]
      /\ results' = [results EXCEPT ![c] = @ + 1]
      /\ events' = [events EXCEPT ![c] = "inout"]
  BY DEF ReadCommand, WorkerGoto, mainVars, accVars
<1>2. TypeOK'
  <2>1. results' \in [Conn -> Nat] /\ executed' \in [Conn -> Nat]
    BY <1>0, <1>1 DEF IInv, TypeOK
  <2>2. events' \in [Conn -> {"in", "inout"}] /\ rx' \in [Conn -> Seq({"cmd", "bad"})]
    BY <1>0, <1>1 DEF IInv, TypeOK
  <2>3. wpc' \in [Worker -> WorkerStates]
    BY <1>0, <1>1 DEF IInv, TypeOK, WorkerStates
  <2>4. QED
    BY <1>0, <1>1, <2>1, <2>2, <2>3 DEF IInv, TypeOK
<1>3. \A d \in Conn : /\ results[d] \in Nat /\ executed[d] \in Nat /\ got[d] \in Nat
                      /\ d # c => UNCHANGED <<results[d], executed[d], events[d]>>
  BY <1>1 DEF IInv, TypeOK
<1>4. results'[c] = results[c] + 1 /\ executed'[c] = executed[c] + 1 /\ events'[c] = "inout"
  BY <1>0, <1>1 DEF IInv, TypeOK
<1>5. EventsInv' /\ Conserved'
  <2>1. net' = net /\ got' = got
    BY <1>1
  <2>2. ASSUME NEW d \in Conn, net[d] # "reset"
        PROVE  /\ events'[d] = "inout" <=> results'[d] > 0
               /\ executed'[d] = results'[d] + got[d]
    <3>1. (events[d] = "inout" <=> results[d] > 0) /\ executed[d] = results[d] + got[d]
      BY <2>2 DEF IInv, EventsInv, Conserved
    <3>2. QED
      BY <1>3, <1>4, <3>1
  <2>3. QED
    BY <2>1, <2>2 DEF EventsInv, Conserved
<1>6. OutInv'
  BY <1>0, <1>1, <1>3, <1>4 DEF IInv, TypeOK, Event, OutInv
<1>7. QED
  BY <1>1, <1>2, <1>3, <1>5, <1>6, WorkFrame DEF IInv

\* DoRead ends, with or without an exception: nothing but the place changes, the
\* input that was refused and whether the connection is alive.
LEMMA ReadEndInv ==
    ASSUME IInv, NEW w \in Worker, ReadThrows(w) \/ ReadDone(w) PROVE IInv'
<1> DEFINE c == cur[w].conn
           p == AfterRead(w)
<1>0. c \in Conn
  BY DEF IInv, TypeOK, HandInv, Event, ReadThrows, ReadDone, WorkerGoto
<1>1. /\ UNCHANGED <<main, running, eventfd, connections, apc, arun, aconn, batch, cur,
                     heap, fd, events, results, reg, net, executed, got, fault>>
      /\ wpc[w] = "read" /\ wpc' = [wpc EXCEPT ![w] = p]
      /\ p \in {"write", "rearm"}
      /\ p = "write" => "OUT" \in cur[w].ev
  BY DEF ReadThrows, ReadDone, AfterRead, WorkerGoto, mainVars, accVars, histVars
<1>2. TypeOK'
  <2>1. alive' \in [Conn -> BOOLEAN]
    BY DEF IInv, TypeOK, ReadThrows, ReadDone
  <2>2. rx' \in [Conn -> Seq({"cmd", "bad"})]
    <3>1. rx' = rx \/ (rx[c] # << >> /\ rx' = [rx EXCEPT ![c] = Tail(rx[c])])
      BY DEF ReadThrows, ReadDone
    <3>2. rx \in [Conn -> Seq({"cmd", "bad"})] /\ rx[c] \in Seq({"cmd", "bad"})
      BY <1>0 DEF IInv, TypeOK
    <3>3. rx[c] # << >> => Tail(rx[c]) \in Seq({"cmd", "bad"})
      BY <3>2
    <3>4. QED
      BY <3>1, <3>2, <3>3
  <2>3. wpc' \in [Worker -> WorkerStates]
    BY <1>1 DEF IInv, TypeOK, WorkerStates
  <2>4. QED
    BY <1>1, <2>1, <2>2, <2>3 DEF IInv, TypeOK
<1>3. EventsInv' /\ Conserved'
  BY <1>1 DEF IInv, EventsInv, Conserved
<1>4. OutInv'
  BY <1>1 DEF IInv, TypeOK, OutInv
<1>5. QED
  BY <1>1, <1>2, <1>3, <1>4, WorkFrame DEF IInv

\* What send took is taken from _results; EPOLLOUT is asked for unless that was
\* all.
LEMMA WriteAnswerInv ==
    ASSUME IInv, NEW w \in Worker, NEW n \in 1 .. MaxCmds, WriteAnswer(w, n) PROVE IInv'
<1> DEFINE c == cur[w].conn
<1>0. c \in Conn /\ results[c] \in Nat /\ n \in 1 .. results[c] /\ n \in Nat
  BY DEF IInv, TypeOK, HandInv, Event, WriteAnswer, WorkerGoto
<1>1. /\ UNCHANGED <<main, running, eventfd, connections, apc, arun, aconn, batch, cur,
                     heap, fd, alive, reg, net, rx, executed, fault>>
      /\ wpc[w] = "write" /\ wpc' = [wpc EXCEPT ![w] = "rearm"]
      /\ results' = [results EXCEPT ![c] = @ - n]
      /\ got' = [got EXCEPT ![c] = @ + n]
      /\ events' = [events EXCEPT ![c] = IF n = results[c] THEN "in" ELSE "inout"]
  BY DEF WriteAnswer, WorkerGoto, mainVars, accVars
<1>2. TypeOK'
  <2>1. results' \in [Conn -> Nat] /\ got' \in [Conn -> Nat]
    BY <1>0, <1>1 DEF IInv, TypeOK
  <2>2. events' \in [Conn -> {"in", "inout"}]
    BY <1>0, <1>1 DEF IInv, TypeOK
  <2>3. wpc' \in [Worker -> WorkerStates]
    BY <1>0, <1>1 DEF IInv, TypeOK, WorkerStates
  <2>4. QED
    BY <1>0, <1>1, <2>1, <2>2, <2>3 DEF IInv, TypeOK
<1>3. \A d \in Conn : /\ results[d] \in Nat /\ executed[d] \in Nat /\ got[d] \in Nat
                      /\ d # c => UNCHANGED <<results[d], got[d], events[d]>>
  BY <1>1 DEF IInv, TypeOK
<1>4. /\ results'[c] = results[c] - n /\ got'[c] = got[c] + n
      /\ events'[c] = "inout" <=> n # results[c]
  BY <1>0, <1>1 DEF IInv, TypeOK
<1>5. EventsInv' /\ Conserved'
  <2>1. net' = net /\ executed' = executed
    BY <1>1
  <2>2. ASSUME NEW d \in Conn, net[d] # "reset"
        PROVE  /\ events'[d] = "inout" <=> results'[d] > 0
               /\ executed[d] = results'[d] + got'[d]
    <3>1. (events[d] = "inout" <=> results[d] > 0) /\ executed[d] = results[d] + got[d]
      BY <2>2 DEF IInv, EventsInv, Conserved
    <3>2. QED
      BY <1>0, <1>3, <1>4, <3>1
  <2>3. QED
    BY <2>1, <2>2 DEF EventsInv, Conserved
<1>6. OutInv'
  <2>1. \A v \in Worker : \A e \in batch[v] : e.conn # c
    BY <1>1 DEF IInv, HandInv, Hand
  <2>2. \A v \in Worker \ {w} : wpc[v] \in {"read", "write"} => cur[v].conn # c
    BY <1>1 DEF IInv, HandInv, Hand
  <2>3. QED
    BY <1>0, <1>1, <1>3, <2>1, <2>2 DEF IInv, TypeOK, Event, HandInv, OutInv
<1>7. QED
  BY <1>1, <1>2, <1>3, <1>5, <1>6, WorkFrame DEF IInv

\* A failed send empties _results; the client is gone.
LEMMA WriteFailsInv ==
    ASSUME IInv, NEW w \in Worker, WriteFails(w) PROVE IInv'
<1> DEFINE c == cur[w].conn
<1>0. c \in Conn
  BY DEF IInv, TypeOK, HandInv, Event, WriteFails, WorkerGoto
<1>1. /\ UNCHANGED <<main, running, eventfd, connections, apc, arun, aconn, batch, cur,
                     heap, fd, alive, reg, net, rx, executed, got, fault>>
      /\ wpc[w] = "write" /\ wpc' = [wpc EXCEPT ![w] = "rearm"]
      /\ net[c] = "reset"
      /\ results' = [results EXCEPT ![c] = 0]
      /\ events' = [events EXCEPT ![c] = "in"]
  BY DEF WriteFails, WorkerGoto, mainVars, accVars, histVars
<1>2. TypeOK'
  BY <1>0, <1>1 DEF IInv, TypeOK, WorkerStates
<1>3. \A d \in Conn : d # c => UNCHANGED <<results[d], events[d]>>
  BY <1>1 DEF IInv, TypeOK
<1>4. EventsInv' /\ Conserved'
  BY <1>1, <1>3 DEF IInv, EventsInv, Conserved
<1>5. OutInv'
  <2>1. \A v \in Worker : \A e \in batch[v] : e.conn # c
    BY <1>1 DEF IInv, HandInv, Hand
  <2>2. \A v \in Worker \ {w} : wpc[v] \in {"read", "write"} => cur[v].conn # c
    BY <1>1 DEF IInv, HandInv, Hand
  <2>3. QED
    BY <1>0, <1>1, <1>3, <2>1, <2>2 DEF IInv, TypeOK, Event, HandInv, OutInv
<1>6. QED
  BY <1>1, <1>2, <1>3, <1>4, <1>5, WorkFrame DEF IInv

\* A worker goes round its loop with nothing in its hands.
LEMMA WorkerIdleInv ==
    ASSUME IInv, NEW w \in Worker, WorkerLoop(w) \/ BatchDone(w) PROVE IInv'
<1>1. /\ UNCHANGED <<main, running, eventfd, connections, apc, arun, aconn, batch, cur,
                     heap, fd, alive, events, results, reg, net, rx, executed, got,
                     fault>>
      /\ wpc[w] \in {"loop", "pick"}
      /\ \E p \in {"loop", "wait", "exited"} : wpc' = [wpc EXCEPT ![w] = p]
      /\ main # "init"
  BY DEF IInv, Unborn, WorkerLoop, BatchDone, WorkerGoto, mainVars, accVars, histVars
<1>2. TypeOK'
  BY <1>1 DEF IInv, TypeOK, WorkerStates
<1>3. Unborn' /\ AcceptorHand' /\ MapInv' /\ FreshInv' /\ FdInv'
  BY <1>1 DEF IInv, Unborn, AcceptorHand, MapInv, FreshInv, FdInv, Hand, Fresh
<1>4. HandInv' /\ OutInv'
  BY <1>1 DEF IInv, TypeOK, HandInv, Hand, OutInv
<1>5. EventsInv' /\ ArmedInv' /\ Conserved'
  BY <1>1 DEF IInv, EventsInv, ArmedInv, Conserved
<1>6. FreedInv' /\ NothingLeaks' /\ FaultNeedsReuse'
  BY <1>1 DEF IInv, FreedInv, Hand, NothingLeaks, FaultNeedsReuse
<1>7. QED
  BY <1>2, <1>3, <1>4, <1>5, <1>6 DEF IInv

\* What the worker holds was deleted by an acceptor that found another
\* connection under its number.
LEMMA UseAfterFreeInv ==
    ASSUME IInv, NEW w \in Worker, UseAfterFree(w) PROVE IInv'
<1>1. /\ UNCHANGED <<main, running, eventfd, connections, apc, arun, aconn, wpc, batch,
                     cur, heap, fd, alive, events, results, reg, net, rx, executed, got>>
      /\ fault' = "use_after_free"
  BY DEF UseAfterFree, mainVars, accVars, workVars, objVars, netVars, histVars
<1>2. PICK e \in Hand(w) : heap[e.conn] = "freed"
  BY DEF UseAfterFree, Hand, IInv, HandInv
<1>3. e.conn \in Conn
  BY <1>2 DEF Hand, IInv, TypeOK, Event
<1>4. TypeOK'
  BY <1>1 DEF IInv, TypeOK
<1>5. FaultNeedsReuse'
  <2> SUFFICES ASSUME main \in {"serving", "stopping"} PROVE FaultNeedsReuse'
    BY <1>1 DEF FaultNeedsReuse
  <2> DEFINE d == e.conn
             c == connections[fd[d]]
  <2>1. c \notin {None, d} /\ heap[c] = "freed"
    BY <1>2 DEF IInv, FreedInv
  <2>2. fd[d] \in Fd
    BY <1>2, <1>3 DEF IInv, FdInv
  <2>3. c \in Conn /\ fd[c] = fd[d]
    <3>1. connections \in [Fd -> Conn \cup {None}]
      BY DEF IInv, TypeOK
    <3>2. MapInv
      BY DEF IInv
    <3>3. QED
      BY <2>1, <2>2, <3>1, <3>2 DEF MapInv
  <2>4. QED
    BY <1>1, <1>2, <1>3, <2>1, <2>3 DEF FaultNeedsReuse
<1>6. Unborn' /\ AcceptorHand' /\ MapInv' /\ FreshInv' /\ FdInv'
  BY <1>1 DEF IInv, Unborn, AcceptorHand, MapInv, FreshInv, FdInv, Hand, Fresh
<1>7. HandInv' /\ OutInv' /\ FreedInv' /\ NothingLeaks'
  BY <1>1 DEF IInv, HandInv, Hand, OutInv, FreedInv, NothingLeaks
<1>8. EventsInv' /\ ArmedInv' /\ Conserved'
  BY <1>1 DEF IInv, EventsInv, ArmedInv, Conserved
<1>9. QED
  BY <1>4, <1>5, <1>6, <1>7, <1>8 DEF IInv

\* The event moves from the batch into the worker's hand.
LEMMA PickInv ==
    ASSUME IInv, fault = "none", NEW w \in Worker, NEW e \in batch[w], Pick(w, e)
    PROVE  IInv'
<1>0. e \in Event /\ e.conn \in Conn /\ e # None /\ cur[w] = None /\ main # "init"
  <2>1. e \in Event
    BY DEF IInv, TypeOK
  <2>2. wpc[w] = "pick"
    BY DEF Pick, WorkerGoto
  <2>3. cur[w] = None /\ main # "init"
    BY <2>2 DEF IInv, HandInv, Unborn
  <2>4. e.conn \in Conn
    BY <2>1 DEF Event
  <2>5. QED
    BY <2>1, <2>3, <2>4
<1>1. /\ UNCHANGED <<main, running, eventfd, connections, apc, arun, aconn, heap, fd,
                     events, results, reg, net, rx, executed, got, fault>>
      /\ wpc[w] = "pick"
      /\ batch' = [batch EXCEPT ![w] = @ \ {e}]
      /\ cur' = [cur EXCEPT ![w] = e]
  BY DEF Pick, WorkerGoto, mainVars, accVars, histVars
<1>2. PICK p \in {"read", "write", "rearm"} :
         /\ wpc' = [wpc EXCEPT ![w] = p]
         /\ p = "write" => e.ev \cap {"ERR", "RDHUP"} = {} /\ "IN" \notin e.ev
  BY DEF Pick, WorkerGoto
<1>3. \A v \in Worker : Hand(v)' = Hand(v)
  BY <1>0, <1>1 DEF IInv, TypeOK, Hand
<1>4. TypeOK'
  <2>1. alive' \in [Conn -> BOOLEAN]
    BY DEF IInv, TypeOK, Pick
  <2>2. batch' \in [Worker -> SUBSET Event] /\ cur' \in [Worker -> Event \cup {None}]
    BY <1>0, <1>1 DEF IInv, TypeOK
  <2>3. wpc' \in [Worker -> WorkerStates]
    BY <1>2 DEF IInv, TypeOK, WorkerStates
  <2>4. QED
    BY <1>1, <2>1, <2>2, <2>3 DEF IInv, TypeOK
<1>5. Unborn' /\ AcceptorHand' /\ MapInv' /\ FdInv'
  BY <1>0, <1>1 DEF IInv, Unborn, AcceptorHand, MapInv, FdInv
<1>6. FreshInv' /\ FreedInv'
  BY <1>1, <1>3 DEF IInv, FreshInv, Fresh, FreedInv
<1>7. HandInv'
  <2>1. \A v \in Worker : cur'[v] # None <=> wpc'[v] \in {"read", "write", "rearm"}
    BY <1>0, <1>1, <1>2 DEF IInv, TypeOK, HandInv
  <2>2. \A v \in Worker : cur'[v] \notin batch'[v]
    BY <1>0, <1>1 DEF IInv, TypeOK, HandInv
  <2>3. QED
    BY <1>1, <1>3, <2>1, <2>2 DEF IInv, HandInv
<1>8. OutInv'
  <2>1. e.ev # {} /\ ("OUT" \in e.ev => results[e.conn] > 0)
    BY DEF IInv, OutInv
  <2>2. p = "write" => "OUT" \in e.ev
    BY <1>0, <1>2, <2>1 DEF Event
  <2>3. QED
    BY <1>0, <1>1, <1>2, <2>1, <2>2 DEF IInv, TypeOK, OutInv
<1>9. EventsInv' /\ ArmedInv' /\ Conserved' /\ NothingLeaks' /\ FaultNeedsReuse'
  BY <1>1 DEF IInv, EventsInv, ArmedInv, Conserved, NothingLeaks, FaultNeedsReuse
<1>10. QED
  BY <1>4, <1>5, <1>6, <1>7, <1>8, <1>9 DEF IInv

\* The connection is armed for what _event says, by the only worker that has it.
LEMMA RearmInv ==
    ASSUME IInv, fault = "none", NEW w \in Worker, Rearm(w) PROVE IInv'
<1> DEFINE c == cur[w].conn
<1>1. /\ UNCHANGED <<main, running, eventfd, connections, apc, arun, aconn, batch, heap,
                     fd, alive, events, results, net, rx, executed, got, fault>>
      /\ wpc[w] = "rearm" /\ wpc' = [wpc EXCEPT ![w] = "pick"]
      /\ heap[c] = "live"
      /\ reg' = [reg EXCEPT ![c] = events[c]]
      /\ cur' = [cur EXCEPT ![w] = None]
  BY DEF Rearm, WorkerGoto, mainVars, accVars, histVars
<1>2. /\ cur[w] # None /\ cur[w] \in Hand(w) /\ c \in Conn /\ main # "init"
  BY <1>1 DEF IInv, TypeOK, HandInv, Hand, Event, Unborn
<1>3. \A v \in Worker : Hand(v)' = IF v = w THEN Hand(w) \ {cur[w]} ELSE Hand(v)
  BY <1>1, <1>2 DEF IInv, TypeOK, HandInv, Hand
<1>4. \A v \in Worker : \A e \in Hand(v)' : e \in Hand(v) /\ e.conn # c
  BY <1>2, <1>3 DEF IInv, HandInv
<1>5. \A d \in Conn : reg'[d] = IF d = c THEN events[c] ELSE reg[d]
  BY <1>1 DEF IInv, TypeOK
<1>6. TypeOK'
  BY <1>1, <1>2 DEF IInv, TypeOK, WorkerStates
<1>7. Unborn' /\ AcceptorHand' /\ MapInv'
  BY <1>1, <1>2 DEF IInv, Unborn, AcceptorHand, MapInv
<1>8. FreshInv' /\ FreedInv'
  <2>1. ~Fresh(c)
    BY <1>2 DEF IInv, FreshInv
  <2>2. QED
    BY <1>1, <1>4, <1>5, <2>1 DEF IInv, FreshInv, Fresh, FreedInv
<1>9. FdInv'
  BY <1>1, <1>5 DEF IInv, FdInv
<1>10. HandInv'
  <2>1. \A v \in Worker : cur'[v] # None <=> wpc'[v] \in {"read", "write", "rearm"}
    BY <1>1 DEF IInv, TypeOK, HandInv
  <2>2. \A v \in Worker : cur'[v] \notin batch'[v]
    BY <1>1 DEF IInv, TypeOK, HandInv
  <2>3. \A v \in Worker : \A e \in Hand(v)' : e.conn \in Conn
    BY <1>4 DEF IInv, TypeOK, Hand, Event
  <2>4. QED
    BY <1>4, <1>5, <2>1, <2>2, <2>3 DEF IInv, HandInv
<1>11. ArmedInv'
  BY <1>1, <1>5 DEF IInv, ArmedInv, EventsInv
<1>12. OutInv'
  BY <1>1 DEF IInv, TypeOK, OutInv
<1>13. EventsInv' /\ Conserved' /\ NothingLeaks' /\ FaultNeedsReuse'
  BY <1>1 DEF IInv, EventsInv, Conserved, NothingLeaks, FaultNeedsReuse
<1>14. QED
  BY <1>6, <1>7, <1>8, <1>9, <1>10, <1>11, <1>12, <1>13 DEF IInv

\* A closed connection is deleted by the only worker that has it.
LEMMA CloseConnectionInv ==
    ASSUME IInv, fault = "none", NEW w \in Worker, CloseConnection(w) PROVE IInv'
<1> DEFINE c == cur[w].conn
<1>1. /\ UNCHANGED <<main, running, eventfd, connections, apc, arun, aconn, batch,
                     fd, events, results, net, rx, executed, got, fault>>
      /\ wpc[w] = "rearm" /\ wpc' = [wpc EXCEPT ![w] = "pick"]
      /\ heap[c] = "live" /\ heap' = [heap EXCEPT ![c] = "freed"]
      /\ alive' = [alive EXCEPT ![c] = FALSE]
      /\ reg' = [reg EXCEPT ![c] = "no"]
      /\ cur' = [cur EXCEPT ![w] = None]
  BY DEF CloseConnection, Delete, WorkerGoto, mainVars, accVars, histVars
<1>2. /\ cur[w] # None /\ cur[w] \in Hand(w) /\ c \in Conn /\ main # "init"
  BY <1>1 DEF IInv, TypeOK, HandInv, Hand, Event, Unborn
<1>3. \A v \in Worker : Hand(v)' = IF v = w THEN Hand(w) \ {cur[w]} ELSE Hand(v)
  BY <1>1, <1>2 DEF IInv, TypeOK, HandInv, Hand
<1>4. \A v \in Worker : \A e \in Hand(v)' : e \in Hand(v) /\ e.conn # c /\ e.conn \in Conn
  <2>1. \A v \in Worker : \A e \in Hand(v) : e.conn \in Conn
    BY DEF IInv, TypeOK, Hand, Event
  <2>2. QED
    BY <1>2, <1>3, <2>1 DEF IInv, HandInv
<1>5. \A d \in Conn : /\ reg'[d] = IF d = c THEN "no" ELSE reg[d]
                      /\ heap'[d] = IF d = c THEN "freed" ELSE heap[d]
  BY <1>1 DEF IInv, TypeOK
<1>6. TypeOK'
  BY <1>1, <1>2 DEF IInv, TypeOK, WorkerStates
<1>7. Unborn' /\ AcceptorHand' /\ MapInv'
  BY <1>1, <1>2, <1>5 DEF IInv, TypeOK, Unborn, AcceptorHand, MapInv
<1>8. FreshInv'
  <2>1. ~Fresh(c)
    BY <1>2 DEF IInv, FreshInv
  <2>2. \A d \in Conn : Fresh(d)' => Fresh(d)
    BY <1>1, <1>5 DEF Fresh
  <2>3. \A a \in Acceptor : apc[a] = "add" => aconn[a] # c /\ aconn[a] \in Conn
    BY <2>1 DEF IInv, TypeOK, AcceptorHand, Fresh
  <2>4. QED
    BY <1>1, <1>4, <1>5, <2>1, <2>2, <2>3 DEF IInv, FreshInv
<1>9. FdInv'
  BY <1>1, <1>2, <1>5 DEF IInv, FdInv
<1>10. HandInv'
  <2>1. \A v \in Worker : cur'[v] # None <=> wpc'[v] \in {"read", "write", "rearm"}
    BY <1>1 DEF IInv, TypeOK, HandInv
  <2>2. \A v \in Worker : cur'[v] \notin batch'[v]
    BY <1>1 DEF IInv, TypeOK, HandInv
  <2>3. QED
    BY <1>4, <1>5, <2>1, <2>2 DEF IInv, HandInv
<1>11. ArmedInv' /\ EventsInv' /\ Conserved'
  BY <1>1, <1>5 DEF IInv, ArmedInv, EventsInv, Conserved
<1>12. OutInv'
  BY <1>1 DEF IInv, TypeOK, OutInv
<1>13. FreedInv'
  <2> SUFFICES ASSUME main \in {"serving", "stopping"}, NEW v \in Worker,
                      NEW e \in Hand(v)', heap'[e.conn] = "freed"
               PROVE  /\ connections[fd[e.conn]] \notin {None, e.conn}
                      /\ heap'[connections[fd[e.conn]]] = "freed"
    BY <1>1 DEF FreedInv
  <2>1. e \in Hand(v) /\ e.conn \in Conn /\ heap[e.conn] = "freed"
    BY <1>4, <1>5
  <2>2. connections[fd[e.conn]] \notin {None, e.conn} /\ heap[connections[fd[e.conn]]] = "freed"
    BY <2>1 DEF IInv, FreedInv
  <2>3. QED
    BY <1>1, <2>2 DEF IInv, TypeOK
<1>14. NothingLeaks' /\ FaultNeedsReuse'
  BY <1>1, <1>5 DEF IInv, NothingLeaks, FaultNeedsReuse
<1>15. QED
  BY <1>6, <1>7, <1>8, <1>9, <1>10, <1>11, <1>12, <1>13, <1>14 DEF IInv

\* epoll_wait hands out armed connections, which nobody has, and disarms them.
LEMMA EpollWaitInv ==
    ASSUME IInv, fault = "none", NEW w \in Worker, EpollWait(w) PROVE IInv'
<1>1. /\ UNCHANGED <<main, running, eventfd, connections, apc, arun, aconn, cur, heap,
                     fd, alive, events, results, net, rx, executed, got, fault>>
      /\ wpc[w] = "wait" /\ wpc' = [wpc EXCEPT ![w] = "pick"]
  BY DEF EpollWait, WorkerGoto, mainVars, accVars, histVars
<1>2. PICK B \in SUBSET Conn :
         /\ \A c \in B : reg[c] \in {"in", "inout"} /\ Ready(c) # {}
         /\ batch' = [batch EXCEPT ![w] = {[conn |-> c, ev |-> Ready(c)] : c \in B}]
         /\ reg' = [c \in Conn |-> IF c \in B THEN "off" ELSE reg[c]]
  <2> DEFINE R == {c \in Conn : reg[c] \in {"in", "inout"} /\ Ready(c) # {}}
  <2>1. \E B \in SUBSET R :
          /\ batch' = [batch EXCEPT ![w] = {[conn |-> c, ev |-> Ready(c)] : c \in B}]
          /\ reg' = [c \in Conn |-> IF c \in B THEN "off" ELSE reg[c]]
    BY Zenon DEF EpollWait
  <2>2. QED
    BY <2>1
<1> DEFINE New == {[conn |-> c, ev |-> Ready(c)] : c \in B}
<1>3. cur[w] = None /\ main # "init"
  BY <1>1 DEF IInv, HandInv, Unborn
<1>4. \A v \in Worker : /\ batch'[v] = IF v = w THEN New ELSE batch[v]
                        /\ Hand(v)' = IF v = w THEN New ELSE Hand(v)
  <2>1. \A v \in Worker : batch'[v] = IF v = w THEN New ELSE batch[v]
    BY <1>2 DEF IInv, TypeOK
  <2>2. \A e \in New : e # None
    BY DEF Event, Ready
  <2>3. QED
    BY <1>1, <1>3, <2>1, <2>2 DEF Hand
<1>5. \A e \in New : /\ e \in Event /\ e.conn \in B
                     /\ e.ev # {}
                     /\ "OUT" \in e.ev => results[e.conn] > 0
                     /\ \A d \in New : d.conn = e.conn => d = e
  <2> SUFFICES ASSUME NEW e \in New
               PROVE  /\ e \in Event /\ e.conn \in B
                      /\ e.ev # {}
                      /\ "OUT" \in e.ev => results[e.conn] > 0
                      /\ \A d \in New : d.conn = e.conn => d = e
    OBVIOUS
  <2>1. PICK c \in B : e = [conn |-> c, ev |-> Ready(c)]
    OBVIOUS
  <2>2. Ready(c) \in SUBSET {"ERR", "RDHUP", "IN", "OUT"}
    BY DEF Ready
  <2>3. "OUT" \in Ready(c) => reg[c] = "inout" /\ net[c] # "reset"
    BY DEF Ready
  <2>4. "OUT" \in Ready(c) => results[c] > 0
    BY <1>2, <2>3 DEF IInv, ArmedInv
  <2>5. QED
    BY <1>2, <2>1, <2>2, <2>4 DEF Event
<1>6. \A v \in Worker : \A e \in Hand(v) : e.conn \notin B
  BY <1>2 DEF IInv, HandInv
<1>7. \A c \in Conn : reg'[c] = IF c \in B THEN "off" ELSE reg[c]
  BY <1>2
<1>8. TypeOK'
  <2>1. batch' \in [Worker -> SUBSET Event]
    BY <1>2, <1>5 DEF IInv, TypeOK
  <2>2. reg' \in [Conn -> {"no", "off", "in", "inout"}]
    BY <1>2 DEF IInv, TypeOK
  <2>3. wpc' \in [Worker -> WorkerStates]
    BY <1>1 DEF IInv, TypeOK, WorkerStates
  <2>4. QED
    BY <1>1, <2>1, <2>2, <2>3 DEF IInv, TypeOK
<1> HIDE DEF New
<1>9. Unborn' /\ AcceptorHand' /\ MapInv'
  BY <1>1, <1>3 DEF IInv, Unborn, AcceptorHand, MapInv
<1>10. FreshInv'
  <2>1. \A c \in Conn : Fresh(c)' => Fresh(c) /\ c \notin B
    BY <1>1, <1>2 DEF IInv, FreshInv, Fresh
  <2>2. QED
    BY <1>1, <1>4, <1>5, <1>7, <2>1 DEF IInv, FreshInv
<1>11. FdInv'
  BY <1>1, <1>2, <1>7 DEF IInv, FdInv
<1>12. HandInv'
  <2>1. \A v \in Worker : cur'[v] # None <=> wpc'[v] \in {"read", "write", "rearm"}
    BY <1>1 DEF IInv, TypeOK, HandInv
  <2>2. \A v \in Worker : cur'[v] \notin batch'[v]
    BY <1>1, <1>3, <1>4, <1>5 DEF IInv, HandInv
  <2>3. \A v \in Worker : \A e \in Hand(v)' : reg'[e.conn] \in {"off", "no"}
    <3>1. \A v \in Worker : \A e \in Hand(v) : e.conn \in Conn
      BY DEF IInv, TypeOK, Hand, Event
    <3>2. QED
      BY <1>4, <1>5, <1>7, <3>1 DEF IInv, HandInv
  <2>4. \A u, v \in Worker : \A e \in Hand(u)', d \in Hand(v)' :
          e.conn = d.conn => u = v /\ e = d
    BY <1>4, <1>5, <1>6 DEF IInv, HandInv
  <2>5. QED
    BY <2>1, <2>2, <2>3, <2>4 DEF HandInv
<1>13. ArmedInv' /\ EventsInv' /\ Conserved'
  BY <1>1, <1>7 DEF IInv, ArmedInv, EventsInv, Conserved
<1>14. OutInv'
  BY <1>1, <1>4, <1>5 DEF IInv, TypeOK, OutInv
<1>15. FreedInv'
  <2>1. \A e \in New : heap[e.conn] = "live"
    BY <1>2, <1>5 DEF IInv, FdInv
  <2>2. QED
    BY <1>1, <1>4, <2>1 DEF IInv, FreedInv
<1>16. NothingLeaks' /\ FaultNeedsReuse'
  BY <1>1 DEF IInv, NothingLeaks, FaultNeedsReuse
<1>17. QED
  BY <1>8, <1>9, <1>10, <1>11, <1>12, <1>13, <1>14, <1>15, <1>16 DEF IInv

\* One step of a worker, whichever it is.
LEMMA WorkerInv ==
    ASSUME IInv, fault = "none", NEW w \in Worker, WorkerStep(w) PROVE IInv'
BY ReadCommandInv, ReadEndInv, WriteAnswerInv, WriteFailsInv, WorkerIdleInv,
   UseAfterFreeInv, PickInv, RearmInv, CloseConnectionInv, EpollWaitInv
   DEF WorkerStep

\* An acceptor moves on with nothing in its hand, before and after.
LEMMA AcceptorIdleInv ==
    ASSUME IInv, fault = "none", NEW a \in Acceptor,
           AcceptorStart(a) \/ AcceptorWake(a) \/ AcceptNone(a)
    PROVE  IInv'
<1>1. /\ UNCHANGED <<main, running, eventfd, connections, aconn, wpc, batch, cur, heap,
                     fd, alive, events, results, reg, net, rx, executed, got>>
      /\ apc[a] \in {"start", "wait", "accept"}
      /\ fault' \in {"none", "terminate"}
  BY DEF AcceptorStart, AcceptorWake, AcceptNone, AcceptorGoto, mainVars, workVars,
         netVars, histVars
<1>2. PICK p \in {"wait", "accept", "exited"} : apc' = [apc EXCEPT ![a] = p]
  BY DEF AcceptorStart, AcceptorWake, AcceptNone, AcceptorGoto
<1>3. aconn[a] = None /\ main # "init"
  BY <1>1 DEF IInv, AcceptorHand, Unborn
<1>4. \A b \in Acceptor : apc'[b] = IF b = a THEN p ELSE apc[b]
  BY <1>2 DEF IInv, TypeOK
<1>5. TypeOK'
  <2>1. arun' \in [Acceptor -> BOOLEAN]
    BY DEF IInv, TypeOK, AcceptorStart, AcceptorWake, AcceptNone
  <2>2. apc' \in [Acceptor -> AcceptorStates]
    BY <1>2 DEF IInv, TypeOK, AcceptorStates
  <2>3. QED
    BY <1>1, <2>1, <2>2 DEF IInv, TypeOK
<1>6. Unborn' /\ AcceptorHand' /\ MapInv' /\ FdInv'
  BY <1>1, <1>3, <1>4 DEF IInv, Unborn, AcceptorHand, MapInv, FdInv
<1>7. FreshInv'
  <2>1. \A c \in Conn : Fresh(c)' => Fresh(c)
    BY <1>1, <1>4 DEF Fresh
  <2>2. QED
    BY <1>1, <1>4, <2>1 DEF IInv, FreshInv, Hand
<1>8. HandInv' /\ OutInv' /\ FreedInv'
  BY <1>1 DEF IInv, HandInv, Hand, OutInv, FreedInv
<1>9. EventsInv' /\ ArmedInv' /\ Conserved' /\ NothingLeaks' /\ FaultNeedsReuse'
  BY <1>1 DEF IInv, EventsInv, ArmedInv, Conserved, NothingLeaks, FaultNeedsReuse
<1>10. QED
  BY <1>5, <1>6, <1>7, <1>8, <1>9 DEF IInv

\* accept4 returns a number that no living connection has.
LEMMA AcceptOneInv ==
    ASSUME IInv, fault = "none", NEW a \in Acceptor, NEW c \in Conn, NEW f \in Fd,
           AcceptOne(a, c, f)
    PROVE  IInv'
<1>1. /\ UNCHANGED <<main, running, eventfd, connections, arun, wpc, batch, cur,
                     results, reg, net, rx, executed, got, fault>>
      /\ apc[a] = "accept" /\ apc' = [apc EXCEPT ![a] = "add"]
      /\ aconn' = [aconn EXCEPT ![a] = c]
      /\ heap[c] = "none" /\ heap' = [heap EXCEPT ![c] = "live"]
      /\ fd' = [fd EXCEPT ![c] = f]
      /\ alive' = [alive EXCEPT ![c] = TRUE]
      /\ events' = [events EXCEPT ![c] = "in"]
  BY DEF AcceptOne, Backlog, AcceptorGoto, mainVars, workVars, netVars, histVars
<1>2. \A d \in Conn : heap[d] = "live" => fd[d] # f
  BY DEF AcceptOne, Lowest, UsedFds
<1>3. aconn[a] = None /\ main # "init"
  BY <1>1 DEF IInv, AcceptorHand, Unborn
<1>4. \A b \in Acceptor : /\ apc'[b] = IF b = a THEN "add" ELSE apc[b]
                          /\ aconn'[b] = IF b = a THEN c ELSE aconn[b]
  BY <1>1 DEF IInv, TypeOK
<1>5. \A d \in Conn : /\ heap'[d] = IF d = c THEN "live" ELSE heap[d]
                      /\ fd'[d] = IF d = c THEN f ELSE fd[d]
                      /\ events'[d] = IF d = c THEN "in" ELSE events[d]
  BY <1>1 DEF IInv, TypeOK
<1>6. /\ c # None /\ Fresh(c)
      /\ \A b \in Acceptor : aconn[b] # c
      /\ \A g \in Fd : connections[g] # c
      /\ reg[c] = "no" /\ results[c] = 0
      /\ \A w \in Worker : \A e \in Hand(w) : e.conn # c
  BY <1>1 DEF IInv, AcceptorHand, MapInv, FreshInv, Fresh
<1>7. \A w \in Worker : Hand(w)' = Hand(w)
  BY <1>1 DEF Hand
<1>8. \A w \in Worker : \A e \in Hand(w) : e.conn \in Conn
  BY DEF IInv, TypeOK, Hand, Event
<1>9. \A g \in Fd : connections[g] # None => connections[g] \in Conn
  BY DEF IInv, TypeOK
<1>10. \A b \in Acceptor : aconn[b] # None => aconn[b] \in Conn
  BY DEF IInv, TypeOK
<1>11. TypeOK'
  <2>1. alive' \in [Conn -> BOOLEAN] /\ apc' \in [Acceptor -> AcceptorStates]
    BY <1>1 DEF IInv, TypeOK, AcceptorStates
  <2>2. QED
    BY <1>1, <2>1 DEF IInv, TypeOK
<1>12. Unborn' /\ AcceptorHand' /\ MapInv'
  BY <1>1, <1>3, <1>4, <1>5, <1>6, <1>9, <1>10 DEF IInv, Unborn, AcceptorHand, MapInv
<1>13. FreshInv'
  <2>1. \A d \in Conn : Fresh(d)' => Fresh(d)
    BY <1>4, <1>5, <1>6 DEF Fresh
  <2>2. \A b \in Acceptor : apc'[b] = "add" => heap'[aconn'[b]] = "live"
    BY <1>3, <1>4, <1>5, <1>6, <1>10 DEF IInv, AcceptorHand, FreshInv
  <2>3. QED
    BY <1>1, <1>7, <2>1, <2>2 DEF IInv, FreshInv
<1>14. FdInv'
  BY <1>1, <1>2, <1>5, <1>6 DEF IInv, FdInv
<1>15. HandInv' /\ OutInv'
  BY <1>1, <1>7 DEF IInv, HandInv, OutInv
<1>16. EventsInv'
  BY <1>1, <1>5, <1>6 DEF IInv, EventsInv
<1>17. ArmedInv' /\ Conserved'
  BY <1>1 DEF IInv, ArmedInv, Conserved
<1>18. FreedInv'
  <2> SUFFICES ASSUME main \in {"serving", "stopping"}, NEW w \in Worker,
                      NEW e \in Hand(w), heap'[e.conn] = "freed"
               PROVE  /\ connections[fd'[e.conn]] \notin {None, e.conn}
                      /\ heap'[connections[fd'[e.conn]]] = "freed"
    BY <1>1, <1>7 DEF FreedInv
  <2>1. fd'[e.conn] = fd[e.conn] /\ heap[e.conn] = "freed" /\ fd[e.conn] \in Fd
    BY <1>5, <1>6, <1>8 DEF IInv, FdInv
  <2>2. connections[fd[e.conn]] \notin {None, e.conn} /\ heap[connections[fd[e.conn]]] = "freed"
    BY <2>1 DEF IInv, FreedInv
  <2>3. QED
    BY <1>1, <1>5, <1>9, <2>1, <2>2
<1>19. NothingLeaks' /\ FaultNeedsReuse'
  BY <1>1, <1>3, <1>4, <1>5, <1>6 DEF IInv, NothingLeaks, FaultNeedsReuse
<1>20. QED
  BY <1>11, <1>12, <1>13, <1>14, <1>15, <1>16, <1>17, <1>18, <1>19 DEF IInv

\* A fresh connection, which no worker has, is armed for input.
LEMMA AddConnectionInv ==
    ASSUME IInv, fault = "none", NEW a \in Acceptor, AddConnection(a) PROVE IInv'
<1> DEFINE c == aconn[a]
<1>1. /\ UNCHANGED <<main, running, eventfd, connections, arun, aconn, wpc, batch, cur,
                     heap, fd, alive, events, results, net, rx, executed, got, fault>>
      /\ apc[a] = "add" /\ apc' = [apc EXCEPT ![a] = "insert"]
      /\ reg' = [reg EXCEPT ![c] = "in"]
  BY DEF AddConnection, AcceptorGoto, mainVars, workVars, netVars, histVars
<1>2. c # None /\ main # "init"
  BY <1>1 DEF IInv, AcceptorHand, Unborn
<1>3. c \in Conn
  BY <1>2 DEF IInv, TypeOK
<1>4. /\ Fresh(c) /\ heap[c] = "live" /\ results[c] = 0
      /\ \A w \in Worker : \A e \in Hand(w) : e.conn # c
  BY <1>1, <1>3 DEF IInv, FreshInv, Fresh
<1>5. /\ \A b \in Acceptor : apc'[b] = IF b = a THEN "insert" ELSE apc[b]
      /\ \A d \in Conn : reg'[d] = IF d = c THEN "in" ELSE reg[d]
  BY <1>1 DEF IInv, TypeOK
<1>6. \A w \in Worker : Hand(w)' = Hand(w)
  BY <1>1 DEF Hand
<1>7. TypeOK'
  BY <1>1, <1>3 DEF IInv, TypeOK, AcceptorStates
<1>8. Unborn' /\ AcceptorHand' /\ MapInv'
  BY <1>1, <1>2, <1>5 DEF IInv, Unborn, AcceptorHand, MapInv
<1>9. FreshInv'
  <2>1. \A d \in Conn : Fresh(d)' => Fresh(d) /\ d # c
    BY <1>1, <1>2, <1>4, <1>5 DEF IInv, AcceptorHand, Fresh
  <2>2. QED
    BY <1>1, <1>5, <1>6, <2>1 DEF IInv, FreshInv
<1>10. FdInv'
  BY <1>1, <1>4, <1>5 DEF IInv, FdInv
<1>11. HandInv'
  <2>1. \A w \in Worker : \A e \in Hand(w) : e.conn \in Conn
    BY DEF IInv, TypeOK, Hand, Event
  <2>2. QED
    BY <1>1, <1>4, <1>5, <1>6, <2>1 DEF IInv, HandInv
<1>12. ArmedInv'
  BY <1>1, <1>4, <1>5 DEF IInv, ArmedInv
<1>13. EventsInv' /\ OutInv' /\ Conserved'
  BY <1>1 DEF IInv, EventsInv, OutInv, Conserved
<1>14. FreedInv' /\ NothingLeaks' /\ FaultNeedsReuse'
  BY <1>1, <1>6 DEF IInv, FreedInv, NothingLeaks, FaultNeedsReuse
<1>15. QED
  BY <1>7, <1>8, <1>9, <1>10, <1>11, <1>12, <1>13, <1>14 DEF IInv

\* An acceptor lets a connection go, which the map owns now, or which is deleted:
\* the parts of the invariant that do not depend on why.
LEMMA LetGoFrame ==
    ASSUME IInv, NEW a \in Acceptor, apc[a] \in {"add", "insert"},
           UNCHANGED <<main, wpc, batch, cur, fd, events, results, net, executed, got>>,
           apc' = [apc EXCEPT ![a] = "accept"],
           aconn' = [aconn EXCEPT ![a] = None],
           heap' \in {heap, [heap EXCEPT ![aconn[a]] = "freed"]},
           reg' = IF heap' = heap THEN reg ELSE [reg EXCEPT ![aconn[a]] = "no"],
           apc[a] = "add" => heap' # heap
    PROVE  /\ aconn[a] \in Conn /\ aconn[a] # None
           /\ \A b \in Acceptor : aconn'[b] = IF b = a THEN None ELSE aconn[b]
           /\ Unborn' /\ AcceptorHand' /\ FreshInv' /\ FdInv' /\ HandInv'
           /\ EventsInv' /\ ArmedInv' /\ OutInv' /\ Conserved'
<1> DEFINE c == aconn[a]
<1>1. c # None /\ main # "init"
  BY DEF IInv, AcceptorHand, Unborn
<1>2. c \in Conn
  BY <1>1 DEF IInv, TypeOK
<1>3. heap[c] # "none"
  BY <1>1 DEF IInv, AcceptorHand
<1>4. \A b \in Acceptor : /\ apc'[b] = IF b = a THEN "accept" ELSE apc[b]
                          /\ aconn'[b] = IF b = a THEN None ELSE aconn[b]
  BY DEF IInv, TypeOK
<1>5. \A d \in Conn : d # c => heap'[d] = heap[d] /\ reg'[d] = reg[d]
  BY DEF IInv, TypeOK
<1>6. \/ heap'[c] = heap[c] /\ reg'[c] = reg[c] /\ apc[a] = "insert"
      \/ heap'[c] = "freed" /\ reg'[c] = "no"
  BY <1>2 DEF IInv, TypeOK
<1>7. \A w \in Worker : Hand(w)' = Hand(w)
  BY DEF Hand
<1>8. \A w \in Worker : \A e \in Hand(w) : e.conn \in Conn
  BY DEF IInv, TypeOK, Hand, Event
<1>9. Unborn' /\ AcceptorHand'
  <2>1. \A b \in Acceptor : aconn[b] # None => aconn[b] \in Conn
    BY DEF IInv, TypeOK
  <2>2. QED
    BY <1>1, <1>4, <1>5, <1>6, <2>1 DEF IInv, Unborn, AcceptorHand
<1>10. FreshInv'
  <2>1. \A d \in Conn : Fresh(d)' => Fresh(d) /\ d # c
    BY <1>1, <1>3, <1>4, <1>5, <1>6 DEF IInv, AcceptorHand, Fresh
  <2>2. ASSUME NEW b \in Acceptor, apc'[b] = "add" PROVE heap'[aconn'[b]] = "live"
    <3>1. b # a /\ apc[b] = "add" /\ aconn'[b] = aconn[b]
      BY <1>4, <2>2
    <3>2. aconn[b] # None /\ heap[aconn[b]] = "live"
      BY <3>1 DEF IInv, AcceptorHand, FreshInv
    <3>3. aconn[b] \in Conn /\ aconn[b] # c
      BY <1>1, <3>1, <3>2 DEF IInv, TypeOK, AcceptorHand
    <3>4. QED
      BY <1>5, <3>1, <3>2, <3>3
  <2>3. QED
    BY <1>5, <1>7, <2>1, <2>2 DEF IInv, FreshInv
<1>11. FdInv'
  BY <1>3, <1>5, <1>6 DEF IInv, FdInv
<1>12. HandInv'
  BY <1>5, <1>6, <1>7, <1>8 DEF IInv, HandInv
<1>13. ArmedInv'
  BY <1>5, <1>6 DEF IInv, ArmedInv
<1>14. EventsInv' /\ OutInv' /\ Conserved'
  BY DEF IInv, EventsInv, OutInv, Conserved
<1>15. QED
  BY <1>1, <1>2, <1>4, <1>9, <1>10, <1>11, <1>12, <1>13, <1>14

\* A connection that cannot be registered is deleted before anybody knows of it.
LEMMA AddFailsInv ==
    ASSUME IInv, fault = "none", NEW a \in Acceptor, AddFails(a) PROVE IInv'
<1> DEFINE c == aconn[a]
<1>0. apc[a] = "add" /\ c # None
  BY DEF IInv, AcceptorHand, AddFails, AcceptorGoto
<1>1. c \in Conn /\ heap[c] = "live" /\ Fresh(c)
  BY <1>0 DEF IInv, TypeOK, FreshInv, Fresh
<1>2. /\ UNCHANGED <<main, running, eventfd, connections, arun, wpc, batch, cur, fd,
                     events, results, net, rx, executed, got, fault>>
      /\ apc' = [apc EXCEPT ![a] = "accept"]
      /\ aconn' = [aconn EXCEPT ![a] = None]
      /\ heap' = [heap EXCEPT ![c] = "freed"]
      /\ reg' = [reg EXCEPT ![c] = "no"]
      /\ alive' = [alive EXCEPT ![c] = FALSE]
  BY <1>1 DEF AddFails, Delete, AcceptorGoto, mainVars, workVars, netVars, histVars
<1>3. \A d \in Conn : heap'[d] = IF d = c THEN "freed" ELSE heap[d]
  BY <1>2 DEF IInv, TypeOK
<1>4. heap' # heap
  BY <1>1, <1>3
<1>5. /\ \A b \in Acceptor : aconn'[b] = IF b = a THEN None ELSE aconn[b]
      /\ Unborn' /\ AcceptorHand' /\ FreshInv' /\ FdInv' /\ HandInv'
      /\ EventsInv' /\ ArmedInv' /\ OutInv' /\ Conserved'
  BY <1>0, <1>2, <1>4, LetGoFrame
<1>6. TypeOK'
  BY <1>1, <1>2 DEF IInv, TypeOK, AcceptorStates
<1>7. MapInv'
  <2>1. \A g \in Fd : connections[g] # None => connections[g] \in Conn
    BY DEF IInv, TypeOK
  <2>2. QED
    BY <1>2, <1>3, <1>5, <2>1 DEF IInv, MapInv
<1>8. FreedInv'
  <2>1. \A w \in Worker : \A e \in Hand(w) : e.conn \in Conn /\ e.conn # c
    BY <1>1 DEF IInv, TypeOK, Hand, Event, FreshInv
  <2>2. \A w \in Worker : Hand(w)' = Hand(w)
    BY <1>2 DEF Hand
  <2>3. \A d : heap[d] = "freed" => heap'[d] = "freed"
    BY <1>2 DEF IInv, TypeOK
  <2>4. QED
    BY <1>2, <1>3, <2>1, <2>2, <2>3 DEF IInv, FreedInv
<1>9. NothingLeaks' /\ FaultNeedsReuse'
  BY <1>2, <1>3, <1>5 DEF IInv, NothingLeaks, FaultNeedsReuse
<1>10. QED
  BY <1>5, <1>6, <1>7, <1>8, <1>9 DEF IInv

\* The map takes the connection, or the unique_ptr deletes it because the number
\* is taken: by a connection that is gone, if this one is not.
LEMMA InsertInv ==
    ASSUME IInv, fault = "none", NEW a \in Acceptor, Insert(a) PROVE IInv'
<1> DEFINE c == aconn[a]
<1>0. apc[a] = "insert" /\ c # None
  BY DEF IInv, AcceptorHand, Insert, AcceptorGoto
<1>1. c \in Conn /\ heap[c] \in {"live", "freed"}
  BY <1>0 DEF IInv, TypeOK, AcceptorHand
<1>2. fd[c] \in Fd
  BY <1>1 DEF IInv, FdInv
<1>3. /\ UNCHANGED <<main, running, eventfd, arun, wpc, batch, cur, fd, alive, events,
                     results, net, rx, executed, got>>
      /\ apc' = [apc EXCEPT ![a] = "accept"]
      /\ aconn' = [aconn EXCEPT ![a] = None]
  BY DEF Insert, AcceptorGoto, mainVars, workVars, netVars, histVars
<1>4. \A w \in Worker : Hand(w)' = Hand(w)
  BY <1>3 DEF Hand
<1>5. ASSUME main = "freeing" \/ connections[fd[c]] # None, UNCHANGED connections
      PROVE  MapInv'
  <2>1. PICK h \in {"live", "freed"} : heap' = [heap EXCEPT ![c] = h]
    BY <1>1 DEF Insert, Delete, IInv, TypeOK
  <2>2. QED
    BY <1>1, <1>3, <1>5, <2>1 DEF IInv, TypeOK, MapInv
<1>6. TypeOK'
  <2>1. connections' \in [Fd -> Conn \cup {None}]
    <3>1. connections' \in {connections, [connections EXCEPT ![fd[c]] = c]}
      BY DEF Insert
    <3>2. QED
      BY <1>1, <3>1 DEF IInv, TypeOK
  <2>2. /\ heap' \in [Conn -> {"none", "live", "freed"}]
        /\ reg' \in [Conn -> {"no", "off", "in", "inout"}]
        /\ fault' \in {"none", "terminate", "race", "double_free", "use_after_free"}
    <3>1. heap' \in [Conn -> {"none", "live", "freed"}]
      BY <1>1 DEF IInv, TypeOK, Insert, Delete
    <3>2. reg' \in [Conn -> {"no", "off", "in", "inout"}]
      BY <1>1 DEF IInv, TypeOK, Insert, Delete
    <3>3. fault' \in {"none", "terminate", "race", "double_free", "use_after_free"}
      BY DEF IInv, TypeOK, Insert, Delete
    <3>4. QED
      BY <3>1, <3>2, <3>3
  <2>3. apc' \in [Acceptor -> AcceptorStates] /\ aconn' \in [Acceptor -> Conn \cup {None}]
    BY <1>3 DEF IInv, TypeOK, AcceptorStates
  <2>4. QED
    BY <1>3, <2>1, <2>2, <2>3 DEF IInv, TypeOK
<1>7. CASE main = "freeing"
  <2>1. UNCHANGED <<connections, heap, reg>> /\ fault' = "race"
    BY <1>7 DEF Insert
  <2>2. /\ Unborn' /\ AcceptorHand' /\ FreshInv' /\ FdInv' /\ HandInv'
        /\ EventsInv' /\ ArmedInv' /\ OutInv' /\ Conserved'
    BY <1>0, <1>3, <2>1, LetGoFrame
  <2>3. FreedInv' /\ NothingLeaks' /\ FaultNeedsReuse'
    BY <1>3, <1>7, <2>1 DEF FreedInv, NothingLeaks, FaultNeedsReuse
  <2>4. QED
    BY <1>5, <1>6, <1>7, <2>1, <2>2, <2>3 DEF IInv
<1>8. CASE main # "freeing" /\ connections[fd[c]] = None
  <2>1. UNCHANGED <<heap, reg, fault>> /\ connections' = [connections EXCEPT ![fd[c]] = c]
    BY <1>8 DEF Insert
  <2>2. /\ \A b \in Acceptor : aconn'[b] = IF b = a THEN None ELSE aconn[b]
        /\ Unborn' /\ AcceptorHand' /\ FreshInv' /\ FdInv' /\ HandInv'
        /\ EventsInv' /\ ArmedInv' /\ OutInv' /\ Conserved'
    BY <1>0, <1>3, <2>1, LetGoFrame
  <2>3. \A g \in Fd : connections'[g] = IF g = fd[c] THEN c ELSE connections[g]
    BY <2>1 DEF IInv, TypeOK
  <2>4. MapInv'
    BY <1>0, <1>1, <1>3, <2>1, <2>2, <2>3 DEF IInv, MapInv, AcceptorHand
  <2>5. FreedInv'
    <3> SUFFICES ASSUME main \in {"serving", "stopping"}, NEW w \in Worker,
                        NEW e \in Hand(w), heap[e.conn] = "freed"
                 PROVE  /\ connections'[fd[e.conn]] \notin {None, e.conn}
                        /\ heap[connections'[fd[e.conn]]] = "freed"
      BY <1>3, <1>4, <2>1 DEF FreedInv
    <3>1. e.conn \in Conn
      BY DEF IInv, TypeOK, Hand, Event
    <3>2. fd[e.conn] \in Fd
      BY <3>1 DEF IInv, FdInv
    <3>3. /\ connections[fd[e.conn]] \notin {None, e.conn}
          /\ heap[connections[fd[e.conn]]] = "freed"
      BY DEF IInv, FreedInv
    <3>4. QED
      BY <1>8, <2>3, <3>2, <3>3
  <2>6. NothingLeaks' /\ FaultNeedsReuse'
    <3>1. ASSUME NEW d \in Conn, heap[d] = "live"
          PROVE  (\E b \in Acceptor : aconn'[b] = d) \/ connections'[fd[d]] = d
      <4>1. (\E b \in Acceptor : aconn[b] = d) \/ connections[fd[d]] = d
        BY <3>1 DEF IInv, NothingLeaks
      <4>2. fd[d] \in Fd
        BY <3>1 DEF IInv, FdInv
      <4>3. QED
        BY <1>2, <1>8, <2>2, <2>3, <4>1, <4>2
    <3>2. QED
      BY <1>3, <2>1, <3>1 DEF NothingLeaks, FaultNeedsReuse
  <2>7. QED
    BY <1>6, <2>2, <2>4, <2>5, <2>6 DEF IInv
<1>9. CASE main # "freeing" /\ connections[fd[c]] # None
  <2> DEFINE d == connections[fd[c]]
  <2>1. UNCHANGED connections /\ Delete(c)
    BY <1>9 DEF Insert
  <2>2. d \in Conn /\ d # c /\ fd[d] = fd[c] /\ heap[d] # "none"
    <3>1. connections \in [Fd -> Conn \cup {None}]
      BY DEF IInv, TypeOK
    <3>2. QED
      BY <1>2, <1>9, <3>1 DEF IInv, MapInv
  <2>3. CASE heap[c] = "live"
    <3>1. heap' = [heap EXCEPT ![c] = "freed"] /\ reg' = [reg EXCEPT ![c] = "no"] /\ UNCHANGED fault
      BY <2>1, <2>3 DEF Delete
    <3>2. \A b \in Conn : heap'[b] = IF b = c THEN "freed" ELSE heap[b]
      BY <3>1 DEF IInv, TypeOK
    <3>3. heap' # heap
      BY <1>1, <2>3, <3>2
    <3>4. /\ \A b \in Acceptor : aconn'[b] = IF b = a THEN None ELSE aconn[b]
          /\ Unborn' /\ AcceptorHand' /\ FreshInv' /\ FdInv' /\ HandInv'
          /\ EventsInv' /\ ArmedInv' /\ OutInv' /\ Conserved'
      BY <1>0, <1>3, <3>1, <3>3, LetGoFrame
    <3>5. heap[d] = "freed"
      BY <1>1, <2>2, <2>3 DEF IInv, FdInv, TypeOK
    <3>6. FreedInv'
      <4> SUFFICES ASSUME main \in {"serving", "stopping"}, NEW w \in Worker,
                          NEW e \in Hand(w), heap'[e.conn] = "freed"
                   PROVE  /\ connections[fd[e.conn]] \notin {None, e.conn}
                          /\ heap'[connections[fd[e.conn]]] = "freed"
        BY <1>3, <1>4, <2>1 DEF FreedInv
      <4>1. e.conn \in Conn
        BY DEF IInv, TypeOK, Hand, Event
      <4>2. CASE e.conn = c
        BY <1>9, <2>2, <3>2, <3>5, <4>2
      <4>3. CASE e.conn # c
        <5>1. heap[e.conn] = "freed"
          BY <3>2, <4>1, <4>3
        <5>2. /\ connections[fd[e.conn]] \notin {None, e.conn}
              /\ heap[connections[fd[e.conn]]] = "freed"
          BY <5>1 DEF IInv, FreedInv
        <5>3. QED
          BY <3>1, <5>2 DEF IInv, TypeOK
      <4>4. QED
        BY <4>2, <4>3
    <3>7. NothingLeaks' /\ FaultNeedsReuse'
      BY <1>3, <2>1, <3>1, <3>2, <3>4 DEF IInv, NothingLeaks, FaultNeedsReuse
    <3>8. QED
      BY <1>5, <1>6, <1>9, <2>1, <3>4, <3>6, <3>7 DEF IInv
  <2>4. CASE heap[c] = "freed"
    <3>1. UNCHANGED <<heap, reg>> /\ fault' = "double_free"
      BY <2>1, <2>4 DEF Delete
    <3>2. /\ Unborn' /\ AcceptorHand' /\ FreshInv' /\ FdInv' /\ HandInv'
          /\ EventsInv' /\ ArmedInv' /\ OutInv' /\ Conserved'
      BY <1>0, <1>3, <3>1, LetGoFrame
    <3>3. FreedInv' /\ NothingLeaks'
      BY <1>3, <1>4, <2>1, <3>1 DEF IInv, FreedInv, NothingLeaks
    <3>4. FaultNeedsReuse'
      BY <1>1, <1>3, <2>1, <2>2, <2>4, <3>1 DEF FaultNeedsReuse
    <3>5. QED
      BY <1>5, <1>6, <1>9, <2>1, <3>2, <3>3, <3>4 DEF IInv
  <2>5. QED
    BY <1>1, <2>3, <2>4
<1>10. QED
  BY <1>7, <1>8, <1>9

\* One step of an acceptor, whichever it is.
LEMMA AcceptorInv ==
    ASSUME IInv, fault = "none", NEW a \in Acceptor, AcceptorStep(a) PROVE IInv'
BY AcceptorIdleInv, AcceptOneInv, AddConnectionInv, AddFailsInv, InsertInv
   DEF AcceptorStep

\* Start: all threads begin with nothing in their hands.
LEMMA StartInv == IInv /\ fault = "none" /\ Start => IInv'
<1> SUFFICES ASSUME IInv, fault = "none", Start PROVE IInv'
  OBVIOUS
<1>1. UNCHANGED <<eventfd, connections, arun, aconn, batch, cur, heap, fd, alive, events,
                  results, reg, net, rx, executed, got, fault>>
  BY DEF Start, objVars, netVars, histVars
<1>2. /\ main' \in {"failed", "serving"}
      /\ apc' \in {apc, [a \in Acceptor |-> "start"]}
      /\ wpc' \in {wpc, [w \in Worker |-> "loop"]}
  BY DEF Start
<1>3. /\ \A a \in Acceptor : apc'[a] \in {"unborn", "start"}
      /\ \A w \in Worker : wpc'[w] \in {"unborn", "loop"}
      /\ \A a \in Acceptor : aconn[a] = None
      /\ \A w \in Worker : cur[w] = None
  BY <1>2 DEF Start, IInv, Unborn, AcceptorHand, HandInv
<1>4. TypeOK'
  <2>1. running' \in [Worker -> BOOLEAN]
    BY DEF Start, IInv, TypeOK
  <2>2. /\ main' \in MainStates
        /\ apc' \in [Acceptor -> AcceptorStates]
        /\ wpc' \in [Worker -> WorkerStates]
    BY <1>2 DEF IInv, TypeOK, MainStates, AcceptorStates, WorkerStates
  <2>3. QED
    BY <1>1, <2>1, <2>2 DEF IInv, TypeOK
<1>5. Unborn' /\ AcceptorHand' /\ MapInv' /\ FdInv'
  BY <1>1, <1>2, <1>3 DEF IInv, Unborn, AcceptorHand, MapInv, FdInv
<1>6. FreshInv'
  BY <1>1, <1>3 DEF IInv, FreshInv, Fresh, Hand
<1>7. HandInv' /\ OutInv'
  BY <1>1, <1>3 DEF IInv, HandInv, Hand, OutInv
<1>8. EventsInv' /\ ArmedInv' /\ Conserved' /\ NothingLeaks'
  BY <1>1 DEF IInv, EventsInv, ArmedInv, Conserved, NothingLeaks
<1>9. FreedInv'
  <2>1. \A w \in Worker : \A e \in Hand(w) : heap[e.conn] # "freed"
    BY DEF Start, IInv, FreedInv, Hand, HandInv, Unborn
  <2>2. QED
    BY <1>1, <2>1 DEF FreedInv, Hand
<1>10. FaultNeedsReuse'
  BY <1>1 DEF Start, IInv, FaultNeedsReuse
<1>11. QED
  BY <1>4, <1>5, <1>6, <1>7, <1>8, <1>9, <1>10 DEF IInv

\* The main thread goes on without touching a connection; it never comes back to
\* where connections are not destroyed.
LEMMA MainInv ==
    ASSUME IInv, fault = "none",
           (\E w \in Worker : StopWorker(w)) \/ Wakeup \/ Cleared \/ Join \/ Destroyed
    PROVE  IInv'
<1>1. UNCHANGED <<connections, apc, arun, aconn, wpc, batch, cur, heap, fd, alive, events,
                  results, reg, net, rx, executed, got, fault>>
  BY DEF StopWorker, Wakeup, Cleared, Join, Destroyed, MainGoto, accVars, workVars,
         netVars, histVars
<1>2. /\ main' \in MainStates \ {"init"}
      /\ main' \in {"serving", "stopping"} => main \in {"serving", "stopping"}
  BY DEF StopWorker, Wakeup, Cleared, Join, Destroyed, MainGoto, MainStates
<1>3. TypeOK'
  <2>1. running' \in [Worker -> BOOLEAN] /\ eventfd' \in BOOLEAN
    BY DEF StopWorker, Wakeup, Cleared, Join, Destroyed, IInv, TypeOK
  <2>2. QED
    BY <1>1, <1>2, <2>1 DEF IInv, TypeOK
<1>4. Unborn' /\ AcceptorHand' /\ MapInv' /\ FreshInv' /\ FdInv'
  BY <1>1, <1>2 DEF IInv, Unborn, AcceptorHand, MapInv, FreshInv, FdInv, Hand, Fresh
<1>5. HandInv' /\ OutInv' /\ FreedInv'
  BY <1>1, <1>2 DEF IInv, HandInv, Hand, OutInv, FreedInv
<1>6. EventsInv' /\ ArmedInv' /\ Conserved' /\ NothingLeaks' /\ FaultNeedsReuse'
  BY <1>1 DEF IInv, EventsInv, ArmedInv, Conserved, NothingLeaks, FaultNeedsReuse
<1>7. QED
  BY <1>3, <1>4, <1>5, <1>6 DEF IInv

\* Stop and the destructor destroy the connections in the map, one after another.
LEMMA DestroyInv ==
    ASSUME IInv, fault = "none", NEW f \in Fd, FreeConnection(f) \/ Destroy(f)
    PROVE  IInv'
<1> DEFINE c == connections[f]
<1>1. /\ UNCHANGED <<running, eventfd, apc, arun, aconn, wpc, batch, cur, fd, alive, events,
                     results, net, rx, executed, got>>
      /\ main' = main /\ main \in {"freeing", "joined"}
      /\ c # None
      /\ connections' = [connections EXCEPT ![f] = None]
      /\ Delete(c)
  BY DEF FreeConnection, Destroy, MainGoto, accVars, workVars, netVars, histVars
<1>2. c \in Conn
  BY <1>1 DEF IInv, TypeOK
<1>3. heap[c] # "none" /\ fd[c] = f /\ \A a \in Acceptor : aconn[a] # c
  BY <1>1 DEF IInv, MapInv
<1>4. \A g \in Fd : connections'[g] = IF g = f THEN None ELSE connections[g]
  BY <1>1 DEF IInv, TypeOK
<1>5. \A d \in Conn \ {c} : heap'[d] = heap[d] /\ reg'[d] = reg[d]
  BY <1>1 DEF IInv, TypeOK, Delete
<1>6. /\ heap'[c] = "freed"
      /\ reg'[c] = "no"
  BY <1>1, <1>2, <1>3 DEF IInv, TypeOK, FdInv, Delete
<1>7. \A w \in Worker : Hand(w)' = Hand(w) /\ \A e \in Hand(w) : e.conn \in Conn
  BY <1>1 DEF IInv, TypeOK, Hand, Event
<1>8. \A a \in Acceptor : aconn[a] # None => aconn[a] \in Conn
  BY DEF IInv, TypeOK
<1>9. TypeOK'
  <2>1. connections' \in [Fd -> Conn \cup {None}]
    BY <1>1 DEF IInv, TypeOK
  <2>2. /\ heap' \in [Conn -> {"none", "live", "freed"}]
        /\ reg' \in [Conn -> {"no", "off", "in", "inout"}]
        /\ fault' \in {"none", "terminate", "race", "double_free", "use_after_free"}
    <3>0. heap' \in {heap, [heap EXCEPT ![c] = "freed"]} /\ reg' \in {reg, [reg EXCEPT ![c] = "no"]}
      BY <1>1 DEF Delete
    <3>1. heap' \in [Conn -> {"none", "live", "freed"}]
      BY <3>0 DEF IInv, TypeOK
    <3>2. reg' \in [Conn -> {"no", "off", "in", "inout"}]
      BY <3>0 DEF IInv, TypeOK
    <3>3. QED
      BY <1>1, <1>2, <3>1, <3>2 DEF IInv, TypeOK, Delete
  <2>3. QED
    BY <1>1, <2>1, <2>2 DEF IInv, TypeOK
<1>10. Unborn' /\ AcceptorHand'
  BY <1>1, <1>3, <1>5, <1>8 DEF IInv, Unborn, AcceptorHand
<1>11. MapInv'
  <2>1. \A g \in Fd : connections[g] # None => connections[g] \in Conn
    BY DEF IInv, TypeOK
  <2>2. QED
    BY <1>1, <1>3, <1>4, <1>5, <2>1 DEF IInv, MapInv
<1>12. FreshInv'
  <2>1. \A d \in Conn : Fresh(d)' => Fresh(d) /\ d # c
    BY <1>1, <1>3, <1>5, <1>6 DEF Fresh
  <2>2. \A a \in Acceptor : apc[a] = "add" => heap'[aconn[a]] = "live"
    BY <1>3, <1>5, <1>8 DEF IInv, AcceptorHand, FreshInv
  <2>3. QED
    BY <1>1, <1>5, <1>7, <2>1, <2>2 DEF IInv, FreshInv
<1>13. FdInv'
  BY <1>1, <1>3, <1>5, <1>6 DEF IInv, FdInv
<1>14. HandInv' /\ OutInv'
  BY <1>1, <1>5, <1>6, <1>7 DEF IInv, HandInv, OutInv
<1>15. EventsInv' /\ ArmedInv' /\ Conserved'
  BY <1>1, <1>5, <1>6 DEF IInv, EventsInv, ArmedInv, Conserved
<1>16. FreedInv' /\ FaultNeedsReuse'
  BY <1>1 DEF FreedInv, FaultNeedsReuse
<1>17. NothingLeaks'
  <2> SUFFICES ASSUME NEW d \in Conn, heap'[d] = "live"
               PROVE  (\E a \in Acceptor : aconn[a] = d) \/ connections'[fd[d]] = d
    BY <1>1 DEF NothingLeaks
  <2>1. d # c /\ heap[d] = "live"
    BY <1>5, <1>6
  <2>2. fd[d] \in Fd /\ ((\E a \in Acceptor : aconn[a] = d) \/ connections[fd[d]] = d)
    BY <2>1 DEF IInv, NothingLeaks, FdInv
  <2>3. QED
    BY <1>4, <2>1, <2>2
<1>18. QED
  BY <1>9, <1>10, <1>11, <1>12, <1>13, <1>14, <1>15, <1>16, <1>17 DEF IInv

\* Stuttering.
LEMMA StutterInv == IInv /\ UNCHANGED vars => IInv'
<1> SUFFICES ASSUME IInv, UNCHANGED vars PROVE IInv'
  OBVIOUS
<1> USE DEF vars
<1>1. TypeOK' /\ Unborn' /\ AcceptorHand' /\ MapInv' /\ FreshInv' /\ FdInv'
  BY DEF IInv, TypeOK, Unborn, AcceptorHand, MapInv, FreshInv, FdInv, Hand, Fresh
<1>2. HandInv' /\ OutInv' /\ FreedInv' /\ EventsInv' /\ ArmedInv'
  BY DEF IInv, HandInv, Hand, OutInv, FreedInv, EventsInv, ArmedInv
<1>3. Conserved' /\ NothingLeaks' /\ FaultNeedsReuse'
  BY DEF IInv, Conserved, NothingLeaks, FaultNeedsReuse
<1>4. QED
  BY <1>1, <1>2, <1>3 DEF IInv

\* The invariant is inductive.
THEOREM Invariance == Spec => []IInv
<1>1. IInv /\ [Next]_vars => IInv'
  BY ClientInv, WorkerInv, AcceptorInv, StartInv, MainInv, DestroyInv, StutterInv
     DEF Next, StopGoesOn
<1>2. QED
  BY InitInv, <1>1, PTL DEF Spec

\* The variables have their types.
THEOREM TypeCorrect == Spec => []TypeOK
<1>1. IInv => TypeOK
  BY DEF IInv
<1>2. QED
  BY <1>1, Invariance, PTL

\* EPOLLONESHOT as the workers use it: in every reachable state, with any number
\* of workers, acceptors, clients and descriptors, a Connection is in the hands of
\* one worker at most.
THEOREM OneHandlerHolds == Spec => []OneHandler
<1>1. IInv => OneHandler
  <2> SUFFICES ASSUME IInv PROVE OneHandler
    OBVIOUS
  <2>1. \A w \in Worker : \A c : c \in Held(w) <=> \E e \in Hand(w) : e.conn = c
    BY DEF Held, Hand
  <2>2. \A w \in Worker : \A c \in Held(w) :
           /\ reg[c] \in {"off", "no"}
           /\ \A v \in Worker \ {w} : c \notin Held(v)
    BY <2>1 DEF IInv, HandInv
  <2>3. \A w \in Worker : \A e, e2 \in batch[w] : e.conn = e2.conn => e = e2
    BY DEF IInv, HandInv, Hand
  <2>4. \A w \in Worker : \A e \in batch[w] : cur[w] # None => e.conn # cur[w].conn
    BY DEF IInv, HandInv, Hand
  <2>5. QED
    BY <2>2, <2>3, <2>4 DEF OneHandler
<1>2. QED
  BY <1>1, Invariance, PTL

\* The client itself gives the reason to close its Connection: it has shut its
\* stream down or sent something that is refused.
Asked(c) == net[c] \in {"shut", "reset"} \/ Refused(c)

\* Why a Connection may be deleted.
Explained(c) ==
    \/ Asked(c)
    \/ connections[fd[c]] \notin {None, c}
    \/ CtlMayFail
    \/ main \notin {"serving", "stopping"}

\* Errors are reported of clients that have left, ...
ReportInv ==
    \A w \in Worker : \A e \in Hand(w) :
        e.ev \cap {"ERR", "RDHUP"} # {} => net[e.conn] \in {"shut", "reset"}

\* ... connections are closed for clients that have asked for it, ...
AliveInv == \A c \in Conn : heap[c] = "live" /\ ~alive[c] => Asked(c) \/ CtlMayFail

\* ... and what was deleted was deleted for a reason.
DroppedInv == \A c \in Conn : heap[c] = "freed" => Explained(c)

\* Before Start there are no connections.
EarlyInv == main = "init" => \A c \in Conn : heap[c] = "none"

\* The invariant about deleted connections.
DInv == ReportInv /\ AliveInv /\ DroppedInv /\ EarlyInv

\* A step that changes neither what a Connection is nor what its client has done.
LEMMA DropFrame ==
    ASSUME DInv,
           UNCHANGED <<connections, heap, fd, net, rx>>,
           \A c \in Conn : alive[c] => alive'[c],
           \A w \in Worker : Hand(w)' \subseteq Hand(w),
           main' = "init" => main = "init",
           main' \in {"serving", "stopping"} => main \in {"init", "serving", "stopping"}
    PROVE  DInv'
<1>1. \A c \in Conn : Asked(c)' = Asked(c)
  BY DEF Asked, Refused
<1>2. ReportInv'
  BY DEF DInv, ReportInv
<1>3. AliveInv'
  BY <1>1 DEF DInv, AliveInv
<1>4. DroppedInv'
  BY <1>1 DEF DInv, DroppedInv, Explained, EarlyInv
<1>5. EarlyInv'
  BY DEF DInv, EarlyInv
<1>6. QED
  BY <1>2, <1>3, <1>4, <1>5 DEF DInv

\* A client's steps keep the reasons it has given.
LEMMA DropClient ==
    ASSUME IInv, DInv, NEW c \in Conn, ClientStep(c) PROVE DInv'
<1>1. UNCHANGED <<main, connections, batch, cur, heap, fd, alive>>
  BY DEF ClientStep, Connect, Send, Shut, Reset, Client, mainVars, workVars, objVars
<1>2. /\ \A d \in Conn \ {c} : net'[d] = net[d] /\ rx'[d] = rx[d]
      /\ net[c] \in {"shut", "reset"} => net'[c] \in {"shut", "reset"}
  BY DEF ClientStep, Connect, Send, Shut, Reset, Client, IInv, TypeOK
<1>3. Refused(c) => Refused(c)' \/ net'[c] = "reset"
  <2>1. rx[c] \in Seq({"cmd", "bad"})
    BY DEF IInv, TypeOK
  <2>2. ASSUME NEW m \in {"cmd", "bad"}, rx[c] # <<>>
        PROVE  Append(rx[c], m) # <<>> /\ Head(Append(rx[c], m)) = Head(rx[c])
    BY <2>1, <2>2
  <2>3. CASE Connect(c) \/ Shut(c)
    BY <2>3 DEF Connect, Shut, Refused
  <2>4. CASE Reset(c)
    BY <2>4 DEF Reset, Client, IInv, TypeOK
  <2>5. ASSUME NEW m \in {"cmd", "bad"}, Send(c, m) PROVE Refused(c) => Refused(c)'
    <3>1. rx'[c] = Append(rx[c], m)
      BY <2>5 DEF Send, IInv, TypeOK
    <3>2. QED
      BY <2>2, <3>1 DEF Refused
  <2>6. QED
    BY <2>3, <2>4, <2>5 DEF ClientStep
<1>4. \A d \in Conn : Asked(d) => Asked(d)'
  BY <1>2, <1>3 DEF Asked, Refused
<1>5. ReportInv'
  <2>1. \A w \in Worker : Hand(w)' = Hand(w) /\ \A e \in Hand(w) : e.conn \in Conn
    BY <1>1 DEF Hand, IInv, TypeOK, Event
  <2>2. \A d \in Conn : net[d] \in {"shut", "reset"} => net'[d] \in {"shut", "reset"}
    BY <1>2
  <2>3. QED
    BY <2>1, <2>2 DEF DInv, ReportInv
<1>6. AliveInv' /\ DroppedInv'
  BY <1>1, <1>4 DEF DInv, AliveInv, DroppedInv, Explained
<1>7. QED
  BY <1>1, <1>5, <1>6 DEF DInv, EarlyInv

\* A worker reads commands in order, closes what it may close, and deletes what
\* was closed.
LEMMA DropWorker ==
    ASSUME IInv, DInv, fault = "none", NEW w \in Worker, WorkerStep(w) PROVE DInv'
<1>1. UNCHANGED <<main, connections, fd, net>>
  BY DEF WorkerStep, WorkerLoop, EpollWait, BatchDone, Pick, ReadCommand, ReadThrows,
         ReadDone, WriteAnswer, WriteFails, Rearm, CloseConnection, UseAfterFree,
         WorkerGoto, mainVars, objVars, netVars
<1> DEFINE c == cur[w].conn
<1>0. EarlyInv'
  <2>1. wpc[w] # "unborn"
    BY DEF WorkerStep, WorkerLoop, EpollWait, BatchDone, Pick, ReadCommand, ReadThrows,
           ReadDone, WriteAnswer, WriteFails, Rearm, CloseConnection, UseAfterFree, WorkerGoto
  <2>2. QED
    BY <1>1, <2>1 DEF IInv, Unborn, EarlyInv
<1>2. wpc[w] \in {"read", "write", "rearm"} => c \in Conn
  BY DEF IInv, TypeOK, HandInv, Event
<1>3. CASE \/ WorkerLoop(w) \/ BatchDone(w) \/ ReadDone(w) \/ WriteFails(w) \/ Rearm(w)
           \/ UseAfterFree(w) \/ \E n \in 1 .. MaxCmds : WriteAnswer(w, n)
  <2>1. UNCHANGED <<batch, heap, alive, rx>> /\ cur' \in {cur, [cur EXCEPT ![w] = None]}
    BY <1>3 DEF WorkerLoop, BatchDone, ReadDone, WriteFails, Rearm, UseAfterFree, WriteAnswer,
           workVars, objVars, netVars
  <2>2. \A v \in Worker : Hand(v)' \subseteq Hand(v)
    BY <2>1 DEF Hand, IInv, TypeOK
  <2>3. QED
    BY <1>1, <2>1, <2>2, DropFrame
<1>4. CASE EpollWait(w)
  <2>1. UNCHANGED <<cur, heap, alive, rx>>
    BY <1>4 DEF EpollWait
  <2>2. PICK B \in SUBSET Conn :
           batch' = [batch EXCEPT ![w] = {[conn |-> d, ev |-> Ready(d)] : d \in B}]
    BY <1>4 DEF EpollWait
  <2>3. ReportInv'
    <3> SUFFICES ASSUME NEW v \in Worker, NEW e \in Hand(v)',
                        e.ev \cap {"ERR", "RDHUP"} # {}
                 PROVE  net[e.conn] \in {"shut", "reset"}
      BY <1>1 DEF ReportInv
    <3>1. CASE e \in Hand(v)
      BY <3>1 DEF DInv, ReportInv
    <3>2. CASE e \notin Hand(v)
      <4>1. e \in {[conn |-> d, ev |-> Ready(d)] : d \in B}
        BY <2>1, <2>2, <3>2 DEF Hand, IInv, TypeOK
      <4>2. PICK d \in B : e = [conn |-> d, ev |-> Ready(d)]
        BY <4>1
      <4>3. Ready(d) \cap {"ERR", "RDHUP"} # {} => net[d] \in {"shut", "reset"}
        BY DEF Ready
      <4>4. QED
        BY <4>2, <4>3
    <3>3. QED
      BY <3>1, <3>2
  <2>4. AliveInv' /\ DroppedInv'
    BY <1>1, <2>1 DEF DInv, AliveInv, DroppedInv, Explained, Asked, Refused
  <2>5. QED
    BY <1>0, <2>3, <2>4 DEF DInv
<1>5. ASSUME NEW e \in batch[w], Pick(w, e) PROVE DInv'
  <2>1. /\ UNCHANGED <<heap, rx>>
        /\ batch' = [batch EXCEPT ![w] = @ \ {e}]
        /\ cur' = [cur EXCEPT ![w] = e]
        /\ e \in Event /\ e \in Hand(w)
    BY <1>5 DEF Pick, IInv, TypeOK, Hand
  <2>2. \A v \in Worker : Hand(v)' \subseteq Hand(v)
    BY <2>1 DEF Hand, IInv, TypeOK
  <2>3. CASE e.ev \cap {"ERR", "RDHUP"} = {}
    <3>1. alive' = alive
      BY <1>5, <2>3 DEF Pick
    <3>2. QED
      BY <1>1, <2>1, <2>2, <3>1, DropFrame
  <2>4. CASE e.ev \cap {"ERR", "RDHUP"} # {}
    <3>1. alive' = [alive EXCEPT ![e.conn] = FALSE] /\ e.conn \in Conn
      BY <1>5, <2>1, <2>4 DEF Pick, Event
    <3>2. net[e.conn] \in {"shut", "reset"}
      BY <2>1, <2>4 DEF DInv, ReportInv
    <3>3. ReportInv'
      BY <1>1, <2>2 DEF DInv, ReportInv
    <3>4. AliveInv' /\ DroppedInv'
      BY <1>1, <2>1, <3>1, <3>2 DEF DInv, AliveInv, DroppedInv, Explained, Asked, Refused, IInv, TypeOK
    <3>5. QED
      BY <1>0, <3>3, <3>4 DEF DInv
  <2>5. QED
    BY <2>3, <2>4
<1>6. CASE ReadCommand(w)
  <2>1. /\ UNCHANGED <<batch, cur, heap, alive>>
        /\ c \in Conn /\ heap[c] = "live" /\ ~Refused(c)
        /\ rx' = [rx EXCEPT ![c] = Tail(@)]
    BY <1>2, <1>6 DEF ReadCommand, WorkerGoto, Refused
  <2>2. \A d \in Conn : Asked(d) => Asked(d)'
    BY <1>1, <2>1 DEF Asked, Refused, IInv, TypeOK
  <2>3. QED
    BY <1>0, <1>1, <2>1, <2>2 DEF DInv, ReportInv, AliveInv, DroppedInv, Explained, Hand
<1>7. CASE ReadThrows(w)
  <2>1. /\ UNCHANGED <<batch, cur, heap, rx>>
        /\ c \in Conn /\ Asked(c)
        /\ alive' = [alive EXCEPT ![c] = FALSE]
    BY <1>2, <1>7 DEF ReadThrows, WorkerGoto, Asked
  <2>2. \A d \in Conn : Asked(d)' = Asked(d)
    BY <1>1, <2>1 DEF Asked, Refused
  <2>3. \A d \in Conn : ~alive'[d] => ~alive[d] \/ d = c
    BY <2>1 DEF IInv, TypeOK
  <2>4. AliveInv'
    BY <2>1, <2>2, <2>3 DEF DInv, AliveInv
  <2>5. QED
    BY <1>0, <1>1, <2>1, <2>2, <2>4 DEF DInv, ReportInv, DroppedInv, Explained, Hand
<1>8. CASE CloseConnection(w)
  <2>1. /\ UNCHANGED <<batch, rx>>
        /\ c \in Conn /\ heap[c] = "live"
        /\ ~alive[c] \/ CtlMayFail
        /\ heap' = [heap EXCEPT ![c] = "freed"]
        /\ alive' = [alive EXCEPT ![c] = FALSE]
        /\ cur' = [cur EXCEPT ![w] = None]
    BY <1>2, <1>8 DEF CloseConnection, WorkerGoto, Delete
  <2>2. \A d \in Conn : heap'[d] = (IF d = c THEN "freed" ELSE heap[d])
                        /\ (d # c => alive'[d] = alive[d])
    BY <2>1 DEF IInv, TypeOK
  <2>3. \A v \in Worker : Hand(v)' \subseteq Hand(v)
    BY <2>1 DEF Hand, IInv, TypeOK
  <2>4. \A d \in Conn : Asked(d)' = Asked(d)
    BY <1>1, <2>1 DEF Asked, Refused
  <2>5. \A d \in Conn : Explained(d)' = Explained(d)
    BY <1>1, <2>4 DEF Explained
  <2>6. Explained(c)
    BY <2>1 DEF DInv, AliveInv, Explained
  <2>7. ReportInv'
    BY <1>1, <2>3 DEF DInv, ReportInv
  <2>8. AliveInv' /\ DroppedInv'
    BY <2>2, <2>4, <2>5, <2>6 DEF DInv, AliveInv, DroppedInv
  <2>9. QED
    BY <1>0, <2>7, <2>8 DEF DInv
<1>9. QED
  BY <1>3, <1>4, <1>5, <1>6, <1>7, <1>8 DEF WorkerStep

\* An acceptor deletes what epoll_ctl or the map has refused.
LEMMA DropAcceptor ==
    ASSUME IInv, DInv, fault = "none", NEW a \in Acceptor, AcceptorStep(a) PROVE DInv'
<1> DEFINE c == aconn[a]
<1>1. UNCHANGED <<main, batch, cur, net, rx>>
  BY DEF AcceptorStep, AcceptorStart, AcceptorWake, AcceptNone, AcceptOne, AddConnection,
         AddFails, Insert, AcceptorGoto, mainVars, workVars, netVars
<1>2. \A w \in Worker : Hand(w)' = Hand(w)
  BY <1>1 DEF Hand
<1>3. ReportInv'
  BY <1>1, <1>2 DEF DInv, ReportInv
<1>4. \A d \in Conn : Asked(d)' = Asked(d)
  BY <1>1 DEF Asked, Refused
<1>0. EarlyInv'
  <2>1. apc[a] # "unborn"
    BY DEF AcceptorStep, AcceptorStart, AcceptorWake, AcceptNone, AcceptOne, AddConnection,
           AddFails, Insert, AcceptorGoto
  <2>2. QED
    BY <1>1, <2>1 DEF IInv, Unborn, EarlyInv
<1>5. CASE AcceptorStart(a) \/ AcceptorWake(a) \/ AcceptNone(a) \/ AddConnection(a)
  <2>1. UNCHANGED <<connections, heap, fd, alive>>
    BY <1>5 DEF AcceptorStart, AcceptorWake, AcceptNone, AddConnection
  <2>2. QED
    BY <1>1, <1>2, <2>1, DropFrame
<1>6. ASSUME NEW d \in Conn, NEW f \in Fd, AcceptOne(a, d, f) PROVE DInv'
  <2>1. /\ UNCHANGED connections
        /\ heap' = [heap EXCEPT ![d] = "live"]
        /\ fd' = [fd EXCEPT ![d] = f]
        /\ alive' = [alive EXCEPT ![d] = TRUE]
    BY <1>6 DEF AcceptOne
  <2>2. \A b \in Conn \ {d} : heap'[b] = heap[b] /\ fd'[b] = fd[b] /\ alive'[b] = alive[b]
    BY <2>1 DEF IInv, TypeOK
  <2>3. heap'[d] = "live" /\ alive'[d] = TRUE
    BY <2>1 DEF IInv, TypeOK
  <2>4. QED
    BY <1>0, <1>1, <1>3, <1>4, <2>1, <2>2, <2>3 DEF DInv, AliveInv, DroppedInv, Explained
<1>7. CASE AddFails(a)
  <2>1. CtlMayFail
    BY <1>7 DEF AddFails
  <2>2. QED
    BY <1>0, <1>3, <2>1 DEF DInv, AliveInv, DroppedInv, Explained
<1>8. CASE Insert(a)
  <2>1. apc[a] = "insert" /\ c # None
    BY <1>8 DEF IInv, AcceptorHand, Insert, AcceptorGoto
  <2>2. c \in Conn /\ heap[c] \in {"live", "freed"}
    BY <2>1 DEF IInv, TypeOK, AcceptorHand
  <2>3. fd[c] \in Fd /\ UNCHANGED <<fd, alive>>
    BY <1>8, <2>2 DEF IInv, FdInv, Insert
  <2>4. CASE main = "freeing"
    BY <1>1, <1>2, <1>8, <2>3, <2>4, DropFrame DEF Insert
  <2>5. CASE main # "freeing" /\ connections[fd[c]] = None
    <3>1. UNCHANGED heap /\ connections' = [connections EXCEPT ![fd[c]] = c]
      BY <1>8, <2>5 DEF Insert
    <3>2. ASSUME NEW d \in Conn, heap[d] = "freed", connections[fd[d]] \notin {None, d}
          PROVE  connections'[fd[d]] = connections[fd[d]]
      <4>1. fd[d] \in Fd /\ fd[d] # fd[c]
        BY <2>5, <3>2 DEF IInv, FdInv
      <4>2. QED
        BY <3>1, <4>1 DEF IInv, TypeOK
    <3>3. \A d \in Conn : heap[d] = "freed" /\ Explained(d) => Explained(d)'
      BY <1>1, <1>4, <2>3, <3>2 DEF Explained
    <3>4. QED
      BY <1>0, <1>3, <1>4, <2>3, <3>1, <3>3 DEF DInv, AliveInv, DroppedInv
  <2>6. CASE main # "freeing" /\ connections[fd[c]] # None
    <3>1. UNCHANGED connections /\ heap' \in {heap, [heap EXCEPT ![c] = "freed"]}
      BY <1>8, <2>6 DEF Insert, Delete
    <3>2. connections[fd[c]] # c
      BY <2>3, <2>6 DEF IInv, MapInv
    <3>3. \A d \in Conn : Explained(d)' = Explained(d)
      BY <1>1, <1>4, <2>3, <3>1 DEF Explained
    <3>4. \A d \in Conn : heap'[d] = heap[d] \/ (d = c /\ heap'[d] = "freed")
      BY <3>1 DEF IInv, TypeOK
    <3>5. Explained(c)
      BY <2>6, <3>2 DEF Explained
    <3>6. QED
      BY <1>0, <1>3, <1>4, <2>3, <3>3, <3>4, <3>5 DEF DInv, AliveInv, DroppedInv
  <2>7. QED
    BY <2>4, <2>5, <2>6
<1>9. QED
  BY <1>5, <1>6, <1>7, <1>8 DEF AcceptorStep

\* The main thread destroys connections only in Stop and after it.
LEMMA DropMain ==
    ASSUME IInv, DInv, fault = "none",
           Start \/ (\E w \in Worker : StopWorker(w)) \/ StopGoesOn
    PROVE  DInv'
<1>1. UNCHANGED <<batch, cur, fd, alive, net, rx>>
  BY DEF Start, StopWorker, StopGoesOn, Wakeup, Cleared, Join, Destroyed, FreeConnection,
         Destroy, MainGoto, workVars, objVars, netVars
<1>2. \A w \in Worker : Hand(w)' = Hand(w)
  BY <1>1 DEF Hand
<1>3. CASE \/ Start \/ (\E w \in Worker : StopWorker(w))
           \/ Wakeup \/ Cleared \/ Join \/ Destroyed
  <2>1. /\ UNCHANGED <<connections, heap>>
        /\ main' # "init"
        /\ main' \in {"serving", "stopping"} => main \in {"init", "serving", "stopping"}
    BY <1>3 DEF Start, StopWorker, Wakeup, Cleared, Join, Destroyed, MainGoto, objVars
  <2>2. QED
    BY <1>1, <1>2, <2>1, DropFrame
<1>4. ASSUME NEW f \in Fd, FreeConnection(f) \/ Destroy(f) PROVE DInv'
  <2>1. /\ main' = main /\ main \in {"freeing", "joined"}
        /\ heap' \in {heap, [heap EXCEPT ![connections[f]] = "freed"]}
    BY <1>4 DEF FreeConnection, Destroy, MainGoto, Delete
  <2>2. \A c \in Conn : heap'[c] = "live" => heap[c] = "live"
    BY <2>1 DEF IInv, TypeOK
  <2>3. \A c \in Conn : Asked(c)' = Asked(c)
    BY <1>1 DEF Asked, Refused
  <2>4. ReportInv' /\ AliveInv'
    BY <1>1, <1>2, <2>2, <2>3 DEF DInv, ReportInv, AliveInv
  <2>5. DroppedInv' /\ EarlyInv'
    BY <2>1 DEF DroppedInv, Explained, EarlyInv
  <2>6. QED
    BY <2>4, <2>5 DEF DInv
<1>5. QED
  BY <1>3, <1>4 DEF StopGoesOn

\* The invariant about deleted connections is inductive, given the first one.
THEOREM DropInvariance == Spec => []DInv
<1>1. Init => DInv
  BY DEF Init, DInv, ReportInv, AliveInv, DroppedInv, EarlyInv, Hand
<1>2. IInv /\ DInv /\ [Next]_vars => DInv'
  <2> SUFFICES ASSUME IInv, DInv, [Next]_vars PROVE DInv'
    OBVIOUS
  <2>1. CASE UNCHANGED vars
    BY <2>1, DropFrame DEF vars, Hand
  <2>2. CASE Next
    BY <2>2, DropClient, DropWorker, DropAcceptor, DropMain DEF Next
  <2>3. QED
    BY <2>1, <2>2
<1>3. QED
  BY <1>1, <1>2, Invariance, PTL DEF Spec

\* No answer in a Connection is forgotten by epoll, lost on its way or sent twice,
\* whatever the threads and clients do; and a Connection is destroyed with its
\* answers only for the reasons that DropsExplained lists.
THEOREM AnswersSafeHolds == Spec => []AnswersSafe
<1>1. IInv /\ DInv => AnswersSafe
  <2> SUFFICES ASSUME IInv, DInv PROVE AnswersSafe
    OBVIOUS
  <2>1. ArmedForAnswers
    BY DEF IInv, ArmedInv, OutInv, ArmedForAnswers
  <2>2. AnswersConserved
    BY DEF IInv, Conserved, AnswersConserved
  <2>3. DropsExplained
    BY DEF DInv, DroppedInv, Explained, Asked, DropsExplained
  <2>4. QED
    BY <2>1, <2>2, <2>3 DEF AnswersSafe
<1>2. QED
  BY <1>1, Invariance, DropInvariance, PTL

\* A live Connection is always owned, by the map or by the acceptor that made it.
THEOREM NothingLeaksHolds == Spec => []NothingLeaks
<1>1. IInv => NothingLeaks
  BY DEF IInv
<1>2. QED
  BY <1>1, Invariance, PTL

\* Until Stop destroys connections, memory is misused only through a descriptor
\* that was used again.
THEOREM FaultNeedsReuseHolds == Spec => []FaultNeedsReuse
<1>1. IInv => FaultNeedsReuse
  BY DEF IInv
<1>2. QED
  BY <1>1, Invariance, PTL
=============================================================================
