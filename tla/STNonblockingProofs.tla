------------------------ MODULE STNonblockingProofs -------------------------
(***************************************************************************)
(* For any number of clients and descriptors, whether epoll_ctl fails or   *)
(* not: answers of a connection are neither forgotten by epoll nor lost or *)
(* repeated, they are destroyed with it for named reasons only, and until  *)
(* Stop nothing but a failed EPOLL_CTL_MOD leads to misused memory.        *)
(*                                                                         *)
(* The map owns exactly the living connections (RegistryExact), so that a  *)
(* number that accept4 returns is never taken in it.  The kernel knows the *)
(* interest of a connection, or, while it is handled, the one from before  *)
(* (WatchInv): that is what makes "only if it has changed" right.          *)
(***************************************************************************)
EXTENDS STNonblocking, TLAPS

MainStates == {"init", "failed", "serving", "freeing", "join", "joined"}
Handling == {"read", "write", "after"}
LoopStates == {"unborn", "start", "wait", "pick", "accept", "exited"} \cup Handling

\* The events of connections.
ConnEvent == [conn : Conn, ev : SUBSET {"ERR", "RDHUP", "IN", "OUT"}]

\* The types of the variables.
TypeOK ==
    /\ main \in MainStates
    /\ eventfd \in BOOLEAN
    /\ connections \in [Fd -> Conn \cup {None}]
    /\ pc \in LoopStates
    /\ run \in BOOLEAN
    /\ batch \in SUBSET (ConnEvent \cup {Listen})
    /\ cur \in ConnEvent \cup {None}
    /\ old_mask \in {"in", "inout"}
    /\ heap \in [Conn -> {"none", "live", "freed"}]
    /\ fd \in [Conn -> Fd \cup {None}]
    /\ alive \in [Conn -> BOOLEAN]
    /\ events \in [Conn -> {"in", "inout"}]
    /\ results \in [Conn -> Nat]
    /\ reg \in [Conn -> {"no", "in", "inout"}]
    /\ net \in [Conn -> {"new", "open", "shut", "reset"}]
    /\ rx \in [Conn -> Seq({"cmd", "bad"})]
    /\ executed \in [Conn -> Nat]
    /\ got \in [Conn -> Nat]
    /\ fault \in {"none", "terminate", "race", "double_free", "use_after_free",
                  "failed_mod"}

\* Before Start there is no thread.
Unborn == main = "init" => pc = "unborn"

\* _connections has exactly the living connections, under their descriptors.
RegistryExact ==
    /\ \A c \in Conn : heap[c] = "live" => fd[c] \in Fd /\ connections[fd[c]] = c
    /\ \A f \in Fd : connections[f] # None =>
          heap[connections[f]] = "live" /\ fd[connections[f]] = f

\* The events the thread has in its hands.
Hand == {e \in batch : e # Listen} \cup (IF pc \in Handling THEN {cur} ELSE {})

\* They belong to different connections, which were accepted, and which are
\* there until Stop destroys them.
HandInv ==
    /\ pc \in Handling => cur \in ConnEvent /\ cur \notin batch
    /\ \A e, d \in Hand : e.conn = d.conn => e = d
    /\ \A e \in Hand : heap[e.conn] # "none"
    /\ main \in {"init", "serving"} => \A e \in Hand : heap[e.conn] # "freed"

\* What was not accepted has no answers; only living connections are registered.
FreshInv ==
    /\ \A c \in Conn : heap[c] = "none" => results[c] = 0
    /\ \A c \in Conn : reg[c] # "no" => heap[c] = "live"

\* The kernel knows the interest of a living connection, or the one from before
\* while the connection is handled, unless Stop got in its way.
WatchInv ==
    \A c \in Conn : heap[c] = "live" /\ fault # "race" =>
        reg[c] = IF pc \in Handling /\ cur.conn = c THEN old_mask ELSE events[c]

\* _event asks for EPOLLOUT exactly if there is something to send, ...
EventsInv ==
    \A c \in Conn : net[c] # "reset" => (events[c] = "inout" <=> results[c] > 0)

\* ... and when the thread is told that it can write there is.
OutInv ==
    /\ \A e \in batch : e # Listen =>
          e.ev # {} /\ ("OUT" \in e.ev => results[e.conn] > 0)
    /\ pc = "read" /\ "OUT" \in cur.ev => results[cur.conn] > 0
    /\ pc = "write" => results[cur.conn] > 0

\* What was executed was sent or is in _results, destroyed or not.
Conserved ==
    \A c \in Conn : net[c] # "reset" => executed[c] = results[c] + got[c]

\* The inductive invariant.
IInv ==
    /\ TypeOK /\ Unborn
    /\ RegistryExact /\ HandInv /\ FreshInv /\ WatchInv
    /\ EventsInv /\ OutInv
    /\ Conserved /\ NoFault

USE STNAssumption

\* The initial state satisfies the invariant.
LEMMA InitInv == Init => IInv
<1> SUFFICES ASSUME Init PROVE IInv
  OBVIOUS
<1>1. TypeOK
  <2>1. /\ eventfd \in BOOLEAN /\ run \in BOOLEAN
        /\ alive \in [Conn -> BOOLEAN]
    BY DEF Init
  <2>2. main \in MainStates /\ pc \in LoopStates
    BY DEF Init, MainStates, LoopStates
  <2>3. /\ connections \in [Fd -> Conn \cup {None}]
        /\ batch \in SUBSET (ConnEvent \cup {Listen})
        /\ cur \in ConnEvent \cup {None}
        /\ heap \in [Conn -> {"none", "live", "freed"}]
        /\ fd \in [Conn -> Fd \cup {None}]
    BY DEF Init
  <2>4. /\ old_mask \in {"in", "inout"}
        /\ events \in [Conn -> {"in", "inout"}]
        /\ results \in [Conn -> Nat]
        /\ reg \in [Conn -> {"no", "in", "inout"}]
        /\ net \in [Conn -> {"new", "open", "shut", "reset"}]
        /\ rx \in [Conn -> Seq({"cmd", "bad"})]
        /\ executed \in [Conn -> Nat]
        /\ got \in [Conn -> Nat]
        /\ fault \in {"none", "terminate", "race", "double_free", "use_after_free",
                      "failed_mod"}
    BY DEF Init
  <2>5. QED
    BY <2>1, <2>2, <2>3, <2>4 DEF TypeOK
<1>2. Unborn /\ RegistryExact /\ HandInv /\ FreshInv /\ WatchInv
  BY DEF Init, Unborn, RegistryExact, HandInv, Hand, Handling, FreshInv, WatchInv
<1>3. EventsInv /\ OutInv /\ Conserved /\ NoFault
  BY DEF Init, EventsInv, OutInv, Conserved, NoFault
<1>4. QED
  BY <1>1, <1>2, <1>3 DEF IInv

\* Nothing but a client's side of its socket changes.
LEMMA ClientInv ==
    ASSUME IInv, fault = "none", NEW c \in Conn, ClientStep(c) PROVE IInv'
<1> USE DEF loopVars, objVars, histVars
<1>1. UNCHANGED <<main, eventfd, connections, pc, run, batch, cur, old_mask, heap, fd,
                  alive, events, results, reg, executed, got, fault>>
  BY DEF ClientStep, Connect, Send, Shut, Reset, Client
<1>2. TypeOK'
  <2>1. PICK n \in {"open", "shut", "reset"} : net' = [net EXCEPT ![c] = n]
    BY DEF ClientStep, Connect, Send, Shut, Reset, Client
  <2>2. net' \in [Conn -> {"new", "open", "shut", "reset"}]
    BY <2>1 DEF IInv, TypeOK
  <2>3. PICK q \in Seq({"cmd", "bad"}) : rx' = [rx EXCEPT ![c] = q]
    <3>1. rx = [rx EXCEPT ![c] = rx[c]] /\ rx[c] \in Seq({"cmd", "bad"})
      BY DEF IInv, TypeOK
    <3>2. << >> \in Seq({"cmd", "bad"})
      OBVIOUS
    <3>3. CASE Connect(c) \/ Shut(c) \/ Reset(c)
      BY <3>1, <3>2, <3>3 DEF Connect, Shut, Reset
    <3>4. ASSUME NEW m \in {"cmd", "bad"}, Send(c, m)
          PROVE  \E q \in Seq({"cmd", "bad"}) : rx' = [rx EXCEPT ![c] = q]
      <4>1. Append(rx[c], m) \in Seq({"cmd", "bad"})
        BY <3>1
      <4>2. QED
        BY <3>4, <4>1 DEF Send
    <3>5. QED
      BY <3>3, <3>4 DEF ClientStep
  <2>4. rx' \in [Conn -> Seq({"cmd", "bad"})]
    BY <2>3 DEF IInv, TypeOK
  <2>5. QED
    BY <1>1, <2>2, <2>4 DEF IInv, TypeOK
<1>3. \A d \in Conn : net'[d] # "reset" => net[d] # "reset"
  BY DEF IInv, TypeOK, ClientStep, Connect, Send, Shut, Reset, Client
<1>4. EventsInv' /\ Conserved'
  BY <1>1, <1>3 DEF IInv, EventsInv, Conserved
<1>5. Unborn' /\ RegistryExact' /\ HandInv' /\ FreshInv' /\ WatchInv' /\ OutInv' /\ NoFault'
  BY <1>1 DEF IInv, Unborn, RegistryExact, HandInv, Hand, FreshInv, WatchInv, OutInv, NoFault
<1>6. QED
  BY <1>2, <1>4, <1>5 DEF IInv

\* DoRead and DoWrite change _results and _event of the connection at hand.
LEMMA HandleFrame ==
    ASSUME IInv, NEW p \in Handling, pc \in Handling, pc' = p,
           UNCHANGED <<main, connections, batch, cur, old_mask, heap, fd, reg, net, fault>>,
           \A d \in Conn \ {cur.conn} : results'[d] = results[d] /\ events'[d] = events[d]
    PROVE  /\ cur.conn \in Conn
           /\ \A e \in batch : e # Listen => e.conn # cur.conn /\ e.conn \in Conn
           /\ Unborn' /\ RegistryExact' /\ HandInv' /\ FreshInv' /\ WatchInv' /\ NoFault'
<1>0. cur \in ConnEvent /\ cur \in Hand
  BY DEF IInv, HandInv, Hand
<1>1. cur.conn \in Conn
  BY <1>0 DEF ConnEvent
<1>2. Hand' = Hand
  BY DEF Hand
<1>3. \A e \in batch : e # Listen => e.conn # cur.conn /\ e.conn \in Conn
  <2>1. \A e \in batch : e # Listen => e \in ConnEvent /\ e \in Hand /\ e # cur
    BY DEF IInv, TypeOK, Hand, HandInv
  <2>2. QED
    BY <1>0, <2>1 DEF IInv, HandInv, ConnEvent
<1>4. Unborn' /\ RegistryExact' /\ NoFault'
  BY DEF IInv, Unborn, RegistryExact, NoFault, Handling
<1>5. HandInv'
  BY <1>2 DEF IInv, HandInv
<1>6. heap[cur.conn] # "none"
  BY <1>0 DEF IInv, HandInv
<1>7. FreshInv'
  BY <1>6 DEF IInv, FreshInv
<1>8. WatchInv'
  BY DEF IInv, WatchInv
<1>9. QED
  BY <1>1, <1>3, <1>4, <1>5, <1>7, <1>8

\* An executed command adds an answer and asks for EPOLLOUT.
LEMMA ReadCommandInv == IInv /\ ReadCommand => IInv'
<1> SUFFICES ASSUME IInv, ReadCommand PROVE IInv'
  OBVIOUS
<1> DEFINE c == cur.conn
<1>1. /\ UNCHANGED <<main, eventfd, connections, run, batch, cur, old_mask, heap, fd, alive,
                     reg, net, got, fault>>
      /\ pc = "read" /\ pc' = "read"
      /\ rx[c] # << >>
      /\ rx' = [rx EXCEPT ![c] = Tail(@)]
      /\ executed' = [executed EXCEPT ![c] = @ + 1]
      /\ results' = [results EXCEPT ![c] = @ + 1]
      /\ events' = [events EXCEPT ![c] = "inout"]
  BY DEF ReadCommand, Handle, LoopGoto
<1>2. \A d \in Conn : /\ results[d] \in Nat /\ executed[d] \in Nat /\ got[d] \in Nat
                      /\ d # c => /\ results'[d] = results[d] /\ events'[d] = events[d]
                                  /\ executed'[d] = executed[d]
  BY <1>1 DEF IInv, TypeOK
<1>3. /\ c \in Conn
      /\ \A e \in batch : e # Listen => e.conn # c /\ e.conn \in Conn
      /\ Unborn' /\ RegistryExact' /\ HandInv' /\ FreshInv' /\ WatchInv' /\ NoFault'
  BY <1>1, <1>2, HandleFrame DEF Handling
<1>4. TypeOK'
  <2>1. rx[c] \in Seq({"cmd", "bad"})
    BY <1>3 DEF IInv, TypeOK
  <2>2. rx' \in [Conn -> Seq({"cmd", "bad"})]
    BY <1>1, <1>3, <2>1 DEF IInv, TypeOK
  <2>3. QED
    BY <1>1, <1>3, <2>2 DEF IInv, TypeOK
<1>5. results'[c] = results[c] + 1 /\ executed'[c] = executed[c] + 1 /\ events'[c] = "inout"
  BY <1>1, <1>3 DEF IInv, TypeOK
<1>6. EventsInv' /\ Conserved'
  <2>1. net' = net /\ got' = got
    BY <1>1
  <2>2. ASSUME NEW d \in Conn, net[d] # "reset"
        PROVE  /\ events'[d] = "inout" <=> results'[d] > 0
               /\ executed'[d] = results'[d] + got[d]
    <3>1. (events[d] = "inout" <=> results[d] > 0) /\ executed[d] = results[d] + got[d]
      BY <2>2 DEF IInv, EventsInv, Conserved
    <3>2. QED
      BY <1>2, <1>5, <3>1
  <2>3. QED
    BY <2>1, <2>2 DEF EventsInv, Conserved
<1>7. OutInv'
  BY <1>1, <1>2, <1>3, <1>5 DEF IInv, OutInv
<1>8. QED
  BY <1>3, <1>4, <1>6, <1>7 DEF IInv

\* DoRead ends, with or without an exception.
LEMMA ReadEndInv == IInv /\ (ReadThrows \/ ReadDone) => IInv'
<1> SUFFICES ASSUME IInv, ReadThrows \/ ReadDone PROVE IInv'
  OBVIOUS
<1> DEFINE c == cur.conn
<1>1. /\ UNCHANGED <<main, eventfd, connections, run, batch, cur, old_mask, heap, fd,
                     events, results, reg, net, executed, got, fault>>
      /\ pc = "read" /\ pc' \in {"write", "after"}
      /\ pc' = "write" => "OUT" \in cur.ev
  BY DEF ReadThrows, ReadDone, AfterRead, Handle, LoopGoto, histVars
<1>2. /\ c \in Conn
      /\ Unborn' /\ RegistryExact' /\ HandInv' /\ FreshInv' /\ WatchInv' /\ NoFault'
  BY <1>1, HandleFrame DEF Handling
<1>3. TypeOK'
  <2>1. alive' \in [Conn -> BOOLEAN]
    BY DEF IInv, TypeOK, ReadThrows, ReadDone
  <2>2. rx' \in [Conn -> Seq({"cmd", "bad"})]
    <3>1. rx' = rx \/ (rx[c] # << >> /\ rx' = [rx EXCEPT ![c] = Tail(rx[c])])
      BY DEF ReadThrows, ReadDone
    <3>2. rx \in [Conn -> Seq({"cmd", "bad"})] /\ rx[c] \in Seq({"cmd", "bad"})
      BY <1>2 DEF IInv, TypeOK
    <3>3. rx[c] # << >> => Tail(rx[c]) \in Seq({"cmd", "bad"})
      BY <3>2
    <3>4. QED
      BY <3>1, <3>2, <3>3
  <2>3. pc' \in LoopStates
    BY <1>1 DEF LoopStates, Handling
  <2>4. QED
    BY <1>1, <2>1, <2>2, <2>3 DEF IInv, TypeOK
<1>4. EventsInv' /\ Conserved' /\ OutInv'
  BY <1>1 DEF IInv, EventsInv, Conserved, OutInv
<1>5. QED
  BY <1>2, <1>3, <1>4 DEF IInv

\* What send took is taken from _results; EPOLLOUT is asked for unless that was
\* all.
LEMMA WriteAnswerInv ==
    ASSUME IInv, NEW n \in 1 .. MaxCmds, WriteAnswer(n) PROVE IInv'
<1> DEFINE c == cur.conn
<1>1. /\ UNCHANGED <<main, eventfd, connections, run, batch, cur, old_mask, heap, fd, alive,
                     reg, net, rx, executed, fault>>
      /\ pc = "write" /\ pc' = "after"
      /\ n \in 1 .. results[c]
      /\ results' = [results EXCEPT ![c] = @ - n]
      /\ got' = [got EXCEPT ![c] = @ + n]
      /\ events' = [events EXCEPT ![c] = IF n = results[c] THEN "in" ELSE "inout"]
  BY DEF WriteAnswer, Handle, LoopGoto
<1>2. \A d \in Conn : /\ results[d] \in Nat /\ executed[d] \in Nat /\ got[d] \in Nat
                      /\ d # c => /\ results'[d] = results[d] /\ events'[d] = events[d]
                                  /\ got'[d] = got[d]
  BY <1>1 DEF IInv, TypeOK
<1>3. /\ c \in Conn
      /\ \A e \in batch : e # Listen => e.conn # c /\ e.conn \in Conn
      /\ Unborn' /\ RegistryExact' /\ HandInv' /\ FreshInv' /\ WatchInv' /\ NoFault'
  BY <1>1, <1>2, HandleFrame DEF Handling
<1>4. n \in Nat /\ results[c] \in Nat /\ n <= results[c]
  BY <1>1, <1>2, <1>3
<1>5. TypeOK'
  <2>1. results' \in [Conn -> Nat] /\ got' \in [Conn -> Nat]
    BY <1>1, <1>3, <1>4 DEF IInv, TypeOK
  <2>2. pc' \in LoopStates /\ events' \in [Conn -> {"in", "inout"}]
    BY <1>1 DEF IInv, TypeOK, LoopStates, Handling
  <2>3. QED
    BY <1>1, <2>1, <2>2 DEF IInv, TypeOK
<1>6. /\ results'[c] = results[c] - n /\ got'[c] = got[c] + n
      /\ events'[c] = "inout" <=> n # results[c]
  BY <1>1, <1>3 DEF IInv, TypeOK
<1>7. EventsInv' /\ Conserved'
  <2>1. net' = net /\ executed' = executed
    BY <1>1
  <2>2. ASSUME NEW d \in Conn, net[d] # "reset"
        PROVE  /\ events'[d] = "inout" <=> results'[d] > 0
               /\ executed[d] = results'[d] + got'[d]
    <3>1. (events[d] = "inout" <=> results[d] > 0) /\ executed[d] = results[d] + got[d]
      BY <2>2 DEF IInv, EventsInv, Conserved
    <3>2. QED
      BY <1>2, <1>4, <1>6, <3>1
  <2>3. QED
    BY <2>1, <2>2 DEF EventsInv, Conserved
<1>8. OutInv'
  BY <1>1, <1>2, <1>3 DEF IInv, OutInv
<1>9. QED
  BY <1>3, <1>5, <1>7, <1>8 DEF IInv

\* A failed send empties _results; the client is gone.
LEMMA WriteFailsInv == IInv /\ WriteFails => IInv'
<1> SUFFICES ASSUME IInv, WriteFails PROVE IInv'
  OBVIOUS
<1> DEFINE c == cur.conn
<1>1. /\ UNCHANGED <<main, eventfd, connections, run, batch, cur, old_mask, heap, fd, alive,
                     reg, net, rx, executed, got, fault>>
      /\ pc = "write" /\ pc' = "after"
      /\ net[c] = "reset"
      /\ results' = [results EXCEPT ![c] = 0]
      /\ events' = [events EXCEPT ![c] = "in"]
  BY DEF WriteFails, Handle, LoopGoto, histVars
<1>2. \A d \in Conn : d # c => results'[d] = results[d] /\ events'[d] = events[d]
  BY <1>1 DEF IInv, TypeOK
<1>3. /\ c \in Conn
      /\ \A e \in batch : e # Listen => e.conn # c /\ e.conn \in Conn
      /\ Unborn' /\ RegistryExact' /\ HandInv' /\ FreshInv' /\ WatchInv' /\ NoFault'
  BY <1>1, <1>2, HandleFrame DEF Handling
<1>4. TypeOK'
  BY <1>1 DEF IInv, TypeOK, LoopStates, Handling
<1>5. EventsInv' /\ Conserved'
  BY <1>1, <1>2 DEF IInv, EventsInv, Conserved
<1>6. OutInv'
  BY <1>1, <1>2, <1>3 DEF IInv, OutInv
<1>7. QED
  BY <1>3, <1>4, <1>5, <1>6 DEF IInv

\* The thread moves on, or gives up, without touching a connection.
LEMMA IdleInv ==
    ASSUME IInv, fault = "none",
           LoopStart \/ LoopEnds \/ BatchDone \/ PickListen \/ AcceptNone
    PROVE  IInv'
<1>1. /\ UNCHANGED <<main, eventfd, connections, run, cur, old_mask, heap, fd, alive,
                     events, results, reg, net, rx, executed, got>>
      /\ fault' \in {"none", "terminate"}
      /\ pc \in {"start", "wait", "pick", "accept"}
      /\ pc' \in {"wait", "exited", "pick", "accept"}
      /\ batch' \in {batch, batch \ {Listen}}
  BY DEF LoopStart, LoopEnds, BatchDone, PickListen, AcceptNone, LoopGoto, objVars, histVars
<1>2. Hand' = Hand
  BY <1>1 DEF Hand, Handling
<1>3. TypeOK'
  BY <1>1 DEF IInv, TypeOK, LoopStates
<1>4. Unborn' /\ RegistryExact' /\ FreshInv' /\ EventsInv' /\ Conserved' /\ NoFault'
  BY <1>1 DEF IInv, Unborn, RegistryExact, FreshInv, EventsInv, Conserved, NoFault
<1>5. HandInv' /\ WatchInv' /\ OutInv'
  BY <1>1, <1>2 DEF IInv, HandInv, WatchInv, OutInv, Handling
<1>6. QED
  BY <1>3, <1>4, <1>5 DEF IInv

\* epoll_wait reports living connections, each of them once.
LEMMA EpollWaitInv == IInv /\ fault = "none" /\ EpollWait => IInv'
<1> SUFFICES ASSUME IInv, fault = "none", EpollWait PROVE IInv'
  OBVIOUS
<1> DEFINE R == {c \in Conn : reg[c] # "no" /\ Ready(c) # {}}
           New == {[conn |-> c, ev |-> Ready(c)] : c \in R}
<1>1. /\ UNCHANGED <<main, eventfd, connections, cur, old_mask, heap, fd, alive, events,
                     results, reg, net, rx, executed, got, fault>>
      /\ pc = "wait" /\ pc' = "pick"
      /\ batch' = New \cup (IF Backlog # {} THEN {Listen} ELSE {})
  BY DEF EpollWait, LoopGoto, objVars, histVars
<1>2. \A e \in New : /\ e \in ConnEvent
                     /\ heap[e.conn] = "live"
                     /\ e.ev # {}
                     /\ "OUT" \in e.ev => results[e.conn] > 0
                     /\ \A d \in New : d.conn = e.conn => d = e
  <2> SUFFICES ASSUME NEW e \in New
               PROVE  /\ e \in ConnEvent
                      /\ heap[e.conn] = "live"
                      /\ e.ev # {}
                      /\ "OUT" \in e.ev => results[e.conn] > 0
                      /\ \A d \in New : d.conn = e.conn => d = e
    OBVIOUS
  <2>1. PICK c \in R : e = [conn |-> c, ev |-> Ready(c)]
    OBVIOUS
  <2>2. Ready(c) \in SUBSET {"ERR", "RDHUP", "IN", "OUT"}
    BY DEF Ready
  <2>3. heap[c] = "live"
    BY DEF IInv, FreshInv
  <2>4. reg[c] = events[c]
    BY <1>1, <2>3 DEF IInv, WatchInv, Handling
  <2>5. "OUT" \in Ready(c) => reg[c] = "inout" /\ net[c] # "reset"
    BY DEF Ready
  <2>6. "OUT" \in Ready(c) => results[c] > 0
    BY <2>4, <2>5 DEF IInv, EventsInv
  <2>7. QED
    BY <2>1, <2>2, <2>3, <2>6 DEF ConnEvent
<1>3. Hand' \subseteq New
  BY <1>1 DEF Hand, Handling
<1>4. TypeOK'
  <2>1. run' \in BOOLEAN
    BY DEF EpollWait
  <2>2. batch' \in SUBSET (ConnEvent \cup {Listen})
    BY <1>1, <1>2
  <2>3. pc' \in LoopStates
    BY <1>1 DEF LoopStates
  <2>4. QED
    BY <1>1, <2>1, <2>2, <2>3 DEF IInv, TypeOK
<1> HIDE DEF New
<1>5. Unborn' /\ RegistryExact' /\ FreshInv' /\ EventsInv' /\ Conserved' /\ NoFault'
  BY <1>1 DEF IInv, Unborn, RegistryExact, FreshInv, EventsInv, Conserved, NoFault
<1>6. HandInv'
  BY <1>1, <1>2, <1>3 DEF HandInv, Handling
<1>7. WatchInv'
  BY <1>1 DEF IInv, WatchInv, Handling
<1>8. OutInv'
  BY <1>1, <1>2 DEF OutInv
<1>9. QED
  BY <1>4, <1>5, <1>6, <1>7, <1>8 DEF IInv

\* The event moves from the batch into the thread's hand, and the interest from
\* before is noted.
LEMMA PickInv ==
    ASSUME IInv, fault = "none", NEW e \in batch, Pick(e) PROVE IInv'
<1>1. /\ UNCHANGED <<main, eventfd, connections, run, heap, fd, events, results, reg, net,
                     rx, executed, got, fault>>
      /\ e # Listen
      /\ pc = "pick" /\ pc' \in Handling
      /\ pc' = "write" => e.ev \cap {"ERR", "RDHUP"} = {} /\ "IN" \notin e.ev
      /\ batch' = batch \ {e} /\ cur' = e /\ old_mask' = events[e.conn]
  BY DEF Pick, LoopGoto, histVars, Handling
<1>2. e \in ConnEvent
  BY <1>1 DEF IInv, TypeOK
<1>3. e.conn \in Conn /\ e.ev \in SUBSET {"ERR", "RDHUP", "IN", "OUT"}
  BY <1>2 DEF ConnEvent
<1>4. Hand' = Hand
  BY <1>1 DEF Hand, Handling
<1>5. TypeOK'
  <2>1. alive' \in [Conn -> BOOLEAN]
    BY DEF IInv, TypeOK, Pick
  <2>2. /\ pc' \in LoopStates /\ batch' \in SUBSET (ConnEvent \cup {Listen})
        /\ cur' \in ConnEvent \cup {None} /\ old_mask' \in {"in", "inout"}
    BY <1>1, <1>2, <1>3 DEF IInv, TypeOK, LoopStates
  <2>3. QED
    BY <1>1, <2>1, <2>2 DEF IInv, TypeOK
<1>6. Unborn' /\ RegistryExact' /\ FreshInv' /\ EventsInv' /\ Conserved' /\ NoFault'
  BY <1>1 DEF IInv, Unborn, RegistryExact, FreshInv, EventsInv, Conserved, NoFault
<1>7. HandInv'
  BY <1>1, <1>2, <1>4 DEF IInv, HandInv
<1>8. WatchInv'
  BY <1>1, <1>3 DEF IInv, WatchInv, Handling
<1>9. OutInv'
  <2>1. e.ev # {} /\ ("OUT" \in e.ev => results[e.conn] > 0)
    BY <1>1 DEF IInv, OutInv
  <2>2. pc' = "write" => "OUT" \in e.ev
    BY <1>1, <1>3, <2>1
  <2>3. QED
    BY <1>1, <2>1, <2>2 DEF IInv, OutInv
<1>10. QED
  BY <1>5, <1>6, <1>7, <1>8, <1>9 DEF IInv

\* What is not accepted yet is nowhere.
LEMMA BacklogFacts ==
    ASSUME IInv, NEW c \in Conn, heap[c] = "none"
    PROVE  /\ c # None /\ reg[c] = "no" /\ results[c] = 0
           /\ \A f \in Fd : connections[f] # c
           /\ \A e \in Hand : e.conn # c /\ e.conn \in Conn
<1>1. reg[c] = "no" /\ results[c] = 0
  BY DEF IInv, FreshInv, TypeOK
<1>2. \A e \in Hand : e \in ConnEvent
  BY DEF IInv, TypeOK, Hand, HandInv
<1>3. \A e \in Hand : e.conn # c /\ e.conn \in Conn
  BY <1>2 DEF IInv, HandInv, ConnEvent
<1>4. QED
  BY <1>1, <1>3 DEF IInv, RegistryExact

\* accept4 returns a number that no living connection has, so the map has nothing
\* under it.
LEMMA AcceptOneInv ==
    ASSUME IInv, fault = "none", NEW c \in Conn, NEW f \in Fd, AcceptOne(c, f)
    PROVE  IInv'
<1>1. /\ UNCHANGED <<main, eventfd, run, batch, cur, old_mask, results, net, rx, executed,
                     got>>
      /\ pc = "accept" /\ pc' = "accept"
      /\ heap[c] = "none"
      /\ fd' = [fd EXCEPT ![c] = f]
      /\ events' = [events EXCEPT ![c] = "in"]
  BY DEF AcceptOne, Backlog, LoopGoto, histVars
<1>2. /\ c # None /\ reg[c] = "no" /\ results[c] = 0
      /\ \A g \in Fd : connections[g] # c
      /\ \A e \in Hand : e.conn # c /\ e.conn \in Conn
  BY <1>1, BacklogFacts
<1>3. connections[f] = None
  <2>1. \A d \in Conn : heap[d] = "live" => fd[d] # f
    BY DEF AcceptOne, Lowest, UsedFds
  <2>2. connections[f] \in Conn \cup {None}
    BY DEF IInv, TypeOK
  <2>3. QED
    BY <2>1, <2>2 DEF IInv, RegistryExact
<1>4. \A d \in Conn : /\ fd'[d] = IF d = c THEN f ELSE fd[d]
                      /\ events'[d] = IF d = c THEN "in" ELSE events[d]
  BY <1>1 DEF IInv, TypeOK
<1>5. Hand' = Hand /\ pc \notin Handling
  BY <1>1 DEF Hand, Handling
<1>6. Unborn' /\ OutInv' /\ Conserved'
  BY <1>1 DEF IInv, Unborn, OutInv, Conserved
<1>7. EventsInv'
  BY <1>1, <1>2, <1>4 DEF IInv, EventsInv
<1>8. \A g \in Fd : connections[g] # None => connections[g] \in Conn
  BY DEF IInv, TypeOK
<1>9. CASE main = "freeing"
  <2>1. UNCHANGED <<connections, heap, alive, reg>> /\ fault' = "race"
    BY <1>9 DEF AcceptOne
  <2>2. TypeOK'
    BY <1>1, <2>1 DEF IInv, TypeOK
  <2>3. RegistryExact' /\ NoFault'
    BY <1>1, <1>2, <1>4, <1>8, <1>9, <2>1 DEF IInv, RegistryExact, NoFault
  <2>4. HandInv' /\ FreshInv' /\ WatchInv'
    BY <1>1, <1>5, <2>1 DEF IInv, HandInv, FreshInv, WatchInv
  <2>5. QED
    BY <1>6, <1>7, <2>2, <2>3, <2>4 DEF IInv
<1>10. CASE main # "freeing"
  <2>1. /\ heap' = [heap EXCEPT ![c] = "live"] /\ reg' = [reg EXCEPT ![c] = "in"]
        /\ connections' = [connections EXCEPT ![f] = c]
        /\ alive' = [alive EXCEPT ![c] = TRUE] /\ UNCHANGED fault
    BY <1>3, <1>10 DEF AcceptOne
  <2>2. /\ \A d \in Conn : /\ heap'[d] = IF d = c THEN "live" ELSE heap[d]
                           /\ reg'[d] = IF d = c THEN "in" ELSE reg[d]
        /\ \A g \in Fd : connections'[g] = IF g = f THEN c ELSE connections[g]
    BY <2>1 DEF IInv, TypeOK
  <2>3. TypeOK'
    BY <1>1, <2>1 DEF IInv, TypeOK
  <2>4. RegistryExact'
    <3>1. \A d \in Conn : heap'[d] = "live" => fd'[d] \in Fd /\ connections'[fd'[d]] = d
      <4> SUFFICES ASSUME NEW d \in Conn, heap'[d] = "live"
                   PROVE  fd'[d] \in Fd /\ connections'[fd'[d]] = d
        OBVIOUS
      <4>1. CASE d = c
        BY <1>4, <2>2, <4>1
      <4>2. CASE d # c
        <5>1. fd'[d] = fd[d] /\ fd[d] \in Fd /\ connections[fd[d]] = d
          BY <1>4, <2>2, <4>2 DEF IInv, RegistryExact
        <5>2. d # None
          OBVIOUS
        <5>3. QED
          BY <1>3, <2>2, <5>1, <5>2
      <4>3. QED
        BY <4>1, <4>2
    <3>2. \A g \in Fd : connections'[g] # None =>
             heap'[connections'[g]] = "live" /\ fd'[connections'[g]] = g
      BY <1>2, <1>4, <1>8, <2>2 DEF IInv, RegistryExact
    <3>3. QED
      BY <3>1, <3>2 DEF RegistryExact
  <2>5. HandInv'
    BY <1>1, <1>2, <1>5, <2>2 DEF IInv, HandInv
  <2>6. FreshInv' /\ NoFault'
    BY <1>1, <2>1, <2>2 DEF IInv, FreshInv, NoFault
  <2>7. WatchInv'
    BY <1>1, <1>4, <1>5, <2>1, <2>2 DEF IInv, WatchInv
  <2>8. QED
    BY <1>6, <1>7, <2>3, <2>4, <2>5, <2>6, <2>7 DEF IInv
<1>11. QED
  BY <1>9, <1>10

\* A connection that cannot be registered is deleted before it enters the map.
LEMMA AcceptAddFailsInv ==
    ASSUME IInv, fault = "none", NEW c \in Conn, NEW f \in Fd, AcceptAddFails(c, f)
    PROVE  IInv'
<1>1. /\ UNCHANGED <<main, eventfd, connections, run, batch, cur, old_mask, alive, events,
                     results, reg, net, rx, executed, got, fault>>
      /\ pc = "accept" /\ pc' = "pick"
      /\ heap[c] = "none" /\ heap' = [heap EXCEPT ![c] = "freed"]
      /\ fd' = [fd EXCEPT ![c] = f]
  BY DEF AcceptAddFails, Backlog, LoopGoto, histVars
<1>2. /\ c # None /\ reg[c] = "no" /\ results[c] = 0
      /\ \A g \in Fd : connections[g] # c
      /\ \A e \in Hand : e.conn # c /\ e.conn \in Conn
  BY <1>1, BacklogFacts
<1>3. \A d \in Conn : /\ fd'[d] = IF d = c THEN f ELSE fd[d]
                      /\ heap'[d] = IF d = c THEN "freed" ELSE heap[d]
  BY <1>1 DEF IInv, TypeOK
<1>4. Hand' = Hand /\ pc \notin Handling /\ pc' \notin Handling
  BY <1>1 DEF Hand, Handling
<1>5. TypeOK'
  BY <1>1 DEF IInv, TypeOK, LoopStates
<1>6. RegistryExact'
  <2>1. \A g \in Fd : connections[g] # None => connections[g] \in Conn
    BY DEF IInv, TypeOK
  <2>2. QED
    BY <1>1, <1>2, <1>3, <2>1 DEF IInv, RegistryExact
<1>7. HandInv' /\ FreshInv' /\ WatchInv'
  BY <1>1, <1>2, <1>3, <1>4 DEF IInv, HandInv, FreshInv, WatchInv
<1>8. Unborn' /\ OutInv' /\ Conserved' /\ EventsInv' /\ NoFault'
  BY <1>1 DEF IInv, Unborn, OutInv, Conserved, EventsInv, NoFault
<1>9. QED
  BY <1>5, <1>6, <1>7, <1>8 DEF IInv

\* The thread has done with the connection in its hand, which is known to be
\* there: facts for the steps that follow.
LEMMA AfterFacts ==
    ASSUME IInv, pc = "after", heap[cur.conn] = "live", batch' = batch, pc' = "pick"
    PROVE  /\ cur.conn \in Conn
           /\ fd[cur.conn] \in Fd /\ connections[fd[cur.conn]] = cur.conn
           /\ Hand' \subseteq Hand
           /\ \A e \in Hand' : e.conn # cur.conn /\ e.conn \in Conn
<1>1. cur \in ConnEvent /\ cur \in Hand
  BY DEF IInv, HandInv, Hand, Handling
<1>2. cur.conn \in Conn
  BY <1>1 DEF ConnEvent
<1>3. Hand' = {e \in batch : e # Listen}
  BY DEF Hand, Handling
<1>4. Hand' \subseteq Hand /\ \A e \in Hand' : e # cur /\ e \in ConnEvent
  BY <1>3 DEF IInv, TypeOK, Hand, HandInv, Handling
<1>5. \A e \in Hand' : e.conn # cur.conn /\ e.conn \in Conn
  BY <1>1, <1>4 DEF IInv, HandInv, ConnEvent
<1>6. QED
  BY <1>2, <1>4, <1>5 DEF IInv, RegistryExact

\* The connection in the thread's hand, and nothing else, is destroyed together
\* with its entry.
LEMMA GoneFrame ==
    ASSUME IInv, fault = "none",
           pc = "after", heap[cur.conn] = "live", pc' = "pick",
           UNCHANGED <<main, batch, cur, old_mask, fd, events, results, net, executed, got>>,
           heap' = [heap EXCEPT ![cur.conn] = "freed"],
           reg' = [reg EXCEPT ![cur.conn] = "no"],
           connections' = [connections EXCEPT ![fd[cur.conn]] = None],
           fault' \in {"none", "failed_mod"}
    PROVE  /\ RegistryExact' /\ HandInv' /\ FreshInv' /\ WatchInv'
           /\ connections' \in [Fd -> Conn \cup {None}]
<1> DEFINE c == cur.conn
<1>1. /\ c \in Conn
      /\ fd[c] \in Fd /\ connections[fd[c]] = c
      /\ Hand' \subseteq Hand
      /\ \A e \in Hand' : e.conn # c /\ e.conn \in Conn
  BY AfterFacts
<1>2. /\ \A d \in Conn : /\ heap'[d] = IF d = c THEN "freed" ELSE heap[d]
                         /\ reg'[d] = IF d = c THEN "no" ELSE reg[d]
      /\ \A g \in Fd : connections'[g] = IF g = fd[c] THEN None ELSE connections[g]
  BY DEF IInv, TypeOK
<1>3. RegistryExact'
  <2>1. \A g \in Fd : connections[g] # None => connections[g] \in Conn
    BY DEF IInv, TypeOK
  <2>2. \A d \in Conn : heap'[d] = "live" => fd[d] \in Fd /\ connections'[fd[d]] = d
    BY <1>1, <1>2 DEF IInv, RegistryExact
  <2>3. \A g \in Fd : connections'[g] # None =>
           heap'[connections'[g]] = "live" /\ fd[connections'[g]] = g
    BY <1>1, <1>2, <2>1 DEF IInv, RegistryExact
  <2>4. QED
    BY <2>2, <2>3 DEF RegistryExact
<1>4. HandInv'
  BY <1>1, <1>2 DEF IInv, HandInv, Handling
<1>5. FreshInv'
  BY <1>2 DEF IInv, FreshInv
<1>6. WatchInv'
  BY <1>2 DEF IInv, WatchInv, Handling
<1>7. connections' \in [Fd -> Conn \cup {None}]
  BY DEF IInv, TypeOK
<1>8. QED
  BY <1>3, <1>4, <1>5, <1>6, <1>7

\* A closed connection is destroyed, or Stop is at the map.
LEMMA CloseConnectionInv == IInv /\ fault = "none" /\ CloseConnection => IInv'
<1> SUFFICES ASSUME IInv, fault = "none", CloseConnection PROVE IInv'
  OBVIOUS
<1>1. /\ UNCHANGED <<main, eventfd, run, batch, cur, old_mask, fd, alive, events, results,
                     net, rx, executed, got>>
      /\ pc = "after" /\ pc' = "pick"
      /\ heap[cur.conn] = "live"
  BY DEF CloseConnection, Handle, LoopGoto, histVars
<1>2. Unborn' /\ EventsInv' /\ Conserved'
  BY <1>1 DEF IInv, Unborn, EventsInv, Conserved
<1>3. OutInv'
  BY <1>1 DEF IInv, OutInv
<1>4. CASE main = "freeing"
  <2>1. UNCHANGED <<connections, heap, reg>> /\ fault' = "race"
    BY <1>4 DEF CloseConnection
  <2>2. TypeOK'
    BY <1>1, <2>1 DEF IInv, TypeOK, LoopStates
  <2>3. RegistryExact' /\ FreshInv' /\ WatchInv' /\ NoFault'
    BY <1>1, <1>4, <2>1 DEF IInv, RegistryExact, FreshInv, WatchInv, NoFault
  <2>4. HandInv'
    <3>1. Hand' \subseteq Hand
      BY <1>1, AfterFacts
    <3>2. QED
      BY <1>1, <2>1, <3>1 DEF IInv, HandInv, Handling
  <2>5. QED
    BY <1>2, <1>3, <2>2, <2>3, <2>4 DEF IInv
<1>5. CASE main # "freeing"
  <2>1. /\ heap' = [heap EXCEPT ![cur.conn] = "freed"]
        /\ reg' = [reg EXCEPT ![cur.conn] = "no"]
        /\ connections' = [connections EXCEPT ![fd[cur.conn]] = None]
        /\ fault' = fault
    BY <1>1, <1>5 DEF CloseConnection, Delete
  <2>2. /\ RegistryExact' /\ HandInv' /\ FreshInv' /\ WatchInv'
        /\ connections' \in [Fd -> Conn \cup {None}]
    BY <1>1, <2>1, GoneFrame
  <2>3. TypeOK'
    BY <1>1, <2>1, <2>2 DEF IInv, TypeOK, LoopStates
  <2>4. NoFault'
    BY <1>1, <2>1 DEF IInv, NoFault
  <2>5. QED
    BY <1>2, <1>3, <2>2, <2>3, <2>4 DEF IInv
<1>6. QED
  BY <1>4, <1>5

\* The kernel is told the interest, unless it knows it.
LEMMA RearmInv == IInv /\ fault = "none" /\ Rearm => IInv'
<1> SUFFICES ASSUME IInv, fault = "none", Rearm PROVE IInv'
  OBVIOUS
<1> DEFINE c == cur.conn
<1>1. /\ UNCHANGED <<main, eventfd, connections, run, batch, cur, old_mask, heap, fd, alive,
                     events, results, net, rx, executed, got, fault>>
      /\ pc = "after" /\ pc' = "pick"
      /\ heap[c] = "live"
      /\ reg' = [reg EXCEPT ![c] = IF events[c] # old_mask THEN events[c] ELSE @]
  BY DEF Rearm, Handle, LoopGoto, histVars
<1>2. /\ c \in Conn
      /\ Hand' \subseteq Hand
  BY <1>1, AfterFacts
<1>3. reg[c] = old_mask /\ events[c] \in {"in", "inout"}
  BY <1>1, <1>2 DEF IInv, TypeOK, WatchInv, Handling
<1>4. \A d \in Conn : reg'[d] = IF d = c THEN events[c] ELSE reg[d]
  BY <1>1, <1>2, <1>3 DEF IInv, TypeOK
<1>5. TypeOK'
  BY <1>1, <1>2, <1>3 DEF IInv, TypeOK, LoopStates
<1>6. HandInv' /\ OutInv'
  BY <1>1, <1>2 DEF IInv, HandInv, OutInv, Handling
<1>7. FreshInv'
  BY <1>1, <1>4 DEF IInv, FreshInv
<1>8. WatchInv'
  BY <1>1, <1>4 DEF IInv, WatchInv, Handling
<1>9. Unborn' /\ RegistryExact' /\ EventsInv' /\ Conserved' /\ NoFault'
  BY <1>1 DEF IInv, Unborn, RegistryExact, EventsInv, Conserved, NoFault
<1>10. QED
  BY <1>5, <1>6, <1>7, <1>8, <1>9 DEF IInv

\* A failed EPOLL_CTL_MOD.
LEMMA RearmFailsInv == IInv /\ fault = "none" /\ RearmFails => IInv'
<1> SUFFICES ASSUME IInv, fault = "none", RearmFails PROVE IInv'
  OBVIOUS
<1>1. /\ UNCHANGED <<main, eventfd, run, batch, cur, old_mask, fd, alive, events, results,
                     net, rx, executed, got>>
      /\ pc = "after" /\ pc' = "pick"
      /\ heap[cur.conn] = "live"
      /\ heap' = [heap EXCEPT ![cur.conn] = "freed"]
      /\ reg' = [reg EXCEPT ![cur.conn] = "no"]
      /\ connections' = [connections EXCEPT ![fd[cur.conn]] = None]
      /\ fault' = "failed_mod"
  BY DEF RearmFails, Handle, LoopGoto, histVars
<1>2. /\ RegistryExact' /\ HandInv' /\ FreshInv' /\ WatchInv'
      /\ connections' \in [Fd -> Conn \cup {None}]
  BY <1>1, GoneFrame
<1>3. TypeOK'
  BY <1>1, <1>2 DEF IInv, TypeOK, LoopStates
<1>4. Unborn' /\ EventsInv' /\ Conserved' /\ OutInv' /\ NoFault'
  BY <1>1 DEF IInv, Unborn, EventsInv, Conserved, OutInv, NoFault
<1>5. QED
  BY <1>2, <1>3, <1>4 DEF IInv

\* Only after Stop was called can a connection in the thread's hands be gone.
LEMMA UseAfterFreeInv == IInv /\ fault = "none" /\ UseAfterFree => IInv'
<1> SUFFICES ASSUME IInv, fault = "none", UseAfterFree PROVE IInv'
  OBVIOUS
<1>1. /\ UNCHANGED <<main, eventfd, connections, pc, run, batch, cur, old_mask, heap, fd,
                     alive, events, results, reg, net, rx, executed, got>>
      /\ fault' = "use_after_free"
  BY DEF UseAfterFree, loopVars, objVars, histVars
<1>2. \E e \in Hand : heap[e.conn] = "freed"
  BY DEF UseAfterFree, Hand, Handling
<1>3. NoFault'
  BY <1>1, <1>2 DEF IInv, HandInv, NoFault
<1>4. TypeOK'
  BY <1>1 DEF IInv, TypeOK
<1>5. Unborn' /\ RegistryExact' /\ HandInv' /\ FreshInv' /\ WatchInv'
  BY <1>1 DEF IInv, Unborn, RegistryExact, HandInv, Hand, FreshInv, WatchInv
<1>6. EventsInv' /\ OutInv' /\ Conserved'
  BY <1>1 DEF IInv, EventsInv, OutInv, Conserved
<1>7. QED
  BY <1>3, <1>4, <1>5, <1>6 DEF IInv

\* The main thread goes on without touching a connection.
LEMMA MainInv ==
    ASSUME IInv, fault = "none", Start \/ StopWakeup \/ StopClear \/ Join PROVE IInv'
<1>1. /\ UNCHANGED <<connections, run, batch, cur, old_mask, heap, fd, alive, events,
                     results, reg, net, rx, executed, got, fault>>
      /\ main' \in MainStates \ {"init"}
      /\ main' = "serving" => main = "init"
      /\ pc' = pc \/ (main = "init" /\ pc' = "start")
  BY DEF Start, StopWakeup, StopClear, Join, MainGoto, MainStates, histVars
<1>2. pc' \in Handling <=> pc \in Handling
  BY <1>1 DEF IInv, Unborn, Handling
<1>3. Hand' = Hand
  BY <1>1, <1>2 DEF Hand
<1>4. TypeOK'
  <2>1. eventfd' \in BOOLEAN
    BY DEF Start, StopWakeup, StopClear, Join, IInv, TypeOK
  <2>2. pc' \in LoopStates
    BY <1>1 DEF IInv, TypeOK, LoopStates
  <2>3. QED
    BY <1>1, <2>1, <2>2 DEF IInv, TypeOK
<1>5. HandInv' /\ WatchInv'
  BY <1>1, <1>2, <1>3 DEF IInv, HandInv, WatchInv
<1>6. OutInv'
  BY <1>1 DEF IInv, OutInv, Unborn
<1>7. Unborn' /\ RegistryExact' /\ FreshInv' /\ EventsInv' /\ Conserved' /\ NoFault'
  BY <1>1 DEF IInv, Unborn, RegistryExact, FreshInv, EventsInv, Conserved, NoFault
<1>8. QED
  BY <1>4, <1>5, <1>6, <1>7 DEF IInv

\* Stop destroys a connection: it is alive, because it is in the map.
LEMMA StopFreeInv ==
    ASSUME IInv, fault = "none", NEW f \in Fd, StopFree(f) PROVE IInv'
<1> DEFINE c == connections[f]
<1>1. /\ UNCHANGED <<eventfd, pc, run, batch, cur, old_mask, fd, alive, events, results,
                     net, rx, executed, got>>
      /\ main = "freeing" /\ main' = "freeing"
      /\ c # None /\ Delete(c)
      /\ connections' = [connections EXCEPT ![f] = None]
  BY DEF StopFree, MainGoto, histVars
<1>2. c \in Conn
  BY <1>1 DEF IInv, TypeOK
<1>3. heap[c] = "live" /\ fd[c] = f
  BY <1>1 DEF IInv, RegistryExact
<1>4. /\ heap' = [heap EXCEPT ![c] = "freed"] /\ reg' = [reg EXCEPT ![c] = "no"]
      /\ UNCHANGED fault
  BY <1>1, <1>3 DEF Delete
<1>5. /\ \A d \in Conn : /\ heap'[d] = IF d = c THEN "freed" ELSE heap[d]
                         /\ reg'[d] = IF d = c THEN "no" ELSE reg[d]
      /\ \A g \in Fd : connections'[g] = IF g = f THEN None ELSE connections[g]
  BY <1>1, <1>4 DEF IInv, TypeOK
<1>6. TypeOK'
  BY <1>1, <1>2, <1>4 DEF IInv, TypeOK
<1>7. RegistryExact'
  <2>1. \A g \in Fd : connections[g] # None => connections[g] \in Conn
    BY DEF IInv, TypeOK
  <2>2. \A d \in Conn : heap'[d] = "live" => fd[d] \in Fd /\ connections'[fd[d]] = d
    BY <1>3, <1>5 DEF IInv, RegistryExact
  <2>3. \A g \in Fd : connections'[g] # None =>
           heap'[connections'[g]] = "live" /\ fd[connections'[g]] = g
    BY <1>3, <1>5, <2>1 DEF IInv, RegistryExact
  <2>4. QED
    BY <1>1, <2>2, <2>3 DEF RegistryExact
<1>8. HandInv'
  <2>1. Hand' = Hand
    BY <1>1 DEF Hand
  <2>2. \A e \in Hand : e \in ConnEvent
    BY DEF IInv, TypeOK, Hand, HandInv
  <2>3. \A e \in Hand : e.conn \in Conn
    BY <2>2 DEF ConnEvent
  <2>4. QED
    BY <1>1, <1>5, <2>1, <2>3 DEF IInv, HandInv
<1>9. FreshInv' /\ WatchInv'
  BY <1>1, <1>4, <1>5 DEF IInv, FreshInv, WatchInv
<1>10. Unborn' /\ EventsInv' /\ OutInv' /\ Conserved' /\ NoFault'
  BY <1>1, <1>4 DEF IInv, Unborn, EventsInv, OutInv, Conserved, NoFault
<1>11. QED
  BY <1>6, <1>7, <1>8, <1>9, <1>10 DEF IInv

\* Stuttering.
LEMMA StutterInv == IInv /\ UNCHANGED vars => IInv'
<1> SUFFICES ASSUME IInv, UNCHANGED vars PROVE IInv'
  OBVIOUS
<1> USE DEF vars
<1>1. TypeOK' /\ Unborn' /\ RegistryExact' /\ HandInv' /\ FreshInv'
  BY DEF IInv, TypeOK, Unborn, RegistryExact, HandInv, Hand, FreshInv
<1>2. WatchInv' /\ EventsInv' /\ OutInv' /\ Conserved' /\ NoFault'
  BY DEF IInv, WatchInv, EventsInv, OutInv, Conserved, NoFault
<1>3. QED
  BY <1>1, <1>2 DEF IInv

\* The invariant is inductive.
THEOREM Invariance == Spec => []IInv
<1>1. IInv /\ fault = "none" /\ LoopStep => IInv'
  BY IdleInv, EpollWaitInv, AcceptOneInv, AcceptAddFailsInv, PickInv, ReadCommandInv,
     ReadEndInv, WriteAnswerInv, WriteFailsInv, CloseConnectionInv, RearmInv,
     RearmFailsInv, UseAfterFreeInv
     DEF LoopStep
<1>2. IInv /\ [Next]_vars => IInv'
  BY <1>1, ClientInv, MainInv, StopFreeInv, StutterInv DEF Next, MainStep
<1>3. QED
  BY InitInv, <1>2, PTL DEF Spec

\* The variables have their types.
THEOREM TypeCorrect == Spec => []TypeOK
<1>1. IInv => TypeOK
  BY DEF IInv
<1>2. QED
  BY <1>1, Invariance, PTL

\* The client itself gives the reason to close its connection: it has shut its
\* stream down or sent something that is refused.
Asked(c) == net[c] \in {"shut", "reset"} \/ Refused(c)

\* Why a connection may be destroyed: if it is not asked for, only before it was
\* used (ADD failed), by a failed MOD or by Stop.
Explained(c) ==
    Asked(c) \/ executed[c] = 0 \/ fault = "failed_mod" \/ main # "serving"

\* Errors are reported of clients that have left, ...
ReportInv ==
    \A e \in Hand : e.ev \cap {"ERR", "RDHUP"} # {} => net[e.conn] \in {"shut", "reset"}

\* ... connections are closed for clients that have asked for it, ...
AliveInv == \A c \in Conn : heap[c] = "live" /\ ~alive[c] => Asked(c)

\* ... what was destroyed was destroyed for a reason, ...
DroppedInv == \A c \in Conn : heap[c] = "freed" => Explained(c)

\* ... nothing is executed without a connection, and there is none before Start.
EarlyInv ==
    /\ \A c \in Conn : heap[c] = "none" => executed[c] = 0
    /\ main = "init" => \A c \in Conn : heap[c] = "none"

\* The invariant about destroyed connections.
DInv == ReportInv /\ AliveInv /\ DroppedInv /\ EarlyInv

\* A step that changes neither what a connection is nor what its client has done.
LEMMA DropFrame ==
    ASSUME DInv,
           UNCHANGED <<heap, net, rx, executed>>,
           fault = "failed_mod" => fault' = "failed_mod",
           \A c \in Conn : alive[c] => alive'[c],
           Hand' \subseteq Hand,
           main' = "init" => main = "init",
           main' = "serving" => main \in {"init", "serving"}
    PROVE  DInv'
<1>1. \A c \in Conn : Asked(c)' = Asked(c)
  BY DEF Asked, Refused
<1>2. ReportInv'
  BY DEF DInv, ReportInv
<1>3. AliveInv'
  BY <1>1 DEF DInv, AliveInv
<1>4. DroppedInv'
  BY <1>1 DEF DInv, DroppedInv, Explained, EarlyInv
<1>5. EarlyInv'
  BY DEF DInv, EarlyInv
<1>6. QED
  BY <1>2, <1>3, <1>4, <1>5 DEF DInv

\* A client's steps keep the reasons it has given.
LEMMA DropClient ==
    ASSUME IInv, DInv, NEW c \in Conn, ClientStep(c) PROVE DInv'
<1>1. UNCHANGED <<main, pc, batch, cur, heap, alive, executed, fault>>
  BY DEF ClientStep, Connect, Send, Shut, Reset, Client, loopVars, objVars, histVars
<1>2. /\ \A d \in Conn \ {c} : net'[d] = net[d] /\ rx'[d] = rx[d]
      /\ net[c] \in {"shut", "reset"} => net'[c] \in {"shut", "reset"}
  BY DEF ClientStep, Connect, Send, Shut, Reset, Client, IInv, TypeOK
<1>3. Refused(c) => Refused(c)' \/ net'[c] = "reset"
  <2>1. rx[c] \in Seq({"cmd", "bad"})
    BY DEF IInv, TypeOK
  <2>2. ASSUME NEW m \in {"cmd", "bad"}, rx[c] # <<>>
        PROVE  Append(rx[c], m) # <<>> /\ Head(Append(rx[c], m)) = Head(rx[c])
    BY <2>1, <2>2
  <2>3. CASE Connect(c) \/ Shut(c)
    BY <2>3 DEF Connect, Shut, Refused
  <2>4. CASE Reset(c)
    BY <2>4 DEF Reset, Client, IInv, TypeOK
  <2>5. ASSUME NEW m \in {"cmd", "bad"}, Send(c, m) PROVE Refused(c) => Refused(c)'
    <3>1. rx'[c] = Append(rx[c], m)
      BY <2>5 DEF Send, IInv, TypeOK
    <3>2. QED
      BY <2>2, <3>1 DEF Refused
  <2>6. QED
    BY <2>3, <2>4, <2>5 DEF ClientStep
<1>4. \A d \in Conn : Asked(d) => Asked(d)'
  BY <1>2, <1>3 DEF Asked, Refused
<1>5. ReportInv'
  <2>1. Hand' = Hand
    BY <1>1 DEF Hand
  <2>2. \A e \in Hand : e.conn \in Conn
    BY DEF Hand, HandInv, IInv, TypeOK, ConnEvent
  <2>3. \A d \in Conn : net[d] \in {"shut", "reset"} => net'[d] \in {"shut", "reset"}
    BY <1>2
  <2>4. QED
    BY <2>1, <2>2, <2>3 DEF DInv, ReportInv
<1>6. AliveInv' /\ DroppedInv' /\ EarlyInv'
  BY <1>1, <1>4 DEF DInv, AliveInv, DroppedInv, Explained, EarlyInv
<1>7. QED
  BY <1>5, <1>6 DEF DInv

\* The thread leaves the states of the clients alone, and works after Start only.
LEMMA LoopFacts ==
    ASSUME IInv, fault = "none", LoopStep
    PROVE  UNCHANGED <<main, net>> /\ main # "init"
<1>1. UNCHANGED <<main, net>> /\ pc # "unborn"
  BY DEF LoopStep, LoopStart, EpollWait, LoopEnds, BatchDone, PickListen, AcceptNone,
         AcceptOne, AcceptAddFails, Pick, ReadCommand, ReadThrows, ReadDone, WriteAnswer,
         WriteFails, CloseConnection, Rearm, RearmFails, UseAfterFree, Handle, LoopGoto
<1>2. QED
  BY <1>1 DEF IInv, Unborn

\* The thread reads commands in order, closes what it may close, and destroys what
\* was closed.
LEMMA DropLoop ==
    ASSUME IInv, DInv, fault = "none", LoopStep PROVE DInv'
<1>1. UNCHANGED <<main, net>> /\ main # "init"
  BY LoopFacts
<1> DEFINE c == cur.conn
<1>2. pc \in Handling => cur \in Hand /\ c \in Conn
  BY DEF IInv, HandInv, Hand, ConnEvent
<1>3. CASE \/ LoopStart \/ LoopEnds \/ BatchDone \/ PickListen \/ AcceptNone \/ ReadDone
           \/ WriteFails \/ Rearm \/ UseAfterFree
           \/ \E n \in 1 .. MaxCmds : WriteAnswer(n)
  <2>1. UNCHANGED <<heap, alive, rx, executed, cur>> /\ batch' \subseteq batch
    BY <1>3 DEF LoopStart, LoopEnds, BatchDone, PickListen, AcceptNone, ReadDone, WriteFails,
           Rearm, UseAfterFree, WriteAnswer, Handle, objVars, histVars, loopVars
  <2>2. pc' \in Handling => pc \in Handling
    BY <1>3 DEF LoopStart, LoopEnds, BatchDone, PickListen, AcceptNone, ReadDone, WriteFails,
           Rearm, UseAfterFree, WriteAnswer, Handle, LoopGoto, Handling, loopVars
  <2>3. Hand' \subseteq Hand
    BY <2>1, <2>2 DEF Hand
  <2>4. QED
    BY <1>1, <2>1, <2>3, DropFrame
<1>4. CASE EpollWait
  <2>1. UNCHANGED <<heap, alive, rx, executed, fault>> /\ pc' = "pick"
    BY <1>4 DEF EpollWait, LoopGoto, objVars, histVars
  <2>2. \A e \in Hand' : \E d \in Conn : e = [conn |-> d, ev |-> Ready(d)]
    BY <1>4, <2>1 DEF EpollWait, Hand, Handling
  <2>3. \A d \in Conn : Ready(d) \cap {"ERR", "RDHUP"} # {} => net[d] \in {"shut", "reset"}
    BY DEF Ready
  <2>4. ReportInv'
    BY <1>1, <2>2, <2>3 DEF ReportInv
  <2>5. AliveInv' /\ DroppedInv' /\ EarlyInv'
    BY <1>1, <2>1 DEF DInv, AliveInv, DroppedInv, Explained, Asked, Refused, EarlyInv
  <2>6. QED
    BY <2>4, <2>5 DEF DInv
<1>5. ASSUME NEW e \in batch, Pick(e) PROVE DInv'
  <2>1. /\ UNCHANGED <<heap, rx, executed, fault>>
        /\ batch' = batch \ {e} /\ cur' = e
        /\ e \in ConnEvent /\ e \in Hand
    BY <1>5 DEF Pick, IInv, TypeOK, Hand, histVars
  <2>2. Hand' \subseteq Hand
    BY <2>1 DEF Hand
  <2>3. CASE e.ev \cap {"ERR", "RDHUP"} = {}
    <3>1. alive' = alive
      BY <1>5, <2>3 DEF Pick
    <3>2. QED
      BY <1>1, <2>1, <2>2, <3>1, DropFrame
  <2>4. CASE e.ev \cap {"ERR", "RDHUP"} # {}
    <3>1. alive' = [alive EXCEPT ![e.conn] = FALSE] /\ e.conn \in Conn
      BY <1>5, <2>1, <2>4 DEF Pick, ConnEvent
    <3>2. Asked(e.conn)
      BY <2>1, <2>4 DEF DInv, ReportInv, Asked
    <3>3. \A d \in Conn : Asked(d)' = Asked(d)
      BY <1>1, <2>1 DEF Asked, Refused
    <3>4. \A d \in Conn : ~alive'[d] => ~alive[d] \/ d = e.conn
      BY <3>1 DEF IInv, TypeOK
    <3>5. AliveInv'
      BY <2>1, <3>2, <3>3, <3>4 DEF DInv, AliveInv
    <3>6. QED
      BY <1>1, <2>1, <2>2, <3>3, <3>5 DEF DInv, ReportInv, DroppedInv, Explained, EarlyInv
  <2>5. QED
    BY <2>3, <2>4
<1>6. CASE ReadCommand
  <2>1. /\ UNCHANGED <<batch, cur, heap, alive, fault>> /\ pc' = pc
        /\ c \in Conn /\ heap[c] = "live" /\ ~Refused(c)
        /\ rx' = [rx EXCEPT ![c] = Tail(@)]
        /\ executed' = [executed EXCEPT ![c] = @ + 1]
    BY <1>2, <1>6 DEF ReadCommand, Handle, LoopGoto, Handling, Refused
  <2>2. \A d \in Conn : Asked(d) => Asked(d)'
    BY <1>1, <2>1 DEF Asked, Refused, IInv, TypeOK
  <2>3. \A d \in Conn \ {c} : executed'[d] = executed[d]
    BY <2>1 DEF IInv, TypeOK
  <2>4. ReportInv' /\ AliveInv'
    BY <1>1, <2>1, <2>2 DEF DInv, ReportInv, AliveInv, Hand
  <2>5. DroppedInv' /\ EarlyInv'
    BY <1>1, <2>1, <2>2, <2>3 DEF DInv, DroppedInv, Explained, EarlyInv
  <2>6. QED
    BY <2>4, <2>5 DEF DInv
<1>7. CASE ReadThrows
  <2>1. /\ UNCHANGED <<batch, cur, heap, rx, executed, fault>>
        /\ c \in Conn /\ Asked(c) /\ pc \in Handling
        /\ alive' = [alive EXCEPT ![c] = FALSE]
    BY <1>2, <1>7 DEF ReadThrows, Handle, LoopGoto, Asked, Handling, histVars
  <2>2. \A d \in Conn : Asked(d)' = Asked(d)
    BY <1>1, <2>1 DEF Asked, Refused
  <2>3. \A d \in Conn : ~alive'[d] => ~alive[d] \/ d = c
    BY <2>1 DEF IInv, TypeOK
  <2>4. AliveInv'
    BY <2>1, <2>2, <2>3 DEF DInv, AliveInv
  <2>5. Hand' \subseteq Hand
    BY <2>1 DEF Hand
  <2>6. QED
    BY <1>1, <2>1, <2>2, <2>4, <2>5 DEF DInv, ReportInv, DroppedInv, Explained, EarlyInv
<1>8. ASSUME NEW d \in Conn, NEW f \in Fd, AcceptOne(d, f) \/ AcceptAddFails(d, f)
      PROVE  DInv'
  <2>1. /\ UNCHANGED <<batch, rx, executed>>
        /\ pc' \notin Handling
        /\ heap[d] = "none"
        /\ \A b \in Conn \ {d} : heap'[b] = heap[b] /\ alive'[b] = alive[b]
        /\ heap'[d] = "live" => alive'[d]
    BY <1>8 DEF AcceptOne, AcceptAddFails, LoopGoto, Handling, Backlog, IInv, TypeOK, histVars
  <2>2. executed[d] = 0
    BY <2>1 DEF DInv, EarlyInv
  <2>3. Hand' \subseteq Hand
    BY <2>1 DEF Hand
  <2>4. \A b \in Conn : Asked(b)' = Asked(b)
    BY <1>1, <2>1 DEF Asked, Refused
  <2>5. ReportInv' /\ AliveInv'
    BY <1>1, <2>1, <2>3, <2>4 DEF DInv, ReportInv, AliveInv
  <2>6. DroppedInv' /\ EarlyInv'
    BY <1>1, <2>1, <2>2, <2>4 DEF DInv, DroppedInv, Explained, EarlyInv
  <2>7. QED
    BY <2>5, <2>6 DEF DInv
<1>9. CASE CloseConnection \/ RearmFails
  <2>1. /\ UNCHANGED <<batch, cur, alive, rx, executed>>
        /\ c \in Conn /\ heap[c] = "live"
        /\ pc' \notin Handling
        /\ heap' \in {heap, [heap EXCEPT ![c] = "freed"]}
        /\ ~alive[c] \/ fault' = "failed_mod"
    BY <1>2, <1>9 DEF CloseConnection, RearmFails, Handle, LoopGoto, Delete, Handling, histVars
  <2>2. \A d \in Conn : heap'[d] = heap[d] \/ (d = c /\ heap'[d] = "freed")
    BY <2>1 DEF IInv, TypeOK
  <2>3. Hand' \subseteq Hand
    BY <2>1 DEF Hand
  <2>4. \A d \in Conn : Asked(d)' = Asked(d)
    BY <1>1, <2>1 DEF Asked, Refused
  <2>5. \A d \in Conn : Explained(d) => Explained(d)'
    BY <1>1, <2>1, <2>4 DEF Explained
  <2>6. Explained(c)'
    BY <1>1, <2>1, <2>4 DEF DInv, AliveInv, Explained
  <2>7. ReportInv'
    BY <1>1, <2>3 DEF DInv, ReportInv
  <2>8. AliveInv' /\ DroppedInv' /\ EarlyInv'
    BY <1>1, <2>1, <2>2, <2>4, <2>5, <2>6 DEF DInv, AliveInv, DroppedInv, EarlyInv
  <2>9. QED
    BY <2>7, <2>8 DEF DInv
<1>10. QED
  BY <1>3, <1>4, <1>5, <1>6, <1>7, <1>8, <1>9 DEF LoopStep

\* The main thread destroys connections only in Stop.
LEMMA DropMain ==
    ASSUME IInv, DInv, fault = "none", MainStep PROVE DInv'
<1>1. UNCHANGED <<batch, cur, alive, net, rx, executed>>
  BY DEF MainStep, Start, StopWakeup, StopClear, Join, StopFree, MainGoto, histVars
<1>2. pc' \in Handling => pc' = pc
  BY DEF MainStep, Start, StopWakeup, StopClear, Join, StopFree, MainGoto, Handling
<1>3. Hand' \subseteq Hand
  BY <1>1, <1>2 DEF Hand
<1>4. CASE Start \/ StopWakeup \/ StopClear \/ Join
  <2>1. UNCHANGED <<heap, fault>> /\ main' # "init" /\ (main' = "serving" => main = "init")
    BY <1>4 DEF Start, StopWakeup, StopClear, Join, MainGoto
  <2>2. QED
    BY <1>1, <1>3, <2>1, DropFrame
<1>5. ASSUME NEW f \in Fd, StopFree(f) PROVE DInv'
  <2>1. /\ main' = "freeing"
        /\ connections[f] \in Conn
        /\ heap' = [heap EXCEPT ![connections[f]] = "freed"]
    BY <1>5 DEF StopFree, MainGoto, Delete, IInv, TypeOK, RegistryExact
  <2>2. \A c \in Conn : heap'[c] = "freed" \/ heap'[c] = heap[c]
    BY <2>1 DEF IInv, TypeOK
  <2>3. \A c \in Conn : Asked(c)' = Asked(c)
    BY <1>1 DEF Asked, Refused
  <2>4. ReportInv' /\ AliveInv'
    BY <1>1, <1>3, <2>2, <2>3 DEF DInv, ReportInv, AliveInv
  <2>5. DroppedInv' /\ EarlyInv'
    BY <1>1, <2>1, <2>2 DEF DInv, DroppedInv, Explained, EarlyInv
  <2>6. QED
    BY <2>4, <2>5 DEF DInv
<1>6. QED
  BY <1>4, <1>5 DEF MainStep

\* The invariant about destroyed connections is inductive, given the first one.
THEOREM DropInvariance == Spec => []DInv
<1>1. Init => DInv
  BY DEF Init, DInv, ReportInv, AliveInv, DroppedInv, EarlyInv, Hand, Handling
<1>2. IInv /\ DInv /\ [Next]_vars => DInv'
  <2> SUFFICES ASSUME IInv, DInv, [Next]_vars PROVE DInv'
    OBVIOUS
  <2>1. CASE UNCHANGED vars
    BY <2>1, DropFrame DEF vars, Hand
  <2>2. CASE Next
    BY <2>2, DropClient, DropLoop, DropMain DEF Next
  <2>3. QED
    BY <2>1, <2>2
<1>3. QED
  BY <1>1, <1>2, Invariance, PTL DEF Spec

\* Whenever the thread waits, EPOLLOUT is watched for exactly the connections with
\* something to send; no answer in a connection is lost or sent twice; and a
\* connection is destroyed with its answers only for the reasons that
\* DropsExplained lists.
THEOREM AnswersSafeHolds == Spec => []AnswersSafe
<1>1. IInv /\ DInv => AnswersSafe
  <2> SUFFICES ASSUME IInv, DInv PROVE AnswersSafe
    OBVIOUS
  <2>1. ASSUME pc = "wait", main = "serving", NEW c \in Conn, heap[c] = "live",
               net[c] # "reset"
        PROVE  (reg[c] = "inout") = (results[c] > 0)
    <3>1. fault # "race"
      BY <2>1 DEF IInv, NoFault
    <3>2. reg[c] = events[c]
      BY <2>1, <3>1 DEF IInv, WatchInv, Handling
    <3>3. QED
      BY <2>1, <3>2 DEF IInv, EventsInv
  <2>2. WatchedForAnswers
    BY <2>1 DEF IInv, OutInv, WatchedForAnswers
  <2>3. AnswersConserved
    BY DEF IInv, Conserved, AnswersConserved
  <2>4. DropsExplained
    <3>1. \A c \in Conn : got[c] \in Nat
      BY DEF IInv, TypeOK
    <3>2. QED
      BY <3>1 DEF DInv, DroppedInv, Explained, Asked, DropsExplained
  <2>5. QED
    BY <2>2, <2>3, <2>4 DEF AnswersSafe
<1>2. QED
  BY <1>1, Invariance, DropInvariance, PTL

\* Until Stop nothing but a failed EPOLL_CTL_MOD leads to misused memory, and what
\* the map owns is deleted once.
THEOREM NoFaultHolds == Spec => []NoFault
<1>1. IInv => NoFault
  BY DEF IInv
<1>2. QED
  BY <1>1, Invariance, PTL
=============================================================================
