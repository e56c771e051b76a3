-------------------------- MODULE MTBlockingProofs --------------------------
(***************************************************************************)
(* For any number of connections, descriptors and any limit: _workers      *)
(* holds exactly the threads that have not left, every open descriptor has *)
(* one owner, the limit is kept, and a worker runs at most one command     *)
(* after Stop.                                                             *)
(*                                                                         *)
(* RegistryExact and FdOwnership are inductive together with the types:    *)
(* that a worker erases its own entry follows from the first, although its *)
(* descriptor may be open again for somebody else.  LateOnce needs to know *)
(* where a worker is that has run a command after Stop: nowhere from where *)
(* it reaches another round while the flag is down.  What std::terminate   *)
(* can be blamed on follows from these and from JoinInv, which bounds what *)
(* the acceptor may still do once Join has found _workers empty.           *)
(***************************************************************************)
EXTENDS MTBlocking, FiniteSetTheorems, TLAPS

\* Before Start there is no acceptor; once Stop was called the flag is down.
FlagInv ==
    /\ main = "init" => acc = "unborn"
    /\ main \notin {"init", "failed", "serving"} => ~running

\* A worker that ran a command after Stop is on its way out.
LateInv ==
    \A c \in Conn :
        /\ late[c] # 0 => StopReturned
        /\ late[c] # 0 => wpc[c] \in {"send", "chunk", "check", "close", "erase", "gone"}
        /\ late[c] <= 1

IInv ==
    TypeOK /\ RegistryExact /\ FdOwnership /\ ConnectionLimit /\ FlagInv /\ LateInv

USE MTBAssumption

\* The initial state satisfies the invariant.
LEMMA InitInv == Init => IInv
<1> SUFFICES ASSUME Init PROVE IInv
  OBVIOUS
<1>1. TypeOK
  <2>1. /\ running \in BOOLEAN /\ notified \in BOOLEAN
        /\ open \subseteq Fd /\ shut \subseteq open
    BY Zenon DEF Init
  <2>2. /\ listener \in {"closed", "listening", "shut"}
        /\ main \in MainStates
        /\ acc \in {"unborn", "check", "accept", "register", "exited"}
        /\ accFd \in Fd \cup {None}
        /\ terminated \in Causes
    BY DEF Init, MainStates, Causes
  <2>3. /\ workers \in [Fd -> Conn \cup {None}]
        /\ wpc \in [Conn -> Alive \cup {"unborn", "gone"}]
        /\ wfd \in [Conn -> Fd \cup {None}]
        /\ late \in [Conn -> 0 .. MaxLate]
    BY DEF Init
  <2>4. QED
    BY <2>1, <2>2, <2>3 DEF TypeOK
<1>2. RegistryExact /\ FdOwnership /\ FlagInv /\ LateInv
  BY DEF Init, RegistryExact, FdOwnership, FlagInv, LateInv, Alive, HoldsFd
<1>3. ConnectionLimit
  <2>1. Registered = {}
    BY DEF Init, Registered
  <2>2. QED
    BY <2>1, FS_EmptySet DEF ConnectionLimit
<1>4. QED
  BY <1>1, <1>2, <1>3 DEF IInv

\* The limit depends on _workers only.
LEMMA LimitFrame == ConnectionLimit /\ UNCHANGED workers => ConnectionLimit'
BY DEF ConnectionLimit, Registered

\* The end of the process changes nothing else.
LEMMA TerminateInv ==
    ASSUME IInv, NEW cause \in Causes, Terminate(cause), UNCHANGED mainVars
    PROVE  IInv'
BY LimitFrame DEF IInv, Terminate, mainVars, accVars, regVars, fdVars, TypeOK,
   RegistryExact, FdOwnership, FlagInv, LateInv, StopReturned

\* Steps of the main thread do not touch _workers or the workers.
LEMMA MainInv ==
    IInv /\ (Start \/ StopFlag \/ StopGoesOn \/ JoinSpurious \/ Destroy) => IInv'
<1> SUFFICES ASSUME IInv, Start \/ StopFlag \/ StopGoesOn \/ JoinSpurious \/ Destroy
             PROVE  IInv'
  OBVIOUS
<1> USE DEF MainGoto, regVars, accVars, fdVars
<1>1. CASE Start
  <2>1. UNCHANGED <<workers, wfd, wpc, open, shut, accFd, late, terminated, notified>>
    BY <1>1 DEF Start
  <2>2. TypeOK'
    <3>1. running' \in BOOLEAN
      BY <1>1, Zenon DEF IInv, Start, TypeOK
    <3>2. /\ listener' \in {"closed", "listening", "shut"}
          /\ main' \in MainStates
          /\ acc' \in {"unborn", "check", "accept", "register", "exited"}
      BY <1>1 DEF IInv, Start, TypeOK, MainStates
    <3>3. QED
      BY <2>1, <3>1, <3>2 DEF IInv, TypeOK
  <2>3. RegistryExact'
    BY <2>1 DEF IInv, RegistryExact
  <2>4. FdOwnership' /\ FlagInv'
    BY <1>1, <2>1 DEF IInv, Start, FdOwnership, FlagInv, TypeOK
  <2>5. LateInv'
    BY <1>1, <2>1 DEF IInv, Start, LateInv, StopReturned
  <2>6. QED
    BY <2>1, <2>2, <2>3, <2>4, <2>5, LimitFrame DEF IInv
<1>2. CASE StopFlag
  BY <1>2, LimitFrame DEF IInv, StopFlag, TypeOK, MainStates, RegistryExact,
     FdOwnership, FlagInv, LateInv, StopReturned
<1>3. CASE StopListener
  BY <1>3, LimitFrame DEF IInv, StopListener, TypeOK, MainStates, RegistryExact,
     FdOwnership, FlagInv, LateInv, StopReturned
<1>4. CASE StopWorkers
  BY <1>4, LimitFrame DEF IInv, StopWorkers, TypeOK, MainStates, RegistryExact,
     FdOwnership, FlagInv, LateInv, StopReturned
<1>5. CASE JoinTest
  BY <1>5, LimitFrame DEF IInv, JoinTest, TypeOK, MainStates, RegistryExact,
     FdOwnership, FlagInv, LateInv, StopReturned
<1>6. CASE JoinWake \/ JoinSpurious
  BY <1>6, LimitFrame DEF IInv, JoinWake, JoinSpurious, TypeOK, MainStates,
     RegistryExact, FdOwnership, FlagInv, LateInv, StopReturned
<1>7. CASE JoinAcceptor
  BY <1>7, LimitFrame DEF IInv, JoinAcceptor, TypeOK, MainStates, RegistryExact,
     FdOwnership, FlagInv, LateInv, StopReturned
<1>8. CASE Destroy
  <2>1. CASE Terminate("destructor") /\ UNCHANGED mainVars
    BY <2>1, TerminateInv DEF Causes
  <2>2. CASE main' = "destroyed" /\ UNCHANGED <<running, listener, notified>>
             /\ UNCHANGED <<accVars, regVars, fdVars, wpc, late, terminated>>
    BY <1>8, <2>2, LimitFrame DEF IInv, Destroy, TypeOK, MainStates, RegistryExact,
       FdOwnership, FlagInv, LateInv, StopReturned
  <2>3. QED
    BY <1>8, <2>1, <2>2 DEF Destroy
<1>9. QED
  BY <1>1, <1>2, <1>3, <1>4, <1>5, <1>6, <1>7, <1>8 DEF StopGoesOn

\* The acceptor moves on with nothing in its hand, before and after.
LEMMA AcceptorIdleInv == IInv /\ (AcceptCheck \/ AcceptFails) => IInv'
BY LimitFrame DEF IInv, AcceptCheck, AcceptFails, mainVars, regVars, fdVars, TypeOK,
   RegistryExact, FdOwnership, FlagInv, LateInv, StopReturned

\* accept returns a descriptor that nobody owns.
LEMMA AcceptInv ==
    ASSUME IInv, NEW f \in Fd, Accept(f) PROVE IInv'
<1> USE DEF mainVars, regVars
<1>1. TypeOK'
  BY DEF IInv, Accept, TypeOK
<1>2. RegistryExact'
  BY DEF IInv, Accept, RegistryExact
<1>3. FdOwnership'
  BY DEF IInv, Accept, FdOwnership, TypeOK
<1>4. ConnectionLimit' /\ FlagInv' /\ LateInv'
  BY LimitFrame DEF IInv, Accept, FlagInv, LateInv, StopReturned
<1>5. QED
  BY <1>1, <1>2, <1>3, <1>4 DEF IInv

\* A refused connection is closed, and the acceptor owns nothing again.
LEMMA RejectInv == IInv /\ RegisterReject => IInv'
<1> SUFFICES ASSUME IInv, RegisterReject PROVE IInv'
  OBVIOUS
<1> USE DEF mainVars, regVars
<1>1. TypeOK'
  BY DEF IInv, RegisterReject, TypeOK
<1>2. RegistryExact'
  BY DEF IInv, RegisterReject, RegistryExact
<1>3. FdOwnership'
  BY DEF IInv, RegisterReject, FdOwnership, TypeOK
<1>4. ConnectionLimit' /\ FlagInv' /\ LateInv'
  BY LimitFrame DEF IInv, RegisterReject, FlagInv, LateInv, StopReturned
<1>5. QED
  BY <1>1, <1>2, <1>3, <1>4 DEF IInv

\* A thread starts: it takes over the acceptor's descriptor.
LEMMA RegisterInv ==
    ASSUME IInv, NEW c \in Conn, Register(c) PROVE IInv'
<1> USE DEF mainVars, fdVars
<1>1. accFd \in Fd /\ wpc[c] = "unborn" /\ workers[accFd] = None
  BY DEF IInv, Register, FdOwnership, TypeOK
<1>2. TypeOK'
  BY <1>1 DEF IInv, Register, TypeOK, Alive, HoldsFd
<1>3. RegistryExact'
  BY <1>1 DEF IInv, Register, RegistryExact, TypeOK, Alive, HoldsFd
<1>4. FdOwnership'
  BY <1>1 DEF IInv, Register, FdOwnership, TypeOK, HoldsFd
<1>5. ConnectionLimit'
  <2>1. Registered' = Registered \cup {accFd} /\ accFd \notin Registered
    BY <1>1 DEF IInv, Register, Registered, TypeOK
  <2>2. IsFiniteSet(Registered)
    BY FS_Subset DEF Registered
  <2>3. Cardinality(Registered') = Cardinality(Registered) + 1
    BY <2>1, <2>2, FS_AddElement
  <2>4. Cardinality(Registered) \in Nat
    BY <2>2, FS_CardinalityType
  <2>5. QED
    BY <2>3, <2>4 DEF Register, TooMany, ConnectionLimit
<1>6. FlagInv' /\ LateInv'
  BY <1>1 DEF IInv, Register, FlagInv, LateInv, StopReturned, TypeOK
<1>7. QED
  BY <1>2, <1>3, <1>4, <1>5, <1>6 DEF IInv

\* A clash of keys, or a thread that cannot be had, only ends the process.
LEMMA ClashInv == IInv /\ (RegisterClash \/ RegisterThrows) => IInv'
BY TerminateInv DEF RegisterClash, RegisterThrows, Causes

\* A worker that goes from one place to another and keeps its descriptor.
LEMMA WorkerMoveInv ==
    ASSUME IInv, NEW c \in Conn, NEW from \in HoldsFd, NEW to \in HoldsFd,
           WorkerGoto(c, from, to),
           late[c] # 0 => to \in {"chunk", "check", "close"}
    PROVE  IInv'
<1> USE DEF WorkerGoto, Goto, mainVars, accVars, regVars, fdVars
<1>1. TypeOK'
  BY DEF IInv, TypeOK, Alive
<1>2. RegistryExact'
  BY DEF IInv, RegistryExact, TypeOK, Alive, HoldsFd
<1>3. FdOwnership'
  BY DEF IInv, FdOwnership, TypeOK, HoldsFd
<1>4. ConnectionLimit' /\ FlagInv'
  BY LimitFrame DEF IInv, FlagInv
<1>5. LateInv'
  BY DEF IInv, LateInv, StopReturned, TypeOK
<1>6. QED
  BY <1>1, <1>2, <1>3, <1>4, <1>5 DEF IInv

\* Tests of the flag, reads and rounds without a command.
LEMMA WorkerIdleInv ==
    ASSUME IInv, NEW c \in Conn,
           WorkerCheck(c) \/ WorkerRead(c) \/ ChunkCheck(c) \/ RoundStops(c)
    PROVE  IInv'
<1>1. late[c] # 0 => /\ ~running
                     /\ wpc[c] \in {"send", "chunk", "check", "close", "erase", "gone"}
  BY DEF IInv, LateInv, FlagInv, StopReturned
<1>2. CASE WorkerCheck(c)
  <2>1. CASE running
    BY <1>1, <1>2, <2>1, WorkerMoveInv DEF WorkerCheck, HoldsFd
  <2>2. CASE ~running
    BY <1>2, <2>2, WorkerMoveInv DEF WorkerCheck, HoldsFd
  <2>3. QED
    BY <2>1, <2>2
<1>3. CASE WorkerRead(c)
  <2>1. wpc[c] = "read"
    BY <1>3 DEF WorkerRead, WorkerGoto, Goto
  <2>2. late[c] = 0
    BY <1>1, <2>1
  <2>3. QED
    BY <1>3, <2>2, WorkerMoveInv DEF WorkerRead, HoldsFd
<1>4. CASE ChunkCheck(c)
  <2>1. CASE running
    BY <1>1, <1>4, <2>1, WorkerMoveInv DEF ChunkCheck, HoldsFd
  <2>2. CASE ~running
    BY <1>4, <2>2, WorkerMoveInv DEF ChunkCheck, HoldsFd
  <2>3. QED
    BY <2>1, <2>2
<1>5. CASE RoundStops(c)
  BY <1>5, WorkerMoveInv DEF RoundStops, HoldsFd
<1>6. QED
  BY <1>2, <1>3, <1>4, <1>5

\* A command is run; after Stop it is the first one, and the last.
LEMMA ExecutesInv ==
    ASSUME IInv, NEW c \in Conn, RoundExecutes(c)
    PROVE  IInv'
<1> USE DEF RoundExecutes, Goto, mainVars, accVars, regVars, fdVars
<1>1. wpc[c] = "round" /\ late[c] = 0
  BY DEF IInv, LateInv, TypeOK
<1>2. TypeOK'
  BY <1>1 DEF IInv, TypeOK, Alive, HoldsFd
<1>3. RegistryExact'
  BY <1>1 DEF IInv, RegistryExact, TypeOK, Alive, HoldsFd
<1>4. FdOwnership'
  BY <1>1 DEF IInv, FdOwnership, TypeOK, HoldsFd
<1>5. ConnectionLimit' /\ FlagInv'
  BY LimitFrame DEF IInv, FlagInv
<1>6. LateInv'
  BY <1>1 DEF IInv, LateInv, StopReturned, TypeOK
<1>7. QED
  BY <1>2, <1>3, <1>4, <1>5, <1>6 DEF IInv

\* send() returns.
LEMMA SendInv ==
    ASSUME IInv, NEW c \in Conn, NEW to \in {"chunk", "check", "close"},
           SendReturns(c, to)
    PROVE  IInv'
BY WorkerMoveInv DEF SendReturns, HoldsFd

\* A worker closes its own descriptor, which nobody else owns.
LEMMA CloseInv ==
    ASSUME IInv, NEW c \in Conn, WorkerClose(c) PROVE IInv'
<1> USE DEF WorkerClose, Goto, mainVars, accVars, regVars
<1>1. TypeOK'
  BY DEF IInv, TypeOK, Alive, HoldsFd
<1>2. RegistryExact'
  BY DEF IInv, RegistryExact, TypeOK, Alive, HoldsFd
<1>3. FdOwnership'
  BY DEF IInv, FdOwnership, TypeOK, HoldsFd
<1>4. ConnectionLimit' /\ FlagInv'
  BY LimitFrame DEF IInv, FlagInv
<1>5. LateInv'
  BY DEF IInv, LateInv, StopReturned, TypeOK
<1>6. QED
  BY <1>1, <1>2, <1>3, <1>4, <1>5 DEF IInv

\* The worker leaves: the entry under its descriptor is its own.
LEMMA EraseInv ==
    ASSUME IInv, NEW c \in Conn, WorkerErase(c) PROVE IInv'
<1> USE DEF WorkerErase, Goto, accVars, fdVars
<1>1. wfd[c] \in Fd /\ workers[wfd[c]] = c /\ wpc[c] = "erase"
  BY DEF IInv, RegistryExact, Alive
<1>2. TypeOK'
  BY <1>1 DEF IInv, TypeOK, Alive, HoldsFd
<1>3. RegistryExact'
  BY <1>1 DEF IInv, RegistryExact, TypeOK, Alive, HoldsFd
<1>4. FdOwnership'
  BY <1>1 DEF IInv, FdOwnership, TypeOK, HoldsFd
<1>5. ConnectionLimit'
  <2>1. Registered' \subseteq Registered
    BY <1>1 DEF IInv, Registered, TypeOK
  <2>2. IsFiniteSet(Registered)
    BY FS_Subset DEF Registered
  <2>3. Cardinality(Registered') <= Cardinality(Registered)
        /\ IsFiniteSet(Registered')
    BY <2>1, <2>2, FS_Subset
  <2>4. Cardinality(Registered) \in Nat /\ Cardinality(Registered') \in Nat
    BY <2>2, <2>3, FS_CardinalityType
  <2>5. QED
    BY <2>3, <2>4 DEF IInv, ConnectionLimit
<1>6. FlagInv' /\ LateInv'
  BY <1>1 DEF IInv, FlagInv, LateInv, StopReturned, TypeOK
<1>7. QED
  BY <1>2, <1>3, <1>4, <1>5, <1>6 DEF IInv

\* Stuttering preserves the invariant.
LEMMA StutterInv == IInv /\ UNCHANGED vars => IInv'
BY LimitFrame DEF IInv, vars, TypeOK, RegistryExact, FdOwnership, FlagInv, LateInv,
   StopReturned

\* The inductive invariant holds in every reachable state.
THEOREM Invariance == Spec => []IInv
<1>1. IInv /\ [Next]_vars => IInv'
  <2> SUFFICES ASSUME IInv, [Next]_vars PROVE IInv'
    OBVIOUS
  <2>1. CASE Start \/ StopFlag \/ StopGoesOn \/ JoinSpurious \/ Destroy
    BY <2>1, MainInv
  <2>2. CASE AcceptorGoesOn
    BY <2>2, AcceptorIdleInv, RejectInv, RegisterInv, ClashInv DEF AcceptorGoesOn
  <2>3. CASE \E f \in Fd : Accept(f)
    BY <2>3, AcceptInv
  <2>4. CASE \E c \in Conn : WorkerStep(c)
    BY <2>4, WorkerIdleInv, ExecutesInv, CloseInv, EraseInv, TerminateInv
       DEF WorkerStep, RoundThrows, Causes
  <2>5. CASE \E c \in Conn, to \in {"chunk", "check", "close"} : SendReturns(c, to)
    BY <2>5, SendInv
  <2>6. CASE UNCHANGED vars
    BY <2>6, StutterInv
  <2>7. QED
    BY <2>1, <2>2, <2>3, <2>4, <2>5, <2>6 DEF Next
<1>2. QED
  BY <1>1, InitInv, PTL DEF Spec

\* Every variable stays in its type.
THEOREM TypeCorrect == Spec => []TypeOK
BY Invariance, PTL DEF IInv

\* _workers is exact in every interleaving of acceptor, workers and Stop: the
\* lookup of a leaving worker always finds its own thread.
THEOREM RegistryCorrect == Spec => []RegistryExact
BY Invariance, PTL DEF IInv

\* An open descriptor always has exactly one owner.
THEOREM FdOwnershipCorrect == Spec => []FdOwnership
BY Invariance, PTL DEF IInv

\* The test under _main_mutex keeps the number of threads within
\* _max_connections.
THEOREM LimitCorrect == Spec => []ConnectionLimit
BY Invariance, PTL DEF IInv

\* After Stop has returned no worker starts a second command.
THEOREM LateCorrect == Spec => []LateOnce
<1>1. IInv => LateOnce
  BY DEF IInv, LateInv, LateOnce
<1>2. QED
  BY <1>1, Invariance, PTL

----------------------------------------------------------------------------
(* Join. *)

\* Once Join has seen no worker nothing is accepted any more.  A connection
\* that the acceptor has in its hand can become a worker, and then the acceptor
\* has none.
JoinInv ==
    /\ main \in {"stop_workers", "join", "waiting", "join_acceptor", "joined",
                 "destroyed"} => listener # "listening"
    /\ main \in {"joined", "destroyed"} => acc = "exited"
    /\ main \in {"join_acceptor", "joined", "destroyed"} =>
          /\ acc = "register" => \A c \in Conn : wpc[c] \notin Alive
          /\ \A c, d \in Conn : wpc[c] \in Alive /\ wpc[d] \in Alive => c = d

\* No step of a worker brings a worker to life.
LEMMA WorkersOnlyLeave ==
    ASSUME IInv, NEW c \in Conn,
           \/ WorkerStep(c)
           \/ \E to \in {"chunk", "check", "close"} : SendReturns(c, to)
    PROVE  /\ UNCHANGED <<main, listener, acc>>
           /\ \A d \in Conn : wpc'[d] \in Alive => wpc[d] \in Alive
<1>1. UNCHANGED <<main, listener, acc>>
  BY DEF WorkerStep, WorkerCheck, WorkerRead, ChunkCheck, RoundStops, RoundExecutes,
     RoundThrows, SendReturns, WorkerClose, WorkerErase, WorkerGoto, Terminate,
     mainVars, accVars
<1>2. \/ UNCHANGED wpc
      \/ \E from \in Alive, to \in Alive \cup {"gone"} : Goto(c, from, to)
  BY DEF WorkerStep, WorkerCheck, WorkerRead, ChunkCheck, RoundStops, RoundExecutes,
     RoundThrows, SendReturns, WorkerClose, WorkerErase, WorkerGoto, Terminate,
     Alive, HoldsFd
<1>3. QED
  BY <1>1, <1>2 DEF Goto, IInv, TypeOK

\* Every step preserves it.
LEMMA JoinStep == IInv /\ JoinInv /\ [Next]_vars => JoinInv'
<1> SUFFICES ASSUME IInv, JoinInv, [Next]_vars PROVE JoinInv'
  OBVIOUS
<1>1. CASE Start \/ StopFlag \/ StopListener \/ StopWorkers \/ JoinWake \/ JoinSpurious
           \/ JoinAcceptor
  BY <1>1 DEF JoinInv, Start, StopFlag, StopListener, StopWorkers, JoinWake, JoinSpurious,
     JoinAcceptor, MainGoto, accVars
<1>2. CASE JoinTest
  <2>1. UNCHANGED <<listener, acc, wpc>> /\ main = "join"
    BY <1>2 DEF JoinTest, MainGoto, accVars
  <2>2. CASE main' = "waiting"
    BY <2>1, <2>2 DEF JoinInv
  <2>3. CASE main' # "waiting"
    <3>1. Registered = {} /\ main' = "join_acceptor"
      BY <1>2, <2>3 DEF JoinTest, MainGoto
    <3>2. \A c \in Conn : wpc[c] \notin Alive
      BY <3>1 DEF IInv, RegistryExact, Registered
    <3>3. QED
      BY <2>1, <3>1, <3>2 DEF JoinInv
  <2>4. QED
    BY <2>2, <2>3
<1>3. CASE AcceptCheck \/ AcceptFails \/ RegisterReject \/ RegisterClash \/ RegisterThrows
  BY <1>3 DEF AcceptCheck, AcceptFails, RegisterReject, RegisterClash, RegisterThrows,
     Terminate, mainVars, accVars, JoinInv
<1>4. ASSUME NEW c \in Conn, Register(c) PROVE JoinInv'
  <2>1. /\ UNCHANGED <<main, listener>> /\ acc = "register" /\ acc' = "check"
        /\ wpc' = [wpc EXCEPT ![c] = "check"]
    BY <1>4 DEF Register, mainVars
  <2>2. \A d \in Conn : d # c => wpc'[d] = wpc[d]
    BY <2>1 DEF IInv, TypeOK
  <2>3. QED
    BY <2>1, <2>2 DEF JoinInv
<1>5. ASSUME NEW f \in Fd, Accept(f) PROVE JoinInv'
  BY <1>5 DEF Accept, mainVars, JoinInv, IInv, TypeOK, MainStates
<1>6. ASSUME NEW c \in Conn,
             \/ WorkerStep(c)
             \/ \E to \in {"chunk", "check", "close"} : SendReturns(c, to)
      PROVE  JoinInv'
  BY <1>6, WorkersOnlyLeave DEF JoinInv
<1>7. CASE UNCHANGED vars
  BY <1>7 DEF vars, JoinInv
<1>8. CASE Destroy
  <2>1. UNCHANGED <<listener, acc, wpc>> /\ main = "joined"
        /\ main' \in {"joined", "destroyed"}
    BY <1>8 DEF Destroy, Terminate, mainVars, accVars
  <2>2. QED
    BY <2>1 DEF JoinInv
<1>9. QED
  BY <1>1, <1>2, <1>3, <1>4, <1>5, <1>6, <1>7, <1>8 DEF Next, StopGoesOn, AcceptorGoesOn

\* The inductive invariant with what holds of Join.
THEOREM JoinInvariance == Spec => [](IInv /\ JoinInv)
<1>1. Init => JoinInv
  BY DEF Init, JoinInv
<1>2. QED
  BY <1>1, JoinStep, Invariance, PTL DEF Spec

\* When Join returns at most one worker is alive, the one of the connection
\* the acceptor held when Join found _workers empty.
THEOREM JoinCorrect == Spec => []JoinLeavesOne
<1>1. JoinInv => JoinLeavesOne
  <2> SUFFICES ASSUME JoinInv, main \in {"joined", "destroyed"}
               PROVE  Cardinality({c \in Conn : wpc[c] \in Alive}) <= 1
    BY DEF JoinLeavesOne
  <2> DEFINE S == {c \in Conn : wpc[c] \in Alive}
  <2>1. CASE S = {}
    BY <2>1, FS_EmptySet
  <2>2. CASE S # {}
    <3>1. PICK c : c \in S
      BY <2>2
    <3>2. S = {c}
      BY <3>1 DEF JoinInv
    <3> HIDE DEF S
    <3>3. Cardinality(S) = 1
      BY <3>2, FS_Singleton
    <3>4. QED
      BY <3>3 DEF S
  <2>3. QED
    BY <2>1, <2>2
<1>2. QED
  BY <1>1, JoinInvariance, PTL

----------------------------------------------------------------------------
(* std::terminate. *)

\* Besides a clash and the destructor only a lack of threads or memory ends
\* the process.
LEMMA OthersGoOn ==
    Next => \/ RegisterClash
            \/ main = "joined" /\ Registered # {} /\ Terminate("destructor")
            \/ terminated' \in {"no", "no_thread", "exception"}
<1> SUFFICES ASSUME Next, ~RegisterClash,
                    ~(main = "joined" /\ Registered # {} /\ Terminate("destructor"))
             PROVE  terminated' \in {"no", "no_thread", "exception"}
  OBVIOUS
<1>0. terminated = "no"
  BY DEF Next
<1>1. CASE Start \/ StopFlag \/ StopGoesOn \/ JoinSpurious \/ Destroy
  BY <1>0, <1>1 DEF Start, StopFlag, StopGoesOn, StopListener, StopWorkers, JoinTest,
     JoinWake, JoinAcceptor, JoinSpurious, Destroy, MainGoto
<1>2. CASE AcceptorGoesOn
  BY <1>0, <1>2 DEF AcceptorGoesOn, AcceptCheck, AcceptFails, RegisterReject, Register,
     RegisterThrows, Terminate
<1>3. CASE \E f \in Fd : Accept(f)
  BY <1>0, <1>3 DEF Accept
<1>4. CASE \E c \in Conn : WorkerStep(c)
  BY <1>0, <1>4 DEF WorkerStep, WorkerCheck, WorkerRead, ChunkCheck, RoundStops,
     RoundThrows, RoundExecutes, WorkerClose, WorkerErase, WorkerGoto, Terminate
<1>5. CASE \E c \in Conn, to \in {"chunk", "check", "close"} : SendReturns(c, to)
  BY <1>0, <1>5 DEF SendReturns, WorkerGoto
<1>6. QED
  BY <1>1, <1>2, <1>3, <1>4, <1>5 DEF Next

\* A registration ends the process only if a worker has closed the accepted
\* descriptor and not yet erased it: the owner of the entry in the way is
\* alive, and if it still held the descriptor accept would not have returned
\* it.  The destructor does so only for the one worker that JoinInv allows.
THEOREM TerminateCorrect == Spec => []TerminateExplained
<1>1. Init => TerminateExplained
  BY DEF Init, TerminateExplained
<1>2. IInv /\ JoinInv /\ TerminateExplained /\ [Next]_vars => TerminateExplained'
  <2> SUFFICES ASSUME IInv, JoinInv, TerminateExplained, [Next]_vars
               PROVE  TerminateExplained'
    OBVIOUS
  <2>1. CASE RegisterClash
    <3> DEFINE c == workers[accFd]
    <3>1. accFd \in Fd /\ c \in Conn
      BY <2>1 DEF RegisterClash, IInv, FdOwnership, TypeOK
    <3>2. wpc[c] \in Alive /\ wfd[c] = accFd
      BY <2>1, <3>1, MTBAssumption DEF RegisterClash, IInv, RegistryExact
    <3>3. wpc[c] = "erase"
      BY <3>1, <3>2 DEF IInv, FdOwnership, Alive
    <3>4. terminated' = "clash" /\ UNCHANGED <<wpc, wfd, accFd>>
      BY <2>1 DEF RegisterClash, Terminate, regVars, accVars
    <3>5. QED
      BY <3>1, <3>2, <3>3, <3>4 DEF TerminateExplained
  <2>2. CASE main = "joined" /\ Registered # {} /\ Terminate("destructor")
    <3>1. PICK f \in Fd : workers[f] # None
      BY <2>2 DEF Registered
    <3>2. workers[f] \in Conn /\ wpc[workers[f]] \in Alive
      BY <3>1 DEF IInv, RegistryExact, TypeOK
    <3>3. /\ acc = "exited"
          /\ \A d \in Conn : wpc[d] \in Alive => d = workers[f]
      BY <2>2, <3>2 DEF JoinInv
    <3>4. terminated' = "destructor" /\ UNCHANGED <<wpc, acc>>
      BY <2>2 DEF Terminate, accVars
    <3>5. QED
      BY <3>2, <3>3, <3>4 DEF TerminateExplained
  <2>3. CASE terminated' \in {"no", "no_thread", "exception"}
    BY <2>3 DEF TerminateExplained
  <2>4. CASE UNCHANGED vars
    BY <2>4 DEF vars, TerminateExplained, Alive, HoldsFd
  <2>5. QED
    BY <2>1, <2>2, <2>3, <2>4, OthersGoOn
<1>3. QED
  BY <1>1, <1>2, JoinInvariance, PTL DEF Spec
=============================================================================
