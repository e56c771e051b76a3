-------------------------- MODULE MaterialsProofs ---------------------------
(***************************************************************************)
(* Theorems about programs of the afina materials: first the readers-      *)
(* writer lock, then (further below) the two epoll programs.               *)
(*                                                                         *)
(* The readers-writer lock is safe for any number of threads and readers:  *)
(* SmSpec => []SharedMutexSafe.  The property is not inductive; what makes *)
(* it so is that state_ means what its name says (StateExact): the bit is  *)
(* set exactly while one thread is between entering and unlocking, and the *)
(* count is the number of threads that read.                               *)
(***************************************************************************)
EXTENDS SharedMutex, EpollServers, FiniteSetTheorems, SequenceTheorems, TLAPS

Positions == {"idle", "lock", "gate1_lock", "gate2", "drain", "write", "store",
              "unlock", "notify", "lock_shared", "gate1_shared", "read", "unowned"}

SmTypeOK ==
    /\ entered \in BOOLEAN
    /\ readers \in Nat
    /\ pos \in [Thread -> Positions]
    /\ local \in [Thread -> Nat]
    /\ value_ \in Nat
    /\ increments \in Nat

\* What state_ means.
StateExact ==
    /\ entered <=> Inside # {}
    /\ \A t, u \in Inside : t = u
    /\ readers = Cardinality(Reading)
    /\ \A t \in Thread : pos[t] \in Writing => readers = 0

\* An increment under way has read the value that is still there.
CounterExact ==
    /\ value_ = increments
    /\ \A t \in Thread : pos[t] = "store" => local[t] = value_

SmInv == SmTypeOK /\ StateExact /\ CounterExact /\ SleepersWoken

----------------------------------------------------------------------------
(* Counting readers. *)

\* The number of readers is a number, and 0 only if there are none.
LEMMA ReadersCounted ==
    /\ IsFiniteSet(Reading)
    /\ Cardinality(Reading) \in Nat
    /\ Cardinality(Reading) = 0 <=> Reading = {}
<1>1. Reading \subseteq Thread
  BY DEF Reading
<1>2. IsFiniteSet(Reading)
  BY <1>1, FS_Subset, SMAssumption
<1> QED
  BY <1>2, FS_CardinalityType, FS_EmptySet

\* LockShared and TryLockShared: a thread that did not read starts to.
LEMMA ReaderCounted ==
    ASSUME NEW t \in Thread, t \notin Reading, Reading' = Reading \cup {t}
    PROVE  Cardinality(Reading') = Cardinality(Reading) + 1
BY ReadersCounted, FS_AddElement

\* UnlockShared: a reader leaves.
LEMMA ReaderDiscounted ==
    ASSUME NEW t \in Reading, Reading' = Reading \ {t}
    PROVE  /\ Cardinality(Reading) > 0
           /\ Cardinality(Reading') = Cardinality(Reading) - 1
BY ReadersCounted, FS_RemoveElement

\* Two sleepers besides MaxReaders readers are one thread too many.
LEMMA TwoTooMany ==
    ASSUME NEW t \in Thread \ Reading, NEW u \in Thread \ Reading, t # u,
           Cardinality(Reading) = MaxReaders
    PROVE  Cardinality(Thread) > MaxReaders + 1
<1> DEFINE A == Reading \cup {t}
           B == A \cup {u}
<1>1. IsFiniteSet(A) /\ Cardinality(A) = MaxReaders + 1
  BY ReadersCounted, FS_AddElement, SMAssumption
<1> HIDE DEF A
<1>2. IsFiniteSet(B) /\ Cardinality(B) = MaxReaders + 2
  <2>1. u \notin A
    BY DEF A
  <2>2. IsFiniteSet(A \cup {u}) /\ Cardinality(A \cup {u}) = Cardinality(A) + 1
    BY <1>1, <2>1, FS_AddElement
  <2> QED
    BY <1>1, <2>2, SMAssumption
<1>3. B \subseteq Thread
  BY DEF A, Reading
<1>4. Cardinality(B) <= Cardinality(Thread)
  BY <1>3, FS_Subset, SMAssumption
<1>5. Cardinality(Thread) \in Nat
  BY FS_CardinalityType, SMAssumption
<1> QED
  BY <1>2, <1>4, <1>5, SMAssumption

----------------------------------------------------------------------------
(* The steps. *)

\* The lock is free, nobody sleeps and nothing is counted.
LEMMA InitInv == SmInit("idle") => SmInv
<1> SUFFICES ASSUME SmInit("idle") PROVE SmInv
  OBVIOUS
<1>1. \A t \in Thread : pos[t] = "idle"
  BY DEF SmInit
<1>2. Inside = {} /\ Reading = {} /\ Gate1 = {} /\ Gate2 = {}
  BY <1>1 DEF Inside, Writing, Reading, Gate1, Gate2
<1>3. SmTypeOK
  BY <1>1 DEF SmInit, SmTypeOK, Positions
<1>4. StateExact
  BY <1>1, <1>2, ReadersCounted DEF SmInit, StateExact, Writing
<1>5. CounterExact /\ SleepersWoken
  BY <1>1, <1>2 DEF SmInit, CounterExact, SleepersWoken
<1> QED
  BY <1>3, <1>4, <1>5 DEF SmInv

\* Moves that concern neither state_ nor the counter, and put nobody to sleep.
LEMMA QuietMove ==
    ASSUME SmInv, NEW t \in Thread, NEW p \in Positions,
           pos' = [pos EXCEPT ![t] = p],
           UNCHANGED <<entered, readers, counterVars>>,
           \/ pos[t] \in {"idle", "unowned"} /\ p \in {"idle", "unowned", "lock", "lock_shared"}
           \/ pos[t] = "gate1_lock" /\ p = "lock"
           \/ pos[t] = "gate1_shared" /\ p = "lock_shared"
           \/ pos[t] \in {"gate2", "drain"} /\ p = "drain"
           \/ pos[t] = "drain" /\ p = "gate2" /\ readers > 0
           \/ pos[t] = "drain" /\ p = "write" /\ readers = 0
    PROVE  SmInv'
<1>1. /\ pos' \in [Thread -> Positions]
      /\ \A u \in Thread : pos'[u] = IF u = t THEN p ELSE pos[u]
  BY DEF SmInv, SmTypeOK
<1>2. Inside' = Inside /\ Reading' = Reading /\ Notifying' = Notifying
  BY <1>1 DEF Inside, Writing, Reading, Notifying
<1>3. SmTypeOK'
  BY <1>1 DEF SmInv, SmTypeOK, counterVars
<1>4. StateExact'
  BY <1>1, <1>2 DEF SmInv, StateExact, Writing
<1>5. CounterExact'
  BY <1>1 DEF SmInv, CounterExact, counterVars
<1>6. SleepersWoken'
  <2>1. Gate2' # {} => Reading # {}
    BY <1>1, ReadersCounted DEF SmInv, StateExact, SleepersWoken, Gate2
  <2>2. \A u \in Gate1' : u \in Gate1 /\ pos'[u] = pos[u]
    BY <1>1 DEF Gate1
  <2> QED
    BY <2>1, <2>2, <1>2 DEF SmInv, SleepersWoken
<1> QED
  BY <1>3, <1>4, <1>5, <1>6 DEF SmInv

\* The bit is set: by lock, into the lock or behind gate2_, and by try_lock.
LEMMA EnterInv ==
    ASSUME SmInv, NEW t \in Thread, NEW p \in {"gate2", "write"},
           ~entered, entered', pos[t] \in {"idle", "lock"},
           pos' = [pos EXCEPT ![t] = p],
           p = "gate2" => readers > 0,
           p = "write" => readers = 0,
           UNCHANGED <<readers, counterVars>>
    PROVE  SmInv'
<1>1. /\ pos' \in [Thread -> Positions]
      /\ \A u \in Thread : pos'[u] = IF u = t THEN p ELSE pos[u]
  BY DEF SmInv, SmTypeOK, Positions
<1>2. Inside = {} /\ Inside' = {t} /\ Reading' = Reading
  BY <1>1 DEF SmInv, StateExact, Inside, Writing, Reading
<1>3. SmTypeOK'
  BY <1>1 DEF SmInv, SmTypeOK, counterVars
<1>4. StateExact'
  BY <1>1, <1>2 DEF SmInv, StateExact, Writing
<1>5. CounterExact'
  BY <1>1 DEF SmInv, CounterExact, counterVars
<1>6. SleepersWoken'
  <2>1. Gate2' # {} => Reading # {}
    BY <1>1, <1>2, ReadersCounted DEF SmInv, StateExact, SleepersWoken, Gate2, Inside
  <2> QED
    BY <2>1, <1>2 DEF SleepersWoken
<1> QED
  BY <1>3, <1>4, <1>5, <1>6 DEF SmInv

\* A thread goes to sleep behind gate1_: a writer has entered, or the count is
\* used up by readers.
LEMMA SleepInv ==
    ASSUME SmInv, NEW t \in Thread, NEW p \in Positions,
           \/ pos[t] = "lock" /\ p = "gate1_lock" /\ Inside # {}
           \/ /\ pos[t] = "lock_shared" /\ p = "gate1_shared"
              /\ Inside # {} \/ readers = MaxReaders,
           pos' = [pos EXCEPT ![t] = p],
           UNCHANGED <<entered, readers, counterVars>>
    PROVE  SmInv'
<1>1. /\ pos' \in [Thread -> Positions]
      /\ \A u \in Thread : pos'[u] = IF u = t THEN p ELSE pos[u]
  BY DEF SmInv, SmTypeOK, Positions
<1>2. /\ Inside' = Inside /\ Reading' = Reading /\ Notifying' = Notifying
      /\ Gate2' = Gate2 /\ Gate1' = Gate1 \cup {t}
  BY <1>1 DEF Inside, Writing, Reading, Notifying, Gate1, Gate2
<1>3. SmTypeOK'
  BY <1>1 DEF SmInv, SmTypeOK, counterVars
<1>4. StateExact'
  BY <1>1, <1>2 DEF SmInv, StateExact, Writing
<1>5. CounterExact'
  BY <1>1 DEF SmInv, CounterExact, counterVars
<1>6. SleepersWoken'
  BY <1>1, <1>2 DEF SmInv, StateExact, SleepersWoken, Gate1
<1> QED
  BY <1>3, <1>4, <1>5, <1>6 DEF SmInv

\* The writer is alone, so what it has read of the counter is still there.
LEMMA CounterInv ==
    ASSUME SmInv, NEW t \in Thread, Load(t) \/ Store(t) \/ ResetCounter(t)
    PROVE  SmInv'
<1>1. PICK p \in {"store", "unlock"} : pos' = [pos EXCEPT ![t] = p]
  BY DEF Load, Store, ResetCounter
<1>2. /\ pos[t] \in {"write", "store"}
      /\ UNCHANGED <<entered, readers>>
  BY DEF Load, Store, ResetCounter
<1>3. /\ pos' \in [Thread -> Positions]
      /\ \A u \in Thread : pos'[u] = IF u = t THEN p ELSE pos[u]
  BY <1>1 DEF SmInv, SmTypeOK, Positions
<1>4. /\ Inside' = Inside /\ Reading' = Reading /\ Notifying' = Notifying
      /\ Gate2' = Gate2 /\ Gate1' = Gate1 /\ t \in Inside
  BY <1>2, <1>3 DEF Inside, Writing, Reading, Notifying, Gate1, Gate2
<1>5. \A u \in Thread : u # t => pos[u] # "store"
  BY <1>4 DEF SmInv, StateExact, Inside, Writing
<1>6. SmTypeOK' /\ CounterExact'
  <2>1. CASE Load(t)
    BY <2>1, <1>2, <1>3, <1>5 DEF Load, SmInv, SmTypeOK, CounterExact
  <2>2. CASE Store(t)
    <3>1. pos'[t] = "unlock" /\ local[t] = value_
      BY <2>2, <1>3 DEF Store, SmInv, SmTypeOK, CounterExact
    <3> QED
      BY <2>2, <3>1, <1>2, <1>3, <1>5 DEF Store, SmInv, SmTypeOK, CounterExact
  <2>3. CASE ResetCounter(t)
    <3>1. pos'[t] = "unlock"
      BY <2>3, <1>3 DEF ResetCounter, SmInv, SmTypeOK
    <3> QED
      BY <2>3, <3>1, <1>2, <1>3, <1>5 DEF ResetCounter, SmInv, SmTypeOK, CounterExact
  <2> QED
    BY <2>1, <2>2, <2>3
<1>7. StateExact'
  BY <1>2, <1>3, <1>4 DEF SmInv, StateExact, Writing
<1>8. SleepersWoken'
  BY <1>4 DEF SmInv, SleepersWoken
<1> QED
  BY <1>6, <1>7, <1>8 DEF SmInv

\* unlock: the bit and the count are cleared together, which loses no reader
\* because there is none.  The sleepers are left to the notification.
LEMMA UnlockInv ==
    ASSUME SmInv, NEW t \in Thread, Unlock(t) PROVE SmInv'
<1>1. /\ pos[t] = "unlock"
      /\ readers = 0 /\ readers' = 0
      /\ ~entered'
  BY DEF Unlock, SmInv, StateExact, Writing
<1>2. /\ pos' \in [Thread -> Positions]
      /\ \A u \in Thread : pos'[u] = IF u = t THEN "notify" ELSE pos[u]
  BY DEF Unlock, SmInv, SmTypeOK, Positions
<1>3. Inside = {t}
  BY <1>1 DEF SmInv, StateExact, Inside, Writing
<1>4. /\ Inside' = {} /\ Reading' = Reading /\ t \in Notifying' /\ Gate2' = {}
  BY <1>1, <1>2, <1>3 DEF Inside, Writing, Reading, Notifying, Gate2
<1>5. SmTypeOK'
  BY <1>1, <1>2 DEF Unlock, SmInv, SmTypeOK, counterVars
<1>6. StateExact'
  BY <1>1, <1>4 DEF SmInv, StateExact
<1>7. CounterExact'
  BY <1>2 DEF Unlock, SmInv, CounterExact, counterVars
<1>8. SleepersWoken'
  BY <1>4 DEF SleepersWoken
<1> QED
  BY <1>5, <1>6, <1>7, <1>8 DEF SmInv

\* notify_all leaves nobody behind gate1_.
LEMMA NotifyAllInv ==
    ASSUME SmInv, NEW t \in Thread, NotifyAll(t) PROVE SmInv'
<1>1. /\ pos[t] = "notify"
      /\ UNCHANGED <<entered, readers, counterVars>>
  BY DEF NotifyAll
<1>2. \A u \in Thread :
         pos'[u] = CASE u = t -> "idle"
                     [] u # t /\ pos[u] = "gate1_lock" -> "lock"
                     [] u # t /\ pos[u] = "gate1_shared" -> "lock_shared"
                     [] OTHER -> pos[u]
  BY <1>1 DEF NotifyAll, Gate1, Woken
<1>3. pos' \in [Thread -> Positions]
  <2>1. \A u \in Thread : pos'[u] \in Positions
    BY <1>2 DEF SmInv, SmTypeOK, Positions
  <2> QED
    BY <2>1 DEF NotifyAll
<1>4. /\ Inside' = Inside /\ Reading' = Reading
      /\ Gate2' = Gate2 /\ Gate1' = {}
  BY <1>1, <1>2 DEF Inside, Writing, Reading, Gate1, Gate2
<1>5. SmTypeOK'
  BY <1>1, <1>3 DEF SmInv, SmTypeOK, counterVars
<1>6. StateExact'
  BY <1>1, <1>2, <1>4 DEF SmInv, StateExact, Writing
<1>7. CounterExact'
  BY <1>1, <1>2 DEF SmInv, CounterExact, counterVars
<1>8. SleepersWoken'
  BY <1>4 DEF SmInv, SleepersWoken
<1> QED
  BY <1>5, <1>6, <1>7, <1>8 DEF SmInv

\* A reader enters: no writer has, and the count is not used up.
LEMMA ReadInv ==
    ASSUME SmInv, NEW t \in Thread, pos[t] \in {"idle", "lock_shared"},
           pos' = [pos EXCEPT ![t] = "read"],
           ~entered, readers # MaxReaders, readers' = readers + 1,
           UNCHANGED <<entered, counterVars>>
    PROVE  SmInv'
<1>1. /\ pos' \in [Thread -> Positions]
      /\ \A u \in Thread : pos'[u] = IF u = t THEN "read" ELSE pos[u]
  BY DEF SmInv, SmTypeOK, Positions
<1>2. /\ Inside' = Inside /\ Inside = {} /\ Notifying' = Notifying
      /\ Reading' = Reading \cup {t} /\ t \notin Reading
      /\ Gate2' = Gate2
  BY <1>1 DEF SmInv, StateExact, Inside, Writing, Reading, Notifying, Gate2
<1>3. readers' = Cardinality(Reading')
  BY <1>2, ReaderCounted DEF SmInv, StateExact
<1>4. SmTypeOK'
  BY <1>1 DEF SmInv, SmTypeOK, counterVars
<1>5. StateExact'
  BY <1>1, <1>2, <1>3 DEF SmInv, StateExact, Inside, Writing
<1>6. CounterExact'
  BY <1>1 DEF SmInv, CounterExact, counterVars
<1>7. SleepersWoken'
  <2>1. \A u \in Gate1' : u \in Gate1 /\ pos'[u] = pos[u]
    BY <1>1 DEF Gate1
  <2> QED
    BY <2>1, <1>2 DEF SmInv, SleepersWoken
<1> QED
  BY <1>4, <1>5, <1>6, <1>7 DEF SmInv

\* A reader leaves: the last one wakes the writer that waits for it, and one
\* that makes room wakes a thread behind gate1_, the only one there unless two
\* threads too many want to read.
LEMMA UnlockSharedInv ==
    ASSUME SmInv, NEW t \in Thread, NEW to \in {"idle", "unowned"}, UnlockShared(t, to)
    PROVE  SmInv'
<1> DEFINE woken == NotifiedByReader(readers - 1)
           woke(u) == CASE pos[u] = "gate1_lock" -> "lock"
                        [] pos[u] = "gate1_shared" -> "lock_shared"
                        [] pos[u] = "gate2" -> "drain"
                        [] OTHER -> pos[u]
<1>1. t \in Reading /\ pos[t] = "read"
  BY DEF UnlockShared, Reading
<1>2. readers > 0 /\ readers \in Nat
  BY <1>1, ReadersCounted DEF SmInv, StateExact
<1>3. readers' = readers - 1 /\ UNCHANGED <<entered, counterVars>>
  BY <1>2 DEF UnlockShared
<1>4. woken \subseteq Gate1 \cup Gate2
  BY DEF NotifiedByReader
<1>5. PICK w \in SUBSET woken :
         /\ woken # {} => w # {}
         /\ \A u \in Thread : pos'[u] = CASE u = t -> to
                                            [] u # t /\ u \in w -> woke(u)
                                            [] OTHER -> pos[u]
         /\ \A u, v \in w : u = v
         /\ pos' \in [Thread -> Positions]
  <2>1. to \in Positions
    BY DEF Positions
  <2>2. CASE woken = {} /\ pos' = [pos EXCEPT ![t] = to]
    <3>1. \A u \in Thread : pos'[u] = IF u = t THEN to ELSE pos[u]
      BY <2>2 DEF SmInv, SmTypeOK
    <3>2. pos' \in [Thread -> Positions]
      BY <2>1, <2>2 DEF SmInv, SmTypeOK
    <3> QED
      BY <2>2, <3>1, <3>2
  <2>3. CASE \E u \in woken : pos' = [pos EXCEPT ![t] = to, ![u] = Woken(pos[u])]
    <3>1. PICK u \in woken : pos' = [pos EXCEPT ![t] = to, ![u] = Woken(pos[u])]
      BY <2>3
    <3>2. u \in Thread /\ u # t /\ Woken(pos[u]) = woke(u) /\ woke(u) \in Positions
      BY <1>1, <1>4 DEF Gate1, Gate2, Woken, Positions
    <3>3. \A v \in Thread : pos'[v] = IF v = u THEN woke(u) ELSE IF v = t THEN to ELSE pos[v]
      BY <3>1, <3>2 DEF SmInv, SmTypeOK
    <3>4. pos' \in [Thread -> Positions]
      BY <2>1, <3>1, <3>2 DEF SmInv, SmTypeOK
    <3>5. {u} \in SUBSET woken
      OBVIOUS
    <3> HIDE DEF woken
    <3> QED
      BY <3>2, <3>3, <3>4, <3>5
  <2> QED
    BY <1>2, <2>2, <2>3 DEF UnlockShared
<1> HIDE DEF woken
<1>6. /\ Inside' = Inside /\ Reading' = Reading \ {t} /\ Notifying' = Notifying
  BY <1>1, <1>4, <1>5 DEF Inside, Writing, Reading, Notifying, Gate1, Gate2
<1>7. readers' = Cardinality(Reading')
  BY <1>1, <1>3, <1>6, ReaderDiscounted DEF SmInv, StateExact
<1>8. \A u \in Thread : pos'[u] \notin Writing
  BY <1>1, <1>2, <1>4, <1>5 DEF SmInv, StateExact, Writing, Gate1, Gate2
<1>9. SmTypeOK'
  BY <1>2, <1>3, <1>5 DEF SmInv, SmTypeOK, counterVars
<1>10. StateExact'
  BY <1>3, <1>6, <1>7, <1>8 DEF SmInv, StateExact
<1>11. CounterExact'
  BY <1>3, <1>8 DEF SmInv, CounterExact, counterVars, Writing
<1>12. SleepersWoken'
  <2>1. \A u \in Gate1' : u \in Gate1 /\ u \notin w /\ pos'[u] = pos[u]
    BY <1>1, <1>5 DEF Gate1
  <2>2. \A u \in Gate2' : u \in Gate2 /\ u \notin w
    BY <1>1, <1>5 DEF Gate2
  <2>3. Gate2' # {} => Reading' # {}
    <3>1. SUFFICES ASSUME NEW u \in Gate2', readers = 1 PROVE FALSE
      BY <1>2, <1>3, <1>7, FS_EmptySet
    <3>2. u \in Gate2 /\ u \notin w /\ u \in Inside
      BY <2>2 DEF Gate2, Inside
    <3>3. entered /\ woken = Gate2
      BY <3>1, <3>2 DEF SmInv, StateExact, NotifiedByReader, woken
    <3>4. PICK v \in w : v \in Inside
      BY <3>2, <3>3, <1>5 DEF Gate2, Inside
    <3> QED
      BY <3>2, <3>4 DEF SmInv, StateExact
  <2>4. ASSUME NEW u \in Gate1'
        PROVE  \/ Inside' # {}
               \/ Notifying' # {}
               \/ /\ pos'[u] = "gate1_shared"
                  /\ \/ readers' = MaxReaders
                     \/ Cardinality(Thread) > MaxReaders + 1
    <3>1. SUFFICES ASSUME Inside = {}, Notifying = {}, readers = MaxReaders
                   PROVE  Cardinality(Thread) > MaxReaders + 1
      BY <2>1, <1>6 DEF SmInv, SleepersWoken
    <3>2. woken = Gate1
      BY <3>1 DEF SmInv, StateExact, NotifiedByReader, woken
    <3>3. PICK v \in w : v \in Gate1
      BY <2>1, <3>2, <1>5
    <3>4. u # v /\ u \in Thread \ Reading /\ v \in Thread \ Reading
      BY <2>1, <3>3 DEF Gate1, Reading
    <3> QED
      BY <3>1, <3>4, TwoTooMany DEF SmInv, StateExact
  <2> QED
    BY <2>3, <2>4 DEF SleepersWoken
<1> QED
  BY <1>9, <1>10, <1>11, <1>12 DEF SmInv

\* Every step of a thread keeps the invariant.
LEMMA StepInv ==
    ASSUME SmInv, NEW t \in Thread, ThreadStep(t) \/ Spurious(t) PROVE SmInv'
<1> USE DEF Positions
<1>1. CASE BeginCall(t)
  BY <1>1, QuietMove DEF BeginCall, BeginAt
<1>2. CASE TryLock(t)
  <2>1. CASE BeginAt(t, "idle", "write") /\ ~entered /\ readers = 0 /\ entered'
    BY <1>2, <2>1, EnterInv DEF TryLock, BeginAt
  <2>2. CASE BeginAt(t, "idle", "idle") /\ UNCHANGED entered
    BY <1>2, <2>2, QuietMove DEF TryLock, BeginAt
  <2> QED
    BY <1>2, <2>1, <2>2 DEF TryLock
<1>3. CASE TryLockShared(t)
  <2>1. CASE BeginAt(t, "idle", "read") /\ ~entered /\ readers # MaxReaders /\ readers' = readers + 1
    BY <1>3, <2>1, ReadInv DEF TryLockShared, BeginAt
  <2>2. CASE BeginAt(t, "idle", "unowned") /\ UNCHANGED readers
    BY <1>3, <2>2, QuietMove DEF TryLockShared, BeginAt
  <2> QED
    BY <1>3, <2>1, <2>2 DEF TryLockShared
<1>4. CASE Unowned(t)
  BY <1>4, QuietMove DEF Unowned, BeginAt
<1>5. CASE Lock(t)
  <2>1. CASE entered
    <3>1. /\ pos[t] = "lock" /\ pos' = [pos EXCEPT ![t] = "gate1_lock"]
          /\ UNCHANGED <<entered, readers, counterVars>>
      BY <1>5, <2>1 DEF Lock
    <3>2. Inside # {}
      BY <2>1 DEF SmInv, StateExact
    <3> QED
      BY <3>1, <3>2, SleepInv
  <2>2. CASE ~entered
    <3>1. readers \in Nat
      BY DEF SmInv, SmTypeOK
    <3>2. CASE readers > 0
      BY <1>5, <2>2, <3>1, <3>2, EnterInv DEF Lock
    <3>3. CASE readers = 0
      BY <1>5, <2>2, <3>1, <3>3, EnterInv DEF Lock
    <3> QED
      BY <3>1, <3>2, <3>3
  <2> QED
    BY <2>1, <2>2
<1>6. CASE LockDrain(t)
  <2>1. readers \in Nat
    BY DEF SmInv, SmTypeOK
  <2>2. CASE readers > 0
    BY <1>6, <2>1, <2>2, QuietMove DEF LockDrain
  <2>3. CASE readers = 0
    BY <1>6, <2>1, <2>3, QuietMove DEF LockDrain
  <2> QED
    BY <2>1, <2>2, <2>3
<1>7. CASE Load(t) \/ Store(t) \/ ResetCounter(t)
  BY <1>7, CounterInv
<1>8. CASE Unlock(t)
  BY <1>8, UnlockInv
<1>9. CASE NotifyAll(t)
  BY <1>9, NotifyAllInv
<1>10. CASE LockShared(t)
  <2>1. CASE entered \/ readers = MaxReaders
    <3>1. /\ pos[t] = "lock_shared" /\ pos' = [pos EXCEPT ![t] = "gate1_shared"]
          /\ UNCHANGED <<entered, readers, counterVars>>
      BY <1>10, <2>1 DEF LockShared
    <3>2. Inside # {} \/ readers = MaxReaders
      BY <2>1 DEF SmInv, StateExact
    <3> QED
      BY <3>1, <3>2, SleepInv
  <2>2. CASE ~entered /\ readers # MaxReaders
    BY <1>10, <2>2, ReadInv DEF LockShared
  <2> QED
    BY <2>1, <2>2
<1>11. CASE \E to \in {"idle", "unowned"} : UnlockShared(t, to)
  BY <1>11, UnlockSharedInv
<1>12. CASE Spurious(t)
  <2>1. /\ pos' = [pos EXCEPT ![t] = Woken(pos[t])]
        /\ UNCHANGED <<entered, readers, counterVars>>
        /\ pos[t] \in {"gate1_lock", "gate1_shared", "gate2"}
    BY <1>12 DEF Spurious, Gate1, Gate2
  <2>2. \/ pos[t] = "gate1_lock" /\ Woken(pos[t]) = "lock"
        \/ pos[t] = "gate1_shared" /\ Woken(pos[t]) = "lock_shared"
        \/ pos[t] = "gate2" /\ Woken(pos[t]) = "drain"
    BY <2>1 DEF Woken
  <2> QED
    BY <2>1, <2>2, QuietMove
<1> QED
  BY <1>1, <1>2, <1>3, <1>4, <1>5, <1>6, <1>7, <1>8, <1>9, <1>10, <1>11, <1>12
     DEF ThreadStep

\* The invariant is about these variables only.
LEMMA StutterInv == ASSUME SmInv, UNCHANGED smVars PROVE SmInv'
BY DEF SmInv, SmTypeOK, StateExact, CounterExact, SleepersWoken, Inside, Reading,
   Notifying, Gate1, Gate2, smVars

\* state_ keeps its meaning in every reachable state.
THEOREM StateCorrect == SmSpec => []SmInv
<1>1. SmInv /\ [SmNext]_smVars => SmInv'
  BY StepInv, StutterInv DEF SmNext
<1> QED
  BY <1>1, InitInv, PTL DEF SmSpec

\* lock, unlock and their shared forms, for any number of threads and readers:
\* a writer is alone, no increment of the counter is lost, and as long as at
\* most one thread more than n_readers_ exists no thread sleeps behind a gate
\* with nobody to wake it.
THEOREM SharedMutexCorrect == SmSpec => []SharedMutexSafe
<1>1. SmInv => SharedMutexSafe
  <2> SUFFICES ASSUME SmInv PROVE SharedMutexSafe
    OBVIOUS
  <2>1. Exclusive
    <3> SUFFICES ASSUME NEW t \in Thread, NEW u \in Thread,
                        pos[t] \in Writing, t # u
                 PROVE  pos[u] \notin Writing \cup {"read"}
      BY DEF Exclusive
    <3>1. pos[u] \notin Writing
      BY DEF SmInv, StateExact, Inside
    <3>2. pos[u] # "read"
      BY ReadersCounted DEF SmInv, StateExact, Reading
    <3> QED
      BY <3>1, <3>2
  <2> QED
    BY <2>1 DEF SmInv, CounterExact, SharedMutexSafe
<1> QED
  BY <1>1, StateCorrect, PTL

----------------------------------------------------------------------------
(***************************************************************************)
(* The two epoll programs, for any number of connections, any buffer and   *)
(* any number of bytes: no byte is repeated or reordered on its way, and   *)
(* none is lost but by a short write of epoll-example.c to standard output *)
(* (echo.c: until it has read a chunk with an old offset).                 *)
(*                                                                         *)
(* The property speaks of data that waits in the record of a connection    *)
(* while the connection is registered for writing.  It is inductive only   *)
(* with what ties the events of one epoll_wait to the epoll set while they *)
(* are handled one after another: there is one event for a descriptor, and *)
(* the descriptor is still registered for what the event says.             *)
(***************************************************************************)
EpSpec == EpInit("setup", {"example", "echo"}) /\ [][EpNext]_epVars

Connection == [state : {"new", "queued", "open", "closed"}, sent : Nat,
               unread : Seq(Nat), end : {"none", "fin", "rst"}]
EchoRecord == [data : [1 .. MAXLEN -> Nat], length : Nat, offset : Nat]

EpTypeOK ==
    /\ armed \in [Peers \cup {Serverfd} -> {"no", "IN", "OUT"}]
    /\ events \subseteq [fd : Peers \cup {Serverfd}, events : {"ERR", "IN", "OUT"}]
    /\ waiting \in Seq(Peers)
    /\ conn \in [Peers -> Connection]
    /\ echoEvent \in [Peers -> EchoRecord]
    /\ output \in [Peers -> Seq(Nat)]
    /\ stale \subseteq Peers

\* A connection waits once, and is in the epoll set only when it was accepted.
WaitingInv ==
    /\ \A i \in DOMAIN waiting : conn[waiting[i]].state = "queued"
    /\ \A i, j \in DOMAIN waiting : waiting[i] = waiting[j] => i = j
    /\ \A c \in Peers : conn[c].state \in {"new", "queued"} => armed[c] = "no"

\* An event that is not handled yet is the only one of its descriptor, which is
\* registered for it; the listening socket is only read.
EventsInv ==
    /\ armed[Serverfd] # "OUT"
    /\ \A e \in events : armed[e.fd] # "no"
    /\ \A e \in events : e.events = "ERR" => e.fd \in Peers
    /\ \A e \in events : e.events # "ERR" => armed[e.fd] = e.events
    /\ \A e, d \in events : e.fd = d.fd => e = d

\* The example never asks for EPOLLOUT.
ExampleInv == prog = "example" => \A c \in Peers : armed[c] # "OUT"

\* The inductive invariant.
EpInv == EpTypeOK /\ WaitingInv /\ EventsInv /\ ExampleInv /\ OutputFaithful

USE EpAssumption

----------------------------------------------------------------------------
(* Sequences of bytes. *)

\* The bytes 1 to n, each in its place, but for some that were dropped if c \in Z.
Placed(s, n, c, Z) ==
    Len(s) = n /\ \A i \in 1 .. n : s[i] = i \/ (s[i] = 0 /\ c \in Z)

\* How much one read takes.
LEMMA ReadLength ==
    ASSUME NEW n \in Nat
    PROVE  /\ Min({MAXLEN, n}) \in 0 .. n
           /\ Min({MAXLEN, n}) <= MAXLEN
           /\ Min({MAXLEN, n}) = 0 <=> n = 0
<1>1. \E x \in {MAXLEN, n} : \A y \in {MAXLEN, n} : x <= y
  OBVIOUS
<1>2. /\ Min({MAXLEN, n}) \in {MAXLEN, n}
      /\ \A y \in {MAXLEN, n} : Min({MAXLEN, n}) <= y
  BY <1>1 DEF Min
<1>3. QED
  BY <1>2

\* A sequence is its first n elements and the others.
LEMMA TakeRest ==
    ASSUME NEW S, NEW u \in Seq(S), NEW n \in 0 .. Len(u)
    PROVE  /\ SubSeq(u, 1, n) \in Seq(S) /\ SubSeq(u, n + 1, Len(u)) \in Seq(S)
           /\ Len(SubSeq(u, 1, n)) = n
           /\ \A i \in 1 .. n : SubSeq(u, 1, n)[i] = u[i]
           /\ SubSeq(u, 1, n) \o SubSeq(u, n + 1, Len(u)) = u
<1>1. Len(u) \in Nat /\ \A i \in 1 .. Len(u) : u[i] \in S
  OBVIOUS
<1>2. /\ SubSeq(u, 1, n) \in Seq(S) /\ Len(SubSeq(u, 1, n)) = n
      /\ \A i \in 1 .. n : SubSeq(u, 1, n)[i] = u[i]
  BY <1>1
<1>3. /\ SubSeq(u, n + 1, Len(u)) \in Seq(S)
      /\ Len(SubSeq(u, n + 1, Len(u))) = Len(u) - n
      /\ \A i \in 1 .. Len(u) - n : SubSeq(u, n + 1, Len(u))[i] = u[n + i]
  BY <1>1
<1> DEFINE a == SubSeq(u, 1, n)
           b == SubSeq(u, n + 1, Len(u))
<1>4. a \in Seq(S) /\ b \in Seq(S) /\ Len(a) = n /\ Len(b) = Len(u) - n
  BY <1>2, <1>3
<1>5. \A i \in 1 .. Len(u) : u[i] = IF i <= n THEN a[i] ELSE b[i - n]
  <2>1. /\ \A i \in 1 .. n : a[i] = u[i]
        /\ \A i \in 1 .. Len(u) - n : b[i] = u[n + i]
    BY <1>2, <1>3
  <2> HIDE DEF a, b
  <2>2. \A i \in n + 1 .. Len(u) : i - n \in 1 .. Len(u) - n /\ n + (i - n) = i
    BY <1>1
  <2>3. QED
    BY <1>1, <2>1, <2>2
<1> HIDE DEF a, b
<1>6. a \o b \in Seq(S) /\ Len(a \o b) = Len(u)
  BY <1>1, <1>4
<1>7. \A i \in 1 .. Len(u) : (a \o b)[i] = u[i]
  BY <1>1, <1>4, <1>5
<1>8. a \o b = u
  BY <1>6, <1>7, SeqEqual
<1>9. QED
  BY <1>2, <1>3, <1>8 DEF a, b

\* The length and the elements of a concatenation.
LEMMA Joined ==
    ASSUME NEW S, NEW a \in Seq(S), NEW b \in Seq(S)
    PROVE  /\ a \o b \in Seq(S)
           /\ Len(a \o b) = Len(a) + Len(b)
           /\ \A i \in 1 .. Len(a) : (a \o b)[i] = a[i]
           /\ \A i \in Len(a) + 1 .. Len(a) + Len(b) : (a \o b)[i] = b[i - Len(a)]
  OBVIOUS

\* How three parts are put together does not matter.
LEMMA Grouping ==
    ASSUME NEW x \in Seq(Nat), NEW y \in Seq(Nat), NEW u \in Seq(Nat)
    PROVE  (x \o y) \o u = x \o (y \o u)
  BY ConcatAssociative

\* Bytes go from the third part of a sequence to the first or the second one.
LEMMA Regroup ==
    ASSUME NEW x \in Seq(Nat), NEW y \in Seq(Nat), NEW u \in Seq(Nat)
    PROVE  /\ (x \o y) \o u = x \o (y \o u)
           /\ x \o <<>> = x
           /\ ((x \o y) \o <<>>) \o u = x \o (y \o u)
<1>1. (x \o y) \o u = x \o (y \o u)
  BY Grouping
<1>2. x \o <<>> = x /\ x \o y \in Seq(Nat)
  BY ConcatEmptySeq, ConcatProperties
<1>3. (x \o y) \o <<>> = x \o y
  BY <1>2, ConcatEmptySeq
<1>4. QED
  BY <1>1, <1>2, <1>3

\* The client sends one more byte.
LEMMA OneMore ==
    \A x, u \in Seq(Nat), n \in Nat : \A c, Z :
        Placed(x \o u, n, c, Z) => Placed(x \o Append(u, n + 1), n + 1, c, Z)
<1> TAKE x, u \in Seq(Nat), n \in Nat
<1> TAKE c, Z
<1> DEFINE m == n + 1
           l == <<m>>
           s == x \o u
           r == s \o l
<1>1. m \in Nat /\ m = n + 1
  OBVIOUS
<1>2. l \in Seq(Nat) /\ Len(l) = 1 /\ l[1] = m
  BY <1>1
<1> HIDE DEF m
<1>3. Append(u, m) = u \o l
  BY <1>1, AppendIsConcat
<1>4. l \in Seq(Nat)
  BY <1>2
<1> HIDE DEF l
<1>5. (x \o u) \o l = x \o (u \o l)
  BY <1>4, Grouping
<1>6. s \in Seq(Nat)
  BY ConcatProperties
<1> HIDE DEF s
<1>7. /\ Len(r) = Len(s) + Len(l)
      /\ \A i \in 1 .. Len(s) : r[i] = s[i]
      /\ \A i \in Len(s) + 1 .. Len(s) + Len(l) : r[i] = l[i - Len(s)]
  BY <1>4, <1>6, Joined
<1> HIDE DEF r
<1>8. HAVE Placed(x \o u, n, c, Z)
<1>9. Len(s) = n /\ \A i \in 1 .. n : s[i] = i \/ (s[i] = 0 /\ c \in Z)
  BY <1>8 DEF Placed, s
<1>10. Len(r) = m /\ r[m] = m /\ \A i \in 1 .. n : r[i] = s[i]
  <2>1. m \in Len(s) + 1 .. Len(s) + Len(l) /\ m - Len(s) = 1
    BY <1>1, <1>2, <1>9
  <2>2. r[m] = l[1]
    BY <1>7, <2>1
  <2>3. QED
    BY <1>1, <1>2, <1>7, <1>9, <2>2
<1>11. \A i \in 1 .. m : i \in 1 .. n \/ i = m
  BY <1>1
<1>12. Placed(r, m, c, Z)
  BY <1>9, <1>10, <1>11 DEF Placed
<1>13. QED
  BY <1>3, <1>5, <1>12 DEF m, r, s

\* A chunk a is put out as w, in which some bytes are missing if the write was short.
LEMMA Dropped ==
    \A o, a, b, w \in Seq(Nat), n \in Nat : \A c, Z, Y :
        /\ Z \subseteq Y /\ Len(w) = Len(a)
        /\ \A i \in 1 .. Len(a) : w[i] = a[i] \/ (w[i] = 0 /\ c \in Y)
        /\ Placed(o \o (a \o b), n, c, Z)
        => Placed(o \o (w \o b), n, c, Y)
<1> TAKE o, a, b, w \in Seq(Nat), n \in Nat
<1> TAKE c, Z, Y
<1> DEFINE p == a \o b
           q == w \o b
           s == o \o p
           r == o \o q
<1>1. /\ p \in Seq(Nat) /\ Len(p) = Len(a) + Len(b)
      /\ \A i \in 1 .. Len(a) : p[i] = a[i]
      /\ \A i \in Len(a) + 1 .. Len(a) + Len(b) : p[i] = b[i - Len(a)]
  BY Joined
<1>2. /\ q \in Seq(Nat) /\ Len(q) = Len(w) + Len(b)
      /\ \A i \in 1 .. Len(w) : q[i] = w[i]
      /\ \A i \in Len(w) + 1 .. Len(w) + Len(b) : q[i] = b[i - Len(w)]
  BY Joined
<1>3. p \in Seq(Nat) /\ q \in Seq(Nat)
  BY <1>1, <1>2
<1> HIDE DEF p, q
<1>4. /\ Len(s) = Len(o) + Len(p)
      /\ \A i \in 1 .. Len(o) : s[i] = o[i]
      /\ \A i \in Len(o) + 1 .. Len(o) + Len(p) : s[i] = p[i - Len(o)]
  BY <1>3, Joined
<1>5. /\ Len(r) = Len(o) + Len(q)
      /\ \A i \in 1 .. Len(o) : r[i] = o[i]
      /\ \A i \in Len(o) + 1 .. Len(o) + Len(q) : r[i] = q[i - Len(o)]
  BY <1>3, Joined
<1> HIDE DEF s, r
<1>6. Len(a) \in Nat /\ Len(b) \in Nat /\ Len(o) \in Nat
  OBVIOUS
<1>7. HAVE /\ Z \subseteq Y /\ Len(w) = Len(a)
           /\ \A i \in 1 .. Len(a) : w[i] = a[i] \/ (w[i] = 0 /\ c \in Y)
           /\ Placed(o \o (a \o b), n, c, Z)
<1>8. Len(q) = Len(p) /\ \A i \in 1 .. Len(p) : q[i] = p[i] \/ (q[i] = 0 /\ c \in Y)
  <2>1. \A i \in 1 .. Len(p) : i \in 1 .. Len(a) \/ i \in Len(a) + 1 .. Len(a) + Len(b)
    BY <1>1, <1>6
  <2>2. QED
    BY <1>1, <1>2, <1>7, <2>1
<1>9. Len(s) = n /\ \A i \in 1 .. n : s[i] = i \/ (s[i] = 0 /\ c \in Y)
  BY <1>7 DEF Placed, s, p
<1>10. ASSUME NEW i \in 1 .. n PROVE r[i] = s[i] \/ (r[i] = 0 /\ c \in Y)
  <2>1. Len(p) \in Nat
    BY <1>1, <1>6
  <2>2. CASE i \in 1 .. Len(o)
    BY <1>4, <1>5, <2>2
  <2>3. CASE i \in Len(o) + 1 .. Len(o) + Len(p)
    <3>1. i - Len(o) \in 1 .. Len(p)
      BY <1>6, <2>1, <2>3
    <3>2. s[i] = p[i - Len(o)] /\ r[i] = q[i - Len(o)]
      BY <1>4, <1>5, <1>8, <2>3
    <3>3. QED
      BY <1>8, <3>1, <3>2
  <2>4. QED
    BY <1>4, <1>6, <1>9, <2>1, <2>2, <2>3
<1>11. Len(r) = n
  BY <1>4, <1>5, <1>8, <1>9
<1>12. Placed(r, n, c, Y)
  BY <1>9, <1>10, <1>11 DEF Placed
<1>13. QED
  BY <1>12 DEF r, q

\* What is written next is a sequence, and a write of k bytes leaves the rest.
LEMMA WriteParts ==
    ASSUME NEW ev \in [data : [1 .. MAXLEN -> Nat], length : Nat, offset : Nat],
           NEW k \in 0 .. ev.length
    PROVE  /\ ToWrite(ev, k) \in Seq(Nat) /\ Len(ToWrite(ev, k)) = k
           /\ Remaining(ev, k) \in [data : [1 .. MAXLEN -> Nat], length : Nat, offset : Nat]
           /\ ToWrite(ev, k) \o ToWrite(Remaining(ev, k), Remaining(ev, k).length)
                = ToWrite(ev, ev.length)
<1> DEFINE rem == Remaining(ev, k)
           at(j) == IF ev.offset + j <= MAXLEN THEN ev.data[ev.offset + j] ELSE 0
           len == ev.length
           rest == ev.length - k
<1>1. len \in Nat /\ k \in Nat /\ rest \in Nat /\ k <= len /\ rest = len - k
  OBVIOUS
<1>2. ev.length - k = rest /\ ev.offset + k \in Nat
  BY <1>1
<1>3. /\ rem \in [data : [1 .. MAXLEN -> Nat], length : Nat, offset : Nat]
      /\ rem.length = rest /\ rem.offset = ev.offset + k /\ rem.data = ev.data
  <2> DEFINE off == ev.offset + k
             D == [1 .. MAXLEN -> Nat]
  <2>1. rem = [ev EXCEPT !.length = rest, !.offset = off]
    BY DEF Remaining
  <2>2. off \in Nat /\ rest \in Nat /\ ev \in [data : D, length : Nat, offset : Nat]
    BY <1>1, <1>2
  <2> HIDE DEF rem, rest, off, D
  <2>3. /\ rem \in [data : D, length : Nat, offset : Nat]
        /\ rem.length = rest /\ rem.offset = off /\ rem.data = ev.data
    BY <2>1, <2>2
  <2>4. QED
    BY <2>3 DEF off, D
<1>4. \A j \in Nat \ {0} : at(j) \in Nat
  OBVIOUS
<1>5. ToWrite(ev, k) = [i \in 1 .. k |-> at(i)] /\ ToWrite(ev, len) = [i \in 1 .. len |-> at(i)]
  BY DEF ToWrite
<1>6. ToWrite(rem, rest) = [i \in 1 .. rest |-> at(k + i)]
  <2>1. \A i \in 1 .. rest : (ev.offset + k) + i = ev.offset + (k + i)
    BY <1>1
  <2> HIDE DEF rem, rest
  <2>2. QED
    BY <1>3, <2>1 DEF ToWrite
<1> HIDE DEF rem, at, len, rest
<1> DEFINE a == [i \in 1 .. k |-> at(i)]
           b == [i \in 1 .. rest |-> at(k + i)]
           w == [i \in 1 .. len |-> at(i)]
<1>7. a \in Seq(Nat) /\ Len(a) = k /\ \A i \in 1 .. k : a[i] = at(i)
  BY <1>1, <1>4
<1>8. b \in Seq(Nat) /\ Len(b) = rest /\ \A i \in 1 .. rest : b[i] = at(k + i)
  <2>1. \A i \in 1 .. rest : at(k + i) \in Nat
    BY <1>1, <1>4
  <2>2. QED
    BY <1>1, <2>1
<1>9. w \in Seq(Nat) /\ Len(w) = len /\ \A i \in 1 .. len : w[i] = at(i)
  BY <1>1, <1>4
<1> HIDE DEF a, b, w
<1> DEFINE r == a \o b
<1>9a. a \in Seq(Nat) /\ b \in Seq(Nat)
  BY <1>7, <1>8
<1>10. /\ r \in Seq(Nat) /\ Len(r) = Len(a) + Len(b)
       /\ \A i \in 1 .. Len(a) : r[i] = a[i]
       /\ \A i \in Len(a) + 1 .. Len(a) + Len(b) : r[i] = b[i - Len(a)]
  BY <1>9a, Joined
<1> HIDE DEF r
<1>11. Len(r) = len /\ \A i \in 1 .. len : r[i] = w[i]
  <2>1. \A i \in k + 1 .. len : i - k \in 1 .. rest /\ k + (i - k) = i
    BY <1>1
  <2>2. \A i \in k + 1 .. len : r[i] = at(i)
    <3>1. SUFFICES ASSUME NEW i \in k + 1 .. len PROVE r[i] = at(i)
      OBVIOUS
    <3>2. r[i] = b[i - k] /\ i - k \in 1 .. rest /\ k + (i - k) = i
      <4>1. Len(a) = k /\ Len(b) = rest /\ k + rest = len
        BY <1>1, <1>7, <1>8
      <4>2. i \in Len(a) + 1 .. Len(a) + Len(b)
        BY <4>1
      <4>3. r[i] = b[i - Len(a)]
        BY <4>2, <1>10
      <4>4. QED
        BY <4>1, <4>3, <2>1
    <3>3. QED
      BY <1>8, <3>2
  <2>3. QED
    BY <1>1, <1>7, <1>8, <1>9, <1>10, <2>2
<1>12. a \o b = w
  BY <1>9, <1>10, <1>11, SeqEqual DEF r
<1>13. /\ ToWrite(ev, k) = a /\ ToWrite(ev, ev.length) = w
       /\ ToWrite(rem, rem.length) = b
  BY <1>3, <1>5, <1>6 DEF a, b, w, len
<1>14. QED
  BY <1>3, <1>7, <1>12, <1>13 DEF rem
----------------------------------------------------------------------------
(* What a step leaves alone. *)

Faithful(c) ==
    conn[c].state # "closed" =>
      Placed(output[c] \o InTransit(c) \o conn[c].unread, conn[c].sent, c, short)

\* Every way in which a connection is updated keeps its type.
LEMMA ConnectionUpdate ==
    ASSUME NEW f \in [Peers -> Connection], NEW c \in Peers
    PROVE  /\ \A x \in {"new", "queued", "open", "closed"} :
                 [f EXCEPT ![c].state = x] \in [Peers -> Connection]
           /\ \A x \in {"none", "fin", "rst"} : [f EXCEPT ![c].end = x] \in [Peers -> Connection]
           /\ \A x \in Seq(Nat) : [f EXCEPT ![c].unread = x] \in [Peers -> Connection]
           /\ \A n \in Nat, x \in Seq(Nat) :
                 [f EXCEPT ![c].sent = n, ![c].unread = x] \in [Peers -> Connection]
<1> DEFINE B == Seq(Nat)
<1> HIDE DEF B
<1>1. f \in [Peers -> [state : {"new", "queued", "open", "closed"}, sent : Nat,
                       unread : B, end : {"none", "fin", "rst"}]]
  BY DEF B, Connection
<1>2. /\ \A x \in {"new", "queued", "open", "closed"} :
            [f EXCEPT ![c].state = x] \in [Peers -> [state : {"new", "queued", "open", "closed"},
                sent : Nat, unread : B, end : {"none", "fin", "rst"}]]
      /\ \A x \in {"none", "fin", "rst"} :
            [f EXCEPT ![c].end = x] \in [Peers -> [state : {"new", "queued", "open", "closed"},
                sent : Nat, unread : B, end : {"none", "fin", "rst"}]]
  BY <1>1
<1>3. \A x \in B : [f EXCEPT ![c].unread = x]
                      \in [Peers -> [state : {"new", "queued", "open", "closed"},
                                     sent : Nat, unread : B, end : {"none", "fin", "rst"}]]
  BY <1>1
<1>4. \A n \in Nat, x \in B :
         [f EXCEPT ![c].sent = n, ![c].unread = x]
            \in [Peers -> [state : {"new", "queued", "open", "closed"},
                           sent : Nat, unread : B, end : {"none", "fin", "rst"}]]
  BY <1>1, ZenonT(40)
<1>5. QED
  BY <1>2, <1>3, <1>4 DEF B, Connection

\* The property, connection by connection.
LEMMA FaithfulEach == OutputFaithful <=> \A c \in Peers \ stale : Faithful(c)
  BY DEF OutputFaithful, Faithful, Placed, Sequel

\* Connections outside X keep all that OutputFaithful says of them.
LEMMA OutputFrame ==
    ASSUME OutputFaithful, NEW X, stale \subseteq stale', short \subseteq short',
           \A d \in Peers \ X : /\ conn'[d] = conn[d] /\ output'[d] = output[d]
                                /\ echoEvent'[d] = echoEvent[d] /\ armed'[d] = armed[d],
           \A c \in Peers : c \in X /\ c \notin stale' => Faithful(c)'
    PROVE  OutputFaithful'
<1>1. \A d \in Peers \ stale : Faithful(d)
  BY FaithfulEach
<1>2. SUFFICES ASSUME NEW d \in Peers \ stale' PROVE Faithful(d)'
  BY DEF OutputFaithful, Faithful, Placed, Sequel
<1>3. CASE d \in X
  BY <1>3
<1>4. CASE d \notin X
  <2>1. Faithful(d)
    BY <1>1
  <2>2. InTransit(d)' = InTransit(d)
    BY <1>4 DEF InTransit
  <2>3. QED
    BY <1>4, <2>1, <2>2 DEF Faithful, Placed
<1>5. QED
  BY <1>3, <1>4

\* The queue of the listening socket stays right while nobody joins or leaves it.
LEMMA WaitingFrame ==
    ASSUME WaitingInv, waiting \in Seq(Peers), waiting' = waiting,
           \A c \in Peers : \/ conn'[c].state = conn[c].state
                            \/ {conn[c].state, conn'[c].state} \cap {"new", "queued"} = {},
           \A c \in Peers : armed[c] = "no" => armed'[c] = "no"
    PROVE  WaitingInv'
<1>1. \A i \in DOMAIN waiting : waiting[i] \in Peers
  OBVIOUS
<1>2. \A i \in DOMAIN waiting : conn'[waiting[i]].state = "queued"
  BY <1>1 DEF WaitingInv
<1>3. \A c \in Peers : conn'[c].state \in {"new", "queued"} => armed'[c] = "no"
  BY DEF WaitingInv
<1>4. QED
  BY <1>2, <1>3 DEF WaitingInv

\* Events that remain are as good as before if their descriptors are left alone.
LEMMA EventsFrame ==
    ASSUME EventsInv, events' \subseteq events,
           \A e \in events' : armed'[e.fd] = armed[e.fd], armed'[Serverfd] = armed[Serverfd]
    PROVE  EventsInv'
  BY DEF EventsInv

\* A step that handles an event of connection c, or a part of it.
LEMMA HandlingFrame ==
    ASSUME EpInv, EpTypeOK', NEW e \in events, NEW c \in Peers, e.fd = c,
           \/ events' = events \ {e}
           \/ events' = events /\ armed'[c] = armed[c],
           prog' = prog, waiting' = waiting, stale \subseteq stale', short \subseteq short',
           \A f \in Peers \cup {Serverfd} : f # c => armed'[f] = armed[f],
           \A d \in Peers \ {c} : /\ conn'[d] = conn[d] /\ output'[d] = output[d]
                                  /\ echoEvent'[d] = echoEvent[d],
           conn'[c].state \in {conn[c].state, "closed"},
           armed'[c] = "OUT" => prog = "echo" \/ armed[c] = "OUT",
           c \notin stale' => Faithful(c)'
    PROVE  EpInv'
<1>1. armed[c] # "no"
  BY DEF EpInv, EventsInv
<1>2. conn[c].state \notin {"new", "queued"}
  BY <1>1 DEF EpInv, WaitingInv
<1>3. WaitingInv'
  <2>1. \A d \in Peers : \/ conn'[d].state = conn[d].state
                         \/ {conn[d].state, conn'[d].state} \cap {"new", "queued"} = {}
    BY <1>2
  <2>2. \A d \in Peers : armed[d] = "no" => armed'[d] = "no"
    BY <1>1
  <2>3. QED
    BY <2>1, <2>2, WaitingFrame DEF EpInv, EpTypeOK
<1>4. EventsInv'
  <2>1. \A d \in events : d.fd = c => d = e
    BY DEF EpInv, EventsInv
  <2>2. \A d \in events : d.fd \in Peers \cup {Serverfd}
    BY DEF EpInv, EpTypeOK
  <2>3. events' \subseteq events /\ \A d \in events' : armed'[d.fd] = armed[d.fd]
    BY <2>1, <2>2
  <2>4. QED
    BY <2>3, EventsFrame, Serverfd \notin Peers DEF EpInv
<1>5. ExampleInv'
  BY DEF EpInv, ExampleInv
<1>6. OutputFaithful'
  <2>1. \A d \in Peers \ {c} : /\ conn'[d] = conn[d] /\ output'[d] = output[d]
                               /\ echoEvent'[d] = echoEvent[d] /\ armed'[d] = armed[d]
    OBVIOUS
  <2>2. \A d \in Peers : d \in {c} /\ d \notin stale' => Faithful(d)'
    BY DEF Faithful, InTransit
  <2> DEFINE X == {c}
  <2> HIDE DEF X
  <2>3. QED
    BY <2>1, <2>2, OutputFrame DEF EpInv, X
<1>7. QED
  BY <1>3, <1>4, <1>5, <1>6 DEF EpInv

----------------------------------------------------------------------------
(* The steps of the program. *)

\* At the start nothing is open.
LEMMA InitStep == EpInit("setup", {"example", "echo"}) => EpInv
<1>1. SUFFICES ASSUME EpInit("setup", {"example", "echo"}) PROVE EpInv
  OBVIOUS
<1>2. /\ armed = [f \in Peers \cup {Serverfd} |-> "no"] /\ events = {} /\ waiting = <<>>
      /\ conn = [c \in Peers |-> [state |-> "new", sent |-> 0, unread |-> <<>>, end |-> "none"]]
      /\ echoEvent = [c \in Peers |-> [data |-> [i \in 1 .. MAXLEN |-> 0], length |-> 0, offset |-> 0]]
      /\ output = [c \in Peers |-> <<>>] /\ stale = {}
  BY <1>1 DEF EpInit
<1>3. EpTypeOK
  BY <1>2 DEF EpTypeOK, Connection, EchoRecord
<1>4. WaitingInv /\ EventsInv /\ ExampleInv
  BY <1>2 DEF WaitingInv, EventsInv, ExampleInv
<1>5. OutputFaithful
  <2>1. SUFFICES ASSUME NEW c \in Peers PROVE Faithful(c)
    BY FaithfulEach
  <2>2. output[c] = <<>> /\ InTransit(c) = <<>> /\ conn[c].unread = <<>> /\ conn[c].sent = 0
    BY <1>2 DEF InTransit
  <2>3. <<>> \in Seq(Nat) /\ Len(<<>>) = 0
    OBVIOUS
  <2>4. (<<>> \o <<>>) \o <<>> = <<>>
    BY <2>3, ConcatEmptySeq
  <2>5. QED
    BY <2>2, <2>3, <2>4 DEF Faithful, Placed
<1>6. QED
  BY <1>3, <1>4, <1>5 DEF EpInv

\* Opening the listening socket and the epoll set.
LEMMA SetsUpStep == ASSUME EpInv, NEW ok \in BOOLEAN, SetsUp(ok) PROVE EpInv'
<1>1. /\ prog' = prog /\ events' = events /\ waiting' = waiting /\ conn' = conn
      /\ echoEvent' = echoEvent /\ output' = output /\ stale' = stale
      /\ short' = short
      /\ armed' = [armed EXCEPT ![Serverfd] = "IN"]
  BY DEF SetsUp, dataVars
<1>2. EpTypeOK'
  BY <1>1 DEF EpInv, EpTypeOK
<1>3. \A c \in Peers : armed'[c] = armed[c]
  BY <1>1 DEF EpInv, EpTypeOK
<1>4. WaitingInv'
  BY <1>1, <1>3, WaitingFrame DEF EpInv, EpTypeOK
<1>5. EventsInv'
  <2>1. \A e \in events : e.fd = Serverfd => e.events = "IN"
    BY DEF EpInv, EpTypeOK, EventsInv
  <2>2. \A e \in events : e.fd \in Peers \cup {Serverfd}
    BY DEF EpInv, EpTypeOK
  <2>3. armed'[Serverfd] = "IN"
    BY <1>1 DEF EpInv, EpTypeOK
  <2>4. QED
    BY <1>1, <1>3, <2>1, <2>2, <2>3 DEF EpInv, EventsInv
<1>6. ExampleInv'
  BY <1>1, <1>3 DEF EpInv, ExampleInv
<1>7. OutputFaithful'
  BY <1>1, <1>3, OutputFrame DEF EpInv
<1>8. QED
  BY <1>2, <1>4, <1>5, <1>6, <1>7 DEF EpInv

\* Every event is made from what its descriptor is registered for at that moment.
LEMMA EpollWaitStep == ASSUME EpInv, EpollWait PROVE EpInv'
<1>1. /\ prog' = prog /\ armed' = armed /\ waiting' = waiting /\ conn' = conn
      /\ echoEvent' = echoEvent /\ output' = output /\ stale' = stale
      /\ short' = short /\ events' = Reported
  BY DEF EpollWait, dataVars
<1>2. \A e \in events' :
        /\ e \in [fd : Peers \cup {Serverfd}, events : {"ERR", "IN", "OUT"}]
        /\ armed[e.fd] # "no"
        /\ e.events = IF Broken(e.fd) THEN "ERR" ELSE armed[e.fd]
  <2>1. DOMAIN armed = Peers \cup {Serverfd}
    BY DEF EpInv, EpTypeOK
  <2>2. SUFFICES ASSUME NEW f \in Peers \cup {Serverfd}, armed[f] # "no",
                        NEW e, e = [fd |-> f, events |-> IF Broken(f) THEN "ERR" ELSE armed[f]]
                 PROVE  /\ e \in [fd : Peers \cup {Serverfd}, events : {"ERR", "IN", "OUT"}]
                        /\ armed[e.fd] # "no"
                        /\ e.events = IF Broken(e.fd) THEN "ERR" ELSE armed[e.fd]
    BY <1>1, <2>1 DEF Reported, Has
  <2>3. armed[f] \in {"IN", "OUT"}
    BY <2>2 DEF EpInv, EpTypeOK
  <2>4. QED
    BY <2>2, <2>3
<1>3. EpTypeOK'
  BY <1>1, <1>2 DEF EpInv, EpTypeOK
<1>4. EventsInv'
  <2>1. \A e \in events' : e.events = "ERR" => e.fd \in Peers
    <3>1. SUFFICES ASSUME NEW e \in events', e.events = "ERR" PROVE e.fd \in Peers
      OBVIOUS
    <3>2. armed[e.fd] # "ERR" /\ e.fd \in Peers \cup {Serverfd}
      BY <1>2 DEF EpInv, EpTypeOK
    <3>3. Broken(e.fd)
      BY <1>2, <3>1, <3>2
    <3>4. QED
      BY <3>2, <3>3 DEF Broken
  <2>2. \A e, d \in events' : e.fd = d.fd => e = d
    <3>1. SUFFICES ASSUME NEW e \in events', NEW d \in events', e.fd = d.fd PROVE e = d
      OBVIOUS
    <3>2. e.events = d.events
      BY <1>2, <3>1
    <3>3. QED
      BY <1>2, <3>1, <3>2
  <2>3. QED
    BY <1>1, <1>2, <2>1, <2>2 DEF EpInv, EventsInv
<1>5. WaitingInv' /\ ExampleInv'
  BY <1>1 DEF EpInv, WaitingInv, ExampleInv
<1>6. OutputFaithful'
  BY <1>1, OutputFrame DEF EpInv
<1>7. QED
  BY <1>3, <1>4, <1>5, <1>6 DEF EpInv

\* Nothing but the place of main changes.
LEMMA CallFailsStep ==
    ASSUME EpInv, prog' = prog, ctlVars' = ctlVars, events' = events, waiting' = waiting,
           conn' = conn, dataVars' = dataVars
    PROVE  EpInv'
<1>1. armed' = armed /\ echoEvent' = echoEvent /\ output' = output /\ stale' = stale /\ short' = short
  BY DEF ctlVars, dataVars
<1>2. EpTypeOK' /\ WaitingInv' /\ EventsInv' /\ ExampleInv'
  BY <1>1 DEF EpInv, EpTypeOK, WaitingInv, EventsInv, ExampleInv
<1>3. OutputFaithful'
  BY <1>1, OutputFrame DEF EpInv
<1>4. QED
  BY <1>2, <1>3 DEF EpInv

\* A descriptor that is closed is not spoken of any more.
LEMMA HandleErrorStep == ASSUME EpInv, NEW e \in events, HandleError(e) PROVE EpInv'
<1> DEFINE c == e.fd
<1>1. /\ prog' = prog /\ waiting' = waiting /\ events' = events \ {e}
      /\ echoEvent' = echoEvent /\ output' = output /\ stale' = stale
      /\ short' = short
      /\ conn' = [conn EXCEPT ![c].state = "closed"] /\ armed' = [armed EXCEPT ![c] = "no"]
  BY DEF HandleError, CloseFd, Handled, dataVars
<1>2. c \in Peers
  BY DEF HandleError, EpInv, EventsInv
<1>3. /\ armed'[c] = "no"
      /\ \A f \in Peers \cup {Serverfd} : f # c => armed'[f] = armed[f]
      /\ conn'[c].state = "closed"
      /\ \A d \in Peers \ {c} : conn'[d] = conn[d]
  BY <1>1, <1>2 DEF EpInv, EpTypeOK, Connection
<1>4. EpTypeOK'
  <2>1. conn' \in [Peers -> Connection]
    BY <1>1, <1>2, ConnectionUpdate DEF EpInv, EpTypeOK
  <2>2. QED
    BY <1>1, <1>2, <2>1 DEF EpInv, EpTypeOK
<1>5. Faithful(c)'
  BY <1>3 DEF Faithful
<1> HIDE DEF c
<1>6. QED
  BY <1>1, <1>2, <1>3, <1>4, <1>5, HandlingFrame DEF c

\* Both programs accept the connection that waits first; it has no event yet.
LEMMA AcceptFirstStep ==
    ASSUME EpInv, NEW e \in events, AcceptFirst, prog' = prog, dataVars' = dataVars,
           events' \subseteq events
    PROVE  EpInv'
<1>0. PICK c \in Peers : c = Head(waiting)
  BY DEF AcceptFirst, EpInv, EpTypeOK
<1>1. /\ waiting # <<>> /\ waiting' = Tail(waiting)
      /\ conn' = [conn EXCEPT ![c].state = "open"] /\ armed' = [armed EXCEPT ![c] = "IN"]
      /\ echoEvent' = echoEvent /\ output' = output /\ stale' = stale
      /\ short' = short
  BY <1>0 DEF AcceptFirst, dataVars
<1>2. waiting \in Seq(Peers)
  BY DEF EpInv, EpTypeOK
<1>3. /\ c = waiting[1] /\ 1 \in DOMAIN waiting
      /\ waiting' \in Seq(Peers) /\ DOMAIN waiting' = 1 .. Len(waiting) - 1
      /\ DOMAIN waiting = 1 .. Len(waiting) /\ Len(waiting) \in Nat \ {0}
      /\ \A i \in DOMAIN waiting' : waiting'[i] = waiting[i + 1]
  BY <1>0, <1>1, <1>2
<1>4. conn[c].state = "queued" /\ armed[c] = "no"
  BY <1>3 DEF EpInv, WaitingInv
<1>5. /\ armed'[c] = "IN"
      /\ \A f \in Peers \cup {Serverfd} : f # c => armed'[f] = armed[f]
      /\ conn'[c].state = "open" /\ conn'[c].unread = conn[c].unread /\ conn'[c].sent = conn[c].sent
      /\ \A d \in Peers \ {c} : conn'[d] = conn[d]
  BY <1>1, <1>3 DEF EpInv, EpTypeOK, Connection
<1>6. EpTypeOK'
  <2>1. conn' \in [Peers -> Connection]
    BY <1>1, ConnectionUpdate DEF EpInv, EpTypeOK
  <2>2. QED
    BY <1>1, <1>3, <2>1 DEF EpInv, EpTypeOK
<1>7. WaitingInv'
  <2>1. \A i \in DOMAIN waiting' : i + 1 \in DOMAIN waiting /\ i + 1 # 1 /\ waiting'[i] = waiting[i + 1]
    BY <1>3
  <2>2. \A i \in DOMAIN waiting' : waiting'[i] \in Peers \ {c}
    BY <1>3, <2>1 DEF EpInv, WaitingInv
  <2>3. \A i \in DOMAIN waiting' : conn[waiting'[i]].state = "queued"
    BY <2>1 DEF EpInv, WaitingInv
  <2>4. \A i \in DOMAIN waiting' : conn'[waiting'[i]].state = "queued"
    BY <1>5, <2>2, <2>3
  <2>5. \A i, j \in DOMAIN waiting' : waiting'[i] = waiting'[j] => i = j
    <3>1. SUFFICES ASSUME NEW i \in DOMAIN waiting', NEW j \in DOMAIN waiting',
                          waiting'[i] = waiting'[j]
                   PROVE  i = j
      OBVIOUS
    <3>2. i + 1 = j + 1
      BY <2>1, <3>1 DEF EpInv, WaitingInv
    <3>3. QED
      BY <1>3, <3>2
  <2>6. \A d \in Peers : conn'[d].state \in {"new", "queued"} => armed'[d] = "no"
    BY <1>5 DEF EpInv, WaitingInv
  <2>7. QED
    BY <2>4, <2>5, <2>6 DEF WaitingInv
<1>8. EventsInv'
  <2>1. \A d \in events : d.fd \in Peers \cup {Serverfd} /\ d.fd # c
    BY <1>4 DEF EpInv, EventsInv, EpTypeOK
  <2>2. Serverfd # c
    BY <1>3
  <2>3. QED
    BY <1>5, <2>1, <2>2, EventsFrame DEF EpInv
<1>9. ExampleInv'
  BY <1>5 DEF EpInv, ExampleInv
<1>10. OutputFaithful'
  <2>1. c \notin stale' => Faithful(c)'
    <3>1. c \notin stale => Faithful(c)
      BY <1>3, FaithfulEach DEF EpInv
    <3>2. InTransit(c)' = <<>> /\ InTransit(c) = <<>>
      BY <1>4, <1>5 DEF InTransit
    <3>3. QED
      BY <1>1, <1>4, <1>5, <3>1, <3>2 DEF Faithful
  <2>2. \A d \in Peers : d \in {c} /\ d \notin stale' => Faithful(d)'
    BY <2>1 DEF Faithful, InTransit
  <2>3. \A d \in Peers \ {c} : /\ conn'[d] = conn[d] /\ output'[d] = output[d]
                               /\ echoEvent'[d] = echoEvent[d] /\ armed'[d] = armed[d]
    BY <1>1, <1>5
  <2> DEFINE X == {c}
  <2> HIDE DEF X
  <2>4. QED
    BY <1>1, <2>2, <2>3, OutputFrame DEF EpInv, X
<1>11. QED
  BY <1>6, <1>7, <1>8, <1>9, <1>10 DEF EpInv

\* What a read of connection c takes from it, of either program.
LEMMA ReadTakes ==
    ASSUME EpInv, NEW c \in Peers
    PROVE  LET u == conn[c].unread
               n == Min({MAXLEN, Len(u)})
           IN /\ u \in Seq(Nat) /\ n \in 0 .. Len(u) /\ n <= MAXLEN
              /\ SubSeq(u, 1, n) \in Seq(Nat) /\ SubSeq(u, n + 1, Len(u)) \in Seq(Nat)
              /\ Len(SubSeq(u, 1, n)) = n /\ \A i \in 1 .. n : SubSeq(u, 1, n)[i] = u[i]
              /\ SubSeq(u, 1, n) \o SubSeq(u, n + 1, Len(u)) = u
<1> DEFINE u == conn[c].unread
           n == Min({MAXLEN, Len(u)})
<1>1. u \in Seq(Nat)
  BY DEF EpInv, EpTypeOK, Connection
<1> HIDE DEF u
<1>2. Len(u) \in Nat
  BY <1>1
<1>3. n \in 0 .. Len(u) /\ n <= MAXLEN
  BY <1>2, ReadLength
<1> HIDE DEF n
<1>4. /\ SubSeq(u, 1, n) \in Seq(Nat) /\ SubSeq(u, n + 1, Len(u)) \in Seq(Nat)
      /\ Len(SubSeq(u, 1, n)) = n /\ \A i \in 1 .. n : SubSeq(u, 1, n)[i] = u[i]
      /\ SubSeq(u, 1, n) \o SubSeq(u, n + 1, Len(u)) = u
  BY <1>1, <1>3, TakeRest
<1>5. QED
  BY <1>1, <1>3, <1>4 DEF u, n

\* epoll-example.c: what is read is put out, up to what a short write takes.
LEMMA HandleReadStep == ASSUME EpInv, NEW e \in events, HandleRead(e) PROVE EpInv'
<1> DEFINE c == e.fd
           u == conn[c].unread
           n == Min({MAXLEN, Len(u)})
<1>1. /\ prog = "example" /\ prog' = prog /\ waiting' = waiting /\ echoEvent' = echoEvent
      /\ stale' = stale
  BY DEF HandleRead
<1>2. c \in Peers
  BY DEF HandleRead, EpInv, EpTypeOK
<1>3. armed[c] # "OUT" /\ InTransit(c) = <<>>
  BY <1>1, <1>2 DEF EpInv, ExampleInv, InTransit
<1>4. /\ u \in Seq(Nat) /\ n \in 0 .. Len(u) /\ output[c] \in Seq(Nat)
      /\ SubSeq(u, 1, n) \in Seq(Nat) /\ SubSeq(u, n + 1, Len(u)) \in Seq(Nat)
      /\ Len(SubSeq(u, 1, n)) = n /\ \A i \in 1 .. n : SubSeq(u, 1, n)[i] = u[i]
      /\ SubSeq(u, 1, n) \o SubSeq(u, n + 1, Len(u)) = u
  BY <1>2, ReadTakes DEF EpInv, EpTypeOK
<1>5. c \notin stale => Faithful(c)
  BY <1>2, FaithfulEach DEF EpInv
<1>6. ASSUME NEW k \in 1 .. n,
             output' = [output EXCEPT ![c] = @ \o [i \in 1 .. n |-> IF i <= k THEN u[i] ELSE 0]],
             short' = IF k < n THEN short \cup {c} ELSE short,
             conn' = [conn EXCEPT ![c].unread = SubSeq(u, n + 1, Len(u))],
             armed' = armed, events' = events
      PROVE  EpInv'
  <2> DEFINE a == SubSeq(u, 1, n)
             w == [i \in 1 .. n |-> IF i <= k THEN u[i] ELSE 0]
             b == SubSeq(u, n + 1, Len(u))
             o == output[c]
  <2>1. a \in Seq(Nat) /\ b \in Seq(Nat) /\ o \in Seq(Nat) /\ a \o b = u
    BY <1>4
  <2>1a. n \in Nat /\ k \in 1 .. n /\ Len(a) = n /\ \A i \in 1 .. n : a[i] = u[i] /\ u[i] \in Nat
    <3>1. /\ u \in Seq(Nat) /\ n \in 0 .. Len(u)
          /\ k \in 1 .. n /\ Len(a) = n /\ \A i \in 1 .. n : a[i] = u[i]
      BY <1>4, <1>6
    <3> HIDE DEF n, u, a
    <3>2. Len(u) \in Nat /\ \A i \in 1 .. Len(u) : u[i] \in Nat
      BY <3>1
    <3>3. QED
      BY <3>1, <3>2
  <2>1b. /\ w \in Seq(Nat) /\ Len(w) = Len(a) /\ short \subseteq short'
         /\ \A i \in 1 .. Len(a) : w[i] = a[i] \/ (w[i] = 0 /\ c \in short')
    <3>1. short' = IF k < n THEN short \cup {c} ELSE short
      BY <1>6
    <3> HIDE DEF a, n, u, c
    <3>2. w \in Seq(Nat) /\ Len(w) = n /\ \A i \in 1 .. n : w[i] = IF i <= k THEN a[i] ELSE 0
      BY <2>1a
    <3>3. short \subseteq short' /\ \A i \in 1 .. n : i <= k \/ c \in short'
      BY <2>1a, <3>1
    <3> HIDE DEF w
    <3>4. QED
      BY <2>1a, <3>2, <3>3
  <2>2. output' = [output EXCEPT ![c] = o \o w] /\ conn' = [conn EXCEPT ![c].unread = b]
    BY <1>6
  <2>3. /\ conn[c].sent \in Nat
        /\ c \notin stale => (conn[c].state # "closed" =>
              Placed((o \o <<>>) \o u, conn[c].sent, c, short))
    BY <1>2, <1>3, <1>5 DEF Faithful, EpInv, EpTypeOK, Connection
  <2> HIDE DEF a, b, o, u, n, c, w
  <2>4. o \o w \in Seq(Nat) /\ ((o \o w) \o <<>>) \o b = o \o (w \o b) /\ o \o <<>> = o
    <3>1. w \in Seq(Nat) /\ b \in Seq(Nat) /\ o \in Seq(Nat)
      BY <2>1, <2>1b
    <3>2. o \o w \in Seq(Nat)
      BY <3>1, ConcatProperties
    <3>3. ((o \o w) \o <<>>) \o b = o \o (w \o b)
      BY <3>1, Regroup
    <3>4. o \o <<>> = o
      BY <3>1, ConcatEmptySeq
    <3>5. QED
      BY <3>2, <3>3, <3>4
  <2>5. EpTypeOK'
    <3>1. conn' \in [Peers -> Connection]
      BY <1>2, <2>1, <2>2, ConnectionUpdate DEF EpInv, EpTypeOK
    <3>2. output' \in [Peers -> Seq(Nat)]
      BY <1>2, <2>2, <2>4 DEF EpInv, EpTypeOK
    <3>3. QED
      BY <1>1, <1>6, <3>1, <3>2 DEF EpInv, EpTypeOK
  <2>6. /\ output'[c] = o \o w /\ \A d \in Peers \ {c} : output'[d] = output[d]
        /\ conn'[c].unread = b /\ conn'[c].state = conn[c].state /\ conn'[c].sent = conn[c].sent
        /\ \A d \in Peers \ {c} : conn'[d] = conn[d]
    BY <1>2, <2>2 DEF EpInv, EpTypeOK, Connection
  <2>7. InTransit(c)' = <<>>
    BY <1>3, <1>6 DEF InTransit, c
  <2>8. c \notin stale' => Faithful(c)'
    <3>1. SUFFICES ASSUME c \notin stale, conn[c].state # "closed"
                   PROVE  Placed(((o \o w) \o <<>>) \o b, conn[c].sent, c, short')
      BY <1>1, <2>6, <2>7 DEF Faithful, c
    <3>2. Placed(o \o (a \o b), conn[c].sent, c, short)
      BY <2>1, <2>3, <2>4, <3>1
    <3>3. Placed(o \o (w \o b), conn[c].sent, c, short')
      BY <2>1, <2>1b, <2>3, <3>2, Dropped
    <3>4. QED
      BY <2>4, <3>3
  <2>9. QED
    BY <1>1, <1>2, <1>6, <2>1b, <2>5, <2>6, <2>8, HandlingFrame DEF c
<1>7. CASE /\ events' = events \ {e} /\ armed' = armed /\ conn' = conn /\ output' = output
           /\ short' = short
  <2>1. EpTypeOK'
    BY <1>1, <1>7 DEF EpInv, EpTypeOK
  <2>2. c \notin stale' => Faithful(c)'
    BY <1>1, <1>5, <1>7 DEF Faithful, InTransit
  <2> HIDE DEF c
  <2>3. QED
    BY <1>1, <1>2, <1>7, <2>1, <2>2, HandlingFrame DEF c
<1>8. CASE events' = events \ {e} /\ CloseFd(c) /\ output' = output /\ short' = short
  <2>1. conn' = [conn EXCEPT ![c].state = "closed"] /\ armed' = [armed EXCEPT ![c] = "no"]
    BY <1>8 DEF CloseFd
  <2>2. /\ armed'[c] = "no"
        /\ \A f \in Peers \cup {Serverfd} : f # c => armed'[f] = armed[f]
        /\ conn'[c].state = "closed"
        /\ \A d \in Peers \ {c} : conn'[d] = conn[d]
    BY <1>2, <2>1 DEF EpInv, EpTypeOK, Connection
  <2>3. EpTypeOK'
    <3>1. conn' \in [Peers -> Connection]
      BY <1>2, <2>1, ConnectionUpdate DEF EpInv, EpTypeOK
    <3>2. QED
      BY <1>1, <1>8, <2>1, <3>1 DEF EpInv, EpTypeOK
  <2>4. Faithful(c)'
    BY <2>2 DEF Faithful
  <2> HIDE DEF c
  <2>5. QED
    BY <1>1, <1>2, <1>8, <2>2, <2>3, <2>4, HandlingFrame DEF c
<1>9. QED
  BY <1>6, <1>7, <1>8 DEF HandleRead, Handled

\* echo.c: what is read into data is what the next write sends, if offset is 0.
LEMMA EchoReadStep == ASSUME EpInv, NEW e \in events, EchoRead(e) PROVE EpInv'
<1> DEFINE c == e.fd
           u == conn[c].unread
           n == Min({MAXLEN, Len(u)})
<1>1. /\ prog = "echo" /\ prog' = prog /\ waiting' = waiting /\ output' = output
      /\ events' = events \ {e} /\ short' = short
  BY DEF EchoRead, Handled
<1>2. c \in Peers /\ armed[c] = "IN"
  BY DEF EchoRead, EpInv, EpTypeOK, EventsInv
<1>3. InTransit(c) = <<>>
  BY <1>2 DEF InTransit
<1>4. /\ u \in Seq(Nat) /\ n \in 0 .. Len(u) /\ n <= MAXLEN /\ output[c] \in Seq(Nat)
      /\ SubSeq(u, 1, n) \in Seq(Nat) /\ SubSeq(u, n + 1, Len(u)) \in Seq(Nat)
      /\ Len(SubSeq(u, 1, n)) = n /\ \A i \in 1 .. n : SubSeq(u, 1, n)[i] = u[i]
      /\ SubSeq(u, 1, n) \o SubSeq(u, n + 1, Len(u)) = u
  BY <1>2, ReadTakes DEF EpInv, EpTypeOK
<1>5. c \notin stale => Faithful(c)
  BY <1>2, FaithfulEach DEF EpInv
<1>6. CASE /\ conn' = [conn EXCEPT ![c].unread = SubSeq(u, n + 1, Len(u))]
           /\ echoEvent' = [echoEvent EXCEPT
                ![c].data = [i \in 1 .. MAXLEN |-> IF i <= n THEN u[i] ELSE @[i]],
                ![c].length = n]
           /\ stale' = IF echoEvent[c].offset # 0 THEN stale \cup {c} ELSE stale
           /\ armed' = [armed EXCEPT ![c] = "OUT"]
  <2> DEFINE a == SubSeq(u, 1, n)
             b == SubSeq(u, n + 1, Len(u))
             o == output[c]
             old == echoEvent[c]
             bytes == [i \in 1 .. MAXLEN |-> IF i <= n THEN u[i] ELSE old.data[i]]
  <2>1. /\ a \in Seq(Nat) /\ b \in Seq(Nat) /\ o \in Seq(Nat) /\ a \o b = u
        /\ Len(a) = n /\ n \in Nat /\ n <= MAXLEN /\ n <= Len(u) /\ u \in Seq(Nat)
        /\ \A i \in 1 .. n : a[i] = u[i]
    <3>1. /\ a \in Seq(Nat) /\ b \in Seq(Nat) /\ o \in Seq(Nat) /\ a \o b = u /\ Len(a) = n
          /\ u \in Seq(Nat) /\ n \in 0 .. Len(u) /\ n <= MAXLEN /\ \A i \in 1 .. n : a[i] = u[i]
      BY <1>4
    <3> HIDE DEF a, b, o, u, n
    <3>2. n \in Nat /\ n <= Len(u)
      BY <3>1
    <3>3. QED
      BY <3>1, <3>2
  <2>2. old \in EchoRecord /\ echoEvent \in [Peers -> EchoRecord]
    BY <1>2 DEF EpInv, EpTypeOK
  <2>3. /\ echoEvent' = [echoEvent EXCEPT ![c].data = bytes, ![c].length = n]
        /\ conn' = [conn EXCEPT ![c].unread = b]
    BY <1>6
  <2>4. c \notin stale => (conn[c].state # "closed" =>
           Placed((o \o <<>>) \o u, conn[c].sent, c, short))
    BY <1>3, <1>5 DEF Faithful
  <2>5. bytes \in [1 .. MAXLEN -> Nat] /\ \A i \in 1 .. n : bytes[i] = a[i]
    <3> HIDE DEF a, n, u, old, c
    <3>1. old.data \in [1 .. MAXLEN -> Nat]
      BY <2>2 DEF EchoRecord
    <3>2. \A i \in 1 .. n : u[i] \in Nat
      BY <2>1, SMTT(30)
    <3>3. \A i \in 1 .. MAXLEN : (IF i <= n THEN u[i] ELSE old.data[i]) \in Nat
      <4>1. SUFFICES ASSUME NEW i \in 1 .. MAXLEN
                     PROVE  (IF i <= n THEN u[i] ELSE old.data[i]) \in Nat
        OBVIOUS
      <4>2. old.data[i] \in Nat
        BY <3>1
      <4>3. i <= n => u[i] \in Nat
        BY <2>1, <3>2, SMTT(30)
      <4>4. QED
        BY <4>2, <4>3
    <3>4. bytes \in [1 .. MAXLEN -> Nat]
      BY <3>3
    <3>5. \A i \in 1 .. n : i \in 1 .. MAXLEN /\ i <= n
      BY <2>1
    <3>6. \A i \in 1 .. n : bytes[i] = u[i]
      BY <3>5
    <3>7. QED
      BY <2>1, <3>4, <3>6
  <2> HIDE DEF a, b, o, u, n, c, old, bytes
  <2>5a. a \in Seq(Nat) /\ b \in Seq(Nat) /\ o \in Seq(Nat)
    BY <2>1
  <2>6. /\ echoEvent' \in [Peers -> EchoRecord]
        /\ echoEvent'[c].data = bytes /\ echoEvent'[c].length = n
        /\ echoEvent'[c].offset = old.offset
        /\ \A d \in Peers \ {c} : echoEvent'[d] = echoEvent[d]
    <3> DEFINE D == [1 .. MAXLEN -> Nat]
    <3>1. echoEvent \in [Peers -> [data : D, length : Nat, offset : Nat]] /\ bytes \in D
      BY <2>2, <2>5 DEF EchoRecord
    <3> HIDE DEF D
    <3>2. /\ echoEvent' \in [Peers -> [data : D, length : Nat, offset : Nat]]
          /\ echoEvent'[c].data = bytes /\ echoEvent'[c].length = n
          /\ echoEvent'[c].offset = echoEvent[c].offset
          /\ \A d \in Peers \ {c} : echoEvent'[d] = echoEvent[d]
      BY <1>2, <2>1, <2>3, <3>1
    <3>3. QED
      BY <3>2 DEF D, EchoRecord, old
  <2>7. /\ conn'[c].unread = b /\ conn'[c].state = conn[c].state /\ conn'[c].sent = conn[c].sent
        /\ \A d \in Peers \ {c} : conn'[d] = conn[d]
        /\ armed'[c] = "OUT"
        /\ \A f \in Peers \cup {Serverfd} : f # c => armed'[f] = armed[f]
        /\ stale \subseteq stale'
    BY <1>2, <1>6, <2>3 DEF EpInv, EpTypeOK, Connection
  <2>8. EpTypeOK'
    <3>1. conn' \in [Peers -> Connection]
      BY <1>2, <2>1, <2>3, ConnectionUpdate DEF EpInv, EpTypeOK
    <3>2. armed' \in [Peers \cup {Serverfd} -> {"no", "IN", "OUT"}] /\ stale' \subseteq Peers
      BY <1>2, <1>6 DEF EpInv, EpTypeOK
    <3>3. QED
      BY <1>1, <2>6, <3>1, <3>2 DEF EpInv, EpTypeOK
  <2>9. c \notin stale' => c \notin stale /\ old.offset = 0
    BY <1>6 DEF old
  <2>10. old.offset = 0 => InTransit(c)' = a
    <3>1. SUFFICES ASSUME old.offset = 0 PROVE InTransit(c)' = a
      OBVIOUS
    <3>2. InTransit(c)' = ToWrite(echoEvent'[c], n)
      BY <2>6, <2>7 DEF InTransit, c
    <3>3. ToWrite(echoEvent'[c], n) = [i \in 1 .. n |-> bytes[i]]
      BY <2>1, <2>6, <3>1 DEF ToWrite
    <3>4. [i \in 1 .. n |-> bytes[i]] = a
      <4> DEFINE w == [i \in 1 .. n |-> bytes[i]]
      <4>1. \A i \in 1 .. n : bytes[i] \in Nat /\ bytes[i] = a[i]
        BY <2>1, <2>5
      <4>2. w \in Seq(Nat) /\ Len(w) = n /\ \A i \in 1 .. n : w[i] = a[i]
        BY <2>1, <4>1
      <4> HIDE DEF w
      <4>3. w = a
        BY <2>1, <4>2, SeqEqual
      <4>4. QED
        BY <4>3 DEF w
    <3>5. QED
      BY <3>2, <3>3, <3>4
  <2>11. c \notin stale' => Faithful(c)'
    <3>1. SUFFICES ASSUME c \notin stale, old.offset = 0, conn[c].state # "closed"
                   PROVE  Placed((o \o a) \o b, conn[c].sent, c, short)
      <4>1. output'[c] = o
        BY <1>1 DEF o
      <4>2. QED
        BY <1>1, <2>7, <2>9, <2>10, <4>1 DEF Faithful, c
    <3>2. (o \o a) \o b = o \o (a \o b) /\ o \o <<>> = o
      BY <2>5a, Regroup
    <3>3. QED
      BY <2>1, <2>4, <3>1, <3>2
  <2>12. QED
    BY <1>1, <1>2, <2>6, <2>7, <2>8, <2>11, HandlingFrame DEF c
<1>7. CASE CloseFd(c) /\ echoEvent' = echoEvent /\ stale' = stale
  <2>1. conn' = [conn EXCEPT ![c].state = "closed"] /\ armed' = [armed EXCEPT ![c] = "no"]
    BY <1>7 DEF CloseFd
  <2>2. /\ armed'[c] = "no"
        /\ \A f \in Peers \cup {Serverfd} : f # c => armed'[f] = armed[f]
        /\ conn'[c].state = "closed"
        /\ \A d \in Peers \ {c} : conn'[d] = conn[d]
    BY <1>2, <2>1 DEF EpInv, EpTypeOK, Connection
  <2>3. EpTypeOK'
    <3>1. conn' \in [Peers -> Connection]
      BY <1>2, <2>1, ConnectionUpdate DEF EpInv, EpTypeOK
    <3>2. QED
      BY <1>1, <1>7, <2>1, <3>1 DEF EpInv, EpTypeOK
  <2>4. Faithful(c)'
    BY <2>2 DEF Faithful
  <2> HIDE DEF c
  <2>5. QED
    BY <1>1, <1>2, <1>7, <2>2, <2>3, <2>4, HandlingFrame DEF c
<1>8. QED
  BY <1>6, <1>7 DEF EchoRead

\* echo.c: a write moves bytes from data to the client and leaves the rest in order.
LEMMA EchoWriteStep == ASSUME EpInv, NEW e \in events, EchoWrite(e) PROVE EpInv'
<1> DEFINE c == e.fd
           ev == echoEvent[c]
           o == output[c]
           u == conn[c].unread
<1>1. /\ prog = "echo" /\ prog' = prog /\ waiting' = waiting /\ conn' = conn
      /\ stale' = stale /\ short' = short /\ events' = events \ {e}
  BY DEF EchoWrite, Handled
<1>2. c \in Peers /\ armed[c] = "OUT"
  BY DEF EchoWrite, EpInv, EpTypeOK, EventsInv
<1>3. InTransit(c) = ToWrite(ev, ev.length)
  BY <1>2 DEF InTransit
<1>4. /\ ev \in EchoRecord /\ o \in Seq(Nat) /\ u \in Seq(Nat) /\ ev.length \in Nat
  BY <1>2 DEF EpInv, EpTypeOK, Connection, EchoRecord
<1>5. c \notin stale => Faithful(c)
  BY <1>2, FaithfulEach DEF EpInv
<1>6. ASSUME NEW k \in 1 .. ev.length,
             output' = [output EXCEPT ![c] = @ \o ToWrite(ev, k)],
             \/ /\ k < ev.length
                /\ echoEvent' = [echoEvent EXCEPT ![c] = Remaining(ev, k)]
                /\ armed' = [armed EXCEPT ![c] = "OUT"]
             \/ /\ k = ev.length
                /\ echoEvent' = echoEvent
                /\ armed' = [armed EXCEPT ![c] = "IN"]
      PROVE  EpInv'
  <2> DEFINE a == ToWrite(ev, k)
             rem == Remaining(ev, k)
             b == ToWrite(rem, rem.length)
  <2>1. k \in 0 .. ev.length /\ rem.length \in 0 .. rem.length
    <3>1. k \in 0 .. ev.length
      BY <1>4
    <3>2. rem \in [data : [1 .. MAXLEN -> Nat], length : Nat, offset : Nat]
      BY <1>4, <3>1, WriteParts DEF EchoRecord
    <3> HIDE DEF rem
    <3>3. QED
      BY <3>1, <3>2
  <2>2. /\ a \in Seq(Nat) /\ rem \in EchoRecord /\ a \o b = ToWrite(ev, ev.length)
    BY <1>4, <2>1, WriteParts DEF EchoRecord
  <2>3. b \in Seq(Nat)
    <3> HIDE DEF rem
    <3>1. QED
      BY <2>1, <2>2, WriteParts DEF EchoRecord
  <2>4. output' = [output EXCEPT ![c] = o \o a]
    BY <1>6
  <2>5. c \notin stale => (conn[c].state # "closed" =>
           Placed((o \o (a \o b)) \o u, conn[c].sent, c, short))
    BY <1>3, <1>5, <2>2 DEF Faithful
  <2>6. k = ev.length => a = ToWrite(ev, ev.length)
    OBVIOUS
  <2> HIDE DEF a, b, rem, c, ev, o, u
  <2>7. o \o a \in Seq(Nat) /\ (o \o a) \o b = o \o (a \o b) /\ (o \o a) \o <<>> = o \o a
    <3>1. o \o a \in Seq(Nat)
      BY <1>4, <2>2, ConcatProperties
    <3>2. a \in Seq(Nat) /\ b \in Seq(Nat) /\ o \in Seq(Nat)
      BY <1>4, <2>2, <2>3
    <3>3. (o \o a) \o b = o \o (a \o b)
      BY <3>2, Grouping
    <3>4. (o \o a) \o <<>> = o \o a
      BY <3>1, ConcatEmptySeq
    <3>5. QED
      BY <3>1, <3>3, <3>4
  <2>8. /\ output' \in [Peers -> Seq(Nat)]
        /\ output'[c] = o \o a /\ \A d \in Peers \ {c} : output'[d] = output[d]
    BY <1>2, <2>4, <2>7 DEF EpInv, EpTypeOK
  <2>9. /\ echoEvent' \in [Peers -> EchoRecord]
        /\ \A d \in Peers \ {c} : echoEvent'[d] = echoEvent[d]
        /\ armed' \in [Peers \cup {Serverfd} -> {"no", "IN", "OUT"}]
        /\ \A f \in Peers \cup {Serverfd} : f # c => armed'[f] = armed[f]
    <3>1. /\ echoEvent' \in {[echoEvent EXCEPT ![c] = rem], echoEvent}
          /\ armed' \in {[armed EXCEPT ![c] = "OUT"], [armed EXCEPT ![c] = "IN"]}
      BY <1>6 DEF c, rem, ev
    <3>2. echoEvent \in [Peers -> EchoRecord]
      BY DEF EpInv, EpTypeOK
    <3>3. /\ echoEvent' \in [Peers -> EchoRecord]
          /\ \A d \in Peers \ {c} : echoEvent'[d] = echoEvent[d]
      BY <1>2, <2>2, <3>1, <3>2
    <3>4. armed \in [Peers \cup {Serverfd} -> {"no", "IN", "OUT"}]
      BY DEF EpInv, EpTypeOK
    <3>5. QED
      BY <1>2, <3>1, <3>3, <3>4
  <2>10. EpTypeOK'
    BY <1>1, <2>8, <2>9 DEF EpInv, EpTypeOK
  <2>11. output'[c] \o InTransit(c)' = o \o (a \o b)
    <3>1. CASE k < ev.length
      <4>1. echoEvent'[c] = rem /\ armed'[c] = "OUT"
        BY <1>2, <1>4, <1>6, <3>1 DEF EpInv, EpTypeOK, c, rem, ev
      <4>2. InTransit(c)' = b
        BY <4>1 DEF InTransit, b, c
      <4>3. QED
        BY <2>7, <2>8, <4>2
    <3>2. CASE k = ev.length
      <4>1. armed'[c] = "IN"
        BY <1>2, <1>6, <3>2 DEF EpInv, EpTypeOK, c, ev
      <4>2. InTransit(c)' = <<>>
        BY <4>1 DEF InTransit, c
      <4>3. a \o b = a
        BY <2>2, <2>6, <3>2
      <4>4. QED
        BY <2>7, <2>8, <4>2, <4>3
    <3>3. k < ev.length \/ k = ev.length
      BY <1>6 DEF ev, c
    <3>4. QED
      BY <3>1, <3>2, <3>3
  <2>12. c \notin stale' => Faithful(c)'
    BY <1>1, <2>5, <2>11 DEF Faithful, c, u
  <2>13. conn'[c].state = conn[c].state
    BY <1>1
  <2>14. QED
    BY <1>1, <1>2, <2>8, <2>9, <2>10, <2>12, <2>13, HandlingFrame DEF c
<1>7. CASE armed' = armed /\ output' = output /\ echoEvent' = echoEvent
  <2>1. EpTypeOK'
    BY <1>1, <1>7 DEF EpInv, EpTypeOK
  <2>2. c \notin stale' => Faithful(c)'
    BY <1>1, <1>5, <1>7 DEF Faithful, InTransit
  <2> HIDE DEF c
  <2>3. QED
    BY <1>1, <1>2, <1>7, <2>1, <2>2, HandlingFrame DEF c
<1>8. CASE \E k \in 1 .. ev.length :
             /\ output' = [output EXCEPT ![c] = @ \o ToWrite(ev, k)]
             /\ IF k < ev.length
                THEN /\ echoEvent' = [echoEvent EXCEPT ![c] = Remaining(ev, k)]
                     /\ armed' = [armed EXCEPT ![c] = "OUT"]
                ELSE /\ UNCHANGED echoEvent
                     /\ armed' = [armed EXCEPT ![c] = "IN"]
  <2>1. PICK k \in 1 .. ev.length :
             /\ output' = [output EXCEPT ![c] = @ \o ToWrite(ev, k)]
             /\ IF k < ev.length
                THEN /\ echoEvent' = [echoEvent EXCEPT ![c] = Remaining(ev, k)]
                     /\ armed' = [armed EXCEPT ![c] = "OUT"]
                ELSE /\ UNCHANGED echoEvent
                     /\ armed' = [armed EXCEPT ![c] = "IN"]
    BY <1>8
  <2>2. k < ev.length \/ k = ev.length
    BY <1>4
  <2>3. QED
    BY <1>6, <2>1, <2>2
<1>9. QED
  BY <1>7, <1>8 DEF EchoWrite

\* epoll-example.c goes on accepting, echo.c accepts once.
LEMMA AcceptStep ==
    ASSUME EpInv, NEW e \in events, HandleAccept(e) \/ EchoAccept(e)
    PROVE  EpInv'
<1>1. prog' = prog /\ dataVars' = dataVars
  BY DEF HandleAccept, EchoAccept
<1>2. CASE AcceptFirst /\ events' \subseteq events
  BY <1>1, <1>2, AcceptFirstStep
<1>3. CASE /\ ctlVars' = ctlVars /\ waiting' = waiting /\ conn' = conn
           /\ events' = events \ {e}
  <2>1. armed' = armed /\ echoEvent' = echoEvent /\ output' = output /\ stale' = stale /\ short' = short
    BY <1>1, <1>3 DEF ctlVars, dataVars
  <2>2. EpTypeOK' /\ WaitingInv' /\ EventsInv' /\ ExampleInv'
    BY <1>1, <1>3, <2>1 DEF EpInv, EpTypeOK, WaitingInv, EventsInv, ExampleInv
  <2>3. OutputFaithful'
    BY <1>3, <2>1, OutputFrame DEF EpInv
  <2>4. QED
    BY <2>2, <2>3 DEF EpInv
<1>4. CASE ctlVars' = ctlVars /\ events' = events /\ waiting' = waiting /\ conn' = conn
  BY <1>1, <1>4, CallFailsStep
<1>5. QED
  BY <1>2, <1>3, <1>4 DEF HandleAccept, EchoAccept, Handled

----------------------------------------------------------------------------
(* The clients. *)

\* A peer connects.
LEMMA PeerConnectsStep == ASSUME EpInv, NEW c \in Peers, PeerConnects(c) PROVE EpInv'
<1>1. /\ conn[c].state = "new" /\ conn' = [conn EXCEPT ![c].state = "queued"]
      /\ waiting' = Append(waiting, c) /\ prog' = prog /\ armed' = armed /\ events' = events
      /\ echoEvent' = echoEvent /\ output' = output /\ stale' = stale
      /\ short' = short
  BY DEF PeerConnects, dataVars
<1>2. /\ conn'[c].state = "queued" /\ conn'[c].unread = conn[c].unread /\ conn'[c].sent = conn[c].sent
      /\ \A d \in Peers \ {c} : conn'[d] = conn[d]
  BY <1>1 DEF EpInv, EpTypeOK, Connection
<1>3. waiting \in Seq(Peers)
  BY DEF EpInv, EpTypeOK
<1>4. /\ waiting' \in Seq(Peers) /\ Len(waiting') = Len(waiting) + 1
      /\ DOMAIN waiting' = 1 .. Len(waiting) + 1 /\ DOMAIN waiting = 1 .. Len(waiting)
      /\ \A i \in 1 .. Len(waiting) : waiting'[i] = waiting[i]
      /\ waiting'[Len(waiting) + 1] = c /\ Len(waiting) \in Nat
  BY <1>1, <1>3
<1>5. EpTypeOK'
  <2>1. conn' \in [Peers -> Connection]
    BY <1>1, ConnectionUpdate DEF EpInv, EpTypeOK
  <2>2. QED
    BY <1>1, <1>4, <2>1 DEF EpInv, EpTypeOK
<1>6. WaitingInv'
  <2>1. \A i \in 1 .. Len(waiting) : /\ waiting[i] \in Peers \ {c}
                                     /\ conn[waiting[i]].state = "queued"
    BY <1>1, <1>3, <1>4 DEF EpInv, WaitingInv
  <2>2. \A i \in 1 .. Len(waiting) : /\ waiting'[i] # c
                                     /\ conn'[waiting'[i]].state = "queued"
    BY <1>2, <1>4, <2>1
  <2>3. \A i \in DOMAIN waiting' : i \in 1 .. Len(waiting) \/ i = Len(waiting) + 1
    BY <1>4
  <2>4. \A i \in DOMAIN waiting' : conn'[waiting'[i]].state = "queued"
    BY <1>2, <1>4, <2>2, <2>3
  <2>5. \A i, j \in DOMAIN waiting' : waiting'[i] = waiting'[j] => i = j
    <3>1. \A i, j \in 1 .. Len(waiting) : waiting[i] = waiting[j] => i = j
      BY <1>4 DEF EpInv, WaitingInv
    <3>2. QED
      BY <1>4, <2>2, <2>3, <3>1
  <2>6. \A d \in Peers : conn'[d].state \in {"new", "queued"} => armed'[d] = "no"
    BY <1>1, <1>2 DEF EpInv, WaitingInv
  <2>7. QED
    BY <2>4, <2>5, <2>6 DEF WaitingInv
<1>7. EventsInv' /\ ExampleInv'
  BY <1>1 DEF EpInv, EventsInv, ExampleInv
<1>8. OutputFaithful'
  <2>1. c \notin stale => Faithful(c)
    BY FaithfulEach DEF EpInv
  <2>2. InTransit(c)' = InTransit(c)
    BY <1>1 DEF InTransit
  <2>3. c \notin stale' => Faithful(c)'
    BY <1>1, <1>2, <2>1, <2>2 DEF Faithful
  <2>4. \A d \in Peers : d \in {c} /\ d \notin stale' => Faithful(d)'
    BY <2>3 DEF Faithful, InTransit
  <2> DEFINE X == {c}
  <2>5. \A d \in Peers \ X : /\ conn'[d] = conn[d] /\ output'[d] = output[d]
                             /\ echoEvent'[d] = echoEvent[d] /\ armed'[d] = armed[d]
    BY <1>1, <1>2
  <2> HIDE DEF X
  <2>6. QED
    BY <1>1, <2>4, <2>5, OutputFrame DEF EpInv, X
<1>9. QED
  BY <1>5, <1>6, <1>7, <1>8 DEF EpInv

\* A peer sends a byte or ends the connection.
LEMMA PeerActsStep == ASSUME EpInv, NEW c \in Peers, PeerActs(c) PROVE EpInv'
<1> DEFINE u == conn[c].unread
           n == conn[c].sent
<1>1. /\ prog' = prog /\ armed' = armed /\ events' = events /\ waiting' = waiting
      /\ echoEvent' = echoEvent /\ output' = output /\ stale' = stale
      /\ short' = short
      /\ conn[c].state \in {"queued", "open"}
      /\ \/ conn' = [conn EXCEPT ![c].sent = n + 1, ![c].unread = Append(u, n + 1)]
         \/ \E e \in {"fin", "rst"} : conn' = [conn EXCEPT ![c].end = e]
  BY DEF PeerActs, dataVars
<1>2. u \in Seq(Nat) /\ n \in Nat /\ output[c] \in Seq(Nat) /\ echoEvent[c] \in EchoRecord
  BY DEF EpInv, EpTypeOK, Connection
<1>3. n + 1 \in Nat /\ Append(u, n + 1) \in Seq(Nat)
  <2> HIDE DEF u, n
  <2>1. n + 1 \in Nat
    BY <1>2
  <2>2. QED
    BY <1>2, <2>1, AppendProperties
<1>4. conn' \in [Peers -> Connection]
  <2> DEFINE m == n + 1
             w == Append(u, n + 1)
  <2>1. conn \in [Peers -> Connection] /\ m \in Nat /\ w \in Seq(Nat)
    BY <1>3 DEF EpInv, EpTypeOK
  <2>2. \/ conn' = [conn EXCEPT ![c].sent = m, ![c].unread = w]
        \/ \E e \in {"none", "fin", "rst"} : conn' = [conn EXCEPT ![c].end = e]
    BY <1>1
  <2> HIDE DEF m, w
  <2>3. CASE conn' = [conn EXCEPT ![c].sent = m, ![c].unread = w]
    <3>1. [conn EXCEPT ![c].sent = m, ![c].unread = w] \in [Peers -> Connection]
      BY <2>1, ConnectionUpdate
    <3>2. QED
      BY <2>3, <3>1
  <2>4. CASE \E e \in {"none", "fin", "rst"} : conn' = [conn EXCEPT ![c].end = e]
    <3>1. PICK e \in {"none", "fin", "rst"} : conn' = [conn EXCEPT ![c].end = e]
      BY <2>4
    <3>2. [conn EXCEPT ![c].end = e] \in [Peers -> Connection]
      BY <2>1, ConnectionUpdate
    <3>3. QED
      BY <3>1, <3>2
  <2>5. QED
    BY <2>2, <2>3, <2>4
<1>5. /\ conn'[c].state = conn[c].state
      /\ \/ conn'[c].sent = n + 1 /\ conn'[c].unread = Append(u, n + 1)
         \/ conn'[c].sent = n /\ conn'[c].unread = u
      /\ \A d \in Peers \ {c} : conn'[d] = conn[d]
  BY <1>1 DEF EpInv, EpTypeOK, Connection
<1>6. EpTypeOK'
  BY <1>1, <1>4 DEF EpInv, EpTypeOK
<1>7. WaitingInv'
  BY <1>1, <1>5, WaitingFrame DEF EpInv, EpTypeOK
<1>8. EventsInv' /\ ExampleInv'
  BY <1>1 DEF EpInv, EventsInv, ExampleInv
<1>9. OutputFaithful'
  <2> DEFINE x == output[c] \o InTransit(c)
  <2>1. c \notin stale => Placed(x \o u, n, c, short)
    BY <1>1, FaithfulEach DEF EpInv, Faithful
  <2>2. InTransit(c)' = InTransit(c) /\ InTransit(c) \in Seq(Nat)
    <3>1. InTransit(c)' = InTransit(c)
      BY <1>1 DEF InTransit
    <3>2. <<>> \in Seq(Nat)
      OBVIOUS
    <3>3. ToWrite(echoEvent[c], echoEvent[c].length) \in Seq(Nat)
      <4> DEFINE ev == echoEvent[c]
                 k == ev.length
      <4>1. ev \in EchoRecord /\ k \in Nat
        BY <1>2 DEF EchoRecord
      <4>2. k \in 0 .. ev.length
        BY <4>1
      <4> HIDE DEF ev, k
      <4>3. ToWrite(ev, k) \in Seq(Nat)
        BY <4>1, <4>2, WriteParts DEF EchoRecord
      <4>4. QED
        BY <4>3 DEF ev, k
    <3>4. QED
      BY <3>1, <3>2, <3>3 DEF InTransit
  <2>3. x \in Seq(Nat)
    BY <1>2, <2>2, ConcatProperties
  <2> HIDE DEF x, u, n
  <2>4. c \notin stale => Placed(x \o Append(u, n + 1), n + 1, c, short)
    BY <1>2, <2>1, <2>3, OneMore
  <2>5. c \notin stale' => Faithful(c)'
    <3>1. output'[c] \o InTransit(c)' = x
      BY <1>1, <2>2 DEF x
    <3>2. QED
      BY <1>1, <1>5, <2>1, <2>4, <3>1 DEF Faithful
  <2>6. \A d \in Peers : d \in {c} /\ d \notin stale' => Faithful(d)'
    BY <2>5 DEF Faithful, InTransit
  <2> DEFINE X == {c}
  <2>7. \A d \in Peers \ X : /\ conn'[d] = conn[d] /\ output'[d] = output[d]
                             /\ echoEvent'[d] = echoEvent[d] /\ armed'[d] = armed[d]
    BY <1>1, <1>5
  <2> HIDE DEF X
  <2>8. QED
    BY <1>1, <2>6, <2>7, OutputFrame DEF EpInv, X
<1>10. QED
  BY <1>6, <1>7, <1>8, <1>9 DEF EpInv

----------------------------------------------------------------------------
(* The invariant holds of both programs (epoll-example.c and echo.c), in   *)
(* every order of their events and whatever their clients do.              *)
THEOREM EpInvariance == EpSpec => []EpInv
<1>1. EpInit("setup", {"example", "echo"}) => EpInv
  BY InitStep
<1>2. EpInv /\ [EpNext]_epVars => EpInv'
  <2>1. SUFFICES ASSUME EpInv, [EpNext]_epVars PROVE EpInv'
    OBVIOUS
  <2>2. CASE \E ok \in BOOLEAN : SetsUp(ok)
    BY <2>1, <2>2, SetsUpStep
  <2>3. CASE EpollWait
    BY <2>1, <2>3, EpollWaitStep
  <2>4. CASE CallFails
    BY <2>1, <2>4, CallFailsStep DEF CallFails
  <2>5. CASE epVars' = epVars
    BY <2>1, <2>5, CallFailsStep DEF epVars
  <2>6. ASSUME NEW e \in events,
               \/ HandleError(e) \/ HandleAccept(e) \/ HandleRead(e)
               \/ EchoAccept(e) \/ EchoRead(e) \/ EchoWrite(e)
        PROVE  EpInv'
    BY <2>1, <2>6, HandleErrorStep, AcceptStep, HandleReadStep, EchoReadStep, EchoWriteStep
  <2>7. ASSUME NEW c \in Peers, PeerConnects(c) \/ PeerActs(c) PROVE EpInv'
    BY <2>1, <2>7, PeerConnectsStep, PeerActsStep
  <2>8. QED
    BY <2>1, <2>2, <2>3, <2>4, <2>5, <2>6, <2>7 DEF EpNext, EpStep
<1>3. QED
  BY <1>1, <1>2, PTL DEF EpSpec

(* No byte is repeated or reordered by epoll-example.c, and the only ones  *)
(* that are lost are those that a short write to standard output leaves    *)
(* out; echo.c loses none until it reads a chunk with an old offset.       *)
THEOREM OutputFaithfulHolds == EpSpec => []OutputFaithful
<1>1. EpInv => OutputFaithful
  BY DEF EpInv
<1>2. QED
  BY <1>1, EpInvariance, PTL
=============================================================================
