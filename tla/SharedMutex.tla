----------------------------- MODULE SharedMutex -----------------------------
(***************************************************************************)
(* The readers-writer lock of afina/materials/09-advanced-synchronization  *)
(* (shared_mutex.{h,cpp}), under the counter of shared_mutex_demo.cpp.     *)
(* state_ is kept as its two fields, the bit write_entered_ and the number *)
(* of readers.  What a thread does with mut_ locked is one step; a wait on *)
(* a gate gives mut_ back, and a thread that is woken tests again.         *)
(***************************************************************************)
EXTENDS Naturals, FiniteSets

CONSTANTS
    Thread,
    MaxReaders, \* n_readers_
    Rounds      \* bound on the calls of all threads, 20 increments and gets in the demo

ASSUME SMAssumption ==
    /\ IsFiniteSet(Thread)
    /\ MaxReaders \in Nat \ {0}
    /\ Rounds \in Nat

VARIABLES
    entered,    \* state_ & write_entered_
    readers,    \* state_ & n_readers_
    pos,        \* where each thread is
    local,      \* what value_++ has read
    value_,     \* the counter of the demo
    increments, \* history: increments since the last reset
    rounds      \* calls begun

smVars == <<entered, readers, pos, local, value_, increments, rounds>>
counterVars == <<local, value_, increments>>

SmInit(pc0) ==
    /\ entered = FALSE
    /\ readers = 0
    /\ pos = [t \in Thread |-> pc0]
    /\ local = [t \in Thread |-> 0]
    /\ value_ = 0
    /\ increments = 0
    /\ rounds = 0

\* A thread starts a call from position from.
BeginAt(t, from, to) ==
    /\ pos[t] = from /\ rounds < Rounds
    /\ pos' = [pos EXCEPT ![t] = to]
    /\ rounds' = rounds + 1

\* increment, reset or get: the lock is taken by the constructor of the guard.
BeginCall(t) ==
    /\ BeginAt(t, "idle", "lock") \/ BeginAt(t, "idle", "lock_shared")
    /\ UNCHANGED <<entered, readers, counterVars>>

----------------------------------------------------------------------------
(* Exclusive ownership *)

\* lock: the first loop, and what follows in the same critical section.
Lock(t) ==
    /\ pos[t] = "lock"
    /\ \/ /\ entered
          /\ pos' = [pos EXCEPT ![t] = "gate1_lock"]
          /\ UNCHANGED entered
       \/ /\ ~entered
          /\ entered' = TRUE
          /\ pos' = [pos EXCEPT ![t] = IF readers > 0 THEN "gate2" ELSE "write"]
    /\ UNCHANGED <<readers, counterVars, rounds>>

\* The second loop, after a wait on gate2_.
LockDrain(t) ==
    /\ pos[t] = "drain"
    /\ pos' = [pos EXCEPT ![t] = IF readers > 0 THEN "gate2" ELSE "write"]
    /\ UNCHANGED <<entered, readers, counterVars, rounds>>

\* try_lock fails also while another thread holds mut_.
TryLock(t) ==
    /\ \/ BeginAt(t, "idle", "write") /\ ~entered /\ readers = 0 /\ entered' = TRUE
       \/ BeginAt(t, "idle", "idle") /\ UNCHANGED entered
    /\ UNCHANGED <<readers, counterVars>>

\* value_++ is a read and a write.
Load(t) ==
    /\ pos[t] = "write"
    /\ pos' = [pos EXCEPT ![t] = "store"]
    /\ local' = [local EXCEPT ![t] = value_]
    /\ UNCHANGED <<entered, readers, value_, increments, rounds>>

Store(t) ==
    /\ pos[t] = "store"
    /\ pos' = [pos EXCEPT ![t] = "unlock"]
    /\ value_' = local[t] + 1
    /\ increments' = increments + 1
    /\ UNCHANGED <<entered, readers, local, rounds>>

ResetCounter(t) ==
    /\ pos[t] = "write"
    /\ pos' = [pos EXCEPT ![t] = "unlock"]
    /\ value_' = 0
    /\ increments' = 0
    /\ UNCHANGED <<entered, readers, local, rounds>>

\* unlock: state_ is cleared under mut_, the gate is notified after it.
Unlock(t) ==
    /\ pos[t] = "unlock"
    /\ entered' = FALSE
    /\ readers' = 0
    /\ pos' = [pos EXCEPT ![t] = "notify"]
    /\ UNCHANGED <<counterVars, rounds>>

\* Where a thread goes on when its wait ends.
Woken(p) ==
    CASE p = "gate1_lock" -> "lock"
      [] p = "gate1_shared" -> "lock_shared"
      [] p = "gate2" -> "drain"

Gate1 == {u \in Thread : pos[u] \in {"gate1_lock", "gate1_shared"}}
Gate2 == {u \in Thread : pos[u] = "gate2"}

\* Mutant: one thread is woken, as if only one could go on.
NotifyAll_Mutant(t) ==
    /\ pos[t] = "notify"
    /\ \E u \in Gate1 \cup {t} :
          pos' = [pos EXCEPT ![u] = IF u = t THEN "idle" ELSE Woken(pos[u]), ![t] = "idle"]
    /\ UNCHANGED <<entered, readers, counterVars, rounds>>

NotifyAll(t) ==
    /\ pos[t] = "notify"
    /\ pos' = [u \in Thread |-> CASE u = t -> "idle"
                                  [] u \in Gate1 -> Woken(pos[u])
                                  [] OTHER -> pos[u]]
    /\ UNCHANGED <<entered, readers, counterVars, rounds>>

----------------------------------------------------------------------------
(* Shared ownership; the guard is a shared_lock. *)

LockShared(t) ==
    /\ pos[t] = "lock_shared"
    /\ \/ /\ entered \/ readers = MaxReaders
          /\ pos' = [pos EXCEPT ![t] = "gate1_shared"]
          /\ UNCHANGED readers
       \/ /\ ~entered /\ readers # MaxReaders
          /\ readers' = readers + 1
          /\ pos' = [pos EXCEPT ![t] = "read"]
    /\ UNCHANGED <<entered, counterVars, rounds>>

\* A shared_lock with try_to_lock owns the lock, or does not.
TryLockShared(t) ==
    /\ \/ /\ BeginAt(t, "idle", "read") /\ ~entered /\ readers # MaxReaders
          /\ readers' = readers + 1
       \/ BeginAt(t, "idle", "unowned") /\ UNCHANGED readers
    /\ UNCHANGED <<entered, counterVars>>

\* A shared_lock that does not own: lock, or its destructor.
Unowned(t) ==
    /\ \/ BeginAt(t, "unowned", "lock_shared")
       \/ /\ pos[t] = "unowned"
          /\ pos' = [pos EXCEPT ![t] = "idle"]
          /\ UNCHANGED rounds
    /\ UNCHANGED <<entered, readers, counterVars>>

\* Mutant: the last reader leaves the waiting writer to the next notification.
NotifiedByReader_Mutant(n) == IF ~entered /\ n = MaxReaders - 1 THEN Gate1 ELSE {}

\* The waiting threads of which the reader that leaves n others wakes one.
NotifiedByReader(n) ==
    CASE entered /\ n = 0 -> Gate2
      [] ~entered /\ n = MaxReaders - 1 -> Gate1
      [] OTHER -> {}

\* get has read value_: unlock_shared by the destructor or unlock of the guard.
UnlockShared(t, to) ==
    LET n == IF readers = 0 THEN MaxReaders ELSE readers - 1
        woken == NotifiedByReader(n)
    IN  /\ pos[t] = "read"
        /\ readers' = n
        /\ \/ woken = {} /\ pos' = [pos EXCEPT ![t] = to]
           \/ \E u \in woken : pos' = [pos EXCEPT ![t] = to, ![u] = Woken(pos[u])]
        /\ UNCHANGED <<entered, counterVars, rounds>>

----------------------------------------------------------------------------
\* A wait may end without a notification.
Spurious(t) ==
    /\ t \in Gate1 \cup Gate2
    /\ pos' = [pos EXCEPT ![t] = Woken(pos[t])]
    /\ UNCHANGED <<entered, readers, counterVars, rounds>>

ThreadStep(t) ==
    \/ BeginCall(t) \/ TryLock(t) \/ TryLockShared(t) \/ Unowned(t)
    \/ Lock(t) \/ LockDrain(t) \/ Load(t) \/ Store(t) \/ ResetCounter(t)
    \/ Unlock(t) \/ NotifyAll(t)
    \/ LockShared(t) \/ \E to \in {"idle", "unowned"} : UnlockShared(t, to)

SmNext == \E t \in Thread : ThreadStep(t) \/ Spurious(t)

SmSpec == SmInit("idle") /\ [][SmNext]_smVars

\* Every thread is scheduled, and gets mut_, which is never held for long; no
\* wake-up without a notification is relied on.
SmFairness == \A t \in Thread : WF_smVars(ThreadStep(t))

----------------------------------------------------------------------------
(* Properties. *)

Writing == {"write", "store", "unlock"}

\* A thread that writes the counter is alone: no other one writes or reads it.
Exclusive ==
    \A t, u \in Thread :
        pos[t] \in Writing /\ t # u => pos[u] \notin Writing \cup {"read"}

\* Threads that have set write_entered_ and not cleared it.
Inside == {u \in Thread : pos[u] \in Writing \cup {"gate2", "drain"}}
Reading == {u \in Thread : pos[u] = "read"}
Notifying == {u \in Thread : pos[u] = "notify"}

\* Whoever sleeps has somebody who will wake it: a writer behind gate2_ a reader,
\* and a thread behind gate1_ the writer that has entered or is about to notify,
\* or (as long as at most one thread too many wants to read) the readers that
\* use up the count.
SleepersWoken ==
    /\ Gate2 # {} => Reading # {}
    /\ \A t \in Gate1 : \/ Inside # {}
                        \/ Notifying # {}
                        \/ /\ pos[t] = "gate1_shared"
                           /\ \/ readers = MaxReaders
                              \/ Cardinality(Thread) > MaxReaders + 1

\* The lock excludes as promised, no increment is lost, and no thread sleeps
\* with nobody to wake it.
SharedMutexSafe == Exclusive /\ value_ = increments /\ SleepersWoken

\* The threads of the demo can be joined: whoever calls returns, until all calls
\* are done.
DemoEnds ==
    (\E t \in Thread : pos[t] = "idle") ~>
        rounds = Rounds /\ \A t \in Thread : pos[t] = "idle"
=============================================================================
