------------------------------ MODULE LRUCache ------------------------------
(***************************************************************************)
(* What a Storage with LRU eviction promises (include/afina/Storage.h and  *)
(* the member comments of src/storage/SimpleLRU.h): a map from keys to     *)
(* values in which an operation that stores may first discard the entries  *)
(* that were not used for the longest time, one after another, and nothing *)
(* else.  There is no list, no index and no byte count here.               *)
(*                                                                         *)
(* Fail is the partiality of the implementation: it may die, but only when *)
(* it is about to lose its last entry, has lost the entry it updates, or   *)
(* is asked to delete an entry that is neither the oldest nor the newest.  *)
(***************************************************************************)
EXTENDS Integers

CONSTANTS Key, Value, Null, KeySize, ValSize, MaxSize

VARIABLES
    store,  \* key -> value, Null where absent
    used,   \* key -> time of the last use, 0 where absent
    clock,  \* the next time of use
    job,    \* the storing operation in progress
    ret,    \* result of the last finished operation
    up      \* "up", "down" (died) or "gone" (destroyed)

vars == <<store, used, clock, job, ret, up>>

Idle == [op |-> "none", kind |-> "none", key |-> Null, val |-> Null]

Present == {k \in Key : store[k] # Null}

Oldest(k) == k \in Present /\ \A j \in Present : used[k] <= used[j]

Newest(k) == k \in Present /\ \A j \in Present : used[j] <= used[k]

Init ==
    /\ store = [k \in Key |-> Null]
    /\ used = [k \in Key |-> 0]
    /\ clock = 1
    /\ job = Idle
    /\ ret = [op |-> "none", ok |-> FALSE, val |-> Null]
    /\ up = "up"

\* A use of k.
Use(k) ==
    IF Newest(k)
    THEN UNCHANGED <<used, clock>>
    ELSE /\ used' = [used EXCEPT ![k] = clock]
         /\ clock' = clock + 1

Answer(op, ok, v) == ret' = [op |-> op, ok |-> ok, val |-> v]

\* An operation that changes nothing and says so.
Refuse(op) == Answer(op, FALSE, Null) /\ UNCHANGED <<store, used, clock, job, up>>

Ready == up = "up" /\ job = Idle

\* Begin to store k -> v: as a new entry or in place of the present one.
Begin(op, kind, k, v) ==
    /\ KeySize[k] + ValSize[v] <= MaxSize
    /\ (kind = "update") <=> (k \in Present)
    /\ job' = [op |-> op, kind |-> kind, key |-> k, val |-> v]
    /\ UNCHANGED <<store, used, clock, ret, up>>

Put(k, v) ==
    /\ Ready
    /\ \/ KeySize[k] + ValSize[v] > MaxSize /\ Refuse("Put")
       \/ Begin("Put", "insert", k, v)
       \/ Begin("Put", "update", k, v)

PutIfAbsent(k, v) ==
    /\ Ready
    /\ \/ (KeySize[k] + ValSize[v] > MaxSize \/ k \in Present) /\ Refuse("PutIfAbsent")
       \/ Begin("PutIfAbsent", "insert", k, v)

Set(k, v) ==
    /\ Ready
    /\ \/ (KeySize[k] + ValSize[v] > MaxSize \/ k \notin Present) /\ Refuse("Set")
       \/ Begin("Set", "update", k, v)

Forget(k) ==
    /\ store' = [store EXCEPT ![k] = Null]
    /\ used' = [used EXCEPT ![k] = 0]
    /\ UNCHANGED clock

Delete(k) ==
    /\ Ready
    /\ \/ k \notin Present /\ Refuse("Delete")
       \/ k \in Present /\ Forget(k) /\ Answer("Delete", TRUE, Null)
          /\ UNCHANGED <<job, up>>

Get(k) ==
    /\ Ready
    /\ \/ k \notin Present /\ Refuse("Get")
       \/ /\ k \in Present
          /\ Use(k)
          /\ Answer("Get", TRUE, store[k])
          /\ UNCHANGED <<store, job, up>>

\* The oldest entry makes room for the job in progress.
Evict(k) ==
    /\ up = "up" /\ job # Idle
    /\ Oldest(k)
    /\ Forget(k)
    /\ UNCHANGED <<job, ret, up>>

Finish ==
    /\ up = "up" /\ job # Idle
    /\ job.kind = "update" => job.key \in Present
    /\ Use(job.key)
    /\ store' = [store EXCEPT ![job.key] = job.val]
    /\ job' = Idle
    /\ Answer(job.op, TRUE, Null)
    /\ UNCHANGED up

LastEntry(k) == Present = {k}

Middle(k) == k \in Present /\ ~Oldest(k) /\ ~Newest(k)

Fail ==
    /\ up = "up"
    /\ \/ \E k \in Key : LastEntry(k)
       \/ job.kind = "update" /\ job.key \notin Present
       \/ job = Idle /\ \E k \in Key : Middle(k)
    /\ up' = "down"
    /\ UNCHANGED <<store, used, clock, job, ret>>

Close ==
    /\ Ready
    /\ up' = "gone"
    /\ store' = [k \in Key |-> Null]
    /\ used' = [k \in Key |-> 0]
    /\ UNCHANGED <<clock, job, ret>>

Next ==
    \/ \E k \in Key, v \in Value : Put(k, v) \/ PutIfAbsent(k, v) \/ Set(k, v)
    \/ \E k \in Key : Delete(k) \/ Get(k) \/ Evict(k)
    \/ Finish
    \/ Fail
    \/ Close

Spec == Init /\ [][Next]_vars
=============================================================================
