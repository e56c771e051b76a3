----------------------------- MODULE SimpleLRU -----------------------------
(***************************************************************************)
(* The size-bounded LRU cache of afina (src/storage/SimpleLRU.{h,cpp}) at  *)
(* the level of its pointers.  Nodes live on a heap; every node owns its   *)
(* successor (unique_ptr next) and points back (raw prev); _lru_head owns  *)
(* the oldest node, _lru_tail points at the freshest, _lru_index finds a   *)
(* node by key, and _current_size is an unsigned word that wraps.          *)
(*                                                                         *)
(* The class is sequential.  An operation is one step, except that every   *)
(* iteration of an eviction loop is a step of its own, during which no     *)
(* other action is enabled.                                                *)
(***************************************************************************)
EXTENDS Integers, FiniteSets

CONSTANTS
    Key,        \* keys a client uses
    Value,      \* values a client stores
    Node,       \* heap addresses the allocator may hand out
    Null,       \* nullptr; also "absent" in _lru_index and "unset"
    KeySize,    \* key.size(), a function on Key
    ValSize,    \* value.size(), a function on Value
    MaxSize,    \* _max_size
    Word,       \* the modulus 2^w of size_t
    MaxClock    \* bound on the history clock, for model checking

ASSUME LRUAssumption ==
    /\ KeySize \in [Key -> Nat]
    /\ ValSize \in [Value -> Nat]
    /\ MaxSize \in Nat
    /\ Word \in Nat
    /\ MaxSize < Word
    /\ MaxClock \in Nat
    /\ Null \notin Node \cup Key \cup Value

VARIABLES
    live,       \* allocated nodes
    key, val,   \* lru_node::key, lru_node::value
    next, prev, \* lru_node::next, lru_node::prev
    head, tail, \* _lru_head, _lru_tail
    index,      \* _lru_index: key -> node, Null where absent
    cur,        \* _current_size
    pc,         \* where the object is: between operations, in a loop, dead
    arg,        \* arguments of the operation that is in its eviction loop
    ret,        \* result of the last finished operation
    stamp,      \* history: when each live node was last used
    clock       \* history: the next stamp

heapVars == <<live, key, val, next, prev, stamp>>
vars == <<live, key, val, next, prev, head, tail, index, cur, pc, arg, ret,
          stamp, clock>>

NoArg == [op |-> "none", key |-> Null, val |-> Null, node |-> Null, delta |-> 0]

\* The answer of operation op: its result and, for Get, the value copied out.
Ret(op, ok, v) == [op |-> op, ok |-> ok, val |-> v]

Size(k, v) == KeySize[k] + ValSize[v]

\* Arithmetic of size_t.
Wrap(n) == n % Word

Init ==
    /\ live = {}
    /\ key = [n \in Node |-> Null]
    /\ val = [n \in Node |-> Null]
    /\ next = [n \in Node |-> Null]
    /\ prev = [n \in Node |-> Null]
    /\ head = Null
    /\ tail = Null
    /\ index = [k \in Key |-> Null]
    /\ cur = 0
    /\ pc = "idle"
    /\ arg = NoArg
    /\ ret = Ret("none", FALSE, Null)
    /\ stamp = [n \in Node |-> 0]
    /\ clock = 1

----------------------------------------------------------------------------
(* The private helpers. *)

\* _remove_node(n) when the process survives it: n is the head and not the
\* only node, or the tail.  The size subtracted is the one of the tail,
\* whichever node is removed.  The destructor of the local unique_ptr tmp
\* frees n; a freed cell is reset so that equal heaps are equal states.
RemoveNode(n) ==
    /\ index' = [index EXCEPT ![key[n]] = Null]
    /\ cur' = Wrap(cur - Size(key[tail], val[tail]))
    /\ \/ /\ n = head
          /\ head' = next[n]
          /\ next' = [next EXCEPT ![n] = Null]
          /\ prev' = [prev EXCEPT ![next[n]] = Null]
          /\ tail' = tail
       \/ /\ n # head /\ n = tail
          /\ tail' = prev[n]
          /\ next' = [next EXCEPT ![prev[n]] = Null]
          /\ prev' = [prev EXCEPT ![n] = Null]
          /\ head' = head
    /\ live' = live \ {n}
    /\ key' = [key EXCEPT ![n] = Null]
    /\ val' = [val EXCEPT ![n] = Null]
    /\ stamp' = [stamp EXCEPT ![n] = 0]

\* _remove_node(n) writes through a null pointer when n is the only node (the
\* new _lru_head is empty) and when n is in the middle: the swap has already
\* moved tmp->next out when tmp->next->prev is assigned.
RemoveCrashes(n) ==
    \/ n = head /\ next[n] = Null
    \/ n # head /\ n # tail

\* The process dies: nothing that it held is observable any more.
Die(how) ==
    /\ pc' = how
    /\ UNCHANGED <<live, key, val, next, prev, head, tail, index, cur, arg,
                   ret, stamp, clock>>

\* History: n is used now.  Using the freshest node again changes no order.
Freshest(n) == \A m \in live : stamp[m] <= stamp[n]

Touch(n) ==
    IF Freshest(n)
    THEN UNCHANGED <<stamp, clock>>
    ELSE /\ stamp' = [stamp EXCEPT ![n] = clock]
         /\ clock' = clock + 1

\* Mutant: the back pointer of the moved node's successor is forgotten.
MoveToFresh_Mutant(n) ==
    IF n = tail
    THEN UNCHANGED <<next, prev, head, tail>>
    ELSE /\ head' = IF n = head THEN next[n] ELSE head
         /\ next' = IF n = head
                    THEN [next EXCEPT ![tail] = n, ![n] = Null]
                    ELSE [next EXCEPT ![prev[n]] = next[n], ![tail] = n,
                                      ![n] = Null]
         /\ prev' = [prev EXCEPT ![n] = tail]
         /\ tail' = n

\* _move_to_fresh_data(n).  The swaps leave n owning itself for a moment;
\* the swap with the tail's next ends that.
MoveToFresh(n) ==
    IF n = tail
    THEN UNCHANGED <<next, prev, head, tail>>
    ELSE /\ head' = IF n = head THEN next[n] ELSE head
         /\ next' = IF n = head
                    THEN [next EXCEPT ![tail] = n, ![n] = Null]
                    ELSE [next EXCEPT ![prev[n]] = next[n], ![tail] = n,
                                      ![n] = Null]
         /\ prev' = [prev EXCEPT ![next[n]] = IF n = head THEN Null
                                                          ELSE prev[n],
                                 ![n] = tail]
         /\ tail' = n

\* The loop condition of _insert_new_value.
InsertNeedsRoom(k, v) == cur > MaxSize - Size(k, v)

\* Mutant: >= instead of >.
UpdateNeedsRoom_Mutant(delta) == Wrap(cur + delta) >= MaxSize

\* The loop condition of _update_value.
UpdateNeedsRoom(delta) == Wrap(cur + delta) > MaxSize

----------------------------------------------------------------------------
(* The operations of Afina::Storage. *)

TooBig(k, v) == Size(k, v) > MaxSize

Return(op, ok, v) ==
    /\ pc' = "idle"
    /\ arg' = NoArg
    /\ ret' = Ret(op, ok, v)

Reject(op) ==
    /\ Return(op, FALSE, Null)
    /\ UNCHANGED <<live, key, val, next, prev, head, tail, index, cur, stamp,
                   clock>>

\* Entry of _insert_new_value: on to its loop.
EnterInsert(op, k, v) ==
    /\ pc' = "insert"
    /\ arg' = [op |-> op, key |-> k, val |-> v, node |-> Null, delta |-> 0]
    /\ UNCHANGED <<live, key, val, next, prev, head, tail, index, cur, ret,
                   stamp, clock>>

\* Entry of _update_value: delta_size is fixed before the loop runs.
EnterUpdate(op, k, v) ==
    /\ pc' = "update"
    /\ arg' = [op |-> op, key |-> k, val |-> v, node |-> index[k],
               delta |-> Wrap(ValSize[v] - ValSize[val[index[k]]])]
    /\ UNCHANGED <<live, key, val, next, prev, head, tail, index, cur, ret,
                   stamp, clock>>

Put(k, v) ==
    /\ pc = "idle"
    /\ \/ TooBig(k, v) /\ Reject("Put")
       \/ ~TooBig(k, v) /\ index[k] = Null /\ EnterInsert("Put", k, v)
       \/ ~TooBig(k, v) /\ index[k] # Null /\ EnterUpdate("Put", k, v)

\* Mutant: PutIfAbsent overwrites like Put.
PutIfAbsent_Mutant(k, v) ==
    /\ pc = "idle"
    /\ \/ TooBig(k, v) /\ Reject("PutIfAbsent")
       \/ ~TooBig(k, v) /\ index[k] = Null /\ EnterInsert("PutIfAbsent", k, v)
       \/ ~TooBig(k, v) /\ index[k] # Null /\ EnterUpdate("PutIfAbsent", k, v)

PutIfAbsent(k, v) ==
    /\ pc = "idle"
    /\ \/ (TooBig(k, v) \/ index[k] # Null) /\ Reject("PutIfAbsent")
       \/ ~TooBig(k, v) /\ index[k] = Null /\ EnterInsert("PutIfAbsent", k, v)

Set(k, v) ==
    /\ pc = "idle"
    /\ \/ (TooBig(k, v) \/ index[k] = Null) /\ Reject("Set")
       \/ ~TooBig(k, v) /\ index[k] # Null /\ EnterUpdate("Set", k, v)

Delete(k) ==
    /\ pc = "idle"
    /\ \/ index[k] = Null /\ Reject("Delete")
       \/ /\ index[k] # Null
          /\ RemoveCrashes(index[k])
          /\ Die("segv")
       \/ /\ index[k] # Null
          /\ ~RemoveCrashes(index[k])
          /\ RemoveNode(index[k])
          /\ Return("Delete", TRUE, Null)
          /\ UNCHANGED clock

\* Mutant: the entry is used, but not moved to the fresh end of the list.
Get_Mutant(k) ==
    /\ pc = "idle"
    /\ \/ index[k] = Null /\ Reject("Get")
       \/ /\ index[k] # Null
          /\ Touch(index[k])
          /\ Return("Get", TRUE, val[index[k]])
          /\ UNCHANGED <<live, key, val, next, prev, head, tail, index, cur>>

Get(k) ==
    /\ pc = "idle"
    /\ \/ index[k] = Null /\ Reject("Get")
       \/ /\ index[k] # Null
          /\ MoveToFresh(index[k])
          /\ Touch(index[k])
          /\ Return("Get", TRUE, val[index[k]])
          /\ UNCHANGED <<live, key, val, index, cur>>

\* Mutant: the last entry is spared, which makes the loop endless.
EvictHead_Mutant ==
    /\ ~RemoveCrashes(head)
    /\ RemoveNode(head)
    /\ UNCHANGED <<pc, arg, ret, clock>>

\* One iteration of an eviction loop: _remove_node(*_lru_head).
EvictHead ==
    \/ RemoveCrashes(head) /\ Die("segv")
    \/ /\ ~RemoveCrashes(head)
       /\ RemoveNode(head)
       /\ UNCHANGED <<pc, arg, ret, clock>>

InsertEvict ==
    /\ pc = "insert"
    /\ InsertNeedsRoom(arg.key, arg.val)
    /\ EvictHead

\* The rest of _insert_new_value, with make_unique returning address n.
InsertLink(n) ==
    /\ pc = "insert"
    /\ ~InsertNeedsRoom(arg.key, arg.val)
    /\ n \notin live
    /\ live' = live \cup {n}
    /\ key' = [key EXCEPT ![n] = arg.key]
    /\ val' = [val EXCEPT ![n] = arg.val]
    /\ prev' = [prev EXCEPT ![n] = tail]
    /\ IF tail # Null
       THEN /\ next' = [next EXCEPT ![n] = Null, ![tail] = n]
            /\ head' = head
       ELSE /\ next' = [next EXCEPT ![n] = Null]
            /\ head' = n
    /\ tail' = n
    /\ index' = [index EXCEPT ![arg.key] = n]
    /\ cur' = Wrap(cur + Size(arg.key, arg.val))
    /\ stamp' = [stamp EXCEPT ![n] = clock]
    /\ clock' = clock + 1
    /\ Return(arg.op, TRUE, Null)

UpdateEvict ==
    /\ pc = "update"
    /\ UpdateNeedsRoom(arg.delta)
    /\ EvictHead

\* Mutant: the size of the new value is added to _current_size, and not the
\* difference.
UpdateStore_Mutant ==
    /\ pc = "update"
    /\ ~UpdateNeedsRoom(arg.delta)
    /\ arg.node \in live
    /\ val' = [val EXCEPT ![arg.node] = arg.val]
    /\ MoveToFresh(arg.node)
    /\ Touch(arg.node)
    /\ cur' = Wrap(cur + ValSize[arg.val])
    /\ Return(arg.op, TRUE, Null)
    /\ UNCHANGED <<live, key, index>>

\* The rest of _update_value.  If the loop evicted the node itself, the
\* reference update_node dangles and the assignment is a use after free.
UpdateStore ==
    /\ pc = "update"
    /\ ~UpdateNeedsRoom(arg.delta)
    /\ \/ arg.node \notin live /\ Die("uaf")
       \/ /\ arg.node \in live
          /\ val' = [val EXCEPT ![arg.node] = arg.val]
          /\ MoveToFresh(arg.node)
          /\ Touch(arg.node)
          /\ cur' = Wrap(cur + arg.delta)
          /\ Return(arg.op, TRUE, Null)
          /\ UNCHANGED <<live, key, index>>

\* ~SimpleLRU: the index is cleared, then the list is popped from the head.
Destroy ==
    /\ pc = "idle"
    /\ IF head = Null
       THEN pc' = "destroyed" /\ index' = index
       ELSE pc' = "dtor" /\ index' = [k \in Key |-> Null]
    /\ UNCHANGED <<live, key, val, next, prev, head, tail, cur, arg, ret,
                   stamp, clock>>

DestroyPop ==
    /\ pc = "dtor"
    /\ live' = live \ {head}
    /\ key' = [key EXCEPT ![head] = Null]
    /\ val' = [val EXCEPT ![head] = Null]
    /\ next' = [next EXCEPT ![head] = Null]
    /\ prev' = [prev EXCEPT ![head] = Null]
    /\ stamp' = [stamp EXCEPT ![head] = 0]
    /\ head' = next[head]
    /\ pc' = IF next[head] = Null THEN "destroyed" ELSE "dtor"
    /\ UNCHANGED <<tail, index, cur, arg, ret, clock>>

\* What a client may call; the bound MaxClock is on these calls only, so that
\* an operation that has begun can always go on.
Call ==
    /\ clock < MaxClock
    /\ \/ \E k \in Key, v \in Value :
             Put(k, v) \/ PutIfAbsent(k, v) \/ Set(k, v)
       \/ \E k \in Key : Get(k)

\* The loops and the destructor, which run on the thread that called them.
Step ==
    \/ \E n \in Node : InsertLink(n)
    \/ InsertEvict
    \/ UpdateEvict
    \/ UpdateStore
    \/ DestroyPop

Next ==
    \/ Call
    \/ \E k \in Key : Delete(k)
    \/ Step
    \/ Destroy

Spec == Init /\ [][Next]_vars

FairSpec == Spec /\ WF_vars(Step)

\* The server never calls Delete: no command object of it is ever built.
ServerNext == Call \/ Step \/ Destroy

ServerSpec == Init /\ [][ServerNext]_vars

----------------------------------------------------------------------------
(* Properties. *)

Ops == {"none", "Put", "PutIfAbsent", "Set", "Delete", "Get"}

States == {"idle", "insert", "update", "dtor", "destroyed", "segv", "uaf"}

\* Every variable stays in its type; in particular _current_size is a word
\* and the index never points outside the heap.
TypeOK ==
    /\ live \subseteq Node
    /\ key \in [Node -> Key \cup {Null}]
    /\ val \in [Node -> Value \cup {Null}]
    /\ next \in [Node -> Node \cup {Null}]
    /\ prev \in [Node -> Node \cup {Null}]
    /\ head \in Node \cup {Null}
    /\ tail \in Node \cup {Null}
    /\ index \in [Key -> Node \cup {Null}]
    /\ cur \in 0 .. Word - 1
    /\ pc \in States
    /\ arg \in [op : Ops, key : Key \cup {Null}, val : Value \cup {Null},
                node : Node \cup {Null}, delta : 0 .. Word - 1]
    /\ ret \in [op : Ops, ok : BOOLEAN, val : Value \cup {Null}]
    /\ stamp \in [Node -> Nat]
    /\ clock \in Nat

Running == pc \in {"idle", "insert", "update"}

\* Following next from any node visits every node that was used later, in
\* the order of use: next is the immediate successor in freshness, so the
\* list has no cycle, no gap and no lost node ("elements in this list
\* ordered by freshness", SimpleLRU.h).
NextIsSuccessor ==
    \A m \in live :
        IF next[m] = Null
        THEN \A n \in live : stamp[n] <= stamp[m]
        ELSE /\ next[m] \in live
             /\ stamp[m] < stamp[next[m]]
             /\ \A n \in live : \/ stamp[n] <= stamp[m]
                                 \/ stamp[next[m]] <= stamp[n]

\* No two live nodes were last used at the same time, and all in the past.
StampsDistinct ==
    /\ \A m, n \in live : stamp[m] = stamp[n] => m = n
    /\ \A n \in live : stamp[n] < clock

\* _lru_head owns the node that was not used for the longest time, and is
\* empty exactly when no node is allocated.
HeadIsOldest ==
    IF head = Null
    THEN live = {}
    ELSE head \in live /\ \A n \in live : stamp[head] <= stamp[n]

\* The list part that also holds while the destructor pops the list.
ChainInv ==
    Running \/ pc = "dtor" => NextIsSuccessor /\ StampsDistinct /\ HeadIsOldest

\* prev is the inverse of next, and _lru_tail is the end of the list.
PrevInvertsNext ==
    /\ \A m \in live : next[m] # Null => prev[next[m]] = m
    /\ head # Null => prev[head] = Null
    /\ \A m \in live : m # head => prev[m] \in live /\ next[prev[m]] = m
    /\ tail = Null <=> head = Null
    /\ tail # Null => tail \in live /\ next[tail] = Null

\* The index and the list hold the same nodes, each under its own key.
IndexMatchesList ==
    /\ \A n \in live : key[n] \in Key /\ val[n] \in Value /\ index[key[n]] = n
    /\ \A k \in Key : index[k] # Null => index[k] \in live /\ key[index[k]] = k

\* Between and inside operations the list is well formed in both directions
\* and agrees with the index.
ListInv == Running => PrevInvertsNext /\ IndexMatchesList

\* The destructor frees every node (it only follows next).
NoLeak == pc = "destroyed" => live = {}

\* An eviction loop never finds an empty list, an insert never finds its key
\* in the index, and the node of an update is found under its key until it is
\* evicted itself.
OpInv ==
    /\ Running /\ head = Null => cur = 0
    /\ pc \in {"idle", "dtor", "destroyed"} => arg = NoArg
    /\ pc = "insert" => /\ arg.key \in Key /\ arg.val \in Value
                        /\ Size(arg.key, arg.val) <= MaxSize
                        /\ arg.node = Null
                        /\ index[arg.key] = Null
    /\ pc = "update" => /\ arg.key \in Key /\ arg.val \in Value
                        /\ arg.node \in Node
                        /\ head # Null
                        /\ index[arg.key] = IF arg.node \in live
                                            THEN arg.node ELSE Null
    /\ pc = "dtor" => head # Null

\* The refinement mapping: what the pointers stand for.
AbsStore == [k \in Key |-> IF index[k] = Null THEN Null ELSE val[index[k]]]
AbsUsed == [k \in Key |-> IF index[k] = Null THEN 0 ELSE stamp[index[k]]]
AbsJob == [op |-> arg.op,
           kind |-> IF arg.key = Null THEN "none"
                    ELSE IF arg.node = Null THEN "insert" ELSE "update",
           key |-> arg.key, val |-> arg.val]
AbsUp == CASE pc \in {"segv", "uaf"} -> "down"
           [] pc \in {"dtor", "destroyed"} -> "gone"
           [] OTHER -> "up"

L == INSTANCE LRUCache WITH store <- AbsStore, used <- AbsUsed,
                            job <- AbsJob, up <- AbsUp

\* The pointer structure implements the LRU map: what Get returns, which
\* entry is evicted and when the code may die are those of LRUCache.
RefinesLRUCache == L!Spec

\* Every operation that is called returns, or the process dies: the eviction
\* loops end although _current_size is not the size of what is stored.
OperationsEnd == pc \in {"insert", "update", "dtor"} ~>
                    pc \in {"idle", "destroyed", "segv", "uaf"}

(* The accounting of bytes when all entries have one size, as in the tests. *)

UniformSize(s) == \A k \in Key, v \in Value : Size(k, v) = s

\* With entries of one size s, _current_size is exactly what is stored and
\* the bound _max_size is kept, whatever the eviction loops did.
SizeExact ==
    \A s \in 0 .. Word - 1 :
        UniformSize(s) /\ Running =>
            /\ cur = s * Cardinality(live)
            /\ cur <= MaxSize

\* With entries of one size of which two fit, and no Delete, the cache never
\* touches a null or dangling pointer.
NoCrash == pc \notin {"segv", "uaf"}

\* The cache as the servers use it: exact, within its limit, and alive.
UniformSound == SizeExact /\ NoCrash

\* With entries of one size an entry is evicted only to insert another that
\* does not fit beside all the old ones; an update evicts nothing.
EvictsOnlyWhenFull ==
    [][\A s \in 0 .. Word - 1 :
         UniformSize(s) /\ Running' /\ Cardinality(live') < Cardinality(live)
            => pc = "insert" /\ (Cardinality(live) + 1) * s > MaxSize]_vars
=============================================================================
