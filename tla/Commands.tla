------------------------------ MODULE Commands ------------------------------
(***************************************************************************)
(* The commands of src/execute run by several threads (the workers of the  *)
(* servers) against one ThreadSafeSimplLRU.  Every method of the storage   *)
(* runs under its mutex and is one step; a command that calls two of them  *)
(* is interleaved with the others in between.                              *)
(*                                                                         *)
(* A value is the sequence of the data blocks it was made of.  The argument*)
(* of a command is its own block, of size 1, once or so often that it is   *)
(* too big to store.  The storage is seen as its interface: a value that   *)
(* is too big is refused, and storing may evict other entries (which ones  *)
(* is the subject of LRUCache; here any).                                  *)
(***************************************************************************)
EXTENDS Integers, Sequences, FiniteSets, SequencesExt

CONSTANTS
    Thread,
    Key,        \* keys in use (bound)
    Absent,     \* no value
    MaxLen,     \* size of the largest entry the storage takes
    MaxCmds     \* bound on the commands of a thread

ASSUME CommandsAssumption ==
    /\ MaxLen \in Nat /\ MaxCmds \in Nat
    /\ IsFiniteSet(Key)

VARIABLES
    store,  \* key -> value
    tpc,    \* where each thread is in its command
    cmd,    \* the command each thread executes
    value,  \* the local variable value of Append, Replace and Get
    out,    \* the answer: a word, and the items of a Get
    count,  \* commands each thread has begun
    acked,  \* history: blocks stored and acknowledged since key was last set
    observed    \* history: values each key had since the thread's command began

threadVars == <<tpc, cmd, value, out, count>>
cmdVars == <<store, tpc, cmd, value, out, count, acked, observed>>

NoCmd == [op |-> "none", keys |-> <<>>, todo |-> <<>>, args |-> <<>>]
NoOut == [word |-> "none", items |-> <<>>]

Present == {k \in Key : store[k] # Absent}

CmdInit ==
    /\ store = [k \in Key |-> Absent]
    /\ tpc = [t \in Thread |-> "idle"]
    /\ cmd = [t \in Thread |-> NoCmd]
    /\ value = [t \in Thread |-> Absent]
    /\ out = [t \in Thread |-> NoOut]
    /\ count = [t \in Thread |-> 0]
    /\ acked = [k \in Key |-> {}]
    /\ observed = [t \in Thread |-> [k \in Key |-> {}]]

----------------------------------------------------------------------------
(* ThreadSafeSimplLRU: one step under the mutex. *)

Fits(v) == Len(v) <= MaxLen

\* k gets value v and the entries in gone are evicted.
StoreTo(k, v, gone) ==
    /\ store' = [j \in Key |-> IF j = k THEN v
                               ELSE IF j \in gone THEN Absent ELSE store[j]]
    /\ observed' = [t \in Thread |-> [j \in Key |-> observed[t][j] \cup {store'[j]}]]

Unstored == UNCHANGED <<store, acked, observed>>

\* Put succeeds for every value that fits.
PutOK(k, v, gone) ==
    /\ Fits(v)
    /\ gone \subseteq Present \ {k}
    /\ StoreTo(k, v, gone)

\* Set succeeds only for a present key.
SetOK(k, v, gone) ==
    /\ k \in Present
    /\ PutOK(k, v, gone)

\* PutIfAbsent succeeds only for an absent key.
PutIfAbsentOK(k, v, gone) ==
    /\ Fits(v)
    /\ k \notin Present
    /\ gone \subseteq Present
    /\ StoreTo(k, v, gone)

----------------------------------------------------------------------------
(* The commands. *)

Answer(t, word) ==
    /\ tpc' = [tpc EXCEPT ![t] = "idle"]
    /\ out' = [out EXCEPT ![t] = [word |-> word, items |-> <<>>]]
    /\ value' = [value EXCEPT ![t] = Absent]
    /\ UNCHANGED <<cmd, count>>

StepTo(t, pc) == tpc' = [tpc EXCEPT ![t] = pc] /\ UNCHANGED <<cmd, count, out>>

KeyOf(t) == cmd[t].keys[1]
BlocksOf(t) == ToSet(cmd[t].args)

Ops == {"set", "add", "append", "replace", "get", "stats"}

\* The connection loop calls Execute with an argument of len equal blocks.
Begin(t, op, keys, len) ==
    /\ tpc[t] = "idle"
    /\ count[t] < MaxCmds
    /\ count' = [count EXCEPT ![t] = @ + 1]
    /\ cmd' = [cmd EXCEPT ![t] = [op |-> op, keys |-> keys, todo |-> keys,
                                  args |-> [i \in 1 .. len |-> <<t, count[t]>>]]]
    /\ tpc' = [tpc EXCEPT ![t] = op]
    /\ out' = [out EXCEPT ![t] = NoOut]
    /\ value' = [value EXCEPT ![t] = Absent]
    /\ observed' = [observed EXCEPT ![t] = [k \in Key |-> {store[k]}]]
    /\ UNCHANGED <<store, acked>>

\* History of blocks: an overwriting store forgets the older ones, an eviction
\* forgets all.
Acked(k, blocks, gone) ==
    acked' = [j \in Key |-> IF j = k THEN blocks
                            ELSE IF j \in gone THEN {} ELSE acked[j]]

\* Set::Execute: the result of Put is not looked at.
SetExecute(t, gone) ==
    LET k == KeyOf(t)  v == cmd[t].args
    IN  /\ tpc[t] = "set"
        /\ \/ PutOK(k, v, gone) /\ Acked(k, BlocksOf(t), gone)
           \/ ~Fits(v) /\ gone = {} /\ Unstored
        /\ Answer(t, "STORED")

\* Add::Execute.
AddExecute(t, gone) ==
    LET k == KeyOf(t)  v == cmd[t].args
    IN  /\ tpc[t] = "add"
        /\ \/ /\ PutIfAbsentOK(k, v, gone)
              /\ Acked(k, BlocksOf(t), gone)
              /\ Answer(t, "STORED")
           \/ /\ ~Fits(v) \/ k \in Present
              /\ gone = {}
              /\ Unstored
              /\ Answer(t, "NOT_STORED")

\* Append::Execute, first the Get ...
AppendGet(t) ==
    /\ tpc[t] = "append"
    /\ Unstored
    /\ \/ store[KeyOf(t)] = Absent /\ Answer(t, "NOT_STORED")
       \/ /\ store[KeyOf(t)] # Absent
          /\ value' = [value EXCEPT ![t] = store[KeyOf(t)]]
          /\ StepTo(t, "append_put")

\* Mutant: the value that was read is not put in front.
AppendPut_Mutant(t, gone) ==
    LET k == KeyOf(t)  v == cmd[t].args
    IN  /\ tpc[t] = "append_put"
        /\ \/ PutOK(k, v, gone) /\ Acked(k, acked[k] \cup BlocksOf(t), gone)
           \/ ~Fits(v) /\ gone = {} /\ Unstored
        /\ Answer(t, "STORED")

\* ... and then the Put, whose result is not looked at.
AppendPut(t, gone) ==
    LET k == KeyOf(t)  v == value[t] \o cmd[t].args
    IN  /\ tpc[t] = "append_put"
        /\ \/ PutOK(k, v, gone) /\ Acked(k, acked[k] \cup BlocksOf(t), gone)
           \/ ~Fits(v) /\ gone = {} /\ Unstored
        /\ Answer(t, "STORED")

\* Replace::Execute, first the Get ...
ReplaceGet(t) ==
    /\ tpc[t] = "replace"
    /\ Unstored
    /\ \/ store[KeyOf(t)] = Absent /\ Answer(t, "NOT_STORED")
       \/ /\ store[KeyOf(t)] # Absent
          /\ value' = [value EXCEPT ![t] = store[KeyOf(t)]]
          /\ StepTo(t, "replace_set")

\* ... and then the Set, whose result is not looked at.
ReplaceSet(t, gone) ==
    LET k == KeyOf(t)  v == cmd[t].args
    IN  /\ tpc[t] = "replace_set"
        /\ \/ SetOK(k, v, gone) /\ Acked(k, BlocksOf(t), gone)
           \/ (~Fits(v) \/ k \notin Present) /\ gone = {} /\ Unstored
        /\ Answer(t, "STORED")

\* Mutant: a miss is not skipped and yields the value of the key before.
GetKey_Mutant(t) ==
    LET k == Head(cmd[t].todo)
        v == IF store[k] = Absent THEN value[t] ELSE store[k]
    IN  /\ tpc[t] = "get"
        /\ cmd[t].todo # <<>>
        /\ cmd' = [cmd EXCEPT ![t].todo = Tail(@)]
        /\ value' = [value EXCEPT ![t] = v]
        /\ out' = [out EXCEPT ![t].items = Append(@, <<k, v>>)]
        /\ UNCHANGED <<tpc, count>>
        /\ Unstored

\* Get::Execute, one key of the loop: a miss leaves value alone and is skipped.
GetKey(t) ==
    LET k == Head(cmd[t].todo)
    IN  /\ tpc[t] = "get"
        /\ cmd[t].todo # <<>>
        /\ cmd' = [cmd EXCEPT ![t].todo = Tail(@)]
        /\ \/ store[k] = Absent /\ UNCHANGED <<value, out>>
           \/ /\ store[k] # Absent
              /\ value' = [value EXCEPT ![t] = store[k]]
              /\ out' = [out EXCEPT ![t].items = Append(@, <<k, store[k]>>)]
        /\ UNCHANGED <<tpc, count>>
        /\ Unstored

\* The end of the answer.
GetEnd(t) ==
    /\ tpc[t] = "get"
    /\ cmd[t].todo = <<>>
    /\ tpc' = [tpc EXCEPT ![t] = "idle"]
    /\ out' = [out EXCEPT ![t].word = "END"]
    /\ value' = [value EXCEPT ![t] = Absent]
    /\ UNCHANGED <<cmd, count>>
    /\ Unstored

StatsExecute(t) == tpc[t] = "stats" /\ Answer(t, "END") /\ Unstored

CmdNext == \E t \in Thread :
    \/ \E op \in Ops \ {"get", "stats"}, k \in Key, len \in {1, MaxLen + 1} :
            Begin(t, op, <<k>>, len)
    \/ \E keys \in SetToAllKPermutations(Key) \ {<<>>} : Begin(t, "get", keys, 0)
    \/ Begin(t, "stats", <<>>, 0)
    \/ \E gone \in SUBSET Key : \/ SetExecute(t, gone) \/ AddExecute(t, gone)
                                \/ AppendPut(t, gone) \/ ReplaceSet(t, gone)
    \/ AppendGet(t) \/ ReplaceGet(t)
    \/ GetKey(t) \/ GetEnd(t)
    \/ StatsExecute(t)

CmdSpec == CmdInit /\ [][CmdNext]_cmdVars

----------------------------------------------------------------------------
(* Properties. *)

\* An item of a Get is a value its key had while the command ran, and a key
\* that is left out was absent at some time while the command ran.
GetSound ==
    \A t \in Thread :
        /\ \A i \in DOMAIN out[t].items :
                out[t].items[i][2] \in observed[t][out[t].items[i][1]]
        /\ cmd[t].op = "get" /\ out[t].word = "END" =>
                \A k \in ToSet(cmd[t].keys) :
                    \/ Absent \in observed[t][k]
                    \/ \E i \in DOMAIN out[t].items : out[t].items[i][1] = k

Kept(k) == acked[k] \subseteq ToSet(store[k])

\* Data that was appended and acknowledged is in the value until the key is set
\* anew or evicted ("Append new data to the end of value for the given key",
\* Append.h:14), unless an append stores a value that it read before another
\* command changed the key.
AppendLostByRaceOnly ==
    [][\A k \in Present : Kept(k) /\ k \in Present' /\ ~Kept(k)' =>
            \E t \in Thread : /\ tpc[t] = "append_put" /\ tpc'[t] = "idle"
                               /\ KeyOf(t) = k
                               /\ Cardinality(observed[t][k]) > 1]_cmdVars
=============================================================================
