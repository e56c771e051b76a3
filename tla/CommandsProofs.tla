--------------------------- MODULE CommandsProofs ---------------------------
(***************************************************************************)
(* For any number of threads and keys: the items of a Get are values of    *)
(* the time of the command, and acknowledged data is lost only by an       *)
(* Append that writes back a value which has changed since it was read.    *)
(*                                                                         *)
(* Both rest on the same fact: what a running command has read, and what   *)
(* is stored now, are both among the values its keys had since it began.   *)
(***************************************************************************)
EXTENDS Commands, FiniteSetTheorems, TLAPS

Block == Thread \X Nat
Data == Seq(Block)
TwoCalls == {"append_put", "replace_set"}
Insert == {"set", "add", "append", "replace"} \cup TwoCalls

\* The types of the variables.
TypeOK ==
    /\ store \in [Key -> Data \cup {Absent}]
    /\ tpc \in [Thread -> Ops \cup TwoCalls \cup {"idle"}]
    /\ cmd \in [Thread -> [op : Ops \cup {"none"}, keys : Seq(Key), todo : Seq(Key),
                           args : Data]]
    /\ value \in [Thread -> Data \cup {Absent}]
    /\ out \in [Thread -> [word : {"none", "STORED", "NOT_STORED", "END"},
                           items : Seq(Key \X Data)]]
    /\ count \in [Thread -> Nat]
    /\ acked \in [Key -> SUBSET Block]
    /\ observed \in [Thread -> [Key -> SUBSET (Data \cup {Absent})]]

\* Where a thread is in which command.
PlaceInv ==
    \A t \in Thread :
        /\ tpc[t] = "get" => cmd[t].op = "get"
        /\ cmd[t].op = "get" => tpc[t] \in {"get", "idle"}
        /\ cmd[t].op = "get" /\ out[t].word = "END" => cmd[t].todo = <<>>
        /\ tpc[t] \in Insert => cmd[t].keys # <<>>

\* What is stored was seen by every running command, and so was what an Append
\* has read.
SeenInv ==
    \A t \in Thread :
        /\ tpc[t] # "idle" => \A k \in Key : store[k] \in observed[t][k]
        /\ tpc[t] = "append_put" => value[t] \in Data /\ value[t] \in observed[t][KeyOf(t)]
        /\ \A i \in DOMAIN out[t].items :
              out[t].items[i][2] \in observed[t][out[t].items[i][1]]

\* A key of a Get is still to be looked up, was absent, or is in the answer.
KeysInv ==
    \A t \in Thread : cmd[t].op = "get" =>
        \A k \in ToSet(cmd[t].keys) :
            \/ k \in ToSet(cmd[t].todo)
            \/ Absent \in observed[t][k]
            \/ \E i \in DOMAIN out[t].items : out[t].items[i][1] = k

\* A command sees finitely many values.
SeenFinite == \A t \in Thread, k \in Key : IsFiniteSet(observed[t][k])

\* The inductive invariant.
IInv == TypeOK /\ PlaceInv /\ SeenInv /\ KeysInv /\ SeenFinite

USE CommandsAssumption

----------------------------------------------------------------------------
(* Facts about sequences. *)

\* The keys of a Get, in any order, are a sequence of keys.
LEMMA KeysAreSeq ==
    ASSUME NEW keys \in SetToAllKPermutations(Key) PROVE keys \in Seq(Key)
<1>1. PICK S \in SUBSET Key : keys \in [1 .. Cardinality(S) -> S]
  BY DEF SetToAllKPermutations, SetToSeqs
<1>2. Cardinality(S) \in Nat
  BY FS_Subset, FS_CardinalityType
<1>3. QED
  BY <1>1, <1>2

\* An element of a sequence is its first or in the rest.
LEMMA HeadOrTail ==
    ASSUME NEW S, NEW s \in Seq(S), s # <<>>
    PROVE  /\ Head(s) \in S /\ Tail(s) \in Seq(S)
           /\ \A x \in ToSet(s) : x = Head(s) \/ x \in ToSet(Tail(s))
<1>1. Head(s) \in S /\ Tail(s) \in Seq(S) /\ Len(Tail(s)) = Len(s) - 1 /\ Len(s) \in Nat
  OBVIOUS
<1>2. ASSUME NEW i \in DOMAIN s, i # 1 PROVE s[i] \in ToSet(Tail(s))
  <2>1. i - 1 \in 1 .. Len(Tail(s)) /\ Tail(s)[i - 1] = s[i]
    BY <1>1, <1>2
  <2>2. QED
    BY <1>1, <2>1 DEF ToSet
<1>3. QED
  BY <1>1, <1>2 DEF ToSet

\* The elements of a concatenation.
LEMMA ToSetConcat ==
    ASSUME NEW S, NEW a \in Seq(S), NEW b \in Seq(S)
    PROVE  ToSet(a \o b) = ToSet(a) \cup ToSet(b)
<1>1. /\ Len(a) \in Nat /\ Len(b) \in Nat
      /\ a \o b \in Seq(S) /\ Len(a \o b) = Len(a) + Len(b)
  OBVIOUS
<1>2. \A i \in 1 .. Len(a) + Len(b) :
         (a \o b)[i] = IF i <= Len(a) THEN a[i] ELSE b[i - Len(a)]
  OBVIOUS
<1>3. \A i \in 1 .. Len(a) + Len(b) : (a \o b)[i] \in ToSet(a) \cup ToSet(b)
  BY <1>1, <1>2 DEF ToSet
<1>4. \A i \in 1 .. Len(a) : a[i] \in ToSet(a \o b)
  BY <1>1, <1>2 DEF ToSet
<1>5. ASSUME NEW i \in 1 .. Len(b) PROVE b[i] \in ToSet(a \o b)
  <2>1. i + Len(a) \in 1 .. Len(a) + Len(b) /\ (a \o b)[i + Len(a)] = b[i]
    BY <1>1, <1>2
  <2>2. QED
    BY <1>1, <2>1 DEF ToSet
<1>6. /\ DOMAIN a = 1 .. Len(a) /\ DOMAIN b = 1 .. Len(b)
      /\ DOMAIN (a \o b) = 1 .. Len(a) + Len(b)
  BY <1>1
<1>7. ToSet(a \o b) \subseteq ToSet(a) \cup ToSet(b)
  <2>1. \A x \in ToSet(a \o b) : \E i \in 1 .. Len(a) + Len(b) : x = (a \o b)[i]
    BY <1>6 DEF ToSet
  <2>2. QED
    BY <1>3, <2>1
<1>8. ToSet(a) \subseteq ToSet(a \o b)
  <2>1. \A x \in ToSet(a) : \E i \in 1 .. Len(a) : x = a[i]
    BY <1>6 DEF ToSet
  <2>2. QED
    BY <1>4, <2>1
<1>9. ToSet(b) \subseteq ToSet(a \o b)
  <2>1. \A x \in ToSet(b) : \E i \in 1 .. Len(b) : x = b[i]
    BY <1>6 DEF ToSet
  <2>2. QED
    BY <1>5, <2>1
<1>10. QED
  BY <1>7, <1>8, <1>9

\* The elements of a sequence with one more.
LEMMA AppendFacts ==
    ASSUME NEW S, NEW s \in Seq(S), NEW x \in S
    PROVE  /\ \A i \in DOMAIN Append(s, x) :
                 \/ i \in DOMAIN s /\ Append(s, x)[i] = s[i]
                 \/ Append(s, x)[i] = x
           /\ \A i \in DOMAIN s : i \in DOMAIN Append(s, x) /\ Append(s, x)[i] = s[i]
           /\ \E i \in DOMAIN Append(s, x) : Append(s, x)[i] = x
<1>1. /\ Len(s) \in Nat /\ DOMAIN s = 1 .. Len(s)
      /\ Append(s, x) \in Seq(S) /\ Len(Append(s, x)) = Len(s) + 1
      /\ \A i \in 1 .. Len(s) : Append(s, x)[i] = s[i]
      /\ Append(s, x)[Len(s) + 1] = x
  OBVIOUS
<1>2. DOMAIN Append(s, x) = 1 .. Len(s) + 1
  BY <1>1
<1>3. QED
  BY <1>1, <1>2

\* A finite set with two different elements has more than one.
LEMMA TwoElements ==
    ASSUME NEW S, IsFiniteSet(S), NEW x \in S, NEW y \in S, x # y
    PROVE  Cardinality(S) > 1
<1>1. Cardinality(S) \in Nat /\ Cardinality(S) # 0 /\ Cardinality(S) # 1
  BY FS_CardinalityType, FS_EmptySet, FS_Singleton
<1>2. QED
  BY <1>1

----------------------------------------------------------------------------
(* The invariant. *)

\* The initial state satisfies it.
LEMMA InitInv == CmdInit => IInv
<1> SUFFICES ASSUME CmdInit PROVE IInv
  OBVIOUS
<1>1. TypeOK
  <2>1. NoCmd \in [op : Ops \cup {"none"}, keys : Seq(Key), todo : Seq(Key), args : Data]
    BY DEF NoCmd, Data
  <2>2. NoOut \in [word : {"none", "STORED", "NOT_STORED", "END"}, items : Seq(Key \X Data)]
    BY DEF NoOut
  <2>3. QED
    BY <2>1, <2>2 DEF CmdInit, TypeOK
<1>2. PlaceInv /\ SeenInv /\ KeysInv
  BY DEF CmdInit, PlaceInv, SeenInv, KeysInv, NoCmd, NoOut, Insert, TwoCalls
<1>3. SeenFinite
  BY FS_EmptySet DEF CmdInit, SeenFinite
<1>4. QED
  BY <1>1, <1>2, <1>3 DEF IInv

\* A command begins: the values that its keys have now are the first it sees.
LEMMA BeginInv ==
    ASSUME IInv, NEW t \in Thread, NEW op \in Ops, NEW keys \in Seq(Key), NEW len \in Nat,
           op \in Insert => keys # <<>>, Begin(t, op, keys, len)
    PROVE  IInv'
<1> DEFINE args == [i \in 1 .. len |-> <<t, count[t]>>]
<1>1. /\ UNCHANGED <<store, acked>>
      /\ count' = [count EXCEPT ![t] = @ + 1]
      /\ cmd' = [cmd EXCEPT ![t] = [op |-> op, keys |-> keys, todo |-> keys, args |-> args]]
      /\ tpc' = [tpc EXCEPT ![t] = op]
      /\ out' = [out EXCEPT ![t] = NoOut]
      /\ value' = [value EXCEPT ![t] = Absent]
      /\ observed' = [observed EXCEPT ![t] = [k \in Key |-> {store[k]}]]
  BY DEF Begin
<1>2. args \in Data
  <2>1. <<t, count[t]>> \in Block
    BY DEF IInv, TypeOK, Block
  <2>2. QED
    BY <2>1 DEF Data
<1> HIDE DEF args
<1>3. \A u \in Thread \ {t} : /\ tpc'[u] = tpc[u] /\ cmd'[u] = cmd[u] /\ out'[u] = out[u]
                              /\ value'[u] = value[u] /\ observed'[u] = observed[u]
  BY <1>1 DEF IInv, TypeOK
<1>4. /\ tpc'[t] = op /\ out'[t] = NoOut
      /\ cmd'[t] = [op |-> op, keys |-> keys, todo |-> keys, args |-> args]
      /\ observed'[t] = [k \in Key |-> {store[k]}]
  BY <1>1 DEF IInv, TypeOK
<1>5. TypeOK'
  <2>1. NoOut \in [word : {"none", "STORED", "NOT_STORED", "END"}, items : Seq(Key \X Data)]
    BY DEF NoOut
  <2>2. cmd' \in [Thread -> [op : Ops \cup {"none"}, keys : Seq(Key), todo : Seq(Key),
                             args : Data]]
    BY <1>1, <1>2 DEF IInv, TypeOK
  <2>3. observed' \in [Thread -> [Key -> SUBSET (Data \cup {Absent})]]
    BY <1>1 DEF IInv, TypeOK
  <2>4. QED
    BY <1>1, <2>1, <2>2, <2>3 DEF IInv, TypeOK
<1>6. PlaceInv'
  BY <1>3, <1>4 DEF IInv, PlaceInv, NoOut, Ops, Insert, TwoCalls
<1>7. SeenInv'
  <2>1. op # "append_put" /\ NoOut.items = <<>>
    BY DEF Ops, NoOut
  <2>2. QED
    BY <1>1, <1>3, <1>4, <2>1 DEF IInv, SeenInv, KeyOf
<1>8. KeysInv'
  BY <1>3, <1>4 DEF IInv, KeysInv
<1>9. SeenFinite'
  <2>1. ASSUME NEW k \in Key PROVE IsFiniteSet(observed'[t][k])
    <3>1. observed'[t][k] = {store[k]}
      BY <1>4
    <3>2. IsFiniteSet({store[k]})
      BY FS_Singleton
    <3>3. QED
      BY <3>1, <3>2
  <2>2. \A u \in Thread \ {t}, k \in Key : IsFiniteSet(observed'[u][k])
    BY <1>3 DEF IInv, SeenFinite
  <2>3. QED
    BY <2>1, <2>2 DEF SeenFinite
<1>10. QED
  BY <1>5, <1>6, <1>7, <1>8, <1>9 DEF IInv

\* A command that is not a Get ends without having stored anything.
LEMMA AnswerInv ==
    ASSUME IInv, NEW t \in Thread, tpc[t] \notin {"get", "idle"},
           NEW word \in {"STORED", "NOT_STORED", "END"}, Answer(t, word), Unstored
    PROVE  IInv'
<1>1. /\ UNCHANGED <<store, acked, observed, cmd, count>>
      /\ tpc' = [tpc EXCEPT ![t] = "idle"]
      /\ out' = [out EXCEPT ![t] = [word |-> word, items |-> <<>>]]
      /\ value' = [value EXCEPT ![t] = Absent]
  BY DEF Answer, Unstored
<1>2. \A u \in Thread \ {t} : /\ tpc'[u] = tpc[u] /\ out'[u] = out[u] /\ value'[u] = value[u]
  BY <1>1 DEF IInv, TypeOK
<1>3. tpc'[t] = "idle" /\ out'[t] = [word |-> word, items |-> <<>>]
  BY <1>1 DEF IInv, TypeOK
<1>4. cmd[t].op # "get"
  BY DEF IInv, PlaceInv
<1>5. TypeOK'
  BY <1>1 DEF IInv, TypeOK
<1>6. PlaceInv'
  BY <1>1, <1>2, <1>3, <1>4 DEF IInv, PlaceInv, Insert, TwoCalls
<1>7. SeenInv' /\ KeysInv' /\ SeenFinite'
  BY <1>1, <1>2, <1>3, <1>4 DEF IInv, SeenInv, KeysInv, SeenFinite, KeyOf
<1>8. QED
  BY <1>5, <1>6, <1>7 DEF IInv

\* A command stores a value and ends: all others see it.
LEMMA StoreInv ==
    ASSUME IInv, NEW t \in Thread, tpc[t] \in Insert, NEW k \in Key, NEW v \in Data,
           NEW gone, NEW blocks \in SUBSET Block,
           StoreTo(k, v, gone), Acked(k, blocks, gone), Answer(t, "STORED")
    PROVE  IInv'
<1>1. /\ UNCHANGED <<cmd, count>>
      /\ tpc' = [tpc EXCEPT ![t] = "idle"]
      /\ out' = [out EXCEPT ![t] = [word |-> "STORED", items |-> <<>>]]
      /\ value' = [value EXCEPT ![t] = Absent]
  BY DEF Answer
<1>2. store' \in [Key -> Data \cup {Absent}]
  BY DEF IInv, TypeOK, StoreTo
<1>3. observed' = [u \in Thread |-> [j \in Key |-> observed[u][j] \cup {store'[j]}]]
  BY DEF StoreTo
<1>4. \A u \in Thread, j \in Key : observed'[u][j] = observed[u][j] \cup {store'[j]}
  BY <1>3
<1>5. \A u \in Thread \ {t} : /\ tpc'[u] = tpc[u] /\ out'[u] = out[u] /\ value'[u] = value[u]
  BY <1>1 DEF IInv, TypeOK
<1>6. tpc'[t] = "idle" /\ out'[t] = [word |-> "STORED", items |-> <<>>]
  BY <1>1 DEF IInv, TypeOK
<1>7. cmd[t].op # "get"
  BY DEF IInv, PlaceInv, Insert, TwoCalls
<1>8. TypeOK'
  <2>1. observed' \in [Thread -> [Key -> SUBSET (Data \cup {Absent})]]
    BY <1>2, <1>3 DEF IInv, TypeOK
  <2>2. acked' \in [Key -> SUBSET Block]
    BY DEF IInv, TypeOK, Acked
  <2>3. out' \in [Thread -> [word : {"none", "STORED", "NOT_STORED", "END"},
                             items : Seq(Key \X Data)]]
    BY <1>1 DEF IInv, TypeOK
  <2>4. QED
    BY <1>1, <1>2, <2>1, <2>2, <2>3 DEF IInv, TypeOK
<1>9. PlaceInv'
  BY <1>1, <1>5, <1>6, <1>7 DEF IInv, PlaceInv, Insert, TwoCalls
<1>10. SeenInv'
  <2>1. \A u \in Thread : tpc'[u] # "idle" => \A j \in Key : store'[j] \in observed'[u][j]
    BY <1>4
  <2>2. ASSUME NEW u \in Thread, tpc'[u] = "append_put"
        PROVE  value'[u] \in Data /\ value'[u] \in observed'[u][KeyOf(u)']
    <3>1. u # t /\ tpc[u] = "append_put" /\ value'[u] = value[u]
      BY <1>5, <1>6, <2>2
    <3>2. cmd[u].keys \in Seq(Key) /\ cmd[u].keys # <<>>
      BY <3>1 DEF IInv, TypeOK, PlaceInv, Insert, TwoCalls
    <3>3. KeyOf(u)' = KeyOf(u) /\ KeyOf(u) \in Key
      BY <1>1, <3>2 DEF KeyOf
    <3>4. QED
      BY <1>4, <3>1, <3>3 DEF IInv, SeenInv
  <2>3. ASSUME NEW u \in Thread, NEW i \in DOMAIN out'[u].items
        PROVE  out'[u].items[i][2] \in observed'[u][out'[u].items[i][1]]
    <3>1. u # t /\ out'[u] = out[u]
      BY <1>5, <1>6, <2>3
    <3>2. out[u].items \in Seq(Key \X Data) /\ i \in DOMAIN out[u].items
      BY <2>3, <3>1 DEF IInv, TypeOK
    <3>3. out[u].items[i][1] \in Key
      BY <3>2
    <3>4. QED
      BY <1>4, <3>1, <3>2, <3>3 DEF IInv, SeenInv
  <2>4. QED
    BY <2>1, <2>2, <2>3 DEF SeenInv
<1>11. KeysInv'
  <2>1. \A u \in Thread : \A j \in ToSet(cmd[u].keys) : j \in Key
    <3>1. \A u \in Thread : cmd[u].keys \in Seq(Key)
      BY DEF IInv, TypeOK
    <3>2. QED
      BY <3>1 DEF ToSet
  <2>2. QED
    BY <1>1, <1>4, <1>5, <1>7, <2>1 DEF IInv, KeysInv
<1>12. SeenFinite'
  <2>1. ASSUME NEW u \in Thread, NEW j \in Key PROVE IsFiniteSet(observed'[u][j])
    <3>1. IsFiniteSet(observed[u][j])
      BY DEF IInv, SeenFinite
    <3>2. IsFiniteSet(observed[u][j] \cup {store'[j]})
      BY <3>1, FS_AddElement
    <3>3. QED
      BY <1>4, <3>2
  <2>2. QED
    BY <2>1 DEF SeenFinite
<1>13. QED
  BY <1>8, <1>9, <1>10, <1>11, <1>12 DEF IInv

\* The first half of Append or Replace has read the value of its key.
LEMMA ReadInv ==
    ASSUME IInv, NEW t \in Thread, NEW p \in TwoCalls, tpc[t] \in {"append", "replace"},
           store[KeyOf(t)] # Absent,
           value' = [value EXCEPT ![t] = store[KeyOf(t)]], StepTo(t, p), Unstored
    PROVE  IInv'
<1>1. UNCHANGED <<store, acked, observed, cmd, count, out>> /\ tpc' = [tpc EXCEPT ![t] = p]
  BY DEF StepTo, Unstored
<1>2. cmd[t].keys \in Seq(Key) /\ cmd[t].keys # <<>>
  BY DEF IInv, TypeOK, PlaceInv, Insert
<1>3. KeyOf(t) \in Key /\ \A u \in Thread : KeyOf(u)' = KeyOf(u)
  BY <1>1, <1>2 DEF KeyOf
<1>4. store[KeyOf(t)] \in Data /\ store[KeyOf(t)] \in observed[t][KeyOf(t)]
  BY <1>3 DEF IInv, TypeOK, SeenInv
<1>5. \A u \in Thread : /\ tpc'[u] = IF u = t THEN p ELSE tpc[u]
                        /\ value'[u] = IF u = t THEN store[KeyOf(t)] ELSE value[u]
  BY <1>1 DEF IInv, TypeOK
<1>6. TypeOK'
  BY <1>1, <1>4 DEF IInv, TypeOK
<1>7. PlaceInv'
  BY <1>1, <1>2, <1>5 DEF IInv, PlaceInv, TwoCalls
<1>8. SeenInv'
  BY <1>1, <1>3, <1>4, <1>5 DEF IInv, SeenInv, TwoCalls
<1>9. KeysInv' /\ SeenFinite'
  BY <1>1 DEF IInv, KeysInv, SeenFinite
<1>10. QED
  BY <1>6, <1>7, <1>8, <1>9 DEF IInv

\* Get has looked up a key: it was absent, or its value is a new item.
LEMMA GetKeyInv ==
    ASSUME IInv, NEW t \in Thread, GetKey(t) PROVE IInv'
<1> DEFINE k == Head(cmd[t].todo)
           rest == Tail(cmd[t].todo)
<1>1. /\ UNCHANGED <<store, acked, observed, tpc, count>>
      /\ tpc[t] = "get"
      /\ cmd[t].todo # <<>>
      /\ cmd' = [cmd EXCEPT ![t].todo = rest]
  BY DEF GetKey, Unstored
<1>2. cmd[t].todo \in Seq(Key)
  BY DEF IInv, TypeOK
<1>3. k \in Key /\ rest \in Seq(Key) /\ \A x \in ToSet(cmd[t].todo) : x = k \/ x \in ToSet(rest)
  BY <1>1, <1>2, HeadOrTail
<1>4. store[k] \in observed[t][k]
  BY <1>1, <1>3 DEF IInv, SeenInv
<1> DEFINE item == <<k, store[k]>>
<1>5. /\ \/ store[k] = Absent /\ out'[t].items = out[t].items
         \/ item \in Key \X Data /\ out'[t].items = Append(out[t].items, item)
      /\ \A u \in Thread \ {t} : out'[u].items = out[u].items
      /\ \A u \in Thread : out'[u].word = out[u].word
      /\ out' \in [Thread -> [word : {"none", "STORED", "NOT_STORED", "END"},
                              items : Seq(Key \X Data)]]
      /\ value' \in [Thread -> Data \cup {Absent}]
  <2>1. out \in [Thread -> [word : {"none", "STORED", "NOT_STORED", "END"},
                            items : Seq(Key \X Data)]]
    BY DEF IInv, TypeOK
  <2>2. CASE store[k] = Absent
    <3>1. UNCHANGED <<value, out>>
      BY <2>2 DEF GetKey
    <3>2. QED
      BY <2>1, <2>2, <3>1 DEF IInv, TypeOK
  <2>3. CASE store[k] # Absent
    <3>1. /\ value' = [value EXCEPT ![t] = store[k]]
          /\ out' = [out EXCEPT ![t].items = Append(@, item)]
      BY <2>3 DEF GetKey
    <3>2. store[k] \in Data
      BY <1>3, <2>3 DEF IInv, TypeOK
    <3>3. item \in Key \X Data
      BY <1>3, <3>2
    <3> HIDE DEF item
    <3>4. Append(out[t].items, item) \in Seq(Key \X Data)
      BY <2>1, <3>3
    <3>5. out' \in [Thread -> [word : {"none", "STORED", "NOT_STORED", "END"},
                               items : Seq(Key \X Data)]]
      BY <2>1, <3>1, <3>4
    <3>6. value' \in [Thread -> Data \cup {Absent}]
      BY <3>1, <3>2 DEF IInv, TypeOK
    <3>7. QED
      BY <2>1, <3>1, <3>3, <3>5, <3>6
  <2>4. QED
    BY <2>2, <2>3
<1>6. /\ \A u \in Thread : cmd'[u].op = cmd[u].op /\ cmd'[u].keys = cmd[u].keys
      /\ \A u \in Thread : cmd'[u].todo = IF u = t THEN rest ELSE cmd[u].todo
  BY <1>1 DEF IInv, TypeOK
<1>7. TypeOK'
  <2>1. cmd' \in [Thread -> [op : Ops \cup {"none"}, keys : Seq(Key), todo : Seq(Key),
                             args : Data]]
    <3> DEFINE K == Seq(Key)
               O == Ops \cup {"none"}
    <3>1. cmd \in [Thread -> [op : O, keys : K, todo : K, args : Data]] /\ rest \in K
      BY <1>3 DEF IInv, TypeOK
    <3> HIDE DEF K, O, rest
    <3>2. cmd' \in [Thread -> [op : O, keys : K, todo : K, args : Data]]
      BY <1>1, <3>1
    <3>3. QED
      BY <3>2 DEF K, O
  <2>2. QED
    BY <1>1, <1>5, <2>1 DEF IInv, TypeOK
<1>8. PlaceInv'
  <2>1. out[t].word # "END"
    BY <1>1 DEF IInv, PlaceInv
  <2>2. \A u \in Thread : /\ tpc'[u] = tpc[u] /\ cmd'[u].op = cmd[u].op
                          /\ cmd'[u].keys = cmd[u].keys /\ out'[u].word = out[u].word
                          /\ u # t => cmd'[u].todo = cmd[u].todo
    BY <1>1, <1>5, <1>6
  <2>3. QED
    BY <2>1, <2>2 DEF IInv, PlaceInv
<1>9. /\ \A i \in DOMAIN out'[t].items :
            \/ i \in DOMAIN out[t].items /\ out'[t].items[i] = out[t].items[i]
            \/ out'[t].items[i] = item
      /\ \A i \in DOMAIN out[t].items :
            i \in DOMAIN out'[t].items /\ out'[t].items[i] = out[t].items[i]
      /\ store[k] # Absent => \E i \in DOMAIN out'[t].items : out'[t].items[i] = item
  <2> HIDE DEF item
  <2>1. out[t].items \in Seq(Key \X Data)
    BY DEF IInv, TypeOK
  <2>2. CASE store[k] = Absent /\ out'[t].items = out[t].items
    BY <2>2
  <2>3. CASE item \in Key \X Data /\ out'[t].items = Append(out[t].items, item)
    <3> DEFINE s == out[t].items
               S == Key \X Data
    <3>1. s \in Seq(S) /\ item \in S /\ out'[t].items = Append(s, item)
      BY <2>1, <2>3
    <3> HIDE DEF s, S
    <3>2. /\ \A i \in DOMAIN Append(s, item) :
                \/ i \in DOMAIN s /\ Append(s, item)[i] = s[i]
                \/ Append(s, item)[i] = item
          /\ \A i \in DOMAIN s : i \in DOMAIN Append(s, item) /\ Append(s, item)[i] = s[i]
          /\ \E i \in DOMAIN Append(s, item) : Append(s, item)[i] = item
      BY <3>1, AppendFacts
    <3>3. QED
      BY <3>1, <3>2, Zenon DEF s
  <2>4. QED
    BY <1>5, <2>2, <2>3
<1>10. SeenInv'
  <2>1. \A i \in DOMAIN out'[t].items : out'[t].items[i][2] \in observed[t][out'[t].items[i][1]]
    BY <1>4, <1>9 DEF IInv, SeenInv
  <2>2. \A u \in Thread \ {t} : out'[u].items = out[u].items
    BY <1>5
  <2>3. \A u \in Thread : tpc[u] = "append_put" => value'[u] = value[u]
    BY <1>1 DEF GetKey, IInv, TypeOK
  <2>4. QED
    BY <1>1, <1>6, <2>1, <2>2, <2>3 DEF IInv, SeenInv, KeyOf
<1>11. KeysInv'
  <2> SUFFICES ASSUME NEW u \in Thread, cmd[u].op = "get", NEW j \in ToSet(cmd[u].keys)
               PROVE  \/ j \in ToSet(cmd'[u].todo)
                      \/ Absent \in observed[u][j]
                      \/ \E i \in DOMAIN out'[u].items : out'[u].items[i][1] = j
    BY <1>1, <1>6 DEF KeysInv
  <2>1. \/ j \in ToSet(cmd[u].todo)
        \/ Absent \in observed[u][j]
        \/ \E i \in DOMAIN out[u].items : out[u].items[i][1] = j
    BY DEF IInv, KeysInv
  <2>2. CASE u # t
    BY <1>5, <1>6, <2>1, <2>2
  <2>3. CASE u = t
    BY <1>3, <1>4, <1>6, <1>9, <2>1, <2>3
  <2>4. QED
    BY <2>2, <2>3
<1>12. SeenFinite'
  BY <1>1 DEF IInv, SeenFinite
<1>13. QED
  BY <1>7, <1>8, <1>10, <1>11, <1>12 DEF IInv

\* A Get ends when all keys have been looked up.
LEMMA GetEndInv ==
    ASSUME IInv, NEW t \in Thread, GetEnd(t) PROVE IInv'
<1>1. /\ UNCHANGED <<store, acked, observed, cmd, count>>
      /\ tpc[t] = "get" /\ cmd[t].todo = <<>>
      /\ tpc' = [tpc EXCEPT ![t] = "idle"]
      /\ out' = [out EXCEPT ![t].word = "END"]
      /\ value' = [value EXCEPT ![t] = Absent]
  BY DEF GetEnd, Unstored
<1>2. /\ \A u \in Thread : out'[u].items = out[u].items
      /\ \A u \in Thread \ {t} : out'[u].word = out[u].word /\ value'[u] = value[u]
      /\ \A u \in Thread : tpc'[u] = IF u = t THEN "idle" ELSE tpc[u]
  BY <1>1 DEF IInv, TypeOK
<1>3. TypeOK'
  BY <1>1 DEF IInv, TypeOK
<1>4. PlaceInv'
  BY <1>1, <1>2 DEF IInv, PlaceInv, Insert, TwoCalls
<1>5. SeenInv' /\ KeysInv' /\ SeenFinite'
  BY <1>1, <1>2 DEF IInv, SeenInv, KeysInv, SeenFinite, KeyOf
<1>6. QED
  BY <1>3, <1>4, <1>5 DEF IInv

\* The key and the argument of a command that stores.
LEMMA InsertFacts ==
    ASSUME IInv, NEW t \in Thread, tpc[t] \in Insert
    PROVE  /\ KeyOf(t) \in Key /\ cmd[t].args \in Data
           /\ BlocksOf(t) \in SUBSET Block
<1>1. cmd[t].keys \in Seq(Key) /\ cmd[t].keys # <<>> /\ cmd[t].args \in Seq(Block)
  BY DEF IInv, TypeOK, PlaceInv, Data
<1>2. \A i \in DOMAIN cmd[t].args : cmd[t].args[i] \in Block
  BY <1>1
<1>3. QED
  BY <1>1, <1>2 DEF KeyOf, BlocksOf, ToSet, Data

\* Every step preserves the invariant.
LEMMA StepInv == IInv /\ [CmdNext]_cmdVars => IInv'
<1> SUFFICES ASSUME IInv, [CmdNext]_cmdVars PROVE IInv'
  OBVIOUS
<1>1. CASE UNCHANGED cmdVars
  <2>1. /\ store' = store /\ tpc' = tpc /\ cmd' = cmd /\ value' = value
        /\ out' = out /\ count' = count /\ acked' = acked /\ observed' = observed
    BY <1>1 DEF cmdVars
  <2>2. TypeOK' /\ PlaceInv'
    BY <2>1 DEF IInv, TypeOK, PlaceInv
  <2>3. SeenInv' /\ KeysInv' /\ SeenFinite'
    BY <2>1 DEF IInv, SeenInv, KeysInv, SeenFinite, KeyOf
  <2>4. QED
    BY <2>2, <2>3 DEF IInv
<1>2. ASSUME NEW t \in Thread, NEW op \in Ops \ {"get", "stats"}, NEW k \in Key,
             NEW len \in {1, MaxLen + 1}, Begin(t, op, <<k>>, len)
      PROVE  IInv'
  <2>1. <<k>> \in Seq(Key) /\ <<k>> # <<>> /\ len \in Nat
    OBVIOUS
  <2>2. QED
    BY <1>2, <2>1, BeginInv
<1>3. ASSUME NEW t \in Thread, NEW keys \in SetToAllKPermutations(Key), Begin(t, "get", keys, 0)
      PROVE  IInv'
  <2>1. keys \in Seq(Key) /\ "get" \in Ops /\ "get" \notin Insert
    BY KeysAreSeq DEF Ops, Insert, TwoCalls
  <2>2. QED
    BY <1>3, <2>1, BeginInv
<1>4. ASSUME NEW t \in Thread, Begin(t, "stats", <<>>, 0) PROVE IInv'
  <2>1. <<>> \in Seq(Key) /\ "stats" \in Ops /\ "stats" \notin Insert /\ 0 \in Nat
    BY DEF Ops, Insert, TwoCalls
  <2>2. QED
    BY <1>4, <2>1, BeginInv
<1>5. ASSUME NEW t \in Thread, NEW gone, SetExecute(t, gone) PROVE IInv'
  <2>1. tpc[t] = "set" /\ tpc[t] \in Insert /\ Answer(t, "STORED")
    BY <1>5 DEF SetExecute, Insert
  <2>2. CASE Unstored
    BY <2>1, <2>2, AnswerInv
  <2>3. CASE ~Unstored
    <3>1. StoreTo(KeyOf(t), cmd[t].args, gone) /\ Acked(KeyOf(t), BlocksOf(t), gone)
      BY <1>5, <2>3 DEF SetExecute, PutOK
    <3>2. QED
      BY <2>1, <3>1, InsertFacts, StoreInv
  <2>4. QED
    BY <2>2, <2>3
<1>6. ASSUME NEW t \in Thread, NEW gone, AddExecute(t, gone) PROVE IInv'
  <2>1. tpc[t] = "add" /\ tpc[t] \in Insert
    BY <1>6 DEF AddExecute, Insert
  <2>2. CASE Unstored /\ Answer(t, "NOT_STORED")
    BY <2>1, <2>2, AnswerInv
  <2>3. CASE ~(Unstored /\ Answer(t, "NOT_STORED"))
    <3>1. /\ StoreTo(KeyOf(t), cmd[t].args, gone) /\ Acked(KeyOf(t), BlocksOf(t), gone)
          /\ Answer(t, "STORED")
      BY <1>6, <2>3 DEF AddExecute, PutIfAbsentOK
    <3>2. QED
      BY <2>1, <3>1, InsertFacts, StoreInv
  <2>4. QED
    BY <2>2, <2>3
<1>7. ASSUME NEW t \in Thread, AppendGet(t) PROVE IInv'
  <2>1. tpc[t] = "append" /\ Unstored
    BY <1>7 DEF AppendGet
  <2>2. CASE Answer(t, "NOT_STORED")
    BY <2>1, <2>2, AnswerInv
  <2>3. CASE ~Answer(t, "NOT_STORED")
    <3>1. /\ store[KeyOf(t)] # Absent /\ value' = [value EXCEPT ![t] = store[KeyOf(t)]]
          /\ StepTo(t, "append_put")
      BY <1>7, <2>3 DEF AppendGet
    <3>2. QED
      BY <2>1, <3>1, ReadInv DEF TwoCalls
  <2>4. QED
    BY <2>2, <2>3
<1>8. ASSUME NEW t \in Thread, NEW gone, AppendPut(t, gone) PROVE IInv'
  <2>1. tpc[t] = "append_put" /\ tpc[t] \in Insert /\ Answer(t, "STORED")
    BY <1>8 DEF AppendPut, Insert, TwoCalls
  <2>2. CASE Unstored
    BY <2>1, <2>2, AnswerInv
  <2>3. CASE ~Unstored
    <3>1. /\ StoreTo(KeyOf(t), value[t] \o cmd[t].args, gone)
          /\ Acked(KeyOf(t), acked[KeyOf(t)] \cup BlocksOf(t), gone)
      BY <1>8, <2>3 DEF AppendPut, PutOK
    <3>2. KeyOf(t) \in Key /\ cmd[t].args \in Data /\ BlocksOf(t) \in SUBSET Block
      BY <2>1, InsertFacts
    <3>3. value[t] \o cmd[t].args \in Data
      BY <2>1, <3>2 DEF IInv, SeenInv, Data
    <3>4. acked[KeyOf(t)] \cup BlocksOf(t) \in SUBSET Block
      BY <3>2 DEF IInv, TypeOK
    <3>5. QED
      BY <2>1, <3>1, <3>2, <3>3, <3>4, StoreInv
  <2>4. QED
    BY <2>2, <2>3
<1>9. ASSUME NEW t \in Thread, ReplaceGet(t) PROVE IInv'
  <2>1. tpc[t] = "replace" /\ Unstored
    BY <1>9 DEF ReplaceGet
  <2>2. CASE Answer(t, "NOT_STORED")
    BY <2>1, <2>2, AnswerInv
  <2>3. CASE ~Answer(t, "NOT_STORED")
    <3>1. /\ store[KeyOf(t)] # Absent /\ value' = [value EXCEPT ![t] = store[KeyOf(t)]]
          /\ StepTo(t, "replace_set")
      BY <1>9, <2>3 DEF ReplaceGet
    <3>2. QED
      BY <2>1, <3>1, ReadInv DEF TwoCalls
  <2>4. QED
    BY <2>2, <2>3
<1>10. ASSUME NEW t \in Thread, NEW gone, ReplaceSet(t, gone) PROVE IInv'
  <2>1. tpc[t] = "replace_set" /\ tpc[t] \in Insert /\ Answer(t, "STORED")
    BY <1>10 DEF ReplaceSet, Insert, TwoCalls
  <2>2. CASE Unstored
    BY <2>1, <2>2, AnswerInv
  <2>3. CASE ~Unstored
    <3>1. StoreTo(KeyOf(t), cmd[t].args, gone) /\ Acked(KeyOf(t), BlocksOf(t), gone)
      BY <1>10, <2>3 DEF ReplaceSet, SetOK, PutOK
    <3>2. QED
      BY <2>1, <3>1, InsertFacts, StoreInv
  <2>4. QED
    BY <2>2, <2>3
<1>11. ASSUME NEW t \in Thread, StatsExecute(t) PROVE IInv'
  BY <1>11, AnswerInv DEF StatsExecute
<1>12. QED
  BY <1>1, <1>2, <1>3, <1>4, <1>5, <1>6, <1>7, <1>8, <1>9, <1>10, <1>11,
     GetKeyInv, GetEndInv DEF CmdNext

\* The invariant holds in every reachable state.
THEOREM Invariance == CmdSpec => []IInv
<1>1. QED
  BY InitInv, StepInv, PTL DEF CmdSpec

\* Type correctness.
THEOREM TypeCorrect == CmdSpec => []TypeOK
<1>1. IInv => TypeOK
  BY DEF IInv
<1>2. QED
  BY <1>1, Invariance, PTL

\* The answer of a Get: every item is a value of its key from the time of the
\* command, every key that is left out was absent at some time of it.
THEOREM GetSoundHolds == CmdSpec => []GetSound
<1>1. IInv => GetSound
  <2> SUFFICES ASSUME IInv, NEW t \in Thread
               PROVE  /\ \A i \in DOMAIN out[t].items :
                            out[t].items[i][2] \in observed[t][out[t].items[i][1]]
                      /\ cmd[t].op = "get" /\ out[t].word = "END" =>
                            \A k \in ToSet(cmd[t].keys) :
                                \/ Absent \in observed[t][k]
                                \/ \E i \in DOMAIN out[t].items : out[t].items[i][1] = k
    BY DEF GetSound
  <2>1. ToSet(<<>>) = {}
    BY DEF ToSet
  <2>2. cmd[t].op = "get" /\ out[t].word = "END" => cmd[t].todo = <<>>
    BY DEF IInv, PlaceInv
  <2>3. QED
    BY <2>1, <2>2 DEF IInv, SeenInv, KeysInv
<1>2. QED
  BY <1>1, Invariance, PTL

----------------------------------------------------------------------------
(* Acknowledged data. *)

\* A value that contains all acknowledged blocks is stored: nothing is lost.
LEMMA StoredKept ==
    ASSUME IInv, NEW k \in Key, NEW j \in Key, NEW v, NEW gone, NEW blocks,
           StoreTo(j, v, gone), Acked(j, blocks, gone), blocks \subseteq ToSet(v),
           Kept(k), k \in Present'
    PROVE  Kept(k)'
<1>1. store'[k] = IF k = j THEN v ELSE IF k \in gone THEN Absent ELSE store[k]
  BY DEF StoreTo
<1>2. acked'[k] = IF k = j THEN blocks ELSE IF k \in gone THEN {} ELSE acked[k]
  BY DEF Acked
<1>3. QED
  BY <1>1, <1>2 DEF Kept

\* A step that loses acknowledged data is an Append that writes back an old value.
LEMMA LostByRace ==
    ASSUME IInv, CmdNext, NEW k \in Present, Kept(k), k \in Present', ~Kept(k)'
    PROVE  \E t \in Thread : /\ tpc[t] = "append_put" /\ tpc'[t] = "idle"
                              /\ KeyOf(t) = k
                              /\ Cardinality(observed[t][k]) > 1
<1>0. k \in Key
  BY DEF Present
<1>1. ~UNCHANGED <<store, acked>>
  BY DEF Kept
<1>2. ~Unstored
  BY <1>1 DEF Unstored
<1>3. PICK t \in Thread, gone \in SUBSET Key :
         SetExecute(t, gone) \/ AddExecute(t, gone) \/ AppendPut(t, gone) \/ ReplaceSet(t, gone)
  BY <1>1, <1>2 DEF CmdNext, Begin, AppendGet, ReplaceGet, GetKey, GetEnd, StatsExecute
<1>4. CASE SetExecute(t, gone) \/ AddExecute(t, gone) \/ ReplaceSet(t, gone)
  <2>1. tpc[t] \in Insert
    BY <1>4 DEF SetExecute, AddExecute, ReplaceSet, Insert, TwoCalls
  <2>2. /\ StoreTo(KeyOf(t), cmd[t].args, gone)
        /\ Acked(KeyOf(t), BlocksOf(t), gone)
    BY <1>2, <1>4 DEF SetExecute, AddExecute, ReplaceSet, PutOK, SetOK, PutIfAbsentOK
  <2>3. KeyOf(t) \in Key /\ BlocksOf(t) \subseteq ToSet(cmd[t].args)
    BY <2>1, InsertFacts DEF BlocksOf
  <2>4. QED
    BY <1>0, <2>2, <2>3, StoredKept
<1>5. CASE AppendPut(t, gone)
  <2> DEFINE v == value[t] \o cmd[t].args
  <2>1. tpc[t] = "append_put" /\ tpc[t] \in Insert /\ Answer(t, "STORED")
    BY <1>5 DEF AppendPut, Insert, TwoCalls
  <2>2. tpc'[t] = "idle"
    BY <2>1 DEF Answer, IInv, TypeOK
  <2>3. /\ StoreTo(KeyOf(t), v, gone)
        /\ Acked(KeyOf(t), acked[KeyOf(t)] \cup BlocksOf(t), gone)
    BY <1>2, <1>5 DEF AppendPut, PutOK
  <2>4. KeyOf(t) \in Key /\ cmd[t].args \in Data
    BY <2>1, InsertFacts
  <2>5. value[t] \in Data /\ value[t] \in observed[t][KeyOf(t)] /\ store[KeyOf(t)] \in observed[t][KeyOf(t)]
    BY <2>1, <2>4 DEF IInv, SeenInv
  <2>6. ToSet(v) = ToSet(value[t]) \cup BlocksOf(t)
    BY <2>4, <2>5, ToSetConcat DEF Data, BlocksOf
  <2> HIDE DEF v
  <2>7. KeyOf(t) = k
    <3>1. SUFFICES ASSUME KeyOf(t) # k PROVE FALSE
      OBVIOUS
    <3>2. store'[k] = IF k \in gone THEN Absent ELSE store[k]
      BY <1>0, <2>3, <3>1 DEF StoreTo
    <3>3. acked'[k] = IF k \in gone THEN {} ELSE acked[k]
      BY <1>0, <2>3, <3>1 DEF Acked
    <3>4. QED
      BY <3>2, <3>3 DEF Kept
  <2>8. value[t] # store[k]
    <3>1. SUFFICES ASSUME value[t] = store[k] PROVE FALSE
      OBVIOUS
    <3>2. acked[k] \cup BlocksOf(t) \subseteq ToSet(v)
      BY <2>6, <3>1 DEF Kept
    <3>3. QED
      BY <1>0, <2>3, <2>4, <2>7, <3>2, StoredKept
  <2>9. IsFiniteSet(observed[t][k])
    BY <1>0 DEF IInv, SeenFinite
  <2>10. Cardinality(observed[t][k]) > 1
    BY <2>5, <2>7, <2>8, <2>9, TwoElements
  <2>11. QED
    BY <2>1, <2>2, <2>7, <2>10
<1>6. QED
  BY <1>3, <1>4, <1>5

\* Acknowledged data leaves a value that stays only when an Append stores a
\* value it read before another command changed the key.
THEOREM AppendLostByRaceOnlyHolds == CmdSpec => AppendLostByRaceOnly
<1>1. IInv /\ [CmdNext]_cmdVars =>
        [\A k \in Present : Kept(k) /\ k \in Present' /\ ~Kept(k)' =>
            \E t \in Thread : /\ tpc[t] = "append_put" /\ tpc'[t] = "idle"
                               /\ KeyOf(t) = k
                               /\ Cardinality(observed[t][k]) > 1]_cmdVars
  BY LostByRace
<1>2. QED
  BY <1>1, Invariance, PTL DEF CmdSpec, AppendLostByRaceOnly
=============================================================================
