-------------------------- MODULE SimpleLRUProofs --------------------------
(***************************************************************************)
(* Proofs about SimpleLRU for every set of keys, values and addresses, all *)
(* sizes, every limit and every word size.                                 *)
(***************************************************************************)
EXTENDS SimpleLRU, FiniteSetTheorems, TLAPS

\* The parts of the list structure that hold between the steps of a running
\* object.
ListShape ==
    /\ NextIsSuccessor
    /\ StampsDistinct
    /\ HeadIsOldest
    /\ PrevInvertsNext
    /\ IndexMatchesList

\* Where _remove_node survives, at either end of a list of several nodes, the
\* list stays well formed.
LEMMA RemoveKeepsList ==
    ASSUME TypeOK, ListShape, NEW n \in live, ~RemoveCrashes(n),
           RemoveNode(n), clock' = clock
    PROVE  /\ NextIsSuccessor'
           /\ StampsDistinct'
           /\ HeadIsOldest'
           /\ PrevInvertsNext'
           /\ IndexMatchesList'
           /\ head' # Null
<1>n. n \in Node
  BY DEF TypeOK
<1>nn. Null \notin Node
  BY LRUAssumption
<1>a. /\ live' = live \ {n}
      /\ stamp' = [stamp EXCEPT ![n] = 0]
      /\ key' = [key EXCEPT ![n] = Null]
      /\ val' = [val EXCEPT ![n] = Null]
      /\ index' = [index EXCEPT ![key[n]] = Null]
  BY DEF RemoveNode
<1>1. StampsDistinct'
  BY <1>a, <1>n DEF StampsDistinct, ListShape, TypeOK
<1>2. IndexMatchesList'
  BY <1>a, <1>n, <1>nn, LRUAssumption DEF IndexMatchesList, ListShape, TypeOK
<1>3. CASE n = head
  <2>1. /\ head' = next[n]
        /\ next' = [next EXCEPT ![n] = Null]
        /\ prev' = [prev EXCEPT ![next[n]] = Null]
        /\ tail' = tail
    BY <1>3 DEF RemoveNode
  <2>2. next[n] # Null /\ next[n] \in live /\ next[n] # n
    BY <1>3, <1>n DEF RemoveCrashes, ListShape, NextIsSuccessor, TypeOK
  <2>3. \A x \in live : next[x] # n
    BY <1>3, <1>n, <1>nn DEF ListShape, NextIsSuccessor, HeadIsOldest, TypeOK
  <2>4. NextIsSuccessor'
    BY <1>a, <1>n, <1>nn, <2>1, <2>2, <2>3 DEF ListShape, NextIsSuccessor, TypeOK
  <2>5. HeadIsOldest'
    <3>1. head' \in live' /\ live' \subseteq live
      BY <1>a, <2>1, <2>2
    <3>2. \A x \in live' : stamp'[x] = stamp[x] /\ x # n /\ stamp[x] \in Nat
      BY <1>a DEF TypeOK
    <3>3. \A x \in live : stamp[x] <= stamp[n] \/ stamp[next[n]] <= stamp[x]
      BY <1>3, <2>2 DEF ListShape, NextIsSuccessor
    <3>4. \A x \in live : stamp[n] <= stamp[x] /\ (stamp[x] = stamp[n] => x = n)
      BY <1>3, <1>n DEF ListShape, HeadIsOldest, StampsDistinct
    <3>5. stamp[n] \in Nat /\ \A x \in live' : x \in live
      BY <1>n, <3>1 DEF TypeOK
    <3>6. \A x \in live' : stamp'[head'] <= stamp'[x]
      BY <2>1, <3>1, <3>2, <3>3, <3>4, <3>5
    <3>7. head' # Null
      BY <1>nn, <2>1, <2>2
    <3>8. QED
      BY <3>1, <3>6, <3>7 DEF HeadIsOldest
  <2>6. tail # n
    BY <1>3, <1>n, <2>2, <1>nn DEF ListShape, PrevInvertsNext
  <2>7. PrevInvertsNext'
    BY <1>3, <1>a, <1>n, <1>nn, <2>1, <2>2, <2>3, <2>6
       DEF ListShape, PrevInvertsNext, NextIsSuccessor, TypeOK
  <2> QED
    BY <1>1, <1>2, <2>1, <2>2, <2>4, <2>5, <2>7
<1>4. CASE n # head
  <2>h. head \in live /\ head # Null
    BY <1>nn, <1>n DEF ListShape, HeadIsOldest
  <2>p. prev[n] \in live /\ next[prev[n]] = n /\ prev[n] # n
    BY <1>4, <1>n, <1>nn DEF ListShape, PrevInvertsNext, NextIsSuccessor, TypeOK
  <2>1. CASE n = tail
    <3>1. /\ head' = head
          /\ next' = [next EXCEPT ![prev[n]] = Null]
          /\ prev' = [prev EXCEPT ![n] = Null]
          /\ tail' = prev[n]
      BY <1>4, <2>1 DEF RemoveNode
    <3>2. next[n] = Null /\ \A x \in live : stamp[x] <= stamp[n]
      BY <2>1, <1>nn, <1>n DEF ListShape, PrevInvertsNext, NextIsSuccessor
    <3>3. \A x \in live : next[x] = n => x = prev[n]
      BY <1>n, <1>nn DEF ListShape, PrevInvertsNext
    <3>4. NextIsSuccessor'
      BY <1>a, <1>n, <1>nn, <2>p, <3>1, <3>2, <3>3
         DEF ListShape, NextIsSuccessor, StampsDistinct, TypeOK
    <3>5. HeadIsOldest'
      BY <1>4, <1>a, <1>n, <2>h, <3>1 DEF ListShape, HeadIsOldest, TypeOK
    <3>6. PrevInvertsNext'
      BY <1>4, <1>a, <1>n, <1>nn, <2>h, <2>p, <3>1, <3>2, <3>3
         DEF ListShape, PrevInvertsNext, NextIsSuccessor, TypeOK
    <3> QED
      BY <1>1, <1>2, <2>h, <3>1, <3>4, <3>5, <3>6
  <2>2. n = tail
    BY <1>4 DEF RemoveCrashes
  <2> QED
    BY <2>1, <2>2
<1> QED
  BY <1>3, <1>4

\* What follows from the list structure about any node that is not the tail.
LEMMA NotTail ==
    ASSUME TypeOK, ListShape, NEW n \in live, n # tail
    PROVE  /\ tail \in live
           /\ next[tail] = Null
           /\ \A x \in live : stamp[x] <= stamp[tail]
           /\ stamp[n] < stamp[tail]
           /\ next[n] # Null
           /\ next[n] \in live
           /\ next[n] # n
<1>1. n \in Node /\ Null \notin Node /\ live \subseteq Node
  BY LRUAssumption DEF TypeOK
<1>2. tail \in live /\ next[tail] = Null
  BY <1>1 DEF ListShape, PrevInvertsNext, HeadIsOldest
<1>3. \A x \in live : stamp[x] <= stamp[tail]
  BY <1>2 DEF ListShape, NextIsSuccessor
<1>4. stamp[n] < stamp[tail]
  BY <1>1, <1>2, <1>3 DEF ListShape, StampsDistinct, TypeOK
<1>5. next[n] # Null
  BY <1>1, <1>2, <1>4 DEF ListShape, NextIsSuccessor, TypeOK
<1>6. next[n] \in live /\ next[n] # n
  BY <1>1, <1>5 DEF ListShape, NextIsSuccessor, TypeOK
<1> QED
  BY <1>2, <1>3, <1>4, <1>5, <1>6

\* Moving a node to the fresh end keeps the list well formed and ordered by
\* freshness: the branches of _move_to_fresh_data.
LEMMA MoveKeepsList ==
    ASSUME TypeOK, ListShape, NEW n \in live, MoveToFresh(n), Touch(n),
           live' = live, key' = key, index' = index,
           \A m \in live : val'[m] \in Value
    PROVE  /\ NextIsSuccessor'
           /\ StampsDistinct'
           /\ HeadIsOldest'
           /\ PrevInvertsNext'
           /\ IndexMatchesList'
           /\ head' # Null
<1>n. n \in Node /\ Null \notin Node /\ live \subseteq Node
  BY LRUAssumption DEF TypeOK
<1>h. head \in live /\ head # Null
  BY <1>n DEF ListShape, HeadIsOldest
<1>i. IndexMatchesList'
  BY DEF IndexMatchesList, ListShape
<1>1. CASE n = tail
  <2>1. next[n] = Null
    BY <1>n, <1>1 DEF ListShape, PrevInvertsNext
  <2>2. Freshest(n)
    BY <2>1 DEF Freshest, ListShape, NextIsSuccessor
  <2>3. UNCHANGED <<next, prev, head, tail, stamp, clock>>
    BY <1>1, <2>2 DEF MoveToFresh, Touch
  <2> QED
    BY <2>3, <1>i, <1>h DEF ListShape, NextIsSuccessor, StampsDistinct, HeadIsOldest, PrevInvertsNext
<1>2. CASE n # tail
  <2>1. /\ tail \in live
        /\ next[tail] = Null
        /\ \A x \in live : stamp[x] <= stamp[tail]
        /\ stamp[n] < stamp[tail]
        /\ next[n] # Null
        /\ next[n] \in live
        /\ next[n] # n
    BY <1>2, NotTail
  <2>2. ~Freshest(n)
    BY <1>n, <2>1 DEF Freshest, TypeOK
  <2>3. stamp' = [stamp EXCEPT ![n] = clock] /\ clock' = clock + 1
    BY <2>2 DEF Touch
  <2>4. /\ stamp'[n] = clock
        /\ \A x \in live : x # n => stamp'[x] = stamp[x]
        /\ \A x \in live : stamp[x] < clock
        /\ \A x \in live : stamp[x] \in Nat
        /\ clock \in Nat
    BY <1>n, <2>3 DEF TypeOK, ListShape, StampsDistinct
  <2>5. StampsDistinct'
    BY <2>3, <2>4 DEF StampsDistinct, ListShape
  <2>6. /\ tail' = n
        /\ prev' = [prev EXCEPT ![next[n]] = IF n = head THEN Null ELSE prev[n],
                                ![n] = tail]
    BY <1>2 DEF MoveToFresh
  <2>7. /\ prev'[n] = tail
        /\ prev'[next[n]] = IF n = head THEN Null ELSE prev[n]
        /\ \A x \in live : x # n /\ x # next[n] => prev'[x] = prev[x]
    BY <1>n, <2>1, <2>6 DEF TypeOK
  <2>8. \A x \in live : next[x] = n => x = prev[n]
    BY <1>n DEF ListShape, PrevInvertsNext
  <2>9. \A x \in live : next[x] = Null => x = tail
    BY <2>1, <1>n DEF ListShape, NextIsSuccessor, StampsDistinct, TypeOK
  <2>10. CASE n = head
    <3>1. head' = next[n] /\ next' = [next EXCEPT ![tail] = n, ![n] = Null]
      BY <1>2, <2>10 DEF MoveToFresh
    <3>2. /\ next'[n] = Null /\ next'[tail] = n
          /\ \A x \in live : x # n /\ x # tail => next'[x] = next[x]
      BY <1>n, <1>2, <2>1, <3>1 DEF TypeOK
    <3>3. \A x \in live : next[x] # n
      BY <1>n, <2>10 DEF ListShape, NextIsSuccessor, HeadIsOldest, TypeOK
    <3>4. NextIsSuccessor'
      BY <1>n, <1>2, <2>1, <2>4, <2>9, <3>2, <3>3 DEF ListShape, NextIsSuccessor
    <3>5. HeadIsOldest'
      BY <1>n, <2>1, <2>4, <2>10, <3>1
         DEF ListShape, HeadIsOldest, NextIsSuccessor, StampsDistinct
    <3>6. PrevInvertsNext'
      <4>1. \A m \in live : next'[m] # Null => prev'[next'[m]] = m
        BY <1>n, <1>2, <2>1, <2>7, <2>9, <3>2, <3>3
           DEF ListShape, PrevInvertsNext, NextIsSuccessor
      <4>2. prev'[head'] = Null
        BY <2>7, <2>10, <3>1
      <4>3. \A m \in live : m # head' => prev'[m] \in live /\ next'[prev'[m]] = m
        <5> SUFFICES ASSUME NEW m \in live, m # next[n]
                     PROVE  prev'[m] \in live /\ next'[prev'[m]] = m
          BY <3>1
        <5>1. CASE m = n
          BY <2>1, <2>7, <3>2, <5>1
        <5>2. CASE m # n
          <6>1. prev'[m] = prev[m]
            BY <2>7, <5>2
          <6>2. prev[m] \in live /\ next[prev[m]] = m
            BY <2>10, <5>2 DEF ListShape, PrevInvertsNext
          <6>3. prev[m] # n /\ prev[m] # tail
            BY <1>n, <2>1, <6>2
          <6> QED
            BY <3>2, <6>1, <6>2, <6>3
        <5> QED
          BY <5>1, <5>2
      <4> QED
        BY <1>n, <2>1, <2>6, <3>1, <3>2, <4>1, <4>2, <4>3 DEF PrevInvertsNext
    <3> QED
      BY <1>i, <2>1, <2>5, <3>1, <3>4, <3>5, <3>6
  <2>11. CASE n # head
    <3>1. /\ head' = head
          /\ next' = [next EXCEPT ![prev[n]] = next[n], ![tail] = n, ![n] = Null]
      BY <1>2, <2>11 DEF MoveToFresh
    <3>p. /\ prev[n] \in live /\ next[prev[n]] = n
          /\ stamp[prev[n]] < stamp[n]
          /\ prev[n] # n /\ prev[n] # tail /\ prev[n] # next[n]
          /\ stamp[n] < stamp[next[n]]
      BY <1>n, <2>1, <2>4, <2>11 DEF ListShape, PrevInvertsNext, NextIsSuccessor
    <3>2. /\ next'[n] = Null /\ next'[tail] = n /\ next'[prev[n]] = next[n]
          /\ \A x \in live : x # n /\ x # tail /\ x # prev[n] => next'[x] = next[x]
      BY <1>n, <1>2, <2>1, <3>1, <3>p DEF TypeOK
    <3>3. \A y \in live : y # n => \/ stamp[y] <= stamp[prev[n]]
                                   \/ stamp[next[n]] <= stamp[y]
      <4> SUFFICES ASSUME NEW y \in live, y # n
                   PROVE  \/ stamp[y] <= stamp[prev[n]]
                          \/ stamp[next[n]] <= stamp[y]
        OBVIOUS
      <4>1. stamp[y] <= stamp[prev[n]] \/ stamp[n] <= stamp[y]
        BY <1>n, <3>p DEF ListShape, NextIsSuccessor
      <4>2. stamp[y] <= stamp[n] \/ stamp[next[n]] <= stamp[y]
        BY <1>n, <2>1 DEF ListShape, NextIsSuccessor
      <4>3. stamp[y] # stamp[n]
        BY DEF ListShape, StampsDistinct
      <4> QED
        BY <2>1, <2>4, <3>p, <4>1, <4>2, <4>3
    <3>4. NextIsSuccessor'
      <4>1. ASSUME NEW x \in live
            PROVE  IF next'[x] = Null
                   THEN \A y \in live : stamp'[y] <= stamp'[x]
                   ELSE /\ next'[x] \in live
                        /\ stamp'[x] < stamp'[next'[x]]
                        /\ \A y \in live : \/ stamp'[y] <= stamp'[x]
                                            \/ stamp'[next'[x]] <= stamp'[y]
        <5>1. CASE x = n
          BY <2>4, <3>2, <5>1
        <5>2. CASE x = tail
          BY <1>n, <1>2, <2>1, <2>4, <3>2, <5>2
        <5>3. CASE x = prev[n]
          BY <1>n, <2>1, <2>4, <3>p, <3>2, <3>3, <5>3
        <5>4. CASE x # n /\ x # tail /\ x # prev[n]
          BY <1>n, <2>4, <2>8, <2>9, <3>2, <5>4 DEF ListShape, NextIsSuccessor
        <5> QED
          BY <5>1, <5>2, <5>3, <5>4
      <4> QED
        BY <4>1 DEF NextIsSuccessor
    <3>5. HeadIsOldest'
      BY <1>h, <2>4, <2>11, <3>1 DEF ListShape, HeadIsOldest
    <3>6. PrevInvertsNext'
      <4>1. \A m \in live : next'[m] # Null => prev'[next'[m]] = m
        BY <1>n, <1>2, <2>1, <2>7, <2>8, <2>9, <2>11, <3>p, <3>2
           DEF ListShape, PrevInvertsNext, NextIsSuccessor
      <4>2. prev'[head'] = Null
        BY <1>n, <1>h, <2>1, <2>7, <2>11, <3>p, <3>1
           DEF ListShape, PrevInvertsNext
      <4>3. \A m \in live : m # head => prev'[m] \in live /\ next'[prev'[m]] = m
        BY <1>n, <1>2, <2>1, <2>7, <2>8, <2>11, <3>p, <3>2
           DEF ListShape, PrevInvertsNext
      <4> QED
        BY <1>n, <1>h, <2>6, <3>1, <3>2, <4>1, <4>2, <4>3, ZenonT(40) DEF PrevInvertsNext
    <3> QED
      BY <1>h, <1>i, <2>5, <3>1, <3>4, <3>5, <3>6
  <2> QED
    BY <2>10, <2>11
<1> QED
  BY <1>1, <1>2

\* Linking a new node at the fresh end keeps the list well formed: the rest
\* of _insert_new_value, for an empty and a non-empty list.
LEMMA InsertKeepsList ==
    ASSUME TypeOK, ListShape, NEW n \in Node, InsertLink(n),
           arg.key \in Key, arg.val \in Value, index[arg.key] = Null
    PROVE  /\ NextIsSuccessor'
           /\ StampsDistinct'
           /\ HeadIsOldest'
           /\ PrevInvertsNext'
           /\ IndexMatchesList'
           /\ head' # Null
<1>n. n \in Node /\ Null \notin Node /\ live \subseteq Node /\ n \notin live
  BY LRUAssumption DEF TypeOK, InsertLink
<1>1. /\ live' = live \cup {n}
      /\ key' = [key EXCEPT ![n] = arg.key]
      /\ val' = [val EXCEPT ![n] = arg.val]
      /\ prev' = [prev EXCEPT ![n] = tail]
      /\ tail' = n
      /\ index' = [index EXCEPT ![arg.key] = n]
      /\ stamp' = [stamp EXCEPT ![n] = clock]
      /\ clock' = clock + 1
  BY DEF InsertLink
<1>2. /\ stamp'[n] = clock
      /\ \A x \in live : stamp'[x] = stamp[x]
      /\ \A x \in live : stamp[x] < clock
      /\ \A x \in live : stamp[x] \in Nat
      /\ clock \in Nat
  BY <1>n, <1>1 DEF TypeOK, ListShape, StampsDistinct
<1>3. StampsDistinct'
  BY <1>1, <1>2 DEF StampsDistinct, ListShape
<1>4. IndexMatchesList'
  <2>1. \A m \in live : key'[m] = key[m] /\ val'[m] = val[m]
    BY <1>n, <1>1 DEF TypeOK
  <2>2. key'[n] = arg.key /\ val'[n] = arg.val /\ index'[arg.key] = n
    BY <1>n, <1>1 DEF TypeOK
  <2>3. \A m \in live : key[m] # arg.key
    BY <1>n DEF ListShape, IndexMatchesList
  <2>4. \A k \in Key : k # arg.key => index'[k] = index[k]
    BY <1>1 DEF TypeOK
  <2> QED
    BY <1>n, <1>1, <2>1, <2>2, <2>3, <2>4 DEF ListShape, IndexMatchesList
<1>5. prev'[n] = tail /\ \A x \in live : prev'[x] = prev[x]
  BY <1>n, <1>1 DEF TypeOK
<1>6. CASE tail # Null
  <2>1. head' = head /\ next' = [next EXCEPT ![n] = Null, ![tail] = n]
    BY <1>6 DEF InsertLink
  <2>2. tail \in live /\ next[tail] = Null /\ head # Null /\ head \in live
    BY <1>6 DEF ListShape, PrevInvertsNext, HeadIsOldest
  <2>3. \A x \in live : next[x] = Null => x = tail
    BY <1>n, <1>2, <2>2 DEF ListShape, NextIsSuccessor, StampsDistinct
  <2>4. next'[tail] = n /\ \A x \in live : x # tail => next'[x] = next[x]
    BY <1>n, <2>1, <2>2 DEF TypeOK
  <2>5. next'[n] = Null
    BY <1>n, <2>1, <2>2 DEF TypeOK
  <2>6. NextIsSuccessor'
    BY <1>n, <1>1, <1>2, <2>2, <2>3, <2>4, <2>5 DEF ListShape, NextIsSuccessor
  <2>7. HeadIsOldest'
    BY <1>1, <1>2, <2>1, <2>2 DEF ListShape, HeadIsOldest
  <2>8. PrevInvertsNext'
    <3>1. \A m \in live' : next'[m] # Null => prev'[next'[m]] = m
      BY <1>n, <1>1, <1>5, <2>2, <2>4, <2>5
         DEF ListShape, PrevInvertsNext, NextIsSuccessor
    <3>2. \A m \in live' : m # head => prev'[m] \in live' /\ next'[prev'[m]] = m
      <4> SUFFICES ASSUME NEW m \in live', m # head
                   PROVE  prev'[m] \in live' /\ next'[prev'[m]] = m
        OBVIOUS
      <4>1. CASE m = n
        BY <1>1, <1>5, <2>2, <2>4, <4>1
      <4>2. CASE m # n
        <5>1. m \in live /\ prev'[m] = prev[m]
          BY <1>1, <1>5, <4>2
        <5>2. prev[m] \in live /\ next[prev[m]] = m
          BY <5>1 DEF ListShape, PrevInvertsNext
        <5>3. prev[m] # tail
          BY <1>n, <2>2, <5>1, <5>2
        <5> QED
          BY <1>1, <2>4, <5>1, <5>2, <5>3
      <4> QED
        BY <4>1, <4>2
    <3>3. prev'[head] = Null
      BY <1>5, <2>2 DEF ListShape, PrevInvertsNext
    <3> QED
      BY <1>n, <1>1, <2>1, <2>2, <2>5, <3>1, <3>2, <3>3 DEF PrevInvertsNext
  <2> QED
    BY <1>3, <1>4, <2>1, <2>2, <2>6, <2>7, <2>8
<1>7. CASE tail = Null
  <2>1. head' = n /\ next' = [next EXCEPT ![n] = Null]
    BY <1>7 DEF InsertLink
  <2>2. live = {}
    BY <1>7 DEF ListShape, PrevInvertsNext, HeadIsOldest
  <2>3. next'[n] = Null
    BY <1>n, <2>1 DEF TypeOK
  <2> QED
    BY <1>n, <1>1, <1>2, <1>3, <1>4, <1>5, <1>7, <2>1, <2>2, <2>3
       DEF NextIsSuccessor, HeadIsOldest, PrevInvertsNext
<1> QED
  BY <1>6, <1>7

----------------------------------------------------------------------------
(* The types of what the helpers change. *)

HeapType ==
    /\ live \subseteq Node
    /\ key \in [Node -> Key \cup {Null}]
    /\ val \in [Node -> Value \cup {Null}]
    /\ next \in [Node -> Node \cup {Null}]
    /\ prev \in [Node -> Node \cup {Null}]
    /\ head \in Node \cup {Null}
    /\ tail \in Node \cup {Null}
    /\ index \in [Key -> Node \cup {Null}]
    /\ cur \in 0 .. Word - 1
    /\ stamp \in [Node -> Nat]
    /\ clock \in Nat

OpType ==
    /\ pc \in States
    /\ arg \in [op : Ops, key : Key \cup {Null}, val : Value \cup {Null},
                node : Node \cup {Null}, delta : 0 .. Word - 1]
    /\ ret \in [op : Ops, ok : BOOLEAN, val : Value \cup {Null}]

\* The type invariant, split into the heap and the operation in progress.
LEMMA TypeParts == TypeOK <=> HeapType /\ OpType
  BY DEF TypeOK, HeapType, OpType

\* Unsigned arithmetic yields a word.
LEMMA WrapType == \A n \in Int : Wrap(n) \in 0 .. Word - 1
<1>1. Word \in Nat /\ Word > 0
  BY LRUAssumption
<1> QED
  BY <1>1 DEF Wrap

\* Sizes are natural numbers.
LEMMA SizeType == \A k \in Key, v \in Value : Size(k, v) \in Nat
  BY LRUAssumption DEF Size

\* Unlinking a node keeps the types of the heap.
LEMMA RemoveType ==
    ASSUME TypeOK, ListShape, NEW n \in live, ~RemoveCrashes(n),
           RemoveNode(n), clock' = clock
    PROVE  HeapType'
<1>1. n \in Node /\ Null \notin Node /\ tail \in live
  BY LRUAssumption DEF TypeOK, ListShape, HeadIsOldest, PrevInvertsNext
<1>2. key[tail] \in Key /\ val[tail] \in Value
  BY <1>1 DEF ListShape, IndexMatchesList
<1>3. cur' \in 0 .. Word - 1
  <2>1. Size(key[tail], val[tail]) \in Nat
    BY <1>2, SizeType
  <2>2. cur - Size(key[tail], val[tail]) \in Int
    BY <2>1, LRUAssumption DEF TypeOK
  <2> QED
    BY <2>2, WrapType DEF RemoveNode
<1>4. n # head => prev[n] \in Node
  BY <1>1 DEF ListShape, PrevInvertsNext, TypeOK
<1>5. n = head => next[n] \in Node
  BY <1>1 DEF TypeOK, RemoveCrashes
<1>6. /\ live' \subseteq Node
      /\ key' \in [Node -> Key \cup {Null}]
      /\ val' \in [Node -> Value \cup {Null}]
      /\ index' \in [Key -> Node \cup {Null}]
      /\ stamp' \in [Node -> Nat]
  BY DEF RemoveNode, TypeOK
<1>7. /\ next' \in [Node -> Node \cup {Null}]
      /\ prev' \in [Node -> Node \cup {Null}]
      /\ head' \in Node \cup {Null}
      /\ tail' \in Node \cup {Null}
  BY <1>1, <1>4, <1>5 DEF RemoveNode, TypeOK
<1> QED
  BY <1>3, <1>6, <1>7 DEF HeapType, TypeOK

\* Moving a node to the tail keeps the types of the heap.
LEMMA MoveType ==
    ASSUME TypeOK, ListShape, NEW n \in live, MoveToFresh(n), Touch(n),
           live' = live, key' = key, index' = index,
           val' \in [Node -> Value \cup {Null}], cur' \in 0 .. Word - 1
    PROVE  HeapType'
<1>1. n \in Node /\ tail \in Node \cup {Null}
  BY DEF TypeOK
<1>2. stamp' \in [Node -> Nat] /\ clock' \in Nat
  BY <1>1 DEF Touch, TypeOK
<1>3. n # head => prev[n] \in Node
  BY DEF ListShape, PrevInvertsNext, TypeOK
<1>4. /\ next' \in [Node -> Node \cup {Null}]
      /\ prev' \in [Node -> Node \cup {Null}]
      /\ head' \in Node \cup {Null}
      /\ tail' \in Node \cup {Null}
  BY <1>1, <1>3 DEF MoveToFresh, TypeOK
<1> QED
  BY <1>2, <1>4 DEF HeapType, TypeOK

----------------------------------------------------------------------------
(* The inductive invariant. *)

IInv == TypeOK /\ ChainInv /\ ListInv /\ OpInv /\ NoLeak

\* Until the destructor runs the list has its shape.
LEMMA RunningShape == ASSUME IInv, Running PROVE ListShape
  BY DEF IInv, ChainInv, ListInv, ListShape

\* Nothing but the result and the arguments changes.
LEMMA SameHeap ==
    ASSUME IInv, Running, OpType',
           UNCHANGED <<live, key, val, next, prev, head, tail, index, cur,
                       stamp, clock>>
    PROVE  TypeOK' /\ ChainInv' /\ ListInv'
<1>1. ListShape
  BY RunningShape
<1>2. TypeOK'
  BY TypeParts DEF IInv, HeapType, TypeOK, OpType
<1>3. NextIsSuccessor' /\ StampsDistinct' /\ HeadIsOldest'
  BY <1>1 DEF ListShape, NextIsSuccessor, StampsDistinct, HeadIsOldest
<1>4. PrevInvertsNext' /\ IndexMatchesList'
  BY <1>1 DEF ListShape, PrevInvertsNext, IndexMatchesList
<1> QED
  BY <1>2, <1>3, <1>4 DEF ChainInv, ListInv

\* The empty storage satisfies the invariant.
LEMMA InitInv == Init => IInv
<1> SUFFICES ASSUME Init PROVE IInv
  OBVIOUS
<1>1. TypeOK
  BY LRUAssumption DEF Init, TypeOK, NoArg, Ret, States, Ops
<1>2. ChainInv
  BY DEF Init, ChainInv, NextIsSuccessor, StampsDistinct, HeadIsOldest
<1>3. ListInv
  BY DEF Init, ListInv, PrevInvertsNext, IndexMatchesList
<1>4. OpInv
  BY DEF Init, OpInv
<1>5. NoLeak
  BY DEF Init, NoLeak
<1> QED
  BY <1>1, <1>2, <1>3, <1>4, <1>5 DEF IInv

\* A dead object satisfies the invariant whatever it left behind.
LEMMA DieInv ==
    ASSUME IInv, Die("segv") \/ Die("uaf")
    PROVE  IInv'
<1>1. pc' \in {"segv", "uaf"}
  BY DEF Die
<1>2. TypeOK'
  BY DEF Die, IInv, TypeOK, States
<1> QED
  BY <1>1, <1>2 DEF IInv, ChainInv, ListInv, OpInv, NoLeak, Running

\* A refused call changes nothing in the heap.
LEMMA RejectInv ==
    ASSUME IInv, pc = "idle", NEW op \in Ops, Reject(op)
    PROVE  IInv'
<1>1. OpType'
  BY LRUAssumption DEF Reject, Return, Ret, NoArg, OpType, States, IInv, TypeOK, Ops
<1>2. TypeOK' /\ ChainInv' /\ ListInv'
  BY <1>1, SameHeap DEF Running, Reject
<1>3. OpInv' /\ NoLeak'
  BY DEF Reject, Return, IInv, OpInv, NoLeak, Running
<1> QED
  BY <1>2, <1>3 DEF IInv

\* The first step of an insertion changes no pointer.
LEMMA EnterInsertInv ==
    ASSUME IInv, pc = "idle", NEW k \in Key, NEW v \in Value, NEW op \in Ops,
           ~TooBig(k, v), index[k] = Null, EnterInsert(op, k, v)
    PROVE  IInv'
<1>1. OpType'
  BY LRUAssumption DEF EnterInsert, OpType, States, IInv, TypeOK
<1>2. TypeOK' /\ ChainInv' /\ ListInv'
  BY <1>1, SameHeap DEF Running, EnterInsert
<1>s. Size(k, v) \in Nat /\ MaxSize \in Nat
  BY SizeType, LRUAssumption
<1>3. OpInv' /\ NoLeak'
  BY <1>s DEF EnterInsert, IInv, OpInv, NoLeak, Running, TooBig, Size
<1> QED
  BY <1>2, <1>3 DEF IInv

\* The first step of an update fixes the change of size; no pointer moves.
LEMMA EnterUpdateInv ==
    ASSUME IInv, pc = "idle", NEW k \in Key, NEW v \in Value, NEW op \in Ops,
           index[k] # Null, EnterUpdate(op, k, v)
    PROVE  IInv'
<1>0. ListShape
  BY RunningShape DEF Running
<1>1. index[k] \in live /\ val[index[k]] \in Value /\ live \subseteq Node
  BY <1>0 DEF ListShape, IndexMatchesList, IInv, TypeOK
<1>2. Wrap(ValSize[v] - ValSize[val[index[k]]]) \in 0 .. Word - 1
  <2>1. ValSize[v] \in Nat /\ ValSize[val[index[k]]] \in Nat
    BY <1>1, LRUAssumption
  <2>2. ValSize[v] - ValSize[val[index[k]]] \in Int
    BY <2>1
  <2> QED
    BY <2>2, WrapType
<1>3. OpType'
  BY <1>1, <1>2 DEF EnterUpdate, OpType, States, IInv, TypeOK
<1>4. TypeOK' /\ ChainInv' /\ ListInv'
  BY <1>3, SameHeap DEF Running, EnterUpdate
<1>5. head # Null
  BY <1>0, <1>1 DEF ListShape, HeadIsOldest
<1>6. OpInv' /\ NoLeak'
  BY <1>1, <1>5 DEF EnterUpdate, IInv, OpInv, NoLeak, Running
<1> QED
  BY <1>4, <1>6 DEF IInv

\* The three operations that store.
LEMMA StoreInv ==
    ASSUME IInv, NEW k \in Key, NEW v \in Value,
           Put(k, v) \/ PutIfAbsent(k, v) \/ Set(k, v)
    PROVE  IInv'
<1>1. pc = "idle"
  BY DEF Put, PutIfAbsent, Set
<1>2. \E op \in Ops :
         \/ Reject(op)
         \/ ~TooBig(k, v) /\ index[k] = Null /\ EnterInsert(op, k, v)
         \/ index[k] # Null /\ EnterUpdate(op, k, v)
  BY Zenon DEF Put, PutIfAbsent, Set, Ops
<1> QED
  BY <1>1, <1>2, RejectInv, EnterInsertInv, EnterUpdateInv

\* Delete unlinks one node.
LEMMA DeleteInv ==
    ASSUME IInv, NEW k \in Key, Delete(k)
    PROVE  IInv'
<1>0. pc = "idle" /\ "Delete" \in Ops
  BY DEF Delete, Ops
<1>1. CASE Reject("Delete")
  BY <1>0, <1>1, RejectInv
<1>2. CASE Die("segv")
  BY <1>2, DieInv
<1>3. CASE /\ index[k] # Null
           /\ ~RemoveCrashes(index[k])
           /\ RemoveNode(index[k])
           /\ Return("Delete", TRUE, Null)
           /\ UNCHANGED clock
  <2>1. ListShape
    BY <1>0, RunningShape DEF Running
  <2>2. index[k] \in live
    BY <1>3, <2>1 DEF ListShape, IndexMatchesList
  <2>3. TypeOK
    BY DEF IInv
  <2>4. /\ NextIsSuccessor' /\ StampsDistinct' /\ HeadIsOldest'
        /\ PrevInvertsNext' /\ IndexMatchesList' /\ head' # Null
    BY <1>3, <2>1, <2>2, <2>3, RemoveKeepsList
  <2>5. HeapType'
    BY <1>3, <2>1, <2>2, <2>3, RemoveType
  <2>6. OpType'
    BY <1>3, LRUAssumption DEF Return, Ret, NoArg, OpType, States, Ops
  <2>7. pc' = "idle" /\ arg' = NoArg
    BY <1>3 DEF Return
  <2>8. TypeOK'
    BY <2>5, <2>6 DEF TypeOK, HeapType, OpType
  <2> QED
    BY <2>4, <2>7, <2>8 DEF IInv, ChainInv, ListInv, OpInv, NoLeak
<1> QED
  BY <1>1, <1>2, <1>3 DEF Delete

\* Get moves the node it finds to the tail.
LEMMA GetInv ==
    ASSUME IInv, NEW k \in Key, Get(k)
    PROVE  IInv'
<1>0. pc = "idle" /\ "Get" \in Ops
  BY DEF Get, Ops
<1>1. CASE Reject("Get")
  BY <1>0, <1>1, RejectInv
<1>2. CASE /\ index[k] # Null
           /\ MoveToFresh(index[k])
           /\ Touch(index[k])
           /\ Return("Get", TRUE, val[index[k]])
           /\ UNCHANGED <<live, key, val, index, cur>>
  <2>1. ListShape /\ TypeOK
    BY <1>0, RunningShape DEF Running, IInv
  <2>2. index[k] \in live /\ \A m \in live : val[m] \in Value
    BY <1>2, <2>1 DEF ListShape, IndexMatchesList
  <2>3. /\ NextIsSuccessor' /\ StampsDistinct' /\ HeadIsOldest'
        /\ PrevInvertsNext' /\ IndexMatchesList' /\ head' # Null
    BY <1>2, <2>1, <2>2, MoveKeepsList
  <2>4. HeapType'
    <3>1. val' \in [Node -> Value \cup {Null}] /\ cur' \in 0 .. Word - 1
      BY <1>2, <2>1 DEF TypeOK
    <3> QED
      BY <1>2, <2>1, <2>2, <3>1, MoveType
  <2>5. OpType'
    BY <1>2, <2>2, LRUAssumption DEF Return, Ret, NoArg, OpType, States, Ops
  <2>6. pc' = "idle" /\ arg' = NoArg
    BY <1>2 DEF Return
  <2>7. TypeOK'
    BY <2>4, <2>5 DEF TypeOK, HeapType, OpType
  <2> QED
    BY <2>3, <2>6, <2>7 DEF IInv, ChainInv, ListInv, OpInv, NoLeak
<1> QED
  BY <1>1, <1>2 DEF Get

\* An iteration of an eviction loop on a list that is not empty.
LEMMA EvictInv ==
    ASSUME IInv, pc \in {"insert", "update"}, head # Null, EvictHead
    PROVE  IInv'
<1>1. CASE Die("segv")
  BY <1>1, DieInv
<1>2. CASE /\ ~RemoveCrashes(head)
           /\ RemoveNode(head)
           /\ UNCHANGED <<pc, arg, ret, clock>>
  <2>1. ListShape /\ TypeOK
    BY RunningShape DEF Running, IInv
  <2>2. head \in live
    BY <2>1 DEF ListShape, HeadIsOldest
  <2>3. /\ NextIsSuccessor' /\ StampsDistinct' /\ HeadIsOldest'
        /\ PrevInvertsNext' /\ IndexMatchesList' /\ head' # Null
    BY <1>2, <2>1, <2>2, RemoveKeepsList
  <2>4. HeapType'
    BY <1>2, <2>1, <2>2, RemoveType
  <2>5. TypeOK'
    BY <1>2, <2>1, <2>4 DEF TypeOK, HeapType
  <2>6. live' = live \ {head} /\ index' = [index EXCEPT ![key[head]] = Null]
    BY <1>2 DEF RemoveNode
  <2>7. key[head] \in Key /\ index[key[head]] = head
    BY <2>1, <2>2 DEF ListShape, IndexMatchesList
  <2>8. CASE pc = "insert"
    <3>1. index'[arg.key] = Null
      BY <2>1, <2>6, <2>7, <2>8 DEF IInv, OpInv, TypeOK
    <3>2. OpInv'
      BY <1>2, <2>3, <2>8, <3>1 DEF IInv, OpInv, Size
    <3> QED
      BY <1>2, <2>3, <2>5, <2>8, <3>2 DEF IInv, ChainInv, ListInv, NoLeak
  <2>9. CASE pc = "update"
    <3>1. index'[arg.key] = IF arg.node \in live' THEN arg.node ELSE Null
      <4>1. index[arg.key] = IF arg.node \in live THEN arg.node ELSE Null
        BY <2>9 DEF IInv, OpInv
      <4>2. arg.key \in Key /\ arg.node \in Node /\ Null \notin Node
        BY <2>9, LRUAssumption DEF IInv, OpInv
      <4>3. CASE arg.key = key[head]
        BY <2>1, <2>2, <2>6, <2>7, <4>1, <4>2, <4>3 DEF TypeOK
      <4>4. CASE arg.key # key[head]
        <5>1. arg.node # head \/ arg.node \notin live
          BY <2>1, <4>1, <4>2, <4>4 DEF ListShape, IndexMatchesList
        <5> QED
          BY <2>1, <2>2, <2>6, <4>1, <4>2, <4>4, <5>1 DEF TypeOK
      <4> QED
        BY <4>3, <4>4
    <3>2. OpInv'
      BY <1>2, <2>3, <2>9, <3>1 DEF IInv, OpInv
    <3> QED
      BY <1>2, <2>3, <2>5, <2>9, <3>2 DEF IInv, ChainInv, ListInv, NoLeak
  <2> QED
    BY <2>8, <2>9
<1> QED
  BY <1>1, <1>2 DEF EvictHead

\* Neither loop ever finds an empty list: _current_size is 0 then.
LEMMA LoopFindsNode ==
    ASSUME IInv, InsertEvict \/ UpdateEvict
    PROVE  pc \in {"insert", "update"} /\ head # Null /\ EvictHead
<1>1. CASE InsertEvict
  <2>1. arg.key \in Key /\ arg.val \in Value /\ Size(arg.key, arg.val) <= MaxSize
    BY <1>1 DEF InsertEvict, IInv, OpInv
  <2>2. Size(arg.key, arg.val) \in Nat /\ MaxSize \in Nat /\ cur \in Nat
    BY <2>1, SizeType, LRUAssumption DEF IInv, TypeOK
  <2>3. cur # 0
    BY <1>1, <2>1, <2>2 DEF InsertEvict, InsertNeedsRoom
  <2> QED
    BY <1>1, <2>3 DEF InsertEvict, IInv, OpInv, Running
<1>2. CASE UpdateEvict
  BY <1>2 DEF UpdateEvict, IInv, OpInv
<1> QED
  BY <1>1, <1>2

\* The new node is appended as the tail.
LEMMA InsertLinkInv ==
    ASSUME IInv, NEW n \in Node, InsertLink(n)
    PROVE  IInv'
<1>1. ListShape /\ TypeOK /\ pc = "insert"
  BY RunningShape DEF Running, IInv, InsertLink
<1>2. arg.key \in Key /\ arg.val \in Value /\ index[arg.key] = Null
  BY <1>1 DEF IInv, OpInv
<1>3. /\ NextIsSuccessor' /\ StampsDistinct' /\ HeadIsOldest'
      /\ PrevInvertsNext' /\ IndexMatchesList' /\ head' # Null
  BY <1>1, <1>2, InsertKeepsList
<1>4. HeapType'
  <2>1. cur' \in 0 .. Word - 1
    <3>1. cur + Size(arg.key, arg.val) \in Int
      BY <1>1, <1>2, SizeType, LRUAssumption DEF TypeOK
    <3> QED
      BY <3>1, WrapType DEF InsertLink
  <2>2. /\ live' \subseteq Node
        /\ key' \in [Node -> Key \cup {Null}]
        /\ val' \in [Node -> Value \cup {Null}]
        /\ index' \in [Key -> Node \cup {Null}]
        /\ stamp' \in [Node -> Nat]
        /\ clock' \in Nat
    BY <1>1, <1>2 DEF InsertLink, TypeOK
  <2>3. /\ next' \in [Node -> Node \cup {Null}]
        /\ prev' \in [Node -> Node \cup {Null}]
        /\ head' \in Node \cup {Null}
        /\ tail' \in Node \cup {Null}
    BY <1>1 DEF InsertLink, TypeOK
  <2> QED
    BY <2>1, <2>2, <2>3 DEF HeapType
<1>5. pc' = "idle" /\ arg' = NoArg /\ OpType'
  BY <1>1, LRUAssumption
     DEF InsertLink, Return, Ret, NoArg, OpType, States, Ops, TypeOK
<1>6. TypeOK'
  BY <1>4, <1>5 DEF TypeOK, HeapType, OpType
<1> QED
  BY <1>3, <1>5, <1>6 DEF IInv, ChainInv, ListInv, OpInv, NoLeak

\* The last step of an update stores the value and moves the node to the tail.
LEMMA UpdateStoreInv ==
    ASSUME IInv, UpdateStore
    PROVE  IInv'
<1>1. CASE Die("uaf")
  BY <1>1, DieInv
<1>2. CASE /\ arg.node \in live
           /\ val' = [val EXCEPT ![arg.node] = arg.val]
           /\ MoveToFresh(arg.node)
           /\ Touch(arg.node)
           /\ cur' = Wrap(cur + arg.delta)
           /\ Return(arg.op, TRUE, Null)
           /\ UNCHANGED <<live, key, index>>
  <2>1. ListShape /\ TypeOK /\ pc = "update"
    BY RunningShape DEF Running, IInv, UpdateStore
  <2>2. arg.val \in Value
    BY <2>1 DEF IInv, OpInv
  <2>3. \A m \in live : val'[m] \in Value
    BY <1>2, <2>1, <2>2 DEF TypeOK, ListShape, IndexMatchesList
  <2>4. /\ NextIsSuccessor' /\ StampsDistinct' /\ HeadIsOldest'
        /\ PrevInvertsNext' /\ IndexMatchesList' /\ head' # Null
    BY <1>2, <2>1, <2>3, MoveKeepsList
  <2>5. HeapType'
    <3>1. val' \in [Node -> Value \cup {Null}]
      BY <1>2, <2>1, <2>2 DEF TypeOK
    <3>2. cur' \in 0 .. Word - 1
      <4>1. cur + arg.delta \in Int
        BY <2>1, LRUAssumption DEF TypeOK
      <4> QED
        BY <1>2, <4>1, WrapType
    <3> QED
      BY <1>2, <2>1, <3>1, <3>2, MoveType
  <2>6. pc' = "idle" /\ arg' = NoArg /\ OpType'
    BY <1>2, <2>1, LRUAssumption
       DEF Return, Ret, NoArg, OpType, States, Ops, TypeOK
  <2>7. TypeOK'
    BY <2>5, <2>6 DEF TypeOK, HeapType, OpType
  <2> QED
    BY <2>4, <2>6, <2>7 DEF IInv, ChainInv, ListInv, OpInv, NoLeak
<1> QED
  BY <1>1, <1>2 DEF UpdateStore

\* The destructor frees the list from its head.
LEMMA DestroyInv ==
    ASSUME IInv, Destroy
    PROVE  IInv'
<1>1. ListShape /\ TypeOK /\ pc = "idle" /\ arg = NoArg
  BY RunningShape DEF Running, IInv, Destroy, OpInv
<1>2. TypeOK'
  BY <1>1 DEF Destroy, TypeOK, States
<1>3. NextIsSuccessor' /\ StampsDistinct' /\ HeadIsOldest'
  BY <1>1 DEF Destroy, ListShape, NextIsSuccessor, StampsDistinct, HeadIsOldest
<1>4. pc' \in {"dtor", "destroyed"} /\ (pc' = "dtor" => head' # Null) /\ arg' = NoArg
  BY <1>1 DEF Destroy
<1>5. pc' = "destroyed" => live' = {}
  BY <1>1 DEF Destroy, ListShape, HeadIsOldest
<1> QED
  BY <1>2, <1>3, <1>4, <1>5 DEF IInv, ChainInv, ListInv, OpInv, NoLeak, Running

\* Popping the head keeps the rest of the chain, and the last pop frees the
\* last node: nothing was unreachable.
LEMMA DestroyPopInv ==
    ASSUME IInv, DestroyPop
    PROVE  IInv'
<1>1. TypeOK /\ pc = "dtor" /\ head # Null /\ arg = NoArg
  BY DEF IInv, DestroyPop, OpInv
<1>2. NextIsSuccessor /\ StampsDistinct /\ HeadIsOldest
  BY <1>1 DEF IInv, ChainInv
<1>3. head \in live /\ head \in Node /\ live \subseteq Node /\ Null \notin Node
  BY <1>1, <1>2, LRUAssumption DEF HeadIsOldest, TypeOK
<1>4. /\ live' = live \ {head}
      /\ next' = [next EXCEPT ![head] = Null]
      /\ stamp' = [stamp EXCEPT ![head] = 0]
      /\ head' = next[head]
      /\ clock' = clock /\ arg' = arg
      /\ pc' = IF next[head] = Null THEN "destroyed" ELSE "dtor"
  BY DEF DestroyPop
<1>5. TypeOK'
  BY <1>1, <1>3, LRUAssumption DEF DestroyPop, TypeOK, States
<1>6. next[head] = Null => live' = {}
  <2> SUFFICES ASSUME next[head] = Null, NEW x \in live PROVE x = head
    BY <1>4
  <2>1. stamp[x] <= stamp[head]
    BY <1>2, <1>3 DEF NextIsSuccessor
  <2>2. stamp[head] <= stamp[x]
    BY <1>1, <1>2 DEF HeadIsOldest
  <2>3. stamp[x] = stamp[head]
    BY <1>1, <1>3, <2>1, <2>2 DEF TypeOK
  <2> QED
    BY <1>2, <1>3, <2>3 DEF StampsDistinct
<1>7. StampsDistinct'
  BY <1>1, <1>2, <1>3, <1>4 DEF StampsDistinct, TypeOK
<1>8. \A x \in live : next[x] # head
  BY <1>1, <1>2, <1>3 DEF NextIsSuccessor, HeadIsOldest, TypeOK
<1>9. NextIsSuccessor'
  BY <1>1, <1>2, <1>3, <1>4, <1>8 DEF NextIsSuccessor, TypeOK
<1>10. HeadIsOldest'
  BY <1>1, <1>2, <1>3, <1>4, <1>6
     DEF NextIsSuccessor, HeadIsOldest, StampsDistinct, TypeOK
<1> QED
  BY <1>1, <1>4, <1>5, <1>6, <1>7, <1>9, <1>10
     DEF IInv, ChainInv, ListInv, OpInv, NoLeak, Running

\* Every step preserves the invariant.
LEMMA NextInv ==
    ASSUME IInv, [Next]_vars
    PROVE  IInv'
<1>1. CASE UNCHANGED vars
  BY <1>1 DEF vars, IInv, TypeOK, ChainInv, ListInv, OpInv, NoLeak, Running,
              NextIsSuccessor, StampsDistinct, HeadIsOldest, PrevInvertsNext,
              IndexMatchesList, Size
<1>2. ASSUME NEW k \in Key, NEW v \in Value,
             Put(k, v) \/ PutIfAbsent(k, v) \/ Set(k, v)
      PROVE  IInv'
  BY <1>2, StoreInv
<1>3. ASSUME NEW k \in Key, Get(k) PROVE IInv'
  BY <1>3, GetInv
<1>4. ASSUME NEW k \in Key, Delete(k) PROVE IInv'
  BY <1>4, DeleteInv
<1>5. ASSUME NEW n \in Node, InsertLink(n) PROVE IInv'
  BY <1>5, InsertLinkInv
<1>6. CASE InsertEvict \/ UpdateEvict
  BY <1>6, LoopFindsNode, EvictInv
<1>7. CASE UpdateStore
  BY <1>7, UpdateStoreInv
<1>8. CASE Destroy
  BY <1>8, DestroyInv
<1>9. CASE DestroyPop
  BY <1>9, DestroyPopInv
<1> QED
  BY <1>1, <1>2, <1>3, <1>4, <1>5, <1>6, <1>7, <1>8, <1>9 DEF Next, Call, Step

\* The inductive invariant holds in every reachable state.
THEOREM Invariance == Spec => []IInv
<1>1. Init => IInv
  BY InitInv
<1>2. IInv /\ [Next]_vars => IInv'
  BY NextInv
<1> QED
  BY <1>1, <1>2, PTL DEF Spec

\* Types are kept: the operations use a null pointer only in the three cases
\* where the model lets them die (the last node, a middle node, an updated
\* node that was evicted), and _current_size stays a word.
THEOREM TypeCorrect == Spec => []TypeOK
<1>1. IInv => TypeOK
  BY DEF IInv
<1> QED
  BY <1>1, Invariance, PTL

\* For every set of keys, all sizes and any history of calls, the next
\* pointers list the live nodes in the order of their last use.
THEOREM ChainCorrect == Spec => []ChainInv
<1>1. IInv => ChainInv
  BY DEF IInv
<1> QED
  BY <1>1, Invariance, PTL

\* The back pointers and the index agree with the list.
THEOREM ListCorrect == Spec => []ListInv
<1>1. IInv => ListInv
  BY DEF IInv
<1> QED
  BY <1>1, Invariance, PTL

\* The destructor leaves no node behind.
THEOREM NoLeakCorrect == Spec => []NoLeak
<1>1. IInv => NoLeak
  BY DEF IInv
<1> QED
  BY <1>1, Invariance, PTL

----------------------------------------------------------------------------
(* SimpleLRU implements LRUCache. *)

\* The destructor has cleared the index.
IndexCleared == pc = "dtor" => \A k \in Key : index[k] = Null

\* What is seen of a running object.
LEMMA AbsView ==
    ASSUME IInv, Running
    PROVE  /\ AbsUp = "up"
           /\ \A k \in Key : AbsStore[k] = IF index[k] = Null THEN Null ELSE val[index[k]]
           /\ \A k \in Key : AbsUsed[k] = IF index[k] = Null THEN 0 ELSE stamp[index[k]]
           /\ \A k \in Key : k \in L!Present <=> index[k] # Null
           /\ pc = "idle" => AbsJob = L!Idle
           /\ pc = "insert" => AbsJob = [op |-> arg.op, kind |-> "insert",
                                         key |-> arg.key, val |-> arg.val]
           /\ pc = "update" => AbsJob = [op |-> arg.op, kind |-> "update",
                                         key |-> arg.key, val |-> arg.val]
<1>1. AbsUp = "up"
  BY DEF AbsUp, Running
<1>2. \A k \in Key : /\ AbsStore[k] = IF index[k] = Null THEN Null ELSE val[index[k]]
                     /\ AbsUsed[k] = IF index[k] = Null THEN 0 ELSE stamp[index[k]]
  BY DEF AbsStore, AbsUsed
<1>3. \A k \in Key : index[k] # Null => val[index[k]] # Null
  BY RunningShape, LRUAssumption DEF ListShape, IndexMatchesList
<1>4. \A k \in Key : k \in L!Present <=> index[k] # Null
  BY <1>2, <1>3 DEF L!Present
<1>5. pc = "idle" => AbsJob = L!Idle
  BY DEF IInv, OpInv, NoArg, AbsJob, L!Idle
<1>6. pc \in {"insert", "update"} => arg.key # Null
  BY LRUAssumption DEF IInv, OpInv
<1>7. pc = "insert" => arg.node = Null
  BY DEF IInv, OpInv
<1>8. pc = "update" => arg.node # Null
  BY LRUAssumption DEF IInv, OpInv
<1>9. QED
  BY <1>1, <1>2, <1>4, <1>5, <1>6, <1>7, <1>8 DEF AbsJob

\* The head, if it is the only node in the chain, holds the last entry.
LEMMA LastNode ==
    ASSUME IInv, Running, head # Null, next[head] = Null
    PROVE  live = {head} /\ L!LastEntry(key[head]) /\ key[head] \in Key
<1>1. ListShape /\ TypeOK
  BY RunningShape DEF IInv
<1>2. head \in live /\ live \subseteq Node
  BY <1>1 DEF ListShape, HeadIsOldest, TypeOK
<1>3. \A n \in live : stamp[n] <= stamp[head] /\ stamp[head] <= stamp[n]
  BY <1>1, <1>2 DEF ListShape, NextIsSuccessor, HeadIsOldest
<1>4. \A n \in live : stamp[n] = stamp[head]
  BY <1>1, <1>2, <1>3 DEF TypeOK
<1>5. live = {head}
  BY <1>1, <1>2, <1>4 DEF ListShape, StampsDistinct
<1>6. /\ key[head] \in Key /\ index[key[head]] = head
      /\ \A k \in Key : index[k] # Null => k = key[head]
  BY <1>1, <1>5 DEF ListShape, IndexMatchesList
<1>7. \A k \in L!Present : k \in Key
  BY DEF L!Present
<1>8. L!Present = {key[head]}
  BY <1>6, <1>7, AbsView
<1>9. QED
  BY <1>5, <1>6, <1>8 DEF L!LastEntry

\* The freshest node is the entry used last, the head the one used first.
LEMMA AbsOrder ==
    ASSUME IInv, Running, NEW k \in Key, index[k] # Null
    PROVE  /\ Freshest(index[k]) <=> L!Newest(k)
           /\ index[k] = head => L!Oldest(k)
<1>1. ListShape
  BY RunningShape
<1>2. \A j \in L!Present : /\ j \in Key /\ index[j] \in live
                           /\ AbsUsed[j] = stamp[index[j]]
  <2>1. \A j \in L!Present : j \in Key
    BY DEF L!Present
  <2>2. QED
    BY <1>1, <2>1, AbsView DEF ListShape, IndexMatchesList
<1>3. \A n \in live : \E j \in L!Present : index[j] = n
  <2> SUFFICES ASSUME NEW n \in live PROVE \E j \in L!Present : index[j] = n
    OBVIOUS
  <2>1. key[n] \in Key /\ index[key[n]] = n /\ n # Null
    BY <1>1, LRUAssumption DEF ListShape, IndexMatchesList, IInv, TypeOK
  <2>2. QED
    BY <2>1, AbsView
<1>4. k \in L!Present
  BY AbsView
<1>5. Freshest(index[k]) <=> L!Newest(k)
  BY <1>2, <1>3, <1>4 DEF Freshest, L!Newest
<1>6. index[k] = head => L!Oldest(k)
  BY <1>1, <1>2, <1>4 DEF ListShape, HeadIsOldest, L!Oldest
<1>7. QED
  BY <1>5, <1>6

\* A node inside the list is neither the oldest nor the newest entry.
LEMMA MiddleNode ==
    ASSUME IInv, Running, NEW k \in Key, index[k] # Null,
           index[k] # head, index[k] # tail
    PROVE  L!Middle(k)
<1>1. ListShape /\ TypeOK
  BY RunningShape DEF IInv
<1>2. index[k] \in live /\ k \in L!Present
  BY <1>1, AbsView DEF ListShape, IndexMatchesList
<1>3. head \in live /\ tail \in live /\ next[tail] = Null
  BY <1>1, <1>2 DEF ListShape, HeadIsOldest, PrevInvertsNext
<1>4. \A n \in live : stamp[head] <= stamp[n] /\ stamp[n] <= stamp[tail]
  BY <1>1, <1>3, LRUAssumption DEF ListShape, HeadIsOldest, NextIsSuccessor, TypeOK
<1>5. \A n \in live : stamp[n] \in Nat
  BY <1>1 DEF TypeOK
<1>6. stamp[head] # stamp[index[k]] /\ stamp[tail] # stamp[index[k]]
  BY <1>1, <1>2, <1>3 DEF ListShape, StampsDistinct
<1>7. stamp[head] < stamp[index[k]] /\ stamp[index[k]] < stamp[tail]
  BY <1>2, <1>3, <1>4, <1>5, <1>6
<1>8. ~L!Newest(k)
  <2>1. ~Freshest(index[k])
    BY <1>2, <1>3, <1>5, <1>7 DEF Freshest
  <2> QED
    BY <2>1, AbsOrder
<1>9. ~L!Oldest(k)
  <2>1. key[head] \in Key /\ index[key[head]] = head /\ head # Null
    BY <1>1, <1>3, LRUAssumption DEF ListShape, IndexMatchesList, TypeOK
  <2>2. key[head] \in L!Present /\ AbsUsed[key[head]] = stamp[head]
    BY <2>1, AbsView
  <2>3. AbsUsed[k] = stamp[index[k]]
    BY AbsView
  <2>4. ~(AbsUsed[k] <= AbsUsed[key[head]])
    BY <1>2, <1>3, <1>5, <1>7, <2>2, <2>3
  <2> QED
    BY <2>2, <2>4 DEF L!Oldest
<1> QED
  BY <1>2, <1>8, <1>9 DEF L!Middle

\* A use of a node is a use of its entry.
LEMMA UseStep ==
    ASSUME IInv, Running, NEW k \in Key, index[k] # Null, Touch(index[k]), index' = index
    PROVE  L!Use(k)
<1>1. (Freshest(index[k]) <=> L!Newest(k))
  BY AbsOrder
<1>2. CASE Freshest(index[k])
  <2>1. UNCHANGED <<stamp, clock>>
    BY <1>2 DEF Touch
  <2>2. QED
    BY <1>1, <1>2, <2>1 DEF L!Use, AbsUsed
<1>3. CASE ~Freshest(index[k])
  <2>1. stamp' = [stamp EXCEPT ![index[k]] = clock] /\ clock' = clock + 1
    BY <1>3 DEF Touch
  <2>2. \A j \in Key : index[j] # Null => index[j] \in Node /\ (index[j] = index[k] => j = k)
    BY RunningShape DEF ListShape, IndexMatchesList, IInv, TypeOK
  <2>3. AbsUsed' = [AbsUsed EXCEPT ![k] = clock]
    BY <2>1, <2>2 DEF AbsUsed, IInv, TypeOK
  <2>4. QED
    BY <1>1, <1>3, <2>1, <2>3 DEF L!Use
<1>4. QED
  BY <1>2, <1>3

\* Unlinking a node forgets its entry.
LEMMA ForgetStep ==
    ASSUME IInv, Running, NEW n \in live, RemoveNode(n), clock' = clock
    PROVE  L!Forget(key[n]) /\ key[n] \in Key /\ index[key[n]] = n
<1>1. ListShape /\ TypeOK
  BY RunningShape DEF IInv
<1>2. key[n] \in Key /\ index[key[n]] = n /\ n \in Node
  BY <1>1 DEF ListShape, IndexMatchesList, TypeOK
<1>3. \A j \in Key : j # key[n] => index[j] # n
  BY <1>1, <1>2, LRUAssumption DEF ListShape, IndexMatchesList
<1>4. /\ index' = [index EXCEPT ![key[n]] = Null]
      /\ val' = [val EXCEPT ![n] = Null]
      /\ stamp' = [stamp EXCEPT ![n] = 0]
  BY DEF RemoveNode
<1>5. \A j \in Key : index'[j] = IF j = key[n] THEN Null ELSE index[j]
  BY <1>1, <1>4 DEF TypeOK
<1>6. \A m \in Node : m # n => val'[m] = val[m] /\ stamp'[m] = stamp[m]
  BY <1>1, <1>4 DEF TypeOK
<1>7. \A j \in Key : index[j] # Null => index[j] \in Node
  BY <1>1 DEF TypeOK
<1>8. AbsStore' = [AbsStore EXCEPT ![key[n]] = Null]
  <2>1. \A j \in Key : j # key[n] /\ index[j] # Null => val'[index[j]] = val[index[j]]
    BY <1>3, <1>6, <1>7
  <2>2. QED
    BY <1>2, <1>5, <2>1 DEF AbsStore
<1>9. AbsUsed' = [AbsUsed EXCEPT ![key[n]] = 0]
  <2>1. \A j \in Key : j # key[n] /\ index[j] # Null => stamp'[index[j]] = stamp[index[j]]
    BY <1>3, <1>6, <1>7
  <2>2. \A j \in Key : (IF index'[j] = Null THEN 0 ELSE stamp'[index'[j]])
                        = IF j = key[n] THEN 0
                          ELSE IF index[j] = Null THEN 0 ELSE stamp[index[j]]
    BY <1>5, <2>1
  <2>3. QED
    BY <1>2, <2>2 DEF AbsUsed
<1>10. QED
  BY <1>2, <1>8, <1>9 DEF L!Forget

\* The process dies only where LRUCache may fail.
LEMMA DieStep ==
    ASSUME IInv, Running, NEW how \in {"segv", "uaf"}, Die(how),
           \/ \E k \in Key : L!LastEntry(k)
           \/ pc = "update" /\ arg.node \notin live
           \/ pc = "idle" /\ \E k \in Key : L!Middle(k)
    PROVE  L!Fail
<1>1. UNCHANGED <<AbsStore, AbsUsed, clock, AbsJob, ret>>
  BY DEF Die, AbsStore, AbsUsed, AbsJob
<1>2. AbsUp' = "down" /\ AbsUp = "up"
  BY AbsView DEF Die, AbsUp
<1>3. pc = "update" /\ arg.node \notin live => AbsJob.kind = "update" /\ AbsJob.key \notin L!Present
  <2>1. SUFFICES ASSUME pc = "update", arg.node \notin live
                 PROVE  AbsJob.kind = "update" /\ AbsJob.key \notin L!Present
    OBVIOUS
  <2>2. arg.key \in Key /\ index[arg.key] = Null
    BY <2>1 DEF IInv, OpInv
  <2>3. AbsJob.kind = "update" /\ AbsJob.key = arg.key
    BY <2>1, AbsView
  <2>4. QED
    BY <2>2, <2>3, AbsView
<1>4. pc = "idle" => AbsJob = L!Idle
  BY AbsView
<1>5. QED
  BY <1>1, <1>2, <1>3, <1>4 DEF L!Fail

\* The result and the end of an operation.
LEMMA ReturnStep ==
    ASSUME NEW op, NEW ok, NEW v, Return(op, ok, v)
    PROVE  AbsJob' = L!Idle /\ AbsUp' = "up" /\ L!Answer(op, ok, v)
BY DEF Return, Ret, NoArg, AbsJob, AbsUp, L!Idle, L!Answer

\* A refused call.
LEMMA RefuseStep ==
    ASSUME IInv, pc = "idle", NEW op, Reject(op)
    PROVE  L!Refuse(op) /\ L!Ready
<1>1. Running
  BY DEF Running
<1>2. AbsJob = L!Idle /\ AbsUp = "up"
  BY <1>1, AbsView
<1>3. AbsJob' = L!Idle /\ AbsUp' = "up" /\ L!Answer(op, FALSE, Null)
  BY ReturnStep DEF Reject
<1>4. UNCHANGED <<AbsStore, AbsUsed, clock>>
  BY DEF Reject, AbsStore, AbsUsed
<1>5. QED
  BY <1>2, <1>3, <1>4 DEF L!Refuse, L!Ready

\* The first step of an operation that stores.
LEMMA BeginStep ==
    ASSUME IInv, pc = "idle", NEW k \in Key, NEW v \in Value, NEW op, ~TooBig(k, v)
    PROVE  /\ index[k] = Null /\ EnterInsert(op, k, v) => L!Begin(op, "insert", k, v)
           /\ index[k] # Null /\ EnterUpdate(op, k, v) => L!Begin(op, "update", k, v)
<1>1. Running
  BY DEF Running
<1>2. AbsUp = "up" /\ (k \in L!Present <=> index[k] # Null)
  BY <1>1, AbsView
<1>3. KeySize[k] + ValSize[v] <= MaxSize
  <2>1. KeySize[k] + ValSize[v] \in Nat /\ MaxSize \in Nat
    BY LRUAssumption
  <2>2. QED
    BY <2>1 DEF TooBig, Size
<1>4. k # Null
  BY LRUAssumption
<1>5. ASSUME index[k] = Null, EnterInsert(op, k, v) PROVE L!Begin(op, "insert", k, v)
  <2>1. UNCHANGED <<AbsStore, AbsUsed, clock, ret>> /\ AbsUp' = "up"
    BY <1>5 DEF EnterInsert, AbsStore, AbsUsed, AbsUp
  <2>2. AbsJob' = [op |-> op, kind |-> "insert", key |-> k, val |-> v]
    BY <1>4, <1>5 DEF EnterInsert, AbsJob
  <2>3. QED
    BY <1>2, <1>3, <1>5, <2>1, <2>2 DEF L!Begin
<1>6. ASSUME index[k] # Null, EnterUpdate(op, k, v) PROVE L!Begin(op, "update", k, v)
  <2>1. UNCHANGED <<AbsStore, AbsUsed, clock, ret>> /\ AbsUp' = "up"
    BY <1>6 DEF EnterUpdate, AbsStore, AbsUsed, AbsUp
  <2>2. AbsJob' = [op |-> op, kind |-> "update", key |-> k, val |-> v]
    BY <1>4, <1>6 DEF EnterUpdate, AbsJob
  <2>3. QED
    BY <1>2, <1>3, <1>6, <2>1, <2>2 DEF L!Begin
<1>7. QED
  BY <1>5, <1>6

\* Put, PutIfAbsent and Set.
LEMMA StoreStep ==
    ASSUME IInv, NEW k \in Key, NEW v \in Value
    PROVE  /\ Put(k, v) => L!Put(k, v)
           /\ PutIfAbsent(k, v) => L!PutIfAbsent(k, v)
           /\ Set(k, v) => L!Set(k, v)
<1>1. SUFFICES ASSUME pc = "idle"
               PROVE  /\ Put(k, v) => L!Put(k, v)
                      /\ PutIfAbsent(k, v) => L!PutIfAbsent(k, v)
                      /\ Set(k, v) => L!Set(k, v)
  BY DEF Put, PutIfAbsent, Set
<1>2. Running
  BY <1>1 DEF Running
<1>3. L!Ready /\ (k \in L!Present <=> index[k] # Null)
  BY <1>1, <1>2, AbsView DEF L!Ready
<1>4. TooBig(k, v) <=> KeySize[k] + ValSize[v] > MaxSize
  BY DEF TooBig, Size
<1>5. ASSUME NEW op
      PROVE  /\ Reject(op) => L!Refuse(op)
             /\ ~TooBig(k, v) /\ index[k] = Null /\ EnterInsert(op, k, v) =>
                    L!Begin(op, "insert", k, v)
             /\ ~TooBig(k, v) /\ index[k] # Null /\ EnterUpdate(op, k, v) =>
                    L!Begin(op, "update", k, v)
  BY <1>1, RefuseStep, BeginStep
<1>7. Put(k, v) => L!Put(k, v)
  BY <1>3, <1>4, <1>5, Zenon DEF Put, L!Put
<1>8. PutIfAbsent(k, v) => L!PutIfAbsent(k, v)
  BY <1>3, <1>4, <1>5, Zenon DEF PutIfAbsent, L!PutIfAbsent
<1>9. Set(k, v) => L!Set(k, v)
  BY <1>3, <1>4, <1>5, Zenon DEF Set, L!Set
<1>10. QED
  BY <1>7, <1>8, <1>9

\* Get.
LEMMA GetStep ==
    ASSUME IInv, NEW k \in Key, Get(k)
    PROVE  L!Get(k)
<1>1. pc = "idle" /\ Running
  BY DEF Get, Running
<1>2. L!Ready /\ (k \in L!Present <=> index[k] # Null)
  BY <1>1, AbsView DEF L!Ready
<1>3. CASE index[k] = Null
  <2>1. Reject("Get")
    BY <1>3 DEF Get
  <2>2. QED
    BY <1>1, <1>2, <1>3, <2>1, RefuseStep DEF L!Get
<1>4. CASE index[k] # Null
  <2>1. /\ Touch(index[k]) /\ Return("Get", TRUE, val[index[k]])
        /\ UNCHANGED <<val, index>>
    BY <1>4 DEF Get
  <2>2. L!Use(k)
    BY <1>1, <1>4, <2>1, UseStep
  <2>3. AbsStore[k] = val[index[k]] /\ UNCHANGED AbsStore
    BY <1>1, <1>4, <2>1, AbsView DEF AbsStore
  <2>4. AbsJob' = L!Idle /\ AbsUp' = "up" /\ L!Answer("Get", TRUE, val[index[k]])
    BY <2>1, ReturnStep
  <2>5. QED
    BY <1>2, <1>4, <2>2, <2>3, <2>4 DEF L!Get, L!Ready
<1>5. QED
  BY <1>3, <1>4

\* Delete.
LEMMA DeleteStep ==
    ASSUME IInv, NEW k \in Key, Delete(k)
    PROVE  L!Delete(k) \/ L!Fail
<1>1. pc = "idle" /\ Running
  BY DEF Delete, Running
<1>2. L!Ready /\ (k \in L!Present <=> index[k] # Null)
  BY <1>1, AbsView DEF L!Ready
<1>3. CASE index[k] = Null /\ Reject("Delete")
  BY <1>1, <1>2, <1>3, RefuseStep DEF L!Delete
<1>4. CASE index[k] # Null /\ RemoveCrashes(index[k]) /\ Die("segv")
  <2>1. CASE index[k] = head /\ next[head] = Null
    <3>1. \E j \in Key : L!LastEntry(j)
      BY <1>1, <1>4, <2>1, LastNode
    <3>2. QED
      BY <1>1, <1>4, <3>1, DieStep
  <2>2. CASE index[k] # head /\ index[k] # tail
    <3>1. \E j \in Key : L!Middle(j)
      BY <1>1, <1>4, <2>2, MiddleNode
    <3>2. QED
      BY <1>1, <1>4, <3>1, DieStep
  <2>3. QED
    BY <1>4, <2>1, <2>2 DEF RemoveCrashes
<1>5. CASE /\ index[k] # Null
           /\ ~RemoveCrashes(index[k])
           /\ RemoveNode(index[k])
           /\ Return("Delete", TRUE, Null)
           /\ UNCHANGED clock
  <2>1. index[k] \in live /\ key[index[k]] = k
    BY <1>1, <1>5, RunningShape DEF ListShape, IndexMatchesList
  <2>2. L!Forget(k)
    BY <1>1, <1>5, <2>1, ForgetStep
  <2>3. AbsJob' = L!Idle /\ AbsUp' = "up" /\ L!Answer("Delete", TRUE, Null)
    BY <1>5, ReturnStep
  <2>4. QED
    BY <1>2, <1>5, <2>2, <2>3 DEF L!Delete, L!Ready
<1>6. QED
  BY <1>3, <1>4, <1>5 DEF Delete

\* An iteration of an eviction loop.
LEMMA EvictStep ==
    ASSUME IInv, pc \in {"insert", "update"}, head # Null, EvictHead
    PROVE  (\E k \in Key : L!Evict(k)) \/ L!Fail
<1>1. Running
  BY DEF Running
<1>2. CASE RemoveCrashes(head) /\ Die("segv")
  <2>1. \E j \in Key : L!LastEntry(j)
    BY <1>1, <1>2, LastNode DEF RemoveCrashes
  <2>2. QED
    BY <1>1, <1>2, <2>1, DieStep
<1>3. CASE RemoveNode(head) /\ UNCHANGED <<pc, arg, ret, clock>>
  <2>1. head \in live
    BY <1>1, RunningShape DEF ListShape, HeadIsOldest
  <2>2. L!Forget(key[head]) /\ key[head] \in Key /\ index[key[head]] = head
    BY <1>1, <1>3, <2>1, ForgetStep
  <2>3. L!Oldest(key[head])
    BY <1>1, <2>2, AbsOrder
  <2>4. UNCHANGED <<AbsJob, ret, AbsUp>>
    BY <1>3 DEF AbsJob, AbsUp
  <2>5. AbsUp = "up" /\ AbsJob # L!Idle
    <3>1. AbsJob.kind # "none"
      BY <1>1, AbsView
    <3>2. QED
      BY <1>1, <3>1, AbsView DEF L!Idle
  <2>6. L!Evict(key[head])
    BY <2>2, <2>3, <2>4, <2>5 DEF L!Evict
  <2>7. QED
    BY <2>2, <2>6
<1>4. QED
  BY <1>2, <1>3 DEF EvictHead

\* The end of an insertion.
LEMMA InsertLinkStep ==
    ASSUME IInv, NEW n \in Node, InsertLink(n)
    PROVE  L!Finish
<1>1. pc = "insert" /\ Running
  BY DEF InsertLink, Running
<1>2. /\ AbsUp = "up"
      /\ AbsJob = [op |-> arg.op, kind |-> "insert", key |-> arg.key, val |-> arg.val]
  BY <1>1, AbsView
<1>3. AbsJob # L!Idle /\ AbsJob.kind # "update"
  BY <1>2 DEF L!Idle
<1>4. arg.key \in Key /\ index[arg.key] = Null /\ arg.key \notin L!Present
  <2>1. arg.key \in Key /\ index[arg.key] = Null
    BY <1>1 DEF IInv, OpInv
  <2>2. QED
    BY <1>1, <2>1, AbsView
<1>5. \A j \in Key : index[j] # Null => index[j] \in Node /\ index[j] # n
  BY <1>1, RunningShape DEF InsertLink, ListShape, IndexMatchesList, IInv, TypeOK
<1>6. /\ val' = [val EXCEPT ![n] = arg.val]
      /\ stamp' = [stamp EXCEPT ![n] = clock]
      /\ index' = [index EXCEPT ![arg.key] = n]
      /\ clock' = clock + 1 /\ Return(arg.op, TRUE, Null)
  BY DEF InsertLink
<1>7. \A j \in Key : index'[j] = IF j = arg.key THEN n ELSE index[j]
  BY <1>6 DEF IInv, TypeOK
<1>8. /\ val'[n] = arg.val /\ stamp'[n] = clock /\ n # Null
      /\ \A j \in Key : index[j] # Null => /\ val'[index[j]] = val[index[j]]
                                          /\ stamp'[index[j]] = stamp[index[j]]
  BY <1>5, <1>6, LRUAssumption DEF IInv, TypeOK
<1>9. AbsStore' = [AbsStore EXCEPT ![arg.key] = arg.val]
  <2>1. \A j \in Key : (IF index'[j] = Null THEN Null ELSE val'[index'[j]])
                        = IF j = arg.key THEN arg.val
                          ELSE IF index[j] = Null THEN Null ELSE val[index[j]]
    BY <1>7, <1>8
  <2>2. QED
    BY <1>4, <2>1 DEF AbsStore
<1>10. AbsUsed' = [AbsUsed EXCEPT ![arg.key] = clock]
  <2>1. \A j \in Key : (IF index'[j] = Null THEN 0 ELSE stamp'[index'[j]])
                        = IF j = arg.key THEN clock
                          ELSE IF index[j] = Null THEN 0 ELSE stamp[index[j]]
    BY <1>7, <1>8
  <2>2. QED
    BY <1>4, <2>1 DEF AbsUsed
<1>11. L!Use(arg.key)
  BY <1>4, <1>6, <1>10 DEF L!Use, L!Newest
<1>12. AbsJob' = L!Idle /\ AbsUp' = "up" /\ L!Answer(arg.op, TRUE, Null)
  BY <1>6, ReturnStep
<1>13. AbsJob.key = arg.key /\ AbsJob.val = arg.val /\ AbsJob.op = arg.op
  BY <1>2
<1>14. QED
  BY <1>2, <1>3, <1>9, <1>11, <1>12, <1>13 DEF L!Finish

\* The end of an update.
LEMMA UpdateStoreStep ==
    ASSUME IInv, UpdateStore
    PROVE  L!Finish \/ L!Fail
<1>1. pc = "update" /\ Running
  BY DEF UpdateStore, Running
<1>2. CASE arg.node \notin live /\ Die("uaf")
  BY <1>1, <1>2, DieStep
<1>3. CASE /\ arg.node \in live
           /\ val' = [val EXCEPT ![arg.node] = arg.val]
           /\ Touch(arg.node)
           /\ Return(arg.op, TRUE, Null)
           /\ UNCHANGED index
  <2>1. arg.key \in Key /\ index[arg.key] = arg.node /\ arg.node # Null
    BY <1>1, <1>3, LRUAssumption DEF IInv, OpInv
  <2>2. /\ AbsUp = "up" /\ arg.key \in L!Present
        /\ AbsJob = [op |-> arg.op, kind |-> "update", key |-> arg.key, val |-> arg.val]
    BY <1>1, <2>1, AbsView
  <2>3. AbsJob # L!Idle /\ AbsJob.key = arg.key /\ AbsJob.val = arg.val /\ AbsJob.op = arg.op
    BY <2>2 DEF L!Idle
  <2>4. L!Use(arg.key)
    BY <1>1, <1>3, <2>1, UseStep
  <2>5. \A j \in Key : index[j] # Null => index[j] \in Node /\ (index[j] = arg.node => j = arg.key)
    BY <1>1, <2>1, RunningShape DEF ListShape, IndexMatchesList, IInv, TypeOK
  <2>6. \A j \in Key : index[j] # Null =>
           val'[index[j]] = IF j = arg.key THEN arg.val ELSE val[index[j]]
    BY <1>3, <2>1, <2>5 DEF IInv, TypeOK
  <2>7. AbsStore' = [AbsStore EXCEPT ![arg.key] = arg.val]
    BY <1>3, <2>1, <2>6 DEF AbsStore
  <2>8. AbsJob' = L!Idle /\ AbsUp' = "up" /\ L!Answer(arg.op, TRUE, Null)
    BY <1>3, ReturnStep
  <2>9. QED
    BY <2>2, <2>3, <2>4, <2>7, <2>8 DEF L!Finish
<1>4. QED
  BY <1>2, <1>3 DEF UpdateStore

\* The destructor: to the outside everything is gone at once.
LEMMA DestroyStep ==
    ASSUME IInv, Destroy
    PROVE  L!Close /\ IndexCleared'
<1>1. pc = "idle" /\ Running
  BY DEF Destroy, Running
<1>2. L!Ready
  BY <1>1, AbsView DEF L!Ready
<1>3. \A k \in Key : index'[k] = Null
  <2>1. CASE head = Null
    BY <1>1, <2>1, RunningShape DEF Destroy, ListShape, HeadIsOldest, IndexMatchesList
  <2>2. CASE head # Null
    BY <2>2 DEF Destroy
  <2>3. QED
    BY <2>1, <2>2
<1>4. AbsUp' = "gone" /\ UNCHANGED <<clock, AbsJob, ret>>
  BY DEF Destroy, AbsUp, AbsJob
<1>5. AbsStore' = [k \in Key |-> Null] /\ AbsUsed' = [k \in Key |-> 0]
  BY <1>3 DEF AbsStore, AbsUsed
<1>6. QED
  BY <1>2, <1>3, <1>4, <1>5 DEF L!Close, IndexCleared

\* Popping a node is not seen.
LEMMA DestroyPopStep ==
    ASSUME IInv, IndexCleared, DestroyPop
    PROVE  UNCHANGED L!vars /\ IndexCleared'
<1>1. pc = "dtor" /\ pc' \in {"dtor", "destroyed"} /\ UNCHANGED <<index, arg, ret, clock>>
  BY DEF DestroyPop
<1>2. \A k \in Key : index[k] = Null
  BY <1>1 DEF IndexCleared
<1>3. UNCHANGED <<AbsStore, AbsUsed, AbsJob>>
  BY <1>1, <1>2 DEF AbsStore, AbsUsed, AbsJob
<1>4. UNCHANGED AbsUp
  BY <1>1 DEF AbsUp
<1>5. QED
  BY <1>1, <1>2, <1>3, <1>4 DEF L!vars, IndexCleared

\* Every step of the pointers is a step of the map, or is not seen.
LEMMA Simulation ==
    ASSUME IInv, IndexCleared, [Next]_vars
    PROVE  [L!Next]_(L!vars) /\ IndexCleared'
<1>1. CASE UNCHANGED vars
  BY <1>1 DEF vars, L!vars, AbsStore, AbsUsed, AbsJob, AbsUp, IndexCleared
<1>2. ASSUME NEW k \in Key, NEW v \in Value, Put(k, v) \/ PutIfAbsent(k, v) \/ Set(k, v)
      PROVE  L!Next /\ pc' # "dtor"
  <2>1. pc' # "dtor"
    BY <1>2 DEF Put, PutIfAbsent, Set, Reject, EnterInsert, EnterUpdate, Return
  <2>2. QED
    BY <1>2, <2>1, StoreStep DEF L!Next
<1>3. ASSUME NEW k \in Key, Get(k) PROVE L!Next /\ pc' # "dtor"
  BY <1>3, GetStep DEF L!Next, Get, Reject, Return
<1>4. ASSUME NEW k \in Key, Delete(k) PROVE L!Next /\ pc' # "dtor"
  BY <1>4, DeleteStep DEF L!Next, Delete, Reject, Return, Die
<1>5. ASSUME NEW n \in Node, InsertLink(n) PROVE L!Next /\ pc' # "dtor"
  BY <1>5, InsertLinkStep DEF L!Next, InsertLink, Return
<1>6. CASE InsertEvict \/ UpdateEvict
  <2>1. pc \in {"insert", "update"} /\ EvictHead /\ head # Null
    BY <1>6, LoopFindsNode
  <2>2. L!Next
    BY <2>1, EvictStep DEF L!Next
  <2>3. pc' # "dtor"
    BY <2>1 DEF EvictHead, Die
  <2>4. QED
    BY <2>2, <2>3 DEF IndexCleared
<1>7. CASE UpdateStore
  BY <1>7, UpdateStoreStep DEF L!Next, UpdateStore, Return, Die, IndexCleared
<1>8. CASE Destroy
  BY <1>8, DestroyStep DEF L!Next
<1>9. CASE DestroyPop
  BY <1>9, DestroyPopStep
<1>10. L!Next /\ pc' # "dtor" => [L!Next]_(L!vars) /\ IndexCleared'
  BY DEF IndexCleared
<1>11. QED
  BY <1>1, <1>2, <1>3, <1>4, <1>5, <1>6, <1>7, <1>8, <1>9, <1>10 DEF Next, Call, Step

\* The pointer structure implements the LRU map of LRUCache: for every set of
\* keys, all sizes and any history of calls, what Get returns, which entry is
\* evicted and when the code may die are those of the abstract cache.
THEOREM Refinement == Spec => RefinesLRUCache
<1>1. Init => L!Init /\ IndexCleared
  BY DEF Init, L!Init, L!Idle, AbsStore, AbsUsed, AbsJob, AbsUp, NoArg, Ret, IndexCleared
<1>2. IInv /\ IndexCleared /\ [Next]_vars => [L!Next]_(L!vars) /\ IndexCleared'
  BY Simulation
<1>3. QED
  BY <1>1, <1>2, Invariance, PTL DEF Spec, RefinesLRUCache, L!Spec

----------------------------------------------------------------------------
(* The accounting of bytes with entries of one size. *)

\* With entries of size s the count of bytes is exact, and an update changes it
\* by nothing and evicts nothing, so its node stays.
CountInv(s) ==
    Running =>
        /\ IsFiniteSet(live)
        /\ cur = s * Cardinality(live)
        /\ cur <= MaxSize
        /\ pc = "update" => arg.delta = 0 /\ arg.node \in live

UniformInv == \A s \in 0 .. Word - 1 : UniformSize(s) => CountInv(s)

\* Multiplication by a successor.
LEMMA TimesSucc ==
    ASSUME NEW s \in Nat, NEW n \in Nat
    PROVE  s * (n + 1) = s * n + s /\ (n + 1) * s = s * n + s /\ s * n \in Nat
OBVIOUS

\* A word does not wrap.
LEMMA WrapId == ASSUME NEW n \in 0 .. Word - 1 PROVE Wrap(n) = n
BY LRUAssumption DEF Wrap

\* Nothing is counted anew.
LEMMA CountFrame ==
    ASSUME NEW s \in 0 .. Word - 1, CountInv(s), Running,
           UNCHANGED <<live, cur>>, pc' # "update"
    PROVE  CountInv(s)'
BY DEF CountInv

\* Unlinking a node subtracts the size of an entry.
LEMMA RemoveCount ==
    ASSUME IInv, Running, NEW s \in 0 .. Word - 1, UniformSize(s), CountInv(s),
           NEW n \in live, RemoveNode(n)
    PROVE  /\ IsFiniteSet(live') /\ Cardinality(live') = Cardinality(live) - 1
           /\ cur' = s * Cardinality(live') /\ cur' <= MaxSize
<1>1. /\ IsFiniteSet(live) /\ cur = s * Cardinality(live) /\ cur <= MaxSize
      /\ cur \in 0 .. Word - 1 /\ s \in Nat /\ Word \in Nat /\ MaxSize \in Nat
      /\ MaxSize < Word
  BY LRUAssumption DEF CountInv, IInv, TypeOK
<1>2. live' = live \ {n}
  BY DEF RemoveNode
<1>3. /\ IsFiniteSet(live') /\ Cardinality(live') = Cardinality(live) - 1
      /\ Cardinality(live) \in Nat /\ Cardinality(live') \in Nat
  BY <1>1, <1>2, FS_RemoveElement, FS_CardinalityType
<1>4. tail \in live
  BY RunningShape DEF ListShape, HeadIsOldest, PrevInvertsNext
<1>5. Size(key[tail], val[tail]) = s
  BY <1>4, RunningShape DEF ListShape, IndexMatchesList, UniformSize
<1>6. cur' = Wrap(cur - s)
  BY <1>5 DEF RemoveNode
<1>7. cur - s = s * Cardinality(live') /\ s * Cardinality(live') \in Nat
  <2>1. Cardinality(live) = Cardinality(live') + 1
    BY <1>3
  <2>2. /\ s * (Cardinality(live') + 1) = s * Cardinality(live') + s
        /\ s * Cardinality(live') \in Nat
    BY <1>1, <1>3, TimesSucc
  <2>3. cur = s * Cardinality(live') + s
    BY <1>1, <2>1, <2>2
  <2>4. QED
    BY <1>1, <2>2, <2>3
<1>8. cur - s \in 0 .. Word - 1 /\ cur - s <= MaxSize
  BY <1>1, <1>7
<1>9. QED
  BY <1>3, <1>6, <1>7, <1>8, WrapId

\* While entries have one size an update has room.
LEMMA UpdateHasRoom ==
    ASSUME IInv, NEW s \in 0 .. Word - 1, CountInv(s), pc = "update"
    PROVE  ~UpdateNeedsRoom(arg.delta) /\ Wrap(cur + arg.delta) = cur
<1>1. arg.delta = 0 /\ cur <= MaxSize /\ cur \in 0 .. Word - 1 /\ MaxSize \in Nat
  BY LRUAssumption DEF CountInv, Running, IInv, TypeOK
<1>2. cur + arg.delta = cur
  BY <1>1, LRUAssumption
<1>3. Wrap(cur + arg.delta) = cur
  BY <1>1, <1>2, WrapId
<1>4. QED
  BY <1>1, <1>3, LRUAssumption DEF UpdateNeedsRoom

\* An iteration of the loop of _insert_new_value: one more entry would not fit.
LEMMA InsertIsFull ==
    ASSUME IInv, NEW s \in 0 .. Word - 1, UniformSize(s), CountInv(s), pc = "insert",
           InsertNeedsRoom(arg.key, arg.val)
    PROVE  (Cardinality(live) + 1) * s > MaxSize
<1>1. arg.key \in Key /\ arg.val \in Value
  BY DEF IInv, OpInv
<1>2. cur > MaxSize - s
  BY <1>1 DEF InsertNeedsRoom, UniformSize
<1>3. IsFiniteSet(live) /\ cur = s * Cardinality(live)
  BY DEF CountInv, Running
<1>4. Cardinality(live) \in Nat /\ s \in Nat /\ MaxSize \in Nat
  BY <1>3, FS_CardinalityType, LRUAssumption
<1>5. (Cardinality(live) + 1) * s = cur + s /\ cur \in Nat
  BY <1>3, <1>4, TimesSucc
<1>6. QED
  BY <1>2, <1>4, <1>5

\* Every step keeps the count.
LEMMA CountStep ==
    ASSUME IInv, NEW s \in 0 .. Word - 1, UniformSize(s), CountInv(s), [Next]_vars
    PROVE  CountInv(s)'
<1>1. CASE UNCHANGED vars
  BY <1>1 DEF vars, CountInv, Running
<1>2. ASSUME NEW k \in Key, NEW v \in Value, Put(k, v) \/ PutIfAbsent(k, v) \/ Set(k, v)
      PROVE  CountInv(s)'
  <2>1. pc = "idle" /\ Running
    BY <1>2 DEF Put, PutIfAbsent, Set, Running
  <2>2. \E op \in Ops :
           \/ Reject(op) \/ EnterInsert(op, k, v)
           \/ index[k] # Null /\ EnterUpdate(op, k, v)
    BY <1>2, Zenon DEF Put, PutIfAbsent, Set, Ops
  <2>3. ASSUME NEW op \in Ops, Reject(op) \/ EnterInsert(op, k, v) PROVE CountInv(s)'
    <3>1. pc' # "update" /\ UNCHANGED <<live, cur>>
      BY <2>3 DEF Reject, EnterInsert, Return
    <3>2. QED
      BY <2>1, <3>1, CountFrame
  <2>4. ASSUME NEW op \in Ops, index[k] # Null, EnterUpdate(op, k, v) PROVE CountInv(s)'
    <3>1. index[k] \in live /\ val[index[k]] \in Value
      BY <2>1, <2>4, RunningShape DEF ListShape, IndexMatchesList
    <3>2. ValSize[v] - ValSize[val[index[k]]] = 0
      <4>1. /\ KeySize[k] + ValSize[v] = s /\ KeySize[k] + ValSize[val[index[k]]] = s
            /\ KeySize[k] \in Nat /\ ValSize[v] \in Nat /\ ValSize[val[index[k]]] \in Nat
        BY <3>1, LRUAssumption DEF UniformSize, Size
      <4>2. QED
        BY <4>1, LRUAssumption
    <3>3. Wrap(0) = 0
      BY LRUAssumption, WrapId
    <3>4. arg'.delta = 0 /\ arg'.node \in live' /\ UNCHANGED <<live, cur>>
      BY <2>4, <3>1, <3>2, <3>3 DEF EnterUpdate
    <3>5. QED
      BY <2>1, <3>4 DEF CountInv
  <2>5. QED
    BY <2>2, <2>3, <2>4
<1>3. ASSUME NEW k \in Key, Get(k) PROVE CountInv(s)'
  <2>1. pc = "idle" /\ Running /\ pc' # "update" /\ UNCHANGED <<live, cur>>
    BY <1>3 DEF Get, Reject, Return, Running
  <2>2. QED
    BY <2>1, CountFrame
<1>4. ASSUME NEW k \in Key, Delete(k) PROVE CountInv(s)'
  <2>1. pc = "idle" /\ Running /\ pc' # "update"
    BY <1>4 DEF Delete, Reject, Return, Die, Running
  <2>2. CASE RemoveNode(index[k]) /\ index[k] # Null
    <3>1. index[k] \in live
      BY <2>1, <2>2, RunningShape DEF ListShape, IndexMatchesList
    <3>2. QED
      BY <2>1, <2>2, <3>1, RemoveCount DEF CountInv
  <2>3. CASE UNCHANGED <<live, cur>>
    BY <2>1, <2>3, CountFrame
  <2>4. QED
    BY <1>4, <2>2, <2>3 DEF Delete, Reject, Die
<1>5. ASSUME NEW n \in Node, InsertLink(n) PROVE CountInv(s)'
  <2>1. /\ pc = "insert" /\ Running /\ pc' = "idle" /\ n \notin live
        /\ live' = live \cup {n} /\ cur' = Wrap(cur + Size(arg.key, arg.val))
        /\ ~(cur > MaxSize - Size(arg.key, arg.val))
    BY <1>5 DEF InsertLink, Return, Running, InsertNeedsRoom
  <2>2. Size(arg.key, arg.val) = s
    BY <2>1 DEF IInv, OpInv, UniformSize
  <2>3. /\ IsFiniteSet(live) /\ cur = s * Cardinality(live) /\ cur \in Nat
        /\ s \in Nat /\ Word \in Nat /\ MaxSize \in Nat /\ MaxSize < Word
    BY <2>1, LRUAssumption DEF CountInv, IInv, TypeOK
  <2>4. /\ IsFiniteSet(live') /\ Cardinality(live') = Cardinality(live) + 1
        /\ Cardinality(live) \in Nat
    BY <2>1, <2>3, FS_AddElement, FS_CardinalityType
  <2>5. cur + s = s * Cardinality(live')
    BY <2>3, <2>4, TimesSucc
  <2>6. cur + s <= MaxSize /\ cur + s \in 0 .. Word - 1
    BY <2>1, <2>2, <2>3
  <2>7. cur' = cur + s
    BY <2>1, <2>2, <2>6, WrapId
  <2>8. QED
    BY <2>1, <2>4, <2>5, <2>6, <2>7 DEF CountInv
<1>6. CASE InsertEvict
  <2>1. pc = "insert" /\ Running /\ head # Null /\ EvictHead
    BY <1>6, LoopFindsNode DEF InsertEvict, Running
  <2>2. CASE Die("segv")
    BY <2>2 DEF Die, CountInv, Running
  <2>3. CASE RemoveNode(head) /\ UNCHANGED pc
    <3>1. head \in live
      BY <2>1, RunningShape DEF ListShape, HeadIsOldest
    <3>2. QED
      BY <2>1, <2>3, <3>1, RemoveCount DEF CountInv
  <2>4. QED
    BY <2>1, <2>2, <2>3 DEF EvictHead
<1>7. CASE UpdateEvict
  BY <1>7, UpdateHasRoom DEF UpdateEvict
<1>8. CASE UpdateStore
  <2>1. pc = "update" /\ Running /\ pc' # "update" /\ arg.node \in live
    BY <1>8 DEF UpdateStore, Die, Return, Running, CountInv
  <2>2. UNCHANGED <<live, cur>>
    BY <1>8, <2>1, UpdateHasRoom DEF UpdateStore
  <2>3. QED
    BY <2>1, <2>2, CountFrame
<1>9. CASE Destroy \/ DestroyPop
  BY <1>9 DEF Destroy, DestroyPop, CountInv, Running
<1>10. QED
  BY <1>1, <1>2, <1>3, <1>4, <1>5, <1>6, <1>7, <1>8, <1>9 DEF Next, Call, Step

\* The count holds in every reachable state, with Delete too.
THEOREM CountCorrect == Spec => []UniformInv
<1>1. Init => UniformInv
  <2> SUFFICES ASSUME Init, NEW s \in 0 .. Word - 1 PROVE CountInv(s)
    BY DEF UniformInv
  <2>1. IsFiniteSet(live) /\ Cardinality(live) = 0
    BY FS_EmptySet DEF Init
  <2>2. cur = 0 /\ s * 0 = 0 /\ 0 <= MaxSize /\ pc # "update"
    BY LRUAssumption DEF Init
  <2>3. QED
    BY <2>1, <2>2 DEF CountInv
<1>2. IInv /\ UniformInv /\ [Next]_vars => UniformInv'
  BY CountStep DEF UniformInv, UniformSize, Size
<1>3. QED
  BY <1>1, <1>2, Invariance, PTL DEF Spec

\* What the servers do is part of what any client may do.
LEMMA ServerIsClient == ServerSpec => Spec
<1>1. [ServerNext]_vars => [Next]_vars
  BY DEF ServerNext, Next
<1>2. QED
  BY <1>1, PTL DEF ServerSpec, Spec

\* All entries have one size, and two of them fit.
TwoFit == \E s \in 0 .. Word - 1 : UniformSize(s) /\ 2 * s <= MaxSize

\* Then no call of the servers makes the code die: the loop of an insertion
\* stops before the last entry, and an update evicts nothing.
LEMMA NoCrashStep ==
    ASSUME TwoFit, IInv, UniformInv, NoCrash, [ServerNext]_vars
    PROVE  NoCrash'
<1>1. PICK s \in 0 .. Word - 1 : UniformSize(s) /\ 2 * s <= MaxSize
  BY DEF TwoFit
<1>2. CountInv(s)
  BY <1>1 DEF UniformInv
<1>3. CASE UNCHANGED vars
  BY <1>3 DEF vars, NoCrash
<1>4. CASE InsertEvict
  <2>1. pc = "insert" /\ Running /\ head # Null /\ EvictHead
    BY <1>4, LoopFindsNode DEF InsertEvict, Running
  <2>2. (Cardinality(live) + 1) * s > MaxSize
    BY <1>1, <1>2, <1>4, <2>1, InsertIsFull DEF InsertEvict
  <2>3. ~RemoveCrashes(head)
    <3>1. SUFFICES ASSUME RemoveCrashes(head) PROVE FALSE
      OBVIOUS
    <3>2. live = {head}
      BY <2>1, <3>1, LastNode DEF RemoveCrashes
    <3>3. Cardinality(live) = 1
      BY <3>2, FS_Singleton
    <3>4. (1 + 1) * s = 2 * s
      OBVIOUS
    <3>5. QED
      BY <1>1, <2>2, <3>3, <3>4, LRUAssumption
  <2>4. QED
    BY <2>1, <2>3 DEF EvictHead, NoCrash
<1>5. CASE UpdateEvict
  BY <1>2, <1>5, UpdateHasRoom DEF UpdateEvict
<1>6. CASE UpdateStore
  <2>1. arg.node \in live
    BY <1>2, <1>6 DEF UpdateStore, CountInv, Running
  <2>2. QED
    BY <1>6, <2>1 DEF UpdateStore, Return, NoCrash
<1>7. ASSUME NEW n \in Node, InsertLink(n) PROVE NoCrash'
  BY <1>7 DEF InsertLink, Return, NoCrash
<1>8. CASE Destroy \/ DestroyPop
  BY <1>8 DEF Destroy, DestroyPop, NoCrash
<1>9. CASE Call
  <2>1. CASE \E k \in Key, v \in Value : Put(k, v)
    BY <2>1 DEF Put, Reject, EnterInsert, EnterUpdate, Return, NoCrash
  <2>2. CASE \E k \in Key, v \in Value : PutIfAbsent(k, v)
    BY <2>2 DEF PutIfAbsent, Reject, EnterInsert, EnterUpdate, Return, NoCrash
  <2>3. CASE \E k \in Key, v \in Value : Set(k, v)
    BY <2>3 DEF Set, Reject, EnterInsert, EnterUpdate, Return, NoCrash
  <2>4. CASE \E k \in Key : Get(k)
    BY <2>4 DEF Get, Reject, Return, NoCrash
  <2>5. QED
    BY <1>9, <2>1, <2>2, <2>3, <2>4 DEF Call
<1>10. QED
  BY <1>3, <1>4, <1>5, <1>6, <1>7, <1>8, <1>9 DEF ServerNext, Step

\* With entries of one size of which two fit, as in the tests, the cache of the
\* servers counts exactly, keeps its limit and never touches a pointer that is
\* null or dangling.
THEOREM UniformCorrect == TwoFit => (ServerSpec => []UniformSound)
<1> SUFFICES ASSUME TwoFit PROVE ServerSpec => []UniformSound
  OBVIOUS
<1>1. Init => NoCrash
  BY DEF Init, NoCrash
<1>2. IInv /\ UniformInv /\ NoCrash /\ [ServerNext]_vars => NoCrash'
  BY NoCrashStep
<1>3. UniformInv /\ NoCrash => UniformSound
  BY DEF UniformInv, CountInv, UniformSound, SizeExact
<1>4. QED
  BY <1>1, <1>2, <1>3, ServerIsClient, Invariance, CountCorrect, PTL DEF ServerSpec

\* With entries of one size the servers lose an entry only to an insertion that
\* does not fit beside all the others.
THEOREM EvictionCorrect == ServerSpec => EvictsOnlyWhenFull
<1> DEFINE Act == \A s \in 0 .. Word - 1 :
              UniformSize(s) /\ Running' /\ Cardinality(live') < Cardinality(live)
                 => pc = "insert" /\ (Cardinality(live) + 1) * s > MaxSize
<1>1. ASSUME IInv, UniformInv, ServerNext PROVE Act
  <2> SUFFICES ASSUME NEW s \in 0 .. Word - 1, UniformSize(s), Running',
                      Cardinality(live') < Cardinality(live)
               PROVE  pc = "insert" /\ (Cardinality(live) + 1) * s > MaxSize
    OBVIOUS
  <2>1. CountInv(s)
    BY <1>1 DEF UniformInv
  <2>2. Running
    BY <1>1 DEF ServerNext, Call, Step, Put, PutIfAbsent, Set, Get, InsertLink, InsertEvict,
       UpdateEvict, UpdateStore, Destroy, DestroyPop, Running
  <2>3. IsFiniteSet(live) /\ Cardinality(live) \in Nat
    BY <2>1, <2>2, FS_CardinalityType DEF CountInv
  <2>4. live' # live
    BY <2>3
  <2>5. CASE InsertEvict
    BY <1>1, <2>1, <2>5, InsertIsFull DEF InsertEvict
  <2>6. CASE UpdateEvict
    BY <1>1, <2>1, <2>6, UpdateHasRoom DEF UpdateEvict
  <2>7. ASSUME NEW n \in Node, InsertLink(n) PROVE FALSE
    <3>1. live' = live \cup {n}
      BY <2>7 DEF InsertLink
    <3>2. Cardinality(live') = Cardinality(live) \/ Cardinality(live') = Cardinality(live) + 1
      BY <2>3, <3>1, FS_AddElement
    <3>3. QED
      BY <2>3, <3>2
  <2>8. CASE UpdateStore \/ Destroy \/ DestroyPop
    BY <2>4, <2>8 DEF UpdateStore, Destroy, DestroyPop, Die, Running
  <2>8a. CASE Call
    <3>1. CASE \E k \in Key, v \in Value : Put(k, v)
      BY <2>4, <3>1 DEF Put, Reject, EnterInsert, EnterUpdate
    <3>2. CASE \E k \in Key, v \in Value : PutIfAbsent(k, v)
      BY <2>4, <3>2 DEF PutIfAbsent, Reject, EnterInsert, EnterUpdate
    <3>3. CASE \E k \in Key, v \in Value : Set(k, v)
      BY <2>4, <3>3 DEF Set, Reject, EnterInsert, EnterUpdate
    <3>4. CASE \E k \in Key : Get(k)
      BY <2>4, <3>4 DEF Get, Reject
    <3>5. QED
      BY <2>8a, <3>1, <3>2, <3>3, <3>4 DEF Call
  <2>9. QED
    BY <1>1, <2>5, <2>6, <2>7, <2>8, <2>8a DEF ServerNext, Step
<1>2. IInv /\ UniformInv /\ [ServerNext]_vars => [Act]_vars
  BY <1>1
<1>3. QED
  BY <1>2, ServerIsClient, Invariance, CountCorrect, PTL DEF ServerSpec, EvictsOnlyWhenFull
=============================================================================
