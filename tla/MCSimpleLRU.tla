---------------------------- MODULE MCSimpleLRU ----------------------------
(* Instances of SimpleLRU for TLC: which entries have which size. *)
EXTENDS SimpleLRU, FiniteSetsExt, TLC

CONSTANT Huge   \* a value that does not fit at all

\* All keys have one byte.
MCKeySize == [k \in Key |-> 1]

\* Values of 0 and 1 bytes, and one that is too big with any key.
MCValSizeDistinct ==
    CHOOSE f \in [Value -> 0 .. MaxSize] :
        /\ \A v, w \in Value : f[v] = f[w] => v = w
        /\ \A v \in Value :
              IF v = Huge THEN f[v] = MaxSize ELSE f[v] < Cardinality(Value) - 1

\* Values of one byte.
MCValSizeOne == [v \in Value |-> 1]

Symmetry == Permutations(Node) \cup Permutations(Key)

\* The bytes the cache really holds never exceed the limit ("all (keys+values)
\* must be less the _max_size", SimpleLRU.h:79-80).
Capacity ==
    Running => MapThenSumSet(LAMBDA n : Size(key[n], val[n]), live) <= MaxSize
=============================================================================
