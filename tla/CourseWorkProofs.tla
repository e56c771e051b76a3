-------------------------- MODULE CourseWorkProofs --------------------------
(***************************************************************************)
(* Theorems about the two programs of the course: the sort by coroutines,  *)
(* then (further below) the shell.                                         *)
(***************************************************************************)
EXTENDS HwSort, Shell, FiniteSetTheorems, SequenceTheorems, TLAPS

(***************************************************************************)
(* The sort of the course, for any files of numbers (main requires one).   *)
(*                                                                         *)
(* The segments on the stack of a task are in ascending order, the one     *)
(* that is partitioned lies behind all of them, and the n-th begins at     *)
(* 2 * (n - 1) or later: that makes them disjoint and the stack of N       *)
(* entries long enough.  While a segment is partitioned its numbers only   *)
(* change places among themselves, so a number outside of it, which is in  *)
(* order with all of them, stays so.                                       *)
(***************************************************************************)
SortSpec == SortInit("load", Seq(Seq(Int)) \ {<<>>}) /\ [][SortNext]_sortVars

\* struct task, and an array.
TaskRecord == [pos : {"none", "entry", "loop", "part", "wait"}, is_finished : BOOLEAN,
               arr : Nat, stack : Seq(Int), l : Int, h : Int, x : Int,
               i : Int, j : Int, N : Nat]
Block == [data : Seq(Int), live : BOOLEAN]

\* The n-th segment on a stack s.
Depth(s) == Len(s) \div 2
Lo(s, n) == s[2 * n - 1]
Hi(s, n) == s[2 * n]

\* The segments of a stack, of an array of N.
Ascending(s, N) ==
    /\ Len(s) = 2 * Depth(s)
    /\ \A n \in 1 .. Depth(s) :
          2 * (n - 1) <= Lo(s, n) /\ Lo(s, n) < Hi(s, n) /\ Hi(s, n) < N
    /\ \A m, n \in 1 .. Depth(s) : m < n => Hi(s, m) < Lo(s, n)

\* The segment l..h is behind those on the stack.
Behind(s, l, h, N) ==
    /\ 2 * Depth(s) <= l /\ l < h /\ h < N
    /\ \A n \in 1 .. Depth(s) : Hi(s, n) < l

\* The loop of the partition: up to i the numbers are not above the pivot x, from
\* there to j they are.
Parted(A, l, h, x, i, j) ==
    /\ l - 1 <= i /\ i < j /\ j <= h
    /\ x = A[h + 1]
    /\ \A k \in l .. i : A[k + 1] <= x
    /\ \A k \in i + 1 .. j - 1 : x < A[k + 1]

\* a and b are in one segment on the stack.
OnStack(s, a, b) == \E n \in 1 .. Depth(s) : Lo(s, n) <= a /\ b <= Hi(s, n)

\* The stack r is s with the segment l..h behind the others.
Grown(s, r, l, h, N) ==
    /\ r \in Seq(Int) /\ Ascending(r, N)
    /\ Depth(r) = Depth(s) + 1
    /\ \A a, b \in Int : OnStack(s, a, b) \/ (l <= a /\ b <= h) => OnStack(r, a, b)
    /\ \A n \in 1 .. Depth(s) + 1 : Hi(r, n) <= h

\* Two numbers in the wrong order are in a segment on the stack, or in l..h (l > h
\* when there is none).
WrongOnlyInside(A, s, l, h, N) ==
    \A a, b \in 0 .. N - 1 :
        a < b /\ A[a + 1] > A[b + 1] => OnStack(s, a, b) \/ (l <= a /\ b <= h)

\* B differs from A only in l..h, and has no other numbers there.
ChangedInside(A, B, l, h, N) ==
    /\ \A k \in 0 .. N - 1 : k \notin l .. h => B[k + 1] = A[k + 1]
    /\ \A k \in l .. h : \E c \in l .. h : B[k + 1] = A[c + 1]

\* The record of a task q that starts to partition l..h.
PartOf(q, s, l, h, x) ==
    [q EXCEPT !.pos = "part", !.stack = s, !.h = h, !.l = l, !.x = x, !.i = l - 1, !.j = l]

\* What a loaded task q knows of its array A and its file F.
Progress(q, A, F) ==
    /\ A \in Seq(Int) /\ Len(A) = q.N /\ Len(F) = q.N
    /\ Ascending(q.stack, q.N)
    /\ q.pos = "part" =>
          /\ Behind(q.stack, q.l, q.h, q.N)
          /\ Parted(A, q.l, q.h, q.x, q.i, q.j)
          /\ WrongOnlyInside(A, q.stack, q.l, q.h, q.N)
    /\ q.pos # "part" => WrongOnlyInside(A, q.stack, 0, -1, q.N)
    /\ q.is_finished => q.pos = "wait"
    /\ q.pos = "wait" => q.stack = <<>>
    /\ Rearranged(A, F)

SortTypeOK ==
    /\ files \in Seq(Seq(Int)) /\ files # <<>>
    /\ iMain \in Nat
    /\ curT \in Tasks
    /\ task \in [Tasks -> TaskRecord]
    /\ heap \in Seq(Block)

\* The task has an array and a stack.
Loaded(t) == task[t].pos # "none"

\* Until the merge: files are loaded in their order, every loaded task has a live
\* array of its own, and main is in its loop only for tasks that have not started.
SortState ==
    /\ SortTypeOK
    /\ \A t \in Tasks : Loaded(t) => task[t].arr \in 1 .. Len(heap)
    /\ \A t, u \in Tasks : Loaded(t) /\ Loaded(u) /\ task[t].arr = task[u].arr => t = u
    /\ \A t \in Tasks : Loaded(t) => heap[task[t].arr].live
    /\ \A b \in 1 .. Len(heap) : heap[b].live => \E t \in Tasks : Loaded(t) /\ task[t].arr = b
    /\ \A t \in Tasks : Loaded(t) => Progress(task[t], Arr(t), files[t + 1])
    /\ \A t \in Tasks : ~Loaded(t) => ~task[t].is_finished
    /\ \A t \in Tasks : Loaded(t) <=> t < iMain
    /\ sortPc = "load" => task[curT].pos \in {"none", "entry"}
    /\ sortPc = "coro" => iMain >= Count
    /\ sortPc = "merge" => AllFinished

\* The inductive invariant; once a merge step was made it says nothing of the arrays.
SortInv ==
    /\ arrs \in Nat
    /\ sortPc \in {"load", "coro"} => arrs = 0
    /\ sortPc \in {"load", "coro", "merge"} /\ arrs = 0 => SortState

\* Arrays of numbers in D.
HeapOf(D) == Seq([data : D, live : BOOLEAN])

\* Block k is freed, and one with the numbers d allocated.
FreeAlloc(H, k, d) == Append([H EXCEPT ![k].live = FALSE], [data |-> d, live |-> TRUE])

\* The blocks that H is a sequence of.
BlocksOf(H) == [data : {H[b].data : b \in DOMAIN H}, live : BOOLEAN]

\* What is then in the memory G.
Reallocated(H, k, G) ==
    /\ G \in Seq(BlocksOf(G))
    /\ Len(G) = Len(H) + 1 /\ G[Len(H) + 1].live /\ ~G[k].live
    /\ \A m \in 1 .. Len(H) : m # k => G[m] = H[m]

\* The merge: nothing is known of the numbers, but of the memory.
MergeInv ==
    /\ Count \in Nat
    /\ DOMAIN task = Tasks /\ \A t \in Tasks : "arr" \in DOMAIN task[t]
    /\ heap \in Seq(BlocksOf(heap))
    /\ \A t \in Tasks : task[t].arr \in 1 .. Len(heap) /\ heap[task[t].arr].live
    /\ \A t, u \in Tasks : task[t].arr = task[u].arr => t = u
    /\ \A b \in 1 .. Len(heap) : heap[b].live => \E t \in Tasks : task[t].arr = b

\* The inductive invariant for the memory, with the merge and the end.
MemoryInv ==
    /\ SortInv
    /\ sortPc = "merge" => MergeInv
    /\ sortPc = "done" => \A b \in DOMAIN heap : ~heap[b].live

----------------------------------------------------------------------------
(* Stacks and arrays. *)

\* A stack of 2 * k entries has k segments, and their ends are numbers.
LEMMA DepthOf ==
    ASSUME NEW s \in Seq(Int), NEW k \in Nat, Len(s) = 2 * k
    PROVE  /\ Depth(s) = k
           /\ \A n \in 1 .. k : Lo(s, n) \in Int /\ Hi(s, n) \in Int
<1>1. Depth(s) = k
  BY DEF Depth
<1>2. \A n \in 1 .. k : 2 * n - 1 \in 1 .. Len(s) /\ 2 * n \in 1 .. Len(s)
  OBVIOUS
<1>3. QED
  BY <1>1, <1>2, ElementOfSeq DEF Lo, Hi

\* The same, where the number of segments is not named.
LEMMA DepthTyped ==
    ASSUME NEW s \in Seq(Int), Len(s) = 2 * Depth(s)
    PROVE  /\ Depth(s) \in Nat
           /\ \A n \in 1 .. Depth(s) : Lo(s, n) \in Int /\ Hi(s, n) \in Int
<1>1. Len(s) \in Nat
  OBVIOUS
<1>2. Depth(s) \in Nat
  BY <1>1 DEF Depth
<1>3. QED
  BY <1>2, DepthOf

\* Without its last two entries a stack has one segment less; the others
\* stay where they are.
LEMMA PopKeeps ==
    ASSUME NEW s \in Seq(Int), NEW k \in Nat, Len(s) = 2 * k, k > 0
    PROVE  LET r == SubSeq(s, 1, Len(s) - 2) IN
           /\ r \in Seq(Int) /\ Len(r) = 2 * (k - 1) /\ Depth(r) = k - 1
           /\ \A n \in 1 .. k - 1 : Lo(r, n) = Lo(s, n) /\ Hi(r, n) = Hi(s, n)
<1> DEFINE r == SubSeq(s, 1, Len(s) - 2)
<1>1. r \in Seq(Int) /\ Len(r) = 2 * k - 2
  <2>1. Len(s) - 2 \in 0 .. Len(s)
    OBVIOUS
  <2>2. QED
    BY <2>1
<1>2. \A m \in 1 .. 2 * k - 2 : r[m] = s[m]
  OBVIOUS
<1>3. \A n \in 1 .. k - 1 : 2 * n - 1 \in 1 .. 2 * k - 2 /\ 2 * n \in 1 .. 2 * k - 2
  OBVIOUS
<1>4. k - 1 \in Nat /\ Len(r) = 2 * (k - 1)
  BY <1>1
<1>5. Depth(r) = k - 1
  BY <1>1, <1>4, DepthOf
<1> HIDE DEF r
<1>6. QED
  BY <1>1, <1>2, <1>3, <1>4, <1>5 DEF Lo, Hi, r

\* A segment that is pushed becomes the last one.
LEMMA PushKeeps ==
    ASSUME NEW s \in Seq(Int), NEW k \in Nat, Len(s) = 2 * k, NEW l \in Int, NEW h \in Int
    PROVE  LET r == s \o <<l, h>> IN
           /\ r \in Seq(Int) /\ Len(r) = 2 * (k + 1) /\ Depth(r) = k + 1
           /\ \A n \in 1 .. k : Lo(r, n) = Lo(s, n) /\ Hi(r, n) = Hi(s, n)
           /\ Lo(r, k + 1) = l /\ Hi(r, k + 1) = h
<1> DEFINE r == s \o <<l, h>>
<1>1. <<l, h>> \in Seq(Int) /\ Len(<<l, h>>) = 2
  OBVIOUS
<1>2. r \in Seq(Int) /\ Len(r) = 2 * (k + 1)
  BY <1>1
<1>3. Depth(r) = k + 1
  <2>1. k + 1 \in Nat
    OBVIOUS
  <2> HIDE DEF r
  <2>2. QED
    BY <1>2, <2>1, DepthOf
<1>4. \A m \in 1 .. 2 * k : r[m] = s[m]
  BY <1>1
<1>5. r[2 * k + 1] = l /\ r[2 * k + 2] = h
  BY <1>1
<1>6. \A n \in 1 .. k : 2 * n - 1 \in 1 .. 2 * k /\ 2 * n \in 1 .. 2 * k
  OBVIOUS
<1>7. 2 * (k + 1) - 1 = 2 * k + 1 /\ 2 * (k + 1) = 2 * k + 2
  OBVIOUS
<1> HIDE DEF r
<1>8. Lo(r, k + 1) = l /\ Hi(r, k + 1) = h
  BY <1>5, <1>7 DEF Lo, Hi
<1>9. QED
  BY <1>2, <1>3, <1>4, <1>6, <1>8 DEF Lo, Hi, r

\* Two numbers change their places.
LEMMA SwapFacts ==
    ASSUME NEW A \in Seq(Int), NEW a \in 0 .. Len(A) - 1, NEW b \in 0 .. Len(A) - 1
    PROVE  /\ Swap(A, a, b) \in Seq(Int) /\ Len(Swap(A, a, b)) = Len(A)
           /\ Swap(A, a, b)[a + 1] = A[b + 1] /\ Swap(A, a, b)[b + 1] = A[a + 1]
           /\ \A k \in 0 .. Len(A) - 1 : k # a /\ k # b => Swap(A, a, b)[k + 1] = A[k + 1]
<1>1. a + 1 \in 1 .. Len(A) /\ b + 1 \in 1 .. Len(A)
  OBVIOUS
<1>2. A[a + 1] \in Int /\ A[b + 1] \in Int
  BY <1>1, ElementOfSeq
<1> DEFINE B == Swap(A, a, b)
<1>3. B \in Seq(Int) /\ Len(B) = Len(A)
  BY <1>1, <1>2 DEF Swap
<1>4. \A k \in 1 .. Len(A) : B[k] = IF k = b + 1 THEN A[a + 1] ELSE IF k = a + 1 THEN A[b + 1] ELSE A[k]
  BY <1>1, <1>2 DEF Swap
<1>5. B[a + 1] = A[b + 1] /\ B[b + 1] = A[a + 1]
  <2>1. B[b + 1] = A[a + 1]
    BY <1>1, <1>4
  <2>2. B[a + 1] = IF a + 1 = b + 1 THEN A[a + 1] ELSE A[b + 1]
    BY <1>1, <1>4
  <2>3. QED
    BY <2>1, <2>2
<1>6. ASSUME NEW k \in 0 .. Len(A) - 1, k # a, k # b PROVE B[k + 1] = A[k + 1]
  <2>1. k + 1 \in 1 .. Len(A) /\ k + 1 # a + 1 /\ k + 1 # b + 1
    BY <1>6
  <2>2. QED
    BY <2>1, <1>4
<1>7. QED
  BY <1>3, <1>5, <1>6

\* Numbers that change their places stay the numbers of the file.
LEMMA SwapRearranges ==
    ASSUME NEW A \in Seq(Int), NEW F \in Seq(Int), Len(F) = Len(A), Rearranged(A, F),
           NEW a \in 0 .. Len(A) - 1, NEW b \in 0 .. Len(A) - 1
    PROVE  Rearranged(Swap(A, a, b), F)
<1> DEFINE D == 1 .. Len(F)
<1>1. PICK p \in [D -> D] : /\ \A k, m \in D : p[k] = p[m] => k = m
                            /\ \A k \in D : A[k] = F[p[k]]
  BY DEF Rearranged
<1> DEFINE c == a + 1
           d == b + 1
           q == [p EXCEPT ![c] = p[d], ![d] = p[c]]
           B == Swap(A, a, b)
<1>2. c \in D /\ d \in D
  OBVIOUS
<1>3. \A k \in D : B[k] = IF k = d THEN A[c] ELSE IF k = c THEN A[d] ELSE A[k]
  BY <1>2 DEF Swap
<1> HIDE DEF D, c, d, B
<1>4. q \in [D -> D]
  BY <1>1, <1>2
<1>5. \A k \in D : q[k] = IF k = d THEN p[c] ELSE IF k = c THEN p[d] ELSE p[k]
  BY <1>1, <1>2
<1> HIDE DEF q
<1> DEFINE at(k) == IF k = d THEN c ELSE IF k = c THEN d ELSE k
<1>6. \A k, m \in D : q[k] = q[m] => k = m
  <2>1. ASSUME NEW k \in D, NEW m \in D, q[k] = q[m] PROVE k = m
    <3>1. at(k) \in D /\ at(m) \in D
      BY <1>2
    <3>2. q[k] = p[at(k)] /\ q[m] = p[at(m)]
      BY <1>5
    <3>3. at(k) = at(m)
      <4> HIDE DEF at
      <4>1. QED
        BY <1>1, <2>1, <3>1, <3>2
    <3>4. QED
      BY <3>3
  <2>2. QED
    BY <2>1
<1>7. \A k \in D : B[k] = F[q[k]]
  BY <1>1, <1>2, <1>3, <1>5
<1>8. QED
  BY <1>4, <1>6, <1>7 DEF Rearranged, B, D

\* A stack with ascending segments has room in an array of N.
LEMMA AscendingFits ==
    ASSUME NEW s \in Seq(Int), NEW N \in Nat, Ascending(s, N)
    PROVE  Len(s) <= N
<1>1. Len(s) = 2 * Depth(s) /\ Depth(s) \in Nat
  BY DepthTyped DEF Ascending
<1>2. CASE Depth(s) = 0
  BY <1>1, <1>2
<1>3. CASE Depth(s) # 0
  <2> DEFINE k == Depth(s)
  <2>1. k \in 1 .. k
    BY <1>1, <1>3
  <2>2. 2 * (k - 1) <= Lo(s, k) /\ Lo(s, k) < Hi(s, k) /\ Hi(s, k) < N
    BY <2>1 DEF Ascending
  <2>3. Lo(s, k) \in Int /\ Hi(s, k) \in Int
    BY <1>1, <2>1, DepthTyped
  <2>4. QED
    BY <1>1, <2>2, <2>3
<1>4. QED
  BY <1>2, <1>3

\* A segment behind those on the stack can be pushed.
LEMMA PushSegment ==
    ASSUME NEW s \in Seq(Int), NEW N \in Nat, NEW l \in Int, NEW h \in Int,
           Ascending(s, N), Behind(s, l, h, N)
    PROVE  Grown(s, s \o <<l, h>>, l, h, N)
<1>1. PICK k \in Nat : k = Depth(s) /\ Len(s) = 2 * k
  BY DepthTyped DEF Ascending
<1>2. PICK r : r = s \o <<l, h>>
  OBVIOUS
<1>3. /\ r \in Seq(Int) /\ Len(r) = 2 * (k + 1) /\ Depth(r) = k + 1
      /\ \A n \in 1 .. k : Lo(r, n) = Lo(s, n) /\ Hi(r, n) = Hi(s, n)
      /\ Lo(r, k + 1) = l /\ Hi(r, k + 1) = h
  BY <1>1, <1>2, PushKeeps
<1>4. \A n \in 1 .. k : Lo(s, n) \in Int /\ Hi(s, n) \in Int
  BY <1>1, DepthTyped
<1>5. /\ 2 * k <= l /\ l < h /\ h < N
      /\ \A n \in 1 .. k : Hi(s, n) < l
  BY <1>1 DEF Behind
<1>6. \A n \in 1 .. k : 2 * (n - 1) <= Lo(s, n) /\ Lo(s, n) < Hi(s, n) /\ Hi(s, n) < N
  BY <1>1 DEF Ascending
<1>7. \A m, n \in 1 .. k : m < n => Hi(s, m) < Lo(s, n)
  BY <1>1 DEF Ascending
<1>8. \A n \in 1 .. k + 1 : n \in 1 .. k \/ n = k + 1
  OBVIOUS
<1>9. ASSUME NEW n \in 1 .. k + 1
      PROVE  /\ 2 * (n - 1) <= Lo(r, n) /\ Lo(r, n) < Hi(r, n) /\ Hi(r, n) < N
             /\ Hi(r, n) <= h
  <2>1. CASE n \in 1 .. k
    BY <1>3, <1>4, <1>5, <1>6, <2>1
  <2>2. CASE n = k + 1
    BY <1>3, <1>5, <2>2
  <2>3. QED
    BY <1>8, <2>1, <2>2
<1>10. ASSUME NEW m \in 1 .. k + 1, NEW n \in 1 .. k + 1, m < n
       PROVE  Hi(r, m) < Lo(r, n)
  <2>1. m \in 1 .. k
    BY <1>10
  <2>2. CASE n \in 1 .. k
    BY <1>3, <1>7, <1>10, <2>1, <2>2
  <2>3. CASE n = k + 1
    BY <1>3, <1>5, <2>1, <2>3
  <2>4. QED
    BY <1>8, <2>2, <2>3
<1>11. Ascending(r, N)
  BY <1>3, <1>9, <1>10 DEF Ascending
<1>12. ASSUME NEW a \in Int, NEW b \in Int, OnStack(s, a, b) \/ (l <= a /\ b <= h)
       PROVE  OnStack(r, a, b)
  <2>1. CASE OnStack(s, a, b)
    <3>1. PICK n \in 1 .. k : Lo(s, n) <= a /\ b <= Hi(s, n)
      BY <1>1, <2>1 DEF OnStack
    <3>2. n \in 1 .. k + 1 /\ Lo(r, n) <= a /\ b <= Hi(r, n)
      BY <1>3, <3>1
    <3>3. QED
      BY <1>3, <3>2 DEF OnStack
  <2>2. CASE l <= a /\ b <= h
    <3>1. k + 1 \in 1 .. k + 1
      OBVIOUS
    <3>2. QED
      BY <1>3, <2>2, <3>1 DEF OnStack
  <2>3. QED
    BY <1>12, <2>1, <2>2
<1>13. QED
  BY <1>1, <1>2, <1>3, <1>9, <1>11, <1>12 DEF Grown

\* When numbers of a segment only change places among themselves, what is
\* in the wrong order is still in a segment.
LEMMA InsideKeeps ==
    ASSUME NEW s \in Seq(Int), NEW N \in Nat, NEW l \in Int, NEW h \in Int,
           Ascending(s, N), Behind(s, l, h, N),
           NEW A \in Seq(Int), NEW B \in Seq(Int), Len(A) = N, Len(B) = N,
           WrongOnlyInside(A, s, l, h, N), ChangedInside(A, B, l, h, N)
    PROVE  WrongOnlyInside(B, s, l, h, N)
<1>1. SUFFICES ASSUME NEW a \in 0 .. N - 1, NEW b \in 0 .. N - 1, a < b, B[a + 1] > B[b + 1]
               PROVE  OnStack(s, a, b) \/ (l <= a /\ b <= h)
  BY DEF WrongOnlyInside
<1>2. Depth(s) \in Nat /\ \A n \in 1 .. Depth(s) : Hi(s, n) \in Int /\ Hi(s, n) < l
  BY DepthTyped DEF Ascending, Behind
<1>3. \A c, d \in Int : OnStack(s, c, d) => d < l
  <2>1. ASSUME NEW c \in Int, NEW d \in Int, OnStack(s, c, d) PROVE d < l
    <3>1. PICK n \in 1 .. Depth(s) : d <= Hi(s, n)
      BY <2>1 DEF OnStack
    <3>2. QED
      BY <1>2, <3>1
  <2>2. QED
    BY <2>1
<1>4. 0 <= l /\ l < h /\ h < N
  BY <1>2 DEF Behind
<1>5. CASE a \in l .. h /\ b \in l .. h
  BY <1>5
<1>6. CASE a \in l .. h /\ b \notin l .. h
  <2>1. PICK c \in l .. h : B[a + 1] = A[c + 1]
    BY <1>6 DEF ChangedInside
  <2>2. c \in 0 .. N - 1 /\ c < b /\ h < b
    BY <1>1, <1>4, <1>6
  <2>3. A[c + 1] > A[b + 1]
    BY <1>1, <1>6, <2>1 DEF ChangedInside
  <2>4. OnStack(s, c, b) \/ (l <= c /\ b <= h)
    BY <2>2, <2>3 DEF WrongOnlyInside
  <2>5. QED
    BY <1>3, <1>4, <2>2, <2>4
<1>7. CASE a \notin l .. h /\ b \in l .. h
  <2>1. PICK c \in l .. h : B[b + 1] = A[c + 1]
    BY <1>7 DEF ChangedInside
  <2>2. c \in 0 .. N - 1 /\ a < c /\ a < l
    BY <1>1, <1>4, <1>7
  <2>3. A[a + 1] > A[c + 1]
    BY <1>1, <1>7, <2>1 DEF ChangedInside
  <2>4. OnStack(s, a, c) \/ (l <= a /\ c <= h)
    BY <2>2, <2>3 DEF WrongOnlyInside
  <2>5. a \in Int /\ c \in Int /\ l <= c /\ ~(c < l) /\ ~(l <= a)
    BY <2>2
  <2>6. QED
    BY <1>3, <2>4, <2>5
<1>8. CASE a \notin l .. h /\ b \notin l .. h
  <2>1. A[a + 1] > A[b + 1]
    BY <1>1, <1>8 DEF ChangedInside
  <2>2. QED
    BY <1>1, <2>1 DEF WrongOnlyInside
<1>9. QED
  BY <1>5, <1>6, <1>7, <1>8

\* The pivot is put between the two sides of its segment, which take the
\* place of the segment on the stack if they have two elements or more.
LEMMA PivotSplits ==
    ASSUME NEW s \in Seq(Int), NEW N \in Nat, NEW l \in Int, NEW h \in Int, NEW p \in Int,
           Ascending(s, N), Behind(s, l, h, N), l <= p, p <= h,
           NEW x \in Int, NEW B \in Seq(Int), Len(B) = N, WrongOnlyInside(B, s, l, h, N),
           \A k \in l .. p : B[k + 1] <= x,
           \A k \in p .. h : x <= B[k + 1]
    PROVE  LET r == s \o Pushed(l, p, h)
           IN  r \in Seq(Int) /\ Ascending(r, N) /\ WrongOnlyInside(B, r, 0, -1, N)
<1>0. PICK g \in Int : g = p - 1
  OBVIOUS
<1> DEFINE left == s \o <<l, g>>
           s1 == IF p - 1 > l THEN left ELSE s
           r == IF p + 1 < h THEN s1 \o <<p + 1, h>> ELSE s1
<1>1. Depth(s) \in Nat /\ \A n \in 1 .. Depth(s) : Hi(s, n) \in Int /\ Hi(s, n) < l
  BY DepthTyped DEF Ascending, Behind
<1>2. 2 * Depth(s) <= l /\ l < h /\ h < N
  BY DEF Behind
<1>3. /\ s1 \in Seq(Int) /\ Ascending(s1, N)
      /\ \A a, b \in Int : OnStack(s, a, b) => OnStack(s1, a, b)
      /\ \A a, b \in Int : l <= a /\ a < b /\ b <= p - 1 => OnStack(s1, a, b)
      /\ p + 1 < h => Behind(s1, p + 1, h, N)
  <2>1. CASE p - 1 > l
    <3>1. s1 = left
      BY <2>1
    <3>2. Behind(s, l, g, N)
      BY <1>0, <1>1, <1>2, <2>1 DEF Behind
    <3>4. /\ left \in Seq(Int) /\ Ascending(left, N)
          /\ Depth(left) = Depth(s) + 1
          /\ \A a, b \in Int : OnStack(s, a, b) \/ (l <= a /\ b <= g) => OnStack(left, a, b)
          /\ \A n \in 1 .. Depth(s) + 1 : Hi(left, n) <= g
      <4>1. Grown(s, s \o <<l, g>>, l, g, N)
        BY <3>2, PushSegment, Zenon
      <4>2. QED
        BY <4>1, Zenon DEF Grown
    <3> HIDE DEF left
    <3>5. \A n \in 1 .. Depth(left) : Hi(left, n) \in Int
      BY <3>4, DepthTyped DEF Ascending
    <3>6. p + 1 < h => Behind(left, p + 1, h, N)
      <4>1. 2 * Depth(left) <= p + 1
        BY <1>1, <1>2, <2>1, <3>4
      <4>2. \A n \in 1 .. Depth(left) : Hi(left, n) < p + 1
        BY <1>0, <3>4, <3>5
      <4>3. QED
        BY <1>2, <4>1, <4>2 DEF Behind
    <3>7. QED
      BY <1>0, <3>1, <3>4, <3>6
  <2>2. CASE ~(p - 1 > l)
    <3>1. s1 = s
      BY <2>2
    <3>2. p + 1 < h => Behind(s, p + 1, h, N)
      BY <1>1, <1>2 DEF Behind
    <3>3. \A a, b \in Int : ~(l <= a /\ a < b /\ b <= p - 1)
      BY <2>2
    <3>4. QED
      BY <3>1, <3>2, <3>3
  <2>3. QED
    BY <2>1, <2>2
<1>4. s \o Pushed(l, p, h) = r
  <2>1. <<l, p - 1>> \in Seq(Int) /\ <<p + 1, h>> \in Seq(Int) /\ <<>> \in Seq(Int)
    OBVIOUS
  <2>2. (s \o <<l, p - 1>>) \o <<p + 1, h>> = s \o (<<l, p - 1>> \o <<p + 1, h>>)
    BY <2>1, ConcatAssociative
  <2>3. /\ \A q \in Seq(Int) : q \o <<>> = q /\ <<>> \o q = q
    BY ConcatEmptySeq
  <2>4. CASE p - 1 > l /\ p + 1 < h
    BY <1>0, <2>2, <2>4 DEF Pushed
  <2>5. CASE p - 1 > l /\ ~(p + 1 < h)
    BY <1>0, <2>1, <2>3, <2>5 DEF Pushed
  <2>6. CASE ~(p - 1 > l) /\ p + 1 < h
    BY <2>1, <2>3, <2>6 DEF Pushed
  <2>7. CASE ~(p - 1 > l) /\ ~(p + 1 < h)
    BY <2>1, <2>3, <2>7 DEF Pushed
  <2>8. QED
    BY <2>4, <2>5, <2>6, <2>7
<1> HIDE DEF s1
<1>5. /\ r \in Seq(Int) /\ Ascending(r, N)
      /\ \A a, b \in Int : OnStack(s1, a, b) => OnStack(r, a, b)
      /\ \A a, b \in Int : p + 1 <= a /\ a < b /\ b <= h => OnStack(r, a, b)
  <2>1. CASE p + 1 < h
    <3>1. p + 1 \in Int
      OBVIOUS
    <3>2. Grown(s1, s1 \o <<p + 1, h>>, p + 1, h, N)
      BY <1>3, <2>1, <3>1, PushSegment, Zenon
    <3>3. QED
      BY <2>1, <3>2 DEF Grown
  <2>2. CASE ~(p + 1 < h)
    BY <1>3, <2>2
  <2>3. QED
    BY <2>1, <2>2
<1> HIDE DEF r
<1>6. ASSUME NEW a \in 0 .. N - 1, NEW b \in 0 .. N - 1, a < b, B[a + 1] > B[b + 1]
      PROVE  OnStack(r, a, b)
  <2>1. a \in Int /\ b \in Int
    OBVIOUS
  <2>2. OnStack(s, a, b) \/ (l <= a /\ b <= h)
    BY <1>6 DEF WrongOnlyInside
  <2>3. CASE OnStack(s, a, b)
    BY <1>3, <1>5, <2>1, <2>3
  <2>4. CASE l <= a /\ b <= h
    <3>1. B[a + 1] \in Int /\ B[b + 1] \in Int
      <4>1. a + 1 \in 1 .. Len(B) /\ b + 1 \in 1 .. Len(B)
        OBVIOUS
      <4>2. QED
        BY <4>1, ElementOfSeq
    <3>2. ~(a <= p /\ p <= b)
      <4>1. SUFFICES ASSUME a <= p, p <= b PROVE FALSE
        OBVIOUS
      <4>2. B[a + 1] <= x /\ x <= B[b + 1]
        BY <2>4, <4>1
      <4>3. QED
        BY <1>6, <3>1, <4>2
    <3>3. (l <= a /\ a < b /\ b <= p - 1) \/ (p + 1 <= a /\ a < b /\ b <= h)
      BY <1>6, <2>4, <3>2
    <3>4. QED
      BY <1>3, <1>5, <2>1, <3>3
  <2>5. QED
    BY <2>2, <2>3, <2>4
<1>7. QED
  BY <1>4, <1>5, <1>6 DEF WrongOnlyInside

\* A swap of two places of l..h changes the array only there.
LEMMA SwapInside ==
    ASSUME NEW A \in Seq(Int), NEW l \in Nat, NEW h \in Nat, l < h, h < Len(A),
           NEW a \in l .. h, NEW b \in l .. h
    PROVE  ChangedInside(A, Swap(A, a, b), l, h, Len(A))
<1>1. a \in 0 .. Len(A) - 1 /\ b \in 0 .. Len(A) - 1
  OBVIOUS
<1> DEFINE B == Swap(A, a, b)
<1>2. /\ B[a + 1] = A[b + 1] /\ B[b + 1] = A[a + 1]
      /\ \A k \in 0 .. Len(A) - 1 : k # a /\ k # b => B[k + 1] = A[k + 1]
  BY <1>1, SwapFacts
<1> HIDE DEF B
<1>3. \A k \in 0 .. Len(A) - 1 : k \notin l .. h => B[k + 1] = A[k + 1]
  BY <1>2
<1>4. ASSUME NEW k \in l .. h PROVE \E c \in l .. h : B[k + 1] = A[c + 1]
  <2>1. CASE k = a
    BY <1>2, <2>1
  <2>2. CASE k = b
    BY <1>2, <2>2
  <2>3. CASE k # a /\ k # b
    <3>1. k \in 0 .. Len(A) - 1
      OBVIOUS
    <3>2. B[k + 1] = A[k + 1]
      BY <1>2, <2>3, <3>1
    <3>3. QED
      BY <3>2
  <2>4. QED
    BY <2>1, <2>2, <2>3
<1>5. QED
  BY <1>3, <1>4 DEF ChangedInside, B

----------------------------------------------------------------------------
(* What the steps of a task make of its progress. *)

\* Nothing is changed but the stack is as long as the whole array (main)
\* or the position (the call of q_sort_coro, is_finished).
LEMMA LoadProgress ==
    ASSUME NEW F \in Seq(Int), Len(F) >= 2, NEW q \in TaskRecord,
           q.pos = "entry", q.stack = <<0, Len(F) - 1>>, q.N = Len(F), ~q.is_finished
    PROVE  Progress(q, F, F)
<1>1. PICK N \in Nat : N = Len(F)
  OBVIOUS
<1>2. PICK s \in Seq(Int) : s = <<0, N - 1>> /\ q.stack = s
  <2>1. <<0, N - 1>> \in Seq(Int)
    BY <1>1
  <2>2. QED
    BY <1>1, <2>1
<1>3. Len(s) = 2 * 1 /\ s[1] = 0 /\ s[2] = N - 1
  BY <1>2
<1>4. Depth(s) = 1
  BY <1>3, DepthOf
<1>5. Lo(s, 1) = 0 /\ Hi(s, 1) = N - 1 /\ \A n \in 1 .. 1 : n = 1
  BY <1>3 DEF Lo, Hi
<1>6. Ascending(s, N)
  BY <1>1, <1>3, <1>4, <1>5 DEF Ascending
<1>7. WrongOnlyInside(F, s, 0, -1, N)
  BY <1>4, <1>5 DEF WrongOnlyInside, OnStack
<1>8. Rearranged(F, F)
  <2> DEFINE p == [k \in 1 .. Len(F) |-> k]
  <2>1. p \in [1 .. Len(F) -> 1 .. Len(F)]
    OBVIOUS
  <2>2. /\ \A k, m \in 1 .. Len(F) : p[k] = p[m] => k = m
        /\ \A k \in 1 .. Len(F) : F[k] = F[p[k]]
    OBVIOUS
  <2> HIDE DEF p
  <2>3. QED
    BY <2>1, <2>2 DEF Rearranged
<1>9. QED
  BY <1>1, <1>2, <1>6, <1>7, <1>8 DEF Progress

\* A task that is not partitioning goes to another place of the program.
LEMMA SamePartsProgress ==
    ASSUME NEW q, NEW r, NEW A, NEW F, Progress(q, A, F), q.pos # "part", r.pos # "part",
           r.stack = q.stack, r.N = q.N,
           r.is_finished => r.pos = "wait", r.pos = "wait" => r.stack = <<>>
    PROVE  Progress(r, A, F)
BY DEF Progress

\* The last segment is taken from the stack to be partitioned.
LEMMA PopProgress ==
    ASSUME NEW q \in TaskRecord, NEW r \in TaskRecord, NEW A, NEW F, Progress(q, A, F),
           q.pos = "loop", q.stack # <<>>, r.pos = "part", r.is_finished = q.is_finished,
           r.stack = SubSeq(q.stack, 1, Len(q.stack) - 2), r.N = q.N,
           r.h = q.stack[Len(q.stack)], r.l = q.stack[Len(q.stack) - 1],
           r.x = A[r.h + 1], r.i = r.l - 1, r.j = r.l
    PROVE  Progress(r, A, F)
<1>1. PICK s \in Seq(Int) : s = q.stack
  BY DEF TaskRecord
<1>2. PICK N \in Nat : N = q.N
  BY DEF TaskRecord
<1>3. Ascending(s, N) /\ WrongOnlyInside(A, s, 0, -1, N)
  BY <1>1, <1>2 DEF Progress
<1>4. PICK k \in Nat : k = Depth(s) /\ Len(s) = 2 * k
  BY <1>3, DepthTyped DEF Ascending
<1>5. k > 0
  BY <1>1, <1>4
<1>6. PICK u : u = SubSeq(s, 1, Len(s) - 2)
  OBVIOUS
<1>7. /\ u \in Seq(Int) /\ Len(u) = 2 * (k - 1) /\ Depth(u) = k - 1
      /\ \A n \in 1 .. k - 1 : Lo(u, n) = Lo(s, n) /\ Hi(u, n) = Hi(s, n)
  BY <1>4, <1>5, <1>6, PopKeeps
<1>8. PICK l, h \in Int : l = Lo(s, k) /\ h = Hi(s, k)
  <2>1. k \in 1 .. k
    BY <1>5
  <2>2. Lo(s, k) \in Int /\ Hi(s, k) \in Int
    BY <1>4, <2>1, DepthTyped
  <2>3. QED
    BY <2>2
<1>9. r.stack = u /\ r.l = l /\ r.h = h
  BY <1>1, <1>4, <1>6, <1>8 DEF Lo, Hi
<1>10. \A n \in 1 .. k : 2 * (n - 1) <= Lo(s, n) /\ Lo(s, n) < Hi(s, n) /\ Hi(s, n) < N
  BY <1>3, <1>4 DEF Ascending
<1>11. \A m, n \in 1 .. k : m < n => Hi(s, m) < Lo(s, n)
  BY <1>3, <1>4 DEF Ascending
<1>12. Ascending(u, N)
  <2>1. \A n \in 1 .. k - 1 : n \in 1 .. k
    OBVIOUS
  <2>2. \A n \in 1 .. k - 1 : 2 * (n - 1) <= Lo(u, n) /\ Lo(u, n) < Hi(u, n) /\ Hi(u, n) < N
    BY <1>7, <1>10, <2>1
  <2>3. \A m, n \in 1 .. k - 1 : m < n => Hi(u, m) < Lo(u, n)
    BY <1>7, <1>11, <2>1
  <2>4. QED
    BY <1>7, <2>2, <2>3 DEF Ascending
<1>13. Behind(u, l, h, N)
  <2>1. 2 * (k - 1) <= l /\ l < h /\ h < N
    BY <1>5, <1>8, <1>10
  <2>2. \A n \in 1 .. k - 1 : Hi(u, n) < l
    BY <1>5, <1>7, <1>8, <1>11
  <2>3. QED
    BY <1>7, <2>1, <2>2 DEF Behind
<1>14. Parted(A, l, h, r.x, r.i, r.j)
  BY <1>8, <1>9, <1>13 DEF Parted, Behind
<1>15. WrongOnlyInside(A, u, l, h, N)
  <2>1. SUFFICES ASSUME NEW a \in 0 .. N - 1, NEW b \in 0 .. N - 1, a < b, A[a + 1] > A[b + 1]
                 PROVE  OnStack(u, a, b) \/ (l <= a /\ b <= h)
    BY DEF WrongOnlyInside
  <2>2. OnStack(s, a, b)
    BY <1>3, <2>1 DEF WrongOnlyInside
  <2>3. PICK n \in 1 .. k : Lo(s, n) <= a /\ b <= Hi(s, n)
    BY <1>4, <2>2 DEF OnStack
  <2>4. CASE n = k
    BY <1>8, <2>3, <2>4
  <2>5. CASE n # k
    <3>1. n \in 1 .. k - 1
      BY <2>5
    <3>2. QED
      BY <1>7, <2>3, <3>1 DEF OnStack
  <2>6. QED
    BY <2>4, <2>5
<1>16. QED
  BY <1>2, <1>9, <1>12, <1>13, <1>14, <1>15 DEF Progress

\* One round of the partition loop, with and without the swap.
LEMMA RoundProgress ==
    ASSUME NEW q \in TaskRecord, NEW r \in TaskRecord, NEW A, NEW B, NEW F \in Seq(Int),
           Progress(q, A, F), q.pos = "part", q.j <= q.h - 1,
           r.pos = "part", r.is_finished = q.is_finished, r.stack = q.stack, r.N = q.N,
           r.l = q.l, r.h = q.h, r.x = q.x, r.j = q.j + 1,
           \/ A[q.j + 1] <= q.x /\ r.i = q.i + 1 /\ B = Swap(A, q.i + 1, q.j)
           \/ ~(A[q.j + 1] <= q.x) /\ r.i = q.i /\ B = A
    PROVE  Progress(r, B, F)
<1>1. PICK s \in Seq(Int), N \in Nat, l, h, x, i, j \in Int :
        /\ s = q.stack /\ N = q.N /\ l = q.l /\ h = q.h /\ x = q.x /\ i = q.i /\ j = q.j
  BY DEF TaskRecord
<1>2. /\ A \in Seq(Int) /\ Len(A) = N /\ Len(F) = N
      /\ Ascending(s, N) /\ Behind(s, l, h, N) /\ WrongOnlyInside(A, s, l, h, N)
      /\ Parted(A, l, h, x, i, j) /\ Rearranged(A, F) /\ ~q.is_finished
  BY <1>1 DEF Progress
<1>3. 0 <= l /\ l < h /\ h < N
  BY <1>2, DepthTyped DEF Behind, Ascending
<1>4. /\ l - 1 <= i /\ i < j /\ j <= h - 1 /\ x = A[h + 1]
      /\ \A k \in l .. i : A[k + 1] <= x
      /\ \A k \in i + 1 .. j - 1 : x < A[k + 1]
  BY <1>1, <1>2 DEF Parted
<1>5. \A k \in 0 .. N - 1 : A[k + 1] \in Int
  <2>1. \A k \in 0 .. N - 1 : k + 1 \in 1 .. Len(A)
    BY <1>2
  <2>2. QED
    BY <1>2, <2>1, ElementOfSeq
<1>6. CASE ~(A[j + 1] <= x) /\ r.i = i /\ B = A
  <2>1. x < A[j + 1]
    BY <1>3, <1>4, <1>5, <1>6
  <2>2. \A k \in i + 1 .. j : k = j \/ k \in i + 1 .. j - 1
    OBVIOUS
  <2>3. \A k \in i + 1 .. (j + 1) - 1 : x < A[k + 1]
    BY <1>4, <2>1, <2>2
  <2>4. Parted(A, l, h, x, i, j + 1)
    BY <1>4, <2>3 DEF Parted
  <2>5. QED
    BY <1>1, <1>2, <1>6, <2>4 DEF Progress
<1>7. CASE A[j + 1] <= x /\ r.i = i + 1 /\ B = Swap(A, i + 1, j)
  <2>1. PICK c \in l .. h : c = i + 1
    BY <1>3, <1>4
  <2>2. j \in l .. h
    BY <1>3, <1>4
  <2>3. c \in 0 .. Len(A) - 1 /\ j \in 0 .. Len(A) - 1 /\ B = Swap(A, c, j)
    BY <1>2, <1>3, <1>7, <2>1, <2>2
  <2>4. /\ B \in Seq(Int) /\ Len(B) = N
        /\ B[c + 1] = A[j + 1] /\ B[j + 1] = A[c + 1]
        /\ \A k \in 0 .. N - 1 : k # c /\ k # j => B[k + 1] = A[k + 1]
    <3>1. /\ Swap(A, c, j) \in Seq(Int) /\ Len(Swap(A, c, j)) = Len(A)
          /\ Swap(A, c, j)[c + 1] = A[j + 1] /\ Swap(A, c, j)[j + 1] = A[c + 1]
          /\ \A k \in 0 .. Len(A) - 1 : k # c /\ k # j => Swap(A, c, j)[k + 1] = A[k + 1]
      BY <1>2, <2>3, SwapFacts, ZenonT(40)
    <3>2. QED
      BY <1>2, <2>3, <3>1
  <2>5. ChangedInside(A, B, l, h, N)
    <3>1. l \in Nat /\ h \in Nat /\ h < Len(A)
      BY <1>2, <1>3
    <3>2. QED
      BY <1>2, <1>3, <2>1, <2>2, <2>3, <3>1, SwapInside
  <2>6. WrongOnlyInside(B, s, l, h, N)
    BY <1>2, <2>4, <2>5, InsideKeeps
  <2>7. Rearranged(B, F)
    BY <1>2, <2>3, SwapRearranges
  <2>8. x = B[h + 1]
    BY <1>3, <1>4, <2>1, <2>4
  <2>9. ASSUME NEW k \in l .. c PROVE B[k + 1] <= x
    <3>1. CASE k = c
      BY <1>7, <2>4, <3>1
    <3>2. CASE k # c
      <4>1. k \in l .. i /\ k # j /\ k \in 0 .. N - 1
        BY <1>3, <1>4, <2>1, <3>2
      <4>2. QED
        BY <1>4, <2>4, <3>2, <4>1
    <3>3. QED
      BY <3>1, <3>2
  <2>10. ASSUME NEW k \in c + 1 .. (j + 1) - 1 PROVE x < B[k + 1]
    <3>1. CASE k = j
      <4>1. c \in i + 1 .. j - 1
        BY <2>1, <2>10, <3>1
      <4>2. QED
        BY <1>4, <2>4, <3>1, <4>1
    <3>2. CASE k # j
      <4>1. k \in i + 1 .. j - 1 /\ k # c /\ k \in 0 .. N - 1
        BY <1>3, <1>4, <2>1, <3>2
      <4>2. QED
        BY <1>4, <2>4, <3>2, <4>1
    <3>3. QED
      BY <3>1, <3>2
  <2>11. Parted(B, l, h, x, c, j + 1)
    <3>1. l - 1 <= c /\ c < j + 1 /\ j + 1 <= h
      BY <1>4, <2>1
    <3>2. QED
      BY <2>8, <2>9, <2>10, <3>1 DEF Parted
  <2>12. QED
    BY <1>1, <1>2, <1>7, <2>1, <2>4, <2>6, <2>7, <2>11 DEF Progress
<1>8. QED
  BY <1>1, <1>6, <1>7

\* The pivot is put into its place, and there is room for what is pushed.
LEMMA PivotProgress ==
    ASSUME NEW q \in TaskRecord, NEW A, NEW F \in Seq(Int), Progress(q, A, F),
           q.pos = "part", q.j > q.h - 1
    PROVE  LET p == q.i + 1
               stack == q.stack \o Pushed(q.l, p, q.h)
           IN  /\ stack \in Seq(Int) /\ Len(stack) <= q.N
               /\ p \in 0 .. Len(A) - 1 /\ q.h \in 0 .. Len(A) - 1
               /\ \A r : /\ r.pos = "loop" /\ r.is_finished = q.is_finished
                         /\ r.stack = stack /\ r.N = q.N
                         => Progress(r, Swap(A, p, q.h), F)
<1>1. PICK s \in Seq(Int), N \in Nat, l, h, x, i, j \in Int :
        /\ s = q.stack /\ N = q.N /\ l = q.l /\ h = q.h /\ x = q.x /\ i = q.i /\ j = q.j
  BY DEF TaskRecord
<1>2. /\ A \in Seq(Int) /\ Len(A) = N /\ Len(F) = N
      /\ Ascending(s, N) /\ Behind(s, l, h, N) /\ WrongOnlyInside(A, s, l, h, N)
      /\ Parted(A, l, h, x, i, j) /\ Rearranged(A, F) /\ ~q.is_finished
  BY <1>1 DEF Progress
<1>3. 0 <= l /\ l < h /\ h < N
  BY <1>2, DepthTyped DEF Behind, Ascending
<1>4. /\ l - 1 <= i /\ i < h /\ x = A[h + 1]
      /\ \A k \in l .. i : A[k + 1] <= x
      /\ \A k \in i + 1 .. h - 1 : x < A[k + 1]
  <2>1. j = h
    BY <1>1, <1>2, SMTT(30) DEF Parted
  <2>2. QED
    BY <1>2, <2>1 DEF Parted
<1>5. PICK p \in l .. h : p = i + 1
  BY <1>3, <1>4
<1>6. p \in 0 .. Len(A) - 1 /\ h \in 0 .. Len(A) - 1
  BY <1>2, <1>3
<1>7. PICK B : B = Swap(A, p, h)
  OBVIOUS
<1>8. /\ B \in Seq(Int) /\ Len(B) = N
      /\ B[p + 1] = A[h + 1] /\ B[h + 1] = A[p + 1]
      /\ \A k \in 0 .. N - 1 : k # p /\ k # h => B[k + 1] = A[k + 1]
  <2>1. /\ Swap(A, p, h) \in Seq(Int) /\ Len(Swap(A, p, h)) = Len(A)
        /\ Swap(A, p, h)[p + 1] = A[h + 1] /\ Swap(A, p, h)[h + 1] = A[p + 1]
        /\ \A k \in 0 .. Len(A) - 1 : k # p /\ k # h => Swap(A, p, h)[k + 1] = A[k + 1]
    BY <1>2, <1>6, SwapFacts, ZenonT(40)
  <2>2. QED
    BY <1>2, <1>7, <2>1
<1>9. ChangedInside(A, B, l, h, N)
  <2>1. l \in Nat /\ h \in Nat /\ h < Len(A) /\ h \in l .. h
    BY <1>2, <1>3
  <2>2. QED
    BY <1>2, <1>3, <1>7, <2>1, SwapInside
<1>10. WrongOnlyInside(B, s, l, h, N)
  BY <1>2, <1>8, <1>9, InsideKeeps
<1>11. Rearranged(B, F)
  BY <1>2, <1>6, <1>7, SwapRearranges
<1>12. ASSUME NEW k \in l .. p PROVE B[k + 1] <= x
  <2>1. CASE k = p
    <3>1. h \in 0 .. N - 1 /\ h + 1 \in 1 .. Len(A)
      BY <1>2, <1>3
    <3>2. A[h + 1] \in Int
      BY <1>2, <3>1, ElementOfSeq
    <3>3. QED
      BY <1>4, <1>8, <2>1, <3>2
  <2>2. CASE k # p
    <3>1. k \in l .. i /\ k # h /\ k \in 0 .. N - 1
      BY <1>3, <1>4, <1>5, <2>2
    <3>2. QED
      BY <1>4, <1>8, <2>2, <3>1
  <2>3. QED
    BY <2>1, <2>2
<1>13. ASSUME NEW k \in p .. h PROVE x <= B[k + 1]
  <2>1. CASE k = p
    BY <1>4, <1>8, <2>1
  <2>2. CASE k # p /\ k = h
    <3>1. p \in i + 1 .. h - 1 /\ p + 1 \in 1 .. Len(A)
      BY <1>5, <1>6, <2>2
    <3>2. x < A[p + 1] /\ A[p + 1] \in Int
      BY <1>2, <1>4, <3>1, ElementOfSeq
    <3>3. QED
      BY <1>8, <2>2, <3>2
  <2>3. CASE k # p /\ k # h
    <3>1. k \in i + 1 .. h - 1 /\ k \in 0 .. N - 1 /\ k + 1 \in 1 .. Len(A)
      BY <1>2, <1>3, <1>5, <2>3
    <3>2. x < A[k + 1] /\ A[k + 1] \in Int
      BY <1>2, <1>4, <3>1, ElementOfSeq
    <3>3. QED
      BY <1>8, <2>3, <3>1, <3>2
  <2>4. QED
    BY <2>1, <2>2, <2>3
<1>14. PICK stack : stack = s \o Pushed(l, p, h)
  OBVIOUS
<1>15. stack \in Seq(Int) /\ Ascending(stack, N) /\ WrongOnlyInside(B, stack, 0, -1, N)
  <2>1. p \in Int /\ l <= p /\ p <= h
    OBVIOUS
  <2>2. QED
    BY <1>2, <1>8, <1>10, <1>12, <1>13, <1>14, <2>1, PivotSplits, ZenonT(40)
<1>16. Len(stack) <= N
  BY <1>15, AscendingFits
<1>17. ASSUME NEW r, r.pos = "loop", r.is_finished = q.is_finished, r.stack = stack, r.N = N
       PROVE  Progress(r, B, F)
  BY <1>2, <1>8, <1>11, <1>15, <1>17 DEF Progress
<1>18. QED
  BY <1>1, <1>5, <1>6, <1>7, <1>14, <1>15, <1>16, <1>17

----------------------------------------------------------------------------
(* The steps of the program. *)

\* A step of the running task may change its record and its array; those
\* of the other tasks are where they were.
LEMMA TaskStep ==
    ASSUME SortState, NEW c \in Tasks, NEW r \in TaskRecord,
           Loaded(c), r.arr = task[c].arr, r.pos # "none", task' = [task EXCEPT ![c] = r],
           heap' \in Seq(Block), Len(heap') = Len(heap),
           \A m \in 1 .. Len(heap) : m # r.arr => heap'[m] = heap[m],
           heap'[r.arr].live = heap[r.arr].live,
           Progress(r, heap'[r.arr].data, files[c + 1]),
           UNCHANGED files, iMain >= Count, iMain' \in Nat, iMain' >= iMain,
           curT' \in Tasks, sortPc' \in {"load", "coro"},
           sortPc' = "load" => task'[curT'].pos = "entry"
    PROVE  SortState'
<1>1. /\ files \in Seq(Seq(Int)) /\ files # <<>> /\ iMain \in Nat
      /\ task \in [Tasks -> TaskRecord] /\ heap \in Seq(Block)
  BY DEF SortState, SortTypeOK
<1>2. Count' = Count /\ Tasks' = Tasks
  BY DEF Tasks, Count
<1>3. /\ task' \in [Tasks -> TaskRecord] /\ task'[c] = r
      /\ \A t \in Tasks : t # c => task'[t] = task[t]
  BY <1>1
<1>4. \A t \in Tasks : Loaded(t)' <=> Loaded(t)
  BY <1>3 DEF Loaded
<1>5. \A t \in Tasks : task'[t].arr = task[t].arr
  BY <1>3
<1>6. \A t \in Tasks : Loaded(t) => task[t].arr \in 1 .. Len(heap)
  BY DEF SortState
<1>7. \A t, u \in Tasks : Loaded(t) /\ Loaded(u) /\ task[t].arr = task[u].arr => t = u
  BY DEF SortState
<1>8. ASSUME NEW t \in Tasks, Loaded(t)
       PROVE  Progress(task'[t], heap'[task'[t].arr].data, files[t + 1])
  <2>1. CASE t = c
    BY <1>3, <2>1
  <2>2. CASE t # c
    <3>1. task[t].arr # r.arr /\ task[t].arr \in 1 .. Len(heap)
      BY <1>6, <1>7, <1>8, <2>2
    <3>2. heap'[task'[t].arr].data = heap[task[t].arr].data /\ task'[t] = task[t]
      BY <1>3, <2>2, <3>1
    <3>3. Progress(task[t], heap[task[t].arr].data, files[t + 1])
      BY <1>8 DEF SortState, Arr
    <3>4. QED
      BY <3>2, <3>3
  <2>3. QED
    BY <2>1, <2>2
<1>9. \A t \in Tasks : ~Loaded(t) => ~task'[t].is_finished
  BY <1>3 DEF SortState
<1>10. \A t \in Tasks : t < iMain' /\ Loaded(t)
  <2>1. Count \in Nat /\ \A t \in Tasks : t \in Nat /\ t < Count
    BY <1>1 DEF Tasks, Count
  <2>2. QED
    BY <1>1, <2>1 DEF SortState
<1>11. SortTypeOK'
  BY <1>1, <1>2, <1>3 DEF SortTypeOK
<1>12. /\ \A t \in Tasks : Loaded(t)' => task'[t].arr \in 1 .. Len(heap')
       /\ \A t, u \in Tasks : Loaded(t)' /\ Loaded(u)' /\ task'[t].arr = task'[u].arr => t = u
  BY <1>4, <1>5, <1>6, <1>7
<1>13. \A t \in Tasks : Loaded(t)' => Progress(task'[t], Arr(t)', files'[t + 1])
  BY <1>4, <1>8 DEF Arr
<1>14. sortPc' = "coro" => iMain' >= Count'
  BY <1>1, <1>2 DEF Count
<1>15. \A m \in 1 .. Len(heap) : heap'[m].live = heap[m].live
  OBVIOUS
<1>16. /\ \A t \in Tasks : Loaded(t)' => heap'[task'[t].arr].live
       /\ \A b \in 1 .. Len(heap') :
             heap'[b].live => \E t \in Tasks : Loaded(t)' /\ task'[t].arr = b
  BY <1>4, <1>5, <1>6, <1>15 DEF SortState
<1>17. QED
  BY <1>16, <1>2, <1>4, <1>9, <1>10, <1>11, <1>12, <1>13, <1>14 DEF SortState

\* check_resched passes on to the next task: into the loop of main if that
\* task has not run before.
LEMMA ReschedFacts ==
    ASSUME SortTypeOK, NEW tasks, Resched(tasks)
    PROVE  /\ task' = tasks /\ UNCHANGED <<files, arrs>>
           /\ iMain' \in Nat /\ iMain' >= iMain
           /\ curT' \in Tasks /\ sortPc' \in {"load", "coro"}
           /\ sortPc' = "load" => task'[curT'].pos = "entry"
<1>1. Count \in Nat \ {0} /\ curT \in Nat /\ iMain \in Nat
  BY DEF SortTypeOK, Tasks, Count
<1>2. (curT + 1) % Count \in 0 .. Count - 1
  BY <1>1
<1>3. QED
  BY <1>1, <1>2 DEF Resched, ResumedI, Tasks

\* The numbers of one array are replaced.
LEMMA HeapUpdate ==
    ASSUME NEW H \in Seq(Block), NEW k \in 1 .. Len(H), NEW B \in Seq(Int)
    PROVE  LET G == [H EXCEPT ![k].data = B]
           IN  /\ G \in Seq(Block) /\ Len(G) = Len(H) /\ G[k].data = B /\ G[k].live = H[k].live
               /\ \A m \in 1 .. Len(H) : m # k => G[m] = H[m]
<1>1. H[k] \in Block
  BY ElementOfSeq
<1>2. PICK v \in Block : v = [H[k] EXCEPT !.data = B] /\ v.data = B /\ v.live = H[k].live
  <2>1. /\ [H[k] EXCEPT !.data = B] \in Block /\ [H[k] EXCEPT !.data = B].data = B
        /\ [H[k] EXCEPT !.data = B].live = H[k].live
    BY <1>1 DEF Block
  <2>2. QED
    BY <2>1
<1>3. PICK G : G = [H EXCEPT ![k] = v]
  OBVIOUS
<1>4. /\ G \in Seq(Block) /\ Len(G) = Len(H)
      /\ \A m \in 1 .. Len(H) : G[m] = IF m = k THEN v ELSE H[m]
  BY <1>3, ExceptSeq
<1>5. [H EXCEPT ![k].data = B] = G
  BY <1>2, <1>3
<1>6. QED
  BY <1>2, <1>4, <1>5

\* What the invariant says of the running task at a step of it.
LEMMA RunningTask ==
    ASSUME SortState, T.pos # "none"
    PROVE  /\ curT \in Tasks /\ T \in TaskRecord /\ Loaded(curT) /\ T.arr \in 1 .. Len(heap)
           /\ heap \in Seq(Block) /\ files[curT + 1] \in Seq(Int)
           /\ Progress(T, Arr(curT), files[curT + 1])
<1>1. /\ curT \in Tasks /\ task \in [Tasks -> TaskRecord] /\ heap \in Seq(Block)
      /\ files \in Seq(Seq(Int))
  BY DEF SortState, SortTypeOK
<1>2. T \in TaskRecord /\ Loaded(curT)
  BY <1>1 DEF T, Loaded
<1>3. curT + 1 \in 1 .. Len(files)
  BY <1>1 DEF Tasks, Count
<1>4. files[curT + 1] \in Seq(Int)
  BY <1>1, <1>3, ElementOfSeq
<1>5. QED
  BY <1>1, <1>2, <1>4 DEF SortState, T

\* The call of q_sort_coro.
LEMMA EnterCoroStep == ASSUME SortState, EnterCoro PROVE SortState'
<1>1. /\ sortPc = "load" /\ iMain >= Count /\ UNCHANGED heap
      /\ Resched([task EXCEPT ![curT].pos = "loop"])
  BY DEF EnterCoro
<1>2. Count \in Nat /\ curT \in Tasks /\ curT \in Nat /\ curT < Count /\ iMain \in Nat
  BY DEF SortState, SortTypeOK, Tasks, Count
<1>3. T.pos = "entry" /\ T.pos # "none"
  <2>1. Loaded(curT)
    BY <1>1, <1>2 DEF SortState
  <2>2. QED
    BY <1>1, <2>1 DEF SortState, Loaded, T
<1>4. /\ curT \in Tasks /\ T \in TaskRecord /\ Loaded(curT) /\ heap \in Seq(Block)
      /\ Progress(T, Arr(curT), files[curT + 1])
  BY <1>3, RunningTask
<1>5. PICK r \in TaskRecord : /\ r = [T EXCEPT !.pos = "loop"] /\ r.pos = "loop"
                              /\ r.stack = T.stack /\ r.N = T.N /\ r.arr = T.arr
                              /\ r.is_finished = T.is_finished
  <2>1. [T EXCEPT !.pos = "loop"] \in TaskRecord
    BY <1>4 DEF TaskRecord
  <2>2. QED
    BY <1>4, <2>1 DEF TaskRecord
<1>6. task' = [task EXCEPT ![curT] = r]
  BY <1>1, <1>5 DEF Resched, T
<1>7. Progress(r, Arr(curT), files[curT + 1])
  <2>1. ~T.is_finished
    BY <1>3, <1>4 DEF Progress
  <2>2. QED
    BY <1>3, <1>4, <1>5, <2>1, SamePartsProgress
<1>8. /\ UNCHANGED <<files, arrs>> /\ iMain' \in Nat /\ iMain' >= iMain
      /\ curT' \in Tasks /\ sortPc' \in {"load", "coro"}
      /\ sortPc' = "load" => task'[curT'].pos = "entry"
  BY <1>1, ReschedFacts DEF SortState
<1>9. heap'[r.arr].data = Arr(curT) /\ r.arr = task[curT].arr
  BY <1>1, <1>5 DEF Arr, T
<1>10. QED
  BY <1>1, <1>4, <1>5, <1>6, <1>7, <1>8, <1>9, TaskStep

\* The record of a task that starts to partition, field by field.
LEMMA PartRecord ==
    ASSUME NEW q \in TaskRecord, NEW s \in Seq(Int),
           NEW l \in Int, NEW h \in Int, NEW x \in Int, NEW r, r = PartOf(q, s, l, h, x)
    PROVE  /\ r \in TaskRecord /\ r.pos = "part" /\ r.is_finished = q.is_finished
           /\ r.stack = s /\ r.N = q.N /\ r.arr = q.arr
           /\ r.h = h /\ r.l = l /\ r.x = x /\ r.i = l - 1 /\ r.j = l
<1>1. DOMAIN q = {"pos", "is_finished", "arr", "stack", "l", "h", "x", "i", "j", "N"}
  BY DEF TaskRecord
<1>2. r.pos = "part" /\ r.is_finished = q.is_finished
  BY <1>1 DEF PartOf
<1>3. r.stack = s /\ r.N = q.N /\ r.arr = q.arr
  BY <1>1 DEF PartOf
<1>4. r.h = h /\ r.l = l /\ r.x = x /\ r.i = l - 1 /\ r.j = l
  BY <1>1 DEF PartOf
<1>5. r \in TaskRecord
  <2>1. PICK q1 \in TaskRecord : q1 = [q EXCEPT !.pos = "part", !.stack = s, !.h = h]
    <3>1. [q EXCEPT !.pos = "part", !.stack = s, !.h = h] \in TaskRecord
      BY DEF TaskRecord
    <3>2. QED
      BY <3>1
  <2>2. PICK q2 \in TaskRecord : q2 = [q1 EXCEPT !.l = l, !.x = x]
    <3>1. [q1 EXCEPT !.l = l, !.x = x] \in TaskRecord
      BY DEF TaskRecord
    <3>2. QED
      BY <3>1
  <2>3. [q2 EXCEPT !.i = l - 1, !.j = l] \in TaskRecord
    <3>1. \A m \in Int : [q2 EXCEPT !.i = m, !.j = l] \in TaskRecord
      BY DEF TaskRecord
    <3>2. l - 1 \in Int
      OBVIOUS
    <3>3. QED
      BY <3>1, <3>2
  <2>4. r = [q2 EXCEPT !.i = l - 1, !.j = l]
    BY <2>1, <2>2 DEF PartOf
  <2>5. QED
    BY <2>3, <2>4
<1>6. QED
  BY <1>2, <1>3, <1>4, <1>5

\* A segment is popped.
LEMMA PopSegmentStep == ASSUME SortState, PopSegment PROVE SortState'
<1>1. PICK l, h : /\ h = Last(T.stack) /\ l = T.stack[Len(T.stack) - 1]
                  /\ At("loop") /\ T.stack # <<>> /\ UNCHANGED heap
                  /\ Resched([task EXCEPT ![curT] =
                        [T EXCEPT !.pos = "part", !.stack = SubSeq(@, 1, Len(@) - 2), !.h = h,
                                  !.l = l, !.x = Arr(curT)[h + 1], !.i = l - 1, !.j = l]])
  BY DEF PopSegment
<1>2. sortPc = "coro" /\ T.pos = "loop" /\ T.pos # "none"
  BY <1>1 DEF At
<1>3. /\ curT \in Tasks /\ T \in TaskRecord /\ Loaded(curT) /\ heap \in Seq(Block)
      /\ Progress(T, Arr(curT), files[curT + 1])
  BY <1>2, RunningTask
<1>4. /\ T.stack \in Seq(Int) /\ Len(T.stack) >= 2
      /\ Len(T.stack) \in 1 .. Len(T.stack) /\ Len(T.stack) - 1 \in 1 .. Len(T.stack)
  <2>1. T.stack \in Seq(Int) /\ Len(T.stack) = 2 * Depth(T.stack) /\ Depth(T.stack) \in Nat
    BY <1>3, DepthTyped DEF TaskRecord, Progress, Ascending
  <2>2. Len(T.stack) # 0
    BY <1>1, <2>1
  <2>3. QED
    BY <2>1, <2>2
<1>5. h = T.stack[Len(T.stack)] /\ h \in Int /\ l \in Int
  BY <1>1, <1>4, ElementOfSeq DEF Last
<1>6. Arr(curT)[h + 1] \in Int
  <2>1. PICK s \in Seq(Int), k \in Nat, N \in Nat :
           /\ s = T.stack /\ N = T.N /\ Len(s) = 2 * k /\ k = Depth(s) /\ Ascending(s, N)
    BY <1>3, <1>4, DepthTyped DEF TaskRecord, Progress, Ascending
  <2>2. k \in 1 .. k /\ h = Hi(s, k)
    BY <1>4, <1>5, <2>1, SMTT(30) DEF Hi
  <2>3. 2 * (k - 1) <= Lo(s, k) /\ Lo(s, k) < h /\ h < N /\ Lo(s, k) \in Int
    BY <2>1, <2>2, DepthTyped DEF Ascending
  <2>4. Len(Arr(curT)) = N /\ Arr(curT) \in Seq(Int)
    BY <1>3, <2>1 DEF Progress
  <2>5. h + 1 \in 1 .. N
    BY <1>5, <2>2, <2>3
  <2>6. QED
    BY <2>4, <2>5, ElementOfSeq
<1>7. SubSeq(T.stack, 1, Len(T.stack) - 2) \in Seq(Int)
  BY <1>4
<1>8. PICK s \in Seq(Int), x \in Int :
         s = SubSeq(T.stack, 1, Len(T.stack) - 2) /\ x = Arr(curT)[h + 1]
  BY <1>6, <1>7
<1>9. PICK new : new = PartOf(T, s, l, h, x)
  OBVIOUS
<1>10. task' = [task EXCEPT ![curT] = new]
  <2>1. task' = [task EXCEPT ![curT] =
                  [T EXCEPT !.pos = "part", !.stack = SubSeq(@, 1, Len(@) - 2), !.h = h,
                            !.l = l, !.x = Arr(curT)[h + 1], !.i = l - 1, !.j = l]]
    BY <1>1, Zenon DEF Resched
  <2>2. QED
    BY <1>8, <1>9, <2>1, Zenon DEF PartOf
<1>11. /\ new \in TaskRecord /\ new.pos = "part" /\ new.is_finished = T.is_finished
       /\ new.stack = s /\ new.N = T.N /\ new.arr = T.arr
       /\ new.h = h /\ new.l = l /\ new.x = x /\ new.i = l - 1 /\ new.j = l
  BY <1>3, <1>5, <1>9, PartRecord
<1>12. Progress(new, Arr(curT), files[curT + 1])
  BY <1>1, <1>2, <1>3, <1>5, <1>8, <1>11, PopProgress
<1>13. /\ UNCHANGED <<files, arrs>> /\ iMain' \in Nat /\ iMain' >= iMain
       /\ curT' \in Tasks /\ sortPc' \in {"load", "coro"}
       /\ sortPc' = "load" => task'[curT'].pos = "entry"
  BY <1>1, ReschedFacts DEF SortState
<1>14. heap'[new.arr].data = Arr(curT) /\ new.arr = task[curT].arr /\ iMain >= Count
  BY <1>1, <1>2, <1>11 DEF Arr, T, SortState
<1>15. QED
  BY <1>1, <1>3, <1>10, <1>11, <1>12, <1>13, <1>14, TaskStep

\* One round of the partition loop.
LEMMA PartitionStepStep == ASSUME SortState, PartitionStep PROVE SortState'
<1>1. PICK i : /\ i = (IF Arr(curT)[T.j + 1] <= T.x THEN T.i + 1 ELSE T.i)
               /\ At("part") /\ T.j <= T.h - 1
               /\ heap' = IF Arr(curT)[T.j + 1] <= T.x
                          THEN [heap EXCEPT ![T.arr].data = Swap(@, i, T.j)]
                          ELSE heap
               /\ Resched([task EXCEPT ![curT].i = i, ![curT].j = T.j + 1])
  BY DEF PartitionStep
<1>2. sortPc = "coro" /\ T.pos = "part" /\ T.pos # "none"
  BY <1>1 DEF At
<1>3. /\ curT \in Tasks /\ T \in TaskRecord /\ Loaded(curT) /\ T.arr \in 1 .. Len(heap)
      /\ heap \in Seq(Block) /\ files[curT + 1] \in Seq(Int)
      /\ Progress(T, Arr(curT), files[curT + 1])
  BY <1>2, RunningTask
<1>4. T.i \in Int /\ T.j \in Int /\ i \in Int /\ T.j + 1 \in Int
  BY <1>1, <1>3 DEF TaskRecord
<1>5. PICK r \in TaskRecord :
         /\ r = [T EXCEPT !.i = i, !.j = T.j + 1] /\ r.i = i /\ r.j = T.j + 1
         /\ r.pos = T.pos /\ r.is_finished = T.is_finished /\ r.stack = T.stack
         /\ r.N = T.N /\ r.arr = T.arr /\ r.l = T.l /\ r.h = T.h /\ r.x = T.x
  <2>1. \A q \in TaskRecord, a, b \in Int : [q EXCEPT !.i = a, !.j = b] \in TaskRecord
    BY DEF TaskRecord
  <2>2. \A q \in TaskRecord, a, b \in Int : LET p == [q EXCEPT !.i = a, !.j = b] IN
          /\ p.pos = q.pos /\ p.is_finished = q.is_finished /\ p.stack = q.stack
          /\ p.N = q.N /\ p.arr = q.arr /\ p.l = q.l /\ p.h = q.h /\ p.x = q.x
          /\ p.i = a /\ p.j = b
    BY DEF TaskRecord
  <2>3. PICK r \in TaskRecord : r = [T EXCEPT !.i = i, !.j = T.j + 1]
    BY <1>3, <1>4, <2>1
  <2>4. /\ r.pos = T.pos /\ r.is_finished = T.is_finished /\ r.stack = T.stack
        /\ r.N = T.N /\ r.arr = T.arr /\ r.l = T.l /\ r.h = T.h /\ r.x = T.x
        /\ r.i = i /\ r.j = T.j + 1
    BY <1>3, <1>4, <2>2, <2>3
  <2>5. QED
    BY <2>3, <2>4, Zenon
<1>6. task' = [task EXCEPT ![curT] = r]
  <2>1. task' = [task EXCEPT ![curT].i = i, ![curT].j = T.j + 1]
    BY <1>1, Zenon DEF Resched
  <2>2. task \in [Tasks -> TaskRecord]
    BY DEF SortState, SortTypeOK
  <2>3. QED
    BY <1>3, <1>5, <2>1, <2>2 DEF T
<1>7. PICK A : A = Arr(curT)
  OBVIOUS
<1>8. A \in Seq(Int) /\ heap[T.arr].data = A
  BY <1>3, <1>7 DEF Progress, Arr, T
<1>9. PICK B \in Seq(Int) :
         /\ \/ A[T.j + 1] <= T.x /\ i = T.i + 1 /\ B = Swap(A, T.i + 1, T.j)
            \/ ~(A[T.j + 1] <= T.x) /\ i = T.i /\ B = A
         /\ heap' \in Seq(Block) /\ Len(heap') = Len(heap) /\ heap'[T.arr].data = B
         /\ heap'[T.arr].live = heap[T.arr].live
         /\ \A m \in 1 .. Len(heap) : m # T.arr => heap'[m] = heap[m]
  <2>1. CASE A[T.j + 1] <= T.x
    <3>1. i = T.i + 1 /\ heap' = [heap EXCEPT ![T.arr].data = Swap(@, i, T.j)]
      BY <1>1, <1>7, <2>1
    <3>2. PICK B : B = Swap(A, T.i + 1, T.j)
      OBVIOUS
    <3>3. B \in Seq(Int)
      <4>1. T.i + 1 \in 0 .. Len(A) - 1 /\ T.j \in 0 .. Len(A) - 1
        <5>1. PICK s \in Seq(Int), N \in Nat, l, h, ti, tj \in Int :
                s = T.stack /\ N = T.N /\ l = T.l /\ h = T.h /\ ti = T.i /\ tj = T.j
          BY <1>3 DEF TaskRecord
        <5>2. Ascending(s, N) /\ Behind(s, l, h, N) /\ Len(A) = N
          BY <1>2, <1>3, <1>7, <5>1 DEF Progress
        <5>3. 0 <= l /\ h < N
          BY <5>2, DepthTyped DEF Behind, Ascending
        <5>4. l - 1 <= ti /\ ti < tj /\ tj <= h
          BY <1>2, <1>3, <5>1 DEF Progress, Parted
        <5>5. QED
          BY <5>1, <5>2, <5>3, <5>4, SMTT(30)
      <4>2. QED
        BY <1>8, <3>2, <4>1, SwapFacts
    <3>4. heap' = [heap EXCEPT ![T.arr].data = B]
      BY <1>8, <3>1, <3>2
    <3>5. /\ heap' \in Seq(Block) /\ Len(heap') = Len(heap) /\ heap'[T.arr].data = B
         /\ heap'[T.arr].live = heap[T.arr].live
          /\ \A m \in 1 .. Len(heap) : m # T.arr => heap'[m] = heap[m]
      BY <1>3, <3>3, <3>4, HeapUpdate
    <3>6. QED
      BY <2>1, <3>1, <3>2, <3>3, <3>5
  <2>2. CASE ~(A[T.j + 1] <= T.x)
    BY <1>1, <1>3, <1>7, <1>8, <2>2
  <2>3. QED
    BY <2>1, <2>2
<1>10. Progress(r, B, files[curT + 1])
  <2>1. PICK q \in TaskRecord, F \in Seq(Int) : q = T /\ F = files[curT + 1]
    BY <1>3
  <2>2. Progress(q, A, F) /\ q.pos = "part" /\ q.j <= q.h - 1
    BY <1>1, <1>2, <1>3, <1>7, <2>1
  <2>3. /\ r.pos = "part" /\ r.is_finished = q.is_finished /\ r.stack = q.stack /\ r.N = q.N
        /\ r.l = q.l /\ r.h = q.h /\ r.x = q.x /\ r.j = q.j + 1
    BY <1>2, <1>5, <2>1
  <2>4. \/ A[q.j + 1] <= q.x /\ r.i = q.i + 1 /\ B = Swap(A, q.i + 1, q.j)
        \/ ~(A[q.j + 1] <= q.x) /\ r.i = q.i /\ B = A
    BY <1>5, <1>9, <2>1
  <2>5. Progress(r, B, F)
    BY <2>2, <2>3, <2>4, RoundProgress
  <2>6. QED
    BY <2>1, <2>5
<1>11. /\ UNCHANGED <<files, arrs>> /\ iMain' \in Nat /\ iMain' >= iMain
       /\ curT' \in Tasks /\ sortPc' \in {"load", "coro"}
       /\ sortPc' = "load" => task'[curT'].pos = "entry"
  BY <1>1, ReschedFacts DEF SortState
<1>12. heap'[r.arr].data = B /\ r.arr = task[curT].arr /\ iMain >= Count /\ r.pos # "none"
       /\ \A m \in 1 .. Len(heap) : m # r.arr => heap'[m] = heap[m]
       /\ heap'[r.arr].live = heap[r.arr].live
  BY <1>2, <1>5, <1>9 DEF T, SortState
<1>13. QED
  BY <1>3, <1>5, <1>6, <1>9, <1>10, <1>11, <1>12, TaskStep

\* The end of the partition, which never leaves the stack of N entries.
LEMMA PlacePivotStep ==
    ASSUME SortState, PlacePivot PROVE SortState' /\ sortPc' # "fault" /\ UNCHANGED arrs
<1>1. PICK p, stack :
         /\ p = T.i + 1 /\ stack = T.stack \o Pushed(T.l, p, T.h)
         /\ At("part") /\ T.j > T.h - 1
         /\ IF Len(stack) > T.N
            THEN SortFault
            ELSE /\ heap' = [heap EXCEPT ![T.arr].data = Swap(@, p, T.h)]
                 /\ Resched([task EXCEPT ![curT].pos = "loop", ![curT].stack = stack])
  BY DEF PlacePivot
<1>2. sortPc = "coro" /\ T.pos = "part" /\ T.pos # "none"
  BY <1>1 DEF At
<1>3. /\ curT \in Tasks /\ T \in TaskRecord /\ Loaded(curT) /\ T.arr \in 1 .. Len(heap)
      /\ heap \in Seq(Block) /\ files[curT + 1] \in Seq(Int)
      /\ Progress(T, Arr(curT), files[curT + 1])
  BY <1>2, RunningTask
<1>4. PICK A : A = Arr(curT)
  OBVIOUS
<1>5. A \in Seq(Int) /\ heap[T.arr].data = A
  BY <1>3, <1>4 DEF Progress, Arr, T
<1>6. /\ stack \in Seq(Int) /\ Len(stack) <= T.N
      /\ p \in 0 .. Len(A) - 1 /\ T.h \in 0 .. Len(A) - 1
      /\ \A r : /\ r.pos = "loop" /\ r.is_finished = T.is_finished
                /\ r.stack = stack /\ r.N = T.N
                => Progress(r, Swap(A, p, T.h), files[curT + 1])
  <2>1. PICK q \in TaskRecord, F \in Seq(Int) : q = T /\ F = files[curT + 1]
    BY <1>3
  <2>2. Progress(q, A, F) /\ q.pos = "part" /\ q.j > q.h - 1
    BY <1>1, <1>2, <1>3, <1>4, <2>1
  <2>3. p = q.i + 1 /\ stack = q.stack \o Pushed(q.l, p, q.h)
    BY <1>1, <2>1
  <2>4. /\ stack \in Seq(Int) /\ Len(stack) <= q.N
        /\ p \in 0 .. Len(A) - 1 /\ q.h \in 0 .. Len(A) - 1
        /\ \A r : /\ r.pos = "loop" /\ r.is_finished = q.is_finished
                  /\ r.stack = stack /\ r.N = q.N
                  => Progress(r, Swap(A, p, q.h), F)
    BY <2>2, <2>3, PivotProgress, ZenonT(40)
  <2>5. QED
    BY <2>1, <2>4, Zenon
<1>7. /\ heap' = [heap EXCEPT ![T.arr].data = Swap(@, p, T.h)]
      /\ Resched([task EXCEPT ![curT].pos = "loop", ![curT].stack = stack])
  <2>1. Len(stack) \in Nat /\ T.N \in Nat
    BY <1>3, <1>6 DEF TaskRecord
  <2>2. ~(Len(stack) > T.N)
    BY <1>6, <2>1
  <2>3. QED
    BY <1>1, <2>2
<1>8. PICK B \in Seq(Int) : B = Swap(A, p, T.h)
  BY <1>5, <1>6, SwapFacts
<1>9. heap' = [heap EXCEPT ![T.arr].data = B]
  BY <1>5, <1>7, <1>8
<1>10. /\ heap' \in Seq(Block) /\ Len(heap') = Len(heap) /\ heap'[T.arr].data = B
       /\ heap'[T.arr].live = heap[T.arr].live
       /\ \A m \in 1 .. Len(heap) : m # T.arr => heap'[m] = heap[m]
  BY <1>3, <1>9, HeapUpdate
<1>11. PICK r \in TaskRecord :
         /\ r = [T EXCEPT !.pos = "loop", !.stack = stack] /\ r.pos = "loop"
         /\ r.is_finished = T.is_finished /\ r.stack = stack /\ r.N = T.N /\ r.arr = T.arr
  <2>1. \A q \in TaskRecord, s \in Seq(Int) : LET u == [q EXCEPT !.pos = "loop", !.stack = s] IN
          /\ u \in TaskRecord /\ u.pos = "loop" /\ u.is_finished = q.is_finished
          /\ u.stack = s /\ u.N = q.N /\ u.arr = q.arr
    BY DEF TaskRecord
  <2>2. PICK r : r = [T EXCEPT !.pos = "loop", !.stack = stack]
    OBVIOUS
  <2>3. /\ r \in TaskRecord /\ r.pos = "loop" /\ r.is_finished = T.is_finished
        /\ r.stack = stack /\ r.N = T.N /\ r.arr = T.arr
    BY <1>3, <1>6, <2>1, <2>2
  <2>4. QED
    BY <2>2, <2>3, Zenon
<1>12. task' = [task EXCEPT ![curT] = r]
  <2>1. task' = [task EXCEPT ![curT].pos = "loop", ![curT].stack = stack]
    BY <1>7, Zenon DEF Resched
  <2>2. task \in [Tasks -> TaskRecord]
    BY DEF SortState, SortTypeOK
  <2>3. QED
    BY <1>3, <1>11, <2>1, <2>2 DEF T
<1>13. Progress(r, B, files[curT + 1])
  BY <1>6, <1>8, <1>11
<1>14. /\ UNCHANGED <<files, arrs>> /\ iMain' \in Nat /\ iMain' >= iMain
       /\ curT' \in Tasks /\ sortPc' \in {"load", "coro"}
       /\ sortPc' = "load" => task'[curT'].pos = "entry"
  BY <1>7, ReschedFacts DEF SortState
<1>15. heap'[r.arr].data = B /\ r.arr = task[curT].arr /\ iMain >= Count /\ r.pos # "none"
       /\ \A m \in 1 .. Len(heap) : m # r.arr => heap'[m] = heap[m]
       /\ heap'[r.arr].live = heap[r.arr].live
  BY <1>2, <1>10, <1>11 DEF T, SortState
<1>16. SortState'
  BY <1>3, <1>10, <1>11, <1>12, <1>13, <1>14, <1>15, TaskStep
<1>17. QED
  BY <1>14, <1>16

\* A task whose stack is empty is finished.
LEMMA FinishStep == ASSUME SortState, Finish PROVE SortState'
<1>1. /\ At("loop") /\ T.stack = <<>>
      /\ task' = [task EXCEPT ![curT].pos = "wait", ![curT].is_finished = TRUE]
      /\ UNCHANGED <<files, sortPc, iMain, curT, heap>>
  BY DEF Finish
<1>2. sortPc = "coro" /\ T.pos = "loop" /\ T.pos # "none"
  BY <1>1 DEF At
<1>3. /\ curT \in Tasks /\ T \in TaskRecord /\ Loaded(curT) /\ heap \in Seq(Block)
      /\ Progress(T, Arr(curT), files[curT + 1])
  BY <1>2, RunningTask
<1>4. PICK r \in TaskRecord :
         /\ r = [T EXCEPT !.pos = "wait", !.is_finished = TRUE] /\ r.pos = "wait"
         /\ r.stack = T.stack /\ r.N = T.N /\ r.arr = T.arr
  <2>1. \A q \in TaskRecord : LET u == [q EXCEPT !.pos = "wait", !.is_finished = TRUE] IN
          u \in TaskRecord /\ u.pos = "wait" /\ u.stack = q.stack /\ u.N = q.N /\ u.arr = q.arr
    BY DEF TaskRecord
  <2>2. QED
    BY <1>3, <2>1
<1>5. task' = [task EXCEPT ![curT] = r]
  <2>1. task \in [Tasks -> TaskRecord]
    BY DEF SortState, SortTypeOK
  <2>2. QED
    BY <1>1, <1>3, <1>4, <2>1 DEF T
<1>6. Progress(r, Arr(curT), files[curT + 1])
  BY <1>1, <1>2, <1>3, <1>4, SamePartsProgress
<1>7. heap'[r.arr].data = Arr(curT) /\ r.arr = task[curT].arr /\ r.pos # "none"
      /\ sortPc' = "coro" /\ curT' \in Tasks
  BY <1>1, <1>2, <1>3, <1>4 DEF Arr, T
<1>8. iMain >= Count /\ iMain' \in Nat /\ iMain' >= iMain
  <2>1. iMain \in Nat
    BY DEF SortState, SortTypeOK
  <2>2. QED
    BY <1>1, <1>2, <2>1 DEF SortState
<1>9. QED
  BY <1>1, <1>3, <1>4, <1>5, <1>6, <1>7, <1>8, TaskStep

\* A step that leaves the records and the arrays alone.
LEMMA SwitchStep ==
    ASSUME SortState, UNCHANGED <<files, task, heap>>, iMain' \in Nat, iMain' >= iMain,
           curT' \in Tasks, sortPc \in {"load", "coro"},
           \/ sortPc' = sortPc /\ curT' = curT /\ iMain' = iMain
           \/ sortPc = "coro" /\ sortPc' \in {"load", "coro"}
                /\ (sortPc' = "load" => task[curT'].pos = "entry")
           \/ sortPc = "coro" /\ sortPc' = "merge" /\ AllFinished
    PROVE  SortState'
<1>1. iMain \in Nat /\ files \in Seq(Seq(Int))
  BY DEF SortState, SortTypeOK
<1>2. Tasks' = Tasks /\ Count' = Count /\ Count \in Nat /\ \A t \in Tasks : t < Count /\ t \in Nat
  BY <1>1 DEF Tasks, Count
<1>3. /\ \A t \in Tasks : Loaded(t)' = Loaded(t) /\ Arr(t)' = Arr(t)
      /\ SortTypeOK' /\ AllFinished' = AllFinished
  BY <1>2 DEF Loaded, Arr, SortState, SortTypeOK, AllFinished
<1>4. \A t \in Tasks : Loaded(t) <=> t < iMain'
  BY <1>1, <1>2 DEF SortState
<1>5. sortPc' = "coro" => iMain' >= Count
  BY <1>1, <1>2 DEF SortState
<1>6. (sortPc' = "load" => task[curT'].pos \in {"none", "entry"}) /\ (sortPc' = "merge" => AllFinished)
  BY DEF SortState
<1>7. QED
  BY <1>2, <1>3, <1>4, <1>5, <1>6 DEF SortState

\* A file is loaded, or is too short for the stack.
LEMMA LoadFileStep ==
    ASSUME SortState, LoadFile
    PROVE  /\ sortPc' = "load" => SortState'
           /\ sortPc = "load" /\ UNCHANGED <<files, arrs>>
           /\ sortPc' \in {"load", "fault"}
           /\ sortPc' = "fault" => Len(files[iMain + 1]) < 2
<1>1. PICK F, N :
         /\ F = files[iMain + 1] /\ N = Len(F) /\ sortPc = "load" /\ iMain < Count
         /\ IF N < 2
            THEN SortFault
            ELSE /\ heap' = Append(heap, [data |-> F, live |-> TRUE])
                 /\ task' = [task EXCEPT ![iMain] =
                       [NoTask EXCEPT !.pos = "entry", !.arr = Len(heap) + 1,
                                      !.stack = <<0, N - 1>>, !.h = N - 1, !.N = N]]
                 /\ iMain' = iMain + 1
                 /\ UNCHANGED <<files, sortPc, curT, arrs>>
  BY DEF LoadFile
<1>2. CASE N < 2
  BY <1>1, <1>2 DEF SortFault
<1>3. CASE ~(N < 2)
  <2>1. /\ files \in Seq(Seq(Int)) /\ files # <<>> /\ iMain \in Nat /\ curT \in Tasks
        /\ task \in [Tasks -> TaskRecord] /\ heap \in Seq(Block)
    BY DEF SortState, SortTypeOK
  <2>2. iMain \in Tasks /\ iMain + 1 \in 1 .. Len(files)
    BY <1>1, <2>1 DEF Tasks, Count
  <2>3. F \in Seq(Int) /\ N \in Nat /\ N >= 2 /\ Len(F) >= 2
    BY <1>1, <1>3, <2>1, <2>2, ElementOfSeq
  <2>4. PICK b \in Block : b = [data |-> F, live |-> TRUE] /\ b.data = F /\ b.live
    <3>1. [data |-> F, live |-> TRUE] \in Block
      BY <2>3 DEF Block
    <3>2. QED
      BY <3>1
  <2>5. /\ heap' \in Seq(Block) /\ Len(heap') = Len(heap) + 1 /\ heap'[Len(heap) + 1].data = F
        /\ heap'[Len(heap) + 1].live
        /\ \A m \in 1 .. Len(heap) : heap'[m] = heap[m]
    <3>1. heap' = Append(heap, b)
      BY <1>1, <1>3, <2>4
    <3>2. QED
      BY <2>1, <2>4, <3>1
  <2>6. PICK r : r = [NoTask EXCEPT !.pos = "entry", !.arr = Len(heap) + 1,
                                    !.stack = <<0, N - 1>>, !.h = N - 1, !.N = N]
    OBVIOUS
  <2>7. /\ r \in TaskRecord /\ r.pos = "entry" /\ r.arr = Len(heap) + 1
        /\ r.stack = <<0, Len(F) - 1>> /\ r.N = Len(F) /\ ~r.is_finished
    <3>1. <<0, N - 1>> \in Seq(Int) /\ <<>> \in Seq(Int) /\ Len(heap) + 1 \in Nat
          /\ N - 1 \in Int
      BY <2>1, <2>3
    <3>2. r = [pos |-> "entry", is_finished |-> FALSE, arr |-> Len(heap) + 1,
               stack |-> <<0, N - 1>>, l |-> 0, h |-> N - 1, x |-> 0, i |-> 0, j |-> 0, N |-> N]
      BY <2>6 DEF NoTask
    <3>3. QED
      BY <1>1, <2>3, <3>1, <3>2 DEF TaskRecord
  <2>8. Progress(r, F, F)
    BY <2>3, <2>7, LoadProgress
  <2>9. task' = [task EXCEPT ![iMain] = r]
    BY <1>1, <1>3, <2>6
  <2>10. /\ task' \in [Tasks -> TaskRecord] /\ task'[iMain] = r
         /\ \A t \in Tasks : t # iMain => task'[t] = task[t]
    BY <2>1, <2>2, <2>7, <2>9
  <2>11. iMain' = iMain + 1 /\ UNCHANGED <<files, sortPc, curT, arrs>>
    BY <1>1, <1>3
  <2>12. Tasks' = Tasks /\ Count' = Count /\ \A t \in Tasks : t \in Nat
    BY <2>1, <2>11 DEF Tasks, Count
  <2>13. \A t \in Tasks : /\ t # iMain => (Loaded(t)' <=> Loaded(t))
                          /\ t = iMain => Loaded(t)'
    BY <2>7, <2>10 DEF Loaded
  <2>14. SortTypeOK'
    BY <2>1, <2>5, <2>10, <2>11, <2>12 DEF SortTypeOK
  <2>15. \A t \in Tasks : t # iMain /\ Loaded(t) => task'[t].arr \in 1 .. Len(heap)
    BY <2>10 DEF SortState
  <2>16. /\ \A t \in Tasks : Loaded(t)' => task'[t].arr \in 1 .. Len(heap')
         /\ \A t, u \in Tasks : Loaded(t)' /\ Loaded(u)' /\ task'[t].arr = task'[u].arr => t = u
    <3>1. Len(heap) \in Nat
      BY <2>1
    <3>2. ASSUME NEW t \in Tasks, Loaded(t)' PROVE task'[t].arr \in 1 .. Len(heap')
      BY <2>5, <2>7, <2>10, <2>13, <2>15, <3>1, <3>2
    <3>3. ASSUME NEW t \in Tasks, NEW u \in Tasks, Loaded(t)', Loaded(u)',
                 task'[t].arr = task'[u].arr
          PROVE  t = u
      <4>1. CASE t = iMain \/ u = iMain
        BY <2>7, <2>10, <2>13, <2>15, <3>1, <3>3, <4>1
      <4>2. CASE t # iMain /\ u # iMain
        BY <2>10, <2>13, <3>3, <4>2 DEF SortState
      <4>3. QED
        BY <4>1, <4>2
    <3>4. QED
      BY <3>2, <3>3
  <2>17. ASSUME NEW t \in Tasks, Loaded(t)' PROVE Progress(task'[t], Arr(t)', files'[t + 1])
    <3>1. CASE t = iMain
      BY <1>1, <2>5, <2>7, <2>8, <2>10, <2>11, <3>1 DEF Arr
    <3>2. CASE t # iMain
      <4>1. Progress(task[t], Arr(t), files[t + 1]) /\ Loaded(t)
        BY <2>13, <2>17, <3>2 DEF SortState
      <4>2. Arr(t)' = Arr(t)
        BY <2>5, <2>10, <2>15, <3>2, <4>1 DEF Arr
      <4>3. QED
        BY <2>10, <2>11, <3>2, <4>1, <4>2
    <3>3. QED
      BY <3>1, <3>2
  <2>18. \A t \in Tasks : ~Loaded(t)' => ~task'[t].is_finished
    BY <2>10, <2>13 DEF SortState
  <2>19. \A t \in Tasks : Loaded(t)' <=> t < iMain'
    <3>1. \A t \in Tasks : t < iMain' <=> t = iMain \/ t < iMain
      BY <2>1, <2>11, <2>12
    <3>2. \A t \in Tasks : Loaded(t) <=> t < iMain
      BY DEF SortState
    <3>3. ~(iMain < iMain)
      BY <2>1
    <3>4. QED
      BY <2>13, <3>1, <3>2, <3>3
  <2>20. task'[curT].pos \in {"none", "entry"}
    BY <1>1, <2>1, <2>7, <2>10 DEF SortState
  <2>20a. \A t \in Tasks : Loaded(t)' => heap'[task'[t].arr].live
    <3>1. ASSUME NEW t \in Tasks, Loaded(t)' PROVE heap'[task'[t].arr].live
      <4>1. CASE t = iMain
        BY <2>5, <2>7, <2>10, <4>1
      <4>2. CASE t # iMain
        <5>1. task'[t].arr = task[t].arr /\ task[t].arr \in 1 .. Len(heap) /\ Loaded(t)
          BY <2>10, <2>13, <2>15, <3>1, <4>2
        <5>2. QED
          BY <2>5, <5>1 DEF SortState
      <4>3. QED
        BY <4>1, <4>2
    <3>2. QED
      BY <3>1
  <2>20b. ASSUME NEW c \in 1 .. Len(heap'), heap'[c].live
          PROVE  \E t \in Tasks : Loaded(t)' /\ task'[t].arr = c
    <3>1. CASE c = Len(heap) + 1
      BY <2>2, <2>7, <2>10, <2>13, <3>1
    <3>2. CASE c \in 1 .. Len(heap)
      <4>1. PICK t \in Tasks : Loaded(t) /\ task[t].arr = c
        BY <2>5, <2>20b, <3>2 DEF SortState
      <4>2. t # iMain
        BY <2>1, <4>1 DEF SortState
      <4>3. QED
        BY <2>10, <2>13, <4>1, <4>2
    <3>3. QED
      BY <2>1, <2>5, <3>1, <3>2
  <2>21. SortState'
    BY <2>20a, <2>20b, <1>1, <2>11, <2>12, <2>14, <2>16, <2>17, <2>18, <2>19, <2>20 DEF SortState
  <2>22. QED
    BY <1>1, <2>11, <2>21
<1>4. QED
  BY <1>2, <1>3

\* Nothing is loaded in the beginning.
LEMMA SortInitStep ==
    ASSUME SortInit("load", Seq(Seq(Int)) \ {<<>>}) PROVE SortInv
<1>1. /\ files \in Seq(Seq(Int)) /\ files # <<>> /\ sortPc = "load" /\ iMain = 0 /\ curT = 0
      /\ task = [t \in Tasks |-> NoTask] /\ heap = <<>> /\ arrs = 0
  BY DEF SortInit
<1>2. NoTask \in TaskRecord /\ NoTask.pos = "none" /\ ~NoTask.is_finished
  <2>1. <<>> \in Seq(Int)
    OBVIOUS
  <2>2. QED
    BY <2>1 DEF NoTask, TaskRecord
<1>3. Count \in Nat \ {0} /\ curT \in Tasks /\ \A t \in Tasks : t \in Nat
  BY <1>1 DEF Tasks, Count
<1>4. task \in [Tasks -> TaskRecord] /\ \A t \in Tasks : task[t] = NoTask
  BY <1>1, <1>2
<1>5. SortTypeOK
  <2>1. heap \in Seq(Block)
    BY <1>1
  <2>2. QED
    BY <1>1, <1>3, <1>4, <2>1 DEF SortTypeOK
<1>6. SortState
  BY <1>1, <1>2, <1>3, <1>4, <1>5 DEF SortState, Loaded
<1>7. QED
  BY <1>1, <1>6 DEF SortInv

\* A step of the program keeps the invariant, and only LoadFile faults
\* before the merge.
LEMMA SortStep ==
    ASSUME SortInv, [SortNext]_sortVars
    PROVE  /\ SortInv'
           /\ sortPc \in {"load", "coro"} /\ sortPc' = "fault"
                => sortPc = "load" /\ Len(files[iMain + 1]) < 2
<1> DEFINE fault == sortPc \in {"load", "coro"} /\ sortPc' = "fault"
                      => sortPc = "load" /\ Len(files[iMain + 1]) < 2
<1>1. arrs \in Nat /\ (sortPc \in {"load", "coro"} => arrs = 0 /\ SortState)
  BY DEF SortInv
<1>1a. ASSUME SortState', arrs = 0, UNCHANGED arrs, sortPc' \in {"load", "coro"}
       PROVE  SortInv' /\ fault
  BY <1>1, <1>1a DEF SortInv
<1>2. CASE OpenFails
  BY <1>1, <1>2 DEF OpenFails, SortInv
<1>3. CASE LoadFile
  <2>1. SortState
    BY <1>1, <1>3 DEF LoadFile
  <2>2. QED
    BY <1>1, <1>3, <2>1, LoadFileStep DEF SortInv
<1>4. CASE EnterCoro
  <2>1. SortState /\ arrs = 0
    BY <1>1, <1>4 DEF EnterCoro
  <2>2. UNCHANGED arrs /\ sortPc' \in {"load", "coro"}
    BY <1>4, <2>1, ReschedFacts DEF EnterCoro, SortState
  <2>3. QED
    BY <1>1a, <1>4, <2>1, <2>2, EnterCoroStep
<1>5. CASE PopSegment
  <2>1. SortState /\ arrs = 0
    BY <1>1, <1>5 DEF PopSegment, At
  <2>2. UNCHANGED arrs /\ sortPc' \in {"load", "coro"}
    BY <1>5, <2>1, ReschedFacts DEF PopSegment, SortState
  <2>3. QED
    BY <1>1a, <1>5, <2>1, <2>2, PopSegmentStep
<1>6. CASE PartitionStep
  <2>1. SortState /\ arrs = 0
    BY <1>1, <1>6 DEF PartitionStep, At
  <2>2. UNCHANGED arrs /\ sortPc' \in {"load", "coro"}
    BY <1>6, <2>1, ReschedFacts DEF PartitionStep, SortState
  <2>3. QED
    BY <1>1a, <1>6, <2>1, <2>2, PartitionStepStep
<1>7. CASE PlacePivot
  <2>1. SortState /\ sortPc = "coro"
    BY <1>1, <1>7 DEF PlacePivot, At
  <2>2. QED
    BY <1>1, <1>7, <2>1, PlacePivotStep DEF SortInv
<1>8. CASE Finish
  <2>1. SortState /\ UNCHANGED <<arrs, sortPc>> /\ sortPc = "coro"
    BY <1>1, <1>8 DEF Finish, At
  <2>2. QED
    BY <1>1, <1>8, <2>1, FinishStep DEF SortInv
<1>9. CASE WaitForOthers
  <2>1. SortState /\ sortPc = "coro" /\ UNCHANGED heap /\ Resched(task)
    BY <1>1, <1>9 DEF WaitForOthers, At
  <2>2. /\ task' = task /\ UNCHANGED <<files, arrs>> /\ iMain' \in Nat /\ iMain' >= iMain
        /\ curT' \in Tasks /\ sortPc' \in {"load", "coro"}
        /\ sortPc' = "load" => task'[curT'].pos = "entry"
    BY <2>1, ReschedFacts DEF SortState
  <2>3. SortState'
    BY <2>1, <2>2, SwitchStep
  <2>4. QED
    BY <1>1, <1>1a, <2>1, <2>2, <2>3
<1>10. CASE CoroReturns
  <2>1. /\ SortState /\ sortPc = "coro" /\ AllFinished /\ sortPc' = "merge"
        /\ UNCHANGED <<files, iMain, curT, task, heap, arrs>>
    BY <1>1, <1>10 DEF CoroReturns, At
  <2>2. iMain \in Nat /\ iMain >= iMain /\ curT \in Tasks
    BY <2>1 DEF SortState, SortTypeOK
  <2>3. SortState'
    BY <2>1, <2>2, SwitchStep
  <2>4. QED
    BY <1>1, <2>1, <2>3 DEF SortInv
<1>11. CASE MergeStep
  <2>1. sortPc = "merge" /\ sortPc' = "merge" /\ arrs' = arrs + 1
    BY <1>11 DEF MergeStep
  <2>2. QED
    BY <1>1, <2>1 DEF SortInv
<1>12. CASE WriteOut
  <2>1. sortPc = "merge" /\ sortPc' \in {"fault", "done"} /\ UNCHANGED arrs
    BY <1>12 DEF WriteOut, SortFault
  <2>2. QED
    BY <1>1, <2>1 DEF SortInv
<1>13. CASE UNCHANGED sortVars
  <2>1. UNCHANGED <<files, sortPc, iMain, curT, task, heap, arrs>>
    BY <1>13 DEF sortVars
  <2>2. fault
    BY <2>1
  <2>3. ASSUME SortState PROVE SortState'
    BY <2>1, <2>3 DEF SortState, SortTypeOK, Tasks, Count, Loaded, Arr, AllFinished
  <2>4. QED
    BY <2>1, <2>2, <2>3 DEF SortInv
<1>14. QED
  BY <1>2, <1>3, <1>4, <1>5, <1>6, <1>7, <1>8, <1>9, <1>10, <1>11, <1>12, <1>13 DEF SortNext

----------------------------------------------------------------------------
(* The invariant holds of hw_sort.cpp whatever the files hold: the         *)
(* round-robin of the coroutines and the partition loop keep it.           *)
THEOREM SortInvariance == SortSpec => []SortInv
<1>1. SortInv /\ [SortNext]_sortVars => SortInv'
  BY SortStep
<1>2. QED
  BY <1>1, SortInitStep, PTL DEF SortSpec

(* The segments that wait in the stack of a coroutine of hw_sort.cpp are   *)
(* disjoint, and hold every pair of numbers that is in the wrong order.    *)
THEOREM PendingSegmentsHolds == SortSpec => []PendingSegments
<1>1. ASSUME SortInv PROVE PendingSegments
  <2>1. SUFFICES ASSUME sortPc \in {"load", "coro"}, NEW t \in Tasks,
                        task[t].pos \in {"entry", "loop", "part", "wait"}
        PROVE  /\ \A s \in Pending(t) : 0 <= s[1] /\ s[1] < s[2] /\ s[2] < task[t].N
               /\ \A s, r \in Pending(t) : s = r \/ s[2] < r[1] \/ r[2] < s[1]
               /\ \A a, b \in 0 .. task[t].N - 1 :
                     a < b /\ Arr(t)[a + 1] > Arr(t)[b + 1] =>
                         \E s \in Pending(t) : s[1] <= a /\ b <= s[2]
    BY DEF PendingSegments
  <2>2. PICK q \in TaskRecord, A \in {Arr(t)} :
           /\ q = task[t] /\ A = Arr(t)
           /\ Progress(q, A, files[t + 1])
    BY <1>1, <2>1 DEF SortInv, SortState, SortTypeOK, Loaded
  <2>3. PICK st \in Seq(Int), N \in Nat, l, h \in Int : st = q.stack /\ N = q.N /\ l = q.l /\ h = q.h
    BY DEF TaskRecord
  <2>4. PICK P : P = Pending(t)
    OBVIOUS
  <2>5. P = {<<Lo(st, n), Hi(st, n)>> : n \in 1 .. Depth(st)}
               \cup (IF q.pos = "part" THEN {<<l, h>>} ELSE {})
    BY <2>2, <2>3, <2>4 DEF Pending, Lo, Hi, Depth
  <2>6. \A s \in P : \/ \E n \in 1 .. Depth(st) : s = <<Lo(st, n), Hi(st, n)>>
                     \/ q.pos = "part" /\ s = <<l, h>>
    BY <2>5
  <2>7. /\ \A n \in 1 .. Depth(st) : <<Lo(st, n), Hi(st, n)>> \in P
        /\ q.pos = "part" => <<l, h>> \in P
    BY <2>5
  <2>8. Ascending(st, N) /\ (q.pos = "part" => Behind(st, l, h, N))
    BY <2>2, <2>3 DEF Progress
  <2>9. Depth(st) \in Nat /\ \A n \in 1 .. Depth(st) : Lo(st, n) \in Int /\ Hi(st, n) \in Int
    BY <2>8, DepthTyped DEF Ascending
  <2>10. \A n \in 1 .. Depth(st) : 0 <= Lo(st, n) /\ Lo(st, n) < Hi(st, n) /\ Hi(st, n) < N
    BY <2>8, <2>9 DEF Ascending
  <2>11. q.pos = "part" => 0 <= l /\ l < h /\ h < N /\ \A n \in 1 .. Depth(st) : Hi(st, n) < l
    BY <2>8, <2>9 DEF Behind
  <2>12. \A m, n \in 1 .. Depth(st) : m = n \/ Hi(st, m) < Lo(st, n) \/ Hi(st, n) < Lo(st, m)
    BY <2>8, <2>9 DEF Ascending
  <2>13. ASSUME NEW s \in P PROVE 0 <= s[1] /\ s[1] < s[2] /\ s[2] < N
    BY <2>6, <2>10, <2>11
  <2>14. ASSUME NEW s \in P, NEW r \in P PROVE s = r \/ s[2] < r[1] \/ r[2] < s[1]
    <3>1. CASE \E n \in 1 .. Depth(st) : s = <<Lo(st, n), Hi(st, n)>>
      <4>1. PICK n \in 1 .. Depth(st) : s = <<Lo(st, n), Hi(st, n)>>
        BY <3>1
      <4>2. CASE \E m \in 1 .. Depth(st) : r = <<Lo(st, m), Hi(st, m)>>
        BY <2>12, <4>1, <4>2
      <4>3. CASE q.pos = "part" /\ r = <<l, h>>
        BY <2>11, <4>1, <4>3
      <4>4. QED
        BY <2>6, <4>2, <4>3
    <3>2. CASE q.pos = "part" /\ s = <<l, h>>
      <4>1. CASE \E m \in 1 .. Depth(st) : r = <<Lo(st, m), Hi(st, m)>>
        BY <2>11, <3>2, <4>1
      <4>2. CASE r = <<l, h>>
        BY <3>2, <4>2
      <4>3. QED
        BY <2>6, <4>1, <4>2
    <3>3. QED
      BY <2>6, <3>1, <3>2
  <2>15. ASSUME NEW a \in 0 .. N - 1, NEW b \in 0 .. N - 1, a < b, A[a + 1] > A[b + 1]
         PROVE  \E s \in P : s[1] <= a /\ b <= s[2]
    <3>1. OnStack(st, a, b) \/ (q.pos = "part" /\ l <= a /\ b <= h)
      <4>1. CASE q.pos = "part"
        <5>1. WrongOnlyInside(A, st, l, h, N)
          BY <2>2, <2>3, <4>1 DEF Progress
        <5>2. QED
          BY <2>15, <4>1, <5>1 DEF WrongOnlyInside
      <4>2. CASE q.pos # "part"
        <5>1. WrongOnlyInside(A, st, 0, -1, N)
          BY <2>2, <2>3, <4>2 DEF Progress
        <5>2. ~(b <= -1)
          OBVIOUS
        <5>3. QED
          BY <2>15, <5>1, <5>2 DEF WrongOnlyInside
      <4>3. QED
        BY <4>1, <4>2
    <3>2. CASE OnStack(st, a, b)
      <4>1. PICK n \in 1 .. Depth(st) : Lo(st, n) <= a /\ b <= Hi(st, n)
        BY <3>2 DEF OnStack
      <4>2. PICK s \in P : s = <<Lo(st, n), Hi(st, n)>>
        BY <2>7
      <4>3. QED
        BY <4>1, <4>2
    <3>3. CASE q.pos = "part" /\ l <= a /\ b <= h
      <4>1. PICK s \in P : s = <<l, h>>
        BY <2>7, <3>3
      <4>2. QED
        BY <3>3, <4>1
    <3>4. QED
      BY <3>1, <3>2, <3>3
  <2>16. QED
    BY <2>2, <2>3, <2>4, <2>13, <2>14, <2>15
<1>2. QED
  BY <1>1, SortInvariance, PTL

(* When the merge of hw_sort.cpp begins, every coroutine has sorted its    *)
(* array, and the array holds the numbers of the file.                     *)
THEOREM ArraysSortedHolds == SortSpec => []ArraysSorted
<1>1. ASSUME SortInv PROVE ArraysSorted
  <2>1. SUFFICES ASSUME sortPc = "merge", arrs = 0, NEW t \in Tasks
        PROVE  /\ Rearranged(Arr(t), files[t + 1])
               /\ \A a, b \in DOMAIN Arr(t) : a < b => Arr(t)[a] <= Arr(t)[b]
    BY DEF ArraysSorted
  <2>2. SortState
    BY <1>1, <2>1 DEF SortInv
  <2>3. Loaded(t) /\ task[t].is_finished
    BY <2>1, <2>2 DEF SortState, AllFinished
  <2>4. PICK q \in TaskRecord, A \in {Arr(t)} :
           /\ q = task[t] /\ A = Arr(t)
           /\ Progress(q, A, files[t + 1])
    BY <2>2, <2>3 DEF SortState, SortTypeOK
  <2>5. /\ q.stack = <<>> /\ A \in Seq(Int) /\ Len(A) = q.N /\ q.N \in Nat
        /\ Rearranged(A, files[t + 1]) /\ WrongOnlyInside(A, <<>>, 0, -1, q.N)
    BY <2>3, <2>4 DEF Progress, TaskRecord
  <2>6. Depth(<<>>) = 0
    <3>1. <<>> \in Seq(Int) /\ Len(<<>>) = 2 * 0
      OBVIOUS
    <3>2. QED
      BY <3>1, DepthOf
  <2>7. ASSUME NEW a \in DOMAIN A, NEW b \in DOMAIN A, a < b PROVE A[a] <= A[b]
    <3>1. a \in 1 .. q.N /\ b \in 1 .. q.N /\ A[a] \in Int /\ A[b] \in Int
      BY <2>5, ElementOfSeq
    <3>2. PICK c, d \in 0 .. q.N - 1 : c = a - 1 /\ d = b - 1
      <4>1. a - 1 \in 0 .. q.N - 1 /\ b - 1 \in 0 .. q.N - 1
        BY <2>5, <3>1
      <4>2. QED
        BY <4>1, Zenon
    <3>3. c + 1 = a /\ d + 1 = b /\ c < d /\ ~(d <= -1)
      <4>1. PICK N \in Nat : N = q.N
        BY <2>5
      <4>2. a \in 1 .. N /\ b \in 1 .. N /\ c = a - 1 /\ d = b - 1
        BY <3>1, <3>2, <4>1
      <4>3. QED
        BY <2>7, <4>2
    <3>4. ~OnStack(<<>>, c, d)
      BY <2>6 DEF OnStack
    <3>5. ~(A[c + 1] > A[d + 1])
      BY <2>5, <3>3, <3>4 DEF WrongOnlyInside
    <3>6. QED
      BY <3>1, <3>3, <3>5
  <2>8. QED
    BY <2>4, <2>5, <2>7
<1>2. QED
  BY <1>1, SortInvariance, PTL

(* Before the merge hw_sort.cpp leaves its memory only at a file with      *)
(* fewer than two numbers: the stack of N entries never overflows.         *)
THEOREM OnlyShortFilesFaultHolds == SortSpec => OnlyShortFilesFault
<1>1. SortInv /\ [SortNext]_sortVars
        => [(sortPc \in {"load", "coro"} /\ sortPc' = "fault")
              => (sortPc = "load" /\ Len(files[iMain + 1]) < 2)]_sortVars
  BY SortStep
<1>2. QED
  BY <1>1, SortInvariance, PTL DEF SortSpec, OnlyShortFilesFault

\* The records of two tasks get other arrays.
LEMMA MergeTasks ==
    ASSUME DOMAIN task = Tasks, \A t \in Tasks : "arr" \in DOMAIN task[t],
           NEW a \in Tasks, NEW z \in Tasks, NEW n, NEW m, NEW x, NEW y,
           task' = [task EXCEPT ![a].arr = x, ![a].N = n, ![z].arr = y, ![z].N = m]
    PROVE  /\ DOMAIN task' = Tasks /\ \A t \in Tasks : "arr" \in DOMAIN task'[t]
           /\ task'[z].arr = y /\ (a # z => task'[a].arr = x)
           /\ \A t \in Tasks : t # a /\ t # z => task'[t].arr = task[t].arr
<1>1. DOMAIN task' = Tasks
  OBVIOUS
<1>2. PICK p : p = [task[a] EXCEPT !.arr = x, !.N = n]
  OBVIOUS
<1>3. "arr" \in DOMAIN p /\ p.arr = x
  BY <1>2
<1>4. PICK q : q = [(IF a = z THEN p ELSE task[z]) EXCEPT !.arr = y, !.N = m]
  OBVIOUS
<1>5. "arr" \in DOMAIN q /\ q.arr = y
  BY <1>3, <1>4
<1>6. task'[z] = q /\ (a # z => task'[a] = p)
  BY <1>2, <1>4
<1>7. \A t \in Tasks : t # a /\ t # z => task'[t] = task[t]
  OBVIOUS
<1>8. QED
  BY <1>1, <1>3, <1>5, <1>6, <1>7

\* A sequence of blocks, whatever they hold.
LEMMA HeapShape ==
    ASSUME NEW D, NEW H \in Seq([data : D, live : BOOLEAN])
    PROVE  H \in Seq(BlocksOf(H))
<1> DEFINE R == BlocksOf(H)
<1>1. DOMAIN H = 1 .. Len(H) /\ Len(H) \in Nat
  OBVIOUS
<1>2. \A b \in 1 .. Len(H) : H[b] \in [data : D, live : BOOLEAN]
  BY ElementOfSeq
<1>3. \A b \in 1 .. Len(H) : H[b] \in R
  BY <1>1, <1>2 DEF BlocksOf
<1>4. H = [b \in 1 .. Len(H) |-> H[b]]
  OBVIOUS
<1> HIDE DEF R
<1>5. H \in [1 .. Len(H) -> R]
  BY <1>3, <1>4
<1>6. H \in Seq(R)
  BY <1>1, <1>5, SeqDef
<1>7. QED
  BY <1>6 DEF R

\* One array is freed, another one is allocated.
LEMMA MergeHeap ==
    ASSUME NEW D, NEW H \in HeapOf(D), NEW k \in 1 .. Len(H), NEW d,
           NEW G, G = FreeAlloc(H, k, d)
    PROVE  Reallocated(H, k, G)
<1> USE DEF HeapOf
<1> DEFINE S == [data : D \cup {d}, live : BOOLEAN]
<1>1. H \in Seq(S)
  <2>1. \A b \in 1 .. Len(H) : H[b] \in S
    <3>1. \A b \in 1 .. Len(H) : H[b] \in [data : D, live : BOOLEAN]
      BY ElementOfSeq
    <3>2. QED
      BY <3>1
  <2>2. H = [b \in 1 .. Len(H) |-> H[b]] /\ Len(H) \in Nat
    OBVIOUS
  <2> HIDE DEF S
  <2>3. H \in [1 .. Len(H) -> S]
    BY <2>1, <2>2
  <2>4. QED
    BY <2>2, <2>3, SeqDef
<1>2. H[k] \in S
  BY <1>1, ElementOfSeq
<1>3. PICK v \in S : v = [H[k] EXCEPT !.live = FALSE] /\ ~v.live
  <2>1. [H[k] EXCEPT !.live = FALSE] \in S /\ ~[H[k] EXCEPT !.live = FALSE].live
    BY <1>2
  <2>2. QED
    BY <2>1
<1>4. PICK e \in S : e = [data |-> d, live |-> TRUE] /\ e.live
  <2>1. [data |-> d, live |-> TRUE] \in S /\ [data |-> d, live |-> TRUE].live
    OBVIOUS
  <2>2. QED
    BY <2>1
<1>5. PICK F : F = [H EXCEPT ![k] = v]
  OBVIOUS
<1>6. [H EXCEPT ![k].live = FALSE] = F
  BY <1>3, <1>5
<1> HIDE DEF S
<1>7. /\ F \in Seq(S) /\ Len(F) = Len(H)
      /\ \A m \in 1 .. Len(H) : F[m] = IF m = k THEN v ELSE H[m]
  BY <1>1, <1>5, ExceptSeq
<1>8. G = Append(F, e)
  BY <1>4, <1>6 DEF FreeAlloc
<1>9. /\ G \in Seq(S) /\ Len(G) = Len(H) + 1 /\ G[Len(H) + 1] = e
      /\ \A m \in 1 .. Len(H) : G[m] = F[m]
  <2>1. /\ Append(F, e) \in Seq(S) /\ Len(Append(F, e)) = Len(F) + 1
        /\ \A m \in 1 .. Len(F) : Append(F, e)[m] = F[m]
        /\ Append(F, e)[Len(F) + 1] = e
    BY <1>7, AppendProperties
  <2>2. QED
    BY <1>7, <1>8, <2>1, Zenon
<1>10. G \in Seq(BlocksOf(G))
  <2>1. G \in Seq([data : D \cup {d}, live : BOOLEAN])
    BY <1>9, Zenon DEF S
  <2>2. QED
    BY <2>1, HeapShape, Zenon
<1>11. QED
  BY <1>3, <1>4, <1>7, <1>9, <1>10 DEF Reallocated

\* A merge step frees the array it moved away from, and owns the one it allocated.
LEMMA MergeStepStep == ASSUME MergeInv, MergeStep, arrs \in Nat PROVE MergeInv'
<1>1. PICK next, last, tmp :
         /\ next = arrs + 1 /\ last = Count - 1 /\ arrs < last
         /\ heap' = Append([heap EXCEPT ![task[next].arr].live = FALSE],
                           [data |-> tmp, live |-> TRUE])
         /\ task' = [task EXCEPT ![next].arr = task[last].arr, ![next].N = task[last].N,
                                 ![last].arr = Len(heap) + 1, ![last].N = Len(tmp)]
         /\ UNCHANGED files
  BY DEF MergeStep
<1>2. next \in Tasks /\ last \in Tasks /\ Tasks' = Tasks /\ Count' = Count
  BY <1>1 DEF MergeInv, Tasks, Count
<1>3. PICK k \in 1 .. Len(heap) : k = task[next].arr
  BY <1>2 DEF MergeInv
<1>4. PICK D : heap \in Seq([data : D, live : BOOLEAN])
  BY DEF MergeInv, BlocksOf
<1>5. /\ heap' \in Seq(BlocksOf(heap'))
      /\ Len(heap') = Len(heap) + 1 /\ heap'[Len(heap) + 1].live /\ ~heap'[k].live
      /\ \A m \in 1 .. Len(heap) : m # k => heap'[m] = heap[m]
  <2>1. PICK H, G : H \in HeapOf(D) /\ H = heap /\ G = heap'
    BY <1>4 DEF HeapOf
  <2>2. k \in 1 .. Len(H) /\ G = FreeAlloc(H, k, tmp)
    BY <1>1, <1>3, <2>1 DEF FreeAlloc
  <2>3. Reallocated(H, k, G)
    BY <2>1, <2>2, MergeHeap, ZenonT(40)
  <2>4. QED
    BY <2>1, <2>3, Zenon DEF Reallocated
<1>6. /\ DOMAIN task' = Tasks /\ \A t \in Tasks : "arr" \in DOMAIN task'[t]
      /\ task'[last].arr = Len(heap) + 1 /\ (next # last => task'[next].arr = task[last].arr)
      /\ \A t \in Tasks : t # next /\ t # last => task'[t].arr = task[t].arr
  BY <1>1, <1>2, MergeTasks, ZenonT(60) DEF MergeInv
<1>7. /\ \A t \in Tasks : task[t].arr \in 1 .. Len(heap) /\ heap[task[t].arr].live
      /\ \A t, u \in Tasks : task[t].arr = task[u].arr => t = u
      /\ \A b \in 1 .. Len(heap) : heap[b].live => \E t \in Tasks : task[t].arr = b
      /\ Len(heap) \in Nat
  BY <1>4 DEF MergeInv
<1>8. \A t \in Tasks : t # last => \E u \in Tasks : u # next /\ task'[t].arr = task[u].arr
                                                   /\ (u = t \/ (u = last /\ t = next))
  BY <1>2, <1>6
<1>9. ASSUME NEW t \in Tasks PROVE task'[t].arr \in 1 .. Len(heap') /\ heap'[task'[t].arr].live
  <2>1. CASE t = last
    BY <1>5, <1>6, <1>7, <2>1
  <2>2. CASE t # last
    <3>1. PICK u \in Tasks : u # next /\ task'[t].arr = task[u].arr
      BY <1>8, <2>2
    <3>2. task[u].arr # k /\ task[u].arr \in 1 .. Len(heap) /\ heap[task[u].arr].live
      BY <1>2, <1>3, <1>7, <3>1
    <3>3. QED
      BY <1>5, <1>7, <3>1, <3>2
  <2>3. QED
    BY <2>1, <2>2
<1>10. ASSUME NEW t \in Tasks, NEW u \in Tasks, task'[t].arr = task'[u].arr PROVE t = u
  <2>1. \A w \in Tasks : w # last => task'[w].arr \in 1 .. Len(heap)
    BY <1>7, <1>8
  <2>2. CASE t = last \/ u = last
    <3>1. Len(heap) + 1 \notin 1 .. Len(heap)
      BY <1>7
    <3>2. QED
      BY <1>6, <1>10, <2>1, <2>2, <3>1
  <2>3. CASE t # last /\ u # last
    <3>1. PICK v \in Tasks : task'[t].arr = task[v].arr /\ v # next
                             /\ (v = t \/ (v = last /\ t = next))
      BY <1>8, <2>3
    <3>2. PICK w \in Tasks : task'[u].arr = task[w].arr /\ w # next
                             /\ (w = u \/ (w = last /\ u = next))
      BY <1>8, <2>3
    <3>3. v = w
      <4>1. task[v].arr = task[w].arr
        BY <1>10, <3>1, <3>2, Zenon
      <4>2. QED
        BY <1>7, <4>1, Zenon
    <3>4. QED
      BY <2>3, <3>1, <3>2, <3>3
  <2>4. QED
    BY <2>2, <2>3
<1>11. ASSUME NEW b \in 1 .. Len(heap'), heap'[b].live PROVE \E t \in Tasks : task'[t].arr = b
  <2>1. CASE b = Len(heap) + 1
    BY <1>2, <1>6, <2>1
  <2>2. CASE b \in 1 .. Len(heap)
    <3>1. b # k /\ heap[b].live
      BY <1>5, <1>11, <2>2
    <3>2. PICK u \in Tasks : task[u].arr = b
      BY <1>7, <2>2, <3>1
    <3>3. u # next
      BY <1>3, <3>1, <3>2
    <3>4. CASE u = last
      <4>1. task'[next].arr = b
        BY <1>6, <3>2, <3>3, <3>4, Zenon
      <4>2. QED
        BY <1>2, <4>1, Zenon
    <3>5. CASE u # last
      BY <1>6, <3>2, <3>3, <3>5
    <3>6. QED
      BY <3>4, <3>5
  <2>3. b = Len(heap) + 1 \/ b \in 1 .. Len(heap)
    BY <1>5, <1>7
  <2>4. QED
    BY <2>1, <2>2, <2>3
<1>12. QED
  BY <1>2, <1>5, <1>6, <1>9, <1>10, <1>11 DEF MergeInv

(* The arrays of hw_sort.cpp, for any files: none is lost, none belongs to *)
(* two tasks or to a task after it was freed, so WriteOut frees each once. *)
THEOREM ArraysOwnedHolds == SortSpec => []ArraysOwned
<1>1. SortInit("load", Seq(Seq(Int)) \ {<<>>}) => MemoryInv
  BY SortInitStep DEF MemoryInv, SortInit
<1>2. MemoryInv /\ [SortNext]_sortVars => MemoryInv'
  <2>1. SUFFICES ASSUME MemoryInv, [SortNext]_sortVars PROVE MemoryInv'
    OBVIOUS
  <2>2. SortInv /\ SortInv' /\ arrs \in Nat
    BY <2>1, SortStep DEF MemoryInv, SortInv
  <2>3. CASE MergeStep
    <3>1. sortPc = "merge" /\ sortPc' = "merge"
      BY <2>3 DEF MergeStep
    <3>2. QED
      BY <2>1, <2>2, <2>3, <3>1, MergeStepStep DEF MemoryInv
  <2>4. CASE WriteOut
    <3>1. MergeInv
      BY <2>1, <2>4 DEF WriteOut, MemoryInv
    <3>2. sortPc' = "fault" \/ (sortPc' = "done" /\ heap' = [b \in DOMAIN heap |->
                       [heap[b] EXCEPT !.live = @ /\ \A t \in Tasks : task[t].arr # b]])
      BY <2>4 DEF WriteOut, SortFault
    <3>3. CASE sortPc' = "done"
      <4>1. /\ DOMAIN heap = 1 .. Len(heap)
            /\ \A b \in 1 .. Len(heap) : "live" \in DOMAIN heap[b]
        <5>1. PICK D : heap \in Seq([data : D, live : BOOLEAN])
          BY <3>1 DEF MergeInv, BlocksOf
        <5>2. \A b \in 1 .. Len(heap) : heap[b] \in [data : D, live : BOOLEAN]
          BY <5>1, ElementOfSeq
        <5>3. QED
          BY <5>1, <5>2
      <4>2. ASSUME NEW b \in 1 .. Len(heap)
            PROVE  ~[heap[b] EXCEPT !.live = @ /\ \A t \in Tasks : task[t].arr # b].live
        <5>1. ~(heap[b].live /\ \A t \in Tasks : task[t].arr # b)
          BY <3>1 DEF MergeInv, BlocksOf
        <5>2. QED
          BY <4>1, <5>1
      <4>3. QED
        BY <2>2, <3>2, <3>3, <4>1, <4>2 DEF MemoryInv
    <3>4. QED
      BY <2>2, <3>2, <3>3 DEF MemoryInv
  <2>5. CASE CoroReturns
    <3>1. sortPc' = "merge" /\ arrs' = 0
      BY <2>2, <2>5 DEF CoroReturns, At, SortInv
    <3>2. SortState'
      BY <2>2, <3>1 DEF SortInv
    <3>3. SortState => (AllFinished => MergeInv)
      <4>1. SUFFICES ASSUME SortState, AllFinished PROVE MergeInv
        OBVIOUS
      <4>2. \A t \in Tasks : Loaded(t)
        BY <4>1 DEF SortState, AllFinished
      <4>3. heap \in Seq(BlocksOf(heap))
        <5>1. heap \in Seq([data : Seq(Int), live : BOOLEAN])
          BY <4>1, Zenon DEF SortState, SortTypeOK, Block
        <5>2. QED
          BY <5>1, HeapShape, Zenon
      <4>4. /\ DOMAIN task = Tasks /\ \A t \in Tasks : "arr" \in DOMAIN task[t]
            /\ Count \in Nat
        BY <4>1 DEF SortState, SortTypeOK, TaskRecord, Count
      <4>5. QED
        BY <4>1, <4>2, <4>3, <4>4 DEF SortState, MergeInv
    <3>4. SortState /\ AllFinished /\ UNCHANGED <<files, task, heap>>
      BY <2>2, <2>5 DEF CoroReturns, At, SortInv
    <3>5. MergeInv'
      BY <3>3, <3>4 DEF MergeInv, Tasks, Count
    <3>6. QED
      BY <2>2, <3>1, <3>5 DEF MemoryInv
  <2>6. CASE UNCHANGED sortVars
    <3>1. UNCHANGED <<files, sortPc, task, heap>>
      BY <2>6 DEF sortVars
    <3>2. MergeInv' = MergeInv
      BY <3>1 DEF MergeInv, Tasks, Count
    <3>3. QED
      BY <2>1, <2>2, <3>1, <3>2 DEF MemoryInv
  <2>7. CASE \/ OpenFails \/ LoadFile \/ EnterCoro \/ PopSegment \/ PartitionStep
             \/ PlacePivot \/ Finish \/ WaitForOthers
    <3>1. sortPc' \notin {"merge", "done"}
      BY <2>7 DEF OpenFails, LoadFile, EnterCoro, PopSegment, PartitionStep, PlacePivot,
                  Finish, WaitForOthers, Resched, SortFault, At
    <3>2. QED
      BY <2>2, <3>1 DEF MemoryInv
  <2>8. QED
    BY <2>1, <2>3, <2>4, <2>5, <2>6, <2>7 DEF SortNext
<1>3. MemoryInv => ArraysOwned
  <2>1. SUFFICES ASSUME MemoryInv PROVE ArraysOwned
    OBVIOUS
  <2>2. CASE sortPc \in {"load", "coro"}
    <3>1. SortState
      BY <2>1, <2>2 DEF MemoryInv, SortInv
    <3>2. DOMAIN heap = 1 .. Len(heap)
      BY <3>1 DEF SortState, SortTypeOK
    <3>3. QED
      BY <2>2, <3>1, <3>2 DEF SortState, ArraysOwned, Loaded
  <2>3. CASE sortPc = "merge"
    <3>1. MergeInv
      BY <2>1, <2>3 DEF MemoryInv
    <3>2. DOMAIN heap = 1 .. Len(heap)
      BY <3>1 DEF MergeInv
    <3>3. QED
      BY <2>3, <3>1, <3>2 DEF MergeInv, ArraysOwned
  <2>4. CASE sortPc \notin {"load", "coro", "merge"}
    BY <2>1, <2>4 DEF MemoryInv, ArraysOwned
  <2>5. QED
    BY <2>2, <2>3, <2>4
<1>4. QED
  BY <1>1, <1>2, <1>3, PTL DEF SortSpec

(* hw_sort.cpp up to its output, for any number of files and any numbers.  *)
THEOREM SortSafeHolds == SortSpec => []SortSafe
<1>1. PendingSegments /\ ArraysSorted /\ ArraysOwned => SortSafe
  BY DEF SortSafe
<1>2. QED
  BY <1>1, PendingSegmentsHolds, ArraysSortedHolds, ArraysOwnedHolds, PTL

----------------------------------------------------------------------------
(***************************************************************************)
(* The shell, for any input and any number of descriptors.                 *)
(*                                                                         *)
(* On a plain line every bar that is counted becomes a token of its own,   *)
(* so the split finds as many commands as were counted (Words).  There are *)
(* at most as many children as rounds of the loop that forks, and each     *)
(* wait of the loop behind it takes one away (KidsInv).                    *)
(***************************************************************************)
\* Any input.
ShellSpec == ShellInit("read", Seq(STRING)) /\ [][ShellNext]_shVars

----------------------------------------------------------------------------
(* The inductive invariant. *)

\* The characters of a token; a backslash is put there by the shell.
Letters == STRING \cup {"bs"}

Bars(ts) == {i \in DOMAIN ts : ts[i] = <<"|">>}

ControlInv ==
    /\ shPc \in {"read", "single", "pipe", "dup", "fork", "wait", "prompt", "fault",
                "overrun", "exited"}
    /\ cmd_count \in Nat /\ cmd_count >= 1 /\ Len(cmds) \in Nat
    /\ iCmd \in Nat
    /\ shPc \in {"pipe", "dup", "fork", "wait"} => iCmd >= 1 /\ iCmd <= cmd_count
    /\ shPc = "single" => cmd_count = 1

\* What was read of a plain line: the bars that are counted are words of their own.
Words ==
    /\ mode = "top"
    /\ cmd_count = Cardinality(Bars(tokens)) + (IF token = <<"|">> THEN 2 ELSE 1)
    /\ line = <<>> => tokens = <<>> /\ token = <<>>
    /\ line # <<>> => /\ line[Len(line)] = "sp" => token = <<>>
                      /\ token = <<"|">> => line[Len(line)] = "|"
                      /\ line[1] # "|" /\ tokens # <<>> => tokens[1] # <<"|">>
                      /\ line[1] # "|" /\ tokens = <<>> => token \notin {<<>>, <<"|">>}

ParseInv ==
    /\ input \in Seq(STRING)
    /\ line \in Seq(STRING)
    /\ tokens \in Seq(Seq(Letters))
    /\ token \in Seq(Letters)
    /\ shPc # "read" => tokens = <<>> /\ token = <<>> /\ mode = "top"
    /\ shPc = "read" /\ PlainLine => Words

KidsInv ==
    /\ IsFiniteSet(kids)
    /\ shPc \in {"read", "prompt", "single"} => kids = {}
    /\ shPc \in {"pipe", "dup", "fork"} => Cardinality(kids) <= iCmd - 1
    /\ shPc = "wait" => Cardinality(kids) <= cmd_count - iCmd + 1

ShInv == ControlInv /\ ParseInv /\ PlainLineWorks /\ KidsInv

----------------------------------------------------------------------------
(* The steps of main. *)

\* Behind parse_line nothing is read, and the line keeps its commands.
LEMMA ExecFrame ==
    ASSUME ShInv, UNCHANGED parseVars, shPc \in {"single", "pipe", "dup", "fork", "wait", "fault"},
           shPc' # "read", shPc' = "fault" => shPc = "fault"
    PROVE  ParseInv' /\ PlainLineWorks'
<1>1. /\ input' = input /\ line' = line /\ mode' = mode /\ tokens' = tokens /\ token' = token
      /\ cmd_count' = cmd_count /\ cmds' = cmds
  BY DEF parseVars
<1>2. PlainLine' <=> PlainLine
  BY <1>1 DEF PlainLine
<1>3. ParseInv'
  BY <1>1 DEF ShInv, ParseInv
<1>4. PlainLineWorks'
  BY <1>1, <1>2 DEF ShInv, PlainLineWorks
<1>5. QED
  BY <1>3, <1>4

\* A single command has one child, or none if fork fails.
LEMMA ForkSingleStep ==
    ASSUME ShInv, NEW ok \in BOOLEAN, NEW does \in Does, ForkSingle(ok, does) PROVE ShInv'
<1>1. /\ shPc = "single" /\ shPc' = "wait" /\ iCmd' = 1
      /\ kids' = IF ok THEN {Kid(1, Tty, Tty, does)} ELSE {}
      /\ UNCHANGED parseVars
  BY DEF ForkSingle
<1>2. cmd_count = 1 /\ cmd_count' = 1 /\ cmds' = cmds
  BY <1>1 DEF ShInv, ControlInv, parseVars
<1>3. ParseInv' /\ PlainLineWorks'
  BY <1>1, ExecFrame
<1>4. ControlInv'
  BY <1>1, <1>2 DEF ShInv, ControlInv
<1>5. IsFiniteSet(kids') /\ Cardinality(kids') <= 1
  <2>1. CASE ok
    <3>1. PICK k : k = Kid(1, Tty, Tty, does)
      OBVIOUS
    <3>2. kids' = {k}
      BY <1>1, <2>1, <3>1
    <3>3. IsFiniteSet({k}) /\ Cardinality({k}) = 1
      BY FS_Singleton
    <3>4. QED
      BY <3>2, <3>3
  <2>2. CASE ~ok
    <3>1. kids' = {}
      BY <1>1, <2>2
    <3>2. IsFiniteSet({}) /\ Cardinality({}) = 0
      BY FS_EmptySet
    <3>3. QED
      BY <3>1, <3>2
  <2>3. QED
    BY <2>1, <2>2
<1>6. KidsInv'
  <2>1. cmd_count' - iCmd' + 1 = 1
    BY <1>1, <1>2
  <2>2. QED
    BY <1>1, <1>5, <2>1 DEF KidsInv
<1>7. QED
  BY <1>3, <1>4, <1>6 DEF ShInv

\* pipe and dup2 change descriptors only.
LEMMA PipeAndDupStep == ASSUME ShInv, MakePipe \/ DupInput PROVE ShInv'
<1>1. /\ shPc \in {"pipe", "dup"} /\ shPc' \in {"dup", "fork"}
      /\ UNCHANGED <<parseVars, iCmd, kids>>
  BY DEF MakePipe, DupInput
<1>2. ParseInv' /\ PlainLineWorks'
  BY <1>1, ExecFrame
<1>3. ControlInv'
  BY <1>1 DEF ShInv, ControlInv, parseVars
<1>4. KidsInv'
  BY <1>1 DEF ShInv, KidsInv
<1>5. QED
  BY <1>2, <1>3, <1>4 DEF ShInv

\* A round of the loop starts one child more, or none if fork fails.
LEMMA ForkNextStep ==
    ASSUME ShInv, NEW ok \in BOOLEAN, NEW does \in Does, ForkNext(ok, does) PROVE ShInv'
<1>1. PICK c : c = Dup2(Dup2(fdTable, pipefd[1], 0), pipefd[2], 1)
  OBVIOUS
<1>2. PICK new : new = Kid(iCmd, c[0], c[1], does)
  OBVIOUS
<1>3. /\ shPc = "fork"
      /\ kids' = IF ok THEN kids \cup {new} ELSE kids
      /\ iCmd' = IF iCmd < cmd_count THEN iCmd + 1 ELSE 1
      /\ shPc' = CASE iCmd > Len(cmds) -> "fault"
                   [] iCmd <= Len(cmds) /\ iCmd < cmd_count -> "pipe"
                   [] OTHER -> "wait"
      /\ UNCHANGED parseVars
  BY <1>1, <1>2 DEF ForkNext
<1>4. /\ Len(cmds') \in Nat /\ cmds' = cmds
      /\ cmd_count' = cmd_count /\ cmd_count \in Nat /\ iCmd \in Nat /\ iCmd >= 1 /\ iCmd <= cmd_count
  BY <1>3 DEF ShInv, ControlInv, parseVars
<1>5. /\ shPc' \in {"fault", "pipe", "wait"}
      /\ shPc' = "pipe" => iCmd < cmd_count /\ iCmd' = iCmd + 1
      /\ shPc' = "wait" => iCmd' = 1 /\ iCmd = cmd_count
      /\ iCmd' \in Nat
  <2>1. CASE iCmd > Len(cmds)
    BY <1>3, <1>4, <2>1
  <2>2. CASE ~(iCmd > Len(cmds)) /\ iCmd < cmd_count
    <3>1. shPc' \in {"pipe", "wait"} /\ iCmd' = iCmd + 1
      BY <1>3, <2>2
    <3>2. iCmd <= Len(cmds)
      BY <1>4, <2>2
    <3>3. QED
      BY <1>3, <1>4, <2>2, <3>1, <3>2
  <2>3. CASE ~(iCmd > Len(cmds)) /\ ~(iCmd < cmd_count)
    BY <1>3, <1>4, <2>3
  <2>4. QED
    BY <2>1, <2>2, <2>3
<1>6. ControlInv'
  BY <1>4, <1>5 DEF ControlInv
<1>7. ParseInv' /\ PlainLineWorks'
  <2>1. CASE shPc' # "fault"
    BY <1>3, <1>5, <2>1, ExecFrame
  <2>2. CASE shPc' = "fault"
    <3>1. iCmd > Len(cmds)
      BY <1>3, <2>2
    <3>2. /\ input' = input /\ line' = line /\ mode' = mode /\ tokens' = tokens /\ token' = token
      BY <1>3 DEF parseVars
    <3>3. PlainLine' <=> PlainLine
      BY <3>2 DEF PlainLine
    <3>4. PlainLine /\ line # <<>> /\ line[1] # "|" => Len(cmds) = cmd_count
      BY <1>3 DEF ShInv, PlainLineWorks
    <3>5. ~(PlainLine /\ line # <<>> /\ line[1] # "|")
      BY <1>4, <3>1, <3>4
    <3>6. PlainLineWorks'
      BY <3>2, <3>3, <3>5 DEF PlainLineWorks
    <3>7. ParseInv'
      BY <1>3, <2>2, <3>2 DEF ShInv, ParseInv
    <3>8. QED
      BY <3>6, <3>7
  <2>3. QED
    BY <2>1, <2>2
<1>8. /\ IsFiniteSet(kids') /\ Cardinality(kids') \in Nat /\ Cardinality(kids') <= iCmd
  <2>1. IsFiniteSet(kids) /\ Cardinality(kids) <= iCmd - 1
    BY <1>3 DEF ShInv, KidsInv
  <2>2. Cardinality(kids) \in Nat
    BY <2>1, FS_CardinalityType
  <2>3. /\ IsFiniteSet(kids \cup {new})
        /\ Cardinality(kids \cup {new}) = IF new \in kids THEN Cardinality(kids) ELSE Cardinality(kids) + 1
    BY <2>1, FS_AddElement
  <2>4. CASE ok
    <3>1. kids' = kids \cup {new}
      BY <1>3, <2>4
    <3>2. Cardinality(kids') \in Nat /\ Cardinality(kids') <= iCmd
      BY <1>4, <2>1, <2>2, <2>3, <3>1
    <3>3. QED
      BY <2>3, <3>1, <3>2
  <2>5. CASE ~ok
    <3>1. kids' = kids
      BY <1>3, <2>5
    <3>2. QED
      BY <1>4, <2>1, <2>2, <3>1
  <2>6. QED
    BY <2>4, <2>5
<1>9. KidsInv'
  <2>1. shPc' = "pipe" => Cardinality(kids') <= iCmd' - 1
    <3>1. shPc' = "pipe" => iCmd' - 1 = iCmd
      BY <1>4, <1>5
    <3>2. QED
      BY <1>8, <3>1
  <2>2. shPc' = "wait" => Cardinality(kids') <= cmd_count' - iCmd' + 1
    <3>1. shPc' = "wait" => cmd_count' - iCmd' + 1 = iCmd
      BY <1>4, <1>5
    <3>2. QED
      BY <1>8, <3>1
  <2>3. QED
    BY <1>5, <1>8, <2>1, <2>2 DEF KidsInv
<1>10. QED
  BY <1>6, <1>7, <1>9 DEF ShInv

\* wait takes a child away as long as there is one.
LEMMA WaitStep == ASSUME ShInv, Wait PROVE ShInv'
<1>1. /\ shPc = "wait" /\ iCmd' = iCmd + 1
      /\ shPc' = IF iCmd < cmd_count THEN "wait" ELSE "prompt"
      /\ IF kids = {} THEN kids' = kids ELSE \E k \in kids : kids' = kids \ {k}
      /\ UNCHANGED parseVars
  BY DEF Wait
<1>2. ParseInv' /\ PlainLineWorks'
  BY <1>1, ExecFrame
<1>3. cmd_count' = cmd_count /\ cmd_count \in Nat /\ iCmd \in Nat /\ iCmd <= cmd_count /\ iCmd >= 1
      /\ cmd_count >= 1 /\ Len(cmds') \in Nat
  BY <1>1 DEF ShInv, ControlInv, parseVars
<1>4. ControlInv'
  <2>1. /\ iCmd' \in Nat /\ shPc' \in {"wait", "prompt"}
        /\ shPc' = "wait" => iCmd' >= 1 /\ iCmd' <= cmd_count
    BY <1>1, <1>3
  <2>2. QED
    BY <1>3, <2>1 DEF ControlInv
<1>5. /\ IsFiniteSet(kids) /\ Cardinality(kids) <= cmd_count - iCmd + 1
      /\ Cardinality(kids) \in Nat
  <2>1. IsFiniteSet(kids) /\ Cardinality(kids) <= cmd_count - iCmd + 1
    BY <1>1 DEF ShInv, KidsInv
  <2>2. QED
    BY <2>1, FS_CardinalityType
<1>6. /\ IsFiniteSet(kids') /\ Cardinality(kids') \in Nat /\ kids' \subseteq kids
      /\ Cardinality(kids') <= cmd_count - iCmd
  <2>1. CASE kids = {}
    <3>1. kids' = {} /\ Cardinality({}) = 0 /\ IsFiniteSet({})
      BY <1>1, <2>1, FS_EmptySet
    <3>2. 0 <= cmd_count - iCmd
      BY <1>3
    <3>3. QED
      BY <3>1, <3>2
  <2>2. CASE kids # {}
    <3>1. PICK k \in kids : kids' = kids \ {k}
      BY <1>1, <2>2
    <3>2. IsFiniteSet(kids \ {k}) /\ Cardinality(kids \ {k}) = Cardinality(kids) - 1
      BY <1>5, FS_RemoveElement
    <3>3. Cardinality(kids \ {k}) \in Nat
      BY <3>2, FS_CardinalityType
    <3>4. Cardinality(kids \ {k}) <= cmd_count - iCmd
      BY <1>3, <1>5, <3>2
    <3>5. QED
      BY <3>1, <3>2, <3>3, <3>4
  <2>3. QED
    BY <2>1, <2>2
<1>7. KidsInv'
  <2>1. shPc' = "prompt" => kids' = {}
    <3>1. SUFFICES ASSUME shPc' = "prompt" PROVE kids' = {}
      OBVIOUS
    <3>2. cmd_count - iCmd = 0
      BY <1>1, <1>3, <3>1
    <3>3. Cardinality(kids') = 0
      BY <1>6, <3>2
    <3>4. QED
      BY <1>6, <3>3, FS_EmptySet
  <2>2. Cardinality(kids') <= cmd_count' - iCmd' + 1
    <3>1. cmd_count' - iCmd' + 1 = cmd_count - iCmd
      BY <1>1, <1>3
    <3>2. QED
      BY <1>6, <3>1
  <2>3. shPc' \in {"wait", "prompt"}
    BY <1>1
  <2>4. QED
    BY <1>6, <2>1, <2>2, <2>3 DEF KidsInv
<1>8. QED
  BY <1>2, <1>4, <1>7 DEF ShInv

\* A child that ends stays until it is waited for.
LEMMA KidEndsStep == ASSUME ShInv, NEW k \in kids, KidEnds(k) PROVE ShInv'
<1>1. PICK z : z = [k EXCEPT !.state = "zombie"]
  OBVIOUS
<1>2. /\ kids' = (kids \ {k}) \cup {z}
      /\ UNCHANGED <<parseVars, shPc, iCmd>>
  BY <1>1 DEF KidEnds
<1>3. /\ input' = input /\ line' = line /\ mode' = mode /\ tokens' = tokens /\ token' = token
      /\ cmd_count' = cmd_count /\ cmds' = cmds
  BY <1>2 DEF parseVars
<1>4. PlainLine' <=> PlainLine
  BY <1>3 DEF PlainLine
<1>5. shPc \notin {"read", "prompt", "single"}
  BY DEF ShInv, KidsInv
<1>6. ParseInv' /\ PlainLineWorks' /\ ControlInv'
  <2>1. ParseInv'
    BY <1>2, <1>3, <1>5 DEF ShInv, ParseInv
  <2>2. PlainLineWorks'
    BY <1>2, <1>3, <1>4 DEF ShInv, PlainLineWorks
  <2>3. ControlInv'
    BY <1>2, <1>3 DEF ShInv, ControlInv
  <2>4. QED
    BY <2>1, <2>2, <2>3
<1>7. IsFiniteSet(kids') /\ Cardinality(kids') \in Nat /\ Cardinality(kids') <= Cardinality(kids)
      /\ Cardinality(kids) \in Nat
  <2>1. IsFiniteSet(kids)
    BY DEF ShInv, KidsInv
  <2>2. IsFiniteSet(kids \ {k}) /\ Cardinality(kids \ {k}) = Cardinality(kids) - 1
        /\ Cardinality(kids) \in Nat
    BY <2>1, FS_RemoveElement, FS_CardinalityType
  <2>3. PICK S : S = kids \ {k}
    OBVIOUS
  <2>4. IsFiniteSet(S \cup {z}) /\ Cardinality(S) \in Nat
        /\ Cardinality(S \cup {z}) = IF z \in S THEN Cardinality(S) ELSE Cardinality(S) + 1
    BY <2>2, <2>3, FS_AddElement, FS_CardinalityType
  <2>5. QED
    BY <1>2, <2>2, <2>3, <2>4
<1>8. KidsInv'
  <2>1. /\ shPc \in {"pipe", "dup", "fork"} => Cardinality(kids) <= iCmd - 1
        /\ shPc = "wait" => Cardinality(kids) <= cmd_count - iCmd + 1
        /\ iCmd \in Nat /\ cmd_count \in Nat
    BY DEF ShInv, KidsInv, ControlInv
  <2>2. /\ shPc' \in {"pipe", "dup", "fork"} => Cardinality(kids') <= iCmd' - 1
        /\ shPc' = "wait" => Cardinality(kids') <= cmd_count' - iCmd' + 1
    BY <1>2, <1>3, <1>7, <2>1
  <2>3. QED
    BY <1>2, <1>5, <1>7, <2>2 DEF KidsInv
<1>9. QED
  BY <1>6, <1>8 DEF ShInv

----------------------------------------------------------------------------
(* parse_line. *)

\* The bars among the tokens, and one token more.
LEMMA BarsFacts ==
    ASSUME NEW ts \in Seq(Seq(Letters))
    PROVE  /\ IsFiniteSet(Bars(ts)) /\ Cardinality(Bars(ts)) \in Nat
           /\ ts = <<>> => Cardinality(Bars(ts)) = 0
           /\ \A t \in Seq(Letters) :
                 Cardinality(Bars(Append(ts, t))) = Cardinality(Bars(ts)) + (IF t = <<"|">> THEN 1 ELSE 0)
<1>1. DOMAIN ts = 1 .. Len(ts) /\ Len(ts) \in Nat
  OBVIOUS
<1>2. IsFiniteSet(Bars(ts)) /\ Cardinality(Bars(ts)) \in Nat
  <2>1. IsFiniteSet(1 .. Len(ts))
    BY <1>1, FS_Interval
  <2>2. Bars(ts) \subseteq 1 .. Len(ts)
    BY <1>1 DEF Bars
  <2>3. QED
    BY <2>1, <2>2, FS_Subset, FS_CardinalityType
<1>3. ASSUME ts = <<>> PROVE Cardinality(Bars(ts)) = 0
  <2>1. Bars(ts) = {}
    BY <1>3 DEF Bars
  <2>2. QED
    BY <2>1, FS_EmptySet
<1>4. ASSUME NEW t \in Seq(Letters)
      PROVE  Cardinality(Bars(Append(ts, t))) = Cardinality(Bars(ts)) + (IF t = <<"|">> THEN 1 ELSE 0)
  <2>1. PICK u : u = Append(ts, t)
    OBVIOUS
  <2>2. /\ DOMAIN u = 1 .. Len(ts) + 1 /\ u[Len(ts) + 1] = t
        /\ \A i \in 1 .. Len(ts) : u[i] = ts[i]
    BY <1>1, <2>1, AppendProperties
  <2>3. Len(ts) + 1 \notin Bars(ts)
    BY <1>1 DEF Bars
  <2>4. CASE t = <<"|">>
    <3>1. Bars(u) = Bars(ts) \cup {Len(ts) + 1}
      BY <1>1, <2>2, <2>4 DEF Bars
    <3>2. Cardinality(Bars(ts) \cup {Len(ts) + 1}) = Cardinality(Bars(ts)) + 1
      BY <1>2, <2>3, FS_AddElement
    <3>3. QED
      BY <2>1, <2>4, <3>1, <3>2
  <2>5. CASE t # <<"|">>
    <3>0. \A i \in 1 .. Len(ts) + 1 : i \in 1 .. Len(ts) \/ i = Len(ts) + 1
      BY <1>1
    <3>1. Bars(u) = Bars(ts)
      <4>1. \A i \in Bars(u) : i \in Bars(ts)
        BY <1>1, <2>2, <2>5, <3>0 DEF Bars
      <4>2. \A i \in Bars(ts) : i \in Bars(u)
        BY <1>1, <2>2 DEF Bars
      <4>3. QED
        BY <4>1, <4>2
    <3>2. QED
      BY <1>2, <2>1, <2>5, <3>1
  <2>6. QED
    BY <2>4, <2>5
<1>5. QED
  BY <1>2, <1>3, <1>4

\* The tokens with k - 1 bars before them.
Part(ts, k) == {i \in DOMAIN ts \ Bars(ts) : Cardinality({b \in Bars(ts) : b < i}) = k - 1}

\* There is a command more than bars, and the first has a name unless a bar comes first.
LEMMA SplitFacts ==
    ASSUME NEW ts \in Seq(Seq(Letters))
    PROVE  /\ Len(Split(ts)) = Cardinality(Bars(ts)) + 1
           /\ ts # <<>> /\ ts[1] # <<"|">> => Split(ts)[1] # <<>>
<1>1. PICK s : s = Split(ts)
  OBVIOUS
<1>2. PICK n \in Nat : n = Cardinality(Bars(ts)) + 1 /\ n >= 1
  BY BarsFacts
<1>3. DOMAIN s = 1 .. n /\ s = [k \in 1 .. n |-> s[k]]
  BY <1>1, <1>2 DEF Split, Bars
<1>4. \A k \in 1 .. n : DOMAIN s[k] = 1 .. Cardinality(Part(ts, k))
  BY <1>1, <1>2 DEF Split, Bars, Part
<1>5. Len(s) = n
  <2>1. PICK S : S = {s[k] : k \in 1 .. n}
    OBVIOUS
  <2>2. s \in [1 .. n -> S]
    BY <1>3, <2>1
  <2>3. s \in Seq(S)
    BY <1>2, <2>2, SeqDef
  <2>4. DOMAIN s = 1 .. Len(s) /\ Len(s) \in Nat
    BY <2>3
  <2>5. QED
    BY <1>2, <1>3, <2>4
<1>6. ASSUME ts # <<>>, ts[1] # <<"|">> PROVE s[1] # <<>>
  <2>1. 1 \in DOMAIN ts
    BY <1>6, EmptySeq
  <2>2. {b \in Bars(ts) : b < 1} = {}
    BY DEF Bars
  <2>3. Cardinality({b \in Bars(ts) : b < 1}) = 1 - 1
    <3>1. Cardinality({}) = 0 /\ 1 - 1 = 0
      BY FS_EmptySet
    <3>2. QED
      BY <2>2, <3>1
  <2>4. 1 \in Part(ts, 1)
    BY <1>6, <2>1, <2>3 DEF Part, Bars
  <2>5. IsFiniteSet(Part(ts, 1))
    <3>0. Len(ts) \in Nat /\ DOMAIN ts = 1 .. Len(ts)
      OBVIOUS
    <3>1. IsFiniteSet(1 .. Len(ts)) /\ Part(ts, 1) \subseteq 1 .. Len(ts)
      BY <3>0, FS_Interval DEF Part
    <3>2. QED
      BY <3>1, FS_Subset
  <2>6. Cardinality(Part(ts, 1)) \in Nat /\ Cardinality(Part(ts, 1)) # 0
    BY <2>4, <2>5, FS_CardinalityType, FS_EmptySet
  <2>7. 1 \in DOMAIN s[1]
    BY <1>2, <1>4, <2>6
  <2>8. QED
    BY <2>7
<1>7. QED
  BY <1>1, <1>2, <1>5, <1>6

\* An empty line is read next.
LEMMA PromptStep == ASSUME ShInv, Prompt PROVE ShInv'
<1>1. /\ shPc = "prompt" /\ shPc' = "read" /\ line' = <<>> /\ cmd_count' = 1 /\ cmds' = <<>>
      /\ UNCHANGED <<input, mode, tokens, token, prev, execVars>>
  BY DEF Prompt
<1>2. iCmd' = iCmd /\ kids' = kids
  BY <1>1 DEF execVars
<1>3. ControlInv'
  <2>1. Len(<<>>) = 0
    OBVIOUS
  <2>2. QED
    BY <1>1, <1>2, <2>1 DEF ShInv, ControlInv
<1>4. ParseInv'
  <2>1. tokens = <<>> /\ token = <<>> /\ mode = "top"
    BY <1>1 DEF ShInv, ParseInv
  <2>2. Cardinality(Bars(tokens)) = 0
    <3>1. tokens \in Seq(Seq(Letters))
      BY DEF ShInv, ParseInv
    <3>2. QED
      BY <2>1, <3>1, BarsFacts
  <2>3. <<>> # <<"|">>
    OBVIOUS
  <2>4. Words'
    <3>1. /\ mode' = "top" /\ token' = <<>> /\ tokens' = <<>>
          /\ cmd_count' = 0 + 1 /\ Cardinality(Bars(tokens')) = 0
      BY <1>1, <2>1, <2>2
    <3>2. QED
      BY <1>1, <2>3, <3>1 DEF Words
  <2>5. QED
    BY <1>1, <2>1, <2>4 DEF ShInv, ParseInv
<1>5. PlainLineWorks'
  BY <1>1 DEF PlainLineWorks
<1>6. KidsInv'
  BY <1>1, <1>2 DEF ShInv, KidsInv
<1>7. QED
  BY <1>3, <1>4, <1>5, <1>6 DEF ShInv

\* The line is split: a plain one into as many commands as were counted.
LEMMA EndOfLineStep == ASSUME ShInv, EndOfLine PROVE ShInv'
<1>1. PICK ts : ts = IF token # <<>> \/ (input = <<>> /\ mode = "bs")
                     THEN Append(tokens, token \o (IF mode = "bs" THEN <<"bs">> ELSE <<>>))
                     ELSE tokens
  OBVIOUS
<1>2. /\ shPc = "read" /\ iCmd' = 1 /\ cmds' = Split(ts)
      /\ tokens' = <<>> /\ token' = <<>> /\ mode' = "top"
      /\ input' = IF input = <<>> THEN input ELSE Tail(input)
      /\ \/ shPc' = "overrun"
         \/ shPc' = CASE Len(Split(ts)) > cmd_count \/ Split(ts)[1] = <<>> -> "fault"
                      [] Len(Split(ts)) <= cmd_count /\ Split(ts)[1] # <<>> ->
                            IF Split(ts)[1][1] = <<"exit", "nl">> THEN "exited"
                            ELSE IF cmd_count = 1 THEN "single" ELSE "pipe"
      /\ UNCHANGED <<line, cmd_count, kids>>
  BY <1>1 DEF EndOfLine
<1>3. /\ tokens \in Seq(Seq(Letters)) /\ token \in Seq(Letters) /\ input \in Seq(STRING)
      /\ line \in Seq(STRING) /\ cmd_count \in Nat /\ cmd_count >= 1
  BY DEF ShInv, ParseInv, ControlInv
<1>4. ts \in Seq(Seq(Letters))
  <2>0. <<"bs">> \in Seq(Letters) /\ <<>> \in Seq(Letters)
    BY DEF Letters
  <2>1. PICK e \in Seq(Letters) : e = IF mode = "bs" THEN <<"bs">> ELSE <<>>
    BY <2>0, Zenon
  <2>2. token \o e \in Seq(Letters)
    BY <1>3, ConcatProperties
  <2>3. Append(tokens, token \o e) \in Seq(Seq(Letters))
    BY <1>3, <2>2, AppendProperties
  <2>4. QED
    BY <1>1, <1>3, <2>1, <2>3
<1>5. Len(Split(ts)) = Cardinality(Bars(ts)) + 1 /\ Cardinality(Bars(ts)) \in Nat
  BY <1>4, SplitFacts, BarsFacts
<1>6. /\ shPc' \in {"overrun", "fault", "exited", "single", "pipe"}
      /\ shPc' = "single" => cmd_count = 1
      /\ shPc' = "fault" => Len(Split(ts)) > cmd_count \/ Split(ts)[1] = <<>>
  <2>0. CASE shPc' = "overrun"
    BY <2>0
  <2>1. CASE shPc' # "overrun" /\ (Len(Split(ts)) > cmd_count \/ Split(ts)[1] = <<>>)
    BY <1>2, <2>1
  <2>2. CASE shPc' # "overrun" /\ ~(Len(Split(ts)) > cmd_count \/ Split(ts)[1] = <<>>)
    <3>1. Len(Split(ts)) <= cmd_count /\ Split(ts)[1] # <<>>
      BY <1>3, <1>5, <2>2
    <3>2. shPc' = IF Split(ts)[1][1] = <<"exit", "nl">> THEN "exited"
                  ELSE IF cmd_count = 1 THEN "single" ELSE "pipe"
      BY <1>2, <2>2, <3>1
    <3>3. QED
      BY <3>2
  <2>3. QED
    BY <2>0, <2>1, <2>2
<1>7. ControlInv'
  BY <1>2, <1>3, <1>5, <1>6 DEF ControlInv
<1>8. ParseInv'
  <2>1. input' \in Seq(STRING)
    <3>1. input # <<>> => Tail(input) \in Seq(STRING)
      BY <1>3
    <3>2. QED
      BY <1>2, <1>3, <3>1
  <2>2. QED
    BY <1>2, <1>3, <1>6, <2>1 DEF ParseInv
<1>9. PlainLineWorks'
  <2>1. SUFFICES ASSUME PlainLine, line # <<>>, line[1] # "|"
                 PROVE  Len(Split(ts)) = cmd_count /\ Split(ts)[1] # <<>>
    <3>1. PlainLine' <=> PlainLine
      BY <1>2 DEF PlainLine
    <3>2. ASSUME Len(Split(ts)) = cmd_count, Split(ts)[1] # <<>> PROVE shPc' # "fault"
      BY <1>3, <1>6, <3>2
    <3>3. QED
      BY <1>2, <3>1, <3>2 DEF PlainLineWorks
  <2>2. Words
    BY <1>2, <2>1 DEF ShInv, ParseInv
  <2>3. /\ mode # "bs"
        /\ cmd_count = Cardinality(Bars(tokens)) + (IF token = <<"|">> THEN 2 ELSE 1)
        /\ tokens # <<>> => tokens[1] # <<"|">>
        /\ tokens = <<>> => token \notin {<<>>, <<"|">>}
    BY <2>1, <2>2 DEF Words
  <2>4. ts = IF token # <<>> THEN Append(tokens, token) ELSE tokens
    <3>1. token \o <<>> = token
      BY <1>3
    <3>2. QED
      BY <1>1, <2>3, <3>1
  <2>5. Cardinality(Bars(ts)) + 1 = cmd_count
    <3>1. PICK n \in Nat : n = Cardinality(Bars(tokens))
      BY <1>3, BarsFacts
    <3>2. CASE token # <<>>
      <4>1. Cardinality(Bars(ts)) = n + (IF token = <<"|">> THEN 1 ELSE 0)
        BY <1>3, <2>4, <3>1, <3>2, BarsFacts
      <4>2. QED
        BY <2>3, <3>1, <4>1
    <3>3. CASE token = <<>>
      <4>1. ts = tokens /\ token # <<"|">>
        BY <2>4, <3>3
      <4>2. QED
        BY <2>3, <3>1, <4>1
    <3>4. QED
      BY <3>2, <3>3
  <2>6. ts # <<>> /\ ts[1] # <<"|">>
    <3>1. CASE tokens = <<>>
      <4>1. ts = Append(<<>>, token) /\ token # <<"|">>
        BY <2>3, <2>4, <3>1
      <4>2. ts[1] = token /\ ts # <<>>
        BY <1>3, <4>1
      <4>3. QED
        BY <4>1, <4>2
    <3>2. CASE tokens # <<>>
      <4>1. Len(tokens) \in Nat /\ Len(tokens) >= 1 /\ 1 \in 1 .. Len(tokens)
        BY <1>3, <3>2, EmptySeq
      <4>2. CASE ts = tokens
        BY <2>3, <3>2, <4>2
      <4>3. CASE ts = Append(tokens, token)
        <5>1. ts[1] = tokens[1] /\ Len(ts) = Len(tokens) + 1
          BY <1>3, <4>1, <4>3, AppendProperties
        <5>2. ts # <<>>
          BY <1>4, <4>1, <5>1, EmptySeq
        <5>3. QED
          BY <2>3, <3>2, <5>1, <5>2
      <4>4. QED
        BY <2>4, <4>2, <4>3
    <3>3. QED
      BY <3>1, <3>2
  <2>7. QED
    BY <1>4, <1>5, <2>5, <2>6, SplitFacts
<1>10. KidsInv'
  <2>1. kids = {} /\ kids' = {}
    BY <1>2 DEF ShInv, KidsInv
  <2>2. IsFiniteSet({}) /\ Cardinality({}) = 0 /\ 0 <= 1 - 1
    BY FS_EmptySet
  <2>3. QED
    BY <1>2, <1>6, <2>1, <2>2 DEF KidsInv
<1>11. QED
  BY <1>7, <1>8, <1>9, <1>10 DEF ShInv

\* What a character does to the tokens.
LEMMA ReadTypes ==
    ASSUME ShInv, NEW c \in STRING, ReadTop(c) \/ ReadQuoted(c) \/ ReadEscaped(c)
    PROVE  /\ tokens' \in Seq(Seq(Letters)) /\ token' \in Seq(Letters)
           /\ cmd_count' \in Nat /\ cmd_count' >= 1
<1>1. /\ tokens \in Seq(Seq(Letters)) /\ token \in Seq(Letters)
      /\ cmd_count \in Nat /\ cmd_count >= 1
  BY DEF ShInv, ParseInv, ControlInv
<1>2. c \in Letters /\ "bs" \in Letters
  BY DEF Letters
<1>3. /\ Append(tokens, token) \in Seq(Seq(Letters)) /\ <<>> \in Seq(Letters)
      /\ Append(token, c) \in Seq(Letters) /\ Append(token, "bs") \in Seq(Letters)
      /\ cmd_count + 1 \in Nat /\ cmd_count + 1 >= 1
  BY <1>1, <1>2
<1>4. Push \/ Add(c) \/ Add("bs") \/ Skip
  BY DEF ReadTop, ReadQuoted, ReadEscaped, Bar
<1>5. cmd_count' = cmd_count \/ cmd_count' = cmd_count + 1
  BY DEF ReadTop, ReadQuoted, ReadEscaped, Bar
<1>6. tokens' \in Seq(Seq(Letters)) /\ token' \in Seq(Letters)
  BY <1>1, <1>3, <1>4 DEF Push, Add, Skip
<1>7. QED
  BY <1>1, <1>3, <1>5, <1>6

\* A plain line was plain before its last character, which came outside of quotes.
LEMMA PlainBefore ==
    ASSUME ParseInv, NEW c \in STRING, line' = Append(line, c), PlainLine'
    PROVE  /\ PlainLine /\ c \in {"a", "exit", "sp", "|"}
           /\ line # <<>> /\ c = "|" => line[Len(line)] = "sp"
           /\ line # <<>> /\ line[Len(line)] = "|" => c = "sp"
           /\ line' # <<>> /\ line'[Len(line')] = c
           /\ line = <<>> => line'[1] = c
           /\ line # <<>> => line'[1] = line[1]
<1>1. PICK m : m = line'
  OBVIOUS
<1>2. PICK n \in Nat : n = Len(line)
  BY DEF ParseInv
<1>3. /\ m \in Seq(STRING) /\ Len(m) = n + 1 /\ DOMAIN m = 1 .. n + 1 /\ DOMAIN line = 1 .. n
      /\ m[n + 1] = c /\ \A i \in 1 .. n : m[i] = line[i]
  BY <1>1, <1>2, AppendProperties DEF ParseInv
<1>4. /\ \A i \in 1 .. n + 1 : m[i] \in {"a", "exit", "sp", "|"}
      /\ \A i \in 1 .. n + 1 : m[i] = "|" => /\ i > 1 => m[i - 1] = "sp"
                                             /\ i < n + 1 => m[i + 1] = "sp"
  BY <1>1, <1>3 DEF PlainLine
<1>5. n + 1 \in 1 .. n + 1 /\ \A i \in 1 .. n : i \in 1 .. n + 1
  OBVIOUS
<1>6. PlainLine
  <2>1. \A i \in 1 .. n : line[i] \in {"a", "exit", "sp", "|"}
    BY <1>3, <1>4, <1>5
  <2>2. ASSUME NEW i \in 1 .. n, line[i] = "|"
        PROVE  (i > 1 => line[i - 1] = "sp") /\ (i < n => line[i + 1] = "sp")
    <3>1. /\ i > 1 => i - 1 \in 1 .. n
          /\ i < n => i + 1 \in 1 .. n /\ i < n + 1
      OBVIOUS
    <3>2. m[i] = "|" /\ i \in 1 .. n + 1
      BY <1>3, <1>5, <2>2
    <3>3. QED
      BY <1>3, <1>4, <3>1, <3>2
  <2>3. QED
    BY <1>2, <1>3, <2>1, <2>2 DEF PlainLine
<1>7. c \in {"a", "exit", "sp", "|"}
  BY <1>3, <1>4, <1>5
<1>8. line # <<>> => n >= 1 /\ n \in 1 .. n /\ 1 \in 1 .. n
  <2>1. line # <<>> => n # 0
    BY <1>2, EmptySeq DEF ParseInv
  <2>2. QED
    BY <2>1
<1>9. ASSUME line # <<>>, c = "|" PROVE line[Len(line)] = "sp"
  <2>1. m[n + 1] = "|" /\ n + 1 > 1 /\ (n + 1) - 1 = n
    BY <1>3, <1>8, <1>9
  <2>2. m[n] = "sp"
    BY <1>4, <1>5, <2>1
  <2>3. QED
    BY <1>2, <1>3, <1>8, <1>9, <2>2
<1>10. ASSUME line # <<>>, line[Len(line)] = "|" PROVE c = "sp"
  <2>1. m[n] = "|" /\ n \in 1 .. n + 1 /\ n < n + 1
    BY <1>2, <1>3, <1>5, <1>8, <1>10
  <2>2. m[n + 1] = "sp"
    BY <1>4, <2>1
  <2>3. QED
    BY <1>3, <2>2
<1>11. m # <<>> /\ m[Len(m)] = c
  BY <1>3, EmptySeq
<1>12. line = <<>> => m[1] = c
  <2>1. line = <<>> => n = 0
    BY <1>2, EmptySeq
  <2>2. ASSUME n = 0 PROVE m[1] = c
    <3>1. n + 1 = 1
      BY <2>2
    <3>2. QED
      BY <1>3, <3>1
  <2>3. QED
    BY <2>1, <2>2
<1>13. line # <<>> => m[1] = line[1]
  BY <1>3, <1>8
<1>14. QED
  BY <1>1, <1>6, <1>7, <1>9, <1>10, <1>11, <1>12, <1>13

\* A token that ends with another character is not a bar.
LEMMA NotBar ==
    ASSUME NEW t \in Seq(Letters), NEW c \in STRING, c # "|"
    PROVE  Append(t, c) # <<"|">> /\ Append(t, c) # <<>>
<1>1. PICK u : u = Append(t, c)
  OBVIOUS
<1>2. Len(t) \in Nat /\ Len(u) = Len(t) + 1 /\ u[Len(t) + 1] = c
  BY <1>1, AppendProperties DEF Letters
<1>3. PICK b : b = <<"|">>
  OBVIOUS
<1>4. Len(b) = 1 /\ b[1] = "|"
  BY <1>3
<1>5. u # b
  <2>1. SUFFICES ASSUME u = b PROVE FALSE
    OBVIOUS
  <2>2. Len(t) + 1 = 1
    BY <1>2, <1>4, <2>1
  <2>3. QED
    BY <1>2, <1>4, <2>1, <2>2
<1>6. u # <<>>
  <2>1. Len(u) # 0
    BY <1>2
  <2>2. QED
    BY <2>1
<1>7. QED
  BY <1>1, <1>3, <1>5, <1>6

\* A character of a plain line keeps the count of the bars.
LEMMA ReadCharStep == ASSUME ShInv, ReadChar PROVE ShInv'
<1>1. PICK c : c = Head(input)
  OBVIOUS
<1>2. /\ shPc = "read" /\ shPc' = "read" /\ input # <<>>
      /\ ReadTop(c) \/ ReadQuoted(c) \/ ReadEscaped(c)
      /\ input' = Tail(input) /\ line' = Append(line, c)
      /\ UNCHANGED <<cmds, execVars>>
  BY <1>1 DEF ReadChar
<1>3. /\ tokens \in Seq(Seq(Letters)) /\ token \in Seq(Letters) /\ input \in Seq(STRING)
      /\ line \in Seq(STRING)
  BY DEF ShInv, ParseInv
<1>4. c \in STRING /\ input' \in Seq(STRING) /\ line' \in Seq(STRING)
  BY <1>1, <1>2, <1>3
<1>5. iCmd' = iCmd /\ kids' = kids /\ cmds' = cmds
  BY <1>2 DEF execVars
<1>6. /\ tokens' \in Seq(Seq(Letters)) /\ token' \in Seq(Letters)
      /\ cmd_count' \in Nat /\ cmd_count' >= 1
  BY <1>2, <1>4, ReadTypes
<1>7. ControlInv'
  BY <1>2, <1>5, <1>6 DEF ShInv, ControlInv
<1>8. PlainLineWorks'
  BY <1>2 DEF PlainLineWorks
<1>9. KidsInv'
  BY <1>2, <1>5 DEF ShInv, KidsInv
<1>10. ASSUME PlainLine' PROVE Words'
  <2>1. /\ PlainLine /\ c \in {"a", "exit", "sp", "|"}
        /\ line # <<>> /\ c = "|" => line[Len(line)] = "sp"
        /\ line # <<>> /\ line[Len(line)] = "|" => c = "sp"
        /\ line' # <<>> /\ line'[Len(line')] = c
        /\ line = <<>> => line'[1] = c
        /\ line # <<>> => line'[1] = line[1]
    BY <1>2, <1>4, <1>10, PlainBefore DEF ShInv
  <2>2. /\ mode = "top"
        /\ cmd_count = Cardinality(Bars(tokens)) + (IF token = <<"|">> THEN 2 ELSE 1)
        /\ line = <<>> => tokens = <<>> /\ token = <<>>
        /\ line # <<>> => /\ line[Len(line)] = "sp" => token = <<>>
                          /\ token = <<"|">> => line[Len(line)] = "|"
                          /\ line[1] # "|" /\ tokens # <<>> => tokens[1] # <<"|">>
                          /\ line[1] # "|" /\ tokens = <<>> => token \notin {<<>>, <<"|">>}
    BY <1>2, <2>1 DEF ShInv, ParseInv, Words
  <2>3. ReadTop(c)
    BY <1>2, <2>2 DEF ReadQuoted, ReadEscaped
  <2>4. mode' = "top"
    BY <2>1, <2>3 DEF ReadTop
  <2>5. PICK n \in Nat : n = Cardinality(Bars(tokens))
    BY <1>3, BarsFacts
  <2>6. <<>> # <<"|">>
    OBVIOUS
  <2>7. CASE c = "sp"
    <3>1. tokens' = Append(tokens, token) /\ token' = <<>> /\ cmd_count' = cmd_count
      BY <2>3, <2>7 DEF ReadTop, Push
    <3>2. Cardinality(Bars(tokens')) = n + (IF token = <<"|">> THEN 1 ELSE 0)
      BY <1>3, <2>5, <3>1, BarsFacts
    <3>3. cmd_count' = Cardinality(Bars(tokens')) + 1
      BY <2>2, <2>5, <3>1, <3>2
    <3>4. Len(tokens) \in Nat /\ Len(tokens') = Len(tokens) + 1 /\ tokens' # <<>>
          /\ \A i \in 1 .. Len(tokens) : tokens'[i] = tokens[i]
      <4>1. PICK u : u = Append(tokens, token)
        OBVIOUS
      <4>2. /\ Len(tokens) \in Nat /\ Len(u) = Len(tokens) + 1
            /\ \A i \in 1 .. Len(tokens) : u[i] = tokens[i]
        BY <1>3, <4>1, AppendProperties
      <4>3. u # <<>>
        <5>1. Len(u) # 0
          BY <4>2
        <5>2. QED
          BY <5>1
      <4>4. QED
        BY <3>1, <4>1, <4>2, <4>3
    <3>5. line'[1] # "|" => tokens'[1] # <<"|">>
      <4>1. CASE tokens = <<>>
        <5>1. tokens'[1] = token
          BY <1>3, <3>1, <4>1
        <5>2. line = <<>> => token = <<>>
          BY <2>2
        <5>3. line # <<>> /\ line[1] # "|" => token # <<"|">>
          BY <2>2, <4>1
        <5>4. QED
          BY <2>1, <2>6, <5>1, <5>2, <5>3
      <4>2. CASE tokens # <<>>
        <5>1. line # <<>>
          BY <2>2, <4>2
        <5>2. 1 \in 1 .. Len(tokens)
          BY <1>3, <4>2, EmptySeq
        <5>3. QED
          BY <2>1, <2>2, <3>4, <4>2, <5>1, <5>2
      <4>3. QED
        BY <4>1, <4>2
    <3>6. QED
      BY <2>1, <2>4, <2>6, <3>1, <3>3, <3>4, <3>5 DEF Words
  <2>8. CASE c = "|"
    <3>1. tokens' = tokens /\ token' = Append(token, "|") /\ cmd_count' = cmd_count + 1
      BY <2>3, <2>8 DEF ReadTop, Bar, Add
    <3>2. token = <<>>
      BY <2>1, <2>2, <2>8
    <3>3. token' = <<"|">>
      BY <3>1, <3>2
    <3>4. cmd_count' = Cardinality(Bars(tokens')) + 2
      BY <2>2, <2>5, <2>6, <3>1, <3>2
    <3>5. line'[1] # "|" => /\ tokens' # <<>> => tokens'[1] # <<"|">>
                            /\ tokens' # <<>>
      BY <2>1, <2>2, <2>8, <3>1, <3>2
    <3>6. QED
      BY <2>1, <2>4, <2>6, <2>8, <3>3, <3>4, <3>5 DEF Words
  <2>9. CASE c \in {"a", "exit"}
    <3>1. tokens' = tokens /\ token' = Append(token, c) /\ cmd_count' = cmd_count
      BY <2>3, <2>9 DEF ReadTop, Add
    <3>2. token' # <<"|">> /\ token' # <<>>
      BY <1>3, <1>4, <2>9, <3>1, NotBar
    <3>3. token # <<"|">>
      BY <2>1, <2>2, <2>6, <2>9
    <3>4. cmd_count' = Cardinality(Bars(tokens')) + 1
      BY <2>2, <2>5, <3>1, <3>3
    <3>5. line'[1] # "|" /\ tokens' # <<>> => tokens'[1] # <<"|">>
      BY <2>1, <2>2, <3>1
    <3>6. QED
      BY <2>1, <2>4, <2>9, <3>2, <3>4, <3>5 DEF Words
  <2>10. QED
    BY <2>1, <2>7, <2>8, <2>9
<1>11. ParseInv'
  BY <1>2, <1>4, <1>6, <1>10 DEF ParseInv
<1>12. QED
  BY <1>7, <1>8, <1>9, <1>11 DEF ShInv

----------------------------------------------------------------------------
\* At the start nothing is read, and there is no child.
LEMMA ShellInitStep == ASSUME ShellInit("read", Seq(STRING)) PROVE ShInv
<1>1. /\ input \in Seq(STRING) /\ line = <<>> /\ shPc = "read" /\ mode = "top"
      /\ tokens = <<>> /\ token = <<>> /\ cmd_count = 1 /\ cmds = <<>> /\ iCmd = 0
      /\ kids = {}
  BY DEF ShellInit
<1>2. ControlInv
  BY <1>1 DEF ControlInv
<1>3. ParseInv
  <2>1. Cardinality(Bars(tokens)) = 0
    <3>1. tokens \in Seq(Seq(Letters))
      BY <1>1
    <3>2. QED
      BY <1>1, <3>1, BarsFacts
  <2>2. token # <<"|">>
    BY <1>1
  <2>3. Words
    BY <1>1, <2>1, <2>2 DEF Words
  <2>4. QED
    BY <1>1, <2>3 DEF ParseInv
<1>4. PlainLineWorks
  BY <1>1 DEF PlainLineWorks
<1>5. KidsInv
  BY <1>1, FS_EmptySet DEF KidsInv
<1>6. QED
  BY <1>2, <1>3, <1>4, <1>5 DEF ShInv

\* Every step of the shell and of its children keeps the invariant.
LEMMA ShellNextStep == ASSUME ShInv, [ShellNext]_shVars PROVE ShInv'
<1>1. CASE ReadChar
  BY <1>1, ReadCharStep
<1>2. CASE EndOfLine
  BY <1>2, EndOfLineStep
<1>3. CASE MakePipe \/ DupInput
  BY <1>3, PipeAndDupStep
<1>4. CASE Wait
  BY <1>4, WaitStep
<1>5. CASE Prompt
  BY <1>5, PromptStep
<1>6. ASSUME NEW ok \in BOOLEAN, NEW does \in Does, ForkSingle(ok, does) \/ ForkNext(ok, does)
      PROVE  ShInv'
  BY <1>6, ForkSingleStep, ForkNextStep
<1>7. ASSUME NEW k \in kids, KidEnds(k) PROVE ShInv'
  BY <1>7, KidEndsStep
<1>8. CASE UNCHANGED shVars
  <2>1. /\ input' = input /\ line' = line /\ mode' = mode /\ tokens' = tokens /\ token' = token
        /\ cmd_count' = cmd_count /\ cmds' = cmds /\ shPc' = shPc
    BY <1>8 DEF shVars, parseVars
  <2>2. iCmd' = iCmd /\ kids' = kids
    BY <1>8 DEF shVars, execVars
  <2>3. PlainLine' <=> PlainLine
    BY <2>1 DEF PlainLine
  <2>4. ControlInv'
    BY <2>1, <2>2 DEF ShInv, ControlInv
  <2>5. Words => Words'
    BY <2>1 DEF Words
  <2>6. ParseInv'
    BY <2>1, <2>3, <2>5 DEF ShInv, ParseInv
  <2>7. PlainLineWorks'
    BY <2>1, <2>3 DEF ShInv, PlainLineWorks
  <2>8. KidsInv'
    BY <2>1, <2>2 DEF ShInv, KidsInv
  <2>9. QED
    BY <2>4, <2>6, <2>7, <2>8 DEF ShInv
<1>9. QED
  BY <1>1, <1>2, <1>3, <1>4, <1>5, <1>6, <1>7, <1>8 DEF ShellNext, ShellStep

\* The invariant of the shell holds for any input.
THEOREM ShellInvariance == ShellSpec => []ShInv
<1>1. ShellInit("read", Seq(STRING)) => ShInv
  BY ShellInitStep
<1>2. ShInv /\ [ShellNext]_shVars => ShInv'
  BY ShellNextStep
<1>3. QED
  BY <1>1, <1>2, PTL DEF ShellSpec

\* However long a plain line is, parse_line fills in as many commands as it counts, and
\* main does not run over them.
THEOREM PlainLineWorksHolds == ShellSpec => []PlainLineWorks
<1>1. ShInv => PlainLineWorks
  BY DEF ShInv
<1>2. QED
  BY <1>1, ShellInvariance, PTL

\* Whatever the lines before were, whichever forks failed and in whatever order the
\* children end, no child is left when the shell asks for the next line.
THEOREM NoneLeftHolds == ShellSpec => []NoneLeft
<1>1. ShInv => NoneLeft
  BY DEF ShInv, KidsInv, NoneLeft
<1>2. QED
  BY <1>1, ShellInvariance, PTL

\* The shell's parser and its children together, for any input.
THEOREM ShellSafeHolds == ShellSpec => []ShellSafe
<1>1. PlainLineWorks /\ NoneLeft => ShellSafe
  BY DEF ShellSafe
<1>2. QED
  BY <1>1, PlainLineWorksHolds, NoneLeftHolds, PTL
=============================================================================
