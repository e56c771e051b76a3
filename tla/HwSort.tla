------------------------------- MODULE HwSort -------------------------------
(***************************************************************************)
(* Course work 1 (sysprog/1/hw_sort.cpp): every file is sorted by a        *)
(* coroutine of its own (an iterative quicksort whose stack has as many    *)
(* entries as the file has numbers), the coroutines switch round-robin by  *)
(* setjmp and longjmp, and the sorted arrays are merged into out.txt.      *)
(*                                                                         *)
(* The coroutines share nothing but curT and is_finished, so the switches  *)
(* behind every statement are collapsed: one step of a task is one test of *)
(* a loop with what follows it.  The build has no optimisation, so the     *)
(* local variables of main keep their values over a longjmp.               *)
(***************************************************************************)
EXTENDS Integers, Sequences, SequencesExt

VARIABLES
    files,      \* argv: the numbers in each file
    sortPc,     \* where main is
    iMain,      \* main: the variable i of the loop over the files
    N_all,      \* main: how many numbers were read
    curT,       \* the running task
    task,       \* struct task of every file; the top of stack is its length
    heap,       \* the arrays in the order of their allocation
    arrs,       \* merge: the argument arrs, as an offset into tasks
    outTxt      \* out.txt

sortVars == <<files, sortPc, iMain, N_all, curT, task, heap, arrs, outTxt>>

Count == Len(files)         \* task_count
Tasks == 0 .. Count - 1

NoTask == [pos |-> "none", is_finished |-> FALSE, arr |-> 0, stack |-> <<>>,
           l |-> 0, h |-> 0, x |-> 0, i |-> 0, j |-> 0, N |-> 0]

SortInit(pc0, inputs) ==
    /\ files \in inputs
    /\ sortPc = pc0
    /\ iMain = 0
    /\ N_all = 0
    /\ curT = 0
    /\ task = [t \in Tasks |-> NoTask]
    /\ heap = <<>>
    /\ arrs = 0
    /\ outTxt = <<>>

SortFault ==
    /\ sortPc' = "fault"
    /\ UNCHANGED <<files, iMain, N_all, curT, task, heap, arrs, outTxt>>

\* A file that cannot be opened ends the program.
OpenFails ==
    /\ sortPc = "load" /\ iMain < Count
    /\ sortPc' = "no_file"
    /\ UNCHANGED <<files, iMain, N_all, curT, task, heap, arrs, outTxt>>

\* One round of the loop over the files: read the numbers, push the whole array
\* on the stack of N entries, and set the entry point of the coroutine.
LoadFile ==
    LET nums == files[iMain + 1]
        N == Len(nums)
    IN  /\ sortPc = "load" /\ iMain < Count
        /\ IF N < 2
           THEN SortFault
           ELSE /\ N_all' = N_all + N
                /\ heap' = Append(heap, [data |-> nums, live |-> TRUE])
                /\ task' = [task EXCEPT ![iMain] =
                       [NoTask EXCEPT !.pos = "entry", !.arr = Len(heap) + 1,
                                      !.stack = <<0, N - 1>>, !.h = N - 1, !.N = N]]
                /\ iMain' = iMain + 1
                /\ UNCHANGED <<files, sortPc, curT, arrs, outTxt>>

\* Mutant: i is held in a register that longjmp restores.
ResumedI_Mutant(t) == t + 1

\* i after the longjmp into the loop of main and the i++ that follows.
ResumedI(t) == iMain + 1

\* check_resched: the next task goes on where it stopped, for the first time
\* behind the setjmp in the loop of main.
Resched(tasks) ==
    LET t == (curT + 1) % Count
    IN  /\ task' = tasks
        /\ curT' = t
        /\ IF tasks[t].pos = "entry"
           THEN sortPc' = "load" /\ iMain' = ResumedI(t)
           ELSE sortPc' = "coro" /\ iMain' = iMain
        /\ UNCHANGED <<files, N_all, arrs, outTxt>>

\* The call of q_sort_coro behind the loop, by whichever task came here.
EnterCoro ==
    /\ sortPc = "load" /\ iMain >= Count
    /\ Resched([task EXCEPT ![curT].pos = "loop"])
    /\ UNCHANGED heap

T == task[curT]
Arr(t) == heap[task[t].arr].data
At(pos) == sortPc = "coro" /\ T.pos = pos

\* Pop h and l, choose the pivot.
PopSegment ==
    LET h == Last(T.stack)
        l == T.stack[Len(T.stack) - 1]
    IN  /\ At("loop") /\ T.stack # <<>>
        /\ Resched([task EXCEPT ![curT] =
               [T EXCEPT !.pos = "part", !.stack = SubSeq(@, 1, Len(@) - 2), !.h = h,
                         !.l = l, !.x = Arr(curT)[h + 1], !.i = l - 1, !.j = l]])
        /\ UNCHANGED heap

Swap(s, a, b) == [s EXCEPT ![a + 1] = s[b + 1], ![b + 1] = s[a + 1]]

\* One round of the partition loop.
PartitionStep ==
    LET small == Arr(curT)[T.j + 1] <= T.x
        i == IF small THEN T.i + 1 ELSE T.i
    IN  /\ At("part") /\ T.j <= T.h - 1
        /\ heap' = IF small
                   THEN [heap EXCEPT ![T.arr].data = Swap(@, i, T.j)]
                   ELSE heap
        /\ Resched([task EXCEPT ![curT].i = i, ![curT].j = T.j + 1])

\* Mutant: a right side of two elements is not pushed.
Pushed_Mutant(l, p, h) ==
    (IF p - 1 > l THEN <<l, p - 1>> ELSE <<>>)
        \o (IF p + 2 < h THEN <<p + 1, h>> ELSE <<>>)

\* What is pushed after the partition: the sides of the pivot that have two
\* elements or more.
Pushed(l, p, h) ==
    (IF p - 1 > l THEN <<l, p - 1>> ELSE <<>>)
        \o (IF p + 1 < h THEN <<p + 1, h>> ELSE <<>>)

PlacePivot ==
    LET p == T.i + 1
        stack == T.stack \o Pushed(T.l, p, T.h)
    IN  /\ At("part") /\ T.j > T.h - 1
        /\ IF Len(stack) > T.N
           THEN SortFault
           ELSE /\ heap' = [heap EXCEPT ![T.arr].data = Swap(@, p, T.h)]
                /\ Resched([task EXCEPT ![curT].pos = "loop", ![curT].stack = stack])

Finish ==
    /\ At("loop") /\ T.stack = <<>>
    /\ task' = [task EXCEPT ![curT].pos = "wait", ![curT].is_finished = TRUE]
    /\ UNCHANGED <<files, sortPc, iMain, N_all, curT, heap, arrs, outTxt>>

AllFinished == \A t \in Tasks : task[t].is_finished

WaitForOthers ==
    /\ At("wait") /\ ~AllFinished
    /\ Resched(task)
    /\ UNCHANGED heap

CoroReturns ==
    /\ At("wait") /\ AllFinished
    /\ sortPc' = "merge"
    /\ UNCHANGED <<files, iMain, N_all, curT, task, heap, arrs, outTxt>>

----------------------------------------------------------------------------
\* The loops of merge: two sorted arrays into one.
Merged(a, b) ==
    LET from[i \in 1 .. Len(a) + 1, j \in 1 .. Len(b) + 1] ==
            CASE i > Len(a) -> SubSeq(b, j, Len(b))
              [] i <= Len(a) /\ j > Len(b) -> SubSeq(a, i, Len(a))
              [] OTHER -> IF a[i] <= b[j] THEN <<a[i]>> \o from[i + 1, j]
                                          ELSE <<b[j]>> \o from[i, j + 1]
    IN  from[1, 1]

\* merge(k, arrs): the first two arrays go into tmp, which takes the place of
\* the last one, and that one the place of the second; then merge(k-1, arrs+1).
MergeStep ==
    LET next == arrs + 1
        last == Count - 1
        tmp == Merged(Arr(arrs), Arr(next))
    IN  /\ sortPc = "merge" /\ arrs < last
        /\ heap' = Append([heap EXCEPT ![task[next].arr].live = FALSE],
                          [data |-> tmp, live |-> TRUE])
        /\ task' = [task EXCEPT ![next].arr = task[last].arr, ![next].N = task[last].N,
                                ![last].arr = Len(heap) + 1, ![last].N = Len(tmp)]
        /\ arrs' = next
        /\ UNCHANGED <<files, sortPc, iMain, N_all, curT, outTxt>>

\* Write N_all numbers of the last array and free every array.
WriteOut ==
    LET all == Arr(Count - 1)
    IN  /\ sortPc = "merge" /\ arrs = Count - 1
        /\ IF \/ N_all > Len(all)
              \/ \E t \in Tasks : ~heap[task[t].arr].live
              \/ \E t, u \in Tasks : t # u /\ task[t].arr = task[u].arr
           THEN SortFault
           ELSE /\ outTxt' = SubSeq(all, 1, N_all)
                /\ heap' = [b \in DOMAIN heap |->
                       [heap[b] EXCEPT !.live =
                           @ /\ \A t \in Tasks : task[t].arr # b]]
                /\ sortPc' = "done"
                /\ UNCHANGED <<files, iMain, N_all, curT, task, arrs>>

SortNext ==
    \/ OpenFails \/ LoadFile \/ EnterCoro
    \/ PopSegment \/ PartitionStep \/ PlacePivot \/ Finish
    \/ WaitForOthers \/ CoroReturns
    \/ MergeStep \/ WriteOut

\* The program is one thread and runs.
SortFairness == WF_sortVars(SortNext)

----------------------------------------------------------------------------
(* Properties. *)

\* The segments a task has still to sort: those on its stack, and the one it is
\* partitioning.
Pending(t) ==
    {<<task[t].stack[2 * n - 1], task[t].stack[2 * n]>> : n \in 1 .. Len(task[t].stack) \div 2}
        \cup (IF task[t].pos = "part" THEN {<<task[t].l, task[t].h>>} ELSE {})

\* The segments that wait are disjoint and have two elements at least, which is
\* why the stack of N entries suffices, and two numbers in the wrong order are
\* in the same one: what lies outside them is in its final place.
PendingSegments ==
    sortPc \in {"load", "coro"} =>
        \A t \in Tasks : task[t].pos \in {"entry", "loop", "part", "wait"} =>
            /\ \A s \in Pending(t) : 0 <= s[1] /\ s[1] < s[2] /\ s[2] < task[t].N
            /\ \A s, r \in Pending(t) : s = r \/ s[2] < r[1] \/ r[2] < s[1]
            /\ \A a, b \in 0 .. task[t].N - 1 :
                  a < b /\ Arr(t)[a + 1] > Arr(t)[b + 1] =>
                      \E s \in Pending(t) : s[1] <= a /\ b <= s[2]

\* A holds the numbers of F, each as often as F.
Rearranged(A, F) ==
    \E p \in [1 .. Len(F) -> 1 .. Len(F)] :
        /\ \A k, m \in 1 .. Len(F) : p[k] = p[m] => k = m
        /\ \A k \in 1 .. Len(F) : A[k] = F[p[k]]

\* When the merge begins every array holds the numbers of its file, each as often,
\* in order.
ArraysSorted ==
    sortPc = "merge" /\ arrs = 0 =>
        \A t \in Tasks :
            /\ Rearranged(Arr(t), files[t + 1])
            /\ \A a, b \in DOMAIN Arr(t) : a < b => Arr(t)[a] <= Arr(t)[b]

\* Up to the end an array that is not freed belongs to exactly one task, and the
\* array of a task is not freed, although merge frees and moves them between the
\* tasks; at the end all are freed.
ArraysOwned ==
    /\ sortPc \in {"load", "coro", "merge"} =>
          /\ \A t \in Tasks : task[t].pos # "none" => heap[task[t].arr].live
          /\ \A t, u \in Tasks :
                task[t].pos # "none" /\ task[u].pos # "none" /\ t # u
                    => task[t].arr # task[u].arr
          /\ \A b \in DOMAIN heap : heap[b].live => \E t \in Tasks : task[t].arr = b
    /\ sortPc = "done" => \A b \in DOMAIN heap : ~heap[b].live

\* What makes the sort right before its output is written: nothing out of order is
\* forgotten, every array is sorted when the merge begins, and the merge neither
\* loses an array nor frees it twice.
SortSafe == PendingSegments /\ ArraysSorted /\ ArraysOwned

\* Up to the merge the program touches memory that is not its own only when it loads
\* a file with fewer than two numbers: the stack of N entries holds whatever the
\* partition pushes on it.
OnlyShortFilesFault ==
    [][(sortPc \in {"load", "coro"} /\ sortPc' = "fault")
          => (sortPc = "load" /\ Len(files[iMain + 1]) < 2)]_sortVars

Occurrences(s, n) == Len(SelectSeq(s, LAMBDA m : m = n))

\* The program ends, and out.txt then holds the numbers of all files in order,
\* with every array freed once; it touches memory that is not its own only if
\* a file has fewer than two numbers, for which the stack is too short.
SortsAll ==
    sortPc = "load" ~>
        \/ sortPc = "no_file"
        \/ sortPc = "fault" /\ \E f \in DOMAIN files : Len(files[f]) < 2
        \/ /\ sortPc = "done"
           /\ \A n \in 1 .. Len(outTxt) - 1 : outTxt[n] <= outTxt[n + 1]
           /\ Len(outTxt) = Len(FlattenSeq(files))
           /\ \A n \in DOMAIN outTxt :
                 Occurrences(outTxt, outTxt[n]) = Occurrences(FlattenSeq(files), outTxt[n])
           /\ \A b \in DOMAIN heap : ~heap[b].live
=============================================================================
