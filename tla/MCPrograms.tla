----------------------------- MODULE MCPrograms -----------------------------
(* Model checking the programs that stand alone: the sort and the shell of  *)
(* the course, the four servers of the lecture on multiplexing, and of the  *)
(* afina materials the two epoll programs and the readers-writer lock.  A   *)
(* behaviour runs one of them; the others are off.                          *)
EXTENDS HwSort, Shell, LectureServers, EpollServers, SharedMutex

CONSTANTS Apis, Progs,
          Programs    \* the programs to run

Nums(n, k) == UNION {[1..m -> 1..k] : m \in 0..n}

\* One file of five numbers, two of up to three, three of up to two, and four.
SortInputs ==
  {<<s>> : s \in [1..5 -> 1..4]} \cup {<<s, r>> : s, r \in Nums(3, 2)}
    \cup {<<s, r, u>> : s, r, u \in Nums(2, 2)} \cup {<<<<2, 1, 3>>, <<4, 1>>, <<2, 2>>, <<1, 2>>>>}

Chars == {"a", "exit", "sp", "|", "dq", "sq", "bs", "nl", ">"}
Pipeline(n) == FlattenSeq([i \in 1..n |-> IF i = 1 THEN <<"a">> ELSE <<"sp", "|", "sp", "a">>])

\* Every input of up to three characters, of up to four of the commonest ones, and
\* lines with longer pipelines.
ShellInputs ==
  UNION {[1..n -> Chars] : n \in 0..3} \cup [1..4 -> {"a", "sp", "|", "dq", "nl"}]
    \cup {Pipeline(3), Pipeline(2) \o <<"nl">> \o Pipeline(3),
          Pipeline(2) \o <<"nl", "a", "nl">> \o Pipeline(3),
          <<"a", "|", "a">>, <<"a", "sp", "dq", "|", "dq">>}

\* The first client sends more than a buffer holds, the others one byte.
MCMaxBytes == [c \in Peers |-> IF c = 1 THEN 3 ELSE 1]

\* The programs that do not run.
Off(names) ==
  /\ "sort" \in names => SortInit("off", {<<>>})
  /\ "shell" \in names => ShellInit("off", {<<>>})
  /\ "lec" \in names => LecInit("off", {"select"})
  /\ "epoll" \in names => EpInit("off", {"echo"})
  /\ "mutex" \in names => SmInit("off")

MCInit ==
  \/ "sort" \in Programs /\ SortInit("load", SortInputs) /\ Off({"shell", "lec", "epoll", "mutex"})
  \/ "shell" \in Programs /\ ShellInit("read", ShellInputs) /\ Off({"sort", "lec", "epoll", "mutex"})
  \/ "lec" \in Programs /\ LecInit("setup", Apis) /\ Off({"sort", "shell", "epoll", "mutex"})
  \/ "epoll" \in Programs /\ EpInit("setup", Progs) /\ Off({"sort", "shell", "lec", "mutex"})
  \/ "mutex" \in Programs /\ SmInit("idle") /\ Off({"sort", "shell", "lec", "epoll"})

MCNext ==
  \/ SortNext /\ UNCHANGED <<shVars, lecVars, epVars, smVars>>
  \/ ShellNext /\ UNCHANGED <<sortVars, lecVars, epVars, smVars>>
  \/ LecNext /\ UNCHANGED <<sortVars, shVars, epVars, smVars>>
  \/ EpNext /\ UNCHANGED <<sortVars, shVars, lecVars, smVars>>
  \/ SmNext /\ UNCHANGED <<sortVars, shVars, lecVars, epVars>>

MCSpec ==
  /\ MCInit
  /\ [][MCNext]_<<sortVars, shVars, lecVars, epVars, smVars>>
  /\ SortFairness /\ ShellFairness /\ LecFairness /\ EpFairness /\ SmFairness
=============================================================================
