--------------------------- MODULE ServicesProofs ---------------------------
(***************************************************************************)
(* The two services that afina brings along, each on its own.              *)
(*                                                                         *)
(* The coroutine engine, for any number of coroutines: the list of         *)
(* contexts stays doubly linked, complete and without dangling pointers,   *)
(* and a coroutine that resumes does so on its own stack; that it does not *)
(* (the process crashes) needs a stack that is not shallower than the one  *)
(* it is restored from.  The two need each other: yield follows next of    *)
(* the head, so it restores a context that exists only because the list is *)
(* sound.                                                                  *)
(*                                                                         *)
(* The logging service, for any configuration: select finds the nearest    *)
(* logger, create keeps a pattern without MDC variables, and reopen_all    *)
(* reopens each file in use once and no other.                             *)
(***************************************************************************)
EXTENDS Engine, Logging, FiniteSetTheorems, SequenceTheorems, WellFoundedInduction, TLAPS

(***************************************************************************)
(* The coroutine engine.                                                   *)
(***************************************************************************)

\* While no coroutine runs there is no current one.
IdleInv == ctl \notin {"routine", "crashed"} => cur = Nil

\* Nothing exists before start.
OutsideInv == ctl = "outside" => alive = Nil /\ Ready = {}

\* A context that does not exist has no predecessor.
FreshInv == \A r \in Routine : life[r] = "none" =>
               prev[r] = Nil /\ work[r] = 0

\* A coroutine goes on in its function or in what that has called.
SavedInv == \A r \in Ready : saved[r].depth >= base[r]

IInv == /\ TypeOK /\ DoublyLinked /\ ListComplete /\ OwnStack
        /\ IdleInv /\ OutsideInv /\ FreshInv /\ SavedInv

\* The invariant holds before start is called.
LEMMA InitInv == EngInit => IInv
<1> SUFFICES ASSUME EngInit PROVE IInv
  OBVIOUS
<1>1. Ready = {}
  BY DEF EngInit, Ready
<1>2. ListComplete
  BY <1>1 DEF ListComplete
<1>3. QED
  BY <1>1, <1>2, EngineAssumption DEF EngInit, IInv, TypeOK, DoublyLinked, OwnStack,
     IdleInv, OutsideInv, FreshInv, SavedInv, Ready

\* What Link does to the list, for start and for run.
LEMMA LinkKeepsList ==
    ASSUME TypeOK, DoublyLinked, FreshInv, NEW r \in Routine, Link(r)
    PROVE  /\ DoublyLinked'
           /\ Ready' = Ready \cup {r}
           /\ alive' \in Routine
           /\ next' \in [Routine -> Routine \cup {Nil}]
           /\ prev' \in [Routine -> Routine \cup {Nil}]
           /\ life' \in [Routine -> {"none", "ready", "deleted"}]
           /\ \A s \in Routine : life'[s] = "none" => life[s] = "none" /\ prev'[s] = Nil
<1>1. /\ life[r] = "none"
      /\ life' = [life EXCEPT ![r] = "ready"]
      /\ next' = [next EXCEPT ![r] = alive]
      /\ prev' = IF alive = Nil THEN prev ELSE [prev EXCEPT ![alive] = r]
      /\ alive' = r
  BY DEF Link
<1>2. /\ Ready' = Ready \cup {r}
      /\ r \notin Ready
      /\ prev[r] = Nil
      /\ Ready \subseteq Routine
  BY <1>1 DEF Ready, TypeOK, FreshInv
<1>3. alive # r
  BY <1>2, EngineAssumption DEF DoublyLinked
<1>4. DoublyLinked'
  <2>1. alive' # Nil => alive' \in Ready' /\ prev'[alive'] = Nil
    BY <1>1, <1>2, <1>3, EngineAssumption DEF TypeOK
  <2>2. ASSUME NEW s \in Ready'
        PROVE  /\ next'[s] # Nil => next'[s] \in Ready' /\ prev'[next'[s]] = s
               /\ prev'[s] # Nil => prev'[s] \in Ready' /\ next'[prev'[s]] = s
               /\ prev'[s] = Nil => s = alive'
    <3>1. CASE s = r
      BY <3>1, <1>1, <1>2, <1>3, EngineAssumption DEF TypeOK, DoublyLinked
    <3>2. CASE s # r
      <4>1. s \in Ready
        BY <3>2, <1>2
      <4>2. next[s] # Nil => next[s] # alive /\ next[s] # r
        BY <4>1, <1>2, EngineAssumption DEF DoublyLinked
      <4>3. prev[s] # r
        BY <4>1, <1>2, EngineAssumption DEF DoublyLinked
      <4>4. next'[s] = next[s]
        BY <1>1, <3>2, <4>1, <1>2 DEF TypeOK
      <4>5. CASE s = alive
        BY <4>1, <4>2, <4>3, <4>4, <4>5, <1>1, <1>2, <1>3, EngineAssumption DEF TypeOK, DoublyLinked
      <4>6. CASE s # alive
        BY <4>1, <4>2, <4>3, <4>4, <4>6, <1>1, <1>2, <1>3, EngineAssumption DEF TypeOK, DoublyLinked
      <4>7. QED
        BY <4>5, <4>6
    <3>3. QED
      BY <3>1, <3>2
  <2>3. QED
    BY <2>1, <2>2 DEF DoublyLinked
<1>5. \A s \in Routine : life'[s] = "none" => life[s] = "none" /\ prev'[s] = Nil
  BY <1>1, <1>2, EngineAssumption DEF TypeOK, FreshInv, DoublyLinked, Ready
<1>6. QED
  BY <1>1, <1>2, <1>4, <1>5 DEF TypeOK

\* Link: whoever follows next from the new head comes by the old list.
LEMMA LinkKeepsComplete ==
    ASSUME TypeOK, DoublyLinked, FreshInv, ListComplete, NEW r \in Routine, Link(r)
    PROVE  ListComplete'
<1>1. /\ r \notin Ready
      /\ Ready' = Ready \cup {r}
      /\ alive' = r
      /\ next'[r] = alive
      /\ \A s \in Ready : next'[s] = next[s]
  BY LinkKeepsList DEF Link, TypeOK, Ready
<1>2. ASSUME NEW S \in SUBSET Ready', r \in S,
             \A s \in S : next'[s] # Nil => next'[s] \in S
      PROVE  S = Ready'
  <2> DEFINE T == S \ {r}
  <2>1. T \in SUBSET Ready
    BY <1>1
  <2>2. alive # Nil => alive \in T
    BY <1>1, <1>2 DEF DoublyLinked
  <2>3. \A s \in T : next[s] # Nil => next[s] \in T
    BY <1>1, <1>2, <2>1 DEF DoublyLinked
  <2>4. T = Ready
    BY <2>1, <2>2, <2>3 DEF ListComplete, Closed
  <2>5. QED
    BY <2>4, <1>1, <1>2
<1>3. r # Nil
  BY EngineAssumption
<1>4. QED
  BY <1>1, <1>2, <1>3 DEF ListComplete, Closed

\* What the steps that create a context do to its copy of the stack.
LEMMA CreatedSaved ==
    ASSUME IInv, NEW r \in Routine, Link(r), saved' = [saved EXCEPT ![r] = Created]
    PROVE  /\ Created \in [local : Nat, low : Nat, depth : Nat]
           /\ saved' \in [Routine -> [local : Nat, low : Nat, depth : Nat]]
           /\ base' \in [Routine -> Nat]
           /\ base'[r] = Created.depth /\ saved'[r] = Created
           /\ \A s \in Routine \ {r} : saved'[s] = saved[s] /\ base'[s] = base[s]
           /\ SavedInv'
<1>1. stack.depth \in Nat
  BY DEF IInv, TypeOK
<1>2. Created \in [local : Nat, low : Nat, depth : Nat] /\ Created.depth = stack.depth + 1
  BY <1>1 DEF Created
<1>3. /\ saved' \in [Routine -> [local : Nat, low : Nat, depth : Nat]]
      /\ saved'[r] = Created
      /\ \A s \in Routine \ {r} : saved'[s] = saved[s]
  BY <1>2 DEF IInv, TypeOK
<1>4. /\ base' \in [Routine -> Nat]
      /\ base'[r] = stack.depth + 1
      /\ \A s \in Routine \ {r} : base'[s] = base[s]
  BY <1>1 DEF IInv, TypeOK, Link
<1>5. \A s \in Ready' : s = r \/ (s \in Ready /\ s \in Routine)
  BY DEF Link, Ready, IInv, TypeOK
<1>6. SavedInv'
  <2> SUFFICES ASSUME NEW s \in Ready' PROVE saved'[s].depth >= base'[s]
    BY DEF SavedInv
  <2>1. CASE s = r
    BY <1>1, <1>2, <1>3, <1>4, <2>1
  <2>2. CASE s # r
    BY <1>3, <1>4, <1>5, <2>2 DEF IInv, SavedInv
  <2>3. QED
    BY <2>1, <2>2
<1>7. QED
  BY <1>2, <1>3, <1>4, <1>6

\* start: the first context is the only one in the list.
LEMMA StartInv ==
    ASSUME IInv, NEW r \in Routine, Start(r) PROVE IInv'
<1>1. DoublyLinked' /\ Ready' = Ready \cup {r} /\ Ready = {} /\ cur = Nil
  BY LinkKeepsList DEF IInv, Start, OutsideInv, IdleInv
<1>2. Link(r) /\ saved' = [saved EXCEPT ![r] = Created] /\ Restore(r, Created)
  BY DEF Start
<1>3. /\ Created \in [local : Nat, low : Nat, depth : Nat]
      /\ saved' \in [Routine -> [local : Nat, low : Nat, depth : Nat]]
      /\ base' \in [Routine -> Nat]
      /\ base'[r] = Created.depth /\ saved'[r] = Created
      /\ SavedInv'
  BY <1>2, CreatedSaved
<1>4. stack' \in [owner : Routine \cup {Nil}, local : Nat, depth : Nat]
  BY <1>2, <1>3 DEF IInv, TypeOK, Restore
<1>5. TypeOK'
  BY <1>2, <1>3, <1>4, LinkKeepsList DEF IInv, Start, TypeOK, Restore
<1>6. OwnStack'
  <2>1. ctl' \in {"routine", "crashed"} /\ cur' = r /\ work' = work /\ work[r] = 0
    BY <1>2 DEF Start, Restore, Link, IInv, FreshInv
  <2>2. ctl' = "routine" => stack' = [owner |-> r, local |-> 0, depth |-> Created.depth]
    BY <1>2 DEF Restore, Created
  <2>3. ctl' = "crashed" => saved'[r].low >= stack'.depth
    BY <1>2, <1>3 DEF Restore, Created
  <2>4. Created.depth \in Nat
    BY <1>3
  <2>5. QED
    BY <1>1, <1>3, <2>1, <2>2, <2>3, <2>4 DEF OwnStack
<1>7. IdleInv' /\ OutsideInv'
  BY <1>2 DEF Restore, IdleInv, OutsideInv
<1>8. FreshInv'
  BY LinkKeepsList DEF IInv, Start, FreshInv
<1>9. ListComplete'
  BY LinkKeepsComplete DEF IInv, Start
<1>10. QED
  BY <1>1, <1>3, <1>5, <1>6, <1>7, <1>8, <1>9 DEF IInv

\* run: the new context becomes the head, with the stack of its creator.
LEMMA RunInv ==
    ASSUME IInv, NEW r \in Routine, Run(r) PROVE IInv'
<1>1. DoublyLinked' /\ Ready' = Ready \cup {r}
  BY LinkKeepsList DEF IInv, Run
<1>2. /\ Created \in [local : Nat, low : Nat, depth : Nat]
      /\ saved' \in [Routine -> [local : Nat, low : Nat, depth : Nat]]
      /\ base' \in [Routine -> Nat]
      /\ base'[r] = Created.depth /\ saved'[r] = Created
      /\ \A s \in Routine \ {r} : saved'[s] = saved[s] /\ base'[s] = base[s]
      /\ SavedInv'
  BY CreatedSaved DEF Run
<1>3. TypeOK'
  BY <1>2, LinkKeepsList DEF IInv, Run, TypeOK
<1>4. OwnStack'
  <2>1. /\ UNCHANGED <<ctl, cur, stack, work>> /\ ctl = "routine"
        /\ cur \in Ready /\ r \notin Ready /\ Ready \subseteq Routine
        /\ work[r] = 0
    BY DEF Run, Link, IInv, OwnStack, Ready, FreshInv
  <2>2. Created.local = 0
    BY DEF Created
  <2>3. QED
    BY <1>1, <1>2, <2>1, <2>2 DEF IInv, OwnStack
<1>5. IdleInv' /\ OutsideInv'
  BY DEF IInv, Run, IdleInv, OutsideInv
<1>6. FreshInv'
  BY LinkKeepsList DEF IInv, Run, FreshInv
<1>7. ListComplete'
  BY LinkKeepsComplete DEF IInv, Run
<1>8. QED
  BY <1>1, <1>2, <1>3, <1>4, <1>5, <1>6, <1>7 DEF IInv

\* A coroutine's own work changes its local variable and the history alike, or
\* the depth of the stack.
LEMMA WorkInv == IInv /\ (Work \/ \E d \in 1 .. MaxDepth : CallOrReturn(d)) => IInv'
<1> SUFFICES ASSUME IInv, Work \/ \E d \in 1 .. MaxDepth : CallOrReturn(d) PROVE IInv'
  OBVIOUS
<1>1. /\ ctl = "routine" /\ cur \in Ready /\ Ready \subseteq Routine /\ Ready' = Ready
      /\ UNCHANGED <<ctl, cur, alive, next, prev, life, saved, base>>
  BY DEF IInv, OwnStack, Work, CallOrReturn, Ready
<1>2. DoublyLinked' /\ ListComplete' /\ IdleInv' /\ OutsideInv' /\ SavedInv'
  BY <1>1 DEF IInv, DoublyLinked, ListComplete, Closed, IdleInv, OutsideInv, SavedInv
<1>3. CASE Work
  <2>1. /\ stack' = [stack EXCEPT !.local = @ + 1]
        /\ work' = [work EXCEPT ![cur] = @ + 1]
    BY <1>3 DEF Work
  <2>2. /\ stack'.owner = stack.owner /\ stack'.local = stack.local + 1
        /\ stack'.depth = stack.depth /\ work'[cur] = work[cur] + 1
        /\ \A s \in Routine \ {cur} : work'[s] = work[s]
    BY <1>1, <2>1 DEF IInv, TypeOK
  <2>3. TypeOK'
    BY <1>1, <2>1 DEF IInv, TypeOK
  <2>4. OwnStack'
    BY <1>1, <2>2 DEF IInv, OwnStack
  <2>5. FreshInv'
    BY <1>1, <2>2 DEF IInv, FreshInv, Ready
  <2>6. QED
    BY <1>2, <2>3, <2>4, <2>5 DEF IInv
<1>4. ASSUME NEW d \in 1 .. MaxDepth, CallOrReturn(d) PROVE IInv'
  <2>1. stack' = [stack EXCEPT !.depth = d] /\ work' = work
    BY <1>4 DEF CallOrReturn
  <2>2. base[cur] \in Nat /\ d >= base[cur]
    BY <1>1, <1>4, EngineAssumption DEF CallOrReturn, IInv, TypeOK
  <2>3. stack'.owner = stack.owner /\ stack'.local = stack.local /\ stack'.depth = d
    BY <2>1 DEF IInv, TypeOK
  <2>4. TypeOK'
    BY <1>1, <2>1 DEF IInv, TypeOK
  <2>5. OwnStack' /\ FreshInv'
    BY <1>1, <2>1, <2>2, <2>3 DEF IInv, OwnStack, FreshInv
  <2>6. QED
    BY <1>2, <2>4, <2>5 DEF IInv
<1>5. QED
  BY <1>3, <1>4

\* Store keeps every copy up to date; Restore gives the stack back, or fails where
\* it overwrites itself.
LEMMA SwitchInv ==
    ASSUME IInv, ctl = "routine", NEW to \in Ready, to # cur, Switch(to)
    PROVE  IInv'
<1>1. cur \in Ready /\ Ready' = Ready /\ Ready \subseteq Routine
  BY DEF IInv, OwnStack, Switch, Ready
<1>2. /\ Copy \in [local : Nat, low : Nat, depth : Nat]
      /\ Copy.local = stack.local /\ Copy.depth = stack.depth
  BY DEF IInv, TypeOK, Copy
<1>3. /\ saved' \in [Routine -> [local : Nat, low : Nat, depth : Nat]]
      /\ saved'[cur] = Copy
      /\ \A s \in Routine \ {cur} : saved'[s] = saved[s]
  BY <1>1, <1>2 DEF IInv, TypeOK, Switch
<1>4. /\ saved[to] \in [local : Nat, low : Nat, depth : Nat]
      /\ cur' = to
      /\ \/ ctl' = "routine" /\ stack' = [owner |-> to, local |-> saved[to].local,
                                          depth |-> saved[to].depth]
         \/ ctl' = "crashed" /\ stack' = stack /\ saved[to].low >= stack.depth
      /\ UNCHANGED <<alive, next, prev, life, base, work>>
  BY <1>1 DEF IInv, TypeOK, Switch, Restore
<1>5. TypeOK'
  BY <1>1, <1>3, <1>4 DEF IInv, TypeOK
<1>6. DoublyLinked' /\ ListComplete' /\ IdleInv' /\ OutsideInv'
  BY <1>1, <1>4 DEF IInv, DoublyLinked, ListComplete, Closed, IdleInv, OutsideInv
<1>7. FreshInv' /\ SavedInv'
  BY <1>1, <1>2, <1>3, <1>4 DEF IInv, FreshInv, SavedInv, OwnStack
<1>8. OwnStack'
  BY <1>1, <1>2, <1>3, <1>4 DEF IInv, OwnStack, SavedInv
<1>9. QED
  BY <1>5, <1>6, <1>7, <1>8 DEF IInv

\* yield finds a context that exists and is not the current one.
LEMMA YieldInv == IInv /\ Yield => IInv'
<1> SUFFICES ASSUME IInv, Yield PROVE IInv'
  OBVIOUS
<1> DEFINE to == IF alive = cur THEN next[alive] ELSE alive
<1>1. ctl = "routine" /\ to # Nil /\ Switch(to) /\ cur \in Ready
  BY DEF IInv, Yield, OwnStack
<1>2. to \in Ready /\ to # cur
  <2>1. CASE alive = cur
    BY <1>1, <2>1, EngineAssumption DEF IInv, DoublyLinked, Ready
  <2>2. CASE alive # cur
    BY <1>1, <2>2 DEF IInv, DoublyLinked
  <2>3. QED
    BY <2>1, <2>2
<1>3. QED
  BY <1>1, <1>2, SwitchInv

\* yield and sched switch to a context that exists.
LEMMA SchedInv ==
    ASSUME IInv, NEW r \in Routine, Sched(r) PROVE IInv'
BY SwitchInv DEF Sched, Ready

\* A context leaves the list from any place.
LEMMA FinishInv == IInv /\ Finish => IInv'
<1> SUFFICES ASSUME IInv, Finish PROVE IInv'
  OBVIOUS
<1>1. /\ cur \in Ready
      /\ Ready' = Ready \ {cur}
      /\ Ready \subseteq Routine
      /\ cur' = Nil
      /\ ctl' = "idle"
  BY DEF IInv, Finish, OwnStack, Ready, TypeOK
<1>2. /\ alive' = IF alive = cur THEN next[alive] ELSE alive
      /\ \A r \in Routine : r # cur =>
            /\ next'[r] = IF r = prev[cur] THEN next[cur] ELSE next[r]
            /\ prev'[r] = IF r = next[cur] THEN prev[cur] ELSE prev[r]
  BY <1>1 DEF Finish
<1>3. TypeOK'
  BY <1>1 DEF IInv, TypeOK, Finish
<1>4. DoublyLinked'
  <2>1. alive' # Nil => alive' \in Ready' /\ prev'[alive'] = Nil
    <3>1. CASE alive = cur
      BY <1>1, <1>2, <3>1, EngineAssumption DEF IInv, DoublyLinked
    <3>2. CASE alive # cur
      BY <1>1, <1>2, <3>2, EngineAssumption DEF IInv, DoublyLinked
    <3>3. QED
      BY <3>1, <3>2
  <2>2. ASSUME NEW s \in Ready'
        PROVE  next'[s] # Nil => next'[s] \in Ready' /\ prev'[next'[s]] = s
    BY <1>1, <1>2, EngineAssumption DEF IInv, DoublyLinked
  <2>3. ASSUME NEW s \in Ready'
        PROVE  prev'[s] # Nil => prev'[s] \in Ready' /\ next'[prev'[s]] = s
    BY <1>1, <1>2, EngineAssumption DEF IInv, DoublyLinked
  <2>4. ASSUME NEW s \in Ready'
        PROVE  prev'[s] = Nil => s = alive'
    BY <1>1, <1>2, EngineAssumption DEF IInv, DoublyLinked
  <2>5. QED
    BY <2>1, <2>2, <2>3, <2>4 DEF DoublyLinked
<1>5. OwnStack' /\ SavedInv'
  BY <1>1 DEF IInv, OwnStack, SavedInv, Finish
<1>6. IdleInv' /\ OutsideInv'
  BY <1>1 DEF IdleInv, OutsideInv
<1>7. FreshInv'
  BY <1>1, <1>2, EngineAssumption DEF IInv, FreshInv, Finish, TypeOK, DoublyLinked, Ready
<1>8. ListComplete'
  <2>1. ASSUME NEW S \in SUBSET Ready',
               alive' # Nil => alive' \in S,
               \A s \in S : next'[s] # Nil => next'[s] \in S
        PROVE  S = Ready'
    <3>1. S \in SUBSET Ready /\ cur \notin S
      BY <1>1
    \* The predecessor of the context that left is in S, or there is none.
    <3>2. alive # cur => prev[cur] \in S
      <4>1. SUFFICES ASSUME alive # cur, prev[cur] \notin S PROVE FALSE
        OBVIOUS
      <4>2. alive # Nil => alive \in S
        BY <4>1, <2>1, <1>2
      <4>3. \A s \in S : next[s] # Nil => next[s] \in S
        BY <4>1, <2>1, <3>1, <1>1, <1>2
      <4>4. S = Ready
        BY <4>2, <4>3, <3>1 DEF IInv, ListComplete, Closed
      <4>5. QED
        BY <4>4, <3>1, <1>1
    <3> DEFINE T == S \cup {cur}
    <3>3. alive # Nil => alive \in T
      BY <2>1, <1>2
    <3>4. next[cur] # Nil => next[cur] \in S
      <4>1. CASE alive = cur
        BY <4>1, <2>1, <1>2
      <4>2. CASE alive # cur
        BY <4>2, <2>1, <3>1, <3>2, <1>1, <1>2
      <4>3. QED
        BY <4>1, <4>2
    <3>5. \A s \in S : next[s] # Nil => next[s] \in T
      BY <2>1, <3>1, <1>1, <1>2 DEF IInv, DoublyLinked
    <3>6. T = Ready
      <4>1. T \in SUBSET Ready /\ \A s \in T : next[s] # Nil => next[s] \in T
        BY <3>1, <3>4, <3>5, <1>1
      <4>2. QED
        BY <3>3, <4>1 DEF IInv, ListComplete, Closed
    <3>7. QED
      BY <3>1, <3>6, <1>1
  <2>2. QED
    BY <2>1 DEF ListComplete, Closed
<1>9. QED
  BY <1>3, <1>4, <1>5, <1>6, <1>7, <1>8 DEF IInv

\* The idle context does not touch the list or the copies.
LEMMA RestInv == IInv /\ (Return \/ IdleYield \/ UNCHANGED engVars) => IInv'
BY DEF IInv, TypeOK, DoublyLinked, ListComplete, Closed, OwnStack, IdleInv,
   OutsideInv, FreshInv, SavedInv, Ready, Return, IdleYield, engVars

\* The inductive invariant holds in every reachable state.
THEOREM Invariance == EngSpec => []IInv
<1>1. IInv /\ [EngNext]_engVars => IInv'
  BY StartInv, RunInv, WorkInv, YieldInv, SchedInv, FinishInv, RestInv DEF EngNext
<1>2. QED
  BY <1>1, InitInv, PTL DEF EngSpec

\* run, yield and the end of a coroutine keep the list of contexts sound: next
\* and prev agree, never lead to a deleted context, and from the head they lead
\* to every coroutine that has not finished.
THEOREM ListCorrect == EngSpec => []ListExact
<1>1. IInv => ListExact
  BY DEF IInv, ListExact
<1>2. QED
  BY <1>1, Invariance, PTL

\* Store and Restore: a coroutine that gets control finds the stack as it left it,
\* however many others ran on it in between; it may not get it only if its stack
\* reaches as deep as the one of the coroutine before it.
THEOREM StackCorrect == EngSpec => []OwnStack
BY Invariance, PTL DEF IInv

\* Every variable stays in its type.
THEOREM TypeCorrect == EngSpec => []TypeOK
BY Invariance, PTL DEF IInv

(***************************************************************************)
(* The logging service.                                                    *)
(***************************************************************************)

Appender == [type : STRING, color : BOOLEAN]
Logger == [appenders : Seq(STRING), format : Seq(STRING)]

\* Any number of appenders and loggers with any names.  A Config holds them in maps.
Configs ==
    [appenders : UNION {[A -> Appender] : A \in SUBSET STRING},
     loggers : UNION {[L -> Logger] : L \in {N \in SUBSET (Seq(STRING) \ {<<>>}) : IsFiniteSet(N)}}]

LogSpec == LogInit(Configs) /\ [][LogNext]_logVars

----------------------------------------------------------------------------
(* Numbers: the least-number principle for a set, and what follows from it. *)

\* A set of natural numbers that is not empty has a least one.
LEMMA Least ==
    ASSUME NEW S \in SUBSET Nat, S # {}
    PROVE  \E m \in S : \A k \in S : m <= k
<1>1. PICK R : R = OpToRel(<, Nat)
  OBVIOUS
<1>2. IsWellFoundedOn(R, Nat)
  BY <1>1, NatLessThanWellFounded, Zenon
<1>3. PICK m \in S : \A k \in S : ~(<<k, m>> \in R)
  BY <1>2, WFMin, Zenon
<1>4. ASSUME NEW k \in S PROVE m <= k
  <2>1. ~(k < m)
    BY <1>1, <1>3 DEF OpToRel
  <2>2. QED
    BY <2>1
<1>5. QED
  BY <1>4

\* A set of numbers up to n has a greatest one.
LEMMA Greatest ==
    ASSUME NEW n \in Nat, NEW S \in SUBSET (1 .. n), S # {}
    PROVE  \E m \in S : \A k \in S : k <= m
<1>1. PICK R : R = {x \in Nat : n - x \in S}
  OBVIOUS
<1>2. \A k \in S : n - k \in R
  BY <1>1
<1>3. R \in SUBSET Nat /\ R # {}
  BY <1>1, <1>2
<1>4. PICK x \in R : \A y \in R : x <= y
  BY <1>3, Least
<1>5. n - x \in S /\ x \in Nat
  BY <1>1
<1>6. \A k \in S : k <= n - x
  BY <1>2, <1>4, <1>5
<1>7. QED
  BY <1>5, <1>6

\* The smallest of a set, as create finds the first closing brace.
LEMMA MinIn ==
    ASSUME NEW S \in SUBSET Nat, S # {}
    PROVE  Min(S) \in S
<1>1. \E m \in S : \A k \in S : m <= k
  BY Least
<1>2. QED
  BY <1>1 DEF Min

----------------------------------------------------------------------------
(* select *)

Prefix(name, n) == SubSeq(name, 1, n)

\* The prefixes of up to n parts that are looked up and found.
Found(name, n) ==
    {m \in 1 .. n : Prefix(name, m) \in DOMAIN registry /\ (Prefix(name, m) = <<"">> => n = 1)}

\* The longest prefix whose number of parts is in F.
Longest(name, F) ==
    IF F = {} THEN _root ELSE Prefix(name, CHOOSE m \in F : \A k \in F : k <= m)

\* What is selected from n parts on.
Nearest(name, n) == Longest(name, Found(name, n))

\* One round of the loop, when f is what the later rounds select.
Round(name, f, n) ==
    IF Prefix(name, n) \in DOMAIN registry THEN Prefix(name, n)
    ELSE IF n = 1 \/ Prefix(name, n - 1) = <<"">> THEN _root ELSE f[n - 1]

\* A prefix has as many parts as it says.
LEMMA PrefixFacts ==
    ASSUME NEW name \in Seq(STRING), NEW n \in 1 .. Len(name)
    PROVE  /\ Prefix(name, n) \in Seq(STRING) /\ Len(Prefix(name, n)) = n
           /\ Prefix(name, n) = <<"">> => n = 1
<1>1. Len(name) \in Nat /\ n \in Nat
  OBVIOUS
<1>2. Prefix(name, n) \in Seq(STRING) /\ Len(Prefix(name, n)) = n
  BY <1>1, SubSeqProperties DEF Prefix
<1>3. Len(<<"">>) = 1
  OBVIOUS
<1>4. QED
  BY <1>2, <1>3

\* Nearest satisfies the equation of the loop.
LEMMA NearestRound ==
    ASSUME NEW name \in Seq(STRING), NEW n \in 1 .. Len(name), NEW f,
           n > 1 => f[n - 1] = Nearest(name, n - 1)
    PROVE  Nearest(name, n) = Round(name, f, n)
<1>1. n \in Nat /\ n >= 1 /\ n - 1 \in Int /\ n \in 1 .. n
  OBVIOUS
<1>2. \A m \in 1 .. n : Prefix(name, m) = <<"">> => m = 1
  <2>1. \A m \in 1 .. n : m \in 1 .. Len(name)
    OBVIOUS
  <2>2. QED
    BY <2>1, PrefixFacts, Zenon
<1>3. Found(name, n) \subseteq 1 .. n
  BY DEF Found
<1>4. CASE Prefix(name, n) \in DOMAIN registry
  <2>1. n \in Found(name, n)
    BY <1>1, <1>2, <1>4, Zenon DEF Found
  <2>2. PICK g : g = CHOOSE m \in Found(name, n) : \A k \in Found(name, n) : k <= m
    OBVIOUS
  <2>3. g \in Found(name, n) /\ \A k \in Found(name, n) : k <= g
    <3>1. \E m \in Found(name, n) : \A k \in Found(name, n) : k <= m
      BY <1>1, <1>3, <2>1
    <3>2. QED
      BY <2>2, <3>1
  <2>4. g = n
    BY <1>1, <1>3, <2>1, <2>3
  <2>5. Found(name, n) # {}
    BY <2>1
  <2>6. QED
    BY <1>4, <2>2, <2>4, <2>5, Zenon DEF Nearest, Longest, Round
<1>5. CASE Prefix(name, n) \notin DOMAIN registry /\ (n = 1 \/ Prefix(name, n - 1) = <<"">>)
  <2>1. Found(name, n) = {}
    <3>1. ASSUME NEW m \in Found(name, n) PROVE FALSE
      <4>1. m \in 1 .. n /\ m # n /\ Prefix(name, m) \in DOMAIN registry
            /\ (Prefix(name, m) = <<"">> => n = 1)
        BY <1>5 DEF Found
      <4>2. n # 1 /\ Prefix(name, n - 1) = <<"">>
        <5>1. n # 1
          <6>1. m \in 1 .. n /\ m # n
            BY <4>1
          <6>2. QED
            BY <1>1, <6>1
        <5>2. QED
          BY <1>5, <5>1, Zenon
      <4>3. n - 1 \in 1 .. n /\ n - 1 = 1
        <5>1. n - 1 \in 1 .. n
          <6>1. n # 1
            BY <4>2
          <6>2. QED
            BY <1>1, <6>1
        <5>2. QED
          BY <1>2, <4>2, <5>1, Zenon
      <4>4. m = n - 1
        <5>1. m \in 1 .. n /\ m # n /\ n - 1 = 1
          BY <4>1, <4>3
        <5>2. QED
          BY <1>1, <5>1
      <4>5. QED
        BY <4>1, <4>2, <4>4
    <3>2. QED
      BY <3>1
  <2>2. QED
    BY <1>5, <2>1, Zenon DEF Nearest, Longest, Round
<1>6. CASE Prefix(name, n) \notin DOMAIN registry /\ n # 1 /\ Prefix(name, n - 1) # <<"">>
  <2>1. Found(name, n) = Found(name, n - 1)
    <3>1. ASSUME NEW m PROVE m \in Found(name, n) <=> m \in Found(name, n - 1)
      <4>1. m \in 1 .. n /\ m # n <=> m \in 1 .. n - 1
        BY <1>1
      <4>2. CASE m \in 1 .. n - 1
        <5>1. m \in 1 .. n
          BY <4>1, <4>2
        <5>2. Prefix(name, m) = <<"">> => n - 1 # 1 /\ n # 1
          BY <1>1, <1>2, <1>6, <5>1
        <5>3. QED
          BY <4>2, <5>1, <5>2 DEF Found
      <4>3. CASE m \notin 1 .. n - 1
        BY <1>6, <4>1, <4>3 DEF Found
      <4>4. QED
        BY <4>2, <4>3
    <3>2. QED
      BY <3>1
  <2>2. Nearest(name, n) = Nearest(name, n - 1)
    BY <2>1, Zenon DEF Nearest
  <2>3. QED
    <3>1. n > 1
      <4>1. n # 1
        BY <1>6
      <4>2. QED
        BY <1>1, <4>1
    <3>2. f[n - 1] = Nearest(name, n - 1)
      BY <3>1
    <3>3. QED
      BY <1>6, <2>2, <3>2, Zenon DEF Round
<1>7. QED
  BY <1>4, <1>5, <1>6

\* select, whose loop is a recursive function, selects the nearest.
LEMMA SelectIs ==
    ASSUME NEW name \in Seq(STRING) \ {<<>>} PROVE Select(name) = Nearest(name, Len(name))
<1> DEFINE Is(f) == f = [n \in 1 .. Len(name) |-> Round(name, f, n)]
<1>1. Len(name) \in Nat /\ Len(name) \in 1 .. Len(name)
  BY EmptySeq
<1>2. \E f : Is(f)
  <2>1. PICK g : g = [n \in 1 .. Len(name) |-> Nearest(name, n)]
    OBVIOUS
  <2>2. ASSUME NEW n \in 1 .. Len(name) PROVE Nearest(name, n) = Round(name, g, n)
    <3>1. n > 1 => n - 1 \in 1 .. Len(name)
      BY <1>1
    <3>2. n > 1 => g[n - 1] = Nearest(name, n - 1)
      BY <2>1, <3>1
    <3>3. QED
      BY <3>2, NearestRound
  <2>3. Is(g)
    BY <2>1, <2>2
  <2>4. QED
    BY <2>3
<1>3. PICK f : Is(f) /\ Select(name) = f[Len(name)]
  <2>1. Select(name) = (CHOOSE f : Is(f))[Len(name)]
    BY Zenon DEF Select, Round, Prefix
  <2>2. Is(CHOOSE f : Is(f))
    BY <1>2, Zenon
  <2>3. QED
    BY <2>1, <2>2
<1>4. \A n \in 1 .. Len(name) : f[n] = Round(name, f, n)
  BY <1>3
<1> HIDE DEF Is
<1>5. PICK S : S = {n \in 1 .. Len(name) : f[n] # Nearest(name, n)}
  OBVIOUS
<1>6. S = {}
  <2>1. SUFFICES ASSUME S # {} PROVE FALSE
    OBVIOUS
  <2>2. S \in SUBSET Nat
    BY <1>1, <1>5
  <2>3. PICK m \in S : \A k \in S : m <= k
    BY <2>1, <2>2, Least
  <2>4. m \in 1 .. Len(name) /\ f[m] # Nearest(name, m)
    BY <1>5
  <2>5. m > 1 => f[m - 1] = Nearest(name, m - 1)
    <3>1. m > 1 => m - 1 \in 1 .. Len(name) /\ ~(m <= m - 1)
      BY <1>1, <2>4
    <3>2. QED
      BY <1>5, <2>3, <3>1
  <2>6. f[m] = Nearest(name, m)
    BY <1>4, <2>4, <2>5, NearestRound
  <2>7. QED
    BY <2>4, <2>6
<1>7. f[Len(name)] = Nearest(name, Len(name))
  BY <1>1, <1>5, <1>6
<1>8. QED
  BY <1>3, <1>7

\* The loggers whose name is a part of the wanted one that ends at a dot.
Own(name) == {l \in DOMAIN registry : IsPrefix(l, name) /\ (l = <<"">> => name = l)}

\* A name in the registry is found if it is a part of the wanted one.
LEMMA OwnFound ==
    ASSUME NEW name \in Seq(STRING) \ {<<>>}, DOMAIN registry \subseteq Seq(STRING) \ {<<>>}
    PROVE  /\ \A l \in Own(name) : Len(l) \in Found(name, Len(name)) /\ Prefix(name, Len(l)) = l
           /\ \A m \in Found(name, Len(name)) :
                 Prefix(name, m) \in Own(name) /\ Len(Prefix(name, m)) = m
<1>1. Len(name) \in Nat /\ Len(name) >= 1
  BY EmptySeq
<1>2. \A s \in Seq(STRING) : SubSeq(s, 1, Len(s)) = s
  BY SubSeqFull
<1>3. ASSUME NEW l \in Own(name)
      PROVE  Len(l) \in Found(name, Len(name)) /\ Prefix(name, Len(l)) = l
  <2>1. l \in DOMAIN registry /\ l \in Seq(STRING) \ {<<>>} /\ Len(l) <= Len(name)
        /\ SubSeq(l, 1, Len(l)) = SubSeq(name, 1, Len(l)) /\ (l = <<"">> => name = l)
    BY DEF Own, IsPrefix
  <2>2. Prefix(name, Len(l)) = l
    BY <1>2, <2>1 DEF Prefix
  <2>3. Len(l) \in 1 .. Len(name)
    <3>1. Len(l) \in Nat /\ Len(l) # 0
      BY <2>1, EmptySeq
    <3>2. Len(l) <= Len(name)
      BY <2>1
    <3>3. QED
      BY <1>1, <3>1, <3>2
  <2>4. l = <<"">> => Len(name) = 1
    <3>1. Len(<<"">>) = 1
      OBVIOUS
    <3>2. QED
      BY <2>1, <3>1
  <2>5. QED
    BY <2>1, <2>2, <2>3, <2>4 DEF Found
<1>4. ASSUME NEW m \in Found(name, Len(name))
      PROVE  Prefix(name, m) \in Own(name) /\ Len(Prefix(name, m)) = m
  <2>1. PICK l : l = Prefix(name, m)
    OBVIOUS
  <2>2. m \in 1 .. Len(name) /\ l \in DOMAIN registry /\ (l = <<"">> => Len(name) = 1)
    BY <2>1 DEF Found
  <2>3. l \in Seq(STRING) /\ Len(l) = m
    BY <2>1, <2>2, PrefixFacts
  <2>4. IsPrefix(l, name)
    <3>1. Len(l) <= Len(name)
      <4>1. m \in 1 .. Len(name) /\ Len(l) = m
        BY <2>2, <2>3
      <4>2. QED
        BY <1>1, <4>1
    <3>2. SubSeq(l, 1, Len(l)) = SubSeq(name, 1, Len(l))
      <4>1. SubSeq(l, 1, Len(l)) = l
        BY <1>2, <2>3, Zenon
      <4>2. QED
        BY <2>1, <2>3, <4>1, Zenon DEF Prefix
    <3>3. QED
      BY <3>1, <3>2 DEF IsPrefix
  <2>5. l = <<"">> => name = l
    <3>1. SUFFICES ASSUME l = <<"">> PROVE name = l
      OBVIOUS
    <3>2. Len(<<"">>) = 1
      OBVIOUS
    <3>3. m = 1 /\ Len(name) = 1
      BY <2>2, <2>3, <3>1, <3>2
    <3>4. QED
      BY <1>2, <2>1, <3>3 DEF Prefix
  <2>6. QED
    BY <2>1, <2>2, <2>3, <2>4, <2>5 DEF Own
<1>5. QED
  BY <1>3, <1>4

\* select does what SelectNearest says, whatever is registered.
LEMMA SelectNearestHolds ==
    ASSUME DOMAIN registry \subseteq Seq(STRING) \ {<<>>} PROVE SelectNearest
<1>1. SUFFICES ASSUME NEW name \in LogNames
               PROVE  /\ Own(name) = {} => Select(name) = _root
                      /\ Own(name) # {} => /\ Select(name) \in Own(name)
                                           /\ \A l \in Own(name) : Len(l) <= Len(Select(name))
  BY DEF SelectNearest, Own
<1>2. name \in Seq(STRING) \ {<<>>}
  BY LogAssumption
<1>3. PICK F : F = Found(name, Len(name))
  OBVIOUS
<1>4. /\ \A l \in Own(name) : Len(l) \in F /\ Prefix(name, Len(l)) = l
      /\ \A m \in F : Prefix(name, m) \in Own(name) /\ Len(Prefix(name, m)) = m
  BY <1>2, <1>3, OwnFound
<1>5. Select(name) = Nearest(name, Len(name))
  BY <1>2, SelectIs
<1>6. CASE F = {}
  <2>1. Own(name) = {}
    BY <1>4, <1>6
  <2>2. QED
    BY <1>3, <1>5, <1>6, <2>1, Zenon DEF Nearest, Longest
<1>7. CASE F # {}
  <2>1. Len(name) \in Nat /\ F \in SUBSET (1 .. Len(name))
    <3>1. Len(name) \in Nat
      BY <1>2
    <3>2. QED
      BY <1>3, <3>1 DEF Found
  <2>2. PICK g : g = CHOOSE m \in F : \A k \in F : k <= m
    OBVIOUS
  <2>3. g \in F /\ \A k \in F : k <= g
    <3>1. \E m \in F : \A k \in F : k <= m
      BY <1>7, <2>1, Greatest
    <3>2. QED
      BY <2>2, <3>1
  <2>4. Select(name) = Prefix(name, g)
    BY <1>3, <1>5, <1>7, <2>2, Zenon DEF Nearest, Longest
  <2>5. QED
    BY <1>4, <2>3, <2>4
<1>8. QED
  BY <1>6, <1>7

----------------------------------------------------------------------------
(* create *)

\* The pattern ends within a directive.
EndsOpen(p) == Last(p) = "%" \/ IsSuffix(<<"%", "X">>, p)

\* A pattern whose last two characters start an MDC variable.
LEMMA OpenSuffix ==
    ASSUME NEW p \in Seq(STRING), NEW i \in 1 .. Len(p), i + 1 = Len(p),
           p[i] = "%", p[i + 1] = "X"
    PROVE  EndsOpen(p)
<1>1. PICK s, r : s = Reverse(<<"%", "X">>) /\ r = Reverse(p)
  OBVIOUS
<1>2. Len(p) \in Nat /\ Len(p) >= 2
  OBVIOUS
<1>3. /\ s \in Seq(STRING) /\ Len(s) = 2 /\ s[1] = "X" /\ s[2] = "%"
  BY <1>1 DEF Reverse
<1>4. /\ r \in Seq(STRING) /\ Len(r) = Len(p) /\ r[1] = "X" /\ r[2] = "%"
  BY <1>1, <1>2 DEF Reverse
<1>5. SubSeq(s, 1, 2) = SubSeq(r, 1, 2)
  BY <1>2, <1>3, <1>4
<1>6. IsPrefix(s, r)
  BY <1>2, <1>3, <1>4, <1>5 DEF IsPrefix
<1>7. QED
  BY <1>1, <1>6 DEF EndsOpen, IsSuffix

\* Short pieces of a pattern.
LEMMA Pieces ==
    ASSUME NEW p \in Seq(STRING), NEW i \in 1 .. Len(p)
    PROVE  /\ SubSeq(p, i, i) = <<p[i]>>
           /\ i + 1 <= Len(p) => SubSeq(p, i, i + 1) = <<p[i], p[i + 1]>>
<1>1. Len(p) \in Nat /\ i \in Nat /\ i >= 1 /\ i <= Len(p) /\ p[i] \in STRING
  BY ElementOfSeq
<1>2. SubSeq(p, i, i) = <<p[i]>>
  <2>1. PICK q, r : q = SubSeq(p, i, i) /\ r = <<p[i]>>
    OBVIOUS
  <2>2. q \in Seq(STRING) /\ Len(q) = 1 /\ q[1] = p[i]
    BY <1>1, <2>1, SubSeqProperties
  <2>3. r \in Seq(STRING) /\ Len(r) = 1 /\ r[1] = p[i]
    BY <1>1, <2>1
  <2>4. q = r
    BY <2>2, <2>3, SeqEqual
  <2>5. QED
    BY <2>1, <2>4
<1>3. ASSUME i + 1 <= Len(p) PROVE SubSeq(p, i, i + 1) = <<p[i], p[i + 1]>>
  <2>1. PICK q, r : q = SubSeq(p, i, i + 1) /\ r = <<p[i], p[i + 1]>>
    OBVIOUS
  <2>2. p[i + 1] \in STRING
    BY <1>1, <1>3, ElementOfSeq
  <2>3. q \in Seq(STRING) /\ Len(q) = 2 /\ q[1] = p[i] /\ q[2] = p[i + 1]
    BY <1>1, <1>3, <2>1, SubSeqProperties
  <2>4. r \in Seq(STRING) /\ Len(r) = 2 /\ r[1] = p[i] /\ r[2] = p[i + 1]
    BY <1>1, <2>1, <2>2
  <2>5. \A k \in 1 .. Len(q) : q[k] = r[k]
    <3>1. SUFFICES ASSUME NEW k \in 1 .. 2 PROVE q[k] = r[k]
      BY <2>3
    <3>2. k = 1 \/ k = 2
      OBVIOUS
    <3>3. QED
      BY <2>3, <2>4, <3>2
  <2>6. q = r
    BY <2>3, <2>4, <2>5, SeqEqual, SMTT(30)
  <2>7. QED
    BY <2>1, <2>6
<1>4. QED
  BY <1>2, <1>3

\* One round of the loop goes on, runs over the end only within a directive, and
\* copies a pattern without MDC variables.
LEMMA ExpandFacts ==
    ASSUME NEW p \in Seq(STRING), NEW i \in 1 .. Len(p), NEW n, n = Expand(p, i).next
    PROVE  /\ n \in Nat /\ n > i
           /\ n > Len(p) + 1 => EndsOpen(p)
           /\ ~HasMDC(p) /\ n <= Len(p) + 1 => Expand(p, i).out = SubSeq(p, i, n - 1)
<1>1. Len(p) \in Nat /\ i \in Nat /\ i >= 1 /\ i <= Len(p)
  OBVIOUS
<1>2. CASE p[i] # "%"
  <2>1. Expand(p, i) = [out |-> <<p[i]>>, next |-> i + 1]
    BY <1>2 DEF Expand
  <2>2. SubSeq(p, i, i) = <<p[i]>>
    BY Pieces
  <2>3. n = i + 1 /\ n - 1 = i
    BY <1>1, <2>1
  <2>4. QED
    BY <1>1, <2>1, <2>2, <2>3
<1>3. CASE p[i] = "%" /\ i + 1 # Len(p) + 1 /\ p[i + 1] # "X"
  <2>1. Expand(p, i) = [out |-> <<"%", p[i + 1]>>, next |-> i + 2]
    BY <1>3 DEF Expand
  <2>2. i + 1 <= Len(p)
    BY <1>1, <1>3
  <2>3. SubSeq(p, i, i + 1) = <<p[i], p[i + 1]>>
    BY <2>2, Pieces
  <2>4. n = i + 2 /\ n - 1 = i + 1
    BY <1>1, <2>1
  <2>5. QED
    BY <1>1, <1>3, <2>1, <2>2, <2>3, <2>4
<1>4. CASE p[i] = "%" /\ i + 1 = Len(p) + 1
  <2>1. Expand(p, i) = [out |-> <<>>, next |-> i + 3]
    BY <1>1, <1>4 DEF Expand
  <2>2. Last(p) = "%"
    BY <1>1, <1>4 DEF Last
  <2>3. QED
    BY <1>1, <1>4, <2>1, <2>2 DEF EndsOpen
<1>5. CASE p[i] = "%" /\ i + 1 # Len(p) + 1 /\ p[i + 1] = "X"
  <2>1. i + 1 <= Len(p)
    BY <1>1, <1>5
  <2>2. HasMDC(p)
    <3>1. i \in 1 .. Len(p) - 1
      BY <1>1, <2>1
    <3>2. QED
      BY <1>5, <3>1 DEF HasMDC
  <2>3. CASE i + 2 # Len(p) + 1 /\ p[i + 2] # "{"
    <3>1. Expand(p, i).next = i + 3
      BY <1>5, <1>1, <2>1, <2>3 DEF Expand
    <3>2. i + 2 # Len(p) + 1 /\ n = i + 3
      BY <2>3, <3>1
    <3>3. n \in Nat /\ n > i /\ n <= Len(p) + 1
      BY <1>1, <2>1, <3>2
    <3>4. QED
      BY <1>1, <2>2, <3>3
  <2>4. CASE i + 2 = Len(p) + 1 \/ p[i + 2] = "{"
    <3>1. PICK close : close = {j \in i + 2 .. Len(p) : p[j] = "}"}
      OBVIOUS
    <3>2. \/ close # {} /\ n = Min(close) + 1
          \/ n = i + 3
      BY <1>1, <1>5, <2>1, <2>4, <3>1 DEF Expand
    <3>3. CASE close # {} /\ n = Min(close) + 1
      <4>1. close \in SUBSET Nat /\ close # {}
        <5>1. \A j \in i + 2 .. Len(p) : j \in Nat
          BY <1>1
        <5>2. QED
          BY <3>1, <3>3, <5>1
      <4>2. Min(close) \in close
        BY <4>1, MinIn
      <4>3. Min(close) \in i + 2 .. Len(p)
        BY <3>1, <4>2
      <4>4. QED
        BY <1>1, <2>2, <3>3, <4>3
    <3>4. CASE n = i + 3 /\ i + 2 = Len(p) + 1
      <4>1. i + 1 = Len(p)
        BY <1>1, <3>4
      <4>2. EndsOpen(p)
        BY <1>5, <4>1, OpenSuffix
      <4>3. QED
        BY <1>1, <2>2, <3>4, <4>2
    <3>5. CASE n = i + 3 /\ i + 2 # Len(p) + 1
      BY <1>1, <2>1, <2>2, <3>5
    <3>6. QED
      BY <3>2, <3>3, <3>4, <3>5
  <2>5. QED
    BY <2>3, <2>4
<1>6. QED
  BY <1>2, <1>3, <1>4, <1>5

----------------------------------------------------------------------------
(* The inductive invariant. *)

Outcome == [op : {"none", "Start", "create", "reopen_all"},
            state : {"run", "done", "throws", "null"}]
Creation == [op : {"create"}, state : {"run", "done", "overrun"}, pattern : Seq(STRING)]
SinkNames == STRING \cup Seq(STRING) \cup {""}
Sinks == {Null} \cup [kind : AppenderTypes \cup {"dist"}, of : SinkNames]
FileSink(a) == [kind |-> "FILE", of |-> a]

\* Start registers all loggers or none.
RegistryInv ==
    /\ _cfg \in Configs
    /\ DOMAIN registry # {} =>
          /\ DOMAIN registry = DOMAIN _cfg.loggers
          /\ \A a \in DOMAIN _cfg.appenders : _cfg.appenders[a].type \in AppenderTypes
          /\ \A l \in DOMAIN registry : /\ registry[l].sink = LoggerSink(l)
                                        /\ registry[l].format \in Seq(STRING)
    /\ _root = Null \/ _root \in DOMAIN registry

\* create, at position i of a pattern p with the text t written.
Creating(p, i, t) ==
    /\ i \in Nat /\ i >= 1
    /\ i > Len(p) + 1 => EndsOpen(p)
    /\ ~HasMDC(p) /\ i <= Len(p) + 1 => t = SubSeq(p, 1, i - 1)

CreateInv ==
    /\ call \in Outcome \cup Creation
    /\ call.op = "create" => call.state = "null" \/ call \in Creation
    /\ call \in Creation =>
          /\ Creating(call.pattern, it, ss)
          /\ call.state = "done" => it = Len(call.pattern) + 1
          /\ call.state = "overrun" => it > Len(call.pattern) + 1

\* A sink that reopen_all may meet.
Reachable(s) ==
    /\ s \in Sinks
    /\ IsFile(s) => s.of \in FilesInUse
    /\ IsDist(s) => s.of \in DOMAIN registry

\* While reopen_all runs: the sinks of the loggers, and those behind a dist_sink that
\* was visited, were visited or wait; the files visited are the ones reopened.
Walking ==
    /\ deque \in Seq(Sinks)
    /\ \A s \in seen \cup ToSet(deque) : Reachable(s)
    /\ \A l \in DOMAIN registry : LoggerSink(l) \in seen \cup ToSet(deque)
    /\ \A s \in seen : IsDist(s) => ToSet(DistSinks(s)) \subseteq seen \cup ToSet(deque)
    /\ \A a \in DOMAIN reopened : reopened[a] = IF FileSink(a) \in seen THEN 1 ELSE 0

ReopenInv ==
    /\ reopened \in [DOMAIN _cfg.appenders -> {0, 1}]
    /\ InReopen => Walking
    /\ call = Call("reopen_all", "done") =>
          \A a \in DOMAIN reopened : (reopened[a] = 1) = (a \in FilesInUse)

LogInv == RegistryInv /\ CreateInv /\ ReopenInv

----------------------------------------------------------------------------
(* Sinks. *)

\* What a configuration is.
LEMMA ConfigFacts ==
    ASSUME NEW cfg \in Configs
    PROVE  /\ DOMAIN cfg.appenders \subseteq STRING
           /\ \A a \in DOMAIN cfg.appenders : cfg.appenders[a] \in Appender
           /\ DOMAIN cfg.loggers \subseteq Seq(STRING) \ {<<>>} /\ IsFiniteSet(DOMAIN cfg.loggers)
           /\ \A l \in DOMAIN cfg.loggers : cfg.loggers[l] \in Logger
<1>1. PICK A \in SUBSET STRING : cfg.appenders \in [A -> Appender]
  BY DEF Configs
<1>2. PICK L \in SUBSET (Seq(STRING) \ {<<>>}) : IsFiniteSet(L) /\ cfg.loggers \in [L -> Logger]
  BY DEF Configs
<1>3. QED
  BY <1>1, <1>2

\* The sinks of the appenders of a registered logger.
LEMMA AppenderSink ==
    ASSUME RegistryInv, NEW l \in DOMAIN registry, NEW i \in DOMAIN _cfg.loggers[l].appenders
    PROVE  Reachable(SinkOf(_cfg.loggers[l].appenders[i]))
<1>1. PICK a : a = _cfg.loggers[l].appenders[i]
  OBVIOUS
<1>2. DOMAIN _cfg.appenders \subseteq STRING /\ DOMAIN registry = DOMAIN _cfg.loggers
      /\ \A b \in DOMAIN _cfg.appenders : _cfg.appenders[b].type \in AppenderTypes
  BY ConfigFacts DEF RegistryInv
<1>3. CASE a \notin DOMAIN _cfg.appenders
  <2>1. SinkOf(a) = Null
    BY <1>3 DEF SinkOf
  <2>2. QED
    BY <1>1, <2>1 DEF Reachable, Sinks, IsFile, IsDist
<1>4. CASE a \in DOMAIN _cfg.appenders
  <2>1. PICK k \in AppenderTypes, o \in SinkNames :
           /\ SinkOf(a) = [kind |-> k, of |-> o] /\ k = _cfg.appenders[a].type
           /\ k \notin {"STDOUT", "STDERR"} => o = a
    <3>0. a \in SinkNames /\ "" \in SinkNames /\ _cfg.appenders[a].type \in AppenderTypes
      BY <1>2, <1>4 DEF SinkNames
    <3>1. CASE _cfg.appenders[a].type \in {"STDOUT", "STDERR"} /\ ~_cfg.appenders[a].color
      <4>1. SinkOf(a) = [kind |-> _cfg.appenders[a].type, of |-> ""]
        BY <1>4, <3>1 DEF SinkOf
      <4>2. QED
        BY <3>0, <3>1, <4>1, Zenon
    <3>2. CASE ~(_cfg.appenders[a].type \in {"STDOUT", "STDERR"} /\ ~_cfg.appenders[a].color)
      <4>1. SinkOf(a) = [kind |-> _cfg.appenders[a].type, of |-> a]
        BY <1>4, <3>2 DEF SinkOf
      <4>2. QED
        BY <3>0, <4>1, Zenon
    <3>3. QED
      BY <3>1, <3>2
  <2>2. [kind |-> k, of |-> o].kind = k /\ [kind |-> k, of |-> o].of = o
        /\ [kind |-> k, of |-> o] \in Sinks
    BY DEF Sinks
  <2>3. k # "dist"
    BY DEF AppenderTypes
  <2>4. k = "FILE" => o \in FilesInUse
    <3>1. SUFFICES ASSUME k = "FILE" PROVE a \in FilesInUse /\ o = a
      OBVIOUS
    <3>2. o = a
      BY <2>1, <3>1
    <3>3. QED
      BY <1>1, <1>4, <2>1, <3>1, <3>2 DEF FilesInUse
  <2>5. QED
    BY <1>1, <2>1, <2>2, <2>3, <2>4 DEF Reachable, IsFile, IsDist
<1>5. QED
  BY <1>3, <1>4

\* A registered logger has a sink that may be met.
LEMMA LoggerSinkReachable ==
    ASSUME RegistryInv, NEW l \in DOMAIN registry
    PROVE  Reachable(LoggerSink(l)) /\ registry[l].sink = LoggerSink(l)
<1>1. registry[l].sink = LoggerSink(l)
  BY DEF RegistryInv
<1>2. PICK as \in Seq(STRING) : as = _cfg.loggers[l].appenders
  BY ConfigFacts DEF RegistryInv, Logger
<1>3. l \in Seq(STRING)
  BY ConfigFacts DEF RegistryInv
<1>4. CASE Len(as) = 0
  <2>1. LoggerSink(l) = Null
    BY <1>2, <1>4 DEF LoggerSink
  <2>2. QED
    BY <1>1, <2>1 DEF Reachable, Sinks, IsFile, IsDist
<1>5. CASE Len(as) = 1
  <2>1. LoggerSink(l) = SinkOf(as[1]) /\ 1 \in DOMAIN as
    BY <1>2, <1>5 DEF LoggerSink
  <2>2. QED
    BY <1>1, <1>2, <2>1, AppenderSink
<1>6. CASE Len(as) # 0 /\ Len(as) # 1
  <2>1. LoggerSink(l) = [kind |-> "dist", of |-> l]
    BY <1>2, <1>6 DEF LoggerSink
  <2>2. [kind |-> "dist", of |-> l] \in Sinks /\ [kind |-> "dist", of |-> l].kind = "dist"
        /\ [kind |-> "dist", of |-> l].of = l
    BY <1>3 DEF Sinks, SinkNames
  <2>3. QED
    BY <1>1, <2>1, <2>2 DEF Reachable, IsFile, IsDist
<1>7. QED
  BY <1>4, <1>5, <1>6

\* The sink of a file in use is its own.
LEMMA FileInUse ==
    ASSUME NEW a \in FilesInUse
    PROVE  SinkOf(a) = FileSink(a)
<1>1. a \in DOMAIN _cfg.appenders /\ _cfg.appenders[a].type = "FILE"
  BY DEF FilesInUse
<1>2. QED
  BY <1>1 DEF SinkOf, FileSink

\* A sink is null, or is told by its kind and its name.
LEMMA SinkShape ==
    ASSUME NEW s \in Sinks
    PROVE  /\ IsFile(s) => s = FileSink(s.of)
           /\ \A a \in STRING : s = FileSink(a) => IsFile(s) /\ s.of = a
<1>1. CASE s = Null
  <2>1. \A a \in STRING : FileSink(a) # Null
    BY LogAssumption DEF FileSink, AppenderTypes
  <2>2. QED
    BY <1>1, <2>1 DEF IsFile
<1>2. CASE s # Null
  <2>1. s = [kind |-> s.kind, of |-> s.of]
    BY <1>2 DEF Sinks
  <2>2. QED
    BY <1>2, <2>1 DEF IsFile, FileSink
<1>3. QED
  BY <1>1, <1>2

----------------------------------------------------------------------------
(* The steps. *)

\* The set of the elements of a queue.
LEMMA QueueFacts ==
    ASSUME NEW S, NEW q \in Seq(S)
    PROVE  /\ \A r \in Seq(S) : q \o r \in Seq(S) /\ ToSet(q \o r) = ToSet(q) \cup ToSet(r)
           /\ q # <<>> => /\ Tail(q) \in Seq(S) /\ Head(q) \in S
                          /\ ToSet(q) = {Head(q)} \cup ToSet(Tail(q))
<1>1. DOMAIN q = 1 .. Len(q) /\ Len(q) \in Nat
  OBVIOUS
<1>2. ASSUME NEW r \in Seq(S)
      PROVE  q \o r \in Seq(S) /\ ToSet(q \o r) = ToSet(q) \cup ToSet(r)
  <2>1. PICK c : c = q \o r
    OBVIOUS
  <2>2. /\ c \in Seq(S) /\ Len(c) = Len(q) + Len(r) /\ Len(r) \in Nat
        /\ \A i \in 1 .. Len(c) : c[i] = IF i <= Len(q) THEN q[i] ELSE r[i - Len(q)]
    BY <2>1, ConcatProperties
  <2>3. ASSUME NEW x \in ToSet(c) PROVE x \in ToSet(q) \cup ToSet(r)
    <3>1. PICK i \in 1 .. Len(c) : x = c[i]
      BY <2>2 DEF ToSet
    <3>2. CASE i <= Len(q)
      <4>1. i \in DOMAIN q /\ x = q[i]
        BY <1>1, <2>2, <3>1, <3>2
      <4>2. QED
        BY <4>1 DEF ToSet
    <3>3. CASE ~(i <= Len(q))
      <4>1. i - Len(q) \in DOMAIN r /\ x = r[i - Len(q)]
        BY <1>1, <2>2, <3>1, <3>3
      <4>2. QED
        BY <4>1 DEF ToSet
    <3>4. QED
      BY <3>2, <3>3
  <2>4. ASSUME NEW x \in ToSet(q) PROVE x \in ToSet(c)
    <3>1. PICK i \in 1 .. Len(q) : x = q[i]
      BY <1>1 DEF ToSet
    <3>2. i \in 1 .. Len(c) /\ i <= Len(q)
      BY <1>1, <2>2
    <3>3. i \in DOMAIN c /\ x = c[i]
      BY <2>2, <3>1, <3>2
    <3>4. QED
      BY <3>3 DEF ToSet
  <2>5. ASSUME NEW x \in ToSet(r) PROVE x \in ToSet(c)
    <3>1. PICK i \in 1 .. Len(r) : x = r[i]
      BY DEF ToSet
    <3>2. PICK j \in 1 .. Len(c) : j = i + Len(q)
      BY <1>1, <2>2
    <3>3. ~(j <= Len(q)) /\ j - Len(q) = i
      BY <1>1, <2>2, <3>2
    <3>4. j \in DOMAIN c /\ x = c[j]
      BY <2>2, <3>1, <3>3
    <3>5. QED
      BY <3>4 DEF ToSet
  <2>6. ToSet(c) = ToSet(q) \cup ToSet(r)
    BY <2>3, <2>4, <2>5
  <2>7. QED
    BY <2>1, <2>2, <2>6
<1>3. ASSUME q # <<>>
      PROVE  Tail(q) \in Seq(S) /\ Head(q) \in S /\ ToSet(q) = {Head(q)} \cup ToSet(Tail(q))
  <2>1. PICK t : t = Tail(q)
    OBVIOUS
  <2>2. /\ t \in Seq(S) /\ Len(t) = Len(q) - 1 /\ Len(q) >= 1
        /\ \A i \in 1 .. Len(t) : t[i] = q[i + 1]
    BY <1>1, <1>3, <2>1, HeadTailProperties, EmptySeq
  <2>3. Head(q) = q[1] /\ q[1] \in S
    BY <1>1, <1>3, <2>2
  <2>4. ASSUME NEW x \in ToSet(q) PROVE x = q[1] \/ x \in ToSet(t)
    <3>1. PICK i \in 1 .. Len(q) : x = q[i]
      BY <1>1 DEF ToSet
    <3>2. CASE i = 1
      BY <3>1, <3>2
    <3>3. CASE i # 1
      <4>1. PICK j \in 1 .. Len(t) : j + 1 = i
        <5>1. i - 1 \in 1 .. Len(t) /\ (i - 1) + 1 = i
          BY <1>1, <2>2, <3>3
        <5>2. QED
          BY <5>1
      <4>2. j \in DOMAIN t /\ x = t[j]
        BY <2>2, <3>1, <4>1
      <4>3. QED
        BY <4>2 DEF ToSet
    <3>4. QED
      BY <3>2, <3>3
  <2>5. ASSUME NEW x \in ToSet(t) PROVE x \in ToSet(q)
    <3>1. PICK i \in 1 .. Len(t) : x = t[i]
      BY <2>2 DEF ToSet
    <3>2. i + 1 \in DOMAIN q /\ x = q[i + 1]
      BY <1>1, <2>2, <3>1
    <3>3. QED
      BY <3>2 DEF ToSet
  <2>6. q[1] \in ToSet(q)
    <3>1. 1 \in DOMAIN q
      BY <1>1, <2>2
    <3>2. QED
      BY <3>1 DEF ToSet
  <2>7. ToSet(q) = {q[1]} \cup ToSet(t)
    BY <2>4, <2>5, <2>6
  <2>8. QED
    BY <2>1, <2>2, <2>3, <2>7
<1>4. QED
  BY <1>2, <1>3

\* Start, select and create read the registry, which is the same.
LEMMA SameRegistry ==
    ASSUME RegistryInv, UNCHANGED fixedVars
    PROVE  /\ RegistryInv' /\ FilesInUse' = FilesInUse
           /\ \A l : LoggerSink(l)' = LoggerSink(l)
           /\ \A s : DistSinks(s)' = DistSinks(s)
           /\ \A s : Reachable(s)' <=> Reachable(s)
<1>1. _cfg' = _cfg /\ registry' = registry /\ _root' = _root
  BY DEF fixedVars
<1>2. \A a : SinkOf(a)' = SinkOf(a)
  BY <1>1 DEF SinkOf
<1>3. \A l : LoggerSink(l)' = LoggerSink(l)
  BY <1>1, <1>2 DEF LoggerSink
<1>4. \A s : DistSinks(s)' = DistSinks(s)
  BY <1>1, <1>2 DEF DistSinks
<1>5. FilesInUse' = FilesInUse
  BY <1>1 DEF FilesInUse
<1>6. RegistryInv'
  BY <1>1, <1>3 DEF RegistryInv
<1>7. \A s : Reachable(s)' <=> Reachable(s)
  BY <1>1, <1>5 DEF Reachable
<1>8. QED
  BY <1>3, <1>4, <1>5, <1>6, <1>7

\* A step that is not part of reopen_all.
LEMMA ElsewhereStep ==
    ASSUME LogInv, UNCHANGED <<_cfg, reopenVars>>, call'.op # "reopen_all" PROVE ReopenInv'
<1>1. ~InReopen' /\ call' # Call("reopen_all", "done")
  BY DEF InReopen, Call
<1>2. QED
  BY <1>1 DEF LogInv, ReopenInv, reopenVars

\* A step that is not part of create.
LEMMA OtherCallStep ==
    ASSUME NEW op \in {"Start", "reopen_all"}, NEW st \in {"run", "done", "throws"},
           call' = Call(op, st)
    PROVE  CreateInv' /\ call'.op = op
<1>1. call' \in Outcome /\ call'.op = op /\ op # "create"
  BY DEF Call, Outcome
<1>2. call' \notin Creation
  BY <1>1 DEF Creation
<1>3. QED
  BY <1>1, <1>2 DEF CreateInv

\* Nothing is registered before the first Start.
LEMMA LogInitStep == ASSUME LogInit(Configs) PROVE LogInv
<1>1. /\ _cfg \in Configs /\ DOMAIN registry = {} /\ _root = Null /\ call = NoCall
      /\ reopened = [a \in DOMAIN _cfg.appenders |-> 0]
  BY DEF LogInit
<1>2. RegistryInv
  BY <1>1 DEF RegistryInv
<1>3. call \in Outcome /\ call.op = "none"
  BY <1>1 DEF NoCall, Outcome
<1>4. CreateInv
  BY <1>3 DEF CreateInv, Creation
<1>5. ReopenInv
  <2>1. ~InReopen /\ call # Call("reopen_all", "done")
    BY <1>3 DEF InReopen, Call
  <2>2. QED
    BY <1>1, <2>1 DEF ReopenInv
<1>6. QED
  BY <1>2, <1>4, <1>5 DEF LogInv

\* Start that throws in its first loop, or because of an earlier Start.
LEMMA StartThrowsStep ==
    ASSUME LogInv, StartAppenderThrows \/ StartAgainThrows PROVE LogInv'
<1>1. call' = Call("Start", "throws") /\ UNCHANGED <<fixedVars, reopenVars>>
  BY DEF StartAppenderThrows, StartAgainThrows
<1>2. CreateInv' /\ call'.op = "Start"
  BY <1>1, OtherCallStep
<1>3. RegistryInv'
  BY <1>1, SameRegistry DEF LogInv
<1>4. ReopenInv'
  BY <1>1, <1>2, ElsewhereStep DEF fixedVars
<1>5. QED
  BY <1>2, <1>3, <1>4 DEF LogInv

\* Start registers the loggers of the configuration, each with its sink and its pattern.
LEMMA StartLoggersStep == ASSUME LogInv, StartLoggers PROVE LogInv'
<1>1. /\ \A a \in DOMAIN _cfg.appenders : _cfg.appenders[a].type \in AppenderTypes
      /\ registry' = [l \in DOMAIN _cfg.loggers |->
                        [sink |-> LoggerSink(l), format |-> _cfg.loggers[l].format]]
      /\ _root' = IF Root \in DOMAIN _cfg.loggers THEN Root ELSE Null
      /\ UNCHANGED <<_cfg, reopenVars>>
  BY DEF StartLoggers
<1>2. PICK st \in {"run", "done", "throws"} : call' = Call("Start", st)
  BY DEF StartLoggers
<1>3. CreateInv' /\ call'.op = "Start"
  BY <1>2, OtherCallStep
<1>4. RegistryInv'
  <2>1. \A l : LoggerSink(l)' = LoggerSink(l)
    <3>1. \A a : SinkOf(a)' = SinkOf(a)
      BY <1>1 DEF SinkOf
    <3>2. QED
      BY <1>1, <3>1 DEF LoggerSink
  <2>2. _cfg' \in Configs /\ \A l \in DOMAIN _cfg.loggers : _cfg.loggers[l].format \in Seq(STRING)
    <3>1. _cfg \in Configs
      BY DEF LogInv, RegistryInv
    <3>2. QED
      BY <1>1, <3>1, ConfigFacts DEF Logger
  <2>3. /\ DOMAIN registry' = DOMAIN _cfg.loggers
        /\ \A l \in DOMAIN _cfg.loggers :
              registry'[l].sink = LoggerSink(l) /\ registry'[l].format = _cfg.loggers[l].format
    BY <1>1
  <2>4. QED
    BY <1>1, <2>1, <2>2, <2>3 DEF RegistryInv
<1>5. ReopenInv'
  BY <1>1, <1>3, ElsewhereStep
<1>6. QED
  BY <1>3, <1>4, <1>5 DEF LogInv

----------------------------------------------------------------------------
(* create. *)

\* The names of the registry are names of loggers of the configuration.
LEMMA RegistryNames == ASSUME RegistryInv PROVE DOMAIN registry \subseteq Seq(STRING) \ {<<>>}
<1>1. CASE DOMAIN registry = {}
  BY <1>1
<1>2. CASE DOMAIN registry # {}
  BY <1>2, ConfigFacts DEF RegistryInv
<1>3. QED
  BY <1>1, <1>2

\* create without a logger dies, with one it starts at the first character.
LEMMA CreateCallStep == ASSUME LogInv, NEW name \in LogNames, Create(name) PROVE LogInv'
<1>1. UNCHANGED <<fixedVars, reopenVars>> /\ it' = 1 /\ ss' = <<>>
  BY DEF Create
<1>2. PICK l : l = Select(name)
  OBVIOUS
<1>3. l = Null \/ l \in DOMAIN registry
  <2>1. SelectNearest
    BY RegistryNames, SelectNearestHolds DEF LogInv
  <2>2. /\ Own(name) = {} => l = _root
        /\ Own(name) # {} => l \in Own(name)
    BY <1>2, <2>1 DEF SelectNearest, Own
  <2>3. Own(name) \subseteq DOMAIN registry
    BY DEF Own
  <2>4. QED
    BY <2>2, <2>3 DEF LogInv, RegistryInv
<1>4. RegistryInv'
  BY <1>1, SameRegistry DEF LogInv
<1>5. CreateInv' /\ call'.op = "create"
  <2>1. CASE l = Null
    <3>1. call' = Call("create", "null")
      BY <1>2, <2>1 DEF Create
    <3>2. call' \in Outcome /\ call'.op = "create" /\ call'.state = "null"
      BY <3>1 DEF Call, Outcome
    <3>3. call' \notin Creation
      BY <3>2 DEF Creation
    <3>4. QED
      BY <3>2, <3>3 DEF CreateInv
  <2>2. CASE l # Null
    <3>1. PICK p \in Seq(STRING) : p = registry[l].format
      BY <1>3, <2>2 DEF LogInv, RegistryInv
    <3>2. call' = [op |-> "create", state |-> "run", pattern |-> p]
      BY <1>2, <2>2, <3>1 DEF Create
    <3>3. call' \in Creation /\ call'.op = "create" /\ call'.state = "run" /\ call'.pattern = p
      BY <3>2 DEF Creation
    <3>4. Len(p) \in Nat /\ SubSeq(p, 1, 0) = <<>>
      BY SubSeqProperties, EmptySeq
    <3>5. Creating(p, 1, <<>>)
      <4>1. ~(1 > Len(p) + 1) /\ 1 - 1 = 0
        BY <3>4
      <4>2. QED
        BY <3>4, <4>1 DEF Creating
    <3>6. QED
      BY <1>1, <3>3, <3>5 DEF CreateInv
  <2>3. QED
    BY <2>1, <2>2
<1>6. ReopenInv'
  BY <1>1, <1>5, ElsewhereStep DEF fixedVars
<1>7. QED
  BY <1>4, <1>5, <1>6 DEF LogInv

\* One round of the loop over the pattern.
LEMMA CreateRound ==
    ASSUME NEW p \in Seq(STRING), NEW i, NEW t, Creating(p, i, t), i <= Len(p)
    PROVE  Creating(p, Expand(p, i).next, t \o Expand(p, i).out)
<1>1. PICK n : n = Expand(p, i).next
  OBVIOUS
<1>2. PICK o : o = Expand(p, i).out
  OBVIOUS
<1>3. i \in Nat /\ i >= 1 /\ Len(p) \in Nat /\ i \in 1 .. Len(p) /\ i <= Len(p) + 1
  BY DEF Creating
<1>4. /\ n \in Nat /\ n > i
      /\ n > Len(p) + 1 => EndsOpen(p)
      /\ ~HasMDC(p) /\ n <= Len(p) + 1 => o = SubSeq(p, i, n - 1)
  BY <1>1, <1>2, <1>3, ExpandFacts
<1>5. ASSUME ~HasMDC(p), n <= Len(p) + 1 PROVE t \o o = SubSeq(p, 1, n - 1)
  <2>1. t = SubSeq(p, 1, i - 1) /\ o = SubSeq(p, i, n - 1)
    BY <1>3, <1>4, <1>5 DEF Creating
  <2>2. /\ 1 \in 1 .. Len(p) + 1 /\ i - 1 \in 0 .. Len(p) /\ n - 1 \in i - 1 .. Len(p)
        /\ (i - 1) + 1 = i
    BY <1>3, <1>4, <1>5
  <2>3. PICK a, b, c : a = SubSeq(p, 1, i - 1) /\ b = SubSeq(p, i, n - 1) /\ c = SubSeq(p, 1, n - 1)
    OBVIOUS
  <2>4. /\ a \in Seq(STRING) /\ Len(a) = i - 1
        /\ \A k \in 1 .. i - 1 : a[k] = p[k]
    BY <1>3, <2>2, <2>3, SubSeqProperties
  <2>5. /\ b \in Seq(STRING) /\ Len(b) = n - i
        /\ \A k \in 1 .. n - i : b[k] = p[i + k - 1]
    BY <1>3, <1>4, <1>5, <2>2, <2>3, SubSeqProperties
  <2>6. /\ c \in Seq(STRING) /\ Len(c) = n - 1
        /\ \A k \in 1 .. n - 1 : c[k] = p[k]
    BY <1>3, <1>4, <1>5, <2>2, <2>3, SubSeqProperties
  <2>7. PICK d : d = a \o b
    OBVIOUS
  <2>8. /\ d \in Seq(STRING) /\ Len(d) = n - 1
        /\ \A k \in 1 .. n - 1 : d[k] = IF k <= i - 1 THEN a[k] ELSE b[k - (i - 1)]
    <3>1. Len(a) + Len(b) = n - 1
      BY <1>3, <1>4, <2>4, <2>5
    <3>2. /\ d \in Seq(STRING) /\ Len(d) = Len(a) + Len(b)
          /\ \A k \in 1 .. Len(a) + Len(b) : d[k] = IF k <= Len(a) THEN a[k] ELSE b[k - Len(a)]
      BY <2>4, <2>5, <2>7, ConcatProperties, ZenonT(40)
    <3>3. QED
      BY <2>4, <3>1, <3>2
  <2>9. ASSUME NEW k \in 1 .. n - 1 PROVE d[k] = c[k]
    <3>1. CASE k <= i - 1
      <4>1. k \in 1 .. i - 1
        BY <1>3, <3>1
      <4>2. QED
        BY <2>4, <2>6, <2>8, <3>1, <4>1
    <3>2. CASE ~(k <= i - 1)
      <4>1. k - (i - 1) \in 1 .. n - i /\ i + (k - (i - 1)) - 1 = k
        BY <1>3, <1>4, <3>2
      <4>2. b[k - (i - 1)] = p[k]
        BY <2>5, <4>1
      <4>3. QED
        BY <2>6, <2>8, <3>2, <4>2
    <3>3. QED
      BY <3>1, <3>2
  <2>10. d = c
    BY <2>6, <2>8, <2>9, SeqEqual
  <2>11. QED
    BY <2>1, <2>3, <2>7, <2>10
<1>6. n >= 1
  BY <1>3, <1>4
<1>7. QED
  BY <1>1, <1>2, <1>4, <1>5, <1>6 DEF Creating

\* A round of create moves on in the pattern.
LEMMA CreateStepStep == ASSUME LogInv, CreateStep PROVE LogInv'
<1>1. /\ call.op = "create" /\ call.state = "run" /\ it <= Len(call.pattern)
      /\ ss' = ss \o Expand(call.pattern, it).out /\ it' = Expand(call.pattern, it).next
      /\ UNCHANGED <<fixedVars, call, reopenVars>>
  BY DEF CreateStep
<1>2. call \in Creation /\ Creating(call.pattern, it, ss) /\ call.pattern \in Seq(STRING)
  <2>1. call \in Creation
    BY <1>1 DEF LogInv, CreateInv
  <2>2. QED
    BY <2>1 DEF LogInv, CreateInv, Creation
<1>3. Creating(call.pattern, it', ss')
  BY <1>1, <1>2, CreateRound
<1>4. CreateInv'
  BY <1>1, <1>2, <1>3 DEF CreateInv, LogInv
<1>5. RegistryInv'
  BY <1>1, SameRegistry DEF LogInv
<1>6. ReopenInv'
  BY <1>1, ElsewhereStep DEF fixedVars
<1>7. QED
  BY <1>4, <1>5, <1>6 DEF LogInv

\* create ends at the end of the pattern, or behind it.
LEMMA CreateEndsStep == ASSUME LogInv, CreateEnds PROVE LogInv'
<1>1. /\ call.op = "create" /\ call.state = "run" /\ it > Len(call.pattern)
      /\ call' = [call EXCEPT !.state = IF it = Len(call.pattern) + 1 THEN "done" ELSE "overrun"]
      /\ UNCHANGED <<fixedVars, reopenVars, createVars>>
  BY DEF CreateEnds
<1>2. call \in Creation
  BY <1>1 DEF LogInv, CreateInv
<1>3. Creating(call.pattern, it, ss) /\ call.pattern \in Seq(STRING)
  BY <1>2 DEF LogInv, CreateInv, Creation
<1>4. /\ call' \in Creation /\ call'.op = "create" /\ call'.pattern = call.pattern
      /\ call'.state = IF it = Len(call.pattern) + 1 THEN "done" ELSE "overrun"
  BY <1>1, <1>2 DEF Creation
<1>5. it = Len(call.pattern) + 1 \/ it > Len(call.pattern) + 1
  BY <1>1, <1>3 DEF Creating
<1>6. it' = it /\ ss' = ss
  BY <1>1 DEF createVars
<1>7. CreateInv'
  BY <1>3, <1>4, <1>5, <1>6 DEF CreateInv
<1>8. RegistryInv'
  BY <1>1, SameRegistry DEF LogInv
<1>9. ReopenInv'
  BY <1>1, <1>4, ElsewhereStep DEF fixedVars
<1>10. QED
  BY <1>7, <1>8, <1>9 DEF LogInv

----------------------------------------------------------------------------
(* reopen_all. *)

\* The queue and what was visited, after a step within reopen_all.
LEMMA WalkingStep ==
    ASSUME LogInv, UNCHANGED <<fixedVars, call>>, InReopen, Walking',
           reopened' \in [DOMAIN _cfg.appenders -> {0, 1}]
    PROVE  LogInv'
<1>1. RegistryInv' /\ _cfg' = _cfg
  BY SameRegistry DEF LogInv, fixedVars
<1>2. CreateInv'
  <2>1. call' = Call("reopen_all", "run")
    BY DEF InReopen
  <2>2. QED
    BY <2>1, OtherCallStep
<1>3. ReopenInv'
  <2>1. call' # Call("reopen_all", "done")
    BY DEF InReopen, Call
  <2>2. QED
    BY <1>1, <2>1 DEF ReopenInv
<1>4. QED
  BY <1>1, <1>2, <1>3 DEF LogInv

\* The sinks of the loggers are queued, all of them in whatever order.
LEMMA ReopenAllStep == ASSUME LogInv, ReopenAll PROVE LogInv'
<1>1. /\ call' = Call("reopen_all", "run") /\ seen' = {}
      /\ reopened' = [a \in DOMAIN _cfg.appenders |-> 0]
      /\ UNCHANGED <<fixedVars, createVars>>
  BY DEF ReopenAll
<1>0. PICK n : n = Cardinality(DOMAIN registry)
  OBVIOUS
<1>2. PICK visit \in [1 .. n -> DOMAIN registry] :
         /\ \A l \in DOMAIN registry : \E i \in DOMAIN visit : visit[i] = l
         /\ deque' = [i \in DOMAIN visit |-> registry[visit[i]].sink]
  BY <1>0 DEF ReopenAll
<1>3. n \in Nat
  <2>1. IsFiniteSet(DOMAIN registry)
    <3>1. CASE DOMAIN registry = {}
      BY <3>1, FS_EmptySet
    <3>2. CASE DOMAIN registry # {}
      BY <3>2, ConfigFacts DEF LogInv, RegistryInv
    <3>3. QED
      BY <3>1, <3>2
  <2>2. QED
    BY <1>0, <2>1, FS_CardinalityType
<1>4. \A l \in DOMAIN registry : Reachable(LoggerSink(l)) /\ registry[l].sink = LoggerSink(l)
  BY LoggerSinkReachable DEF LogInv
<1>5. /\ RegistryInv' /\ _cfg' = _cfg /\ registry' = registry
      /\ \A l : LoggerSink(l)' = LoggerSink(l)
      /\ \A s : Reachable(s)' <=> Reachable(s)
  BY <1>1, SameRegistry DEF LogInv, fixedVars
<1>6. CreateInv'
  BY <1>1, OtherCallStep
<1>7. Walking'
  <2>1. \A i \in 1 .. n : /\ visit[i] \in DOMAIN registry
                          /\ registry[visit[i]].sink = LoggerSink(visit[i])
                          /\ Reachable(registry[visit[i]].sink)
    BY <1>2, <1>4
  <2>2. DOMAIN visit = 1 .. n /\ DOMAIN deque' = 1 .. n
        /\ \A i \in 1 .. n : deque'[i] = registry[visit[i]].sink
    BY <1>2
  <2>3. deque' \in Seq(Sinks)
    <3>1. deque' \in [1 .. n -> Sinks]
      BY <1>2, <2>1, <2>2 DEF Reachable
    <3>2. QED
      BY <1>3, <3>1, SeqDef
  <2>4. ToSet(deque') = {deque'[i] : i \in 1 .. n}
    BY <2>2 DEF ToSet
  <2>5. \A s \in ToSet(deque') : Reachable(s)'
    BY <1>5, <2>1, <2>2, <2>4
  <2>6. \A l \in DOMAIN registry : LoggerSink(l) \in ToSet(deque')
    BY <1>2, <2>1, <2>2, <2>4
  <2>7. \A a \in DOMAIN reopened' : reopened'[a] = IF FileSink(a) \in seen' THEN 1 ELSE 0
    BY <1>1
  <2>8. QED
    BY <1>1, <1>5, <2>3, <2>5, <2>6, <2>7 DEF Walking
<1>8. ReopenInv'
  <2>1. call' # Call("reopen_all", "done")
    BY <1>1 DEF Call
  <2>2. QED
    BY <1>1, <1>5, <1>7, <2>1 DEF ReopenInv
<1>9. QED
  BY <1>5, <1>6, <1>8 DEF LogInv

\* A sink that was visited leaves the queue.
LEMMA ReopenSeenStep == ASSUME LogInv, ReopenSeen PROVE LogInv'
<1>1. /\ InReopen /\ deque # <<>> /\ Head(deque) \in seen /\ deque' = Tail(deque)
      /\ UNCHANGED <<fixedVars, call, seen, reopened>>
  BY DEF ReopenSeen
<1>2. Walking
  BY <1>1 DEF LogInv, ReopenInv
<1>3. deque' \in Seq(Sinks) /\ ToSet(deque) = {Head(deque)} \cup ToSet(deque')
  BY <1>1, <1>2, QueueFacts DEF Walking
<1>4. seen' = seen /\ reopened' = reopened /\ registry' = registry
      /\ seen' \cup ToSet(deque') = seen \cup ToSet(deque)
  BY <1>1, <1>3 DEF fixedVars
<1>5. /\ \A l : LoggerSink(l)' = LoggerSink(l)
      /\ \A s : DistSinks(s)' = DistSinks(s)
      /\ \A s : Reachable(s)' <=> Reachable(s)
  BY <1>1, SameRegistry DEF LogInv
<1>6. Walking'
  BY <1>2, <1>3, <1>4, <1>5 DEF Walking
<1>7. reopened' \in [DOMAIN _cfg.appenders -> {0, 1}]
  BY <1>1 DEF LogInv, ReopenInv
<1>8. QED
  BY <1>1, <1>6, <1>7, WalkingStep

\* The sinks behind a dist_sink that may be met may be met.
LEMMA DistReachable ==
    ASSUME RegistryInv, NEW s, Reachable(s), IsDist(s)
    PROVE  DistSinks(s) \in Seq(Sinks) /\ \A t \in ToSet(DistSinks(s)) : Reachable(t)
<1>1. PICK l \in DOMAIN registry : l = s.of
  BY DEF Reachable
<1>2. PICK as \in Seq(STRING) : as = _cfg.loggers[l].appenders
  BY ConfigFacts DEF RegistryInv, Logger
<1>3. PICK d : d = DistSinks(s)
  OBVIOUS
<1>4. d = [i \in DOMAIN as |-> SinkOf(as[i])] /\ DOMAIN as = 1 .. Len(as) /\ Len(as) \in Nat
  BY <1>1, <1>2, <1>3 DEF DistSinks
<1>5. \A i \in DOMAIN as : Reachable(SinkOf(as[i]))
  BY <1>2, AppenderSink
<1>6. DOMAIN d = 1 .. Len(as) /\ \A i \in DOMAIN d : Reachable(d[i])
  BY <1>4, <1>5
<1>7. d \in [1 .. Len(as) -> Sinks]
  BY <1>4, <1>5 DEF Reachable
<1>8. d \in Seq(Sinks)
  <2>1. Len(as) \in Nat
    BY <1>4
  <2>2. \E n \in Nat : d \in [1 .. n -> Sinks]
    BY <1>7, <2>1, Zenon
  <2>3. QED
    BY <2>2, SeqDef, SMTT(30)
<1>9. \A t \in ToSet(d) : Reachable(t)
  BY <1>6 DEF ToSet
<1>10. QED
  BY <1>3, <1>8, <1>9

\* A sink is visited: its file is counted once, the sinks behind it wait.
LEMMA ReopenVisitStep == ASSUME LogInv, ReopenVisit(FALSE) PROVE LogInv'
<1>1. PICK s : s = Head(deque)
  OBVIOUS
<1>2. PICK more : more = IF IsDist(s) THEN DistSinks(s) ELSE <<>>
  OBVIOUS
<1>3. /\ InReopen /\ deque # <<>> /\ s \notin seen
      /\ seen' = seen \cup {s} /\ deque' = Tail(deque) \o more
      /\ reopened' = IF IsFile(s) THEN [reopened EXCEPT ![s.of] = @ + 1] ELSE reopened
      /\ UNCHANGED <<fixedVars, call>>
  BY <1>1, <1>2 DEF ReopenVisit
<1>4. Walking /\ RegistryInv /\ reopened \in [DOMAIN _cfg.appenders -> {0, 1}]
  BY <1>3 DEF LogInv, ReopenInv
<1>5. Tail(deque) \in Seq(Sinks) /\ ToSet(deque) = {s} \cup ToSet(Tail(deque)) /\ s \in Sinks
  BY <1>1, <1>3, <1>4, QueueFacts DEF Walking
<1>6. Reachable(s)
  BY <1>4, <1>5 DEF Walking
<1>7. /\ more \in Seq(Sinks) /\ \A t \in ToSet(more) : Reachable(t)
      /\ IsDist(s) => more = DistSinks(s)
  <2>1. CASE IsDist(s)
    BY <1>2, <1>4, <1>6, <2>1, DistReachable
  <2>2. CASE ~IsDist(s)
    <3>1. more = <<>> /\ ToSet(more) = {}
      BY <1>2, <2>2 DEF ToSet
    <3>2. QED
      BY <2>2, <3>1
  <2>3. QED
    BY <2>1, <2>2
<1>8. deque' \in Seq(Sinks) /\ ToSet(deque') = ToSet(Tail(deque)) \cup ToSet(more)
  <2>1. PICK q \in Seq(Sinks) : q = Tail(deque)
    BY <1>5
  <2>2. q \o more \in Seq(Sinks) /\ ToSet(q \o more) = ToSet(q) \cup ToSet(more)
    <3>1. \A r \in Seq(Sinks) : q \o r \in Seq(Sinks) /\ ToSet(q \o r) = ToSet(q) \cup ToSet(r)
      BY QueueFacts
    <3>2. more \in Seq(Sinks)
      BY <1>7
    <3>3. QED
      BY <3>1, <3>2, ZenonT(40)
  <2>3. QED
    BY <1>3, <2>1, <2>2, Zenon
<1>9. seen' \cup ToSet(deque') = seen \cup ToSet(deque) \cup ToSet(more)
  BY <1>3, <1>5, <1>8
<1>10. /\ \A l : LoggerSink(l)' = LoggerSink(l)
       /\ \A t : DistSinks(t)' = DistSinks(t)
       /\ \A t : Reachable(t)' <=> Reachable(t)
       /\ registry' = registry /\ _cfg' = _cfg
  BY <1>3, <1>4, SameRegistry DEF fixedVars
<1>11. /\ reopened' \in [DOMAIN _cfg.appenders -> {0, 1}]
       /\ \A a \in DOMAIN _cfg.appenders : reopened'[a] = IF FileSink(a) \in seen' THEN 1 ELSE 0
  <2>1. DOMAIN _cfg.appenders \subseteq STRING
    BY <1>4, ConfigFacts DEF RegistryInv
  <2>2. \A a \in DOMAIN _cfg.appenders : s = FileSink(a) => IsFile(s) /\ s.of = a
    BY <1>5, <2>1, SinkShape
  <2>3. \A a \in DOMAIN _cfg.appenders : reopened[a] = IF FileSink(a) \in seen THEN 1 ELSE 0
    BY <1>4 DEF Walking
  <2>4. CASE IsFile(s)
    <3>1. PICK f \in DOMAIN _cfg.appenders : f = s.of /\ s = FileSink(f)
      BY <1>5, <1>6, <2>4, SinkShape DEF Reachable, FilesInUse
    <3>2. reopened[f] = 0
      BY <1>3, <2>3, <3>1
    <3>3. reopened' = [reopened EXCEPT ![f] = 1]
      <4>1. reopened' = [reopened EXCEPT ![f] = reopened[f] + 1]
        BY <1>3, <2>4, <3>1
      <4>2. QED
        BY <3>2, <4>1
    <3>4. \A a \in DOMAIN _cfg.appenders : a # f => FileSink(a) # s
      BY <2>2, <3>1
    <3>5. /\ reopened' \in [DOMAIN _cfg.appenders -> {0, 1}] /\ reopened'[f] = 1
          /\ \A a \in DOMAIN _cfg.appenders : a # f => reopened'[a] = reopened[a]
      BY <1>4, <3>3
    <3>6. \A a \in DOMAIN _cfg.appenders : a # f => (FileSink(a) \in seen' <=> FileSink(a) \in seen)
      BY <1>3, <3>4
    <3>7. FileSink(f) \in seen'
      BY <1>3, <3>1
    <3>8. QED
      BY <2>3, <3>5, <3>6, <3>7
  <2>5. CASE ~IsFile(s)
    <3>1. reopened' = reopened
      BY <1>3, <2>5
    <3>2. \A a \in DOMAIN _cfg.appenders : FileSink(a) \in seen' <=> FileSink(a) \in seen
      BY <1>3, <2>2, <2>5
    <3>3. QED
      BY <1>4, <2>3, <3>1, <3>2
  <2>6. QED
    BY <2>4, <2>5
<1>12. Walking'
  <2>1. \A t \in seen' \cup ToSet(deque') : Reachable(t)'
    BY <1>4, <1>7, <1>9, <1>10 DEF Walking
  <2>2. \A l \in DOMAIN registry' : LoggerSink(l)' \in seen' \cup ToSet(deque')
    BY <1>4, <1>9, <1>10 DEF Walking
  <2>3. \A t \in seen' : IsDist(t) => ToSet(DistSinks(t)) \subseteq seen' \cup ToSet(deque')
    <3>1. \A t \in seen : IsDist(t) => ToSet(DistSinks(t)) \subseteq seen' \cup ToSet(deque')
      BY <1>4, <1>9 DEF Walking
    <3>2. IsDist(s) => ToSet(DistSinks(s)) \subseteq seen' \cup ToSet(deque')
      BY <1>7, <1>9
    <3>3. QED
      BY <1>3, <3>1, <3>2
  <2>4. \A a \in DOMAIN reopened' : reopened'[a] = IF FileSink(a) \in seen' THEN 1 ELSE 0
    BY <1>11
  <2>5. \A t : IsDist(t)' <=> IsDist(t)
    BY DEF IsDist
  <2>6. \A t \in seen' : IsDist(t)' => ToSet(DistSinks(t)') \subseteq seen' \cup ToSet(deque')
    BY <1>10, <2>3, <2>5
  <2>7. QED
    BY <1>8, <2>1, <2>2, <2>4, <2>6 DEF Walking
<1>13. QED
  BY <1>3, <1>11, <1>12, WalkingStep

\* A file that cannot be reopened ends the call.
LEMMA ReopenFailsStep == ASSUME LogInv, ReopenVisit(TRUE) PROVE LogInv'
<1>1. /\ call' = Call("reopen_all", "throws") /\ reopened' = reopened
      /\ UNCHANGED fixedVars
  BY DEF ReopenVisit
<1>2. CreateInv'
  BY <1>1, OtherCallStep
<1>3. RegistryInv' /\ _cfg' = _cfg
  BY <1>1, SameRegistry DEF LogInv, fixedVars
<1>4. ReopenInv'
  <2>1. ~InReopen' /\ call' # Call("reopen_all", "done")
    BY <1>1 DEF InReopen, Call
  <2>2. QED
    BY <1>1, <1>3, <2>1 DEF LogInv, ReopenInv
<1>5. QED
  BY <1>2, <1>3, <1>4 DEF LogInv

\* The queue is empty: what was visited is all that can be reached, so the files
\* reopened are the files in use.
LEMMA ReopenEndsStep == ASSUME LogInv, ReopenEnds PROVE LogInv'
<1>1. InReopen /\ deque = <<>> /\ call' = Call("reopen_all", "done")
      /\ UNCHANGED <<fixedVars, reopenVars>>
  BY DEF ReopenEnds
<1>2. Walking /\ RegistryInv /\ reopened \in [DOMAIN _cfg.appenders -> {0, 1}]
  BY <1>1 DEF LogInv, ReopenInv
<1>3. ToSet(deque) = {}
  BY <1>1 DEF ToSet
<1>4. ASSUME NEW a \in DOMAIN _cfg.appenders, FileSink(a) \in seen PROVE a \in FilesInUse
  <2>1. a \in STRING
    BY <1>2, ConfigFacts DEF RegistryInv
  <2>2. FileSink(a) \in Sinks /\ Reachable(FileSink(a))
    BY <1>2, <1>4 DEF Walking, Reachable
  <2>3. IsFile(FileSink(a)) /\ FileSink(a).of = a
    BY <2>1, <2>2, SinkShape
  <2>4. QED
    BY <2>2, <2>3 DEF Reachable
<1>5. ASSUME NEW a \in FilesInUse PROVE FileSink(a) \in seen
  <2>0. PICK l \in DOMAIN registry : \E i \in DOMAIN _cfg.loggers[l].appenders :
                                         _cfg.loggers[l].appenders[i] = a
    BY DEF FilesInUse
  <2>1. PICK i \in DOMAIN _cfg.loggers[l].appenders : _cfg.loggers[l].appenders[i] = a
    BY <2>0
  <2>2. PICK as \in Seq(STRING) : as = _cfg.loggers[l].appenders
    BY <1>2, ConfigFacts DEF RegistryInv, Logger
  <2>3. i \in 1 .. Len(as) /\ as[i] = a /\ Len(as) \in Nat
    BY <2>1, <2>2
  <2>4. SinkOf(a) = FileSink(a)
    BY FileInUse
  <2>5. LoggerSink(l) \in seen
    BY <1>2, <1>3 DEF Walking
  <2>6. CASE Len(as) = 1
    <3>1. i = 1
      BY <2>3, <2>6
    <3>2. LoggerSink(l) = SinkOf(a)
      BY <2>2, <2>3, <2>6, <3>1 DEF LoggerSink
    <3>3. QED
      BY <2>4, <2>5, <3>2
  <2>7. CASE Len(as) # 1
    <3>1. Len(as) # 0
      <4>1. PICK n \in Nat : n = Len(as)
        BY <2>3
      <4>2. PICK k \in 1 .. n : k = i
        BY <2>3, <4>1, Zenon
      <4>3. n # 0
        OBVIOUS
      <4>4. QED
        BY <4>1, <4>3
    <3>2. PICK d : d = [kind |-> "dist", of |-> l]
      OBVIOUS
    <3>3. LoggerSink(l) = d
      BY <2>2, <2>7, <3>1, <3>2 DEF LoggerSink
    <3>4. l \in Seq(STRING)
      BY <1>2, RegistryNames
    <3>5. d.kind = "dist" /\ d.of = l /\ d # Null
      BY <3>2, <3>4, LogAssumption
    <3>6. ToSet(DistSinks(d)) \subseteq seen
      BY <1>2, <1>3, <2>5, <3>3, <3>5 DEF Walking, IsDist
    <3>7. DistSinks(d) = [j \in DOMAIN as |-> SinkOf(as[j])]
      BY <2>2, <3>5 DEF DistSinks
    <3>8. SinkOf(a) \in ToSet(DistSinks(d))
      BY <2>1, <2>2, <3>7 DEF ToSet
    <3>9. QED
      BY <2>4, <3>6, <3>8
  <2>8. QED
    BY <2>6, <2>7
<1>6. \A a \in DOMAIN _cfg.appenders : (reopened[a] = 1) = (a \in FilesInUse)
  <2>1. \A a \in DOMAIN _cfg.appenders : reopened[a] = IF FileSink(a) \in seen THEN 1 ELSE 0
    BY <1>2 DEF Walking
  <2>2. \A a \in DOMAIN _cfg.appenders : FileSink(a) \in seen <=> a \in FilesInUse
    BY <1>4, <1>5
  <2>3. QED
    BY <2>1, <2>2
<1>7. RegistryInv' /\ FilesInUse' = FilesInUse /\ _cfg' = _cfg /\ reopened' = reopened
  BY <1>1, <1>2, SameRegistry DEF fixedVars, reopenVars
<1>8. CreateInv'
  BY <1>1, OtherCallStep
<1>9. ReopenInv'
  <2>1. ~InReopen'
    BY <1>1 DEF InReopen, Call
  <2>2. QED
    BY <1>2, <1>6, <1>7, <2>1 DEF ReopenInv
<1>10. QED
  BY <1>7, <1>8, <1>9 DEF LogInv

----------------------------------------------------------------------------
\* Every step of the service keeps the invariant.
LEMMA LogStep == ASSUME LogInv, [LogNext]_logVars PROVE LogInv'
<1>1. CASE StartAppenderThrows \/ StartAgainThrows
  BY <1>1, StartThrowsStep
<1>2. CASE StartLoggers
  BY <1>2, StartLoggersStep
<1>3. ASSUME NEW name \in LogNames, Create(name) PROVE LogInv'
  BY <1>3, CreateCallStep
<1>4. CASE CreateStep
  BY <1>4, CreateStepStep
<1>5. CASE CreateEnds
  BY <1>5, CreateEndsStep
<1>6. CASE ReopenAll
  BY <1>6, ReopenAllStep
<1>7. CASE ReopenSeen
  BY <1>7, ReopenSeenStep
<1>8. CASE ReopenEnds
  BY <1>8, ReopenEndsStep
<1>9. ASSUME NEW fails \in BOOLEAN, ReopenVisit(fails) PROVE LogInv'
  <2>1. CASE fails = TRUE
    BY <1>9, <2>1, ReopenFailsStep
  <2>2. CASE fails = FALSE
    BY <1>9, <2>2, ReopenVisitStep
  <2>3. QED
    BY <2>1, <2>2
<1>10. CASE UNCHANGED logVars
  <2>1. UNCHANGED <<fixedVars, call, reopenVars, createVars>>
    BY <1>10 DEF logVars
  <2>2. /\ RegistryInv' /\ FilesInUse' = FilesInUse
        /\ \A l : LoggerSink(l)' = LoggerSink(l)
        /\ \A s : DistSinks(s)' = DistSinks(s)
        /\ \A s : Reachable(s)' <=> Reachable(s)
    BY <2>1, SameRegistry DEF LogInv
  <2>3. CreateInv'
    BY <2>1 DEF LogInv, CreateInv, createVars
  <2>4. Walking => Walking'
    BY <2>1, <2>2 DEF Walking, reopenVars, fixedVars
  <2>5. ReopenInv'
    BY <2>1, <2>2, <2>4 DEF LogInv, ReopenInv, reopenVars, fixedVars, InReopen
  <2>6. QED
    BY <2>2, <2>3, <2>5 DEF LogInv
<1>11. QED
  BY <1>1, <1>2, <1>3, <1>4, <1>5, <1>6, <1>7, <1>8, <1>9, <1>10 DEF LogNext

\* The invariant holds for any configuration and any calls.
THEOREM LogInvariance == LogSpec => []LogInv
<1>1. LogInit(Configs) => LogInv
  BY LogInitStep
<1>2. LogInv /\ [LogNext]_logVars => LogInv'
  BY LogStep
<1>3. QED
  BY <1>1, <1>2, PTL DEF LogSpec

\* select finds the nearest logger whatever is registered; create writes what it has
\* read of the pattern, and its iterator passes the end only within a directive.
THEOREM LoggerAsAskedHolds == LogSpec => []LoggerAsAsked
<1>1. LogInv => LoggerAsAsked
  <2>1. SUFFICES ASSUME LogInv PROVE SelectNearest /\ PatternKept
    BY DEF LoggerAsAsked
  <2>2. SelectNearest
    BY <2>1, RegistryNames, SelectNearestHolds DEF LogInv
  <2>3. ASSUME call.op = "create", call.state = "done" \/ call.state = "overrun"
        PROVE  /\ call.state = "done" /\ ~HasMDC(call.pattern) => ss = call.pattern
               /\ call.state = "overrun" => EndsOpen(call.pattern)
    <3>1. call \in Creation
      BY <2>1, <2>3 DEF LogInv, CreateInv
    <3>2. PICK p \in Seq(STRING) : p = call.pattern
      BY <3>1 DEF Creation
    <3>3. /\ Creating(p, it, ss)
          /\ call.state = "done" => it = Len(p) + 1
          /\ call.state = "overrun" => it > Len(p) + 1
      BY <2>1, <3>1, <3>2 DEF LogInv, CreateInv
    <3>4. Len(p) \in Nat /\ SubSeq(p, 1, Len(p)) = p
      BY SubSeqFull
    <3>5. CASE call.state = "done"
      <4>1. it = Len(p) + 1 /\ it - 1 = Len(p) /\ it <= Len(p) + 1
        BY <3>3, <3>4, <3>5
      <4>2. QED
        BY <3>2, <3>3, <3>4, <3>5, <4>1 DEF Creating
    <3>6. CASE call.state = "overrun"
      BY <3>2, <3>3, <3>6 DEF Creating
    <3>7. QED
      BY <2>3, <3>5, <3>6
  <2>4. PatternKept
    BY <2>3 DEF PatternKept, EndsOpen
  <2>5. QED
    BY <2>2, <2>4
<1>2. QED
  BY <1>1, LogInvariance, PTL

\* reopen_all reopens a file when its sink is first seen, and sees the sink of every
\* file in use and no other.
THEOREM ReopenExactHolds == LogSpec => []ReopenExact
<1>1. LogInv => ReopenExact
  <2>1. SUFFICES ASSUME LogInv PROVE ReopenExact
    OBVIOUS
  <2>2. reopened \in [DOMAIN _cfg.appenders -> {0, 1}]
    BY <2>1 DEF LogInv, ReopenInv
  <2>3. \A a \in DOMAIN reopened : reopened[a] <= 1
    BY <2>2
  <2>4. QED
    BY <2>1, <2>3 DEF LogInv, ReopenInv, ReopenExact
<1>2. QED
  BY <1>1, LogInvariance, PTL
=============================================================================
