------------------------------- MODULE Engine -------------------------------
(***************************************************************************)
(* The coroutine engine, src/coroutine.  All coroutines run on one stack:  *)
(* Store copies the used part of it to the context of the coroutine that   *)
(* is left, Restore copies it back and jumps.  The contexts that have not  *)
(* finished form the doubly linked list alive.                             *)
(*                                                                         *)
(* What a coroutine keeps in its local variables is the number of units of *)
(* work it has done; it lives on the stack, and in the copy while the      *)
(* coroutine is suspended.  The depth of the stack is counted from start   *)
(* in units that are larger than the frames of the engine's functions; the *)
(* stack grows downwards, as on x86-64.  Calls of run outside of start     *)
(* return nullptr and change nothing; sched is given coroutines that have  *)
(* not finished.                                                           *)
(***************************************************************************)
EXTENDS Integers

CONSTANTS
    Routine,  \* contexts that may ever be created (bound)
    Nil,      \* the null pointer
    MaxWork,  \* bound on the work of a coroutine
    MaxDepth  \* bound on the depth of the stack

ASSUME EngineAssumption ==
    /\ Nil \notin Routine
    /\ MaxWork \in Nat
    /\ MaxDepth \in Nat

VARIABLES
    ctl,     \* who runs: "outside" of start, a "routine", the "idle" context
             \* in start, or nobody: start "returned" or the process "crashed"
    cur,     \* cur_routine
    alive,   \* head of the list
    next, prev,
    life,    \* contexts: "none", "ready" or "deleted"
    stack,   \* the stack: whose frames are on it, their local variable, and
             \* how deep it is
    saved,   \* each context: the local variable in the copy of the stack, how
             \* deep the copy reaches (Low) and where the coroutine goes on
    base,    \* depth at which the function of a coroutine runs
    work     \* history: work each coroutine has done

engVars == <<ctl, cur, alive, next, prev, life, stack, saved, base, work>>

Ready == {r \in Routine : life[r] = "ready"}

EngInit ==
    /\ ctl = "outside"
    /\ cur = Nil
    /\ alive = Nil
    /\ next = [r \in Routine |-> Nil]
    /\ prev = [r \in Routine |-> Nil]
    /\ life = [r \in Routine |-> "none"]
    /\ stack = [owner |-> Nil, local |-> 0, depth |-> 0]
    /\ saved = [r \in Routine |-> [local |-> 0, low |-> 0, depth |-> 0]]
    /\ base = [r \in Routine |-> 0]
    /\ work = [r \in Routine |-> 0]

\* run: the context gets a copy of the stack, from which the function will be
\* called, and becomes the head of the list.
Link(r) ==
    /\ life[r] = "none"
    /\ life' = [life EXCEPT ![r] = "ready"]
    /\ next' = [next EXCEPT ![r] = alive]
    /\ prev' = IF alive = Nil THEN prev ELSE [prev EXCEPT ![alive] = r]
    /\ alive' = r
    /\ base' = [base EXCEPT ![r] = stack.depth + 1]

Copy == [local |-> stack.local, low |-> stack.depth, depth |-> stack.depth]
Created == [local |-> 0, low |-> stack.depth, depth |-> stack.depth + 1]

\* Restore copies a stack back over its own frame and that of memcpy, unless the
\* copy reaches less deep: the test that would call Restore once more (a
\* frame's address >= Hight, which is StackBottom) never holds.  What it then
\* does depends on the build.
Restore(to, copy) ==
    /\ cur' = to
    /\ \/ /\ ctl' = "routine"
          /\ stack' = [owner |-> to, local |-> copy.local, depth |-> copy.depth]
       \/ /\ copy.low >= stack.depth
          /\ ctl' = "crashed"
          /\ UNCHANGED stack

\* start: run for the main coroutine, then sched; there is no coroutine to
\* store.
Start(r) ==
    /\ ctl = "outside"
    /\ Link(r)
    /\ saved' = [saved EXCEPT ![r] = Created]
    /\ Restore(r, Created)
    /\ UNCHANGED work

Run(r) ==
    /\ ctl = "routine"
    /\ Link(r)
    /\ saved' = [saved EXCEPT ![r] = Created]
    /\ UNCHANGED <<ctl, cur, stack, work>>

\* A coroutine goes on with its own business, ...
Work ==
    /\ ctl = "routine"
    /\ work[cur] < MaxWork
    /\ stack' = [stack EXCEPT !.local = @ + 1]
    /\ work' = [work EXCEPT ![cur] = @ + 1]
    /\ UNCHANGED <<ctl, cur, alive, next, prev, life, saved, base>>

\* ... calls functions and returns from them.
CallOrReturn(d) ==
    /\ ctl = "routine"
    /\ d \in base[cur] .. MaxDepth
    /\ d \in {stack.depth - 1, stack.depth + 1}
    /\ stack' = [stack EXCEPT !.depth = d]
    /\ UNCHANGED <<ctl, cur, alive, next, prev, life, saved, base, work>>

\* Mutant: the coroutine that is left is not stored.
Switch_Mutant(to) ==
    /\ Restore(to, saved[to])
    /\ UNCHANGED <<alive, next, prev, life, saved, base, work>>

\* Store(*cur_routine), setjmp, Restore(*to).
Switch(to) ==
    /\ saved' = [saved EXCEPT ![cur] = Copy]
    /\ Restore(to, saved[to])
    /\ UNCHANGED <<alive, next, prev, life, base, work>>

\* yield: to the head of the list, or to the second one; without another
\* coroutine it does nothing.
Yield ==
    LET to == IF alive = cur THEN next[alive] ELSE alive IN
    /\ ctl = "routine"
    /\ to # Nil
    /\ Switch(to)

Sched(r) ==
    /\ ctl = "routine"
    /\ r # cur
    /\ life[r] = "ready"
    /\ Switch(r)

\* Mutant: the head of the list is not moved on.
Finish_Mutant ==
    /\ ctl = "routine"
    /\ stack.depth = base[cur]
    /\ next' = [r \in Routine |-> IF r = cur THEN Nil
                                  ELSE IF r = prev[cur] THEN next[cur]
                                  ELSE next[r]]
    /\ prev' = [r \in Routine |-> IF r = cur THEN Nil
                                  ELSE IF r = next[cur] THEN prev[cur]
                                  ELSE prev[r]]
    /\ life' = [life EXCEPT ![cur] = "deleted"]
    /\ cur' = Nil
    /\ ctl' = "idle"
    /\ stack' = [owner |-> Nil, local |-> 0, depth |-> 0]
    /\ UNCHANGED <<alive, saved, base, work>>

\* The function of a coroutine returns: run takes its context out of the list
\* and deletes it, then restores idle_ctx, whose stack is the one of start.
Finish ==
    /\ ctl = "routine"
    /\ stack.depth = base[cur]
    /\ next' = [r \in Routine |-> IF r = cur THEN Nil
                                  ELSE IF r = prev[cur] THEN next[cur]
                                  ELSE next[r]]
    /\ prev' = [r \in Routine |-> IF r = cur THEN Nil
                                  ELSE IF r = next[cur] THEN prev[cur]
                                  ELSE prev[r]]
    /\ alive' = IF alive = cur THEN next[alive] ELSE alive
    /\ life' = [life EXCEPT ![cur] = "deleted"]
    /\ cur' = Nil
    /\ ctl' = "idle"
    /\ stack' = [owner |-> Nil, local |-> 0, depth |-> 0]
    /\ UNCHANGED <<saved, base, work>>

\* start goes on behind its setjmp and calls yield, which finds no coroutine.
Return ==
    /\ ctl = "idle"
    /\ alive = Nil
    /\ ctl' = "returned"
    /\ UNCHANGED <<cur, alive, next, prev, life, stack, saved, base, work>>

\* It finds one: cur_routine is nullptr, which is not idle_ctx, so
\* Store(*cur_routine) writes to the null pointer.
IdleYield ==
    /\ ctl = "idle"
    /\ alive # Nil
    /\ ctl' = "crashed"
    /\ UNCHANGED <<cur, alive, next, prev, life, stack, saved, base, work>>

EngNext ==
    \/ Work \/ Yield \/ Finish \/ Return \/ IdleYield
    \/ \E d \in 1 .. MaxDepth : CallOrReturn(d)
    \/ \E r \in Routine : Start(r) \/ Run(r) \/ Sched(r)

EngSpec == EngInit /\ [][EngNext]_engVars

----------------------------------------------------------------------------
(* Properties. *)

\* Every variable stays in its type.
TypeOK ==
    /\ ctl \in {"outside", "routine", "idle", "returned", "crashed"}
    /\ cur \in Routine \cup {Nil}
    /\ alive \in Routine \cup {Nil}
    /\ next \in [Routine -> Routine \cup {Nil}]
    /\ prev \in [Routine -> Routine \cup {Nil}]
    /\ life \in [Routine -> {"none", "ready", "deleted"}]
    /\ stack \in [owner : Routine \cup {Nil}, local : Nat, depth : Nat]
    /\ saved \in [Routine -> [local : Nat, low : Nat, depth : Nat]]
    /\ base \in [Routine -> Nat]
    /\ work \in [Routine -> Nat]

\* next and prev are inverse to each other between contexts that exist, and the
\* list has one head: no pointer leads to a deleted context.
DoublyLinked ==
    /\ alive # Nil => alive \in Ready /\ prev[alive] = Nil
    /\ \A r \in Ready :
          /\ next[r] # Nil => next[r] \in Ready /\ prev[next[r]] = r
          /\ prev[r] # Nil => prev[r] \in Ready /\ next[prev[r]] = r
          /\ prev[r] = Nil => r = alive

\* S holds the head of the list and is closed under next.
Closed(S) ==
    /\ alive # Nil => alive \in S
    /\ \A r \in S : next[r] # Nil => next[r] \in S

\* Who follows next from the head comes by every coroutine that has not finished.
ListComplete == \A S \in SUBSET Ready : Closed(S) => S = Ready

\* The list run and the end of a coroutine keep: doubly linked without pointers
\* to deleted contexts, and complete, so that yield finds whoever is left.
ListExact == DoublyLinked /\ ListComplete

\* A coroutine that runs does so on its own stack and finds its local variables
\* as it left them, whatever the others did in between; the copy of a suspended
\* one is up to date.  The switch to a coroutine may end the process instead, but
\* only if its stack reaches as deep as the one it is restored from; else only
\* the end of a coroutine that leaves others behind does (cur is null).
OwnStack ==
    /\ ctl = "routine" =>
          /\ cur \in Ready
          /\ stack.owner = cur /\ stack.local = work[cur]
          /\ stack.depth >= base[cur]
    /\ \A r \in Ready : r # cur => saved[r].local = work[r]
    /\ ctl = "crashed" /\ cur # Nil => saved[cur].low >= stack.depth
=============================================================================
