------------------------------- MODULE Shell --------------------------------
(***************************************************************************)
(* Course work 2 (sysprog/2): a shell.  parse_line reads standard input    *)
(* into tokens and splits them into commands; main forks a process for a   *)
(* single command, or one per command of a pipeline, with the descriptors  *)
(* that pipe, dup2 and close leave it, and waits for them.                 *)
(*                                                                         *)
(* A character is a name: "sp", "nl", "dq", "sq", "bs", "|", ">", "exit"   *)
(* for the four letters, anything else for a letter.  What a child does to *)
(* its own descriptors before exec is part of the fork.                    *)
(***************************************************************************)
EXTENDS Naturals, Sequences, FiniteSets, SequencesExt

CONSTANT
    Fds         \* descriptors 0 .. n a process may have open

\* There is room for the three standard ones and for a pipe.
ASSUME ShellAssumption == \E n \in Fds : n \in Nat /\ n >= 4 /\ Fds = 0 .. n

VARIABLES
    input,      \* standard input that is not read yet
    line,       \* history: the line that is being read or executed
    shPc,       \* where the shell is
    mode,       \* parse_line: "top", in quotes "dq" or "sq", behind "bs"
    tokens, token, prev, cmd_count,
    cmds,       \* cmd_line: the argv of every command
    iCmd,       \* the variable i of the loops of main
    in_fd, pipefd,
    fdTable,    \* descriptors of the shell
    pipes,      \* history: how many pipes were made
    kids        \* children: command, descriptors 0 and 1, what it does, state

parseVars == <<input, line, mode, tokens, token, prev, cmd_count, cmds>>
execVars == <<iCmd, in_fd, pipefd, fdTable, pipes, kids>>
shVars == <<parseVars, shPc, execVars>>

\* What a descriptor is: an end of a pipe <<number, "r" or "w">>, or one of
Tty == <<0, "tty">>
Closed == <<0, "closed">>

ShellInit(pc0, inputs) ==
    /\ input \in inputs
    /\ line = <<>>
    /\ shPc = pc0
    /\ mode = "top"
    /\ tokens = <<>> /\ token = <<>> /\ prev = "" /\ cmd_count = 1
    /\ cmds = <<>>
    /\ iCmd = 0 /\ in_fd = 0 /\ pipefd = <<0, 0>>
    /\ fdTable = [f \in Fds |-> IF f <= 2 THEN Tty ELSE Closed]
    /\ pipes = 0
    /\ kids = {}

----------------------------------------------------------------------------
(* parse_line *)

Push == tokens' = Append(tokens, token) /\ token' = <<>>
Add(c) == token' = Append(token, c) /\ UNCHANGED tokens
Skip == UNCHANGED <<tokens, token>>

\* Mutant: the bar is not counted.
Bar_Mutant == Add("|") /\ UNCHANGED cmd_count

Bar == Add("|") /\ cmd_count' = cmd_count + 1

\* One character outside of quotes.
ReadTop(c) ==
    /\ mode = "top" /\ c # "nl"
    /\ mode' = IF c \in {"dq", "sq", "bs"} THEN c ELSE "top"
    /\ prev' = CASE c = "dq" -> "" [] c \in {"sq", "bs", ">"} -> prev [] OTHER -> c
    /\ CASE c = "sp" -> Push /\ UNCHANGED cmd_count
         [] c = "|" -> Bar
         [] c \in {"dq", "sq", "bs", ">"} -> Skip /\ UNCHANGED cmd_count
         [] OTHER -> Add(c) /\ UNCHANGED cmd_count

\* One character between quotes; the closing one ends the token, too.
ReadQuoted(c) ==
    /\ mode \in {"dq", "sq"}
    /\ UNCHANGED cmd_count
    /\ CASE c = "nl" /\ mode = "sq" -> Skip /\ UNCHANGED <<mode, prev>>
         [] c = mode /\ prev # "bs" ->
               Push /\ mode' = "top" /\ prev' = IF mode = "sq" THEN c ELSE prev
         [] OTHER -> Add(c) /\ prev' = c /\ UNCHANGED mode

\* The character behind a backslash is read and dropped, the backslash stays;
\* a newline there is skipped with the backslash.
ReadEscaped(c) ==
    /\ mode = "bs"
    /\ mode' = "top"
    /\ IF c = "nl" THEN Skip /\ prev' = prev ELSE Add("bs") /\ prev' = c
    /\ UNCHANGED cmd_count

ReadChar ==
    /\ shPc = "read" /\ input # <<>>
    /\ ReadTop(Head(input)) \/ ReadQuoted(Head(input)) \/ ReadEscaped(Head(input))
    /\ input' = Tail(input)
    /\ line' = Append(line, Head(input))
    /\ UNCHANGED <<cmds, shPc, execVars>>

\* The tokens between two "|" are the argv of a command: the k-th one has those
\* with k - 1 bars before them.
Split(ts) ==
    LET bars == {i \in DOMAIN ts : ts[i] = <<"|">>}
        part(k) == {i \in DOMAIN ts \ bars : Cardinality({b \in bars : b < i}) = k - 1}
        nth(S, n) == CHOOSE i \in S : Cardinality({j \in S : j <= i}) = n
    IN  [k \in 1 .. Cardinality(bars) + 1 |->
            [n \in 1 .. Cardinality(part(k)) |-> ts[nth(part(k), n)]]]

\* End of line or of input: the last token, the array of cmd_count commands,
\* and the comparison of the first name with "exit\n" in main.  The array of
\* tokens is allocated with no bytes, so that the first one is written behind it:
\* whether that does harm depends on the allocator.
EndOfLine ==
    LET ts == IF token # <<>> \/ (input = <<>> /\ mode = "bs")
              THEN Append(tokens, token \o (IF mode = "bs" THEN <<"bs">> ELSE <<>>))
              ELSE tokens
        cs == Split(ts)
    IN  /\ shPc = "read"
        /\ input # <<>> => mode = "top" /\ Head(input) = "nl"
        /\ input' = IF input = <<>> THEN input ELSE Tail(input)
        /\ cmds' = cs
        /\ tokens' = <<>> /\ token' = <<>> /\ mode' = "top" /\ prev' = ""
        /\ \/ ts # <<>> /\ shPc' = "overrun"
           \/ shPc' = CASE Len(cs) > cmd_count \/ cs[1] = <<>> -> "fault"
                        [] Len(cs) <= cmd_count /\ cs[1] # <<>> ->
                              IF cs[1][1] = <<"exit", "nl">> THEN "exited"
                              ELSE IF cmd_count = 1 THEN "single" ELSE "pipe"
        /\ iCmd' = 1
        /\ UNCHANGED <<line, cmd_count, in_fd, pipefd, fdTable, pipes, kids>>

----------------------------------------------------------------------------
(* main *)

\* What a command does: it ends by itself, reads its input to the end, or writes
\* more than a pipe holds.
Does == {"ends", "reads", "fills"}

Kid(i, in, out, does) ==
    [cmd |-> i, in |-> in, out |-> out, does |-> does, state |-> "runs"]

\* One command: fork, exec in the child, wait in the shell.
ForkSingle(ok, does) ==
    /\ shPc = "single"
    /\ kids' = IF ok THEN {Kid(1, Tty, Tty, does)} ELSE {}
    /\ shPc' = "wait"
    /\ iCmd' = 1
    /\ UNCHANGED <<parseVars, in_fd, pipefd, fdTable, pipes>>

Free == {f \in Fds : fdTable[f] = Closed}
Lowest(S) == CHOOSE f \in S : \A g \in S : f <= g

\* pipe takes the two lowest descriptors; if there are not two, pipefd keeps
\* what an earlier round left in its place on the stack.
MakePipe ==
    LET r == Lowest(Free)
        w == Lowest(Free \ {r})
        ok == Cardinality(Free) >= 2
    IN  /\ shPc = "pipe" /\ iCmd <= cmd_count
        /\ pipefd' = IF ok THEN <<r, w>> ELSE pipefd
        /\ pipes' = IF ok THEN pipes + 1 ELSE pipes
        /\ fdTable' = IF ok
                      THEN [fdTable EXCEPT ![r] = <<pipes + 1, "r">>, ![w] = <<pipes + 1, "w">>]
                      ELSE fdTable
        /\ shPc' = "dup"
        /\ UNCHANGED <<parseVars, iCmd, in_fd, kids>>

\* dup2(a, b) on a table of descriptors; a closed descriptor changes nothing.
Dup2(table, a, b) == IF table[a] = Closed THEN table ELSE [table EXCEPT ![b] = table[a]]

\* The end for writing of the pipe before, which the shell has closed and pipe may
\* have opened again, is to be the input of this command.
DupInput ==
    /\ shPc = "dup"
    /\ fdTable' = IF iCmd > 1 THEN Dup2(fdTable, in_fd, pipefd[1]) ELSE fdTable
    /\ in_fd' = pipefd[2]
    /\ shPc' = "fork"
    /\ UNCHANGED <<parseVars, iCmd, pipefd, pipes, kids>>

\* The child connects its input and output and runs the command; a command
\* that was not filled in is read from uninitialised memory.  The shell, also
\* if fork failed, closes the end for writing.
ForkNext(ok, does) ==
    LET child == Dup2(Dup2(fdTable, pipefd[1], 0), pipefd[2], 1)
    IN  /\ shPc = "fork"
        /\ kids' = IF ok THEN kids \cup {Kid(iCmd, child[0], child[1], does)} ELSE kids
        /\ fdTable' = [fdTable EXCEPT ![pipefd[2]] = Closed]
        /\ iCmd' = IF iCmd < cmd_count THEN iCmd + 1 ELSE 1
        /\ shPc' = CASE iCmd > Len(cmds) -> "fault"
                     [] iCmd <= Len(cmds) /\ iCmd < cmd_count -> "pipe"
                     [] OTHER -> "wait"
        /\ UNCHANGED <<parseVars, in_fd, pipefd, pipes>>

\* Mutant: one wait for the whole pipeline.
Wait_Mutant ==
    /\ shPc = "wait"
    /\ IF kids = {} THEN UNCHANGED kids
       ELSE \E k \in kids : k.state = "zombie" /\ kids' = kids \ {k}
    /\ shPc' = "prompt"
    /\ UNCHANGED <<parseVars, iCmd, in_fd, pipefd, fdTable, pipes>>

\* wait collects a child that has ended, and fails at once if there is none.
Wait ==
    /\ shPc = "wait"
    /\ IF kids = {} THEN UNCHANGED kids
       ELSE \E k \in kids : k.state = "zombie" /\ kids' = kids \ {k}
    /\ iCmd' = iCmd + 1
    /\ shPc' = IF iCmd < cmd_count THEN "wait" ELSE "prompt"
    /\ UNCHANGED <<parseVars, in_fd, pipefd, fdTable, pipes>>

\* The next round of the loop of main calls parse_line again.
Prompt ==
    /\ shPc = "prompt"
    /\ shPc' = "read"
    /\ line' = <<>> /\ cmd_count' = 1 /\ cmds' = <<>>
    /\ UNCHANGED <<input, mode, tokens, token, prev, execVars>>

\* Whether somebody could still write what k reads.
Writable(k) ==
    k.in # Tty /\
        \/ \E f \in Fds : fdTable[f] = <<k.in[1], "w">>
        \/ \E j \in kids : j.state = "runs" /\ j.out = <<k.in[1], "w">>

\* Whether somebody reads what k writes.  Nobody is told that a pipe has no
\* reader: the shell keeps the end for reading of every pipe.
Drained(k) ==
    k.out # Tty =>
        \E j \in kids : j.state = "runs" /\ j.does = "reads" /\ j.in = <<k.out[1], "r">>

\* A child ends: one that reads does so when its input is at its end, one that
\* fills its pipe when somebody empties it.
KidEnds(k) ==
    /\ k.state = "runs"
    /\ k.does = "reads" => ~Writable(k)
    /\ k.does = "fills" => Drained(k)
    /\ kids' = (kids \ {k}) \cup {[k EXCEPT !.state = "zombie"]}
    /\ UNCHANGED <<parseVars, shPc, iCmd, in_fd, pipefd, fdTable, pipes>>

ShellStep ==
    \/ ReadChar \/ EndOfLine \/ MakePipe \/ DupInput \/ Wait \/ Prompt
    \/ \E ok \in BOOLEAN, does \in Does : ForkSingle(ok, does) \/ ForkNext(ok, does)

ShellNext == ShellStep \/ \E k \in kids : KidEnds(k)

\* The shell runs, and a child that can end does.
ShellFairness ==
    WF_shVars(ShellStep) /\ WF_shVars(\E k \in kids : KidEnds(k))

----------------------------------------------------------------------------
(* Properties. *)

\* Lines of letters, spaces and bars in which every bar is a word.
PlainLine ==
    /\ \A n \in DOMAIN line : line[n] \in {"a", "exit", "sp", "|"}
    /\ \A n \in DOMAIN line : line[n] = "|" =>
          /\ n > 1 => line[n - 1] = "sp"
          /\ n < Len(line) => line[n + 1] = "sp"

\* On a plain line that starts with a word main finds every command that it
\* counts filled in, and no more: it does not run over the array of commands
\* and does not compare a null name.
PlainLineWorks ==
    shPc \in {"single", "pipe", "dup", "fork", "wait", "fault"} /\ PlainLine
        /\ line # <<>> /\ line[1] # "|" =>
            /\ shPc # "fault"
            /\ Len(cmds) = cmd_count

\* The shell asks for the next line, or starts the next command, with no child of
\* the line before left: it waits as often as it forked, whichever forks failed.
NoneLeft == shPc \in {"prompt", "read", "single"} => kids = {}

\* What the shell starts on a line is as many commands as the line says, and it
\* leaves none of them behind.
ShellSafe == PlainLineWorks /\ NoneLeft

\* A pipeline: the command behind a bar reads what the one before it writes
\* ("ps aux | grep init", task.txt:40).
PipelineConnected ==
    \A j, k \in kids : cmd_count > 1 /\ k.cmd = j.cmd + 1 =>
        j.out[2] = "w" /\ k.in = <<j.out[1], "r">>

\* The shell comes back to its prompt with no child left, unless one of a pipeline
\* reads its input to the end, which nobody closes, or fills its pipe, which nobody
\* need empty.
PromptReturns ==
    shPc = "wait" ~> \/ shPc = "prompt" /\ kids = {}
                     \/ \E k \in kids : k.does = "reads" /\ k.in # Tty
                     \/ \E k \in kids : k.does = "fills" /\ k.out # Tty
=============================================================================
