----------------------------- MODULE STBlocking -----------------------------
(***************************************************************************)
(* The single-threaded server, src/network/st_blocking: one thread accepts *)
(* a client, serves it until its stream ends, and accepts the next one.    *)
(* The parser, the command and its argument are local variables of OnRun   *)
(* that all clients share.  The loop over a chunk is the one of the other  *)
(* three servers, too.                                                     *)
(*                                                                         *)
(* A client sends commands of the memcached protocol; read returns them in *)
(* pieces that do not respect their limits, and the stream of a client may *)
(* end anywhere.                                                           *)
(***************************************************************************)
EXTENDS Parser

CONSTANTS
    Commands,     \* commands a client may send
    MaxCommands,  \* bound on the commands of a client
    MaxClients,   \* bound on the clients
    BufferSize    \* sizeof(client_buffer)

ASSUME STBAssumption ==
    /\ MaxCommands \in Nat /\ MaxClients \in Nat
    /\ BufferSize \in Nat \ {0}

NoCommand == [name |-> <<>>, keys |-> <<>>, flags |-> 0, exprtime |-> 0]

VARIABLES
    phase,       \* the main thread: "init", "failed", "serving", "stopped", "joined"
    running,    \* the atomic flag
    listening,  \* _server_socket was not shut down
    pc,         \* OnRun: "unborn", "check", "accept", "read", "chunk", "exited"
    parser, command_to_execute, arg_remains, argument_for_command, \* of OnRun
    buffer,     \* the first readed_bytes of client_buffer
    clients,    \* number of clients accepted
    asked,       \* history: commands of the current client
    ended,      \* the client has ended its stream
    cut,        \* the last command of the stream is not complete
    wire,       \* what the client sent and nobody has read
    executed,   \* history: commands executed for the current client
    refused     \* history: the input of the current client was refused

serverVars == <<phase, running, listening>>
streamVars == <<parser, command_to_execute, arg_remains, argument_for_command>>
clientVars == <<clients, asked, ended, cut, wire>>
stbVars == <<phase, running, listening, pc, parser, command_to_execute, arg_remains,
          argument_for_command, buffer, clients, asked, ended, cut, wire, executed,
          refused>>

STBInit ==
    /\ phase = "init"
    /\ running = FALSE
    /\ listening = FALSE
    /\ pc = "unborn"
    /\ parser = Reset([curKey |-> <<>>, negative |-> FALSE])
    /\ command_to_execute = NoCommand
    /\ arg_remains = 0
    /\ argument_for_command = <<>>
    /\ buffer = <<>>
    /\ clients = 0
    /\ asked = <<>>
    /\ ended = TRUE
    /\ cut = FALSE
    /\ wire = <<>>
    /\ executed = <<>>
    /\ refused = FALSE

----------------------------------------------------------------------------
(* The main thread. *)

ServerStart ==
    /\ phase = "init"
    /\ \/ phase' = "failed" /\ UNCHANGED <<running, listening, pc>>
       \/ /\ phase' = "serving"
          /\ running' = TRUE
          /\ listening' = TRUE
          /\ pc' = "check"
    /\ UNCHANGED <<streamVars, clientVars, buffer, executed, refused>>

StopFlag ==
    /\ phase = "serving" /\ running
    /\ running' = FALSE
    /\ UNCHANGED <<streamVars, clientVars, phase, listening, pc, buffer, executed,
                   refused>>

StopListener ==
    /\ phase = "serving" /\ ~running
    /\ phase' = "stopped"
    /\ listening' = FALSE
    /\ UNCHANGED <<streamVars, clientVars, running, pc, buffer, executed, refused>>

Join ==
    /\ phase = "stopped" /\ pc = "exited"
    /\ phase' = "joined"
    /\ UNCHANGED <<streamVars, clientVars, running, listening, pc, buffer,
                   executed, refused>>

----------------------------------------------------------------------------
(* The client: what it sends for a command. *)

Digits(n) ==
    LET D(k) == CHOOSE d \in DOMAIN Digit : Digit[d] = k
    IN  IF n < 0 THEN <<"-", D(-n)>>
        ELSE IF n < 10 THEN <<D(n)>> ELSE <<D(n \div 10), D(n % 10)>>

Encode(m) ==
    IF <<m.name>> \in PutNames
    THEN <<m.name, "SP", m.keys[1], "SP">> \o Digits(m.flags) \o <<"SP">>
            \o Digits(m.exprtime) \o <<"SP">> \o Digits(Len(m.data))
            \o <<"CR", "LF">> \o m.data \o <<"CR", "LF">>
    ELSE FoldLeft(LAMBDA r, k : r \o <<"SP", k>>, <<m.name>>, m.keys)
            \o <<"CR", "LF">>

Client ==
    /\ pc \in {"read", "chunk"}
    /\ ~ended
    /\ UNCHANGED <<serverVars, streamVars, pc, buffer, clients, executed, refused>>

ClientSends(m) ==
    /\ Client
    /\ Len(asked) < MaxCommands
    /\ asked' = Append(asked, m)
    /\ wire' = wire \o Encode(m)
    /\ UNCHANGED <<ended, cut>>

\* The stream ends after a command, or in the middle of one.
ClientEnds ==
    /\ Client
    /\ ended' = TRUE
    /\ \/ UNCHANGED <<asked, cut, wire>>
       \/ /\ Len(asked) < MaxCommands
          /\ cut' = TRUE
          /\ \E m \in Commands : \E n \in 1 .. Len(Encode(m)) - 1 :
                /\ asked' = Append(asked, m)
                /\ wire' = wire \o SubSeq(Encode(m), 1, n)

----------------------------------------------------------------------------
(* The server thread, OnRun. *)

Check ==
    /\ pc = "check"
    /\ pc' = IF running THEN "accept" ELSE "exited"
    /\ UNCHANGED <<serverVars, streamVars, clientVars, buffer, executed, refused>>

Accept ==
    /\ pc = "accept"
    /\ listening
    /\ clients < MaxClients
    /\ pc' = "read"
    /\ clients' = clients + 1
    /\ ended' = FALSE
    /\ cut' = FALSE
    /\ asked' = <<>>
    /\ wire' = <<>>
    /\ executed' = <<>>
    /\ refused' = FALSE
    /\ UNCHANGED <<serverVars, streamVars, buffer>>

AcceptFails ==
    /\ pc = "accept"
    /\ ~listening
    /\ pc' = "check"
    /\ UNCHANGED <<serverVars, streamVars, clientVars, buffer, executed, refused>>

\* read takes what is there, up to the size of the buffer.
Read(n) ==
    /\ pc = "read"
    /\ n <= Len(wire)
    /\ buffer' = SubSeq(wire, 1, n)
    /\ wire' = SubSeq(wire, n + 1, Len(wire))
    /\ pc' = "chunk"
    /\ UNCHANGED <<serverVars, streamVars, clients, asked, ended, cut, executed,
                   refused>>

\* Mutant: what was parsed of the last client's stream is kept.
Close_Mutant ==
    /\ pc' = "check"
    /\ command_to_execute' = NoCommand
    /\ argument_for_command' = <<>>
    /\ buffer' = <<>>
    /\ ended' = TRUE
    /\ wire' = <<>>
    /\ UNCHANGED <<serverVars, parser, arg_remains, clients, asked, cut>>

\* The connection is closed and the state made ready for the next client.
Close ==
    /\ pc' = "check"
    /\ parser' = Reset(parser)
    /\ command_to_execute' = NoCommand
    /\ argument_for_command' = <<>>
    /\ buffer' = <<>>
    /\ ended' = TRUE
    /\ wire' = <<>>
    /\ UNCHANGED <<serverVars, arg_remains, clients, asked, cut>>

\* read returns 0 at the end of the stream, or -1 after five seconds.
ReadEnds ==
    /\ pc = "read"
    /\ wire = <<>>
    /\ Close
    /\ UNCHANGED <<executed, refused>>

ChunkDone ==
    /\ pc = "chunk"
    /\ buffer = <<>>
    /\ pc' = "read"
    /\ UNCHANGED <<serverVars, streamVars, clientVars, buffer, executed, refused>>

\* First part of a round: the parser looks for a command.  A body is followed
\* by CR LF, which is taken for a part of the argument, but only if there is a
\* body.
ParseCommand ==
    LET r == Parse(parser, buffer)
        p == r.p
    IN  /\ pc = "chunk"
        /\ buffer # <<>>
        /\ command_to_execute = NoCommand
        /\ \/ /\ p.state = "error" \/ (p.parse_complete /\ Unsupported(p))
              /\ Close
              /\ refused' = TRUE
              /\ UNCHANGED executed
           \/ /\ p.state # "error"
              /\ ~(p.parse_complete /\ Unsupported(p))
              /\ parser' = p
              /\ buffer' = SubSeq(buffer, r.parsed + 1, Len(buffer))
              /\ IF p.parse_complete
                 THEN /\ command_to_execute' = Build(p)
                      /\ arg_remains' = IF p.bytes > 0 THEN p.bytes + 2 ELSE 0
                      /\ pc' = "argument"
                 ELSE UNCHANGED <<command_to_execute, arg_remains, pc>>
              /\ UNCHANGED <<serverVars, clientVars, argument_for_command,
                             executed, refused>>

\* A round that finds a command which waits for its argument.
ResumeArgument ==
    /\ pc = "chunk"
    /\ buffer # <<>>
    /\ command_to_execute # NoCommand
    /\ pc' = "argument"
    /\ UNCHANGED <<serverVars, streamVars, clientVars, buffer, executed, refused>>

\* Second part: the argument takes what it still needs.
FillArgument ==
    LET to_read == IF arg_remains < Len(buffer) THEN arg_remains ELSE Len(buffer)
    IN  /\ pc = "argument"
        /\ argument_for_command' =
              argument_for_command \o SubSeq(buffer, 1, to_read)
        /\ buffer' = SubSeq(buffer, to_read + 1, Len(buffer))
        /\ arg_remains' = arg_remains - to_read
        /\ pc' = IF arg_remains' = 0 THEN "run" ELSE "chunk"
        /\ UNCHANGED <<serverVars, clientVars, parser, command_to_execute,
                       executed, refused>>

\* Third part: the command runs and the answer is sent; a failure of send
\* closes the connection.
Execute ==
    /\ pc = "run"
    /\ executed' = Append(executed, [command |-> command_to_execute,
                                     argument |-> argument_for_command])
    /\ \/ /\ pc' = "chunk"
          /\ parser' = Reset(parser)
          /\ command_to_execute' = NoCommand
          /\ argument_for_command' = <<>>
          /\ UNCHANGED <<serverVars, clientVars, arg_remains, buffer>>
       \/ Close
    /\ UNCHANGED refused

STBNext ==
    \/ ServerStart \/ StopFlag \/ StopListener \/ Join
    \/ \E m \in Commands : ClientSends(m)
    \/ ClientEnds
    \/ Check \/ Accept \/ AcceptFails \/ ReadEnds
    \/ \E n \in 1 .. BufferSize : Read(n)
    \/ ChunkDone \/ ParseCommand \/ ResumeArgument \/ FillArgument \/ Execute

STBSpec == STBInit /\ [][STBNext]_stbVars

----------------------------------------------------------------------------
(* Properties. *)

CRLF == <<"CR", "LF">>

\* The command a client sends: the argument of a put is its data ("<bytes> is
\* the number of bytes in the data block to follow, *not* including the
\* delimiting \r\n", Parser.h:86-87).
Meant(m) ==
    [command |-> [name |-> <<m.name>>, keys |-> [i \in DOMAIN m.keys |-> <<m.keys[i]>>],
                  flags |-> m.flags, exprtime |-> m.exprtime],
     argument |-> IF <<m.name>> \in PutNames THEN m.data ELSE <<>>]

\* The commands executed are the ones the client sent.
ExecutesAsMeant ==
    \A i \in DOMAIN executed \cap DOMAIN asked : executed[i] = Meant(asked[i])

\* What the server makes of a command: the CR LF that ends the data, if there is
\* any, belongs to the argument, and of a number that needs more bits the last
\* Width are left, if the parser does not notice it.
AsServed(m) ==
    [Meant(m) EXCEPT !.argument = IF @ = <<>> THEN <<>> ELSE @ \o CRLF,
                     !.command.flags = @ % 2 ^ Width]

EmptyPut(m) == <<m.name>> \in PutNames /\ m.data = <<>>

\* How many commands the client sent to the end.
Complete == IF cut THEN Len(asked) - 1 ELSE Len(asked)

\* However the stream is cut into chunks, and whatever the client before left
\* behind: the commands executed are the ones the client sent, complete and in
\* order, with their arguments, but for what AsServed makes of them.  A put
\* without data does not wait for its CR LF, and nothing is executed after it.
ExecutesWhatWasSent ==
    /\ \A i \in DOMAIN executed :
          /\ i \in DOMAIN asked
          /\ executed[i] = AsServed(asked[i])
          /\ i <= Complete \/ EmptyPut(asked[i])
    /\ \A i \in 1 .. Len(executed) - 1 : ~EmptyPut(asked[i])

\* Only a client that sends something unsupported, a number of too many bits, or a
\* put without data (whose CR LF is taken for a command) is refused.
OnlyBadRefused ==
    refused => \E i \in DOMAIN asked :
                  \/ Unsupported([name |-> <<asked[i].name>>])
                  \/ EmptyPut(asked[i]) \/ asked[i].flags >= 2 ^ Width

\* Nothing is left waiting: when everything was read all complete commands were
\* executed, and the bytes in memory belong to the one that is not complete;
\* and no good command was refused.
CaughtUp ==
    /\ pc = "read" /\ wire = <<>> /\ (\A i \in DOMAIN asked : ~EmptyPut(asked[i])) =>
          /\ Len(executed) = Complete
          /\ ~cut => parser = Reset(parser) /\ command_to_execute = NoCommand
    /\ OnlyBadRefused
=============================================================================
