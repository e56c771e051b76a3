------------------------------- MODULE Parser -------------------------------
(***************************************************************************)
(* The memcached parser, src/protocol/Parser.cpp, as a function on its     *)
(* state.  A byte is a symbol: "SP", "CR", "LF", "-", a digit, or a word   *)
(* that stands for the letters of a name, a key or data.  A symbol can be  *)
(* the last of one chunk and its successor the first of the next one.      *)
(***************************************************************************)
EXTENDS Integers, Sequences, SequencesExt

CONSTANT Width  \* bits of flags and bytes, 32 in the code

ASSUME WidthAssumption == Width \in Nat

Digit == [d \in {"0", "1", "2", "3", "4", "5", "6", "7", "8", "9"} |->
            CASE d = "0" -> 0 [] d = "1" -> 1 [] d = "2" -> 2 [] d = "3" -> 3
              [] d = "4" -> 4 [] d = "5" -> 5 [] d = "6" -> 6 [] d = "7" -> 7
              [] d = "8" -> 8 [] d = "9" -> 9]
IsDigit(c) == c \in DOMAIN Digit

\* Mutant: the key in progress survives.
Reset_Mutant(p) ==
    [state |-> "sName", name |-> <<>>, keys |-> <<>>, curKey |-> p.curKey,
     parse_complete |-> FALSE, flags |-> 0, bytes |-> 0, exprtime |-> 0,
     negative |-> p.negative]

\* Reset: all but negative, which spFlags sets before it is used.
Reset(p) ==
    [state |-> "sName", name |-> <<>>, keys |-> <<>>, curKey |-> <<>>,
     parse_complete |-> FALSE, flags |-> 0, bytes |-> 0, exprtime |-> 0,
     negative |-> p.negative]

\* The exceptions of Parse.
Throw(p) == [p EXCEPT !.state = "error"]

\* Another digit of an unsigned field; the sum is cut to its width before it is
\* compared with the old value.
AddDigit(old, c) == (old * 10 + Digit[c]) % 2 ^ Width

PutNames == {<<"set">>, <<"add">>, <<"append">>, <<"prepend">>}
GetNames == {<<"get">>, <<"gets">>}

NameChar(p, c) ==
    IF c \notin {"SP", "CR"} THEN [p EXCEPT !.name = Append(@, c)]
    ELSE IF p.name \in PutNames THEN [p EXCEPT !.state = "spKey"]
    ELSE IF p.name \in GetNames THEN [p EXCEPT !.state = "sgKey"]
    ELSE IF p.name = <<"stats">> THEN [p EXCEPT !.state = "sLF"]
    ELSE Throw(p)

PutKeyChar(p, c) ==
    IF c = "SP" THEN [p EXCEPT !.state = "spFlags", !.keys = Append(@, p.curKey)]
    ELSE [p EXCEPT !.curKey = Append(@, c)]

GetKeyChar(p, c) ==
    IF c \in {"CR", "SP"}
    THEN [p EXCEPT !.state = IF c = "CR" THEN "sLF" ELSE "sgKey",
                   !.keys = Append(@, p.curKey), !.curKey = <<>>]
    ELSE [p EXCEPT !.curKey = Append(@, c)]

FlagsChar(p, c) ==
    IF c = "SP" THEN [p EXCEPT !.negative = FALSE, !.state = "spExprTimeStart"]
    ELSE IF ~IsDigit(c) THEN p
    ELSE IF AddDigit(p.flags, c) < p.flags THEN Throw(p)
    ELSE [p EXCEPT !.flags = AddDigit(p.flags, c)]

ExprTimeStartChar(p, c) ==
    IF c = "-" THEN [p EXCEPT !.negative = TRUE, !.state = "spExprTime"]
    ELSE IF IsDigit(c)
    THEN [p EXCEPT !.exprtime = Digit[c], !.state = "spExprTime"]
    ELSE p

\* The digits after the first are added up: exprtime is not a decimal number
\* (and so never reaches the overflow the code tests for).
ExprTimeChar(p, c) ==
    IF c = "SP" THEN [p EXCEPT !.state = "spBytes"]
    ELSE IF ~IsDigit(c) THEN p
    ELSE [p EXCEPT !.exprtime = IF p.negative THEN @ - Digit[c] ELSE @ + Digit[c]]

BytesChar(p, c) ==
    IF c = "CR" THEN [p EXCEPT !.state = "sLF"]
    ELSE IF ~IsDigit(c) THEN p
    ELSE IF AddDigit(p.bytes, c) < p.bytes THEN Throw(p)
    ELSE [p EXCEPT !.bytes = AddDigit(p.bytes, c)]

\* One turn of the loop of Parse.
Char(p, c) ==
    CASE p.state = "sName" -> NameChar(p, c)
      [] p.state = "spKey" -> PutKeyChar(p, c)
      [] p.state = "sgKey" -> GetKeyChar(p, c)
      [] p.state = "spFlags" -> FlagsChar(p, c)
      [] p.state = "spExprTimeStart" -> ExprTimeStartChar(p, c)
      [] p.state = "spExprTime" -> ExprTimeChar(p, c)
      [] p.state = "spBytes" -> BytesChar(p, c)
      [] p.state = "sLF" -> IF c = "LF" THEN [p EXCEPT !.parse_complete = TRUE]
                            ELSE Throw(p)

\* Parse: the new state and the number of symbols that were used up.
Parse(p, input) ==
    FoldLeft(LAMBDA r, c : IF r.p.parse_complete \/ r.p.state = "error" THEN r
                           ELSE [p |-> Char(r.p, c), parsed |-> r.parsed + 1],
             [p |-> p, parsed |-> 0], input)

\* Build throws for these.
Unsupported(p) ==
    p.name \notin {<<"set">>, <<"add">>, <<"append">>, <<"get">>, <<"stats">>}

\* Build: the command; a put uses the first key only, a get all of them.
Build(p) ==
    [name |-> p.name,
     keys |-> IF p.name \in PutNames THEN <<p.keys[1]>> ELSE p.keys,
     flags |-> p.flags, exprtime |-> p.exprtime]
=============================================================================
