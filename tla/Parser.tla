------------------------------- MODULE Parser -------------------------------
(***************************************************************************)
(* The recursive-descent parser (src/src/parser.cpp): a machine that makes *)
(* the calls of the rules, one at a time, on a sequence of tokens.  todo is *)
(* what the C++ stack has still to do; out is the syntax tree, written      *)
(* behind its parts: a part is a token, and <<"node", kind, n>> makes a     *)
(* node of the last n parts.                                                *)
(***************************************************************************)
EXTENDS Lexer, Grammar, FiniteSets

CONSTANTS Rules,        \* the grammar: the items of each rule
          ReadAsZero    \* the tokens of numbers that std::stoll and stod make 0 of

VARIABLES pos, todo, out, errors,
          parts         \* of each node under construction, the parts it has
parseVars == <<pos, todo, out, parts, errors>>

Peek(i) == LET k == pos + i
           IN  IF k > Len(tokens) THEN tokens[Len(tokens)] ELSE tokens[k]

AtEnd == Peek(0)[1] = "EOF"

Advance == pos' = IF AtEnd THEN pos ELSE pos + 1

\* What the parser may look for in a token.
Looks(t) == {t[1]} \cup (IF t[1] = "IDENT" THEN {t[2]} \cap Contextual ELSE {})
Ahead(la) == \A i \in 1..Len(la) : Looks(Peek(i - 1)) \cap la[i] # {}

(***************************************************************************)
(* What the machine needs of a grammar.                                    *)
(***************************************************************************)
MaxNesting == 10        \* bound: items inside items of one rule

Bodies(x) == IF x[1] \in {"node", "around", "until", "repeat"} THEN {x[3]}
             ELSE IF x[1] = "pick" THEN {x[2][i][2] : i \in 1..Len(x[2])} ELSE {}
Inside(S) == UNION {UNION {Bodies(s[i]) : i \in DOMAIN s} : s \in S}

\* Every sequence of items of the grammar, and the items.
Fragments == LET upto[n \in Nat] == IF n = 0 THEN {Rules[r] : r \in DOMAIN Rules}
                                    ELSE LET S == upto[n - 1] IN S \cup Inside(S)
             IN  upto[MaxNesting]
Items == UNION {{s[i] : i \in DOMAIN s} : s \in Fragments}

NameOrLiteral == {"IDENT", "INT", "FLOAT", "STR", "CHAR", "BOOL", "TYPE"}

\* That la was found ahead tells that token k of it is no name and no literal.
Tells(la, k) == k \in 1..Len(la) /\ la[k] \cap (NameOrLiteral \cup Contextual) = {}

Skips(s)     == s # << >> /\ s[1] = Skip
SkipsTwo(s)  == Skips(s) /\ Len(s) > 1 /\ s[2] = Skip
Makes(x)     == x[1] \in {"node", "around"}

\* advance() without a look at its token is made only where the token is known to be
\* no name or literal: one, two: the next token is, and the one behind it.
Known(s, one, two) ==
  \A i \in DOMAIN s : (\A j \in 1..(i - 1) : s[j] # Fault) =>
    /\ s[i] = Skip => (i = 1 /\ one) \/ (i = 2 /\ s[1] = Skip /\ two)
    /\ Makes(s[i]) /\ Skips(s[i][3]) => i = 1 /\ one
    /\ Makes(s[i]) /\ SkipsTwo(s[i][3]) => two

EndsInComma(s) == s # << >> /\ s[Len(s)] = Comma

Sound(x) ==
  /\ x[1] = "sub" => x[2] \in DOMAIN Rules
  /\ x[1] = "skip" => x = Skip
  /\ x[1] = "comma" => x = Comma
  /\ x[1] \in {"want", "may", "flag"} => x[2] \notin NameOrLiteral
  /\ Makes(x) => /\ Known(x[3], TRUE, TRUE) /\ ~EndsInComma(x[3])
                 /\ x[3] # << >> => ~(Makes(x[3][1]) /\ Skips(x[3][1][3]))
  /\ x[1] = "until" => Known(x[3], FALSE, FALSE)
  /\ x[1] = "repeat" => Known(x[3], Tells(x[2], 1), Tells(x[2], 2)) /\ ~EndsInComma(x[3])
  /\ x[1] = "pick" =>
       /\ \E i \in 1..Len(x[2]) : x[2][i][1] = << >>
       /\ \A i \in 1..Len(x[2]) : /\ Known(x[2][i][2], Tells(x[2][i][1], 1), Tells(x[2][i][1], 2))
                                  /\ ~EndsInComma(x[2][i][2])

ASSUME RulesAssumption ==
  /\ Inside(Fragments) \subseteq Fragments
  /\ \A s \in Fragments : s \in Seq(Items)
  /\ \A x \in Items : Sound(x)
  /\ \A r \in DOMAIN Rules : /\ Rules[r] \in Fragments
                            /\ Known(Rules[r], FALSE, FALSE) /\ ~EndsInComma(Rules[r])
  /\ \A s \in Fragments : \A i \in DOMAIN s : s[i] = Comma => i = Len(s)

ASSUME ReadAsZeroAssumption == \A t \in ReadAsZero : t[1] \in {"INT", "FLOAT"}

\* parse: declarations up to the end.
ASSUME ProgramAssumption ==
  /\ "Program" \in DOMAIN Rules
  /\ LET program == Rules["Program"]
         loop    == program[1][3][1]
     IN  /\ Len(program) = 1 /\ program[1][1] = "node" /\ Len(program[1][3]) = 1
         /\ loop[1] = "until" /\ loop[2] = {"EOF"} /\ ~EndsInComma(loop[3])

(***************************************************************************)
(* The machine.                                                            *)
(***************************************************************************)
Top      == Len(parts)
Counted  == parts' = [parts EXCEPT ![Top] = @ + 1]
Put(t)   == out' = Append(out, t) /\ Counted
Nowhere  == UNCHANGED <<out, parts>>
NodeOf(kind, n) == <<"node", kind, n>>

ParseInit == pos = 1 /\ todo = <<Sub("Program")>> /\ out = << >> /\ parts = <<0>> /\ errors = 0

NextIs(op) == todo # << >> /\ Head(todo)[1] = op
Arg == Head(todo)[2]
Done == todo' = Tail(todo)
Then(items) == todo' = items \o Tail(todo)

\* Mutated: a wrong token is skipped without an error.
ExpectSkips == /\ NextIs("want") \/ NextIs("name")
               /\ Advance
               /\ IF NextIs("name") THEN Put(Peek(0)) ELSE Nowhere
               /\ Done /\ UNCHANGED errors

\* expect: on another token it reports an error and stays where it is.
Expect == /\ NextIs("want") \/ NextIs("name")
          /\ IF Peek(0)[1] = Arg THEN Advance /\ UNCHANGED errors
                                     ELSE errors' = errors + 1 /\ UNCHANGED pos
          /\ IF NextIs("name") THEN Put(Peek(0)) ELSE Nowhere
          /\ Done

Consume == /\ NextIs("skip") \/ NextIs("take")
           /\ Advance
           /\ IF NextIs("take") THEN Put(Peek(0)) ELSE Nowhere
           /\ Done /\ UNCHANGED errors

\* What becomes of a number, without an error: 0 when it does not fit the type, and
\* when an integer is written with 0X or 0B, which std::stoll reads as decimal.
Valued(t) == IF t \in ReadAsZero THEN <<t[1], "0">> ELSE t

ReadNumber == /\ NextIs("number")
              /\ Advance
              /\ Put(Valued(Peek(0)))
              /\ Done /\ UNCHANGED errors

Match == /\ NextIs("may") \/ NextIs("flag")
         /\ LET found == Peek(0)[1] = Arg
            IN  /\ IF found THEN Advance ELSE UNCHANGED pos
                /\ IF NextIs("may") THEN Nowhere
                   ELSE Put(IF found THEN Peek(0) ELSE NodeOf("None", 0))
         /\ Done /\ UNCHANGED errors

Call == /\ NextIs("sub")
        /\ Then(Rules[Arg])
        /\ UNCHANGED <<pos, out, parts, errors>>

Begin == /\ NextIs("node") \/ NextIs("around")
         /\ parts' = IF NextIs("node") THEN Append(parts, 0)
                     ELSE Append([parts EXCEPT ![Top] = @ - 1], 1)
         /\ Then(Head(todo)[3] \o <<Close(Arg)>>)
         /\ UNCHANGED <<pos, out, errors>>

End == /\ NextIs("close")
       /\ out' = Append(out, NodeOf(Arg, parts[Top]))
       /\ parts' = [SubSeq(parts, 1, Top - 1) EXCEPT ![Top - 1] = @ + 1]
       /\ Done /\ UNCHANGED <<pos, errors>>

Choose == /\ NextIs("pick")
          /\ LET first == CHOOSE i \in 1..Len(Arg) :
                            /\ Ahead(Arg[i][1])
                            /\ \A j \in 1..(i - 1) : ~Ahead(Arg[j][1])
             IN  Then(Arg[first][2])
          /\ UNCHANGED <<pos, out, parts, errors>>

\* The loop stays in todo behind its body.
Loop == /\ NextIs("until") \/ NextIs("repeat")
        /\ LET go == IF NextIs("until") THEN ~(Peek(0)[1] \in Arg) /\ ~AtEnd ELSE Ahead(Arg)
           IN  IF go THEN todo' = Head(todo)[3] \o todo ELSE Done
        /\ UNCHANGED <<pos, out, parts, errors>>

\* Without a comma the loop that follows in todo ends too.
Separator == /\ NextIs("comma")
             /\ IF Peek(0)[1] = "," THEN Advance /\ Done
                ELSE todo' = Tail(Tail(todo)) /\ UNCHANGED pos
             /\ UNCHANGED <<out, parts, errors>>

EmitError == /\ NextIs("fault")
             /\ errors' = errors + 1
             /\ Done /\ UNCHANGED <<pos, out, parts>>

ParseNext == \/ Expect \/ Consume \/ ReadNumber \/ Match \/ Call \/ Begin
             \/ End \/ Choose \/ Loop \/ Separator \/ EmitError

Parsed == todo = << >>
Tree == out
=============================================================================
