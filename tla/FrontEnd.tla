------------------------------ MODULE FrontEnd ------------------------------
(***************************************************************************)
(* compile_frontend (src/src/main.cpp): the scanner, and the parser behind *)
(* it when the scanner found no error.                                     *)
(***************************************************************************)
EXTENDS Parser

CONSTANT Programs       \* records of a text, of the tree it was written for and of
                        \* whether it has none of the forms that RoundTrip excepts

ASSUME ProgramsAssumption == \A p \in Programs : p.text \in Seq(STRING)

VARIABLE meant          \* that tree, empty for a text that was not written for one,
                        \* and whether its forms are readable

frontVars == <<lexVars, parseVars, meant>>

FrontInit == /\ LexInit /\ ParseInit
             /\ \E p \in Programs : source = p.text /\ meant = [tree |-> p.tree, readable |-> p.readable]

Scan == LexNext /\ UNCHANGED <<parseVars, meant>>

Parse == /\ Lexed /\ lexErrors = 0
         /\ ParseNext
         /\ UNCHANGED <<lexVars, meant>>

FrontNext == Scan \/ Parse

FrontSpec == FrontInit /\ [][FrontNext]_frontVars /\ WF_frontVars(FrontNext)

Accepted == Parsed /\ errors = 0

(***************************************************************************)
(* Properties.                                                             *)
(***************************************************************************)
\* A text written for a tree is read as that tree, however it is nested and spaced:
\* precedence, associativity and the double roles of ? | & ( [ { resolve as the
\* levels of parser.cpp:697-935 are documented, and the longest symbol wins.  Two
\* forms are never read so, wherever they stand: a lambda whose last parameter has a
\* default, |x = 1| => x, whose closing | is read as a bitwise or (parser.cpp:810,
\* 1035-1039), and a null test right before a :, which parser.cpp:905-907 announces
\* and the list behind it leaves out, x ? y? : z or {x? : y}.
RoundTrip ==
  meant.tree # << >> /\ Parsed => ((errors = 0 /\ Tree = meant.tree) <=> meant.readable)

\* The names and literals among the first k symbols of s, by their values.
Words(s, k) ==
  LET words[i \in 0..Len(s)] ==
        IF i = 0 THEN << >>
        ELSE IF s[i][1] \in NameOrLiteral THEN Append(words[i - 1], Valued(s[i])) ELSE words[i - 1]
  IN  words[k]

\* The names and literals of a text that is accepted are in the tree, all of them
\* and in their order: no loop or optional part drops a token without an error.  A
\* number is there by its value, which is 0 for those that Valued names.
NothingDropped == Accepted => Words(Tree, Len(Tree)) = Words(tokens, Len(tokens))

\* Every text is read to its end: no loop of the scanner or of the parser, whose
\* expect does not advance on a wrong token, runs on the spot (parser.cpp:38-45).
ReadingEnds == <>(lexErrors > 0 \/ Parsed)

\* A # starts a comment: what follows on its line counts as little as a blank
\* (the comment of lexer.cpp:216 promises "the next real token").
HashIsBlank == lexErrors = 0

\* The hexadecimal and binary literals of lexer.cpp:198, which the lexer accepts with a
\* capital X or B too, keep their value, and so does every number: no text is accepted
\* with one that is read as 0.
NumbersKept == Accepted => \A i \in DOMAIN tokens : tokens[i] \notin ReadAsZero

\* The annotations the parser is documented to read (parser.cpp:257) are accepted.
AnnotationsAccepted == Parsed => errors = 0
=============================================================================
