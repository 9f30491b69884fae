-------------------------------- MODULE Lexer --------------------------------
(***************************************************************************)
(* The scanner (src/src/lexer.cpp).  A text is a sequence of glyphs:       *)
(* punctuation marks, blanks and digits are characters, a run of letters   *)
(* is one glyph, its spelling being of no account.  Every action is one    *)
(* iteration of the loop of tokenize or of skip_whitespace.                *)
(***************************************************************************)
EXTENDS Naturals, Sequences

CONSTANTS Letters,       \* the glyphs made of letters
          Exponents      \* those of them that begin with an e or E

ASSUME LettersAssumption == "" \notin Letters /\ Exponents \subseteq Letters

VARIABLES source, at, tokens, lexErrors,
          scanning      \* inside scan_token, behind a # comment
lexVars == <<source, at, tokens, lexErrors, scanning>>

NewLine == "\n"
Blanks == {" ", NewLine}
Digits == {"0", "1", "2"}
HexDigits == Digits \cup {"F", "b"}

\* peek: a character behind the end reads as NUL.
Glyph(i) == IF i > Len(source) THEN "" ELSE source[i]

\* The end of the run of glyphs of S that starts at i.
RunEnd(i, S) == CHOOSE j \in i..(Len(source) + 1) :
                  (\A k \in i..(j - 1) : source[k] \in S) /\ Glyph(j) \notin S

Joined(glyphs) == LET upto[i \in 0..Len(glyphs)] == IF i = 0 THEN "" ELSE upto[i - 1] \o glyphs[i]
                  IN  upto[Len(glyphs)]
Spelt(i, j) == Joined(SelectSeq(SubSeq(source, i, j - 1), LAMBDA g : g # "_"))

(***************************************************************************)
(* Words and numbers.                                                      *)
(***************************************************************************)
Keywords == {"let", "var", "const", "return", "if", "elif", "else", "while", "for", "in",
             "loop", "par", "break", "continue", "match", "class", "init", "self", "async",
             "await", "spawn", "channel", "send", "recv", "use", "as", "asm", "own", "ref",
             "mut", "region", "move", "alloc", "allow", "sandbox", "try", "catch", "throw", "null"}

WordType(w) == IF w \in {"true", "false"} THEN "BOOL"
               ELSE IF w \in {"int", "uint", "float", "bool", "str", "char", "byte", "void"} THEN "TYPE"
               ELSE IF w \in Keywords THEN w ELSE "IDENT"

Word(i) == LET j == RunEnd(i, Letters \cup Digits \cup {"_"})
               w == Joined(SubSeq(source, i, j - 1))
           IN  [end |-> j, token |-> <<WordType(w), w>>, faults |-> 0]

\* Hexadecimal, binary, or decimal with an optional fraction and exponent.  The e
\* of a word right behind the digits is taken for one too: an error, as no digit can
\* follow it, and the rest of the word is passed over here.
Num(i) ==
  LET radix  == Glyph(i) = "0" /\ Glyph(i + 1) \in {"x", "X", "b", "B"}
      digits == IF Glyph(i + 1) \in {"x", "X"} THEN HexDigits ELSE {"0", "1"}
      whole  == IF radix THEN RunEnd(i + 2, digits \cup {"_"}) ELSE RunEnd(i, Digits \cup {"_"})
      point  == ~radix /\ Glyph(whole) = "." /\ Glyph(whole + 1) \in Digits
      fract  == IF point THEN RunEnd(whole + 1, Digits) ELSE whole
      expo   == ~radix /\ Glyph(fract) \in Exponents
      word   == expo /\ Glyph(fract) \notin {"e", "E"}
      sign   == IF Glyph(fract + 1) \in {"+", "-"} THEN fract + 2 ELSE fract + 1
      j      == IF word THEN fract + 1 ELSE IF expo THEN RunEnd(sign, Digits) ELSE fract
  IN  [end |-> j, token |-> <<IF point \/ expo THEN "FLOAT" ELSE "INT", Spelt(i, j)>>,
       faults |-> IF word \/ (expo /\ Glyph(sign) \notin Digits) THEN 1 ELSE 0]

(***************************************************************************)
(* Strings and characters.  An escape is kept as the glyph it names.       *)
(***************************************************************************)
Escapes == {"n", "t", "r", "\\", "\"", "0"}

\* From i on, inside the quotes: a line break or the end is a fault.
Str(i) ==
  LET rest[k \in 1..(Len(source) + 2)] ==
        IF k > Len(source) THEN [end |-> k, text |-> << >>, faults |-> 1]
        ELSE IF source[k] = "\"" THEN [end |-> k + 1, text |-> << >>, faults |-> 0]
        ELSE IF source[k] = NewLine THEN [end |-> k + 1, text |-> << >>, faults |-> 1]
        ELSE IF source[k] # "\\"
             THEN LET r == rest[k + 1]
                  IN  [end |-> r.end, text |-> <<source[k]>> \o r.text, faults |-> r.faults]
             ELSE LET r == rest[k + 2]
                  IN  IF Glyph(k + 1) \in Escapes
                      THEN [end |-> r.end, text |-> <<"\\" \o Glyph(k + 1)>> \o r.text,
                            faults |-> r.faults]
                      ELSE [end |-> r.end, text |-> r.text, faults |-> r.faults + 1]
      r == rest[i + 1]
  IN  [end |-> r.end, token |-> <<"STR", Joined(r.text)>>, faults |-> r.faults]

CharLit(i) ==
  LET escape == Glyph(i + 1) = "\\"
      none   == i + 1 > Len(source)
      last   == IF escape THEN i + 3 ELSE IF none THEN i + 1 ELSE i + 2
      known  == ~escape \/ Glyph(i + 2) \in {"n", "t", "\\", "'", "0"}
      closed == Glyph(last) = "'"
  IN  [end |-> IF closed THEN last + 1 ELSE last,
       token |-> <<"CHAR", IF ~known \/ none THEN "" ELSE IF escape THEN "\\" \o Glyph(i + 2)
                           ELSE Glyph(i + 1)>>,
       faults |-> (IF none THEN 1 ELSE 0) + (IF known THEN 0 ELSE 1) + (IF closed THEN 0 ELSE 1)]

(***************************************************************************)
(* Symbols: match consumes the second character of a pair.                 *)
(***************************************************************************)
Singles == {"(", ")", "{", "}", "[", "]", ",", ";", "~", "@", "%", "^", "*", "/", "+", "-",
            "=", "!", "<", ">", "&", "|", ":", ".", "?"}
Pairs == {<<"%", "=", "%=">>, <<"*", "=", "*=">>, <<"/", "=", "/=">>, <<"+", "=", "+=">>,
          <<"-", "=", "-=">>, <<"-", ">", "->">>, <<"=", "=", "==">>, <<"=", ">", "=>">>,
          <<"!", "=", "!=">>, <<"<", "=", "<=">>, <<">", "=", ">=">>, <<"&", "&", "&&">>,
          <<"|", "|", "||">>, <<":", ":", "::">>, <<".", ".", "..">>}

\* Any other character is an error, and a token of no use to the parser.
Symbol(i) ==
  LET both == {p \in Pairs : p[1] = Glyph(i) /\ p[2] = Glyph(i + 1)}
      text == IF both # {} THEN (CHOOSE p \in both : TRUE)[3] ELSE Glyph(i)
  IN  [end |-> IF both # {} THEN i + 2 ELSE i + 1,
       token |-> <<IF Glyph(i) \in Singles THEN text ELSE "UNKNOWN", text>>,
       faults |-> IF Glyph(i) \in Singles THEN 0 ELSE 1]

(***************************************************************************)
(* Blanks and comments.                                                    *)
(***************************************************************************)
LineEnd(i) == CHOOSE j \in i..(Len(source) + 1) :
                (\A k \in i..(j - 1) : source[k] # NewLine) /\ Glyph(j) \in {"", NewLine}

\* Block comments nest.
Opens(k)  == Glyph(k) = "/" /\ Glyph(k + 1) = "*"
Closes(k) == Glyph(k) = "*" /\ Glyph(k + 1) = "/"
BlockComment(i) ==
  LET skip[p \in (1..(Len(source) + 1)) \X Nat] ==
        LET k == p[1]
            depth == p[2]
        IN  IF depth = 0 \/ k > Len(source) THEN p
            ELSE IF Opens(k) THEN skip[<<k + 2, depth + 1>>]
            ELSE IF Closes(k) THEN skip[<<k + 2, depth - 1>>]
            ELSE skip[<<k + 1, depth>>]
  IN  skip[<<i + 2, 1>>]

(***************************************************************************)
(* The machine.                                                            *)
(***************************************************************************)
LexInit == at = 1 /\ tokens = << >> /\ lexErrors = 0 /\ scanning = FALSE

Lexed == tokens # << >> /\ tokens[Len(tokens)][1] = "EOF"

AtComment == Glyph(at) = "/" /\ Glyph(at + 1) \in {"/", "*"}

SkipWhitespace ==
  /\ ~Lexed /\ ~scanning /\ at <= Len(source)
  /\ \/ Glyph(at) \in Blanks /\ at' = at + 1 /\ UNCHANGED lexErrors
     \/ AtComment /\ Glyph(at + 1) = "/" /\ at' = LineEnd(at) /\ UNCHANGED lexErrors
     \/ /\ AtComment /\ Glyph(at + 1) = "*"
        /\ LET end == BlockComment(at)
           IN  at' = end[1] /\ lexErrors' = lexErrors + (IF end[2] = 0 THEN 0 ELSE 1)
  /\ UNCHANGED <<source, tokens, scanning>>

\* Behind a # the scan of a token goes on where the line ends, at the line break.
HashComment ==
  /\ ~Lexed /\ Glyph(at) = "#"
  /\ at' = LineEnd(at + 1) /\ scanning' = TRUE
  /\ UNCHANGED <<source, tokens, lexErrors>>

ScanToken ==
  /\ ~Lexed /\ Glyph(at) # "#"
  /\ scanning \/ (at <= Len(source) /\ Glyph(at) \notin Blanks /\ ~AtComment)
  /\ LET t == IF Glyph(at) \in Digits THEN Num(at)
              ELSE IF Glyph(at) = "\"" THEN Str(at)
              ELSE IF Glyph(at) = "'" THEN CharLit(at)
              ELSE IF Glyph(at) \in Letters \cup {"_"} THEN Word(at)
              ELSE Symbol(at)
     IN  /\ at' = t.end
         /\ tokens' = Append(tokens, t.token)
         /\ lexErrors' = lexErrors + t.faults
  /\ scanning' = FALSE
  /\ UNCHANGED source

EndOfText == /\ ~Lexed /\ ~scanning /\ at > Len(source)
             /\ tokens' = Append(tokens, <<"EOF", "">>)
             /\ UNCHANGED <<source, at, lexErrors, scanning>>

LexNext == SkipWhitespace \/ HashComment \/ ScanToken \/ EndOfText
=============================================================================
