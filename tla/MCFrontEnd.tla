----------------------------- MODULE MCFrontEnd -----------------------------
(***************************************************************************)
(* The texts of the run FrontEnd: trees of every kind, one inside another, *)
(* with the text a user would write for them, and texts without sense.     *)
(***************************************************************************)
EXTENDS FrontEnd, SequencesExt

LettersDef == Keywords \cup {"true", "false", "int", "x", "y", "f", "b", "e", "F", "X", "B", "E"}
ExponentsDef == {"e", "E", "else", "elif"}
\* What the texts below hold of them: 0x and 0b without a digit, 0X and 0B with any,
\* and numbers that shall stand for those that fit no long long and no double.
ReadAsZeroDef ==
  {<<"INT", n>> : n \in {"1111", "0x", "0b"}} \cup {<<"FLOAT", "1e111">>}
  \cup {<<"INT", "0" \o p \o d>> : p \in {"X", "B"}, d \in {"", "0", "1", "11", "111", "F", "b"}}

(***************************************************************************)
(* Writing a tree.  A token is the sequence of its glyphs.                 *)
(***************************************************************************)
T(n) == <<"text", n>>
Nothing == <<"None", << >>>>
Sym(s) == IF \E p \in Pairs : p[3] = s THEN LET p == CHOOSE p \in Pairs : p[3] = s IN <<p[1], p[2]>>
          ELSE <<s>>
Quoted(quote, s) == <<quote, s, quote>>

BinaryLevel == [op \in {"||", "&&", "==", "!=", "<", ">=", "|", "&", "+", "-", "*", "%"} |->
  CASE op = "||" -> 3 [] op = "&&" -> 4 [] op \in {"==", "!="} -> 5 [] op \in {"<", ">="} -> 6
    [] op \in {"|", "&"} -> 8 [] op \in {"+", "-"} -> 9 [] op \in {"*", "%"} -> 10]

\* How loosely an expression binds; a ? at its end, await, & and => reach to the right.
Binds(n) ==
  CASE n[1] \in {"Await", "Ref"} -> 0
    [] n[1] = "Lambda" -> IF n[2][3][1] = "Block" THEN 13 ELSE 0
    [] n[1] = "Optional" -> IF Len(n[2]) = 1 THEN 0 ELSE 12
    [] n[1] = "Assign" -> 1
    [] n[1] = "Ternary" -> 2
    [] n[1] = "Binary" -> BinaryLevel[n[2][2][2]]
    [] n[1] = "Range" -> 7
    [] n[1] = "Unary" -> 11
    [] n[1] \in {"Call", "Index", "Field", "Scope"} -> 12
    [] OTHER -> 13

RECURSIVE Write(_, _)

Each(ns, sep, level) == FoldLeft(LAMBDA a, n : IF a = << >> THEN Write(n, level)
                                               ELSE a \o sep \o Write(n, level), << >>, ns)
W(s) == <<Sym(s)>>
Word_(leaf) == <<<<leaf[2]>>>>
Maybe(before, n, after) == IF n = Nothing THEN << >> ELSE before \o Write(n, 0) \o after
\* Behind x ? and => a brace does not start a map.
NoBrace(ts) == IF ts[1] = W("{")[1] THEN W("(") \o ts \o W(")") ELSE ts

\* The tokens of node n where what binds looser than level needs parentheses.
Plain(n) ==
  LET p == n[2]
      E(i) == Write(p[i], 0)
      L(i, level) == Write(p[i], level)
  IN
  CASE n[1] = "text" -> <<<<n[2]>>>>
    [] n[1] \in {"Ident", "Int", "Bool"} -> Word_(p[1])
    [] n[1] \in {"Str", "Char"} -> <<Quoted(IF n[1] = "Str" THEN "\"" ELSE "'", p[1][2])>>
    [] n[1] = "Float" -> <<<<"1", ".", "2", "e", "-", "1">>>>
    [] n[1] = "Null" -> W("null")
    [] n[1] = "Assign" -> L(1, 2) \o W(p[2][2]) \o L(3, 1)
    [] n[1] = "Ternary" -> L(1, 3) \o W("?") \o NoBrace(L(2, 3)) \o W(":") \o L(3, 3)
    [] n[1] = "Binary" -> LET level == BinaryLevel[p[2][2]]
                          IN  L(1, level) \o W(p[2][2]) \o L(3, level + 1)
    [] n[1] = "Range" -> L(1, 8) \o W("..") \o (IF p[2][2] = "" THEN << >> ELSE W("=")) \o L(3, 8)
    [] n[1] = "Unary" -> W(p[1][2]) \o L(2, 11)
    [] n[1] = "Call" -> L(1, 12) \o W("(") \o Each(Tail(p), W(","), 0) \o W(")")
    [] n[1] = "Index" -> L(1, 12) \o W("[") \o E(2) \o W("]")
    [] n[1] = "Field" -> L(1, 12) \o W(".") \o E(2)
    [] n[1] = "Scope" -> L(1, 12) \o W("::") \o E(2)
    [] n[1] = "Bare" -> E(1)
    [] n[1] = "Optional" -> L(1, 12) \o W("?") \o (IF Len(p) = 1 THEN << >> ELSE W(".") \o E(2))
    [] n[1] = "Lambda" ->
         (IF p[1][2] = << >> THEN W("||") ELSE W("|") \o Each(p[1][2], W(","), 0) \o W("|"))
           \o Maybe(W("->"), p[2], << >>) \o (IF p[3][1] = "Block" THEN << >> ELSE W("=>")) \o E(3)
    [] n[1] = "List" -> W("[") \o Each(p, W(","), 0) \o W("]")
    [] n[1] = "Map" -> W("{") \o L(1, 1) \o W(":") \o L(2, 1) \o W("}")
    [] n[1] = "Await" -> W("await") \o E(1)
    [] n[1] = "Spawn" -> W("spawn") \o E(1)
    [] n[1] \in {"Own", "Alloc"} -> W(IF n[1] = "Own" THEN "own" ELSE "alloc") \o W("<") \o E(1)
                                      \o W(">") \o W("(") \o Maybe(<< >>, p[2], << >>) \o W(")")
    [] n[1] = "Ref" -> W("&") \o (IF p[1][2] = "" THEN << >> ELSE W("mut")) \o E(2)
    [] n[1] = "Channel" -> W("channel") \o Maybe(W("<"), p[1], W(">")) \o W("(") \o W(")")
    [] n[1] = "Move" -> W("move") \o W("(") \o Each(p, W(","), 0) \o W(")")
    [] n[1] = "TypeName" -> Word_(p[1]) \o (IF Len(p) = 1 THEN << >> ELSE W("<") \o E(2) \o W(">"))
    [] n[1] = "TypeOptional" -> E(1) \o W("?")
    [] n[1] = "TypeList" -> W("[") \o E(1) \o W("]") \o (IF p[2][2] = "" THEN << >> ELSE W("?"))
    [] n[1] = "TypeMap" -> W("{") \o E(1) \o W(":") \o E(2) \o W("}")
    [] n[1] = "TypeTuple" -> W("(") \o Each(p, W(","), 0) \o W(")")
    [] n[1] = "Params" -> W("(") \o Each(p, W(","), 0) \o W(")")
    [] n[1] = "Param" -> (IF p[1][2] = "" THEN << >> ELSE W("mut")) \o E(2)
                           \o Maybe(W(":"), p[3], << >>) \o Maybe(W("="), p[4], << >>)
    [] n[1] = "Block" -> W("{") \o Each(p, << >>, 0) \o W("}")
    [] n[1] = "ExprStmt" -> E(1) \o W(";")
    [] n[1] = "Var" -> E(1) \o (IF p[2][2] = "" THEN << >> ELSE W("ref")) \o E(3)
                         \o Maybe(W(":"), p[4], << >>) \o Maybe(W("="), p[5], << >>) \o W(";")
    [] n[1] = "Return" -> W("return") \o Maybe(<< >>, p[1], << >>) \o W(";")
    [] n[1] \in {"Break", "Continue"} -> W(IF n[1] = "Break" THEN "break" ELSE "continue") \o W(";")
    [] n[1] = "If" ->
         LET branch(i) == (IF i = 1 THEN W("if") ELSE IF p[i] = Nothing THEN W("else") ELSE W("elif"))
                            \o Maybe(<< >>, p[i], << >>) \o E(i + 1)
         IN  branch(1) \o (IF Len(p) > 2 THEN branch(3) ELSE << >>)
                       \o (IF Len(p) > 4 THEN branch(5) ELSE << >>)
    [] n[1] = "While" -> W("while") \o E(1) \o E(2)
    [] n[1] \in {"ForIn", "ParFor"} -> (IF n[1] = "ForIn" THEN << >> ELSE W("par")) \o W("for")
                                         \o E(1) \o W("in") \o E(2) \o E(3)
    [] n[1] = "Loop" -> W("loop") \o E(1)
    [] n[1] = "Match" -> W("match") \o E(1) \o W("{") \o Each(Tail(p), << >>, 0) \o W("}")
    [] n[1] = "Arm" -> Write(p[1], 1) \o W("=>")
                         \o (IF p[2][1] = "ExprStmt" THEN NoBrace(Write(p[2][2][1], 0)) \o W(";") ELSE E(2))
    [] n[1] = "Region" -> W("region") \o E(1) \o E(2)
    [] n[1] = "Try" -> W("try") \o E(1) \o W("catch") \o Maybe(<< >>, p[2], << >>) \o E(3)
    [] n[1] = "Throw" -> W("throw") \o E(1) \o W(";")
    [] n[1] = "Asm" -> W("asm") \o Maybe(W("("), p[1], W(")")) \o W("{")
                         \o Each(Tail(p), << >>, 0) \o W("}")
    [] n[1] = "Binds" -> Each(p, W(","), 0)
    [] n[1] = "Bind" -> Maybe(<< >>, p[1], << >>) \o E(2) \o W("=") \o E(3)
    [] n[1] = "Line" -> Each(p, << >>, 0) \o W(";")
    [] n[1] \in {"Func", "AsyncFunc"} -> (IF n[1] = "Func" THEN << >> ELSE W("async")) \o E(1) \o W("::")
                                           \o E(2) \o Maybe(W("->"), p[3], << >>) \o E(4)
    [] n[1] = "Class" -> W("class") \o E(1) \o Maybe(W(":"), p[2], << >>) \o W("{")
                           \o Each(SubSeq(p, 3, Len(p)), << >>, 0) \o W("}")
    [] n[1] = "Init" -> W("init") \o E(1) \o E(2)
    [] n[1] = "FieldDecl" -> E(1) \o W(":") \o E(2) \o Maybe(W("="), p[3], << >>) \o W(";")
    [] n[1] = "Annotation" -> W("@") \o E(1) \o Maybe(W("("), p[2], W(")"))
    [] n[1] = "Raw" -> Each(p, << >>, 0)
    [] n[1] = "Use" -> W("use") \o (IF p[1] = Nothing THEN << >> ELSE W(".") \o W("/"))
                         \o Each(p[2][2], W("::"), 0) \o Maybe(W("as"), p[3], << >>)
                         \o Maybe(W("::") \o W("{"), p[4], W("}")) \o W(";")
    [] n[1] = "Names" -> Each(p, W(","), 0)
    [] n[1] = "Program" -> Each(p, << >>, 0)

Write(n, level) == IF n[1] # "text" /\ Binds(n) < level THEN W("(") \o Plain(n) \o W(")") ELSE Plain(n)

(***************************************************************************)
(* Spacing: nothing where the scanner needs nothing, or comments.          *)
(***************************************************************************)
Wordish == LettersDef \cup Digits
Touching(a, b) == \/ a \in Wordish /\ b \in Wordish
                  \/ <<a, b>> \in {<<p[1], p[2]>> : p \in Pairs} \cup {<<"/", "/">>, <<"/", "*">>}
Tight(ts) == FoldLeft(LAMBDA a, t : IF a # << >> /\ Touching(a[Len(a)], t[1])
                                    THEN a \o <<" ">> \o t ELSE a \o t, << >>, ts)
Comment == <<" ", "/", "*", "x", "/", "*", "*", "/", "*", "/", "/", "/", ";", NewLine>>
Commented(ts) == FoldLeft(LAMBDA a, t : a \o t \o Comment, << >>, ts)

(***************************************************************************)
(* The trees.                                                              *)
(***************************************************************************)
Id(s) == <<"Ident", <<T(s)>>>>
x == Id("x")
y == Id("y")
One == <<"Int", <<T("1")>>>>
IntType == <<"TypeName", <<T("int")>>>>
Bin(op, a, b) == <<"Binary", <<a, T(op), b>>>>
Params(ps) == <<"Params", ps>>
Plain1 == <<"Param", <<T(""), T("x"), Nothing, Nothing>>>>
ExprS(e) == <<"ExprStmt", <<e>>>>
Body(s) == <<"Block", <<s>>>>

Types == {IntType, <<"TypeName", <<T("x"), IntType>>>>, <<"TypeOptional", <<IntType>>>>,
          <<"TypeList", <<IntType, T("?")>>>>, <<"TypeMap", <<IntType, IntType>>>>,
          <<"TypeTuple", <<IntType, IntType>>>>}

\* Every form of expression over two operands.
Over(a, b) ==
  {<<"Assign", <<a, T(op), b>>>> : op \in {"=", "+="}}
  \cup {Bin(op, a, b) : op \in {"||", "&&", "==", "<", "|", "-", "*"}}
  \cup {<<"Ternary", <<a, b, x>>>>, <<"Ternary", <<x, a, b>>>>,
        <<"Range", <<a, T("="), b>>>>, <<"Range", <<a, T(""), b>>>>,
        <<"Call", <<a, b>>>>, <<"Call", <<x, a, b>>>>, <<"Index", <<a, b>>>>,
        <<"List", <<a, b>>>>, <<"Map", <<a, b>>>>, <<"Move", <<a, b>>>>,
        <<"Lambda", <<Params(<<Plain1>>), Nothing, a>>>>,
        <<"Lambda", <<Params(<< >>), IntType, <<"Block", <<ExprS(a), ExprS(b)>>>>>>>>}
Of(a) == {<<"Unary", <<T("-"), a>>>>, <<"Field", <<a, T("f")>>>>, <<"Scope", <<a, T("f")>>>>,
          <<"Optional", <<a>>>>, <<"Optional", <<a, T("f")>>>>, <<"Await", <<a>>>>,
          <<"Ref", <<T("mut"), a>>>>, <<"Own", <<IntType, a>>>>, <<"Spawn", <<Body(ExprS(a))>>>>}
Atoms == {One, <<"Str", <<T("x")>>>>, <<"Bool", <<T("true")>>>>, <<"Null", << >>>>,
          <<"Char", <<T("x")>>>>, <<"Float", <<T("1.2e-1")>>>>, <<"Alloc", <<IntType, Nothing>>>>, <<"Channel", <<IntType>>>>, <<"Channel", <<Nothing>>>>}

Exprs1 == Over(x, y) \cup Of(x) \cup Atoms
Exprs2 == UNION {Over(e, y) \cup Over(y, e) \cup Of(e) : e \in Exprs1}

\* Every form of statement over an expression and a statement.
StmtsOver(e, s) ==
  {ExprS(e), <<"Var", <<T("let"), T(""), T("x"), Nothing, e>>>>, <<"Return", <<e>>>>,
   <<"Throw", <<e>>>>, <<"If", <<e, Body(s)>>>>,
   <<"If", <<e, Body(s), x, Body(s), Nothing, Body(s)>>>>, <<"If", <<e, Body(s), Nothing, Body(s)>>>>,
   <<"While", <<e, Body(s)>>>>, <<"ForIn", <<T("x"), e, Body(s)>>>>, <<"ParFor", <<T("x"), e, Body(s)>>>>,
   <<"Loop", <<Body(s)>>>>, <<"Region", <<T("x"), Body(s)>>>>,
   <<"Try", <<Body(s), T("y"), Body(s)>>>>, <<"Try", <<Body(s), Nothing, Body(s)>>>>,
   <<"Match", <<e, <<"Arm", <<One, Body(s)>>>>, <<"Arm", <<Id("_"), <<"Return", <<e>>>>>>>>>>>>,
   <<"Match", <<x, <<"Arm", <<e, ExprS(e)>>>>>>>>}
Stmts0 == {<<"Break", << >>>>, <<"Continue", << >>>>, <<"Return", <<Nothing>>>>,
           <<"Asm", <<Nothing, <<"Line", <<T("x"), T("1")>>>>, <<"Line", <<T("y")>>>>>>>>,
           <<"Asm", <<<<"Binds", <<<<"Bind", <<T("out"), T("x"), T("y")>>>>,
                                  <<"Bind", <<Nothing, T("y"), T("x")>>>>>>>>>>>>}
          \cup {<<"Var", <<T("var"), T("ref"), T("x"), t, One>>>> : t \in Types}
Stmts1 == Stmts0 \cup UNION {StmtsOver(e, ExprS(y)) : e \in Exprs1}
Stmts2 == UNION {StmtsOver(x, s) : s \in Stmts0 \cup StmtsOver(x, ExprS(y))}

Function(s) == <<"Func", <<T("f"), Params(<<<<"Param", <<T(""), T("self"), Nothing, Nothing>>>>,
                                           <<"Param", <<T("mut"), T("x"), IntType, One>>>>>>),
                          IntType, Body(s)>>>>
Decls(s) == {Function(s), <<"AsyncFunc", Function(s)[2]>>,
             <<"Class", <<T("x"), T("y"), <<"FieldDecl", <<T("f"), IntType, One>>>>,
                         <<"FieldDecl", <<T("y"), IntType, Nothing>>>>,
                         <<"Init", <<Params(<<Plain1>>), Body(s)>>>>, Function(s)>>>>,
             <<"Class", <<T("x"), Nothing, <<"AsyncFunc", Function(s)[2]>>>>>>}
Uses == {<<"Use", <<r, <<"Path", <<T("x"), T("y")>>>>, a, ns>>>> :
           r \in {Nothing, <<"Relative", << >>>>}, a \in {Nothing, T("f")},
           ns \in {Nothing, <<"Names", <<T("x"), T("y")>>>>}}
Notes == {<<"Annotation", <<T("x"), Nothing>>>>,
          <<"Annotation", <<T("x"), <<"Raw", <<T("x"), T("("), T("y"), T(")"), T(","), T("f")>>>>>>>>}

\* Null tests before a :, and lambdas with defaults, the last with one or without.
Test(e)  == <<"Bare", <<<<"Optional", <<e>>>>>>>>
Bare     == UNION {{<<"Ternary", <<x, Test(e), y>>>>, <<"Map", <<Test(e), y>>>>} : e \in {x, <<"Call", <<x, y>>>>}}
Defaulted(v) == <<"Param", <<T(""), T("y"), Nothing, v>>>>
Lambdas  == {<<"Lambda", <<Params(ps), t, b>>>> :
               ps \in {<<Defaulted(One)>>, <<Plain1, Defaulted(Id("x"))>>, <<Defaulted(One), Plain1>>},
               t \in {Nothing, IntType}, b \in {x, Body(ExprS(y))}}
Odd      == Bare \cup Lambdas
OddTrees == UNION {{ExprS(e), <<"Return", <<e>>>>, ExprS(<<"Call", <<x, e>>>>), ExprS(<<"Assign", <<x, T("="), e>>>>)} : e \in Odd}

Trees == OddTrees \cup {ExprS(e) : e \in Exprs2} \cup Stmts1 \cup Stmts2 \cup Uses \cup Notes
         \cup UNION {Decls(s) : s \in Stmts0 \cup {ExprS(x)}}

\* The token a leaf of a node stands for; none for a flag that is not set.
Token(kind, s) ==
  IF s = "" THEN NodeOf("None", 0)
  ELSE <<CASE kind = "Str" -> "STR" [] kind = "Char" -> "CHAR" [] kind = "Float" -> "FLOAT"
           [] kind \in {"Int", "Line"} /\ s \in {"1"} -> "INT"
           [] s \in Singles \cup {p[3] : p \in Pairs} -> s
           [] OTHER -> WordType(s), s>>

\* A tree behind its parts.
RECURSIVE BehindParts(_)
BehindParts(n) ==
  IF n[1] = "Bare" THEN BehindParts(n[2][1]) ELSE
  Append(FoldLeft(LAMBDA a, p : a \o IF p[1] = "text" THEN <<Token(n[1], p[2])>> ELSE BehindParts(p),
                  << >>, n[2]),
         NodeOf(n[1], Len(n[2])))

\* The forms that are not read as they are written: a null test without parentheses
\* before a :, and a default behind which a lambda's parameters end.
EndsInDefault(ps) == ps # << >> /\ ps[Len(ps)][2][4] # Nothing
RECURSIVE Readable(_)
Readable(n) ==
  \/ n[1] = "text"
  \/ /\ n[1] # "Bare"
     /\ ~(n[1] = "Lambda" /\ EndsInDefault(n[2][1][2]))
     /\ \A i \in DOMAIN n[2] : Readable(n[2][i])

Of2(n) == <<"Program", <<n, ExprS(One)>>>>
Written == {[text |-> Tight(Write(Of2(n), 0)), tree |-> BehindParts(Of2(n)), readable |-> Readable(n)] : n \in Trees}
           \cup {[text |-> Commented(Write(Of2(n), 0)), tree |-> BehindParts(Of2(n)), readable |-> Readable(n)] :
                   n \in Uses \cup Stmts0 \cup {ExprS(e) : e \in Exprs1}}

(***************************************************************************)
(* Texts without sense.                                                    *)
(***************************************************************************)
Marks == {"x", "f", "1", "(", ")", "{", "}", ":", "=", "|", "?", "."}
Openers == {<<"class">>, <<"match">>, <<"asm">>, <<"use">>, <<"@">>, <<"if">>, <<"\"">>, <<"'">>,
            <<"/", "*">>, <<"#">>, <<"let", " ">>, <<"[">>, <<"own">>, <<"1", "e">>, <<"0", "x">>,
            <<"0", "X">>, <<"0", "B">>, <<"1", "E">>, <<"1", "else">>, <<"1", "e", "1">>, << >>}
Junk == {[text |-> o \o m, tree |-> << >>, readable |-> TRUE] : o \in Openers, m \in UNION {[1..n -> Marks] : n \in 0..2}}
        \cup {[text |-> m, tree |-> << >>, readable |-> TRUE] : m \in [1..3 -> Marks]}

ProgramsDef == Written \cup Junk
=============================================================================
