------------------------------- MODULE Grammar -------------------------------
(***************************************************************************)
(* The parse_* functions of the parser (src/src/parser.cpp).  Each is a    *)
(* rule: its calls of expect, match, check, advance and of other parse_*   *)
(* functions, written as data for the machine of the module Parser.        *)
(***************************************************************************)
EXTENDS Sequences

(***************************************************************************)
(* What a rule is made of.                                                 *)
(***************************************************************************)
Want(t)         == <<"want", t>>           \* expect(t)
Name(t)         == <<"name", t>>           \* expect(t), whose text becomes a part
Skip            == <<"skip">>              \* advance()
Take            == <<"take">>              \* advance(), the text becomes a part
Number          == <<"number">>            \* the same, through std::stoll or stod
May(t)          == <<"may", t>>            \* match(t)
Flag(t)         == <<"flag", t>>           \* match(t), and whether it did is a part
Sub(r)          == <<"sub", r>>            \* a call of the rule r
Node(k, items)  == <<"node", k, items>>    \* make_node(k), its parts made by items
Around(k, items) == <<"around", k, items>> \* the same, with the last part moved into it
Close(k)        == <<"close", k>>          \* the node is complete
Pick(alts)      == <<"pick", alts>>        \* if, else if, ... on the tokens ahead
Until(stop, b)  == <<"until", stop, b>>    \* while (!check(stop) && !at_end()) b
Repeat(la, b)   == <<"repeat", la, b>>     \* while (check(la)) b
Comma           == <<"comma">>             \* if (!match(COMMA)) break
Fault           == <<"fault">>             \* emit_error

\* What check and check2 find ahead: a set of types for each token of la, or the text
\* of an identifier that the parser looks for by its text.
Contextual    == {"_", "out"}
On(la, items) == <<la, items>>
Else(items)   == << << >>, items>>
None          == Node("None", << >>)
Opt(t, items) == Pick(<<On(<<{t}>>, <<Skip>> \o items), Else(<<None>>)>>)

Idents    == {"IDENT"}
FuncAhead == <<Idents, {"::"}, {"("}>>

(***************************************************************************)
(* Declarations.                                                           *)
(***************************************************************************)
Program == <<Node("Program", <<Until({"EOF"}, <<Sub("TopLevel")>>)>>)>>

TopLevel == <<Pick(<<On(<<{"@"}>>, <<Sub("Annotation")>>),
                     On(<<{"use"}>>, <<Sub("UseDecl")>>),
                     On(<<{"class"}>>, <<Sub("ClassDecl")>>),
                     On(<<{"async"}>>, <<Skip, Sub("AsyncDecl")>>),
                     On(FuncAhead, <<Sub("FuncDecl")>>),
                     Else(<<Sub("Stmt")>>)>>)>>

Relative == <<{"."}, {"/"}>>

UsePath == <<Node("Path",
               <<Pick(<<On(Relative, <<Skip, Skip>>), Else(<< >>)>>),
                 Name("IDENT"),
                 Repeat(<<{"::"}, Idents>>, <<Skip, Take>>)>>)>>

UseDecl == <<Node("Use",
               <<Want("use"),
                 Pick(<<On(Relative, <<Node("Relative", << >>)>>), Else(<<None>>)>>),
                 Sub("UsePath"),
                 Opt("as", <<Name("IDENT")>>),
                 Pick(<<On(<<{"::"}, {"{"}>>,
                           <<Skip, Skip, Node("Names", <<Until({"}"}, <<Name("IDENT"), Comma>>)>>),
                             Want("}")>>),
                        On(<<{"::"}>>, <<Skip, None>>),
                        Else(<<None>>)>>),
                 Want(";")>>)>>

ClassDecl == <<Node("Class",
                 <<Want("class"), Name("IDENT"), Opt(":", <<Name("IDENT")>>), Want("{"),
                   Until({"}"}, <<Pick(<<
                     On(<<{"@"}>>, <<Sub("Annotation")>>),
                     On(<<{"init"}>>, <<Node("Init", <<Skip, Sub("ParamList"), Sub("Block")>>)>>),
                     On(<<Idents, {"::"}>>, <<Sub("FuncDecl")>>),
                     On(<<{"async"}>>, <<Skip, Sub("AsyncDecl")>>),
                     Else(<<Node("FieldDecl", <<Name("IDENT"), Want(":"), Sub("Type"),
                                                Opt("=", <<Sub("Expr")>>), Want(";")>>)>>)>>)>>),
                   Want("}")>>)>>

\* name :: (params) -> type { body }, or => expr; for a body that returns it.
Func(kind) == Node(kind,
                <<Name("IDENT"), Want("::"), Sub("ParamList"), Opt("->", <<Sub("Type")>>),
                  Pick(<<On(<<{"=>"}>>,
                            <<Skip, Node("Block", <<Node("Return", <<Sub("Expr"), Want(";")>>)>>)>>),
                         Else(<<Sub("Block")>>)>>)>>)
FuncDecl  == <<Func("Func")>>
AsyncDecl == <<Func("AsyncFunc")>>

\* The raw tokens of an annotation, up to the parenthesis that closes it.
Raw == <<Until({")"}, <<Pick(<<On(<<{"("}>>, <<Take, Sub("Raw"),
                                               Pick(<<On(<<{")"}>>, <<Take>>), Else(<< >>)>>)>>),
                               Else(<<Take>>)>>)>>)>>

Annotation == <<Node("Annotation",
                  <<Want("@"), Name("IDENT"), Opt("(", <<Node("Raw", <<Sub("Raw")>>), Want(")")>>)>>)>>

(***************************************************************************)
(* Statements.                                                             *)
(***************************************************************************)
Block == <<Node("Block", <<Want("{"), Until({"}"}, <<Sub("Stmt")>>), Want("}")>>)>>

Stmt == <<Pick(<<On(<<{"let", "var", "const"}>>, <<Sub("VarDecl")>>),
                 On(<<{"return"}>>, <<Sub("ReturnStmt")>>),
                 On(<<{"break"}>>, <<Node("Break", <<Skip, May(";")>>)>>),
                 On(<<{"continue"}>>, <<Node("Continue", <<Skip, May(";")>>)>>),
                 On(<<{"if"}>>, <<Sub("IfStmt")>>),
                 On(<<{"while"}>>, <<Sub("WhileStmt")>>),
                 On(<<{"for"}>>, <<Sub("ForStmt")>>),
                 On(<<{"par"}, {"for"}>>, <<Sub("ForStmt")>>),
                 On(<<{"loop"}>>, <<Sub("LoopStmt")>>),
                 On(<<{"match"}>>, <<Sub("MatchStmt")>>),
                 On(<<{"region"}>>, <<Sub("RegionStmt")>>),
                 On(<<{"try"}>>, <<Sub("TryStmt")>>),
                 On(<<{"throw"}>>, <<Sub("ThrowStmt")>>),
                 On(<<{"asm"}>>, <<Sub("AsmStmt")>>),
                 On(<<{"@"}>>, <<Sub("Annotation")>>),
                 On(<<{"async"}>>, <<Skip, Sub("AsyncDecl")>>),
                 On(FuncAhead, <<Sub("FuncDecl")>>),
                 Else(<<Sub("ExprStmt")>>)>>)>>

ExprStmt == <<Node("ExprStmt", <<Sub("Expr"), May(";")>>)>>

VarDecl == <<Node("Var", <<Take, Flag("ref"), Name("IDENT"), Opt(":", <<Sub("Type")>>),
                           Opt("=", <<Sub("Expr")>>), May(";")>>)>>

ReturnStmt == <<Node("Return", <<Want("return"),
                                 Pick(<<On(<<{";", "}", "EOF"}>>, <<None>>),
                                        Else(<<Sub("Expr")>>)>>),
                                 May(";")>>)>>

\* Conditions and bodies in turn; the condition of else is none.
IfStmt == <<Node("If", <<Want("if"), Sub("Expr"), Sub("Block"),
                         Repeat(<<{"elif"}>>, <<Skip, Sub("Expr"), Sub("Block")>>),
                         Pick(<<On(<<{"else"}>>, <<Skip, None, Sub("Block")>>), Else(<< >>)>>)>>)>>

WhileStmt == <<Node("While", <<Want("while"), Sub("Expr"), Sub("Block")>>)>>

For(kind) == Node(kind, <<Want("for"), Name("IDENT"), Want("in"), Sub("Expr"), Sub("Block")>>)
ForStmt   == <<Pick(<<On(<<{"par"}>>, <<Skip, For("ParFor")>>), Else(<<For("ForIn")>>)>>)>>

LoopStmt == <<Node("Loop", <<Want("loop"), Sub("Block")>>)>>

MatchArm == Node("Arm",
              <<Pick(<<On(<<{"_"}>>, <<Node("Ident", <<Take>>)>>), Else(<<Sub("Expr")>>)>>),
                Want("=>"),
                Pick(<<On(<<{"{"}>>, <<Sub("Block")>>),
                       On(<<{"return"}>>, <<Sub("ReturnStmt")>>),
                       Else(<<Sub("ExprStmt")>>)>>)>>)
MatchStmt == <<Node("Match", <<Want("match"), Sub("Expr"), Want("{"),
                               Until({"}"}, <<MatchArm>>), Want("}")>>)>>

RegionStmt == <<Node("Region", <<Want("region"), Name("IDENT"), Sub("Block")>>)>>

TryStmt == <<Node("Try", <<Want("try"), Sub("Block"), Want("catch"),
                           Pick(<<On(<<Idents>>, <<Take>>), Else(<<None>>)>>), Sub("Block")>>)>>

ThrowStmt == <<Node("Throw", <<Want("throw"), Sub("Expr"), May(";")>>)>>

AsmBind == Node("Bind", <<Pick(<<On(<<{"out"}>>, <<Take>>), Else(<<None>>)>>),
                          Name("IDENT"), Want("="), Name("IDENT")>>)
\* Mutated: the semicolon behind a line of assembly is not consumed.
AsmStmtSpins == <<Node("Asm",
  <<Want("asm"),
    Opt("(", <<Node("Binds", <<Until({")"}, <<AsmBind, Comma>>)>>), Want(")")>>),
    Want("{"),
    Until({"}"}, <<Pick(<<On(<<{";"}>>, << >>),
                          Else(<<Node("Line", <<Until({";", "}"}, <<Take>>)>>)>>)>>)>>),
    Want("}")>>)>>

AsmStmt == <<Node("Asm",
               <<Want("asm"),
                 Opt("(", <<Node("Binds", <<Until({")"}, <<AsmBind, Comma>>)>>), Want(")")>>),
                 Want("{"),
                 Until({"}"}, <<Pick(<<On(<<{";"}>>, << >>),
                                       Else(<<Node("Line", <<Until({";", "}"}, <<Take>>)>>)>>)>>),
                                May(";")>>),
                 Want("}")>>)>>
(***************************************************************************)
(* Parameters and types.                                                   *)
(***************************************************************************)
ParamList == <<Node("Params", <<Want("("), Until({")"}, <<Sub("Param"), Comma>>), Want(")")>>)>>

Param == <<Node("Param",
             <<Flag("mut"),
               Pick(<<On(<<{"self"}>>, <<Take, None, None>>),
                      Else(<<Name("IDENT"), Opt(":", <<Sub("Type")>>),
                             Opt("=", <<Sub("Expr")>>)>>)>>)>>)>>

Type == <<Pick(<<On(<<{"["}>>, <<Node("TypeList", <<Skip, Sub("Type"), Want("]"), Flag("?")>>)>>),
                 On(<<{"{"}>>, <<Node("TypeMap", <<Skip, Sub("Type"), Want(":"), Sub("Type"),
                                                   Want("}")>>)>>),
                 On(<<{"("}>>, <<Node("TypeTuple", <<Skip, Until({")"}, <<Sub("Type"), Comma>>),
                                                     Want(")")>>)>>),
                 Else(<<Node("TypeName", <<Take, Pick(<<On(<<{"<"}>>, <<Skip, Sub("Type"), Want(">")>>),
                                                        Else(<< >>)>>)>>),
                        Pick(<<On(<<{"?"}>>, <<Skip, Around("TypeOptional", << >>)>>),
                               Else(<< >>)>>)>>)>>)>>

(***************************************************************************)
(* Expressions, one rule for each level of precedence, loosest first.      *)
(***************************************************************************)
AssignOps == {"=", "+=", "-=", "*=", "/=", "%="}

Assign == <<Sub("Ternary"),
            Pick(<<On(<<AssignOps>>, <<Around("Assign", <<Take, Sub("Expr")>>)>>), Else(<< >>)>>)>>

Ternary == <<Sub("Or"),
             Pick(<<On(<<{"?"}, {"."}>>, << >>),
                    On(<<{"?"}>>, <<Skip, Around("Ternary", <<Sub("Or"), Want(":"), Sub("Or")>>)>>),
                    Else(<< >>)>>)>>

\* Mutated: the right operand takes the rest of the expression.
LevelGreedy(ops, operand) ==
  <<Sub(operand), Repeat(<<ops>>, <<Around("Binary", <<Take, Sub("Ternary")>>)>>)>>

\* A level of left-associative operators over the level that binds closer.
Level(ops, operand) == <<Sub(operand), Repeat(<<ops>>, <<Around("Binary", <<Take, Sub(operand)>>)>>)>>

Or             == Level({"||"}, "And")
And            == Level({"&&"}, "Equality")
Equality       == Level({"==", "!="}, "Comparison")
Comparison     == Level({"<", ">", "<=", ">="}, "Range")
Bitwise        == Level({"&", "|", "^"}, "Additive")
Additive       == Level({"+", "-"}, "Multiplicative")
Multiplicative == Level({"*", "/", "%"}, "Unary")

\* Between comparison and bitwise, and not associative.
RangeExpr == <<Sub("Bitwise"),
               Pick(<<On(<<{".."}>>, <<Skip, Around("Range", <<Flag("="), Sub("Bitwise")>>)>>),
                      Else(<< >>)>>)>>

Unary == <<Pick(<<On(<<{"!", "-", "~"}>>, <<Node("Unary", <<Take, Sub("Unary")>>)>>),
                  Else(<<Sub("Primary"), Sub("Postfix")>>)>>)>>

ArgList == <<Want("("), Until({")"}, <<Sub("Expr"), Comma>>), Want(")")>>

\* A ? that ends an operand is a test for null; any other belongs to a ternary.
AfterNullTest == {"{", ")", "]", ";", ",", "EOF"}

Postfix == LET again == Sub("Postfix")
           IN  <<Pick(<<On(<<{"("}>>, <<Around("Call", ArgList), again>>),
                        On(<<{"["}>>, <<Around("Index", <<Skip, Sub("Expr"), Want("]")>>), again>>),
                        On(<<{"."}>>, <<Around("Field", <<Skip, Name("IDENT")>>), again>>),
                        On(<<{"::"}>>, <<Around("Scope", <<Skip, Name("IDENT")>>), again>>),
                        On(<<{"?"}, {"."}>>, <<Around("Optional", <<Skip, Skip, Name("IDENT")>>), again>>),
                        On(<<{"?"}, AfterNullTest>>, <<Around("Optional", <<Skip>>), again>>),
                        Else(<< >>)>>)>>

\* own<T>(size) and alloc<T>(value); the argument may be missing.
OfType(word, kind) == Node(kind, <<Want(word), Want("<"), Sub("Type"), Want(">"), Want("("),
                                   Pick(<<On(<<{")"}>>, <<None>>), Else(<<Sub("Expr")>>)>>),
                                   Want(")")>>)

Primary == <<Pick(<<On(<<{"INT"}>>, <<Node("Int", <<Number>>)>>),
                    On(<<{"FLOAT"}>>, <<Node("Float", <<Number>>)>>),
                    On(<<{"STR"}>>, <<Node("Str", <<Take>>)>>),
                    On(<<{"CHAR"}>>, <<Node("Char", <<Take>>)>>),
                    On(<<{"BOOL"}>>, <<Node("Bool", <<Take>>)>>),
                    On(<<{"null"}>>, <<Node("Null", <<Skip>>)>>),
                    On(<<{"|"}>>, <<Sub("Lambda")>>),
                    On(<<{"||"}>>, <<Sub("LambdaZero")>>),
                    On(<<{"["}>>, <<Sub("ListExpr")>>),
                    On(<<{"{"}>>, <<Sub("MapExpr")>>),
                    On(<<{"await"}>>, <<Node("Await", <<Want("await"), Sub("Expr")>>)>>),
                    On(<<{"spawn"}>>, <<Node("Spawn", <<Want("spawn"), Sub("Block")>>)>>),
                    On(<<{"own"}>>, <<OfType("own", "Own")>>),
                    On(<<{"alloc"}>>, <<OfType("alloc", "Alloc")>>),
                    On(<<{"&"}>>, <<Sub("RefExpr")>>),
                    On(<<{"channel"}>>, <<Sub("ChannelExpr")>>),
                    On(<<{"move"}>>, <<Sub("MoveExpr")>>),
                    On(<<{"("}>>, <<Skip, Sub("Expr"), Want(")")>>),
                    On(<<{"IDENT", "self", "TYPE", "send", "recv"}>>, <<Node("Ident", <<Take>>)>>),
                    Else(<<Fault, Node("Null", <<Skip>>)>>)>>)>>

LambdaTail == <<Opt("->", <<Sub("Type")>>),
                Pick(<<On(<<{"=>"}>>, <<Skip, Sub("Expr")>>), Else(<<Sub("Block")>>)>>)>>
Lambda     == <<Node("Lambda", <<Want("|"), Node("Params", <<Until({"|"}, <<Sub("Param"), Comma>>)>>),
                                 Want("|")>> \o LambdaTail)>>
LambdaZero == <<Node("Lambda", <<Want("||"), Node("Params", << >>)>> \o LambdaTail)>>

ListExpr == <<Node("List", <<Want("["), Until({"]"}, <<Sub("Expr"), Comma>>), Want("]")>>)>>

\* Keys and values in turn.
MapExpr == <<Node("Map", <<Want("{"), Until({"}"}, <<Sub("Expr"), Want(":"), Sub("Expr"), Comma>>),
                           Want("}")>>)>>

RefExpr == <<Node("Ref", <<Want("&"), Flag("mut"), Sub("Expr")>>)>>

ChannelExpr == <<Node("Channel",
                   <<Want("channel"),
                     Pick(<<On(<<{"<"}>>, <<Skip, Sub("Type"), Want(">")>>), Else(<<None>>)>>),
                     Pick(<<On(<<{"("}>>, <<Skip, Want(")")>>), Else(<< >>)>>)>>)>>

MoveExpr == <<Node("Move", <<Want("move"), Want("("), Sub("Expr"), Want(","), Sub("Expr"), Want(")")>>)>>

ParseFunctions ==
  [Program |-> Program, TopLevel |-> TopLevel, UsePath |-> UsePath, UseDecl |-> UseDecl,
   ClassDecl |-> ClassDecl, FuncDecl |-> FuncDecl, AsyncDecl |-> AsyncDecl, Raw |-> Raw,
   Annotation |-> Annotation, Block |-> Block, Stmt |-> Stmt, ExprStmt |-> ExprStmt,
   VarDecl |-> VarDecl, ReturnStmt |-> ReturnStmt, IfStmt |-> IfStmt, WhileStmt |-> WhileStmt,
   ForStmt |-> ForStmt, LoopStmt |-> LoopStmt, MatchStmt |-> MatchStmt, RegionStmt |-> RegionStmt,
   TryStmt |-> TryStmt, ThrowStmt |-> ThrowStmt, AsmStmt |-> AsmStmt, ParamList |-> ParamList,
   Param |-> Param, Type |-> Type, Expr |-> Assign, Ternary |-> Ternary, Or |-> Or, And |-> And,
   Equality |-> Equality, Comparison |-> Comparison, Range |-> RangeExpr, Bitwise |-> Bitwise,
   Additive |-> Additive, Multiplicative |-> Multiplicative, Unary |-> Unary, Postfix |-> Postfix,
   Primary |-> Primary, Lambda |-> Lambda, LambdaZero |-> LambdaZero, ListExpr |-> ListExpr,
   MapExpr |-> MapExpr, RefExpr |-> RefExpr, ChannelExpr |-> ChannelExpr, MoveExpr |-> MoveExpr]
=============================================================================
