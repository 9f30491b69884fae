------------------------------ MODULE MCChecked ------------------------------
(***************************************************************************)
(* Programs to analyse and to run: names, members, values and statements.  *)
(***************************************************************************)
EXTENDS Checked

Txt(s) == <<"text", s>>
None == <<"None", << >>>>
Id(x) == <<"Ident", <<Txt(x)>>>>
Num(k) == <<"Int", <<Txt(k)>>>>
CallOf(e, args) == <<"Call", <<e>> \o args>>
CallTo(x, args) == CallOf(Id(x), args)
FieldOf(e, x) == <<"Field", <<e, Txt(x)>>>>
ExprS(e) == <<"ExprStmt", <<e>>>>
Shows(e) == ExprS(CallTo("print", <<e>>))
Let(word, x, t, e) == <<"Var", <<Txt(word), Txt(""), Txt(x), t, e>>>>
Set(x, op, e) == ExprS(<<"Assign", <<x, Txt(op), e>>>>)
Block(ss) == <<"Block", ss>>
Param(mut, x, t) == <<"Param", <<Txt(mut), Txt(x), t, None>>>>
ParamsOf(ps) == <<"Params", ps>>
Fun(f, ps, ret, ss) == <<"Func", <<Txt(f), ParamsOf(ps), ret, Block(ss)>>>>
LambdaOf(ps, body) == <<"Lambda", <<ParamsOf(ps), None, body>>>>
Type(t) == <<"TypeName", <<Txt(t)>>>>
Class(c, base, members) == <<"Class", <<Txt(c), IF base = "" THEN None ELSE Txt(base)>> \o members>>
RangeOf(a, b) == <<"Range", <<a, Txt(""), b>>>>
ProgramOf(ns) == <<"Program", ns>>

(***************************************************************************)
(* Names: where a variable is declared, in what, and where it is used.     *)
(***************************************************************************)
Declaring == {Let("let", "x", None, Num("1")), Let("var", "x", None, Num("1")), Let("let", "x", None, None),
              Let("var", "y", None, Id("x"))}
Using     == {Set(Id("x"), "=", Num("2")), Set(Id("x"), "+=", Num("1")),
              Shows(Id("x")), Shows(Id("y")), Set(Id("y"), "=", Num("1"))}
Simple == Declaring \cup Using

Around1(s) ==
  {<<<<"If", <<Num("1"), Block(<<s>>)>>>>>>,
   <<<<"ForIn", <<Txt("x"), RangeOf(Num("0"), Num("2")), Block(<<s>>)>>>>>>,
   <<<<"Loop", <<Block(<<s, <<"Break", << >>>>>>)>>>>>>,
   <<<<"Match", <<Num("1"), <<"Arm", <<Id("_"), Block(<<s>>)>>>>>>>>>>,
   <<<<"Region", <<Txt("r"), Block(<<s>>)>>>>>>,
   <<<<"Try", <<Block(<<s>>), Txt("x"), Block(<<s>>)>>>>>>,
   <<<<"Try", <<Block(<<<<"Throw", <<Num("1")>>>>>>), Txt("x"), Block(<<s>>)>>>>>>,
   <<Fun("g", <<Param("", "x", None)>>, None, <<s>>), ExprS(CallTo("g", <<Num("1")>>))>>,
   <<Fun("g", <<Param("mut", "y", None)>>, None, <<s>>), ExprS(CallTo("g", <<Num("1")>>))>>,
   <<Let("let", "g", None, LambdaOf(<<Param("", "y", None)>>, Block(<<s>>))), ExprS(CallTo("g", <<Num("1")>>))>>,
   <<ExprS(CallTo("f", <<Num("1")>>))>>}

Alone     == {<<s>> : s \in Simple}
Inside(S) == UNION {Around1(s) : s \in S}
Pieces    == Alone \cup Inside(Simple)

Main(ss) == Fun("main", << >>, None, ss)
FPrints == Fun("f", <<Param("", "z", None)>>, None, <<Shows(Id("x"))>>)
FSets == Fun("f", <<Param("", "z", None)>>, None, <<Set(Id("x"), "=", Id("z"))>>)

NamePrograms ==
  {{ProgramOf(<<Main(a \o b)>>) : a \in Alone, b \in Pieces},
   {ProgramOf(<<Main(a \o b)>>) : a \in Inside(Simple), b \in Alone},
   {ProgramOf(<<Main(a \o b)>>) : a \in Inside(Declaring), b \in Inside(Using)},
   {ProgramOf(<<g, f, Main(a)>>) : g \in Simple, f \in {FPrints, FSets}, a \in Pieces},
   {ProgramOf(<<f, g, Main(a)>>) : g \in Simple, f \in {FPrints, FSets}, a \in Pieces}}

(***************************************************************************)
(* Members: A has m, B : A adds n, C stands alone with k.  A value is      *)
(* made, passed through a function or a variable, and a member is asked    *)
(* for; or it goes through one of the Detours.                             *)
(***************************************************************************)
Method(m, ss) == Fun(m, <<Param("", "self", None)>>, None, ss)
ClassA == Class("A", "", <<<<"FieldDecl", <<Txt("f"), Type("A"), None>>>>, Method("m", <<Shows(Num("1"))>>)>>)
ClassB == Class("B", "A", <<Method("n", <<Shows(Num("2"))>>)>>)
ClassC == Class("C", "", <<Method("k", <<Shows(Num("3"))>>)>>)
Classes == <<ClassA, ClassB, ClassC>>
InitOf(ps, ss) == <<"Init", <<ParamsOf(ps), Block(ss)>>>>
ClassI == Class("I", "", <<InitOf(<<Param("", "z", Type("int"))>>, <<Shows(Id("z"))>>), Method("i", <<Shows(Num("3"))>>)>>)

Makes(c) == CallTo(c, << >>)
Null_ == <<"Null", << >>>>
Made == {Makes("A"), Makes("B"), Makes("C"), Null_}
Asks(e, m) == ExprS(CallOf(FieldOf(e, m), << >>))
TypeOrNone(t) == IF t = "" THEN None ELSE Type(t)
Returning(e) == <<"Return", <<e>>>>
Passes(t, u, e) == Fun("f", <<Param("mut", "p", TypeOrNone(t))>>, TypeOrNone(u), <<Returning(e)>>)

Variables(Es) == {Let("var", "x", TypeOrNone(t), e) : t \in {"", "A", "B"}, e \in Es}
Passed == CallTo("f", <<Makes("A")>>)
Stores == {<<>>} \cup {<<Set(Id("x"), "=", e)>> : e \in Made}
StoresPassed == <<Set(Id("x"), "=", CallTo("f", <<Id("x")>>))>>
Asking == {Asks(Id("x"), m) : m \in {"m", "n", "k"}} \cup {ExprS(FieldOf(Id("x"), "f")), Asks(Id("x"), "f")}
AsksPassed == Asks(CallTo("f", <<Id("x")>>), "n")
Passing == {Passes(t, u, e) : t \in {"", "A", "B"}, u \in {"", "A", "B"}, e \in {Id("p"), Makes("A"), Makes("B"), Null_}}

Detours ==
  UNION
  {{<<Asks(<<"Ternary", <<Num("1"), a, b>>>>, "n")>> : a \in Made, b \in Made},
   {<<Let("let", "x", None, <<"List", <<a, b>>>>), Asks(<<"Index", <<Id("x"), Num("1")>>>>, m)>> :
          a \in Made, b \in Made, m \in {"n", "k"}},
   {<<Let("let", "x", None, <<"List", <<a, a>>>>), Set(<<"Index", <<Id("x"), Num("1")>>>>, "=", b),
           <<"ForIn", <<Txt("y"), Id("x"), Block(<<Asks(Id("y"), m)>>)>>>>>> :
          a \in Made, b \in Made, m \in {"n", "k"}},
   {<<Let("let", "x", None, a), Set(FieldOf(Id("x"), "f"), "=", b), Asks(FieldOf(Id("x"), "f"), m)>> :
          a \in {Makes("A"), Makes("B")}, b \in Made, m \in {"m", "n"}},
   {<<Let("let", "g", None, LambdaOf(<<Param("", "p", None)>>, CallOf(FieldOf(Id("p"), "n"), << >>))),
           ExprS(CallTo("g", <<a>>))>> : a \in Made},
   {<<Let("let", "x", None, CallTo(c, <<e>>)), Asks(Id("x"), "i")>> :
          c \in {"A", "I"}, e \in {Id("z"), Id("k"), Num("1"), <<"Assign", <<Id("x"), Txt("="), Num("1")>>>>}},
   {<<Asks(CallTo("I", << >>), "i")>>}}

BareMethod == Class("A", "", <<Method("m", <<Shows(Num("1"))>>), Method("n", <<ExprS(CallTo("m", << >>))>>)>>)

MemberPrograms ==
  {{ProgramOf(Classes \o <<Main(<<v>> \o s \o <<u>>)>>) : v \in Variables(Made), s \in Stores, u \in Asking},
   {ProgramOf(Classes \o <<f, Main(<<v>> \o s \o <<u>>)>>) :
          f \in Passing, v \in Variables({Passed}), s \in Stores \cup {StoresPassed}, u \in Asking \cup {AsksPassed}},
   {ProgramOf(Classes \o <<f, Main(<<v>> \o StoresPassed \o <<u>>)>>) :
          f \in Passing, v \in Variables(Made), u \in Asking \cup {AsksPassed}},
   {ProgramOf(Classes \o <<f, Main(<<v>> \o s \o <<AsksPassed>>)>>) :
          f \in Passing, v \in Variables(Made), s \in Stores},
   {ProgramOf(Classes \o <<ClassI, Main(d)>>) : d \in Detours},
   {ProgramOf(<<BareMethod, Main(<<Asks(Makes("A"), m)>>)>>) : m \in {"m", "n"}}}

(***************************************************************************)
(* Values: a global x initialised by one operation on simple operands.     *)
(***************************************************************************)
Str(t) == <<"Str", <<Txt(t)>>>>
ListNode(es) == <<"List", es>>
MapOf(k, e) == <<"Map", <<k, e>>>>
Operands == {Num("0"), Num("2"), Str("a"), <<"Bool", <<Txt("true")>>>>, Null_, <<"Char", <<Txt("c")>>>>,
             ListNode(<<Num("1"), Num("2")>>), MapOf(Str("a"), Num("1")), RangeOf(Num("0"), Num("2")),
             <<"Own", <<Type("int"), Num("1")>>>>, Makes("A"), LambdaOf(<<>>, Num("1")), Id("len")}

Operators == {"+", "-", "*", "/", "%", "==", "!=", "<", ">=", "&&", "||", "&", "^"}
Operations ==
  {Operands,
   {<<"Binary", <<a, Txt(op), b>>>> : a \in Operands, b \in Operands, op \in Operators},
   {<<"Unary", <<Txt(op), a>>>> : a \in Operands, op \in {"!", "-", "~"}},
   {<<"Index", <<a, b>>>> : a \in Operands, b \in Operands},
   {<<"Field", <<a, Txt(x)>>>> : a \in Operands, x \in {"len", "value", "a", "f"}},
   {<<"Scope", <<a, Txt("a")>>>> : a \in Operands},
   {<<"Optional", <<a>>>> : a \in Operands},
   {<<"Ternary", <<c, a, b>>>> : c \in {Num("0"), Str("a")}, a \in Operands, b \in Operands},
   {ListNode(<<a, b>>) : a \in Operands, b \in Operands},
   {MapOf(a, b) : a \in Operands, b \in Operands},
   {RangeOf(a, b) : a \in Operands, b \in Operands},
   {CallOf(a, <<b>>) : a \in Operands, b \in Operands},
   {CallTo(f, <<a>>) : f \in {"is_null", "push"}, a \in Operands}}

Given == {None, Type("int"), Type("str"), Type("A"), <<"TypeOptional", <<Type("int")>>>>,
          <<"TypeList", <<Type("int")>>>>, <<"TypeMap", <<Type("str"), Type("int")>>>>}
Updates == {"=", "+=", "-=", "/="}
MainShows == Main(<<Shows(Id("x"))>>)

OperationPrograms ==
  {{ProgramOf(<<ClassA, Let("let", "x", None, e), MainShows>>) : e \in Es} : Es \in Operations}

ValuePrograms ==
  {{ProgramOf(<<ClassA, Let("let", "x", t, e), MainShows>>) : t \in Given, e \in Operands},
   {ProgramOf(<<ClassA, Let("var", "x", None, a), Set(Id("x"), op, b), MainShows>>) :
          a \in Operands, b \in Operands, op \in Updates},
   {ProgramOf(<<ClassA, Let("let", "x", None, a), Set(<<"Index", <<Id("x"), b>>>>, op, Num("2")), MainShows>>) :
          a \in Operands, b \in Operands, op \in Updates},
   {ProgramOf(<<ClassA, Let("let", "y", None, a), Let("let", "x", None, <<"Move", <<Id("y"), Id("x")>>>>), MainShows>>) :
          a \in Operands},
   {ProgramOf(<<ClassA, Let("var", "x", None, a),
                    <<"ForIn", <<Txt("v"), b, Block(<<Set(Id("x"), "=", Id("v"))>>)>>>>, MainShows>>) :
          a \in Operands, b \in Operands},
   {ProgramOf(<<ClassA, Let("var", "x", None, Num("0")),
                    <<"Match", <<a, <<"Arm", <<b, Block(<<Set(Id("x"), "+=", Num("2"))>>)>>>>,
                                    <<"Arm", <<Id("_"), Block(<<Set(Id("x"), "+=", Num("3"))>>)>>>>>>>>, MainShows>>) :
          a \in Operands, b \in Operands}}

\* A chain of three classes.
ClassD == Class("D", "B", <<Method("d", <<Shows(Num("4"))>>)>>)
ChainPrograms == {{ProgramOf(<<ClassA, ClassB, ClassD, Main(<<Asks(Makes(c), m)>>)>>) :
                   c \in {"A", "B", "D"}, m \in {"d", "n", "m"}}}

(***************************************************************************)
(* Statements: two of the forms that the other families leave out, behind  *)
(* declarations of what they use.                                          *)
(***************************************************************************)
TryOf(ss, x, handler) == <<"Try", <<Block(ss), IF x = "" THEN None ELSE Txt(x), Block(handler)>>>>
ThrowOf(e) == <<"Throw", <<e>>>>
Break_ == <<"Break", << >>>>
AsmOf(out, x) == <<"Asm", <<<<"Binds", <<<<"Bind", <<IF out THEN Txt("out") ELSE None, Txt("rax"), Txt(x)>>>>>>>>,
                            <<"Line", <<Txt("nop")>>>>>>>>
OwnOf(e) == <<"Own", <<Type("int"), e>>>>
At_(x, e) == <<"Index", <<Id(x), e>>>>
Binary(a, op, b) == <<"Binary", <<a, Txt(op), b>>>>
InclusiveRange(a, b) == <<"Range", <<a, Txt("="), b>>>>

Statements_ ==
  {Let("const", "c", None, None), Let("const", "c", None, Num("1")), Set(Id("c"), "+=", Num("2")),
   AsmOf(TRUE, "v"), AsmOf(FALSE, "l"), AsmOf(TRUE, "l"), AsmOf(FALSE, "q"),
   TryOf(<<ThrowOf(Num("3"))>>, "e", <<Shows(Id("e"))>>), TryOf(<<ThrowOf(Num("3"))>>, "", <<Shows(Id("e"))>>),
   TryOf(<<Shows(Binary(Num("1"), "/", Num("0")))>>, "e", <<Shows(Id("e"))>>), ThrowOf(Num("1")),
   Break_, <<"Continue", << >>>>, <<"Return", <<Num("1")>>>>, <<"Return", <<None>>>>,
   <<"While", <<Binary(Id("v"), "<", Num("4")), Block(<<Set(Id("v"), "+=", Num("1")), <<"Continue", << >>>>>>)>>>>,
   <<"Loop", <<Block(<<<<"If", <<Id("v"), Block(<<Break_>>)>>>>, Set(Id("v"), "-=", Num("1"))>>)>>>>,
   <<"If", <<Num("0"), Block(<<Shows(Num("1"))>>), Num("1"), Block(<<Shows(Num("2"))>>), None, Block(<<Break_>>)>>>>,
   <<"ForIn", <<Txt("i"), InclusiveRange(Num("1"), Num("3")), Block(<<Shows(Id("i"))>>)>>>>,
   <<"ForIn", <<Txt("i"), Id("s"), Block(<<Shows(Id("i")), <<"Return", <<Id("i")>>>>>>)>>>>,
   <<"Region", <<Txt("r"), Block(<<Let("let", "v", None, Num("7")), Shows(Id("v"))>>)>>>>, Shows(Id("v")),
   Fun("v", << >>, None, <<Returning(Num("8"))>>), ExprS(CallTo("v", << >>)),
   <<"Match", <<Id("v"), <<"Arm", <<RangeOf(Num("0"), Num("2")), Block(<<Shows(Str("in"))>>)>>>>,
                         <<"Arm", <<Num("2"), Block(<<Shows(Str("two"))>>)>>>>>>>>,
   Set(FieldOf(Id("a"), "f"), "+=", Num("6")), Shows(FieldOf(Id("a"), "f")), Set(FieldOf(Id("a"), "g"), "=", Num("6")),
   ExprS(<<"Move", <<Id("o"), Id("v")>>>>), ExprS(<<"Move", <<Id("l"), Id("v")>>>>), Shows(Id("o")),
   Set(Id("o"), "=", OwnOf(Num("5"))), Shows(FieldOf(Id("o"), "value")),
   Set(Id("v"), "=", <<"Alloc", <<Type("int"), Num("9")>>>>), Shows(<<"Ref", <<Txt(""), Id("v")>>>>),
   Set(At_("m", Str("b")), "=", Num("2")), Shows(At_("m", Str("b"))), ExprS(CallOf(<<"Scope", <<Id("m"), Txt("a")>>>>, << >>)),
   Set(At_("s", Num("2")), "+=", Num("2")), Shows(At_("s", <<"Unary", <<Txt("-"), Num("1")>>>>)),
   Shows(CallTo("k", <<Num("1")>>)), Shows(CallTo("k", << >>)), Shows(CallTo("len", <<Id("s")>>))}

Before == <<Let("var", "v", None, Num("1")), Let("let", "l", None, Num("1")), Let("var", "o", None, OwnOf(Num("5"))),
            Let("let", "m", None, MapOf(Str("a"), Num("1"))), Let("let", "s", None, ListNode(<<Num("1"), Num("2")>>)),
            Let("let", "a", None, Makes("A")), Let("let", "k", None, LambdaOf(<<Param("", "p", None)>>, Binary(Id("p"), "+", Id("v"))))>>

StatementPrograms == {{ProgramOf(<<ClassA, Main(Before \o <<b, c>>)>>) : b \in Statements_, c \in Statements_}}

(***************************************************************************)
(* Programs outside of what the properties promise, each for one reason,   *)
(* next to some that are inside.                                           *)
(***************************************************************************)
AssignTo(e, v) == <<"Assign", <<e, Txt("="), v>>>>
AllocOf(t, e) == <<"Alloc", <<Type(t), e>>>>
RegionWith(ss) == <<"Region", <<Txt("r"), Block(ss)>>>>
IfWith(c, ss) == <<"If", <<c, Block(ss)>>>>
LetX(word) == Let(word, "x", None, Num("1"))

\* Operands that nobody walks.
PassedOver == {CallTo("A", <<Id("q")>>)} \cup
  {CallOf(c, <<e>>) : c \in {Id("A"), Id("a"), FieldOf(Id("a"), "f")},
                      e \in {Id("q"), AssignTo(Id("l"), Num("2")), FieldOf(Id("a"), "k")}} \cup
  UNION {{OwnOf(e), AllocOf("int", e)} :
           e \in {Id("q"), Num("1"), AssignTo(Id("l"), Num("2")), FieldOf(Id("a"), "k"), CallTo("f", << >>)}}
UnseenPrograms ==
  {{ProgramOf(<<ClassA, Let("let", "a", None, Makes("A")), g, Fun("f", << >>, None, <<Shows(Id("l"))>>),
                Main(<<ExprS(e)>>)>>) : e \in PassedOver, g \in {Let(w, "l", None, Num("1")) : w \in {"let", "var"}}}}

UsingX == {Set(Id("x"), "=", Num("2")), Shows(Id("x"))}
Words  == {"let", "var"}

\* A body of init: what it sees, what it is passed, and when.
InitClass(ps, s) == Class("J", "", <<InitOf(ps, <<s>>)>>)
InitParams_ == {<< >>, <<Param("", "x", None)>>, <<Param("mut", "x", None)>>}
CallsJ == {ExprS(CallTo("J", args)) : args \in {<< >>, <<Num("2")>>}}
InitPrograms ==
  {{ProgramOf(<<InitClass(ps, s), call, LetX(w), Main(<< >>)>>) : ps \in InitParams_, s \in UsingX, call \in CallsJ, w \in Words},
   {ProgramOf(<<call, LetX(w), InitClass(ps, s), Main(<< >>)>>) : ps \in InitParams_, s \in UsingX, call \in CallsJ, w \in Words},
   {ProgramOf(<<ExprS(CallTo("f", <<Num("1")>>)), LetX(w), f, Main(<< >>)>>) : f \in {FPrints, FSets}, w \in Words},
   {ProgramOf(<<LetX(w), InitClass(ps, s), call, Main(<< >>)>>) : ps \in InitParams_, s \in UsingX, call \in CallsJ, w \in Words}}

\* A function in a block of the outermost level.
NestedPrograms ==
  {{ProgramOf(<<LetX(w), b, Main(<< >>)>>) :
      w \in Words,
      b \in UNION {{RegionWith(<<v>> \o body), IfWith(Num("1"), <<v>> \o body)} :
                     v \in {Let("var", "x", None, Num("3")), Let("var", "y", None, Num("3"))},
                     body \in {<<Fun("g", << >>, None, <<s>>), ExprS(CallTo("g", << >>))>> :
                                 s \in UsingX \cup {Shows(Id("y"))}}}}}

\* self, called and not called as a method, listed and not listed.
SelfClass(ps) == Class("A", "", <<Fun("m", ps, None, <<Asks(Id("self"), "n")>>), Fun("n", ps, None, <<Shows(Num("1"))>>)>>)
SelfPrograms ==
  {{ProgramOf(<<SelfClass(ps), Fun("f", <<Param("", "self", None)>>, None, <<Shows(Id("self"))>>), Main(<<s>> \o t)>>) :
      ps \in {<< >>, <<Param("", "self", None)>>},
      s \in {Asks(Makes("A"), "m"), Let("let", "g", None, FieldOf(Makes("A"), "m")), Shows(Id("byte")), Shows(Id("A"))},
      t \in {<< >>, <<ExprS(CallTo("g", << >>))>>, <<ExprS(CallTo("f", <<Num("1")>>))>>, <<Asks(Id("g"), "m")>>}}}

\* Types that are not followed: what is stored in a list, made with alloc, left by a
\* last statement, overridden, or known to be of a class nobody declares.
LeftBy(t, s) == Fun("f", << >>, t, <<s>>)
WrongPrograms ==
  {{ProgramOf(<<ClassA, ClassC, Let("let", "x", None, ListNode(<<Num("1"), Num("2")>>)), s, MainShows>>) :
      s \in {Set(<<"Index", <<Id("x"), Num("0")>>>>, "=", Str("a")), ExprS(CallTo("push", <<Id("x"), Str("a")>>)),
             Set(Id("x"), "=", ListNode(<<Str("a")>>)), Set(Id("x"), "=", Num("3"))}},
   {ProgramOf(<<ClassA, ClassC, LeftBy(r, s), Let("let", "x", t, e), MainShows>>) :
      r \in {None, Type("str")},
      s \in {ExprS(Num("1")), ExprS(Makes("C")), Returning(Num("1"))}, t \in {None, Type("A"), Type("str"), Type("Z")},
      e \in {CallTo("f", << >>), AllocOf("str", Num("5")), AllocOf("A", Makes("C")), Makes("C"), Id("A"), Str("a")}},
   {ProgramOf(<<ClassA, ClassC, LeftBy(None, ExprS(Makes("C"))), Main(<<Let("let", "x", t, e), Asks(Id("x"), m)>>)>>) :
      t \in {None, Type("A"), Type("Z")}, m \in {"m", "k", "z"},
      e \in {CallTo("f", << >>), AllocOf("A", Makes("C")), Id("A"), Id("f")}},
   {ProgramOf(<<ClassA, Class("B", b, <<Fun("n", << >>, None, <<Shows(Num("2"))>>)>>), Let("let", "x", t, Makes("B")),
                  Main(<<Asks(Id("x"), m)>>)>>) : b \in {"", "A", "Z"}, m \in {"m", "n", "z"}, t \in {None, Type("A"), Type("Z")}},
   {ProgramOf(<<ClassA, Class("B", b, <<Fun(m, << >>, Type(u), <<Returning(Str("a"))>>)>>),
                  Fun("f", <<Param("", "p", Type("A"))>>, Type("str"), <<Asks(Id("p"), m), Returning(CallOf(FieldOf(Id("p"), m), << >>))>>),
                  Let("let", "x", t, e), MainShows>>) :
      b \in {"", "A", "Z"}, m \in {"m", "n"}, u \in {"int", "str"}, t \in {None, Type("Z"), Type("str")},
      e \in {Makes("B"), CallTo("f", <<Makes("B")>>), CallOf(FieldOf(Makes("B"), "m"), << >>)}}}

\* Rejected for a name, although the program would get to its end; and not.
Rejected_ == {Set(Id("print"), "=", Null_), Set(Id("main"), "=", Null_), Set(Id("A"), "=", Null_), Shows(Id("q")),
              ExprS(Binary(Num("0"), "&&", Id("q"))), ExprS(Binary(Num("1"), "&&", Id("q"))), Set(Id("l"), "=", Num("2")),
              <<"Loop", <<Block(<<RegionWith(<<Break_>>), Shows(Id("q"))>>)>>>>,
              <<"Loop", <<Block(<<RegionWith(<<Shows(Id("q"))>>), Break_>>)>>>>,
              <<"Loop", <<Block(<<Break_, Shows(Id("q"))>>)>>>>,
              ExprS(OwnOf(Id("q"))), Set(CallTo("len", <<Id("q")>>), "=", Num("1")),
              Set(FieldOf(Id("q"), "f"), "=", Num("1")), Set(At_("q", Num("1")), "=", Num("1")),
              IfWith(Num("0"), <<Shows(Id("q"))>>), IfWith(Num("1"), <<Shows(Id("q"))>>),
              <<"ForIn", <<Txt("i"), RangeOf(Num("0"), Num("0")), Block(<<Shows(Id("q"))>>)>>>>,
              ExprS(<<"Ternary", <<Num("0"), Id("q"), Num("1")>>>>), <<"Return", <<None>>>>,
              ThrowOf(Num("1")), Set(Id("x"), "=", Num("2")), Shows(Id("x"))}
RejectPrograms ==
  {{ProgramOf(a \o <<Let("let", "l", None, Num("1"))>> \o b \o <<Main(<<s, t>>)>> \o c) :
      a \in {<< >>, <<ClassA>>}, b \in {<< >>, <<LetX("var")>>}, c \in {<< >>, <<LetX("let")>>},
      s \in Rejected_, t \in Rejected_},
   {ProgramOf(<<RegionWith(<<Main(<<Shows(Id("x"))>>)>>), LetX("let"), Main(<<Shows(Id("x"))>>)>>)}}

OddPrograms == UNION {UnseenPrograms, InitPrograms, NestedPrograms, SelfPrograms, WrongPrograms, RejectPrograms}
=============================================================================
