------------------------------- MODULE MCBuild -------------------------------
(***************************************************************************)
(* The programs of the run Build: those of MCChecked, and families that are *)
(* there to be compiled.                                                   *)
(***************************************************************************)
EXTENDS Build, MCChecked

Returns0 == Returning(Num("0"))
Params_(xs) == [i \in DOMAIN xs |-> Param("", xs[i], Type("int"))]
VarIs(x, e) == Let("var", x, None, e)
IfOf(c, ss) == <<"If", <<c, Block(ss)>>>>
ForOf(x, a, b, ss) == <<"ForIn", <<Txt(x), RangeOf(a, b), Block(ss)>>>>
RegionOf(ss) == <<"Region", <<Txt("r"), Block(ss)>>>>
ArmOf(p, ss) == <<"Arm", <<p, Block(ss)>>>>
MatchOf(e, arms) == <<"Match", <<e>> \o arms>>

(***************************************************************************)
(* Expressions: f shows its argument, g takes two, h more than registers.  *)
(***************************************************************************)
FShows == Fun("f", Params_(<<"a">>), Type("int"), <<Shows(Id("a")), Returning(Binary(Id("a"), "+", Num("1")))>>)
GTakes == Fun("g", Params_(<<"a", "b">>), Type("int"), <<Returning(Binary(Id("a"), "-", Id("b")))>>)
HTakes == Fun("h", Params_(<<"a", "b", "c">>), Type("int"), <<Returning(Binary(Id("a"), "-", Id("c")))>>)

Atoms == {Num("0"), Num("2"), Id("x"), CallTo("f", <<Num("1")>>), CallTo("f", <<Id("x")>>)}
Twos  == {Binary(a, op, b) : a \in Atoms, b \in Atoms, op \in {"+", "-", "/", "%", "<", "=="}}
         \cup {CallTo("g", <<a, b>>) : a \in Atoms, b \in Atoms}
Threes == {Binary(a, op, b) : a \in {Num("2"), CallTo("f", <<Id("x")>>)}, b \in Twos, op \in {"-", "&&", "||"}}
          \cup {Binary(a, "-", b) : b \in {Num("2"), CallTo("f", <<Id("x")>>)}, a \in Twos}
          \cup {CallTo("g", <<a, b>>) : a \in {Num("2"), CallTo("f", <<Id("x")>>)}, b \in Twos}
          \cup {<<"Ternary", <<a, Num("7"), CallTo("f", <<Num("0")>>)>>>> : a \in Twos}
          \cup {<<"Unary", <<Txt(op), a>>>> : a \in Twos, op \in {"-", "!", "~"}}
Deep == {CallTo("g", <<CallTo("g", <<Num("7"), Num("2")>>), a>>) : a \in {CallTo("g", <<Id("x"), b>>) : b \in Atoms}}
        \cup {CallTo("h", <<a, Num("1"), Num("2")>>) : a \in Atoms}

ExprPrograms ==
  {ProgramOf(<<FShows, GTakes, HTakes, Main(<<VarIs("x", Num("3")), s>>)>>) :
     s \in {Shows(e) : e \in Twos \cup Threes \cup Deep \cup {<<"Bool", <<Txt("true")>>>>}}
           \cup {Set(Id("x"), "-=", e) : e \in Twos}}

(***************************************************************************)
(* Control: jumps out of what is nested, and variables after it.           *)
(***************************************************************************)
Jumps_ == {Break_, <<"Continue", << >>>>, <<"Return", <<None>>>>, Shows(Id("i"))}
Nest(s) == {s, IfOf(Binary(Id("i"), "==", Num("1")), <<s>>),
            MatchOf(Id("i"), <<ArmOf(Num("1"), <<s>>), ArmOf(Id("_"), <<Shows(Num("9"))>>)>>),
            MatchOf(Id("i"), <<ArmOf(RangeOf(Num("1"), Num("2")), <<s>>), ArmOf(Num("2"), <<Shows(Num("8"))>>)>>),
            RegionOf(<<s>>), ForOf("j", Num("0"), Num("2"), <<Shows(Id("j")), s>>),
            ForOf("i", Num("0"), Num("2"), <<s>>), Let("let", "y", None, Id("i")), Set(Id("x"), "+=", Id("i")),
            Let("let", "x", None, Id("i"))}
Around(s) == {ForOf("i", Num("0"), Num("3"), <<s, Shows(Num("5"))>>),
              <<"While", <<Binary(Id("x"), "<", Num("3")),
                           Block(<<Set(Id("x"), "+=", Num("1")), Let("let", "i", None, Id("x")), s, Shows(Num("6"))>>)>>>>,
              <<"Loop", <<Block(<<Set(Id("x"), "+=", Num("1")), Let("let", "i", None, Id("x")),
                                  IfOf(Binary(Id("x"), ">", Num("2")), <<Break_>>), s, Shows(Num("6"))>>)>>>>,
              <<"ForIn", <<Txt("i"), InclusiveRange(Num("0"), Num("2")), Block(<<s>>)>>>>}
Once(s) == {s} \cup Nest(s)
ControlPrograms ==
  {ProgramOf(<<Main(<<VarIs("x", Num("0")), s, Shows(Id("x"))>>)>>) :
     s \in UNION {Around(b) : b \in UNION {UNION {Nest(c) : c \in Once(a)} : a \in Jumps_}}}

(***************************************************************************)
(* Functions: the depth of calls, what is returned, names of two frames.   *)
(***************************************************************************)
Recursive_ == Fun("r", Params_(<<"a">>), Type("int"),
                  <<IfOf(Id("a"), <<Returning(Binary(CallTo("r", <<Binary(Id("a"), "-", Num("1"))>>), "+", Id("a")))>>),
                    Returns0>>)
Endless == Fun("r", Params_(<<"a">>), None, <<Shows(Id("a")), ExprS(CallTo("r", <<Id("a")>>))>>)
Names == <<"p", "q", "s", "t", "u", "v", "w", "y", "z">>
Many(k) == [i \in 1..k |-> VarIs(Names[i], Num(ToString(i)))]

FunctionPrograms ==
  {{ProgramOf(<<Recursive_, Main(<<Shows(CallTo("r", <<Num(ToString(k))>>))>>)>>) : k \in 0..4},
   {ProgramOf(<<Endless, Main(<<ExprS(CallTo("r", <<Num("1")>>))>>)>>),
        ProgramOf(<<Fun("r", << >>, None, <<ExprS(Num("3"))>>), Main(<<Shows(CallTo("r", << >>))>>)>>),
        ProgramOf(<<VarIs("v", Num("3")), Main(<<Shows(Id("v")), Set(Id("v"), "+=", Num("1")), Shows(Id("v"))>>)>>),
        ProgramOf(<<Main(<<Fun("r", << >>, None, <<Shows(Num("3"))>>), ExprS(CallTo("r", << >>))>>)>>),
        ProgramOf(<<Main(<<TryOf(<<Shows(Num("1"))>>, "e", <<Shows(Num("2"))>>)>>)>>),
        ProgramOf(<<Main(<<VarIs("x", Num("1")), Shows(<<"Ref", <<Txt(""), Id("x")>>>>)>>)>>)},
   {ProgramOf(<<GTakes, Main(Many(k) \o <<Shows(CallTo("g", <<Binary(Id("p"), "+", Binary(Id("p"), "-", Num("3"))), Id("p")>>))>>
                                         \o [i \in 1..k |-> Shows(Id(Names[i]))])>>) : k \in 1..9}}

(***************************************************************************)
(* Regions.                                                                *)
(***************************************************************************)
Owns(x, e) == VarIs(x, OwnOf(e))
Steps == {Owns("o", Num("1")), RegionOf(<<Owns("q", Num("2"))>>), IfOf(Id("n"), <<Owns("s", Num("3"))>>),
          ForOf("i", Num("0"), Num("2"), <<Owns("t", Id("i"))>>),
          ForOf("j", Num("0"), Num("2"), <<RegionOf(<<Owns("u", Id("j"))>>)>>),
          <<"Loop", <<Block(<<RegionOf(<<Owns("w", Num("2")), Break_>>)>>)>>>>,
          ForOf("k", Num("0"), Num("2"), <<IfOf(Id("k"), <<Break_>>)>>),
          <<"Return", <<None>>>>, ExprS(CallTo("made", <<Num("3")>>)), Shows(Num("4")),
          ExprS(<<"Move", <<Id("o"), Id("n")>>>>), ExprS(OwnOf(CallTo("made", <<Num("2")>>)))}
Made_ == Fun("made", Params_(<<"a">>), Type("int"), <<RegionOf(<<Owns("z", Id("a"))>>), Returning(Id("a"))>>)
RegionPrograms ==
  {{ProgramOf(<<Made_, Main(<<VarIs("n", Num(n)), RegionOf(<<a, b>>), Shows(Num("5"))>>)>>) :
     n \in {"0", "1"}, a \in Steps, b \in Steps},
   {ProgramOf(<<Made_, Main(<<VarIs("n", Num("0")), a, RegionOf(<<b>>), RegionOf(<<c>>)>>)>>) :
          a \in Steps, b \in Steps, c \in Steps}}

(***************************************************************************)
(* Programs in which the two differ, next to some in which they do not.    *)
(***************************************************************************)
True_ == <<"Bool", <<Txt("true")>>>>
Compared == {True_, Null_, Num("0"), Num("1"), Id("b"), Id("n"), Binary(Id("n"), "<", Num("2")),
             <<"Unary", <<Txt("!"), Id("b")>>>>, <<"Ternary", <<Id("n"), Id("b"), Num("0")>>>>,
             CallTo("t", <<Num("1")>>), CallTo("t", << >>), CallTo("t", <<True_>>), CallTo("print", <<Id("n")>>),
             CallTo("print", << >>), RangeOf(Num("0"), Num("2")), <<"Alloc", <<Type("bool"), True_>>>>,
             <<"Assign", <<Id("n"), Txt("="), Id("b")>>>>}
Takes(e) == {Shows(e), Shows(Binary(e, "==", Num("1"))), Shows(Binary(e, "&&", Num("1"))), Shows(Binary(Num("1"), "+", e)),
             VarIs("v", e), IfOf(e, <<Shows(Num("7"))>>), ForOf("i", Num("0"), e, <<Shows(Id("i"))>>),
             MatchOf(e, <<ArmOf(Num("1"), <<Shows(Num("8"))>>)>>), Shows(<<"Ternary", <<Id("n"), e, Num("3")>>>>),
             ExprS(e), ExprS(OwnOf(e)), Set(Id("n"), "+=", e), Returning(e)}
Untyped(f, ps, e) == Fun(f, [i \in DOMAIN ps |-> Param("", ps[i], None)], Type("int"), <<Returning(e)>>)
DifferentPrograms ==
  {{ProgramOf(<<Untyped("t", <<"a">>, Id("a")), Main(<<VarIs("b", v), VarIs("n", Num("2")), s, Shows(Id("n"))>>)>>) :
      v \in {True_, Num("0"), None}, s \in UNION {Takes(e) : e \in Compared}},
   {ProgramOf(<<Untyped("t", ps, e), Main(<<Shows(CallTo("t", args))>>)>>) :
      ps \in {<< >>, <<"a">>, <<"self", "a">>}, e \in {Num("1"), True_}, args \in {<< >>, <<Num("1")>>, <<Num("1"), Num("2")>>}},
   {ProgramOf(<<Untyped("print", <<"a">>, Id("a")), Main(<<ExprS(CallTo("print", <<Num("3")>>))>>)>>),
    ProgramOf(<<Fun("main", <<Param("", "a", None)>>, None, <<Shows(Id("a"))>>)>>),
    ProgramOf(<<Main(<<VarIs("x", Num("1")), <<"ForIn", <<Txt("i"), InclusiveRange(Num("0"), Num("1")), Block(<<Shows(Id("i"))>>)>>>>>>)>>)}}

AllPrograms == UNION {NamePrograms, MemberPrograms, OperationPrograms, ValuePrograms, StatementPrograms, OddPrograms,
                      {ExprPrograms, ControlPrograms}, FunctionPrograms, RegionPrograms, DifferentPrograms}
=============================================================================
