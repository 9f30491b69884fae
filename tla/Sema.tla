-------------------------------- MODULE Sema --------------------------------
(***************************************************************************)
(* The semantic analyser (src/src/sema.cpp).  A visit takes the state      *)
(* before it and returns the state after it, an inference the record       *)
(* [s, t] with the type it found.  Warnings decide nothing and are left    *)
(* out; the moves of owned variables are followed statement by statement   *)
(* in MoveCheck.  An error is <<kind, name>> or <<kind, name, class>>.     *)
(***************************************************************************)
EXTENDS Tree

(***************************************************************************)
(* Types: <<kind>>, <<kind, inner>> or <<kind, name>>.                     *)
(***************************************************************************)
T(kind) == <<kind>>
Unknown == T("Unknown")
Void    == T("Void")
ListOf(t)     == <<"List", t>>
Optional(t)   == <<"Optional", t>>
Fn(ps, ret)   == <<"Fn", ps, ret>>
ClassType(c)  == <<"Class", c>>

Named == {"Class", "Generic"}
Numeric  == {"Int", "Uint", "Float"}
Integer  == {"Int", "Uint", "Byte"}
Scalars  == [int |-> T("Int"), uint |-> T("Uint"), float |-> T("Float"), bool |-> T("Bool"),
             char |-> T("Char"), byte |-> T("Byte"), str |-> T("Str"), void |-> Void]

\* A name that is no scalar is taken for a class, known or not.
RECURSIVE Resolve(_)
Resolve(n) ==
  CASE Kind(n) = "TypeName" /\ Len(Parts(n)) = 2 -> <<"Generic", Word(n, 1)>>
    [] Kind(n) = "TypeName" /\ Len(Parts(n)) = 1 ->
         IF Word(n, 1) \in DOMAIN Scalars THEN Scalars[Word(n, 1)] ELSE ClassType(Word(n, 1))
    [] Kind(n) = "TypeList" -> ListOf(Resolve(Part(n, 1)))
    [] Kind(n) = "TypeOptional" -> Optional(Resolve(Part(n, 1)))
    [] Kind(n) = "TypeMap" -> <<"Map", Resolve(Part(n, 1)), Resolve(Part(n, 2))>>
    [] Kind(n) = "TypeTuple" -> T("Tuple")
    [] Kind(n) = "None" -> Unknown

\* Of a map only the keys are compared, of a function and a tuple nothing.
RECURSIVE TypesEqual(_, _)
TypesEqual(a, b) ==
  /\ a[1] = b[1]
  /\ a[1] \in Named => a[2] = b[2]
  /\ a[1] \in {"List", "Optional", "Map", "Own", "Ref"} => TypesEqual(a[2], b[2])

\* classes: name -> [base, fields, methods]; the walk stops when it meets a class again.
RECURSIVE Reaches(_, _, _, _)
Reaches(classes, c, base, seen) ==
  \/ c = base
  \/ /\ c \notin seen
     /\ c \in DOMAIN classes
     /\ classes[c].base # ""
     /\ Reaches(classes, classes[c].base, base, seen \cup {c})

IsSubclassOf(classes, c, base) == Reaches(classes, c, base, {})

\* Mutated: a base is taken where its subclass is expected.
FitsClassEither(classes, a, b) == IsSubclassOf(classes, b[2], a[2]) \/ IsSubclassOf(classes, a[2], b[2])

FitsClass(classes, a, b) == IsSubclassOf(classes, b[2], a[2])

\* a is the type expected, b the one found.
RECURSIVE Compatible(_, _, _)
Compatible(classes, a, b) ==
  LET Both(kind) == a[1] = kind /\ b[1] = kind
      Fits(x, y) == Unknown \in {x, y} \/ Compatible(classes, x, y)
  IN  \/ Unknown \in {a, b}
      \/ TypesEqual(a, b)
      \/ Both("Class") /\ FitsClass(classes, a, b)
      \/ {a[1], b[1]} \subseteq Numeric \/ {a[1], b[1]} \subseteq Integer
      \/ Both("List") /\ Fits(a[2], b[2])
      \/ Both("Map") /\ Fits(a[2], b[2]) /\ Fits(a[3], b[3])
      \/ b[1] = "Optional"
      \/ a[1] = "Optional" /\ Compatible(classes, a[2], b)

(***************************************************************************)
(* Scopes, innermost last; the first is the global one.                    *)
(***************************************************************************)
Symbol(kind, type, mut) ==
  [kind |-> kind, type |-> type, mut |-> mut, const |-> FALSE, init |-> TRUE,
   owned |-> FALSE, moved |-> FALSE]

Error(s, e) == [s EXCEPT !.errors = @ \cup {e}]
Push(s) == [s EXCEPT !.scopes = Append(@, << >>)]
Pop(s)  == [s EXCEPT !.scopes = SubSeq(@, 1, Len(@) - 1)]

\* Mutated: only the innermost scope is searched.
WhereInnermost(s, x) == LET top == Len(s.scopes) IN IF x \in DOMAIN s.scopes[top] THEN top ELSE 0

Where(s, x) == Max({0} \cup {i \in DOMAIN s.scopes : x \in DOMAIN s.scopes[i]})
Known(s, x)  == Where(s, x) # 0
Lookup(s, x) == s.scopes[Where(s, x)][x]
Declare(s, x, sym) ==
  LET top == Len(s.scopes)
  IN  IF x \in DOMAIN s.scopes[top] THEN Error(s, <<"redefined", x>>)
      ELSE [s EXCEPT !.scopes[top] = (x :> sym) @@ @]

DeclareParams(s, params) ==
  InTurn(LAMBDA u, p : Declare(u, ParamName(p), Symbol("Parameter", Resolve(Part(p, 3)), ParamMut(p))),
           s, params)

Got(s, t) == [s |-> s, t |-> t]
With(r, F(_, _)) == F(r.s, r.t)
ErrorIf(cond, s, e) == IF cond THEN Error(s, e) ELSE s

\* Operands that are not walked are remembered, for the properties.
PassOver(s, ns) == [s EXCEPT !.unseen = @ \cup Range(ns)]

\* Infer walks every node; what is no expression has no type to look at.
RECURSIVE Infer(_, _), InferAll(_, _, _)
Visit(s, n) == Infer(s, n).s
InferAll(s, ns, ts) == IF ns = << >> THEN Got(s, ts)
                       ELSE With(Infer(s, Head(ns)), LAMBDA u, t : InferAll(u, Tail(ns), Append(ts, t)))
VisitAll(s, ns) == InTurn(LAMBDA u, n : Visit(u, n), s, ns)

(***************************************************************************)
(* Declarations.                                                           *)
(***************************************************************************)
FnType(params, ret) ==
  Fn([i \in DOMAIN params |-> Resolve(Part(params[i], 3))], IF Kind(ret) = "None" THEN Void ELSE Resolve(ret))

VisitBlock(s, n) == Pop(VisitAll(Push(s), Parts(n)))

\* A function is not declared again over a name that is visible.
RegisterFunc(s, n) ==
  IF Known(s, Word(n, 1)) THEN s
  ELSE Declare(s, Word(n, 1), Symbol("Function", FnType(Parts(Part(n, 2)), Part(n, 3)), FALSE))

VisitFunc(s, n) ==
  LET registered == RegisterFunc(s, n)
      inside == [Push(registered) EXCEPT !.ret = FnType(<< >>, Part(n, 3))[3]]
  IN  [Pop(VisitBlock(DeclareParams(inside, Parts(Part(n, 2))), Part(n, 4))) EXCEPT !.ret = s.ret]

Fields(n) == {<<Word(m, 1), Resolve(Part(m, 2))>> : m \in Range(OfKinds(Parts(n), {"FieldDecl"}))}
Methods(n) == {<<Word(m, 1), FnType(Parts(Part(m, 2)), Part(m, 3))>> : m \in Range(OfKinds(Parts(n), Functions_))}
ClassInfo(n, methods) ==
  [base |-> IF Has(n, 2) THEN Word(n, 2) ELSE "", fields |-> Fields(n), methods |-> methods]

\* Before the first pass reaches its body a class has fields only.
RegisterClass(s, n) ==
  Declare([s EXCEPT !.classes = (Word(n, 1) :> ClassInfo(n, {})) @@ @],
          Word(n, 1), Symbol("Class", ClassType(Word(n, 1)), FALSE))

\* The methods declare themselves in the scope of the class, next to self.
VisitMember(s, m) ==
  CASE Kind(m) \in Functions_ -> VisitFunc(s, m)
    [] Kind(m) = "Init" -> Pop(VisitBlock(DeclareParams(Push(s), Parts(Part(m, 1))), Part(m, 2)))
    [] OTHER -> s

VisitClass(s, n) ==
  LET known == [s EXCEPT !.classes = (Word(n, 1) :> ClassInfo(n, Methods(n))) @@ @]
      self  == Declare(Push(known), "self", Symbol("Variable", ClassType(Word(n, 1)), FALSE))
  IN  Pop(InTurn(LAMBDA u, m : VisitMember(u, m), self, From(n, 3)))

VisitUse(s, n) ==
  LET path == Parts(Part(n, 2))
      name == IF Has(n, 3) THEN Word(n, 3) ELSE path[Len(path)][2]
  IN  IF Known(s, name) THEN s ELSE Declare(s, name, Symbol("Module", Unknown, FALSE))

(***************************************************************************)
(* Statements.                                                             *)
(***************************************************************************)
Optionally_(s, n, i, missing) == IF Has(n, i) THEN Infer(s, Part(n, i)) ELSE Got(s, missing)

\* let, var or const: the type given wins over the one inferred.
VisitVar(s, n) ==
  LET given == Has(n, 4)
      word  == Word(n, 1)
      x     == Word(n, 3)
  IN  With(Optionally_(s, n, 5, Unknown), LAMBDA u, found :
        LET type == IF given THEN Resolve(Part(n, 4)) ELSE found
            fits == ErrorIf(~Compatible(u.classes, type, found), u, <<"mismatch", x>>)
        IN  Declare(ErrorIf(word = "const" /\ ~Has(n, 5), fits, <<"const", x>>), x,
                    [Symbol(IF word = "const" THEN "Constant" ELSE "Variable", type, word = "var")
                       EXCEPT !.init = Has(n, 5), !.const = (word = "const"), !.owned = (type[1] = "Own")]))

\* The type found is passed where the type expected belongs.
VisitReturn(s, n) ==
  With(Optionally_(s, n, 1, Void), LAMBDA u, found :
    ErrorIf(~Compatible(u.classes, found, u.ret), u, <<"return", "">>))

\* The body of a loop, in which break and continue are allowed.
VisitBody(s, n) == [Visit([s EXCEPT !.inLoop = TRUE], n) EXCEPT !.inLoop = s.inLoop]

ElementOf(t) == CASE t[1] = "List" -> t[2] [] t = Unknown -> Unknown [] OTHER -> T("Int")

\* Mutated: the loop variable is declared in the scope around the loop.
VisitForLeaks(s, n) ==
  With(Infer(s, Part(n, 2)), LAMBDA u, over :
    VisitBody(Declare(u, Word(n, 1), Symbol("Variable", ElementOf(over), FALSE)), Part(n, 3)))

VisitFor(s, n) ==
  With(Infer(s, Part(n, 2)), LAMBDA u, over :
    Pop(VisitBody(Declare(Push(u), Word(n, 1), Symbol("Variable", ElementOf(over), FALSE)), Part(n, 3))))

VisitBranch(s, b) ==
  Visit(IF Kind(b[1]) = "None" THEN s ELSE Visit(s, b[1]), b[2])

VisitArm(s, a) ==
  LET wild == IsIdent(Part(a, 1)) /\ Word(Part(a, 1), 1) = "_"
  IN  Visit(IF wild THEN s ELSE Visit(s, Part(a, 1)), Part(a, 2))

Caught(s, n) == IF Has(n, 2) THEN Declare(s, Word(n, 2), Symbol("Variable", Unknown, FALSE)) ELSE s
VisitTry(s, n) == Pop(Visit(Caught(Push(Pop(Visit(Push(s), Part(n, 1)))), n), Part(n, 3)))

\* A binding is <<out, register, variable>>.
VisitBind(s, b) ==
  LET x == Word(b, 3)
  IN  ErrorIf(IF Known(s, x) THEN Has(b, 1) /\ ~Lookup(s, x).mut ELSE TRUE, s, <<"asm", x>>)
VisitAsm(s, n) ==
  InTurn(LAMBDA u, b : VisitBind(u, b), s, IF Has(n, 1) THEN Parts(Part(n, 1)) ELSE << >>)

VisitStatement(s, n) ==
  CASE Kind(n) = "Var" -> VisitVar(s, n)
    [] Kind(n) = "Return" -> VisitReturn(s, n)
    [] Kind(n) = "If" -> InTurn(LAMBDA u, b : VisitBranch(u, b), s, Branches(n))
    [] Kind(n) = "While" -> VisitBody(Visit(s, Part(n, 1)), Part(n, 2))
    [] Kind(n) \in {"ForIn", "ParFor"} -> VisitFor(s, n)
    [] Kind(n) = "Loop" -> VisitBody(s, Part(n, 1))
    [] Kind(n) = "Match" -> InTurn(LAMBDA u, a : VisitArm(u, a), Visit(s, Part(n, 1)), From(n, 2))
    [] Kind(n) = "Region" -> Pop(Visit(Push(s), Part(n, 2)))
    [] Kind(n) = "Try" -> VisitTry(s, n)
    [] Kind(n) \in Functions_ -> VisitFunc(s, n)
    [] Kind(n) = "Class" ->
         VisitClass(Declare(s, Word(n, 1), Symbol("Class", ClassType(Word(n, 1)), FALSE)), n)
    [] Kind(n) \in {"Break", "Continue"} -> ErrorIf(~s.inLoop, s, <<"loop", Kind(n)>>)
    [] Kind(n) = "Block" -> VisitBlock(s, n)
    [] Kind(n) \in {"ExprStmt", "Throw"} -> Visit(s, Part(n, 1))
    [] Kind(n) = "Annotation" -> s

(***************************************************************************)
(* Expressions.                                                            *)
(***************************************************************************)
InferIdent(s, x) ==
  CASE Known(s, x) /\ Lookup(s, x).moved -> Got(Error(s, <<"moved", x>>), Unknown)
    [] Known(s, x) /\ ~Lookup(s, x).moved -> Got(s, Lookup(s, x).type)
    [] ~Known(s, x) -> IF x \in DOMAIN Scalars THEN Got(s, Scalars[x])
                       ELSE Got(Error(s, <<"undefined", x>>), Unknown)

Tests == {"==", "!=", "<", ">", "<=", ">=", "&&", "||"}

InferBinary(s, n) ==
  With(InferAll(s, <<Part(n, 1), Part(n, 3)>>, << >>), LAMBDA u, ts :
    LET op == Word(n, 2)
        l  == ts[1]
        r  == ts[2]
    IN  CASE op \in Tests -> Got(u, T("Bool"))
          [] op \in {"&", "|", "^"} -> Got(ErrorIf(l[1] \notin Integer, u, <<"operator", op>>), l)
          [] op = "+" /\ l = T("Str") -> Got(u, l)
          [] OTHER ->
               IF Unknown \in {l, r} THEN Got(u, Unknown)
               ELSE IF T("Float") \in {l, r} THEN Got(u, T("Float"))
               ELSE IF {l[1], r[1]} \subseteq Numeric THEN Got(u, l)
               ELSE IF op = "+" /\ r = T("Str") THEN Got(u, r)
               ELSE Got(Error(u, <<"operator", op>>), Unknown))


InferUnary(s, n) ==
  With(Infer(s, Part(n, 2)), LAMBDA u, t :
    LET op == Word(n, 1)
    IN  IF op = "!" THEN Got(u, T("Bool"))
        ELSE Got(ErrorIf(t[1] \notin (IF op = "-" THEN Numeric ELSE Integer), u, <<"operator", op>>), t))

\* Arguments are checked when the first parameter has a type; those of a
\* constructor, or of an instance that is called, are not even looked at.
InferCall(s, n) ==
  LET args == From(n, 2)
      name == IF Kind(Part(n, 1)) = "Ident" THEN Word(Part(n, 1), 1) ELSE ""
  IN  With(Infer(s, Part(n, 1)), LAMBDA u, callee :
        CASE callee[1] = "Class" -> Got(PassOver(u, args), callee)
          [] callee[1] = "Fn" /\ callee[2] # << >> /\ callee[2][1] # Unknown ->
               IF Len(args) # Len(callee[2]) THEN Got(Error(u, <<"arity", name>>), callee[3])
               ELSE With(InferAll(u, args, << >>), LAMBDA w, ts :
                      Got(ErrorIf(\E i \in DOMAIN ts : ~Compatible(w.classes, callee[2][i], ts[i]),
                                  w, <<"argument", name>>), callee[3]))
          [] callee[1] = "Fn" /\ (callee[2] = << >> \/ callee[2][1] = Unknown) ->
               Got(InferAll(u, args, << >>).s, callee[3])
          [] OTHER -> Got(InferAll(u, args, << >>).s, Unknown))

\* Only a plain variable is checked as a target.
Assigned(s, x, op, rhs) ==
  LET sym == Lookup(s, x)
      fixed == ErrorIf(sym.const \/ (~sym.mut /\ sym.init), s, <<"immutable", x>>)
      fits  == ErrorIf(~Compatible(s.classes, sym.type, rhs), fixed, <<"mismatch", x>>)
  IN  [fits EXCEPT !.scopes[Where(s, x)][x].init = TRUE,
                   !.scopes[Where(s, x)][x].moved = @ /\ op # "="]

InferAssign(s, n) ==
  LET target == Part(n, 1)
      x == Word(target, 1)
  IN  With(Infer(s, Part(n, 3)), LAMBDA u, rhs :
        IF IsIdent(target) /\ Known(u, x) THEN Got(Assigned(u, x, Word(n, 2), rhs), Lookup(u, x).type)
        ELSE Infer(u, target))

\* The members of a class and of its base, no further.
Member(classes, c, x) ==
  LET near == {c, classes[c].base} \cap DOMAIN classes
  IN  UNION {{m \in classes[k].fields \cup classes[k].methods : m[1] = x} : k \in near}

\* Fields come before methods, the class before its base.
TypeOfMember(classes, c, x) ==
  LET own == {m \in classes[c].fields : m[1] = x}
      met == {m \in classes[c].methods : m[1] = x}
      b   == classes[c].base
      inherited == IF b \in DOMAIN classes THEN {m \in classes[b].fields : m[1] = x} ELSE {}
      first == IF own # {} THEN own ELSE IF met # {} THEN met
               ELSE IF inherited # {} THEN inherited ELSE Member(classes, c, x)
  IN  (CHOOSE m \in first : TRUE)[2]

InferField(s, n) ==
  LET x == Word(n, 2)
  IN  With(Infer(s, Part(n, 1)), LAMBDA u, t :
        IF t[1] # "Class" THEN Got(u, Unknown)
        ELSE IF t[2] \notin DOMAIN u.classes THEN Got(u, Unknown)
        ELSE IF Member(u.classes, t[2], x) = {} THEN Got(Error(u, <<"nofield", x, t[2]>>), Unknown)
        ELSE Got(u, TypeOfMember(u.classes, t[2], x)))

InferIndex(s, n) ==
  With(InferAll(s, Parts(n), << >>), LAMBDA u, ts :
    LET obj == ts[1]
        idx == ts[2]
    IN  IF obj[1] = "Map" THEN Got(ErrorIf(~Compatible(u.classes, obj[2], idx), u, <<"key", "">>), obj[3])
        ELSE Got(ErrorIf(idx[1] \notin {"Int", "Uint", "Unknown"}, u, <<"index", "">>),
                 CASE obj[1] = "List" -> obj[2] [] obj[1] = "Str" -> T("Char") [] OTHER -> Unknown))

\* The return type of the function around it stays in force in a body.
InferLambda(s, n) ==
  LET params == Parts(Part(n, 1))
      inside == DeclareParams(Push(s), params)
      ret    == Resolve(Part(n, 2))
      body   == Part(n, 3)
  IN  With(Infer(inside, body), LAMBDA u, t :
        Got(Pop(u), Fn([i \in DOMAIN params |-> Resolve(Part(params[i], 3))],
                       IF Kind(body) # "Block" /\ ret = Unknown THEN t ELSE ret)))

\* A member of a module is looked up under its bare name.
InferScope(s, n) ==
  LET mod == Part(n, 1)
      x   == Word(n, 2)
  IN  IF IsIdent(mod) /\ Known(s, Word(mod, 1)) /\ Known(s, x)
      THEN IF Lookup(s, Word(mod, 1)).kind = "Module" THEN Got(s, Lookup(s, x).type)
           ELSE Got(Visit(s, mod), Unknown)
      ELSE Got(Visit(s, mod), Unknown)

InferMove(s, n) ==
  LET x == Word(Part(n, 1), 1)
  IN  CASE ~IsIdent(Part(n, 1)) -> Got(s, Void)
        [] IsIdent(Part(n, 1)) /\ ~Known(s, x) -> Got(s, Void)
        [] OTHER -> Got(IF ~Lookup(s, x).owned THEN Error(s, <<"notowned", x>>)
                        ELSE IF Lookup(s, x).moved THEN Error(s, <<"moved", x>>)
                        ELSE [s EXCEPT !.scopes[Where(s, x)][x].moved = TRUE], Void)

\* The first type that is known stands for all; with check the others must fit it.
Common(ts) == IF SelectSeq(ts, LAMBDA t : t # Unknown) = << >> THEN Unknown
              ELSE SelectSeq(ts, LAMBDA t : t # Unknown)[1]
Mixed(classes, ts) ==
  \E i \in DOMAIN ts : LET before == Common(SubSeq(ts, 1, i - 1))
                       IN  before # Unknown /\ ~Compatible(classes, before, ts[i])

Literals == [Int |-> T("Int"), Float |-> T("Float"), Str |-> T("Str"), Char |-> T("Char"),
             Bool |-> T("Bool"), Null |-> Optional(Unknown), Channel |-> <<"Generic", "Channel">>]

Infer(s, n) ==
  CASE Kind(n) \in DOMAIN Literals -> Got(s, Literals[Kind(n)])
    [] Kind(n) = "Ident" -> InferIdent(s, Word(n, 1))
    [] Kind(n) = "Binary" -> InferBinary(s, n)
    [] Kind(n) = "Unary" -> InferUnary(s, n)
    [] Kind(n) = "Call" -> InferCall(s, n)
    [] Kind(n) = "Assign" -> InferAssign(s, n)
    [] Kind(n) = "Field" -> InferField(s, n)
    [] Kind(n) = "Index" -> InferIndex(s, n)
    [] Kind(n) = "Lambda" -> InferLambda(s, n)
    [] Kind(n) = "Scope" -> InferScope(s, n)
    [] Kind(n) = "Move" -> InferMove(s, n)
    [] Kind(n) = "Ternary" -> With(InferAll(s, Parts(n), << >>), LAMBDA u, ts : Got(u, ts[2]))
    [] Kind(n) = "Optional" -> With(Infer(s, Part(n, 1)), LAMBDA u, t :
                                 Got(u, IF t[1] = "Optional" THEN t ELSE Optional(t)))
    [] Kind(n) = "Range" -> With(InferAll(s, <<Part(n, 1), Part(n, 3)>>, << >>), LAMBDA u, ts :
                              Got(ErrorIf(~Compatible(u.classes, ts[1], ts[2]), u, <<"range", "">>),
                                  ListOf(T("Int"))))
    [] Kind(n) = "List" -> With(InferAll(s, Parts(n), << >>), LAMBDA u, ts :
                             Got(ErrorIf(Mixed(u.classes, ts), u, <<"elements", "">>), ListOf(Common(ts))))
    [] Kind(n) = "Map" -> With(InferAll(s, Parts(n), << >>), LAMBDA u, ts :
                            LET Every2(from) == [i \in 1..(Len(ts) \div 2) |-> ts[2 * i + from]]
                            IN  Got(u, <<"Map", Common(Every2(-1)), Common(Every2(0))>>))
    [] Kind(n) = "Own" -> Got(PassOver(s, From(n, 2)), <<"Own", Resolve(Part(n, 1))>>)
    [] Kind(n) = "Alloc" -> Got(PassOver(s, From(n, 2)), Resolve(Part(n, 1)))
    [] Kind(n) = "Ref" -> With(Infer(s, Part(n, 2)), LAMBDA u, t : Got(u, <<"Ref", t>>))
    [] Kind(n) = "Spawn" -> Got(Visit(s, Part(n, 1)), Unknown)
    [] Kind(n) = "Await" -> Infer(s, Part(n, 1))
    [] Kind(n) = "Asm" -> Got(VisitAsm(s, n), Void)
    [] OTHER -> Got(VisitStatement(s, n), Void)

(***************************************************************************)
(* A program: the first pass registers what can be called before its text, *)
(* the second visits everything in the order of the text.                  *)
(***************************************************************************)
AnyArgument(ret) == Fn(<<Unknown>>, ret)
BuiltinTypes == [x \in Builtins |-> AnyArgument(CASE x = "len" -> T("Int") [] x = "is_null" -> T("Bool")
                                                  [] OTHER -> Void)]
Fresh_ == [scopes |-> <<[x \in Builtins |-> Symbol("Function", BuiltinTypes[x], FALSE)]>>,
           classes |-> << >>, errors |-> {}, unseen |-> {}, ret |-> Unknown, inLoop |-> FALSE]

Register(s, n) ==
  CASE Kind(n) = "Class" -> RegisterClass(s, n)
    [] Kind(n) \in Functions_ -> RegisterFunc(s, n)
    [] Kind(n) = "Use" -> VisitUse(s, n)
    [] OTHER -> s

Analyze(tree) ==
  LET registered == InTurn(LAMBDA s, n : Register(s, n), Fresh_, Parts(tree))
      Visited(s, n) == CASE Kind(n) = "Class" -> VisitClass(s, n)
                         [] Kind(n) = "Use" -> s
                         [] OTHER -> Visit(s, n)
  IN  InTurn(LAMBDA s, n : Visited(s, n), registered, Parts(tree))
=============================================================================
