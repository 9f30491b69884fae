------------------------------- MODULE Interp -------------------------------
(***************************************************************************)
(* The tree-walking interpreter (src/src/interpreter.cpp) for one thread.  *)
(* A walk over a node takes the state before it and returns the record of  *)
(* the state after it and the value: [st, v].  An exception of C++, a      *)
(* panic or a throw, is st.stop: Then skips what follows.  Break, Continue *)
(* and Return are values, as in the code.  What threads and channels do is *)
(* in the modules SpawnJoin, SharedList and Channel, the limits of the     *)
(* integers in CheckedArith; numbers here are whole and stay small.        *)
(***************************************************************************)
EXTENDS Tree
LOCAL INSTANCE Bitwise

CONSTANTS MaxCallDepth,   \* Interpreter::MAX_CALL_DEPTH
          MaxSteps        \* bound: calls and iterations a program is followed for

ASSUME InterpBounds == MaxCallDepth \in Nat \ {0} /\ MaxSteps \in Nat

Running == <<"running">>
Null      == <<"Null">>
MkInt(i)  == <<"Int", i>>
MkBool(b) == <<"Bool", b>>
Signals == {"Break", "Continue", "Return"}

(***************************************************************************)
(* The state: frames are the Env objects (1 is global_), heap the lists,   *)
(* maps, instances and owned values that several names can share.          *)
(***************************************************************************)
Env(up) == [vars |-> << >>, fixed |-> {}, up |-> up]

Fresh(st)     == Len(st.frames) + 1
Enter(st, up) == [st EXCEPT !.frames = Append(@, Env(up))]

Define(st, f, x, v, immutable) ==
  [st EXCEPT !.frames[f].vars = (x :> v) @@ @,
             !.frames[f].fixed = IF immutable THEN @ \cup {x} ELSE @]

\* The frame of the chain that binds x, 0 when there is none.
RECURSIVE Holder(_, _, _)
Holder(st, f, x) == IF f = 0 THEN 0
                    ELSE IF x \in DOMAIN st.frames[f].vars THEN f
                    ELSE Holder(st, st.frames[f].up, x)

Get(st, f, x) == st.frames[Holder(st, f, x)].vars[x]

New(st, obj) == [st EXCEPT !.heap = Append(@, obj)]
At(st, v)    == st.heap[v[2]]

Ok(st, v)       == [st |-> st, v |-> v]
Panic(st, what) == Ok([st EXCEPT !.stop = <<"panic">> \o what], Null)
Then(r, F(_, _)) == IF r.st.stop # Running THEN r ELSE F(r.st, r.v)

\* Programs that run on are cut.
Step(st, F(_)) == IF st.steps = MaxSteps THEN Ok([st EXCEPT !.stop = <<"cut">>], Null)
                  ELSE F([st EXCEPT !.steps = @ + 1])

Assign(st, f, x, v) ==
  LET h == Holder(st, f, x)
  IN  IF h = 0 THEN Panic(st, <<"undefined", x>>)
      ELSE IF x \in st.frames[h].fixed THEN Panic(st, <<"immutable", x>>)
      ELSE Ok([st EXCEPT !.frames[h].vars[x] = v], v)

(***************************************************************************)
(* Values.                                                                 *)
(***************************************************************************)
Truthy(st, v) == CASE v[1] = "Null" -> FALSE
                   [] v[1] = "Bool" -> v[2]
                   [] v[1] = "Int"  -> v[2] # 0
                   [] v[1] = "Str"  -> v[2] # << >>
                   [] v[1] = "List" -> At(st, v) # << >>
                   [] OTHER         -> TRUE

\* The field ival, which is 0 in a value that is not an integer.
IVal(v) == IF v[1] = "Int" THEN v[2] ELSE 0

Equals(a, b) == a[1] = b[1] /\ a[1] \in {"Null", "Int", "Bool", "Char", "Str"} /\ a = b

\* A text is the sequence of its glyphs; a number or a boolean displays as one.
RECURSIVE Display(_, _)
Display(st, v) == CASE v[1] = "Str" -> v[2]
                    [] v[1] = "Int" -> <<ToString(v[2])>>
                    [] v[1] = "Bool" -> <<IF v[2] THEN "true" ELSE "false">>
                    [] v[1] = "Null" -> <<"null">>
                    [] v[1] = "Char" -> <<v[2]>>
                    [] v[1] = "List" -> InTurn(LAMBDA a, e : a \o Display(st, e), <<"[">>, At(st, v)) \o <<"]">>
                    [] v[1] = "Class" -> <<At(st, v).class>>
                    [] OTHER -> <<v[1]>>

Ordered(op, a, b) == CASE op = "<" -> a < b [] op = ">" -> a > b
                       [] op = "<=" -> a <= b [] op = ">=" -> a >= b

\* Division of C++ rounds toward zero.
Div(a, b) == LET q == (IF a < 0 THEN -a ELSE a) \div (IF b < 0 THEN -b ELSE b)
             IN  IF (a < 0) = (b < 0) THEN q ELSE -q

\* Two's complement of a byte: the numbers here are small.
Bits(a)   == a % 256
Signed(b) == IF b >= 128 THEN b - 256 ELSE b

Arith(st, op, l, r) ==
  LET a == IVal(l)
      b == IVal(r)
  IN
  CASE op = "+" /\ l[1] = "Str" -> Ok(st, <<"Str", l[2] \o Display(st, r)>>)
    [] op = "+" /\ l[1] # "Str" -> Ok(st, MkInt(a + b))
    [] op = "-" -> Ok(st, MkInt(a - b))
    [] op = "*" -> Ok(st, MkInt(a * b))
    [] op \in {"/", "%"} -> IF b = 0 THEN Panic(st, <<"zero">>)
                            ELSE Ok(st, MkInt(IF op = "/" THEN Div(a, b) ELSE a - b * Div(a, b)))
    [] op \in {"==", "!="} -> Ok(st, MkBool((op = "==") = Equals(l, r)))
    [] op \in {"<", ">", "<=", ">="} -> Ok(st, MkBool(Ordered(op, a, b)))
    [] op \in {"&", "|", "^"} -> Ok(st, MkInt(Signed(CASE op = "&" -> Bits(a) & Bits(b)
                                                      [] op = "|" -> Bits(a) | Bits(b)
                                                      [] op = "^" -> Bits(a) ^^ Bits(b))))

Compound == [op \in {"+=", "-=", "*=", "/=", "%="} |->
               CASE op = "+=" -> "+" [] op = "-=" -> "-" [] op = "*=" -> "*"
                 [] op = "/=" -> "/" [] op = "%=" -> "%"]

(***************************************************************************)
(* Statements.                                                             *)
(***************************************************************************)
\* Eval and Exec hand each other the nodes they do not know, so that either walks any.
RECURSIVE Eval(_, _, _), Exec(_, _, _), Call(_, _, _, _)

Optionally(st, f, n, i) == IF Has(n, i) THEN Eval(st, f, Part(n, i)) ELSE Ok(st, Null)

RECURSIVE EvalAll(_, _, _, _)
EvalAll(st, f, ns, vs) ==
  IF ns = << >> THEN Ok(st, vs)
  ELSE Then(Eval(st, f, Head(ns)), LAMBDA s, v : EvalAll(s, f, Tail(ns), Append(vs, v)))

\* The statements up to a signal; the value of the last one is the block's.
RECURSIVE ExecAll(_, _, _, _)
ExecAll(st, f, ns, last) ==
  IF ns = << >> \/ last[1] \in Signals THEN Ok(st, last)
  ELSE Then(Eval(st, f, Head(ns)), LAMBDA s, v : ExecAll(s, f, Tail(ns), v))

ExecBlock(st, f, n) == ExecAll(Enter(st, f), Fresh(st), Parts(n), Null)

RECURSIVE ExecBranches(_, _, _)
ExecBranches(st, f, bs) ==
  IF bs = << >> THEN Ok(st, Null)
  ELSE LET cond == bs[1][1]
           body == bs[1][2]
       IN  IF Kind(cond) = "None" THEN ExecBlock(st, f, body)
           ELSE Then(Eval(st, f, cond),
                     LAMBDA s, v : IF Truthy(s, v) THEN ExecBlock(s, f, body)
                                   ELSE ExecBranches(s, f, Tail(bs)))

\* What a loop does after its body: leave, hand the Return on, or go again.
Around_(r, Again(_)) == Then(r, LAMBDA s, v : CASE v[1] = "Break"  -> Ok(s, Null)
                                               [] v[1] = "Return" -> Ok(s, v)
                                               [] OTHER           -> Again(s))

RECURSIVE ExecWhile(_, _, _), ExecLoop(_, _, _), ExecItems(_, _, _, _)
ExecWhile(st, f, n) == Step(st, LAMBDA t :
  Then(Eval(t, f, Part(n, 1)),
       LAMBDA s, v : IF ~Truthy(s, v) THEN Ok(s, Null)
                     ELSE Around_(ExecBlock(s, f, Part(n, 2)), LAMBDA u : ExecWhile(u, f, n))))

ExecLoop(st, f, n) == Step(st, LAMBDA t :
  Around_(ExecBlock(t, f, Part(n, 1)), LAMBDA u : ExecLoop(u, f, n)))

\* Each item in a frame of its own, where the loop variable is immutable.
ExecItems(st, f, n, items) ==
  IF items = << >> THEN Ok(st, Null)
  ELSE Step(st, LAMBDA t :
         Around_(ExecBlock(Define(Enter(t, f), Fresh(t), Word(n, 1), Head(items), TRUE),
                           Fresh(t), Part(n, 3)),
                 LAMBDA u : ExecItems(u, f, n, Tail(items))))

Counted(lo, hi, inclusive) ==
  LET end == IVal(hi) + (IF inclusive THEN 1 ELSE 0)
  IN  [i \in 1..(end - IVal(lo)) |-> MkInt(IVal(lo) + i - 1)]

ExecFor(st, f, n) ==
  LET over == Part(n, 2)
  IN  IF Kind(over) = "Range"
      THEN Then(EvalAll(st, f, <<Part(over, 1), Part(over, 3)>>, << >>),
                LAMBDA s, v : ExecItems(s, f, n, Counted(v[1], v[2], Word(over, 2) = "=")))
      ELSE Then(Eval(st, f, over),
                LAMBDA s, v : ExecItems(s, f, n, CASE v[1] = "List" -> At(s, v)
                                                   [] v[1] = "Str" -> [i \in DOMAIN v[2] |-> <<"Char", v[2][i]>>]
                                                   [] OTHER -> << >>))

\* Only a throw is caught; the body has a frame, and its block another.
Catch(r, f, n) ==
  LET s == [r.st EXCEPT !.stop = Running]
      c == Enter(s, f)
  IN  IF r.st.stop[1] # "throw" THEN r
      ELSE ExecBlock(IF Has(n, 2) THEN Define(c, Fresh(s), Word(n, 2), r.st.stop[2], FALSE) ELSE c,
                     Fresh(s), Part(n, 3))
ExecTry(st, f, n) == Catch(ExecBlock(Enter(st, f), Fresh(st), Part(n, 1)), f, n)

\* The pattern of an arm against the subject; a range compares ival.
Matches(st, f, v, p) ==
  CASE IsIdent(p) /\ Word(p, 1) = "_" -> Ok(st, TRUE)
    [] Kind(p) = "Range" ->
         Then(EvalAll(st, f, <<Part(p, 1), Part(p, 3)>>, << >>),
              LAMBDA s, b : Ok(s, /\ IVal(v) >= IVal(b[1])
                                  /\ Ordered(IF Word(p, 2) = "=" THEN "<=" ELSE "<", IVal(v), IVal(b[2]))))
    [] OTHER -> Then(Eval(st, f, p), LAMBDA s, w : Ok(s, Equals(v, w)))

RECURSIVE ExecArms(_, _, _, _)
ExecArms(st, f, v, arms) ==
  IF arms = << >> THEN Ok(st, Null)
  ELSE Then(Matches(Enter(st, f), Fresh(st), v, Part(Head(arms), 1)),
            LAMBDA s, hit : IF hit THEN Eval(s, Fresh(st), Part(Head(arms), 2))
                            ELSE ExecArms(s, f, v, Tail(arms)))

\* A named function does not capture: its frames hang from the global one.
Function(params, body, captured) == <<"Function", Parts(params), body, captured>>
ExecFunc(st, f, n) ==
  LET fn == Function(Part(n, 2), Part(n, 4), 1)
  IN  Ok(Define(st, f, Word(n, 1), fn, FALSE), fn)

ExecClass(st, f, n) ==
  Ok(Define([st EXCEPT !.classes = (Word(n, 1) :> n) @@ @], f, Word(n, 1),
            <<"Native", Word(n, 1), n>>, FALSE), Null)

Exec(st, f, n) ==
  CASE Kind(n) = "Var" -> Then(Optionally(st, f, n, 5), LAMBDA s, v :
                            Ok(Define(s, f, Word(n, 3), v, Word(n, 1) # "var"), v))
    [] Kind(n) = "Return" -> Then(Optionally(st, f, n, 1), LAMBDA s, v : Ok(s, <<"Return", v>>))
    [] Kind(n) \in {"Break", "Continue"} -> Ok(st, <<Kind(n)>>)
    [] Kind(n) = "If" -> ExecBranches(st, f, Branches(n))
    [] Kind(n) = "While" -> ExecWhile(st, f, n)
    [] Kind(n) \in {"ForIn", "ParFor"} -> ExecFor(st, f, n)
    [] Kind(n) = "Loop" -> ExecLoop(st, f, n)
    [] Kind(n) = "Match" -> Then(Eval(st, f, Part(n, 1)), LAMBDA s, v : ExecArms(s, f, v, From(n, 2)))
    [] Kind(n) = "Region" -> ExecBlock(Enter(st, f), Fresh(st), Part(n, 2))
    [] Kind(n) = "Try" -> ExecTry(st, f, n)
    [] Kind(n) = "Throw" -> Then(Eval(st, f, Part(n, 1)), LAMBDA s, v :
                              Ok([s EXCEPT !.stop = <<"throw", v>>], Null))
    [] Kind(n) \in Functions_ -> ExecFunc(st, f, n)
    [] Kind(n) = "Class" -> ExecClass(st, f, n)
    [] Kind(n) = "Block" -> ExecBlock(st, f, n)
    [] Kind(n) = "ExprStmt" -> Eval(st, f, Part(n, 1))
    [] Kind(n) \in {"Asm", "Annotation", "Use", "None"} -> Ok(st, Null)

(***************************************************************************)
(* Calls.                                                                  *)
(***************************************************************************)
\* Mutated: the parameters that are mut are the immutable ones.
BindAllFlipped(st, f, params, a, args) ==
  InTurn(LAMBDA s, i : Define(s, f, ParamName(params[i]),
                              IF i - a + 1 \in DOMAIN args THEN args[i - a + 1] ELSE Null,
                              ParamMut(params[i])),
         st, [k \in 1..(Len(params) - a + 1) |-> k + a - 1])

\* The parameters from a on, bound to the arguments; what is missing is null.
BindAll(st, f, params, a, args) ==
  InTurn(LAMBDA s, i : Define(s, f, ParamName(params[i]),
                                IF i - a + 1 \in DOMAIN args THEN args[i - a + 1] ELSE Null,
                                ~ParamMut(params[i])),
           st, [k \in 1..(Len(params) - a + 1) |-> k + a - 1])

\* The guard of the depth is left on every way out.
Left(r) == [st |-> [r.st EXCEPT !.depth = @ - 1], v |-> IF r.v[1] = "Return" THEN r.v[2] ELSE r.v]

\* self is << >> for a plain call, else the instance the method was found in.
Invoke(st, fn, args, self) ==
  LET params == fn[2]
      frame  == Fresh(st)
      entered == [Enter(st, fn[4]) EXCEPT !.depth = @ + 1]
      first  == IF params # << >> /\ ParamName(params[1]) = "self" THEN 2 ELSE 1
      bound  == BindAll(IF self = << >> THEN entered ELSE Define(entered, frame, "self", self, FALSE),
                        frame, params, first, args)
  IN  Left(Eval(bound, frame, fn[3]))

\* The members of an instance: those of the base first, then null for each field,
\* then the methods.  A chain of bases that is a circle would never end.
RECURSIVE Members(_, _)
Members(classes, node) ==
  LET base    == IF Has(node, 2) /\ Word(node, 2) \in DOMAIN classes
                 THEN Members(classes, classes[Word(node, 2)]) ELSE << >>
      fields  == {Word(m, 1) : m \in Range(OfKinds(Parts(node), {"FieldDecl"}))}
      methods == OfKinds(Parts(node), Functions_)
  IN  InTurn(LAMBDA fs, m : (Word(m, 1) :> Function(Part(m, 2), Part(m, 4), 1)) @@ fs,
               [x \in fields |-> Null] @@ base, methods)

\* Only the init of the class itself runs, its parameters are mutable, and self is
\* one of them when it is listed.
Construct(st, node, args) ==
  LET me    == <<"Class", Len(st.heap) + 1>>
      made  == New(st, [class |-> Word(node, 1), fields |-> Members(st.classes, node)])
      inits == OfKinds(Parts(node), {"Init"})
      params == Parts(Part(inits[1], 1))
      bound == InTurn(LAMBDA s, i : Define(s, Fresh(st), ParamName(params[i]), args[i], FALSE),
                        Define(Enter(made, 1), Fresh(st), "self", me, FALSE),
                        [i \in 1..Min({Len(params), Len(args)}) |-> i])
  IN  IF inits = << >> THEN Ok(made, me)
      ELSE Then(ExecBlock(bound, Fresh(st), Part(inits[1], 2)), LAMBDA s, v : Ok(s, me))

CallBuiltin(st, name, args) ==
  CASE name = "print" -> Ok([st EXCEPT !.out = Append(@, [i \in DOMAIN args |-> Display(st, args[i])])], Null)
    [] name = "len" -> Ok(st, MkInt(IF args = << >> THEN 0
                                  ELSE IF args[1][1] = "Str" THEN Len(args[1][2])
                                  ELSE IF args[1][1] = "List" THEN Len(At(st, args[1]))
                                  ELSE IF args[1][1] = "Map" THEN Cardinality(DOMAIN At(st, args[1]))
                                  ELSE 0))
    [] name = "push" -> IF Len(args) < 2 THEN Panic(st, <<"arity", name>>)
                        ELSE IF args[1][1] # "List" THEN Panic(st, <<"kind", name>>)
                        ELSE Ok([st EXCEPT !.heap[args[1][2]] = Append(@, args[2])], Null)
    [] name = "is_null" -> Ok(st, MkBool(args = << >> \/ args[1] = Null))

\* Constructors and builtins are outside of the depth guard.
Call(st, fn, args, self) ==
  CASE fn[1] = "Native" /\ fn[2] \in Builtins /\ Kind(fn[3]) = "None" -> CallBuiltin(st, fn[2], args)
    [] fn[1] = "Native" /\ Kind(fn[3]) = "Class" -> Step(st, LAMBDA s : Construct(s, fn[3], args))
    [] fn[1] = "Function" -> IF st.depth >= MaxCallDepth THEN Panic(st, <<"depth">>)
                             ELSE Step(st, LAMBDA s : Invoke(s, fn, args, self))
    [] fn[1] = "Map" /\ <<"__call__">> \in DOMAIN At(st, fn) -> Call(st, At(st, fn)[<<"__call__">>], args, self)
    [] OTHER -> Panic(st, <<"callable", fn[1]>>)

\* A method is looked up in the instance, or among the keys of a map.
CallMethod(st, obj, m, args) ==
  LET ofClass == obj[1] = "Class" /\ m \in DOMAIN At(st, obj).fields
      ofMap   == obj[1] = "Map" /\ <<m>> \in DOMAIN At(st, obj)
  IN  IF ofClass \/ ofMap
      THEN Call(st, IF ofClass THEN At(st, obj).fields[m] ELSE At(st, obj)[<<m>>], args,
                IF ofClass THEN obj ELSE << >>)
      ELSE Panic(st, <<"member", m, obj[1]>>)

\* The arguments first, then what is called.
EvalCall(st, f, n) ==
  LET callee == Part(n, 1)
  IN  Then(EvalAll(st, f, From(n, 2), << >>), LAMBDA s, args :
        IF Kind(callee) \in {"Field", "Scope"}
        THEN Then(Eval(s, f, Part(callee, 1)), LAMBDA t, obj :
               IF Kind(callee) = "Field" \/ obj[1] = "Map" THEN CallMethod(t, obj, Word(callee, 2), args)
               ELSE Panic(t, <<"member", Word(callee, 2), obj[1]>>))
        ELSE Then(Eval(s, f, callee), LAMBDA t, fn : Call(t, fn, args, << >>)))

(***************************************************************************)
(* Expressions.                                                            *)
(***************************************************************************)
Moved(st, v) == v[1] = "Owned" /\ At(st, v).moved

EvalIdent(st, f, x) ==
  IF Holder(st, f, x) = 0 THEN Panic(st, <<"undefined", x>>)
  ELSE IF Moved(st, Get(st, f, x)) THEN Panic(st, <<"moved", x>>)
  ELSE Ok(st, Get(st, f, x))

\* && and || look at the right operand only when they must.
EvalBinary(st, f, n) ==
  LET op == Word(n, 2)
  IN  Then(Eval(st, f, Part(n, 1)), LAMBDA s, l :
        IF op \in {"&&", "||"} /\ Truthy(s, l) = (op = "||") THEN Ok(s, MkBool(op = "||"))
        ELSE Then(Eval(s, f, Part(n, 3)), LAMBDA t, r :
               IF op \in {"&&", "||"} THEN Ok(t, MkBool(Truthy(t, r))) ELSE Arith(t, op, l, r)))

EvalUnary(st, f, n) ==
  Then(Eval(st, f, Part(n, 2)), LAMBDA s, v :
    Ok(s, CASE Word(n, 1) = "!" -> MkBool(~Truthy(s, v))
            [] Word(n, 1) = "-" -> MkInt(-IVal(v))
            [] Word(n, 1) = "~" -> MkInt(-IVal(v) - 1)))

\* What an assignment with op stores over the current value, 0 if there is none.
Updated(st, op, present, cur, rhs) ==
  IF op = "=" THEN Ok(st, rhs) ELSE Arith(st, Compound[op], IF present THEN cur ELSE MkInt(0), rhs)

AssignField(st, obj, x, op, rhs) ==
  LET fields == At(st, obj).fields
  IN  IF obj[1] # "Class" THEN Ok(st, rhs)
      ELSE Then(Updated(st, op, x \in DOMAIN fields, fields[x], rhs), LAMBDA s, v :
             Ok([s EXCEPT !.heap[obj[2]].fields = (x :> v) @@ @], v))

AssignIndex(st, arr, idx, op, rhs) ==
  LET at  == IVal(idx) + 1
      key == Display(st, idx)
      old == At(st, arr)
  IN  CASE arr[1] = "List" ->
             IF at \notin DOMAIN old THEN Panic(st, <<"bounds">>)
             ELSE Then(Updated(st, op, TRUE, old[at], rhs), LAMBDA s, v :
                    Ok([s EXCEPT !.heap[arr[2]][at] = v], v))
        [] arr[1] = "Map" ->
             Then(Updated(st, op, key \in DOMAIN old, old[key], rhs), LAMBDA s, v :
               Ok([s EXCEPT !.heap[arr[2]] = (key :> v) @@ @], v))
        [] OTHER -> Ok(st, rhs)

\* The right side first; another kind of target is evaluated by nobody.
EvalAssign(st, f, n) ==
  LET target == Part(n, 1)
      op     == Word(n, 2)
  IN  Then(Eval(st, f, Part(n, 3)), LAMBDA s, rhs :
        CASE IsIdent(target) ->
               LET x == Word(target, 1)
               IN  Then(Updated(s, op, Holder(s, f, x) # 0, Get(s, f, x), rhs),
                        LAMBDA t, v : Assign(t, f, x, v))
          [] Kind(target) = "Field" -> Then(Eval(s, f, Part(target, 1)), LAMBDA t, obj :
                                         AssignField(t, obj, Word(target, 2), op, rhs))
          [] Kind(target) = "Index" -> Then(EvalAll(s, f, Parts(target), << >>), LAMBDA t, v :
                                         AssignIndex(t, v[1], v[2], op, rhs))
          [] OTHER -> Ok(s, rhs))

\* A missing member is a panic on an instance, null on a map, null on anything else.
EvalField(st, f, n) ==
  LET x == Word(n, 2)
  IN  Then(Eval(st, f, Part(n, 1)), LAMBDA s, obj :
        CASE obj[1] = "Class" -> IF x \in DOMAIN At(s, obj).fields THEN Ok(s, At(s, obj).fields[x])
                                 ELSE Panic(s, <<"member", x, "Class">>)
          [] obj[1] = "Map" /\ <<x>> \in DOMAIN At(s, obj) -> Ok(s, At(s, obj)[<<x>>])
          [] obj[1] = "Str" /\ x = "len" -> Ok(s, MkInt(Len(obj[2])))
          [] obj[1] = "List" /\ x = "len" -> Ok(s, MkInt(Len(At(s, obj))))
          [] obj[1] = "Owned" /\ x = "value" -> Ok(s, At(s, obj).value)
          [] OTHER -> Ok(s, Null))

\* A negative index counts from the end of a list, not of a text.
EvalIndex(st, f, n) ==
  Then(EvalAll(st, f, Parts(n), << >>), LAMBDA s, v :
    LET obj  == v[1]
        i    == IVal(v[2])
        from == IF i < 0 THEN Len(At(s, obj)) + i + 1 ELSE i + 1
        key  == Display(s, v[2])
    IN  CASE obj[1] = "List" -> IF from \in DOMAIN At(s, obj) THEN Ok(s, At(s, obj)[from])
                                ELSE Panic(s, <<"bounds">>)
          [] obj[1] = "Str" -> IF i + 1 \in DOMAIN obj[2] THEN Ok(s, <<"Char", obj[2][i + 1]>>)
                               ELSE Panic(s, <<"bounds">>)
          [] obj[1] = "Map" /\ key \in DOMAIN At(s, obj) -> Ok(s, At(s, obj)[key])
          [] OTHER -> Ok(s, Null))

EvalScope(st, f, n) ==
  Then(Eval(st, f, Part(n, 1)), LAMBDA s, mod :
    Ok(s, IF mod[1] = "Map" /\ <<Word(n, 2)>> \in DOMAIN At(s, mod) THEN At(s, mod)[<<Word(n, 2)>>] ELSE Null))

\* move(x, _): the object is marked and x becomes null, immutable or not.
EvalMove(st, f, n) ==
  LET x == Word(Part(n, 1), 1)
      h == Holder(st, f, x)
      v == Get(st, f, x)
  IN  IF ~IsIdent(Part(n, 1)) THEN Ok(st, Null)
      ELSE IF h = 0 \/ v = Null \/ Moved(st, v) THEN Panic(st, <<"moved", x>>)
      ELSE LET marked == IF v[1] = "Owned" THEN [st EXCEPT !.heap[v[2]].moved = TRUE] ELSE st
           IN  Ok([marked EXCEPT !.frames[h].vars[x] = Null], v)

Holding(st, kind, obj) == Ok(New(st, obj), <<kind, Len(st.heap) + 1>>)

EvalMap(st, f, n) ==
  Then(EvalAll(st, f, Parts(n), << >>), LAMBDA s, vs :
    Holding(s, "Map", InTurn(LAMBDA m, i : (Display(s, vs[2 * i - 1]) :> vs[2 * i]) @@ m, << >>,
                               [i \in 1..(Len(vs) \div 2) |-> i])))

Eval(st, f, n) ==
  CASE Kind(n) = "Int"   -> Ok(st, MkInt(Number(Word(n, 1))))
    [] Kind(n) = "Str"   -> Ok(st, <<"Str", <<Word(n, 1)>>>>)
    [] Kind(n) = "Char"  -> Ok(st, <<"Char", Word(n, 1)>>)
    [] Kind(n) = "Bool"  -> Ok(st, MkBool(Word(n, 1) = "true"))
    [] Kind(n) = "Null"  -> Ok(st, Null)
    [] Kind(n) = "Ident" -> EvalIdent(st, f, Word(n, 1))
    [] Kind(n) = "Binary" -> EvalBinary(st, f, n)
    [] Kind(n) = "Unary"  -> EvalUnary(st, f, n)
    [] Kind(n) = "Assign" -> EvalAssign(st, f, n)
    [] Kind(n) = "Call"   -> EvalCall(st, f, n)
    [] Kind(n) = "Field"  -> EvalField(st, f, n)
    [] Kind(n) = "Index"  -> EvalIndex(st, f, n)
    [] Kind(n) = "Scope"  -> EvalScope(st, f, n)
    [] Kind(n) = "Lambda" -> Ok(st, Function(Part(n, 1), Part(n, 3), f))
    [] Kind(n) = "Ternary" -> Then(Eval(st, f, Part(n, 1)), LAMBDA s, v :
                                Eval(s, f, Part(n, IF Truthy(s, v) THEN 2 ELSE 3)))
    [] Kind(n) = "Range" -> Then(EvalAll(st, f, <<Part(n, 1), Part(n, 3)>>, << >>), LAMBDA s, v :
                              Holding(s, "List", Counted(v[1], v[2], Word(n, 2) = "=")))
    [] Kind(n) = "List" -> Then(EvalAll(st, f, Parts(n), << >>), LAMBDA s, vs : Holding(s, "List", vs))
    [] Kind(n) = "Map" -> EvalMap(st, f, n)
    [] Kind(n) = "Own" -> Then(Optionally(st, f, n, 2), LAMBDA s, v :
                            Holding(s, "Owned", [value |-> v, moved |-> FALSE]))
    [] Kind(n) \in {"Alloc", "Ref"} -> Optionally(st, f, n, 2)
    [] Kind(n) \in {"Await", "Optional"} -> Eval(st, f, Part(n, 1))
    [] Kind(n) = "Move" -> EvalMove(st, f, n)
    [] OTHER -> Exec(st, f, n)

(***************************************************************************)
(* A program: its classes and functions are registered, its other          *)
(* statements executed, then main is called.                               *)
(***************************************************************************)
Loaded == [frames |-> <<[Env(0) EXCEPT !.vars = [x \in Builtins |-> <<"Native", x, <<"None", << >>>>>>]]>>,
           classes |-> << >>, heap |-> << >>, depth |-> 0, steps |-> 0, out |-> << >>, stop |-> Running]

Declarations == Functions_ \cup {"Class"}

RECURSIVE Execute(_, _)
Execute(st, ns) == IF ns = << >> THEN Ok(st, Null)
                   ELSE Then(Eval(st, 1, Head(ns)), LAMBDA s, v : Execute(s, Tail(ns)))

Run(tree) ==
  LET registered == OfKinds(Parts(tree), Declarations)
      others     == SelectSeq(Parts(tree), LAMBDA n : Kind(n) \notin Declarations)
  IN  Then(Execute(Loaded, registered \o others), LAMBDA s, v :
        IF "main" \in DOMAIN s.frames[1].vars /\ Get(s, 1, "main")[1] = "Function"
        THEN Call(s, Get(s, 1, "main"), << >>, << >>) ELSE Ok(s, Null)).st
=============================================================================
