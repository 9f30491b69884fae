------------------------------- MODULE Checked -------------------------------
(***************************************************************************)
(* cmd_run of src/src/main.cpp behind the parser: a tree is analysed, and  *)
(* executed when the analyser reports no error.  The properties say what   *)
(* acceptance is worth at run time, and name the forms it does not cover.  *)
(***************************************************************************)
EXTENDS Interp, Sema

CONSTANT Programs       \* the trees that are considered, in families

VARIABLES program,
          phase,
          errors,       \* what the analyser reports
          types,        \* what it found the global names to be
          result        \* how the execution ended, what it printed and left behind

vars == <<program, phase, errors, types, result>>

RECURSIVE Nodes(_)
Below(n) == IF Kind(n) = "text" THEN {} ELSE UNION {Nodes(m) : m \in Range(Parts(n))}
Nodes(n) == {n} \cup Below(n)

All(kinds)  == {n \in Nodes(program) : Kind(n) \in kinds}
Uses(n, x)  == <<"Ident", <<<<"text", x>>>>>> \in Nodes(n)
Classes_    == All({"Class"})
ClassNames  == {Word(c, 1) : c \in Classes_}
MembersOf(c) == Range(From(c, 3))
MethodNames == {Word(m, 1) : m \in {k \in UNION {MembersOf(c) : c \in Classes_} : Kind(k) \in Functions_}}
Globals     == {Word(n, 3) : n \in Range(OfKinds(Parts(program), {"Var"}))}

Init == /\ \E family \in Programs : program \in family
        /\ phase = "parsed"
        /\ errors = {}
        /\ types = << >>
        /\ result = [stop |-> Running, out |-> << >>, globals |-> << >>, heap |-> << >>]

Found(s) == /\ errors' = s.errors
            /\ types' = [x \in Globals \cap DOMAIN s.scopes[1] |-> s.scopes[1][x].type]
            /\ phase' = IF s.errors = {} THEN "accepted" ELSE "rejected"

Check == /\ phase = "parsed"
         /\ Found(Analyze(program))
         /\ UNCHANGED <<program, result>>

Left_(st) == [stop |-> st.stop, out |-> st.out, globals |-> st.frames[1].vars, heap |-> st.heap]

Interpret == /\ phase = "accepted"
             /\ result' = Left_(Run(program))
             /\ phase' = "executed"
             /\ UNCHANGED <<program, errors, types>>

Next == Check \/ Interpret

Spec == Init /\ [][Next]_vars

-----------------------------------------------------------------------------
(***************************************************************************)
(* Where the two follow different rules.                                   *)
(***************************************************************************)
\* What runs when it is called, and the parameters of it.
Bodies    == Functions_ \cup {"Init"}
Params(g) == {ParamName(p) : p \in Range(Parts(Part(g, IF Kind(g) = "Init" THEN 1 ELSE 2)))}

\* The declarations of the outermost level, the members of its classes among them,
\* and all that stands inside one of them.
Outermost == UNION {IF Kind(n) = "Class" THEN MembersOf(n) ELSE {n} : n \in Range(Parts(program))}
Inner     == UNION {Below(n) : n \in Outermost}

\* A body in a block or in another body: the analyser lets it see the names around it,
\* but its frame hangs from the global one.
Nested   == {g \in Inner : Kind(g) \in Bodies}
Outer(x) == \E g \in Nested : Uses(g, x) /\ x \notin Params(g)

\* The operands that the analyser passes over: the arguments of a constructor or of an
\* instance, what own<T> and alloc<T> are made from.
Unseen    == Analyze(program).unseen
Unseen_(x) == \E e \in Unseen : Uses(e, x)

InitParams == UNION {Params(c) : c \in All({"Init"})}
UseNames   == {IF Has(n, 3) THEN Word(n, 3) ELSE Last(Parts(Part(n, 2)))[2] : n \in All({"Use"})}

-----------------------------------------------------------------------------
Panicked(why) == phase = "executed" /\ result.stop[1] = "panic" /\ result.stop[2] = why

\* A name the analyser found is bound when the program reads or assigns it (lookup
\* against Env::get and Env::assign), but for a name around a nested body, one in an
\* operand that is passed over, a bare method name, the name of a module or of a type,
\* self in what is not called as a method, a parameter of init that was passed nothing,
\* and a global used by a body that runs before the global is initialised.
NamesResolve ==
  Panicked("undefined") =>
    LET x == result.stop[3]
    IN  \/ Outer(x)
        \/ Unseen_(x)
        \/ x \in MethodNames \cup UseNames \cup DOMAIN Scalars \cup {"self"} \cup InitParams
        \/ x \in Globals /\ \E g \in All(Bodies) : Uses(g, x)

\* An accepted assignment meets no immutable variable (infer_assign against
\* Env::assign), but for a let without a value, an operand that is passed over, and
\* where another variable is assigned than the analyser checked: in a nested body, or
\* for a parameter of init that was passed nothing.
AssignmentsAgree ==
  Panicked("immutable") =>
    LET x == result.stop[3]
    IN  \/ \E v \in All({"Var"}) : Word(v, 1) = "let" /\ Word(v, 3) = x /\ ~Has(v, 5)
        \/ Unseen_(x)
        \/ Outer(x)
        \/ x \in InitParams

-----------------------------------------------------------------------------
(***************************************************************************)
(* The programs whose types are followed: functions with typed parameters, *)
(* classes without init whose methods take none, no null, no maps, and     *)
(* lists that are not changed.  Outside of them the types are promises.    *)
(***************************************************************************)
TypedKinds == {"Program", "Class", "FieldDecl", "Func", "Params", "Param", "TypeName", "TypeList", "Block", "Var",
               "ExprStmt", "Return", "If", "While", "Loop", "ForIn", "Match", "Arm", "Region", "Break", "Continue",
               "Ident", "Int", "Str", "Bool", "Char", "Unary", "Binary", "Assign", "Call", "List", "Range", "Index",
               "Field", "None", "text"}

\* No two declarations share a name, and none takes that of a builtin or a type.
DeclaredName(n) == IF Kind(n) = "Var" THEN Word(n, 3) ELSE IF Kind(n) = "Param" THEN Word(n, 2) ELSE Word(n, 1)
Distinct(ns) == \A a \in ns : /\ DeclaredName(a) \notin Builtins \cup DOMAIN Scalars
                              /\ \A b \in ns \ {a} : DeclaredName(a) # DeclaredName(b) \/ DeclaredName(a) = "self"
DistinctNames == /\ Distinct(All({"Class", "Func", "Var", "Param", "ForIn"}))
                 /\ Distinct(UNION {MembersOf(c) : c \in Classes_})

\* A function says what it returns, in a last statement too.
Returned(f) == {Part(r, 1) : r \in {n \in Nodes(f) : Kind(n) = "Return"}}
Says(f)  == /\ Parts(Part(f, 4)) # << >>
            /\ Kind(Last(Parts(Part(f, 4)))) = "Return"
            /\ \A e \in Returned(f) : Kind(e) # "None"

\* The analyser takes a base for its class when it is returned, so an object is made
\* where it is returned, or was passed.
IsScalar(t) == Kind(t) = "TypeName" /\ Word(t, 1) \in DOMAIN Scalars
IsOf(f, e, t) == \/ Kind(e) = "Call" /\ Part(e, 1) = <<"Ident", Parts(t)>>
                 \/ \E p \in Range(Parts(Part(f, 2))) : IsIdent(e) /\ Word(e, 1) = ParamName(p) /\ Part(p, 3) = t
ReturnsWell(f) == Has(f, 3) => Says(f) /\ (IsScalar(Part(f, 3)) \/ \A e \in Returned(f) : IsOf(f, e, Part(f, 3)))

\* Arguments are compared where the first parameter has a type; a self that is listed
\* has none.
FunctionTyped(f) == ReturnsWell(f) /\ \A p \in Range(Parts(Part(f, 2))) : Has(p, 3) /\ ParamName(p) # "self"
MethodTyped(m)   == ReturnsWell(m) /\ Params(m) \subseteq {"self"} /\ (Uses(m, "self") => Params(m) = {})

TopFunctions == {n \in Range(Parts(program)) : Kind(n) = "Func"}
VarNames == {DeclaredName(n) : n \in All({"Var", "Param", "ForIn"})} \cup {"self", "_"}
Known_   == {Word(f, 1) : f \in TopFunctions} \cup ClassNames \cup {"print", "len", "is_null"}

\* Functions and classes are called by their names, and are no values.
Callee(n) == Part(n, 1)
CallTyped(n) == Kind(Callee(n)) = "Field" \/ (IsIdent(Callee(n)) /\ Word(Callee(n), 1) \in Known_)
Calls_(n, x) == Kind(n) = "Call" /\ IsIdent(Callee(n)) /\ Word(Callee(n), 1) = x

\* A member is called, shown or asked for a member; what a function that returns
\* nothing leaves is used by nobody.
Quiet(n) == /\ Kind(n) = "Call"
            /\ Kind(Callee(n)) \in {"Ident", "Field"}
            /\ \E f \in All({"Func"}) : ~Has(f, 3) /\ Last(Parts(Callee(n))) = <<"text", Word(f, 1)>>
Operand(n, m) ==
  /\ Kind(m) = "Field" => Kind(n) \in {"Field", "ExprStmt"} \/ Calls_(n, "print")
  /\ IsIdent(m) => Word(m, 1) \in VarNames
  /\ Quiet(m) => Kind(n) = "ExprStmt"

\* On the right of + is a number, or on the left a literal text.
IsNumber(e) == \/ Kind(e) = "Int"
               \/ Kind(e) = "Unary" /\ Word(e, 1) \in {"-", "~"}
               \/ Kind(e) = "Binary" /\ Word(e, 2) \in {"-", "*", "/", "%", "&", "|", "^"}
Adds(n) == Kind(Part(n, 1)) = "Str" \/ IsNumber(Part(n, 3))
AssignTyped(n) == /\ IsIdent(Part(n, 1))
                  /\ \/ Word(n, 2) = "="
                     \/ Kind(Part(n, 3)) = "Int"
                     \/ Word(n, 2) = "+=" /\ Kind(Part(n, 3)) = "Str"

NodeTyped(n) ==
  /\ Kind(n) \in TypedKinds
  /\ Kind(n) # "text" => \A i \in DOMAIN Parts(n) : (Kind(n) = "Call" /\ i = 1) \/ Operand(n, Part(n, i))
  /\ CASE Kind(n) = "TypeName" -> Len(Parts(n)) = 1 /\ Word(n, 1) \in DOMAIN Scalars \cup ClassNames
       [] Kind(n) = "Var"    -> Has(n, 5)
       [] Kind(n) = "ForIn"  -> Kind(Part(n, 2)) \in {"Range", "List"}
       [] Kind(n) = "Index"  -> Kind(Part(n, 1)) \in {"Str", "List"}
       [] Kind(n) = "List"   -> Parts(n) # << >>
       [] Kind(n) = "Binary" -> Word(n, 2) = "+" => Adds(n)
       [] Kind(n) = "Assign" -> AssignTyped(n)
       [] Kind(n) = "Call"   -> CallTyped(n)
       [] OTHER -> TRUE

Typed == /\ \A n \in Nodes(program) : NodeTyped(n)
         /\ Nested = {}
         /\ Unseen = {}
         /\ DistinctNames
         /\ \A f \in TopFunctions : FunctionTyped(f)
         /\ \A c \in Classes_ : \A m \in MembersOf(c) : Kind(m) = "Func" => MethodTyped(m)

\* A member the analyser found in the class of a value is there at run time
\* (infer_field against call_method), in a program whose types are followed.
MembersExist == Panicked("member") /\ result.stop[4] = "Class" => ~Typed

\* Any number is of any numeric type, an instance of its class and the bases of that.
Bases == [c \in ClassNames |-> [base |-> LET n == CHOOSE m \in Classes_ : Word(m, 1) = c
                                         IN  IF Has(n, 2) THEN Word(n, 2) ELSE ""]]
RECURSIVE HasType(_, _, _)
HasType(st, v, t) ==
  \/ v = Null
  \/ t[1] \in {"Unknown", "Void", "Generic"}
  \/ t[1] \in Numeric \cup Integer /\ v[1] = "Int"
  \/ t[1] \in {"Bool", "Char", "Str"} /\ v[1] = t[1]
  \/ t[1] = "List" /\ v[1] = "List" /\ \A i \in DOMAIN At(st, v) : HasType(st, At(st, v)[i], t[2])
  \/ t[1] = "Class" /\ v[1] = "Class" /\ IsSubclassOf(Bases, At(st, v).class, t[2])


-----------------------------------------------------------------------------
(***************************************************************************)
(* The programs in which all that the analyser walks is evaluated, in the  *)
(* same order: one function, main, after everything else, no branches,     *)
(* and loops that are left at the end of their body.                       *)
(***************************************************************************)
StraightKinds == {"Program", "Func", "Params", "Param", "Block", "Var", "ExprStmt", "Loop", "Break", "Region", "Throw",
                  "Ident", "Int", "Str", "Char", "Bool", "Null", "Unary", "Binary", "Assign", "Call", "List", "Map",
                  "Range", "Index", "Field", "Optional", "Own", "Alloc", "Ref",
                  "TypeName", "TypeList", "TypeMap", "TypeOptional", "None", "text"}

Breaks(b) == Kind(b) = "Block" /\ \E i \in DOMAIN Parts(b) : Kind(Part(b, i)) = "Break"
NodeStraight(n) ==
  /\ Kind(n) \in StraightKinds
  /\ Kind(n) = "Binary" => Word(n, 2) \notin {"&&", "||"}
  /\ Kind(n) = "Assign" => Kind(Part(n, 1)) \in {"Ident", "Field", "Index"}
  /\ Kind(n) = "Loop" => ~Breaks(<<"Block", Front(Parts(Part(n, 1)))>>)
  /\ Kind(n) \notin {"Loop", "text"} => \A m \in Range(Parts(n)) : ~Breaks(m)

Straight == /\ \A n \in Nodes(program) : NodeStraight(n)
            /\ All(Functions_) = {Last(Parts(program))}
            /\ Word(Last(Parts(program)), 1) = "main"
            /\ Nested = {}

\* Such a program that is rejected for its names really uses one it must not use:
\* executed all the same, it would not get to its end.  Functions can be assigned.
JustRejections ==
  /\ phase = "rejected"
  /\ \A e \in errors : e[1] = "undefined" \/ (e[1] = "immutable" /\ e[2] \notin Builtins \cup {"main"})
  /\ Straight
  => Run(program).stop # Running

\* DOCUMENTATION.md:167: "Multi-level inheritance (`class C : B` where `B : A`)
\* resolves methods correctly at every level."  infer_field looks at the class and
\* its base; the interpreter copies the members of the whole chain.
InheritedMembersFound ==
  LET nodes == [c \in ClassNames |-> CHOOSE n \in All({"Class"}) : Word(n, 1) = c]
  IN  \A e \in errors : e[1] = "nofield" => e[2] \notin DOMAIN Members(nodes, nodes[e[3]])
=============================================================================
