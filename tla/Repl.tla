-------------------------------- MODULE Repl --------------------------------
(***************************************************************************)
(* run_repl of src/src/main.cpp: one Interpreter for the session, a syntax *)
(* tree and an analyser for each line.  The tree of a line is deleted when *)
(* the line was run, while functions, classes and threads of the           *)
(* interpreter keep pointers to its nodes: what is followed here is who    *)
(* reads whose tree.                                                       *)
(*                                                                         *)
(* A line is a sequence of statements.  The body of a function only reads  *)
(* its own tree; a class has an init that calls its one parameter; a       *)
(* thread computes on its own for some time.  What a build does after a    *)
(* read of a deleted tree is anything, and not followed.                   *)
(***************************************************************************)
EXTENDS Naturals, Sequences

CONSTANTS Names, Main, Builtins, None,
          Param,       \* what the parameter of every init is called
          Lines,       \* what may be entered
          MaxLines     \* bound: lines of a session that are accepted

Ops  == {"let", "func", "class", "use", "own", "pass", "fail"}
What == {"data", "func", "thread"}      \* the values of a let

\* let name = of; name :: () {}; class name : of {}; name, called when it can be, in
\* sight of the analyser or not: own<int>(name()), alloc<int>(name()), use name; name();
\* name(of), where name is a class of the line; an error.
Statement == [op : Ops, name : Names, of : Names \cup What \cup {None}]

ASSUME NamesAssumption ==
  /\ Main \in Names /\ Builtins \subseteq Names /\ Main \notin Builtins
  /\ None \notin Names /\ "thread" \notin Names
  /\ Param \in Names \ {Main} /\ Param \notin Builtins
ASSUME LinesAssumption ==
  /\ Lines \subseteq Seq(Statement)
  /\ \A l \in Lines : \A i \in DOMAIN l :
       /\ l[i].op = "class" => l[i].name \notin Builtins \cup {Param}
       /\ l[i].op = "let" => l[i].of \in What
       /\ l[i].op = "class" => l[i].of \in Names \cup {None}
       /\ l[i].op \in {"use", "own"} => l[i].name # Main
       /\ l[i].op = "pass" =>
            l[i].of \in Names /\ \E j \in DOMAIN l : l[j].op = "class" /\ l[j].name = l[i].name
  \* A line declares no name twice.
  /\ \A l \in Lines : \A i, j \in DOMAIN l :
       {l[i].op, l[j].op} \subseteq {"func", "class"} /\ l[i].name = l[j].name => i = j
ASSUME MaxLinesAssumption == MaxLines \in Nat

VARIABLES
  said,      \* the accepted lines so far: text and form; the last one is line Len(said)
  pc,        \* "prompt", "register", "exec", "climb", "init", "main", "leave"
  at,        \* the statement being executed
  globals,   \* global_: what a name is bound to, and the tree its value points into
  locals,    \* the frame of main, when the line was wrapped in it
  classes,   \* class_defs_
  class,     \* the class being constructed, and what its init was passed
  arg,
  running,   \* the threads that still execute, as <<line, name>>
  broken     \* "no", or who read a tree that was deleted, or "abort"

vars == <<said, pc, at, globals, locals, classes, class, arg, running, broken>>

Value(kind, line, base) == [kind |-> kind, line |-> line, base |-> base]
Unbound == Value("unbound", 0, None)
Native  == Value("data", 0, None)

Line == Len(said)
Text == said[Line].text
Bare == said[Line].form = "bare"
Here == Text[at]

\* The tree of a line lives from its acceptance until the next prompt.
Dead(line) == line # Line \/ pc = "prompt"

-----------------------------------------------------------------------------
(* What the analyser of a line accepts: it knows the line and the builtins. *)

\* The names that the statements I of l declare in one of these ways.
NamesIn(l, I, ops) == {l[i].name : i \in {j \in I : l[j].op \in ops}}
ClassesIn(l)       == NamesIn(l, DOMAIN l, {"class"})

\* Mutated: the analyser keeps the names of the session, as the interpreter does.
KnownForGood(l, i, form) ==
  NamesIn(l, 1..(i - 1), {"let", "func"}) \cup {x \in Names : globals[x].kind # "unbound"}
    \cup (IF form = "bare" THEN NamesIn(l, DOMAIN l, {"func", "class"}) ELSE {})

\* The names statement i may use: functions and classes of the top level are
\* registered first, everything in a body when it is reached, where a function whose
\* name is known from outside is not registered again.
Known(l, i, form) ==
  IF form = "bare" THEN NamesIn(l, 1..(i - 1), {"let"}) \cup NamesIn(l, DOMAIN l, {"func", "class"})
  ELSE NamesIn(l, 1..(i - 1), {"let"}) \cup
       (NamesIn(l, 1..(i - 1), {"func"}) \ (Builtins \cup {Main}))

\* The arguments of a constructor, their number and the operand of own are not looked
\* at, and a function may take the name of a builtin.  A body has a scope of its own,
\* where any name may be declared, and a class cannot stand in it.
Accepts(l, form) ==
  \A i \in DOMAIN l :
    /\ l[i].op = "use" => l[i].name \in Known(l, i, form) \cup Builtins
    /\ l[i].op = "let" =>
         l[i].name \notin Known(l, i, form) \cup (IF form = "bare" THEN Builtins ELSE {})
    /\ l[i].op \in {"class", "pass"} => form = "bare"

-----------------------------------------------------------------------------
Bound(x) == IF locals[x] # Unbound THEN locals[x] ELSE globals[x]

\* Binding a name destroys the value it had, and ~Value joins a thread.
Joins(b, x) == b.kind = "thread" /\ <<b.line, x>> \in running

Init ==
  /\ said = << >>
  /\ pc = "prompt"
  /\ at = 1
  /\ globals = [x \in Names |-> IF x \in Builtins THEN Native ELSE Unbound]
  /\ locals = [x \in Names |-> Unbound]
  /\ classes = [x \in Names |-> Unbound]
  /\ class = Unbound
  /\ arg = Unbound
  /\ running = {}
  /\ broken = "no"

\* A line is read, parsed and analysed, bare or wrapped in main; a line that is
\* neither leaves nothing behind.
Accept(l) ==
  /\ pc = "prompt" /\ Line < MaxLines
  /\ Accepts(l, "bare") \/ Accepts(l, "wrapped")
  /\ said' = Append(said, [text |-> l, form |-> IF Accepts(l, "bare") THEN "bare" ELSE "wrapped"])
  /\ pc' = "register"
  /\ at' = 1
  /\ UNCHANGED <<globals, locals, classes, class, arg, running, broken>>

\* Pass 1 of Interpreter::run: the classes and functions of the top level; of a
\* wrapped line that is main.
Registered ==
  IF Bare THEN {i \in DOMAIN Text : Text[i].op \in {"func", "class"}} ELSE {}
Registers(x) == \E i \in Registered : Text[i].name = x
Registrar(x) == Text[CHOOSE i \in Registered : Text[i].name = x]
Declares(d)  == IF d.op = "func" THEN Value("func", Line, None) ELSE Value("class", Line, d.of)

Register ==
  /\ pc = "register"
  /\ \A x \in Names : Registers(x) \/ (~Bare /\ x = Main) => ~Joins(globals[x], x)
  /\ globals' = [x \in Names |->
       IF Registers(x) THEN Declares(Registrar(x))
       ELSE IF ~Bare /\ x = Main THEN Value("func", Line, None)
       ELSE globals[x]]
  /\ classes' = [x \in Names |->
       IF Registers(x) /\ Registrar(x).op = "class" THEN Declares(Registrar(x)) ELSE classes[x]]
  /\ pc' = IF Bare THEN "exec" ELSE "main"
  /\ UNCHANGED <<said, at, locals, class, arg, running, broken>>

\* Pass 2, or the body of main: one statement after the other.
Executing(ops) == pc = "exec" /\ at <= Len(Text) /\ Here.op \in ops
Go == at' = at + 1 /\ UNCHANGED pc

\* An exception leaves the run; the loop of run_repl reports it.
Fails == pc' = "leave" /\ UNCHANGED at

Let ==
  /\ Executing({"let"})
  /\ ~Joins(IF Bare THEN globals[Here.name] ELSE locals[Here.name], Here.name)
  /\ IF Bare THEN globals' = [globals EXCEPT ![Here.name] = Value(Here.of, Line, None)] /\ UNCHANGED locals
     ELSE locals' = [locals EXCEPT ![Here.name] = Value(Here.of, Line, None)] /\ UNCHANGED globals
  /\ running' = IF Here.of = "thread" THEN running \cup {<<Line, Here.name>>} ELSE running
  /\ Go
  /\ UNCHANGED <<said, classes, class, arg, broken>>

\* Registered already, but for a function in the body of main.
Declare ==
  /\ Executing({"func", "class"})
  /\ Bare \/ ~Joins(locals[Here.name], Here.name)
  /\ locals' = IF Bare THEN locals ELSE [locals EXCEPT ![Here.name] = Value("func", Line, None)]
  /\ Go
  /\ UNCHANGED <<said, globals, classes, class, arg, running, broken>>

\* A function reads its tree; a class is constructed, with no argument.  What own is
\* given need not be bound.
Use ==
  /\ Executing({"use", "own"})
  /\ LET v == Bound(Here.name)
     IN  CASE v = Unbound -> Fails /\ UNCHANGED <<class, arg, broken>>
           [] v.kind = "class" ->
                class' = v /\ arg' = Unbound /\ pc' = "climb" /\ UNCHANGED <<at, broken>>
           [] OTHER ->
                /\ broken' = IF v.kind = "func" /\ Dead(v.line) THEN "call" ELSE broken
                /\ Go
                /\ UNCHANGED <<class, arg>>
  /\ UNCHANGED <<said, globals, locals, classes, running>>

\* The argument is looked up before anything else is done.
Pass ==
  /\ Executing({"pass"})
  /\ IF Bound(Here.of) = Unbound THEN Fails /\ UNCHANGED <<class, arg>>
     ELSE /\ class' = Bound(Here.name)
          /\ arg' = Bound(Here.of)
          /\ pc' = "climb"
          /\ UNCHANGED at
  /\ UNCHANGED <<said, globals, locals, classes, running, broken>>

Fail ==
  /\ Executing({"fail"})
  /\ Fails
  /\ UNCHANGED <<said, globals, locals, classes, class, arg, running, broken>>

\* call_constructor reads the node of a class and goes on to that of its base, for ever
\* in a circle of classes: the build runs out of stack there.
Climb ==
  /\ pc = "climb"
  /\ IF Dead(class.line) THEN broken' = "class" /\ UNCHANGED <<pc, class>>
     ELSE /\ IF class.base # None /\ classes[class.base] # Unbound
             THEN class' = classes[class.base] /\ UNCHANGED pc
             ELSE pc' = "init" /\ UNCHANGED class
          /\ UNCHANGED broken
  /\ UNCHANGED <<said, at, globals, locals, classes, arg, running>>

\* What init calls: its argument, or with none what the session calls by that name.
Callee == IF arg = Unbound THEN globals[Param] ELSE arg

\* Mutated: the init of a class that is passed gets the argument of the first.
CallInitAgain ==
  /\ pc = "init"
  /\ CASE Callee.kind = "func" ->
            /\ broken' = IF Dead(Callee.line) THEN "call" ELSE broken
            /\ pc' = "exec" /\ at' = at + 1
            /\ UNCHANGED <<class, arg>>
       [] Callee.kind = "class" ->
            class' = Callee /\ pc' = "climb" /\ UNCHANGED <<at, arg, broken>>
       [] OTHER -> Fails /\ UNCHANGED <<class, arg, broken>>
  /\ UNCHANGED <<said, globals, locals, classes, running>>

\* It is a function, a class, which is constructed with nothing in turn, or what cannot
\* be called.
CallInit ==
  /\ pc = "init"
  /\ CASE Callee.kind = "func" ->
            /\ broken' = IF Dead(Callee.line) THEN "call" ELSE broken
            /\ pc' = "exec" /\ at' = at + 1
            /\ UNCHANGED <<class, arg>>
       [] Callee.kind = "class" ->
            class' = Callee /\ arg' = Unbound /\ pc' = "climb" /\ UNCHANGED <<at, broken>>
       [] OTHER -> Fails /\ UNCHANGED <<class, arg, broken>>
  /\ UNCHANGED <<said, globals, locals, classes, running>>

\* The statements of the top level are done, and main is called; or its body is done.
EndOfStatements ==
  /\ pc = "exec" /\ at > Len(Text)
  /\ pc' = IF Bare THEN "main" ELSE "leave"
  /\ UNCHANGED <<said, at, globals, locals, classes, class, arg, running, broken>>

\* `env->get("main")`: whichever line defined it.
CallMain ==
  /\ pc = "main"
  /\ IF globals[Main].kind = "func" /\ Dead(globals[Main].line)
     THEN broken' = "main" /\ UNCHANGED pc
     ELSE pc' = (IF Bare THEN "leave" ELSE "exec") /\ UNCHANGED broken
  /\ UNCHANGED <<said, at, globals, locals, classes, class, arg, running>>

\* run returns or throws and the tree is deleted.  The frame of main dies with it,
\* unless a thread that was spawned in it holds on to it.
Leave ==
  /\ pc = "leave"
  /\ locals' = [x \in Names |-> Unbound]
  /\ pc' = "prompt"
  /\ UNCHANGED <<said, at, globals, classes, class, arg, running, broken>>

\* A thread reads the tree it was spawned from for as long as it executes.
ThreadReads(t) ==
  /\ Dead(t[1])
  /\ broken' = "thread"
  /\ UNCHANGED <<said, pc, at, globals, locals, classes, class, arg, running>>

\* The last thread to hold the frame of main destroys its own handle there.
ThreadEnds(t) ==
  /\ running' = running \ {t}
  /\ broken' = IF /\ said[t[1]].form = "wrapped" /\ Dead(t[1])
                  /\ \A u \in running \ {t} : u[1] # t[1]
               THEN "abort" ELSE broken
  /\ UNCHANGED <<said, pc, at, globals, locals, classes, class, arg>>

Run == broken = "no" /\ (\/ Register \/ Let \/ Declare \/ Use \/ Pass \/ Fail \/ Climb
                        \/ CallInit \/ EndOfStatements \/ CallMain \/ Leave)

Next == \/ broken = "no" /\ \E l \in Lines : Accept(l)
        \/ Run
        \/ broken = "no" /\ \E t \in running : ThreadReads(t) \/ ThreadEnds(t)

Spec == Init /\ [][Next]_vars /\ WF_vars(Run)

-----------------------------------------------------------------------------
(***************************************************************************)
(* Properties.                                                             *)
(***************************************************************************)
\* How a session gets to read a tree that was deleted.  A line other than the last
\* leaves a function for main, or for a name that is no line's own: a builtin, a
\* parameter; a thread is bound to a name; and a base of a class, an argument of a
\* constructor and an operand of own may be what another line declared.
Binds(s, x) == \E i \in DOMAIN s.text : /\ s.text[i].name = x
                                        /\ s.text[i].op = "func" \/ s.text[i].of = "func"
BindsMain(s) == s.form = "wrapped" \/ Binds(s, Main)
Takes(s)     == s.form = "bare" /\ \E x \in Builtins \cup {Param} : Binds(s, x)
KeepsMain   == \E n \in 1..(Line - 1) : BindsMain(said[n])
Spawns(s)   == \E i \in DOMAIN s.text : s.text[i].of = "thread"
TakesName   == \E n \in 1..(Line - 1) : Takes(said[n])
KeepsThread == \E n \in 1..Line : Spawns(said[n])
MainSpawns  == \E n \in 1..Line : Spawns(said[n]) /\ said[n].form = "wrapped"
ForeignBase == \E n \in 1..Line : \E i \in DOMAIN said[n].text :
                 /\ said[n].text[i].op = "class"
                 /\ said[n].text[i].of \notin ClassesIn(said[n].text) \cup {None}
ForeignArgument == \E n \in 1..Line : \E i \in DOMAIN said[n].text :
                     /\ said[n].text[i].op = "pass"
                     /\ said[n].text[i].of \notin Known(said[n].text, i, said[n].form)

ForeignOperand == \E n \in 1..Line : \E i \in DOMAIN said[n].text :
                    /\ said[n].text[i].op = "own"
                    /\ said[n].text[i].name \notin Known(said[n].text, i, said[n].form) \cup Builtins

\* A deleted tree (main.cpp:240) is read by these lines only for these causes: where
\* no line has left a main, a thread or a function by a name of that kind, a line that
\* names nothing of the others is safe.
BrokenHasCause ==
  /\ broken = "main"   => KeepsMain
  /\ broken = "thread" => KeepsThread
  /\ broken = "class"  => ForeignBase \/ ForeignArgument \/ ForeignOperand
  /\ broken = "call"   => ForeignArgument \/ ForeignOperand \/ TakesName
  /\ broken = "abort"  => MainSpawns

\* Some classes of the line have each one of them for its base.
Circular(l) == \E C \in SUBSET ClassesIn(l) :
                 /\ C # {}
                 /\ \A i \in DOMAIN l : l[i].op = "class" /\ l[i].name \in C => l[i].of \in C

\* When the threads come to their ends the prompt always returns: each line is run to
\* its end or to its error, whatever it binds over, but for one that constructs a class
\* whose bases go round (interpreter.cpp:536-541).
PromptReturns ==
  <>[](running = {}) =>
    []<>(pc = "prompt" \/ broken # "no") \/ <>[](pc = "climb" /\ Circular(Text))

\* README.md:46 says of the REPL that "state persists across lines": what a line has
\* defined is there, and whole, when a later line makes use of it.
DefinitionsStay == broken = "no"

\* The same of names: a line that uses what is bound is accepted.
NamesStay ==
  pc = "prompt" => \A l \in Lines :
    (\A i \in DOMAIN l : l[i].op = "use" => globals[l[i].name] # Unbound) =>
      Accepts(l, "bare") \/ Accepts(l, "wrapped")
=============================================================================
