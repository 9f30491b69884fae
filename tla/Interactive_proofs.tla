------------------------- MODULE Interactive_proofs --------------------------
(***************************************************************************)
(* The two programs somebody sits in front of.                             *)
(*                                                                         *)
(* The REPL, for sessions of any length and lines of any form: a tree that *)
(* was deleted is read in no other way than those that BrokenHasCause      *)
(* lists.                                                                  *)
(*                                                                         *)
(* The editor, for any documents and imports and any number of checks at   *)
(* once: the result that stays is that of the files as they are, but for   *)
(* the causes that StaleHasCause lists.                                    *)
(***************************************************************************)
EXTENDS Repl, Diagnostics, FiniteSetTheorems, TLAPS

-----------------------------------------------------------------------------
(***************************************************************************)
(* The REPL.                                                               *)
(***************************************************************************)
Kinds  == {"unbound", "data", "func", "class", "thread"}
Values == [kind : Kinds, line : Nat, base : Names \cup {None}]
Places == {"prompt", "register", "exec", "climb", "init", "main", "leave"}
Forms  == {"bare", "wrapped"}

TypeOK ==
  /\ said \in Seq([text : Lines, form : Forms])
  /\ pc \in Places
  /\ at \in Nat \ {0}
  /\ globals \in [Names -> Values]
  /\ locals \in [Names -> Values]
  /\ classes \in [Names -> Values]
  /\ class \in Values
  /\ arg \in Values

\* There is a line at work, and it was accepted.
LineInv ==
  /\ pc # "prompt" => Line >= 1
  /\ \A n \in 1..Line : Accepts(said[n].text, said[n].form)
  /\ pc = "register" \/ (pc = "main" /\ ~Bare) => at = 1

\* Only the body of main has locals.
ScopeInv ==
  /\ pc = "prompt" \/ Bare => \A x \in Names : locals[x] = Unbound
  /\ \A x \in Names : locals[x] = Unbound \/ (locals[x].line = Line /\ locals[x].kind # "class")

\* A function for main was bound to it by the line it belongs to.
MainInv ==
  globals[Main].kind = "func" =>
    globals[Main].line \in 1..Line /\ BindsMain(said[globals[Main].line])

\* A builtin and what init calls for want of an argument are no class, and a function
\* only where its line has taken the name.
TakenInv == \A x \in Builtins \cup {Param} :
  /\ globals[x].kind # "class"
  /\ globals[x].kind = "func" =>
       globals[x].line \in 1..Line /\ Takes(said[globals[x].line])

ThreadInv == \A t \in running : t[1] \in 1..Line /\ Spawns(said[t[1]])

\* A value of the line at work; the base of a class of it is one too.
Ours(v) == /\ v.line = Line
           /\ v.base \in ClassesIn(Text) \cup {None} \/ ForeignBase

Working == pc \in {"exec", "climb", "init"}

\* What the analyser let a statement use is bound by the line itself.
KnownInv == Working => \A x \in Known(Text, at, said[Line].form) :
                         Bound(x) # Unbound /\ Ours(Bound(x))

ClassesInv == Working => \A x \in ClassesIn(Text) : Ours(classes[x])

\* Whom a construction may reach, which a statement began.
ClimbInv ==
  /\ pc \in {"climb", "init"} => at <= Len(Text) /\ Here.op \in {"use", "own", "pass"}
  /\ pc = "climb" => Ours(class) \/ ForeignBase \/ ForeignArgument \/ ForeignOperand
  /\ pc \in {"climb", "init"} => arg = Unbound \/ Ours(arg) \/ ForeignArgument

Inv == /\ TypeOK /\ LineInv /\ ScopeInv /\ MainInv /\ TakenInv /\ ThreadInv
       /\ KnownInv /\ ClassesInv /\ ClimbInv /\ BrokenHasCause

-----------------------------------------------------------------------------
\* While no line is accepted, what is said of the lines stays as it is.
LEMMA SameLines ==
  ASSUME UNCHANGED said
  PROVE  /\ Line' = Line /\ Text' = Text /\ Bare' = Bare
         /\ ForeignBase' <=> ForeignBase
         /\ ForeignArgument' <=> ForeignArgument
         /\ ForeignOperand' <=> ForeignOperand
         /\ TakesName' <=> TakesName
         /\ KeepsMain' <=> KeepsMain
         /\ KeepsThread' <=> KeepsThread
         /\ MainSpawns' <=> MainSpawns
BY DEF Line, Text, Bare, ForeignBase, ForeignArgument, ForeignOperand, TakesName,
       KeepsMain, KeepsThread, MainSpawns

\* The line at work is one of Lines, and statement i of it is a statement.
LEMMA TextIsLine ==
  ASSUME TypeOK, Line >= 1
  PROVE  /\ Line \in Nat /\ Line \in 1..Line /\ said[Line].form \in Forms
         /\ Text \in Lines /\ Text \in Seq(Statement)
         /\ \A i \in DOMAIN Text : Text[i] \in Statement
<1> DEFINE Entries == [text : Lines, form : Forms]
<1>1. said \in Seq(Entries)
  BY DEF TypeOK
<1>2. Line \in Nat /\ Line \in 1..Line /\ said[Line] \in Entries
  <2> HIDE DEF Entries
  <2> QED
    BY <1>1 DEF Line
<1>3. Text \in Seq(Statement)
  BY <1>2, LinesAssumption DEF Text
<1> QED
  BY <1>2, <1>3 DEF Text

LEMMA KnownAreNames ==
  ASSUME NEW l \in Seq(Statement), NEW i \in DOMAIN l, NEW form
  PROVE  Known(l, i, form) \subseteq Names
<1>1. \A j \in DOMAIN l : l[j] \in Statement
  OBVIOUS
<1>2. 1..(i - 1) \subseteq DOMAIN l
  OBVIOUS
<1> QED
  BY <1>1, <1>2 DEF Known, NamesIn, Statement

\* A statement that binds no name adds none to the known ones.
LEMMA KnownGrows ==
  ASSUME NEW l \in Seq(Statement), NEW i \in DOMAIN l, NEW form
  PROVE  Known(l, i + 1, form) \subseteq
           Known(l, i, form) \cup (IF l[i].op \in {"let", "func"} THEN {l[i].name} ELSE {})
BY DEF Known, NamesIn

LEMMA InitInv == Init => Inv
<1> SUFFICES ASSUME Init PROVE Inv
  OBVIOUS
<1>1. said = << >> /\ Line = 0
  BY DEF Init, Line
<1>2. Unbound \in Values /\ Native \in Values
  BY DEF Unbound, Native, Value, Values, Kinds
<1>3. TypeOK
  BY <1>1, <1>2 DEF Init, TypeOK, Places
<1>4. LineInv
  BY <1>1 DEF Init, LineInv
<1>5. ScopeInv
  BY NamesAssumption DEF Init, ScopeInv, Unbound, Value
<1>6. MainInv
  BY NamesAssumption DEF Init, MainInv, Unbound, Value
<1>8. TakenInv
  BY NamesAssumption DEF Init, TakenInv, Unbound, Native, Value
<1>7. ThreadInv /\ KnownInv /\ ClassesInv /\ ClimbInv /\ BrokenHasCause
  BY DEF Init, ThreadInv, KnownInv, ClassesInv, ClimbInv, BrokenHasCause, Working
<1> QED
  BY <1>3, <1>4, <1>5, <1>6, <1>7, <1>8 DEF Inv

LEMMA AcceptInv ==
  ASSUME Inv, broken = "no", NEW l \in Lines, Accept(l)
  PROVE  Inv'
<1> DEFINE new == [text |-> l, form |-> IF Accepts(l, "bare") THEN "bare" ELSE "wrapped"]
<1>1. /\ said \in Seq([text : Lines, form : Forms]) /\ new \in [text : Lines, form : Forms]
      /\ said' = Append(said, new)
  BY DEF Inv, TypeOK, Accept, Forms
<1>2. /\ said' \in Seq([text : Lines, form : Forms])
      /\ Line \in Nat /\ Line' = Line + 1 /\ said'[Line'] = new
      /\ \A n \in 1..Line : said'[n] = said[n]
  <2> HIDE DEF new
  <2> QED
    BY <1>1 DEF Line
<1>3. TypeOK'
  BY <1>2 DEF Inv, TypeOK, Accept, Places
<1>4. LineInv'
  <2>1. \A n \in 1..Line' : n \in 1..Line \/ n = Line'
    BY <1>2
  <2>2. Accepts(new.text, new.form)
    BY DEF Accept
  <2>3. \A n \in 1..Line : Accepts(said[n].text, said[n].form)
    BY DEF Inv, LineInv
  <2>4. ASSUME NEW n \in 1..Line' PROVE Accepts(said'[n].text, said'[n].form)
    BY <1>2, <2>1, <2>2, <2>3
  <2>5. \A n \in 1..Line' : Accepts(said'[n].text, said'[n].form)
    BY <2>4
  <2>6. Line' >= 1 /\ at' = 1
    BY <1>2 DEF Accept
  <2> QED
    BY <2>5, <2>6 DEF LineInv
<1>5. ScopeInv'
  BY DEF Inv, ScopeInv, Accept
<1>6. MainInv'
  <2>1. globals' = globals /\ 1..Line \subseteq 1..Line'
    BY <1>2 DEF Accept
  <2>2. CASE globals[Main].kind = "func"
    <3>1. globals[Main].line \in 1..Line /\ BindsMain(said[globals[Main].line])
      BY <2>2 DEF Inv, MainInv
    <3> QED
      BY <1>2, <2>1, <3>1 DEF MainInv
  <2> QED
    BY <2>1, <2>2 DEF MainInv
<1>10. TakenInv'
  <2>1. globals' = globals /\ 1..Line \subseteq 1..Line'
    BY <1>2 DEF Accept
  <2>2. ASSUME NEW x \in Builtins \cup {Param}
        PROVE  /\ globals[x].kind # "class"
               /\ globals[x].kind = "func" =>
                    globals[x].line \in 1..Line' /\ Takes(said'[globals[x].line])
    <3>1. /\ globals[x].kind # "class"
          /\ globals[x].kind = "func" =>
               globals[x].line \in 1..Line /\ Takes(said[globals[x].line])
      BY DEF Inv, TakenInv
    <3> QED
      BY <1>2, <2>1, <3>1
  <2> QED
    BY <2>1, <2>2 DEF TakenInv
<1>7. ThreadInv'
  <2>1. running' = running /\ 1..Line \subseteq 1..Line'
    BY <1>2 DEF Accept
  <2>2. ASSUME NEW t \in running PROVE t[1] \in 1..Line' /\ Spawns(said'[t[1]])
    <3>1. t[1] \in 1..Line /\ Spawns(said[t[1]])
      BY DEF Inv, ThreadInv
    <3> QED
      BY <1>2, <2>1, <3>1
  <2> QED
    BY <2>1, <2>2 DEF ThreadInv
<1>8. (KnownInv /\ ClassesInv /\ ClimbInv)'
  BY DEF Accept, KnownInv, ClassesInv, ClimbInv, Working
<1>9. BrokenHasCause'
  BY DEF Accept, BrokenHasCause
<1> QED
  BY <1>3, <1>4, <1>5, <1>6, <1>7, <1>8, <1>9, <1>10 DEF Inv

LEMMA KeepNames ==
  ASSUME Inv, UNCHANGED <<said, globals, running>>
  PROVE  MainInv' /\ TakenInv' /\ ThreadInv'
BY SameLines DEF Inv, MainInv, TakenInv, ThreadInv

\* A step that binds nothing.
LEMMA KeepKnown ==
  ASSUME Inv, Working, UNCHANGED <<said, globals, locals, classes>>,
         \/ ~Working'
         \/ at' = at
         \/ at' = at + 1 /\ at <= Len(Text) /\ Here.op \notin {"let", "func"}
  PROVE  KnownInv' /\ ClassesInv'
<1>1. /\ Line' = Line /\ Text' = Text /\ ForeignBase' = ForeignBase
      /\ said'[Line'].form = said[Line].form
  BY DEF Line, Text, ForeignBase
<1>2. \A v : Ours(v)' <=> Ours(v)
  BY <1>1 DEF Ours
<1>3. \A x : Bound(x)' = Bound(x)
  BY DEF Bound
<1>4. ClassesInv'
  BY <1>1, <1>2 DEF Inv, ClassesInv
<1>5. CASE ~Working'
  BY <1>5, <1>4 DEF KnownInv
<1>6. CASE at' = at
  BY <1>1, <1>2, <1>3, <1>4, <1>6 DEF Inv, KnownInv
<1>7. CASE at' = at + 1 /\ at <= Len(Text) /\ Here.op \notin {"let", "func"}
  <2>1. Text \in Seq(Statement) /\ at \in DOMAIN Text
    BY TextIsLine, <1>7 DEF Inv, TypeOK, LineInv, Working
  <2>2. Known(Text', at', said'[Line'].form) \subseteq Known(Text, at, said[Line].form)
    BY <2>1, <1>1, <1>7, KnownGrows DEF Here
  <2> QED
    BY <1>2, <1>3, <1>4, <2>2 DEF Inv, KnownInv
<1> QED
  BY <1>5, <1>6, <1>7

LEMMA RegisterInv ==
  ASSUME Inv, broken = "no", Register
  PROVE  Inv'
<1>1. /\ Line \in Nat /\ Line >= 1 /\ Line \in 1..Line /\ Text \in Seq(Statement) /\ Text \in Lines
      /\ \A i \in DOMAIN Text : Text[i] \in Statement
      /\ said[Line].form \in Forms
  BY TextIsLine DEF Inv, LineInv, Register
<1>2. /\ Line' = Line /\ Text' = Text /\ (Bare' <=> Bare) /\ (ForeignBase' <=> ForeignBase)
      /\ said'[Line'].form = said[Line].form
  BY SameLines DEF Register
<1>3. ASSUME NEW x \in Names, Registers(x)
      PROVE  \E i \in DOMAIN Text : /\ Registrar(x) = Text[i] /\ Text[i].name = x
                                    /\ Text[i].op \in {"func", "class"}
  BY <1>3 DEF Registers, Registrar, Registered
<1>4. ASSUME NEW i \in DOMAIN Text, Text[i].op \in {"func", "class"}
      PROVE  /\ Text[i].name \in Names
             /\ Text[i].op = "class" => Text[i].name \notin Builtins \cup {Param}
             /\ Declares(Text[i]) \in Values
             /\ Declares(Text[i]) # Unbound
             /\ Ours(Declares(Text[i]))
  <2>1. /\ Text[i].name \in Names
        /\ Text[i].op = "class" => Text[i].name \notin Builtins \cup {Param}
        /\ Text[i].op = "class" => Text[i].of \in Names \cup {None}
    BY <1>1, <1>4, LinesAssumption DEF Statement
  <2>2. Text[i].op = "class" /\ Text[i].of \notin ClassesIn(Text) \cup {None} => ForeignBase
    BY <1>1 DEF ForeignBase, Text
  <2> QED
    BY <1>1, <1>4, <2>1, <2>2 DEF Declares, Ours, Value, Values, Kinds, Unbound
<1>5. \A x \in Names : Registers(x) => /\ Declares(Registrar(x)) \in Values
                                       /\ Declares(Registrar(x)) # Unbound
                                       /\ Ours(Declares(Registrar(x)))
  BY <1>3, <1>4
<1>6. Value("func", Line, None) \in Values /\ Value("func", Line, None) # Unbound
  BY <1>1 DEF Value, Values, Kinds, Unbound
<1>7. TypeOK'
  BY <1>5, <1>6 DEF Inv, TypeOK, Register, Places
<1>8. LineInv'
  BY <1>1, <1>2 DEF Inv, LineInv, Register
<1>9. ScopeInv'
  BY <1>2 DEF Inv, ScopeInv, Register
<1>10. MainInv'
  <2>1. CASE Registers(Main)
    <3>1. PICK i \in DOMAIN Text : /\ Registrar(Main) = Text[i] /\ Text[i].name = Main
                                   /\ Text[i].op \in {"func", "class"}
      BY <1>3, <2>1, NamesAssumption
    <3>2. globals'[Main] = Declares(Text[i])
      BY <2>1, <3>1, NamesAssumption DEF Register
    <3>3. CASE Text[i].op = "func"
      <4>1. globals'[Main].line = Line
        BY <3>2, <3>3 DEF Declares, Value
      <4>2. BindsMain(said[Line])
        BY <3>1, <3>3 DEF BindsMain, Binds, Text
      <4> QED
        BY <1>1, <1>2, <4>1, <4>2 DEF MainInv, Register
    <3>4. CASE Text[i].op = "class"
      BY <3>2, <3>4 DEF MainInv, Declares, Value
    <3> QED
      BY <3>1, <3>3, <3>4
  <2>2. CASE ~Registers(Main) /\ ~Bare
    BY <1>1, <1>2, <2>2, NamesAssumption DEF MainInv, Register, Value, BindsMain, Bare, Forms
  <2>3. CASE ~Registers(Main) /\ Bare
    BY <1>2, <2>3, NamesAssumption DEF Inv, MainInv, Register
  <2> QED
    BY <2>1, <2>2, <2>3
<1>15. TakenInv'
  <2>1. ASSUME NEW x \in Builtins \cup {Param}
        PROVE  /\ globals'[x].kind # "class"
               /\ globals'[x].kind = "func" =>
                    globals'[x].line \in 1..Line /\ Takes(said[globals'[x].line])
    <3>1. x \in Names /\ x # Main
      BY NamesAssumption
    <3>2. CASE Registers(x)
      <4>1. PICK i \in DOMAIN Text : /\ Registrar(x) = Text[i] /\ Text[i].name = x
                                     /\ Text[i].op \in {"func", "class"}
        BY <1>3, <3>1, <3>2
      <4>2. Text[i].op = "func"
        BY <1>4, <4>1
      <4>3. globals'[x] = Value("func", Line, None)
        BY <3>1, <3>2, <4>1, <4>2 DEF Register, Declares
      <4>4. Bare
        BY <3>2 DEF Registers, Registered
      <4>5. Takes(said[Line])
        BY <4>1, <4>2, <4>4 DEF Takes, Binds, Text, Bare
      <4> QED
        BY <1>1, <4>3, <4>5 DEF Value
    <3>3. CASE ~Registers(x)
      <4>1. globals'[x] = globals[x]
        BY <3>1, <3>3 DEF Register
      <4> QED
        BY <4>1 DEF Inv, TakenInv
    <3> QED
      BY <3>2, <3>3
  <2>2. said' = said
    BY DEF Register
  <2> QED
    BY <1>2, <2>1, <2>2 DEF TakenInv
<1>11. ThreadInv'
  BY <1>2 DEF Inv, ThreadInv, Register
<1>12. \A v : Ours(v)' <=> Ours(v)
  BY <1>2 DEF Ours
<1>13. KnownInv' /\ ClassesInv'
  <2>1. CASE ~Bare
    BY <1>2, <2>1 DEF Register, KnownInv, ClassesInv, Working
  <2>2. CASE Bare
    <3>1. at = 1 /\ at' = at
      BY DEF Inv, LineInv, Register
    <3>2. ASSUME NEW x, x \in NamesIn(Text, DOMAIN Text, {"func", "class"})
          PROVE  x \in Names /\ Registers(x)
      <4>1. PICK i \in DOMAIN Text : Text[i].op \in {"func", "class"} /\ Text[i].name = x
        BY <3>2 DEF NamesIn
      <4> QED
        BY <2>2, <4>1, <1>4 DEF Registers, Registered
    <3>3. Known(Text, at, said[Line].form) = NamesIn(Text, DOMAIN Text, {"func", "class"})
      BY <2>2, <3>1 DEF Known, NamesIn, Bare
    <3>4. ASSUME NEW x \in Names, Registers(x)
          PROVE  Bound(x)' = Declares(Registrar(x))
      BY <2>2, <3>4 DEF Register, Bound, Inv, ScopeInv
    <3>5. KnownInv'
      BY <1>2, <1>5, <1>12, <3>1, <3>2, <3>3, <3>4 DEF KnownInv, Unbound
    <3>6. ASSUME NEW x \in ClassesIn(Text) PROVE Ours(classes'[x])
      <4>1. PICK i \in DOMAIN Text : Text[i].op = "class" /\ Text[i].name = x
        BY DEF ClassesIn, NamesIn
      <4>2. x \in Names /\ Registers(x)
        BY <3>2, <4>1 DEF NamesIn
      <4>3. PICK j \in DOMAIN Text : /\ Registrar(x) = Text[j] /\ Text[j].name = x
                                     /\ Text[j].op \in {"func", "class"}
        BY <1>3, <4>2
      <4>4. i = j
        BY <1>1, <4>1, <4>3, LinesAssumption
      <4> QED
        BY <1>5, <4>1, <4>2, <4>3, <4>4 DEF Register
    <3> QED
      BY <1>2, <1>12, <3>5, <3>6 DEF ClassesInv
  <2> QED
    BY <2>1, <2>2
<1>14. ClimbInv' /\ BrokenHasCause'
  BY DEF Register, ClimbInv, BrokenHasCause
<1> QED
  BY <1>7, <1>8, <1>9, <1>10, <1>11, <1>13, <1>14, <1>15 DEF Inv

\* What a statement of the line at work is.
LEMMA HereIsStatement ==
  ASSUME Inv, pc # "prompt", at <= Len(Text)
  PROVE  /\ Line \in Nat /\ Line >= 1 /\ Line \in 1..Line
         /\ Text \in Seq(Statement) /\ Text \in Lines
         /\ at \in DOMAIN Text /\ Here = Text[at] /\ Here \in Statement
         /\ said[Line].form \in Forms
<1>1. /\ Line \in Nat /\ Line >= 1 /\ Line \in 1..Line /\ said[Line].form \in Forms
      /\ Text \in Seq(Statement) /\ Text \in Lines
      /\ \A i \in DOMAIN Text : Text[i] \in Statement
  BY TextIsLine DEF Inv, LineInv
<1>2. at \in DOMAIN Text
  BY <1>1 DEF Inv, TypeOK
<1> QED
  BY <1>1, <1>2 DEF Here

LEMMA LetInv ==
  ASSUME Inv, broken = "no", Let
  PROVE  Inv'
<1> DEFINE new == Value(Here.of, Line, None)
<1>1. /\ Line \in Nat /\ Line >= 1 /\ Line \in 1..Line /\ Text \in Seq(Statement) /\ Text \in Lines
      /\ at \in DOMAIN Text /\ Here = Text[at] /\ Here \in Statement
      /\ Here.name \in Names /\ Here.of \in What /\ Here.op = "let"
      /\ said[Line].form \in Forms
  <2>1. Here.op = "let" /\ pc = "exec" /\ at <= Len(Text)
    BY DEF Let, Executing
  <2> QED
    BY <2>1, HereIsStatement, LinesAssumption DEF Statement
<1>2. /\ Line' = Line /\ Text' = Text /\ (Bare' <=> Bare) /\ (ForeignBase' <=> ForeignBase)
      /\ said'[Line'].form = said[Line].form
  BY SameLines DEF Let
<1>3. /\ new \in Values /\ new # Unbound /\ new.kind = Here.of /\ new.line = Line /\ Ours(new)
      /\ new.kind # "class"
  BY <1>1 DEF Value, Values, Kinds, What, Unbound, Ours
<1>4. \A v : Ours(v)' <=> Ours(v)
  BY <1>2 DEF Ours
<1>6. /\ pc = "exec" /\ pc' = "exec" /\ at' = at + 1
      /\ IF Bare THEN globals' = [globals EXCEPT ![Here.name] = new] /\ locals' = locals
         ELSE locals' = [locals EXCEPT ![Here.name] = new] /\ globals' = globals
      /\ UNCHANGED <<said, classes, class, arg, broken>>
  BY DEF Let, Executing, Go
<1>7. globals \in [Names -> Values] /\ locals \in [Names -> Values]
  BY DEF Inv, TypeOK
<1> HIDE DEF new
<1>8. TypeOK'
  BY <1>3, <1>6, <1>1 DEF Inv, TypeOK, Places
<1>9. LineInv'
  BY <1>1, <1>2, <1>6 DEF Inv, LineInv
<1>10. ScopeInv'
  <2>1. CASE Bare
    BY <1>2, <1>6, <2>1 DEF Inv, ScopeInv
  <2>2. CASE ~Bare
    BY <1>1, <1>2, <1>3, <1>6, <1>7, <2>2 DEF Inv, ScopeInv
  <2> QED
    BY <2>1, <2>2
<1>11. MainInv'
  <2>1. CASE Bare /\ Here.name = Main /\ Here.of = "func"
    <3>1. BindsMain(said[Line])
      BY <1>1, <2>1 DEF BindsMain, Binds, Text
    <3> QED
      BY <1>1, <1>2, <1>3, <1>6, <1>7, <2>1, <3>1 DEF MainInv
  <2>2. CASE Bare /\ Here.name = Main /\ Here.of # "func"
    BY <1>1, <1>3, <1>6, <1>7, <2>2 DEF MainInv
  <2>3. CASE ~Bare \/ Here.name # Main
    <3>1. globals'[Main] = globals[Main]
      BY <1>6, <1>7, <2>3, NamesAssumption
    <3> QED
      BY <1>2, <1>6, <3>1 DEF Inv, MainInv
  <2> QED
    BY <2>1, <2>2, <2>3
<1>16. TakenInv'
  <2>1. ASSUME NEW x \in Builtins \cup {Param}
        PROVE  /\ globals'[x].kind # "class"
               /\ globals'[x].kind = "func" =>
                    globals'[x].line \in 1..Line /\ Takes(said[globals'[x].line])
    <3>1. CASE Bare /\ x = Here.name
      <4>1. globals'[x] = new
        BY <1>1, <1>6, <1>7, <3>1
      <4>2. new.kind = "func" => Takes(said[Line])
        BY <1>1, <1>3, <3>1 DEF Takes, Binds, Text, Bare
      <4> QED
        BY <1>1, <1>3, <4>1, <4>2
    <3>2. CASE ~Bare \/ x # Here.name
      <4>1. globals'[x] = globals[x]
        BY <1>6, <1>7, <3>2, NamesAssumption
      <4> QED
        BY <4>1 DEF Inv, TakenInv
    <3> QED
      BY <3>1, <3>2
  <2> QED
    BY <1>2, <1>6, <2>1 DEF TakenInv
<1>12. ThreadInv'
  <2>1. Here.of = "thread" => Spawns(said[Line])
    BY <1>1 DEF Spawns, Text
  <2> QED
    BY <1>1, <1>2, <1>6, <2>1 DEF Inv, ThreadInv, Let
<1>13. KnownInv'
  <2>1. Known(Text', at', said'[Line'].form) \subseteq Known(Text, at, said[Line].form) \cup {Here.name}
    BY <1>1, <1>2, <1>6, KnownGrows
  <2>2. ASSUME NEW x, x = Here.name PROVE Bound(x)' = new
    <3>1. CASE Bare
      <4>1. locals'[x] = Unbound /\ globals'[x] = new
        BY <1>1, <1>6, <1>7, <2>2, <3>1 DEF Inv, ScopeInv
      <4> QED
        BY <4>1 DEF Bound, Unbound
    <3>2. CASE ~Bare
      BY <1>1, <1>3, <1>6, <1>7, <2>2, <3>2 DEF Bound, Unbound
    <3> QED
      BY <3>1, <3>2
  <2>3. ASSUME NEW x \in Names, x # Here.name PROVE Bound(x)' = Bound(x)
    <3>1. locals'[x] = locals[x] /\ globals'[x] = globals[x]
      BY <1>6, <1>7, <2>3
    <3> QED
      BY <3>1 DEF Bound, Unbound
  <2>4. \A x \in Known(Text, at, said[Line].form) : Bound(x) # Unbound /\ Ours(Bound(x))
    BY <1>6 DEF Inv, KnownInv, Working
  <2>5. ASSUME NEW x \in Known(Text', at', said'[Line'].form)
        PROVE  Bound(x)' # Unbound /\ Ours(Bound(x))'
    <3>1. CASE x = Here.name
      BY <1>3, <1>4, <2>2, <3>1
    <3>2. CASE x # Here.name
      <4>1. x \in Known(Text, at, said[Line].form)
        BY <2>1, <3>2
      <4>2. x \in Names
        BY <1>1, <4>1, KnownAreNames
      <4> QED
        BY <1>4, <2>3, <2>4, <3>2, <4>1, <4>2
    <3> QED
      BY <3>1, <3>2
  <2> QED
    BY <2>5 DEF KnownInv, Unbound
<1>14. ClassesInv'
  BY <1>2, <1>4, <1>6 DEF Inv, ClassesInv, Working
<1>15. ClimbInv' /\ BrokenHasCause'
  BY <1>6 DEF ClimbInv, BrokenHasCause
<1> QED
  BY <1>8, <1>9, <1>10, <1>11, <1>12, <1>13, <1>14, <1>15, <1>16 DEF Inv

LEMMA DeclareInv ==
  ASSUME Inv, broken = "no", Declare
  PROVE  Inv'
<1> DEFINE new == Value("func", Line, None)
<1>1. /\ Line \in Nat /\ Line >= 1 /\ Line \in 1..Line /\ Text \in Seq(Statement) /\ Text \in Lines
      /\ at \in DOMAIN Text /\ Here = Text[at] /\ Here \in Statement /\ Here.name \in Names
      /\ said[Line].form \in Forms /\ Here.op \in {"func", "class"}
  <2>1. Here.op \in {"func", "class"} /\ pc = "exec" /\ at <= Len(Text)
    BY DEF Declare, Executing
  <2> QED
    BY <2>1, HereIsStatement DEF Statement
<1>2. /\ Line' = Line /\ Text' = Text /\ (Bare' <=> Bare) /\ (ForeignBase' <=> ForeignBase)
      /\ said'[Line'].form = said[Line].form
  BY SameLines DEF Declare
<1>3. new \in Values /\ new # Unbound /\ new.kind = "func" /\ new.line = Line /\ Ours(new)
  BY <1>1 DEF Value, Values, Kinds, Unbound, Ours
<1>4. \A v : Ours(v)' <=> Ours(v)
  BY <1>2 DEF Ours
<1>6. /\ pc = "exec" /\ pc' = "exec" /\ at' = at + 1
      /\ locals' = IF Bare THEN locals ELSE [locals EXCEPT ![Here.name] = new]
      /\ UNCHANGED <<said, globals, classes, class, arg, running, broken>>
  BY DEF Declare, Executing, Go
<1>7. locals \in [Names -> Values]
  BY DEF Inv, TypeOK
<1> HIDE DEF new
<1>8. TypeOK'
  BY <1>3, <1>6, <1>1 DEF Inv, TypeOK, Places
<1>9. LineInv'
  BY <1>1, <1>2, <1>6 DEF Inv, LineInv
<1>10. ScopeInv'
  BY <1>2, <1>3, <1>6, <1>7 DEF Inv, ScopeInv
<1>11. MainInv' /\ TakenInv' /\ ThreadInv'
  BY <1>6, KeepNames
<1>12. ASSUME NEW x \in Known(Text', at', said'[Line'].form)
       PROVE  Bound(x)' # Unbound /\ Ours(Bound(x))'
  <2>1. \A y \in Known(Text, at, said[Line].form) : Bound(y) # Unbound /\ Ours(Bound(y))
    BY <1>6 DEF Inv, KnownInv, Working
  <2>2. CASE Bare
    <3>1. Known(Text, at + 1, said[Line].form) \subseteq Known(Text, at, said[Line].form)
      BY <1>1, <2>2 DEF Known, NamesIn, Bare
    <3>2. Bound(x)' = Bound(x)
      BY <1>6, <2>2 DEF Bound
    <3> QED
      BY <1>2, <1>4, <1>6, <2>1, <3>1, <3>2
  <2>3. CASE ~Bare /\ x = Here.name
    <3>1. Bound(x)' = new
      BY <1>1, <1>3, <1>6, <1>7, <2>3 DEF Bound, Unbound
    <3> QED
      BY <1>3, <1>4, <3>1
  <2>4. CASE ~Bare /\ x # Here.name
    <3>1. x \in Known(Text, at, said[Line].form)
      BY <1>1, <1>2, <1>6, <2>4, KnownGrows
    <3>2. Bound(x)' = Bound(x)
      BY <1>6, <1>7, <2>4 DEF Bound
    <3> QED
      BY <1>4, <2>1, <3>1, <3>2
  <2> QED
    BY <2>2, <2>3, <2>4
<1>13. KnownInv'
  BY <1>12 DEF KnownInv, Unbound
<1>14. ClassesInv'
  BY <1>2, <1>4, <1>6 DEF Inv, ClassesInv, Working
<1>15. ClimbInv' /\ BrokenHasCause'
  BY <1>6 DEF ClimbInv, BrokenHasCause
<1> QED
  BY <1>8, <1>9, <1>10, <1>11, <1>13, <1>14, <1>15 DEF Inv

LEMMA UseInv ==
  ASSUME Inv, broken = "no", Use
  PROVE  Inv'
<1> DEFINE v == Bound(Here.name)
<1>1. /\ Line \in Nat /\ Line >= 1 /\ Line \in 1..Line /\ Text \in Seq(Statement) /\ Text \in Lines
      /\ at \in DOMAIN Text /\ Here = Text[at] /\ Here \in Statement /\ Here.name \in Names
      /\ said[Line].form \in Forms /\ Here.op \in {"use", "own"} /\ pc = "exec" /\ at <= Len(Text)
  <2>1. Here.op \in {"use", "own"} /\ pc = "exec" /\ at <= Len(Text)
    BY DEF Use, Executing
  <2> QED
    BY <2>1, HereIsStatement DEF Statement
<1>2. v \in Values
  BY <1>1 DEF Inv, TypeOK, Bound
<1>3. /\ v.kind = "class" => Ours(v) \/ ForeignOperand
      /\ v.kind = "func" => v.line = Line \/ ForeignOperand \/ TakesName
  <2>1. \/ Here.name \in Known(Text, at, said[Line].form)
        \/ Here.name \in Builtins
        \/ Here.op = "own" /\ Here.name \notin Known(Text, at, said[Line].form) \cup Builtins
    BY <1>1 DEF Inv, LineInv, Accepts, Text
  <2>2. CASE Here.name \in Known(Text, at, said[Line].form)
    BY <1>1, <2>2 DEF Inv, KnownInv, Working, Ours
  <2>3. CASE Here.name \in Builtins
    <3>1. CASE locals[Here.name] = Unbound
      <4>1. v = globals[Here.name]
        BY <3>1 DEF Bound
      <4>2. /\ v.kind # "class"
            /\ v.kind = "func" => v.line \in 1..Line /\ Takes(said[v.line])
        BY <2>3, <4>1 DEF Inv, TakenInv
      <4>3. v.kind = "func" /\ v.line # Line => TakesName
        <5>1. ASSUME v.kind = "func", v.line # Line PROVE v.line \in 1..(Line - 1)
          BY <1>1, <4>2, <5>1
        <5> QED
          BY <4>2, <5>1 DEF TakesName
      <4> QED
        BY <4>2, <4>3
    <3>2. CASE locals[Here.name] # Unbound
      BY <1>1, <3>2 DEF Inv, ScopeInv, Bound
    <3> QED
      BY <3>1, <3>2
  <2>4. CASE Here.op = "own" /\ Here.name \notin Known(Text, at, said[Line].form) \cup Builtins
    BY <1>1, <2>4 DEF ForeignOperand, Text
  <2> QED
    BY <2>1, <2>2, <2>3, <2>4
<1>4. UNCHANGED <<said, globals, locals, classes, running>>
  BY DEF Use
<1>5. \/ /\ class' = v /\ v.kind = "class" /\ arg' = Unbound /\ pc' = "climb" /\ at' = at
         /\ broken' = "no"
      \/ /\ UNCHANGED <<pc, class, arg>> /\ at' = at + 1
         /\ broken' = IF v.kind = "func" /\ Dead(v.line) THEN "call" ELSE "no"
      \/ pc' = "leave" /\ UNCHANGED <<at, class, arg>> /\ broken' = "no"
  BY DEF Use, Go, Fails
<1> HIDE DEF v
<1>6. BrokenHasCause'
  <2>1. CASE v.kind = "func" /\ Dead(v.line)
    <3>1. ForeignOperand \/ TakesName
      BY <1>1, <1>3, <2>1 DEF Dead
    <3>2. (ForeignOperand \/ TakesName)'
      BY <1>4, <3>1, SameLines
    <3>3. broken' \in {"no", "call"}
      BY <1>5
    <3> QED
      BY <3>2, <3>3 DEF BrokenHasCause
  <2>2. CASE ~(v.kind = "func" /\ Dead(v.line))
    <3>1. broken' = "no"
      BY <1>5, <2>2
    <3> QED
      BY <3>1 DEF BrokenHasCause
  <2> QED
    BY <2>1, <2>2
<1>7. TypeOK'
  BY <1>1, <1>2, <1>4, <1>5 DEF Inv, TypeOK, Places, Unbound, Value, Values, Kinds
<1>8. LineInv' /\ ScopeInv'
  BY <1>1, <1>4, <1>5, SameLines DEF Inv, LineInv, ScopeInv, Bare, Line
<1>9. MainInv' /\ TakenInv' /\ ThreadInv'
  BY <1>4, KeepNames
<1>10. KnownInv' /\ ClassesInv'
  BY <1>1, <1>4, <1>5, KeepKnown DEF Working
<1>11. ClimbInv'
  <2>1. (ForeignOperand' <=> ForeignOperand) /\ \A w : Ours(w)' <=> Ours(w)
    BY <1>4, SameLines DEF Ours
  <2>2. CASE class' = v /\ v.kind = "class" /\ arg' = Unbound /\ pc' = "climb" /\ at' = at
    <3>1. (Ours(class) \/ ForeignOperand)' /\ (arg = Unbound)'
      BY <1>3, <2>1, <2>2 DEF Unbound
    <3>2. (at <= Len(Text) /\ Here.op \in {"use", "own", "pass"})'
      BY <1>1, <1>4, <2>2 DEF Here, Text, Line
    <3> QED
      BY <3>1, <3>2 DEF ClimbInv
  <2>3. CASE pc' \in {"exec", "leave"}
    BY <2>3 DEF ClimbInv
  <2> QED
    BY <1>1, <1>5, <2>2, <2>3
<1> QED
  BY <1>6, <1>7, <1>8, <1>9, <1>10, <1>11 DEF Inv

\* A step that leaves the session as it is but for the construction under way.
LEMMA KeepLine ==
  ASSUME Inv, pc # "prompt", pc' # "prompt", pc' # "register", pc' # "main",
         UNCHANGED <<said, globals, locals, classes, running>>
  PROVE  LineInv' /\ ScopeInv' /\ MainInv' /\ TakenInv' /\ ThreadInv'
<1>1. LineInv'
  BY SameLines DEF Inv, LineInv
<1>2. ScopeInv'
  BY SameLines DEF Inv, ScopeInv
<1> QED
  BY <1>1, <1>2, KeepNames

LEMMA PassInv ==
  ASSUME Inv, broken = "no", Pass
  PROVE  Inv'
<1>1. /\ Line \in Nat /\ Line >= 1 /\ Line \in 1..Line /\ Text \in Seq(Statement) /\ Text \in Lines
      /\ at \in DOMAIN Text /\ Here = Text[at] /\ Here \in Statement /\ Here.name \in Names
      /\ said[Line].form \in Forms /\ Here.op = "pass" /\ pc = "exec" /\ at <= Len(Text)
      /\ Here.of \in Names /\ Here.name \in ClassesIn(Text)
  <2>1. Here.op = "pass" /\ pc = "exec" /\ at <= Len(Text)
    BY DEF Pass, Executing
  <2>2. /\ Here.of \in Names
        /\ \E j \in DOMAIN Text : Text[j].op = "class" /\ Text[j].name = Here.name
    BY <2>1, HereIsStatement, LinesAssumption
  <2> QED
    BY <2>1, <2>2, HereIsStatement DEF Statement, ClassesIn, NamesIn
<1>2. Ours(Bound(Here.name))
  <2>1. said[Line].form = "bare"
    BY <1>1 DEF Inv, LineInv, Accepts, Text
  <2>2. Here.name \in Known(Text, at, said[Line].form)
    BY <1>1, <2>1 DEF Known, ClassesIn, NamesIn
  <2> QED
    BY <1>1, <2>2 DEF Inv, KnownInv, Working
<1>3. Ours(Bound(Here.of)) \/ ForeignArgument
  <2>1. CASE Here.of \in Known(Text, at, said[Line].form)
    BY <1>1, <2>1 DEF Inv, KnownInv, Working
  <2>2. CASE Here.of \notin Known(Text, at, said[Line].form)
    BY <1>1, <2>2 DEF ForeignArgument, Text
  <2> QED
    BY <2>1, <2>2
<1>4. UNCHANGED <<said, at, globals, locals, classes, running, broken>>
  BY DEF Pass, Fails
<1>5. \/ pc' = "leave" /\ UNCHANGED <<class, arg>>
      \/ class' = Bound(Here.name) /\ arg' = Bound(Here.of) /\ pc' = "climb"
  BY DEF Pass, Fails
<1>6. TypeOK'
  BY <1>1, <1>4, <1>5 DEF Inv, TypeOK, Places, Bound
<1>7. LineInv' /\ ScopeInv' /\ MainInv' /\ TakenInv' /\ ThreadInv'
  BY <1>1, <1>4, <1>5, KeepLine
<1>8. KnownInv' /\ ClassesInv'
  BY <1>1, <1>4, KeepKnown DEF Working
<1>9. ClimbInv'
  <2>1. (ForeignArgument' <=> ForeignArgument) /\ \A w : Ours(w)' <=> Ours(w)
    BY <1>4, SameLines DEF Ours
  <2>2. (at <= Len(Text) /\ Here.op \in {"use", "own", "pass"})'
    BY <1>1, <1>4 DEF Here, Text, Line
  <2>3. CASE pc' = "leave"
    BY <2>3 DEF ClimbInv
  <2>4. CASE class' = Bound(Here.name) /\ arg' = Bound(Here.of)
    <3>1. Ours(class)' /\ (Ours(arg) \/ ForeignArgument)'
      BY <1>2, <1>3, <2>1, <2>4
    <3> QED
      BY <2>2, <3>1 DEF ClimbInv
  <2> QED
    BY <1>5, <2>3, <2>4
<1> QED
  BY <1>4, <1>6, <1>7, <1>8, <1>9 DEF Inv, BrokenHasCause

LEMMA FailInv ==
  ASSUME Inv, broken = "no", Fail
  PROVE  Inv'
<1>1. /\ pc = "exec" /\ pc' = "leave"
      /\ UNCHANGED <<said, at, globals, locals, classes, class, arg, running, broken>>
  BY DEF Fail, Fails, Executing
<1>2. TypeOK'
  BY <1>1 DEF Inv, TypeOK, Places
<1>3. LineInv' /\ ScopeInv' /\ MainInv' /\ TakenInv' /\ ThreadInv'
  BY <1>1, KeepLine
<1>4. KnownInv' /\ ClassesInv'
  BY <1>1, KeepKnown DEF Working
<1>5. ClimbInv' /\ BrokenHasCause'
  BY <1>1 DEF ClimbInv, BrokenHasCause
<1> QED
  BY <1>2, <1>3, <1>4, <1>5 DEF Inv

LEMMA ClimbInvKept ==
  ASSUME Inv, broken = "no", Climb
  PROVE  Inv'
<1>1. /\ pc = "climb" /\ pc' \in {"climb", "init"}
      /\ UNCHANGED <<said, at, globals, locals, classes, arg, running>>
  BY DEF Climb
<1>2. TypeOK'
  BY <1>1 DEF Inv, TypeOK, Places, Climb, Values
<1>3. LineInv' /\ ScopeInv' /\ MainInv' /\ TakenInv' /\ ThreadInv'
  BY <1>1, KeepLine
<1>4. KnownInv' /\ ClassesInv'
  BY <1>1, KeepKnown DEF Working
<1>5. /\ (ForeignArgument' <=> ForeignArgument) /\ (ForeignBase' <=> ForeignBase)
      /\ (ForeignOperand' <=> ForeignOperand)
      /\ \A w : Ours(w)' <=> Ours(w)
  BY <1>1, SameLines DEF Ours
<1>6. (at <= Len(Text) /\ Here.op \in {"use", "own", "pass"})'
  BY <1>1 DEF Inv, ClimbInv, Here, Text, Line
<1>7. pc' = "climb" => (Ours(class) \/ ForeignBase \/ ForeignArgument \/ ForeignOperand)'
  <2>1. CASE Ours(class) /\ class.base # None /\ class' = classes[class.base]
    <3>1. class.base \in ClassesIn(Text) \/ ForeignBase
      BY <2>1 DEF Ours
    <3>2. Ours(class') \/ ForeignBase
      BY <1>1, <2>1, <3>1 DEF Inv, ClassesInv, Working
    <3> QED
      BY <1>5, <3>2
  <2>2. CASE class' = class
    BY <1>1, <1>5, <2>2 DEF Inv, ClimbInv
  <2>3. CASE ~Ours(class)
    BY <1>1, <1>5, <2>3 DEF Inv, ClimbInv
  <2> QED
    BY <2>1, <2>2, <2>3 DEF Climb
<1>8. ClimbInv'
  <2>1. (arg = Unbound \/ Ours(arg) \/ ForeignArgument)'
    BY <1>1, <1>5 DEF Inv, ClimbInv, Unbound
  <2> QED
    BY <1>6, <1>7, <2>1 DEF ClimbInv
<1>9. BrokenHasCause'
  <2>1. CASE Dead(class.line)
    <3>1. ForeignBase \/ ForeignArgument \/ ForeignOperand
      BY <1>1, <2>1 DEF Inv, ClimbInv, Ours, Dead
    <3> QED
      BY <1>5, <2>1, <3>1 DEF Climb, BrokenHasCause
  <2>2. CASE ~Dead(class.line)
    BY <2>2 DEF Climb, BrokenHasCause
  <2> QED
    BY <2>1, <2>2
<1> QED
  BY <1>2, <1>3, <1>4, <1>8, <1>9 DEF Inv

LEMMA CallInitInv ==
  ASSUME Inv, broken = "no", CallInit
  PROVE  Inv'
<1>1. pc = "init" /\ UNCHANGED <<said, globals, locals, classes, running>>
  BY DEF CallInit
<1>2. at <= Len(Text) /\ Here.op \in {"use", "own", "pass"}
  BY <1>1 DEF Inv, ClimbInv
<1>3. \/ /\ Callee.kind = "func" /\ pc' = "exec" /\ at' = at + 1 /\ UNCHANGED <<class, arg>>
         /\ broken' = IF Dead(Callee.line) THEN "call" ELSE "no"
      \/ class' = Callee /\ arg' = Unbound /\ pc' = "climb" /\ UNCHANGED <<at, broken>>
         /\ Callee.kind = "class"
      \/ pc' = "leave" /\ UNCHANGED <<at, class, arg, broken>>
  BY DEF CallInit, Fails
<1>4. /\ Unbound \in Values /\ Unbound.kind = "unbound"
      /\ Callee \in Values
      /\ Line \in Nat
  BY <1>1, TextIsLine, NamesAssumption DEF Inv, TypeOK, LineInv, Callee, Unbound, Value, Values, Kinds
\* The callee is the argument, or a function or no more than data of the session.
<1>11. /\ Callee.kind = "class" => Ours(Callee) \/ ForeignArgument
       /\ Callee.kind = "func" => Callee.line = Line \/ ForeignArgument \/ TakesName
  <2>1. CASE arg # Unbound
    BY <1>1, <2>1 DEF Inv, ClimbInv, Callee, Ours
  <2>2. CASE arg = Unbound
    <3>1. /\ Callee.kind # "class"
          /\ Callee.kind = "func" => Callee.line \in 1..Line /\ Takes(said[Callee.line])
      BY <2>2 DEF Inv, TakenInv, Callee
    <3>2. ASSUME Callee.kind = "func", Callee.line # Line PROVE Callee.line \in 1..(Line - 1)
      BY <1>4, <3>1, <3>2
    <3> QED
      BY <3>1, <3>2 DEF TakesName
  <2> QED
    BY <2>1, <2>2
<1>5. TypeOK'
  BY <1>1, <1>3, <1>4 DEF Inv, TypeOK, Places
<1>6. LineInv' /\ ScopeInv' /\ MainInv' /\ TakenInv' /\ ThreadInv'
  BY <1>1, <1>3, KeepLine
<1>7. KnownInv' /\ ClassesInv'
  BY <1>1, <1>2, <1>3, KeepKnown DEF Working
<1>8. /\ (ForeignArgument' <=> ForeignArgument) /\ (TakesName' <=> TakesName)
      /\ \A w : Ours(w)' <=> Ours(w)
  BY <1>1, SameLines DEF Ours
<1>9. ClimbInv'
  <2>1. CASE class' = Callee /\ arg' = Unbound /\ pc' = "climb" /\ at' = at /\ Callee.kind = "class"
    <3>1. (at <= Len(Text) /\ Here.op \in {"use", "own", "pass"})'
      BY <1>1, <1>2, <2>1 DEF Here, Text, Line
    <3>2. (Ours(class) \/ ForeignArgument)' /\ (arg = Unbound)'
      BY <1>8, <1>11, <2>1 DEF Unbound
    <3> QED
      BY <3>1, <3>2 DEF ClimbInv
  <2>2. CASE pc' \in {"exec", "leave"}
    BY <2>2 DEF ClimbInv
  <2> QED
    BY <1>3, <2>1, <2>2
<1>10. BrokenHasCause'
  <2>1. CASE Callee.kind = "func" /\ Dead(Callee.line)
    <3>1. ForeignArgument \/ TakesName
      BY <1>1, <1>11, <2>1 DEF Dead
    <3> QED
      BY <1>3, <1>8, <2>1, <3>1 DEF BrokenHasCause
  <2>2. CASE ~(Callee.kind = "func" /\ Dead(Callee.line))
    BY <1>3, <2>2 DEF BrokenHasCause
  <2> QED
    BY <2>1, <2>2
<1> QED
  BY <1>5, <1>6, <1>7, <1>9, <1>10 DEF Inv

LEMMA EndOfStatementsInv ==
  ASSUME Inv, broken = "no", EndOfStatements
  PROVE  Inv'
<1>1. /\ pc = "exec" /\ pc' = IF Bare THEN "main" ELSE "leave"
      /\ UNCHANGED <<said, at, globals, locals, classes, class, arg, running, broken>>
  BY DEF EndOfStatements
<1>2. TypeOK'
  BY <1>1 DEF Inv, TypeOK, Places
<1>3. LineInv' /\ ScopeInv' /\ MainInv' /\ TakenInv' /\ ThreadInv'
  BY <1>1, SameLines, KeepNames DEF Inv, LineInv, ScopeInv
<1>4. KnownInv' /\ ClassesInv'
  BY <1>1, KeepKnown DEF Working
<1>5. ClimbInv' /\ BrokenHasCause'
  BY <1>1 DEF ClimbInv, BrokenHasCause
<1> QED
  BY <1>2, <1>3, <1>4, <1>5 DEF Inv

LEMMA CallMainInv ==
  ASSUME Inv, broken = "no", CallMain
  PROVE  Inv'
<1>1. /\ pc = "main" /\ UNCHANGED <<said, at, globals, locals, classes, class, arg, running>>
      /\ \/ /\ globals[Main].kind = "func" /\ Dead(globals[Main].line)
            /\ broken' = "main" /\ pc' = pc
         \/ broken' = "no" /\ pc' = IF Bare THEN "leave" ELSE "exec"
  BY DEF CallMain
<1>2. /\ Line \in Nat /\ Line >= 1 /\ Line \in 1..Line /\ Text \in Seq(Statement)
      /\ said[Line].form \in Forms
  BY <1>1, TextIsLine DEF Inv, LineInv
<1>3. TypeOK'
  BY <1>1 DEF Inv, TypeOK, Places
<1>4. LineInv' /\ ScopeInv' /\ MainInv' /\ TakenInv' /\ ThreadInv'
  BY <1>1, SameLines, KeepNames DEF Inv, LineInv, ScopeInv
<1>5. KnownInv' /\ ClassesInv'
  <2>1. CASE pc' = "exec" /\ ~Bare
    <3>1. Text' = Text /\ at' = 1 /\ said'[Line'].form = "wrapped"
      BY <1>1, <1>2, <2>1, SameLines DEF Inv, LineInv, Bare, Forms
    <3>2. Known(Text', at', said'[Line'].form) = {}
      BY <3>1 DEF Known, NamesIn
    <3>3. Accepts(Text, said[Line].form) /\ said[Line].form # "bare"
      BY <1>2, <2>1 DEF Inv, LineInv, Text, Bare
    <3>4. ClassesIn(Text') = {}
      BY <3>1, <3>3 DEF Accepts, ClassesIn, NamesIn
    <3> QED
      BY <3>2, <3>4 DEF KnownInv, ClassesInv
  <2>2. CASE pc' \in {"main", "leave"}
    BY <2>2 DEF KnownInv, ClassesInv, Working
  <2> QED
    BY <1>1, <2>1, <2>2
<1>6. ClimbInv'
  BY <1>1 DEF ClimbInv
<1>7. BrokenHasCause'
  <2>1. CASE globals[Main].kind = "func" /\ Dead(globals[Main].line)
    <3>1. globals[Main].line \in 1..Line /\ BindsMain(said[globals[Main].line])
      BY <2>1 DEF Inv, MainInv
    <3>2. globals[Main].line \in 1..(Line - 1)
      BY <1>1, <1>2, <2>1, <3>1 DEF Dead
    <3>3. KeepsMain
      BY <3>1, <3>2 DEF KeepsMain
    <3> QED
      BY <1>1, <3>3, SameLines DEF BrokenHasCause
  <2>2. CASE ~(globals[Main].kind = "func" /\ Dead(globals[Main].line))
    BY <1>1, <2>2 DEF BrokenHasCause
  <2> QED
    BY <2>1, <2>2
<1> QED
  BY <1>3, <1>4, <1>5, <1>6, <1>7 DEF Inv

LEMMA LeaveInv ==
  ASSUME Inv, broken = "no", Leave
  PROVE  Inv'
<1>1. /\ pc = "leave" /\ pc' = "prompt" /\ locals' = [x \in Names |-> Unbound]
      /\ UNCHANGED <<said, at, globals, classes, class, arg, running, broken>>
  BY DEF Leave
<1>2. TypeOK'
  BY <1>1 DEF Inv, TypeOK, Places, Unbound, Value, Values, Kinds
<1>3. LineInv' /\ ScopeInv'
  BY <1>1, SameLines DEF Inv, LineInv, ScopeInv, Unbound, Native
<1>4. MainInv' /\ TakenInv' /\ ThreadInv'
  BY <1>1, KeepNames
<1>5. KnownInv' /\ ClassesInv' /\ ClimbInv' /\ BrokenHasCause'
  BY <1>1 DEF KnownInv, ClassesInv, ClimbInv, BrokenHasCause, Working
<1> QED
  BY <1>2, <1>3, <1>4, <1>5 DEF Inv

\* Whatever thread it is: some line spawned it.
LEMMA ThreadInvKept ==
  ASSUME Inv, broken = "no", NEW t \in running, ThreadReads(t) \/ ThreadEnds(t)
  PROVE  Inv'
<1>1. /\ UNCHANGED <<said, pc, at, globals, locals, classes, class, arg>>
      /\ running' \subseteq running
      /\ \/ broken' \in {"no", "thread"}
         \/ broken' = "abort" /\ said[t[1]].form = "wrapped"
  BY DEF ThreadReads, ThreadEnds
<1>2. t[1] \in 1..Line /\ Spawns(said[t[1]])
  BY DEF Inv, ThreadInv
<1>3. TypeOK'
  BY <1>1 DEF Inv, TypeOK
<1>4. LineInv' /\ ScopeInv' /\ MainInv' /\ TakenInv' /\ ThreadInv'
  BY <1>1, SameLines DEF Inv, LineInv, ScopeInv, MainInv, TakenInv, ThreadInv
<1>5. /\ Line' = Line /\ Text' = Text /\ (ForeignBase' <=> ForeignBase)
      /\ (ForeignArgument' <=> ForeignArgument) /\ (ForeignOperand' <=> ForeignOperand)
      /\ (TakesName' <=> TakesName) /\ said'[Line'].form = said[Line].form
      /\ (KeepsThread' <=> KeepsThread) /\ (MainSpawns' <=> MainSpawns)
  BY <1>1, SameLines
<1>6. \A v : Ours(v)' <=> Ours(v)
  BY <1>5 DEF Ours
<1>7. KnownInv' /\ ClassesInv'
  <2>1. \A x : Bound(x)' = Bound(x)
    BY <1>1 DEF Bound
  <2> QED
    BY <1>1, <1>5, <1>6, <2>1 DEF Inv, KnownInv, ClassesInv, Working
<1>8. ClimbInv'
  BY <1>1, <1>5, <1>6 DEF Inv, ClimbInv, Here, Unbound
<1>9. BrokenHasCause'
  <2>1. KeepsThread /\ (said[t[1]].form = "wrapped" => MainSpawns)
    BY <1>2 DEF KeepsThread, MainSpawns
  <2> QED
    BY <1>1, <1>5, <2>1 DEF BrokenHasCause
<1> QED
  BY <1>3, <1>4, <1>7, <1>8, <1>9 DEF Inv

LEMMA StutterInv ==
  ASSUME Inv, UNCHANGED vars
  PROVE  Inv'
<1>1. \A x : Bound(x)' = Bound(x)
  BY DEF vars, Bound
<1>2. \A v : Ours(v)' <=> Ours(v)
  BY SameLines DEF vars, Ours
<1>3. (TypeOK /\ LineInv /\ ScopeInv /\ MainInv /\ TakenInv /\ ThreadInv)'
  BY SameLines DEF vars, Inv, TypeOK, LineInv, ScopeInv, MainInv, TakenInv, ThreadInv
<1>4. (KnownInv /\ ClassesInv)'
  BY <1>1, <1>2, SameLines DEF vars, Inv, KnownInv, ClassesInv, Working, Line
<1>5. (ClimbInv /\ BrokenHasCause)'
  BY <1>2, SameLines DEF vars, Inv, ClimbInv, BrokenHasCause, Here, Unbound
<1> QED
  BY <1>3, <1>4, <1>5 DEF Inv

\* run_repl (main.cpp:214-250) frees the tree of each line.  In a session of any
\* length, with any of these lines, a freed tree is read only where a line left a main,
\* a thread, or a function by the name of a builtin or of a parameter, or named what
\* another line declared where the analyser does not look: the base of a class, the
\* argument of a constructor, the operand of own.
THEOREM BrokenOnlySo == Spec => []BrokenHasCause
<1>1. Inv /\ [Next]_vars => Inv'
  <2> SUFFICES ASSUME Inv, [Next]_vars PROVE Inv'
    OBVIOUS
  <2>1. CASE broken = "no" /\ \E l \in Lines : Accept(l)
    BY <2>1, AcceptInv
  <2>2. CASE Run
    BY <2>2, RegisterInv, LetInv, DeclareInv, UseInv, PassInv, FailInv, ClimbInvKept,
       CallInitInv, EndOfStatementsInv, CallMainInv, LeaveInv DEF Run
  <2>3. CASE broken = "no" /\ \E t \in running : ThreadReads(t) \/ ThreadEnds(t)
    BY <2>3, ThreadInvKept
  <2>4. CASE UNCHANGED vars
    BY <2>4, StutterInv
  <2> QED
    BY <2>1, <2>2, <2>3, <2>4 DEF Next
<1>2. Inv => BrokenHasCause
  BY DEF Inv
<1> QED
  BY InitInv, <1>1, <1>2, PTL DEF Spec

-----------------------------------------------------------------------------
(***************************************************************************)
(* The editor: while nothing happened to a document since a check of it    *)
(* began alone, that check is the only one of it, has read what is still   *)
(* on disk, and once it ended its result is what is shown.                 *)
(***************************************************************************)
Trouble == {"overlap", "saved", "failed"}
CheckRecords == [doc : Docs, seen : Seq(Nat)]

EditorTypeOK ==
  /\ open \subseteq Docs
  /\ file \in [Docs -> Nat]
  /\ shown \in [Docs -> Seq(Nat)]
  /\ checks \in Seq(CheckRecords)
  /\ timer \in Docs \cup {NoDocument}
  /\ since \in [Docs -> SUBSET Trouble]

\* What a check has read is on disk still.
UpToDate(c) ==
  /\ Len(c.seen) <= Len(Reads[c.doc])
  /\ \A k \in 1..Len(c.seen) : c.seen[k] = file[Reads[c.doc][k]]

Alone(d) == \A i, j \in DOMAIN checks : checks[i].doc = d /\ checks[j].doc = d => i = j

Fresh(d) ==
  /\ Alone(d)
  /\ \A i \in DOMAIN checks : checks[i].doc = d => UpToDate(checks[i])
  /\ d \in open /\ ~Checked(d) => shown[d] = Current(d)

FreshInv == \A d \in Docs : since[d] = {} => Fresh(d)

EditorInv == EditorTypeOK /\ FreshInv

-----------------------------------------------------------------------------
(* Sequences: what SetToSeq and RemoveAt of the library return. *)

LEMMA SetListed ==
  ASSUME NEW S, IsFiniteSet(S)
  PROVE  /\ SetToSeq(S) \in Seq(S)
         /\ \A i, j \in DOMAIN SetToSeq(S) : SetToSeq(S)[i] = SetToSeq(S)[j] => i = j
         /\ \A x \in S : \E i \in DOMAIN SetToSeq(S) : SetToSeq(S)[i] = x
<1> DEFINE n == Cardinality(S)
           q == SetToSeq(S)
<1>1. n \in Nat /\ ExistsBijection(1..n, S)
  BY FS_CardinalityType
<1>2. \E f \in [1..n -> S] : IsInjective(f)
  BY <1>1 DEF ExistsBijection, Bijection, Injection
<1>3. q \in [1..n -> S] /\ IsInjective(q)
  BY <1>2 DEF SetToSeq
<1>4. q \in Injection(1..n, S)
  BY <1>3 DEF Injection
<1>5. IsFiniteSet(1..n) /\ Cardinality(1..n) = n
  BY <1>1, FS_Interval
<1>6. q \in Surjection(1..n, S)
  BY <1>4, <1>5, FS_Injection
<1>7. \A x \in S : \E i \in 1..n : q[i] = x
  BY <1>6 DEF Surjection
<1>8. DOMAIN q = 1..n
  BY <1>3
<1>9. q \in Seq(S)
  BY <1>1, <1>3
<1> QED  BY <1>3, <1>7, <1>8, <1>9 DEF IsInjective

LEMMA OneRemoved ==
  ASSUME NEW S, NEW s \in Seq(S), NEW i \in DOMAIN s
  PROVE  /\ RemoveAt(s, i) \in Seq(S)
         /\ Len(RemoveAt(s, i)) = Len(s) - 1
         /\ \A k \in 1 .. Len(s) - 1 : RemoveAt(s, i)[k] = s[IF k < i THEN k ELSE k + 1]
<1> DEFINE a == SubSeq(s, 1, i - 1)
           b == SubSeq(s, i + 1, Len(s))
<1>1. i \in 1..Len(s) /\ Len(s) \in Nat
  OBVIOUS
<1>2. a \in Seq(S) /\ Len(a) = i - 1 /\ \A k \in 1 .. i - 1 : a[k] = s[k]
  BY <1>1
<1>3. b \in Seq(S) /\ Len(b) = Len(s) - i /\ \A k \in 1 .. Len(s) - i : b[k] = s[i + k]
  BY <1>1
<1>4. RemoveAt(s, i) = a \o b
  BY DEF RemoveAt
<1> HIDE DEF a, b
<1>5. a \o b \in Seq(S) /\ Len(a \o b) = Len(s) - 1
  BY <1>1, <1>2, <1>3
<1>6. ASSUME NEW k \in 1 .. Len(s) - 1
      PROVE  (a \o b)[k] = s[IF k < i THEN k ELSE k + 1]
  <2>1. CASE k < i
    BY <2>1, <1>1, <1>2, <1>3
  <2>2. CASE ~(k < i)
    <3>1. k \in 1 .. Len(a) + Len(b) /\ k > Len(a) /\ k - (i - 1) \in 1 .. Len(s) - i
      BY <2>2, <1>1, <1>2, <1>3
    <3>2. (a \o b)[k] = b[k - Len(a)]
      BY <3>1, <1>2, <1>3
    <3>3. b[k - (i - 1)] = s[i + (k - (i - 1))] /\ i + (k - (i - 1)) = k + 1
      BY <3>1, <1>1, <1>3
    <3> QED  BY <2>2, <3>2, <3>3, <1>2
  <2> QED  BY <2>1, <2>2
<1> QED  BY <1>4, <1>5, <1>6

-----------------------------------------------------------------------------
LEMMA ReadsKnown ==
  \A d \in Docs : /\ Reads[d] \in Seq(Docs) /\ Len(Reads[d]) \in Nat
                  /\ \A k \in 1 .. Len(Reads[d]) : Reads[d][k] \in Docs
  BY DocsAssumption

LEMMA StartsWell == EditorInit => EditorInv
<1> SUFFICES ASSUME EditorInit  PROVE EditorInv
  OBVIOUS
<1> DEFINE S == {Check(d) : d \in open}
<1>1. open \subseteq Docs /\ IsFiniteSet(open)
  BY DocsAssumption, FS_Subset DEF EditorInit
<1>2. IsFiniteSet(S)
  <2> DEFINE f == [c \in S |-> c.doc]
  <2>1. \A c \in S : c.doc \in open /\ c = Check(c.doc)
    BY DEF Check
  <2>2. f \in [S -> open] /\ IsInjective(f)
    BY <2>1 DEF IsInjective
  <2>3. f \in Injection(S, open)
    BY <2>2 DEF Injection
  <2> QED  BY <2>3, <1>1, FS_Injection
<1>3. S \subseteq CheckRecords
  <2>1. << >> \in Seq(Nat)
    OBVIOUS
  <2>2. \A d \in open : Check(d) \in CheckRecords
    BY <2>1, <1>1 DEF Check, CheckRecords
  <2> QED  BY <2>2
<1>4. checks = SetToSeq(S)
  BY DEF EditorInit
<1> HIDE DEF S
<1>5. /\ checks \in Seq(S)
      /\ \A i, j \in DOMAIN checks : checks[i] = checks[j] => i = j
      /\ \A x \in S : \E i \in DOMAIN checks : checks[i] = x
  BY <1>2, <1>4, SetListed
<1>6. checks \in Seq(CheckRecords)
  BY <1>3, <1>5
<1>7. EditorTypeOK
  <2>1. shown \in [Docs -> Seq(Nat)]
    BY DEF EditorInit, Nothing
  <2>2. file \in [Docs -> Nat] /\ timer \in Docs \cup {NoDocument} /\ since \in [Docs -> SUBSET Trouble]
    BY DEF EditorInit
  <2> QED  BY <1>1, <1>6, <2>1, <2>2 DEF EditorTypeOK
<1>8. \A i \in DOMAIN checks : \E d \in open : checks[i] = Check(d)
  BY <1>5 DEF S
<1>9. ASSUME NEW d \in Docs
      PROVE  Fresh(d)
  <2>1. Alone(d)
    <3> SUFFICES ASSUME NEW i \in DOMAIN checks, NEW j \in DOMAIN checks, checks[i].doc = d, checks[j].doc = d
                 PROVE  i = j
      BY DEF Alone
    <3>1. checks[i] = Check(d) /\ checks[j] = Check(d)
      BY <1>8 DEF Check
    <3> QED  BY <3>1, <1>5
  <2>2. ASSUME NEW i \in DOMAIN checks, checks[i].doc = d
        PROVE  UpToDate(checks[i])
    <3>1. checks[i].seen = << >>
      BY <1>8 DEF Check
    <3> QED  BY <3>1, <2>2, ReadsKnown DEF UpToDate
  <2>3. d \in open => Checked(d)
    <3> SUFFICES ASSUME d \in open  PROVE Checked(d)
      OBVIOUS
    <3>1. Check(d) \in S /\ Check(d).doc = d
      BY DEF S, Check
    <3> QED  BY <3>1, <1>5 DEF Checked
  <2> QED  BY <2>1, <2>2, <2>3 DEF Fresh
<1> QED  BY <1>7, <1>9 DEF EditorInv, FreshInv

\* A check is started; the files of the documents without trouble are as before.
LEMMA Started ==
  ASSUME EditorInv, NEW d \in Docs, NEW past \in [Docs -> SUBSET Trouble], RunCheck(d, past),
         \A e \in Docs : past[e] = {} =>
            since[e] = {} /\ \A k \in 1 .. Len(Reads[e]) : file'[Reads[e][k]] = file[Reads[e][k]],
         open' \subseteq open \cup {d}, UNCHANGED shown
  PROVE  checks' \in Seq(CheckRecords) /\ since' \in [Docs -> SUBSET Trouble] /\ FreshInv'
<1>1. /\ checks \in Seq(CheckRecords) /\ Len(checks) \in Nat
      /\ checks' = Append(checks, Check(d)) /\ Check(d) \in CheckRecords
  BY DEF RunCheck, EditorInv, EditorTypeOK, Check, CheckRecords
<1>2. /\ checks' \in Seq(CheckRecords)
      /\ Len(checks') = Len(checks) + 1
      /\ \A i \in 1 .. Len(checks) : checks'[i] = checks[i]
      /\ checks'[Len(checks) + 1] = Check(d)
  BY <1>1
<1>3. DOMAIN checks = 1 .. Len(checks) /\ DOMAIN checks' = 1 .. Len(checks) + 1
  BY <1>1, <1>2
<1>4. since' \in [Docs -> SUBSET Trouble]
  BY DEF RunCheck, Trouble
<1>5. ASSUME NEW e \in Docs, since'[e] = {}
      PROVE  Fresh(e)'
  <2>1. CASE e = d
    <3>1. ~Checked(d)
      BY <1>5, <2>1 DEF RunCheck
    <3>2. \A i \in DOMAIN checks' : checks'[i].doc = d => i = Len(checks) + 1
      BY <3>1, <1>1, <1>2, <1>3 DEF Checked
    <3>3. Check(d).doc = d /\ Check(d).seen = << >>
      BY DEF Check
    <3>4. Checked(d)'
      BY <3>3, <1>1, <1>2, <1>3 DEF Checked
    <3>5. Alone(d)'
      BY <3>2 DEF Alone
    <3>6. ASSUME NEW i \in DOMAIN checks', checks'[i].doc = d
          PROVE  UpToDate(checks[i])'
      <4>1. checks'[i].seen = << >>
        BY <3>2, <3>3, <3>6, <1>2
      <4> QED  BY <4>1, <3>6, ReadsKnown DEF UpToDate
    <3> QED  BY <2>1, <3>4, <3>5, <3>6 DEF Fresh
  <2>2. CASE e # d
    <3>1. past[e] = {}
      BY <1>5, <2>2 DEF RunCheck
    <3>2. Fresh(e) /\ \A k \in 1 .. Len(Reads[e]) : file'[Reads[e][k]] = file[Reads[e][k]]
      BY <3>1 DEF EditorInv, FreshInv
    <3>3. \A i \in DOMAIN checks' : checks'[i].doc = e => i \in DOMAIN checks /\ checks'[i] = checks[i]
      BY <2>2, <1>1, <1>2, <1>3 DEF Check
    <3>4. Alone(e)'
      BY <3>2, <3>3 DEF Fresh, Alone
    <3>5. ASSUME NEW i \in DOMAIN checks', checks'[i].doc = e
          PROVE  UpToDate(checks[i])'
      <4>1. i \in DOMAIN checks /\ checks'[i] = checks[i]
        BY <3>3, <3>5
      <4>2. checks[i] \in CheckRecords
        BY <4>1, <1>1
      <4>3. UpToDate(checks[i]) /\ checks'[i] = checks[i] /\ checks[i].seen \in Seq(Nat)
        BY <3>2, <3>5, <4>1, <4>2 DEF Fresh, CheckRecords
      <4>4. Len(checks[i].seen) \in Nat /\ Len(Reads[e]) \in Nat
        BY <4>3, ReadsKnown
      <4> QED  BY <4>3, <4>4, <3>2, <3>5 DEF UpToDate
    <3>6. Checked(e) => Checked(e)'
      BY <1>2, <1>3, <1>1 DEF Checked
    <3>7. DOMAIN Reads[e] = 1 .. Len(Reads[e])
      BY ReadsKnown
    <3>8. Current(e)' = Current(e)
      BY <3>2, <3>7 DEF Current
    <3>9. e \in open' => e \in open
      BY <2>2
    <3> QED  BY <3>2, <3>4, <3>5, <3>6, <3>8, <3>9 DEF Fresh
  <2> QED  BY <2>1, <2>2
<1> QED  BY <1>2, <1>4, <1>5 DEF FreshInv

\* No check starts, reads or ends.
LEMMA Left ==
  ASSUME EditorInv, UNCHANGED checks,
         \A e \in Docs : since'[e] = {} =>
            since[e] = {} /\ \A k \in 1 .. Len(Reads[e]) : file'[Reads[e][k]] = file[Reads[e][k]],
         open' \subseteq open, \A e \in open' : shown'[e] = shown[e]
  PROVE  FreshInv'
<1> SUFFICES ASSUME NEW e \in Docs, since'[e] = {}
             PROVE  Fresh(e)'
  BY DEF FreshInv
<1>1. Fresh(e) /\ \A k \in 1 .. Len(Reads[e]) : file'[Reads[e][k]] = file[Reads[e][k]]
  BY DEF EditorInv, FreshInv
<1>2. Alone(e)' /\ (Checked(e)' <=> Checked(e))
  BY <1>1 DEF Fresh, Alone, Checked
<1>3. ASSUME NEW i \in DOMAIN checks, checks[i].doc = e
      PROVE  UpToDate(checks[i])'
  <2>1. checks[i] \in CheckRecords
    BY DEF EditorInv, EditorTypeOK
  <2>2. UpToDate(checks[i]) /\ checks[i].seen \in Seq(Nat)
    BY <2>1, <1>1, <1>3 DEF Fresh, CheckRecords
  <2>3. Len(checks[i].seen) \in Nat /\ Len(Reads[e]) \in Nat
    BY <2>2, ReadsKnown
  <2> QED  BY <2>2, <2>3, <1>1, <1>3 DEF UpToDate
<1>4. DOMAIN Reads[e] = 1 .. Len(Reads[e])
  BY ReadsKnown
<1>5. Current(e)' = Current(e)
  BY <1>1, <1>4 DEF Current
<1> QED  BY <1>1, <1>2, <1>3, <1>5 DEF Fresh

\* A check leaves the list: the others stay.
LEMMA Ended ==
  ASSUME EditorInv, NEW i \in DOMAIN checks, checks' = RemoveAt(checks, i)
  PROVE  /\ checks' \in Seq(CheckRecords)
         /\ \A e \in Docs : Alone(e) => Alone(e)'
         /\ \A k \in DOMAIN checks' : \E j \in DOMAIN checks : j # i /\ checks'[k] = checks[j]
         /\ \A j \in DOMAIN checks : j # i => \E k \in DOMAIN checks' : checks'[k] = checks[j]
<1> DEFINE n == Len(checks)
           Old(k) == IF k < i THEN k ELSE k + 1
           New(j) == IF j < i THEN j ELSE j - 1
<1>1. checks \in Seq(CheckRecords) /\ n \in Nat /\ i \in 1..n /\ DOMAIN checks = 1..n
  BY DEF EditorInv, EditorTypeOK
<1>2. checks' \in Seq(CheckRecords) /\ Len(checks') = n - 1 /\ \A k \in 1 .. n - 1 : checks'[k] = checks[Old(k)]
  BY <1>1, OneRemoved
<1>3. DOMAIN checks' = 1 .. n - 1
  BY <1>2
<1>4. \A k \in 1 .. n - 1 : Old(k) \in 1..n /\ Old(k) # i
  BY <1>1
<1>5. \A j \in 1..n : j # i => New(j) \in 1 .. n - 1 /\ Old(New(j)) = j
  BY <1>1
<1>6. \A k, l \in 1 .. n - 1 : Old(k) = Old(l) => k = l
  BY <1>1
<1> HIDE DEF n, Old, New
<1>7. ASSUME NEW e \in Docs, Alone(e)
      PROVE  Alone(e)'
  <2> SUFFICES ASSUME NEW k \in 1 .. n - 1, NEW l \in 1 .. n - 1, checks'[k].doc = e, checks'[l].doc = e
               PROVE  k = l
    BY <1>3 DEF Alone
  <2>1. Old(k) = Old(l)
    BY <1>1, <1>2, <1>4, <1>7 DEF Alone
  <2> QED  BY <2>1, <1>6
<1>8. \A k \in DOMAIN checks' : \E j \in DOMAIN checks : j # i /\ checks'[k] = checks[j]
  BY <1>1, <1>2, <1>3, <1>4
<1>9. ASSUME NEW j \in DOMAIN checks, j # i
      PROVE  \E k \in DOMAIN checks' : checks'[k] = checks[j]
  <2>1. New(j) \in DOMAIN checks' /\ checks'[New(j)] = checks[j]
    BY <1>1, <1>2, <1>3, <1>5, <1>9
  <2> QED  BY <2>1
<1> QED  BY <1>2, <1>7, <1>8, <1>9

\* Then only the document of that check can be shown something else.
LEMMA OthersFresh ==
  ASSUME EditorInv, NEW i \in DOMAIN checks, checks' = RemoveAt(checks, i),
         UNCHANGED <<open, file>>, NEW e \in Docs, e # checks[i].doc,
         since[e] = {}, shown'[e] = shown[e]
  PROVE  Fresh(e)'
<1>1. Fresh(e)
  BY DEF EditorInv, FreshInv
<1>2. Alone(e)'
  BY <1>1, Ended DEF Fresh
<1>3. ASSUME NEW k \in DOMAIN checks', checks'[k].doc = e
      PROVE  UpToDate(checks[k])'
  <2>1. PICK j \in DOMAIN checks : checks'[k] = checks[j]
    BY Ended
  <2>2. UpToDate(checks[j])
    BY <1>1, <1>3, <2>1 DEF Fresh
  <2> QED  BY <2>1, <2>2 DEF UpToDate
<1>4. Checked(e) => Checked(e)'
  <2> SUFFICES ASSUME NEW j \in DOMAIN checks, checks[j].doc = e
               PROVE  Checked(e)'
    BY DEF Checked
  <2>1. j # i
    OBVIOUS
  <2>2. \E k \in DOMAIN checks' : checks'[k] = checks[j]
    BY <2>1, Ended
  <2> QED  BY <2>2 DEF Checked
<1>5. Current(e)' = Current(e)
  BY DEF Current
<1> QED  BY <1>1, <1>2, <1>3, <1>4, <1>5 DEF Fresh

-----------------------------------------------------------------------------
(* The steps of EditorNext. *)

LEMMA OpenKeeps ==
  ASSUME EditorInv, NEW d \in Docs, Open(d)
  PROVE  EditorInv'
<1>1. checks' \in Seq(CheckRecords) /\ since' \in [Docs -> SUBSET Trouble] /\ FreshInv'
  <2>1. since \in [Docs -> SUBSET Trouble] /\ RunCheck(d, since) /\ UNCHANGED <<file, shown>> /\ open' = open \cup {d}
    BY DEF EditorInv, EditorTypeOK, Open
  <2> QED  BY <2>1, Started
<1> QED  BY <1>1 DEF EditorInv, EditorTypeOK, Open

LEMMA CheckFileKeeps ==
  ASSUME EditorInv, NEW d \in Docs, CheckFile(d)
  PROVE  EditorInv'
<1>1. checks' \in Seq(CheckRecords) /\ since' \in [Docs -> SUBSET Trouble] /\ FreshInv'
  <2>1. since \in [Docs -> SUBSET Trouble] /\ RunCheck(d, since) /\ UNCHANGED <<file, shown, open>>
    BY DEF EditorInv, EditorTypeOK, CheckFile
  <2> QED  BY <2>1, Started
<1> QED  BY <1>1 DEF EditorInv, EditorTypeOK, CheckFile

LEMMA TimerKeeps ==
  ASSUME EditorInv, TimerFires
  PROVE  EditorInv'
<1>1. timer \in Docs
  BY DEF EditorInv, EditorTypeOK, TimerFires
<1>2. checks' \in Seq(CheckRecords) /\ since' \in [Docs -> SUBSET Trouble] /\ FreshInv'
  <2>1. since \in [Docs -> SUBSET Trouble] /\ RunCheck(timer, since) /\ UNCHANGED <<file, shown, open>>
    BY DEF EditorInv, EditorTypeOK, TimerFires
  <2> QED  BY <1>1, <2>1, Started
<1> QED  BY <1>2 DEF EditorInv, EditorTypeOK, TimerFires

LEMMA ChangeKeeps ==
  ASSUME EditorInv, NEW d \in Docs, Change(d)
  PROVE  EditorInv'
<1>1. FreshInv'
  <2>1. UNCHANGED <<open, file, shown, checks, since>>
    BY DEF Change
  <2> QED  BY <2>1, Left
<1> QED  BY <1>1 DEF EditorInv, EditorTypeOK, Change

LEMMA CloseKeeps ==
  ASSUME EditorInv, NEW d \in Docs, Close(d)
  PROVE  EditorInv'
<1>1. FreshInv'
  <2>1. UNCHANGED <<file, checks, since>> /\ open' \subseteq open
    BY DEF Close
  <2>2. \A e \in open' : shown'[e] = shown[e]
    BY DEF Close, EditorInv, EditorTypeOK
  <2> QED  BY <2>1, <2>2, Left
<1>2. Nothing \in Seq(Nat)
  BY DEF Nothing
<1> QED  BY <1>1, <1>2 DEF EditorInv, EditorTypeOK, Close

\* Whoever reads the file that is saved has trouble from then on.
LEMMA SaveKeeps ==
  ASSUME EditorInv, NEW d \in Docs, Save(d)
  PROVE  EditorInv'
<1> DEFINE past == [e \in Docs |-> IF d \in Range(Reads[e]) THEN since[e] \cup {"saved"} ELSE since[e]]
<1>1. past \in [Docs -> SUBSET Trouble]
  BY DEF EditorInv, EditorTypeOK, Trouble
<1>2. file' \in [Docs -> Nat] /\ \A x \in Docs : x # d => file'[x] = file[x]
  BY DEF EditorInv, EditorTypeOK, Save
<1>3. ASSUME NEW e \in Docs, past[e] = {}
      PROVE  since[e] = {} /\ \A k \in 1 .. Len(Reads[e]) : file'[Reads[e][k]] = file[Reads[e][k]]
  <2>1. d \notin Range(Reads[e]) /\ since[e] = {}
    BY <1>3
  <2>2. \A k \in 1 .. Len(Reads[e]) : Reads[e][k] \in Range(Reads[e]) /\ Reads[e][k] \in Docs
    BY ReadsKnown DEF Range
  <2> QED  BY <2>1, <2>2, <1>2
<1>4. UNCHANGED <<open, shown, timer>>
  BY DEF Save
<1>5. \/ RunCheck(d, past)
      \/ since' = past /\ UNCHANGED checks
  BY DEF Save
<1> HIDE DEF past
<1>6. checks' \in Seq(CheckRecords) /\ since' \in [Docs -> SUBSET Trouble] /\ FreshInv'
  <2>1. CASE RunCheck(d, past)
    BY <2>1, <1>1, <1>3, <1>4, Started
  <2>2. CASE since' = past /\ UNCHANGED checks
    <3>1. FreshInv'
      BY <2>2, <1>3, <1>4, Left
    <3> QED  BY <3>1, <2>2, <1>1 DEF EditorInv, EditorTypeOK
  <2> QED  BY <1>5, <2>1, <2>2
<1> QED  BY <1>2, <1>4, <1>6 DEF EditorInv, EditorTypeOK

LEMMA SeenSet ==
  ASSUME NEW c \in CheckRecords, NEW s
  PROVE  [c EXCEPT !.seen = s] = [doc |-> c.doc, seen |-> s]
  BY DEF CheckRecords

LEMMA ReadKeeps ==
  ASSUME EditorInv, NEW i \in DOMAIN checks, Read(i)
  PROVE  EditorInv'
<1> DEFINE c == checks[i]
           v == file[Reads[c.doc][Len(c.seen) + 1]]
<1>1. /\ checks \in Seq(CheckRecords) /\ DOMAIN checks = 1 .. Len(checks) /\ Len(checks) \in Nat
      /\ c \in CheckRecords
  BY DEF EditorInv, EditorTypeOK
<1>2. c.doc \in Docs /\ c.seen \in Seq(Nat) /\ Len(c.seen) \in Nat
  BY <1>1 DEF CheckRecords
<1>3. Len(c.seen) + 1 \in 1 .. Len(Reads[c.doc])
  BY <1>2, ReadsKnown DEF Read
<1>4. v \in Nat
  BY <1>2, <1>3, ReadsKnown DEF EditorInv, EditorTypeOK
<1>5. checks' = [checks EXCEPT ![i].seen = Append(c.seen, v)]
  BY <1>1 DEF Read
<1> DEFINE new == [doc |-> c.doc, seen |-> Append(c.seen, v)]
<1>6. new \in CheckRecords
  BY <1>2, <1>4 DEF CheckRecords
<1>7. checks' = [checks EXCEPT ![i] = new]
  <2> DEFINE r == [c EXCEPT !.seen = Append(c.seen, v)]
  <2>1. checks' = [checks EXCEPT ![i] = r]
    BY <1>5
  <2>2. r = new
    BY <1>1, SeenSet
  <2> QED  BY <2>1, <2>2
<1>8. checks' \in Seq(CheckRecords) /\ DOMAIN checks' = DOMAIN checks
  BY <1>1, <1>6, <1>7
<1>9. \A j \in DOMAIN checks : checks'[j].doc = checks[j].doc /\ (j # i => checks'[j] = checks[j])
  BY <1>1, <1>7
<1>10. UNCHANGED <<open, file, shown, timer, since>>
  BY DEF Read
<1>11. UpToDate(c) => UpToDate(new)
  <2> SUFFICES ASSUME UpToDate(c)
               PROVE  UpToDate(new)
    OBVIOUS
  <2>1. Len(new.seen) = Len(c.seen) + 1 /\ new.doc = c.doc
    BY <1>2, <1>4
  <2>2. \A k \in 1 .. Len(c.seen) : new.seen[k] = c.seen[k]
    BY <1>2, <1>4
  <2>3. new.seen[Len(c.seen) + 1] = v
    BY <1>2, <1>4
  <2> HIDE DEF new, c
  <2>4. \A k \in 1 .. Len(new.seen) : new.seen[k] = file[Reads[new.doc][k]]
    <3> TAKE k \in 1 .. Len(new.seen)
    <3>1. k = Len(c.seen) + 1 \/ k \in 1 .. Len(c.seen)
      BY <1>2, <2>1
    <3> QED  BY <3>1, <2>1, <2>2, <2>3 DEF UpToDate
  <2> QED  BY <2>1, <2>4, <1>2, <1>3, ReadsKnown DEF UpToDate
<1> HIDE DEF new
<1>12. FreshInv'
  <2> SUFFICES ASSUME NEW e \in Docs, since[e] = {}
               PROVE  Fresh(e)'
    BY <1>10 DEF FreshInv
  <2>1. Fresh(e)
    BY DEF EditorInv, FreshInv
  <2>2. Alone(e)' /\ (Checked(e) <=> Checked(e)') /\ Current(e)' = Current(e)
    BY <2>1, <1>8, <1>9, <1>10 DEF Fresh, Alone, Checked, Current
  <2>3. ASSUME NEW j \in DOMAIN checks, checks[j].doc = e
        PROVE  UpToDate(checks[j])'
    <3>1. UpToDate(checks[j])
      BY <2>1, <2>3 DEF Fresh
    <3>2. UpToDate(checks'[j])
      BY <3>1, <1>1, <1>7, <1>9, <1>11
    <3> QED  BY <3>2, <1>10 DEF UpToDate
  <2> QED  BY <2>1, <2>2, <2>3, <1>8, <1>9, <1>10 DEF Fresh
<1> QED  BY <1>8, <1>10, <1>12 DEF EditorInv, EditorTypeOK

\* The result of the only check there was is that of the files as they are.
LEMMA ExitKeeps ==
  ASSUME EditorInv, NEW i \in DOMAIN checks, Exit(i)
  PROVE  EditorInv'
<1>1. checks[i] \in CheckRecords
  BY DEF EditorInv, EditorTypeOK
<1>2. PICK d \in Docs, s \in Seq(Nat) : checks[i].doc = d /\ checks[i].seen = s /\ Len(s) = Len(Reads[d])
  BY <1>1 DEF CheckRecords, Exit
<1>3. shown' = [shown EXCEPT ![d] = s] /\ checks' = RemoveAt(checks, i) /\ UNCHANGED <<open, file, timer, since>>
  BY <1>2 DEF Exit
<1>4. EditorTypeOK'
  BY <1>2, <1>3, Ended DEF EditorInv, EditorTypeOK
<1>5. ASSUME NEW e \in Docs, since[e] = {}
      PROVE  Fresh(e)'
  <2>1. CASE e # d
    <3>1. shown'[e] = shown[e]
      BY <2>1, <1>2, <1>3 DEF EditorInv, EditorTypeOK
    <3> QED  BY <3>1, <2>1, <1>2, <1>3, <1>5, OthersFresh
  <2>2. CASE e = d
    <3>1. Fresh(d)
      BY <1>5, <2>2 DEF EditorInv, FreshInv
    <3>2. Alone(d)'
      BY <3>1, <1>2, <1>3, Ended DEF Fresh
    <3>3. ~Checked(d)'
      <4> SUFFICES ASSUME NEW k \in DOMAIN checks', checks'[k].doc = d
                   PROVE  FALSE
        BY DEF Checked
      <4>1. PICK j \in DOMAIN checks : j # i /\ checks'[k] = checks[j]
        BY <1>3, Ended
      <4>2. checks[j].doc = d /\ checks[i].doc = d
        BY <4>1, <1>2
      <4> QED  BY <4>1, <4>2, <3>1 DEF Fresh, Alone
    <3>4. UpToDate(checks[i])
      BY <3>1, <1>2 DEF Fresh
    <3>5. DOMAIN s = DOMAIN Reads[d] /\ s = [k \in DOMAIN s |-> s[k]] /\ DOMAIN s = 1 .. Len(s)
      BY <1>2, ReadsKnown
    <3>6. \A k \in DOMAIN s : s[k] = file[Reads[d][k]]
      BY <3>4, <3>5, <1>2 DEF UpToDate
    <3>7. s = Current(d)
      BY <3>5, <3>6 DEF Current
    <3>8. shown'[d] = Current(d)'
      BY <3>7, <1>2, <1>3 DEF EditorInv, EditorTypeOK, Current
    <3> QED  BY <2>2, <3>2, <3>3, <3>8 DEF Fresh, Checked
  <2> QED  BY <2>1, <2>2
<1>6. FreshInv'
  BY <1>3, <1>5 DEF FreshInv
<1> QED  BY <1>4, <1>6 DEF EditorInv

LEMMA FailKeeps ==
  ASSUME EditorInv, NEW i \in DOMAIN checks, NEW err, NEW output \in Seq(Nat), CheckFails(i, err, output)
  PROVE  EditorInv'
<1>1. checks[i] \in CheckRecords
  BY DEF EditorInv, EditorTypeOK
<1>2. PICK d \in Docs : d = checks[i].doc
  BY <1>1 DEF CheckRecords
<1>3. PICK res \in Seq(Nat) : shown' = [shown EXCEPT ![d] = res]
  <2>1. Nothing \in Seq(Nat)
    BY DEF Nothing
  <2>2. CASE BailsOut(err)
    BY <2>1, <2>2, <1>2 DEF CheckFails
  <2>3. CASE ~BailsOut(err)
    BY <2>3, <1>2 DEF CheckFails
  <2> QED  BY <2>2, <2>3
<1>4. /\ since' = [since EXCEPT ![d] = since[d] \cup {"failed"}]
      /\ checks' = RemoveAt(checks, i)
      /\ UNCHANGED <<open, file, timer>>
  BY <1>2 DEF CheckFails
<1>5. since' \in [Docs -> SUBSET Trouble] /\ "failed" \in since'[d]
  BY <1>2, <1>4 DEF EditorInv, EditorTypeOK, Trouble
<1>6. EditorTypeOK'
  BY <1>2, <1>3, <1>4, <1>5, Ended DEF EditorInv, EditorTypeOK
<1>7. ASSUME NEW e \in Docs, since'[e] = {}
      PROVE  Fresh(e)'
  <2>1. e # d
    BY <1>5, <1>7
  <2>2. since[e] = {} /\ shown'[e] = shown[e]
    BY <2>1, <1>2, <1>3, <1>4, <1>7 DEF EditorInv, EditorTypeOK
  <2> QED  BY <2>1, <2>2, <1>2, <1>4, OthersFresh
<1> QED  BY <1>6, <1>7 DEF EditorInv, FreshInv

LEMMA EditorSteps == EditorInv /\ [EditorNext]_editorVars => EditorInv'
<1> SUFFICES ASSUME EditorInv, [EditorNext]_editorVars
             PROVE  EditorInv'
  OBVIOUS
<1>1. ASSUME NEW d \in Docs, Open(d) \/ Save(d) \/ Change(d) \/ Close(d) \/ CheckFile(d)
      PROVE  EditorInv'
  BY <1>1, OpenKeeps, SaveKeeps, ChangeKeeps, CloseKeeps, CheckFileKeeps
<1>2. CASE TimerFires
  BY <1>2, TimerKeeps
<1>3. ASSUME NEW i \in DOMAIN checks, Read(i) \/ Exit(i) \/ Killed(i) \/ Missing(i)
      PROVE  EditorInv'
  <2>1. Nothing \in Seq(Nat) /\ Partial \in Seq(Nat)
    BY DEF Nothing, Partial
  <2>2. CASE Killed(i)
    BY <2>1, <2>2, FailKeeps DEF Killed
  <2>3. CASE Missing(i)
    BY <2>1, <2>3, FailKeeps DEF Missing
  <2> QED  BY <1>3, <2>2, <2>3, ReadKeeps, ExitKeeps
<1>4. CASE UNCHANGED editorVars
  <2>1. UNCHANGED <<open, file, shown, checks, timer, since>>
    BY <1>4 DEF editorVars
  <2>2. FreshInv'
    BY <2>1, Left
  <2> QED  BY <2>1, <2>2 DEF EditorInv, EditorTypeOK
<1> QED  BY <1>1, <1>2, <1>3, <1>4 DEF EditorNext

\* The result that stays at an open document is that of its program as it is on disk
\* (extension.js:90), for any documents, imports and settings and any number of checks at
\* once, unless one of the three causes that StaleHasCause lists came in between.
THEOREM ResultsAreCurrent == EditorSpec => []StaleHasCause
<1>1. EditorInv => StaleHasCause
  BY DEF EditorInv, EditorTypeOK, FreshInv, Fresh, StaleHasCause
<1> QED  BY <1>1, StartsWell, EditorSteps, PTL DEF EditorSpec
=============================================================================
