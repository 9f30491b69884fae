-------------------------------- MODULE Build --------------------------------
(***************************************************************************)
(* cmd_build of src/src/main.cpp after cmd_run: an accepted tree is         *)
(* compiled, and the text runs on a machine with the registers rax, rbx,    *)
(* rbp, rsp, those of the arguments, and a memory of words.  The runtime    *)
(* library (src/runtime/aegis_runtime.c) counts the calls, prints, and      *)
(* hands cells out and takes them back.  The properties compare what the    *)
(* text does with what the interpreter does.                                *)
(*                                                                          *)
(* Addresses grow with the stack here: slot k of a frame is the word fp + k *)
(* and a push writes the word sp + 1.                                       *)
(***************************************************************************)
EXTENDS Checked, Codegen

CONSTANTS Stale,        \* what a word may hold that nothing has written
          MaxCells      \* bound: cells that are live at one time

VARIABLES code, cpu

bvars == <<vars, code, cpu>>

Off == [pc |-> 0, fp |-> 0, sp |-> 0, rax |-> 0, rbx |-> 0, args |-> << >>, mem |-> << >>, globals |-> << >>,
        stale |-> 0, depth |-> 0, live |-> {}, owed |-> {}, out |-> << >>, end |-> ""]

BuildInit == Init /\ code = << >> /\ cpu = Off

\* Return addresses and cells are told apart from the numbers of a program.
ReturnTo(pc) == 200 + pc
Cell(k)      == 100 + k

Find(text, mark) == CHOOSE i \in DOMAIN text : text[i] = mark

\* What the module Codegen does not follow.
Uncovered == {"Str", "Char", "List", "Map", "Lambda", "Class", "Index", "Field", "Scope", "Optional", "Asm"}
Callable  == {"print"} \cup {Word(f, 1) : f \in All(Functions_)}
Covered   == /\ "main" \in Callable
             /\ \A n \in Nodes(program) :
                  /\ Kind(n) \notin Uncovered
                  /\ Kind(n) = "Call" => IsIdent(Part(n, 1)) /\ Word(Part(n, 1), 1) \in Callable
                  /\ IsIdent(n) => Word(n, 1) \notin Builtins \ {"print"}

\* The assembler refuses a name that is defined twice, the linker one that is not.
Links(text) ==
  LET Told(ops) == SelectSeq(text, LAMBDA ins : ins[1] \in ops)
      funcs     == Told({"func"})
  IN  /\ Cardinality(Range(funcs)) = Len(funcs)
      /\ {ins[2] : ins \in Range(Told({"loadGlobal", "storeGlobal"}))} \subseteq Globals

\* cmd_build after cmd_run.  The startup code of C calls main.
Compile == /\ phase = "executed"
           /\ Covered
           /\ code' = Generate(program)
           /\ Links(code')
           /\ \E w \in Stale :
                cpu' = [Off EXCEPT !.pc = Find(code', <<"func", "main">>), !.sp = 1, !.mem = <<ReturnTo(0)>>,
                                   !.stale = w, !.rax = w, !.rbx = w, !.args = [i \in 1..ArgRegs |-> w]]
           /\ phase' = "running"
           /\ UNCHANGED <<program, errors, types, result>>

-----------------------------------------------------------------------------
(***************************************************************************)
(* The machine.                                                            *)
(***************************************************************************)
Read(c, a)     == IF a \in DOMAIN c.mem THEN c.mem[a] ELSE c.stale
Write(c, a, w) == [c EXCEPT !.mem = (a :> w) @@ @]
PushWord(c, w)     == [Write(c, c.sp + 1, w) EXCEPT !.sp = @ + 1]
Slot(c, k)     == Read(c, c.fp + k)

ToNumber(b) == IF b THEN 1 ELSE 0

Compute(op, a, b) ==
  CASE op = "+" -> a + b
    [] op = "-" -> a - b
    [] op = "*" -> a * b
    [] op = "/" -> Div(a, b)
    [] op = "%" -> a - b * Div(a, b)
    [] op \in {"==", "!="} -> ToNumber((op = "==") = (a = b))
    [] op \in {"<", ">", "<=", ">="} -> ToNumber(Ordered(op, a, b))

Effect(c, op, ins) ==
  CASE op = "set"         -> [c EXCEPT !.rax = ins[2]]
    [] op \in {"load", "recall"} -> [c EXCEPT !.rax = Slot(c, ins[2])]
    [] op \in {"store", "keep"}  -> Write(c, c.fp + ins[2], c.rax)
    [] op = "clear"       -> Write(c, c.fp + ins[2], 0)
    [] op = "increment"   -> Write(c, c.fp + ins[2], Slot(c, ins[2]) + 1)
    [] op = "loadGlobal"  -> [c EXCEPT !.rax = IF ins[2] \in DOMAIN c.globals THEN c.globals[ins[2]] ELSE 0]
    [] op = "storeGlobal" -> [c EXCEPT !.globals = (ins[2] :> c.rax) @@ @]
    [] op = "toRbx"       -> [c EXCEPT !.rbx = c.rax]
    [] op = "binary"      -> [c EXCEPT !.rax = Compute(ins[2], c.rax, c.rbx)]
    [] op = "unary"       -> [c EXCEPT !.rax = CASE ins[2] = "-" -> -c.rax
                                                 [] ins[2] = "~" -> -c.rax - 1
                                                 [] ins[2] = "!" -> ToNumber(c.rax = 0)]
    [] op = "push"        -> PushWord(c, c.rax)
    [] op = "pop"         -> [c EXCEPT !.rax = Read(c, c.sp), !.sp = @ - 1]
    [] op = "drop"        -> [c EXCEPT !.sp = @ - ins[2]]
    [] op = "address"     -> [c EXCEPT !.rax = c.fp + ins[2]]
    [] op = "fill"        -> [Write(c, Slot(c, ins[2]), c.rax) EXCEPT !.rax = Slot(c, ins[2])]
    [] op = "enter"       -> [PushWord(c, c.fp) EXCEPT !.fp = c.sp + 1]
    [] op = "reserve"     -> [c EXCEPT !.sp = c.fp + FrameSlots]
    [] op = "arg"         -> Write(c, c.fp + ins[3], c.args[ins[2]])
    [] op = "toArg"       -> [c EXCEPT !.args[ins[2]] = Slot(c, ins[3])]
    [] op \in {"label", "func"} -> c

Jumps == {"jump", "jumpIfZero", "jumpIfNot", "jumpIf"}
Calls == {"call", "ret", "countIn", "countOut", "print", "malloc", "free"}

Faults(c, op, ins) == op = "binary" /\ ins[2] \in {"/", "%"} /\ c.rbx = 0

\* How the process ends, if this is where it does.
Runs(c) == phase = "running" /\ cpu' = c /\ UNCHANGED <<program, phase, errors, types, result, code>>
Ends(c, how) == /\ phase = "running"
                /\ phase' = "halted"
                /\ cpu' = [c EXCEPT !.end = how]
                /\ UNCHANGED <<program, errors, types, result, code>>
Next_(c) == [c EXCEPT !.pc = @ + 1]

\* A call of C keeps rbx and rbp, but neither rax nor the argument registers.
Clobbered(c) == [c EXCEPT !.rax = c.stale, !.args = [i \in 1..ArgRegs |-> c.stale]]

Instruction ==
  /\ phase = "running"
  /\ LET ins == code[cpu.pc]
     IN  /\ ins[1] \notin Jumps \cup Calls
         /\ IF Faults(cpu, ins[1], ins) THEN Ends(cpu, "killed") ELSE Runs(Next_(Effect(cpu, ins[1], ins)))

Jump ==
  /\ phase = "running"
  /\ LET ins   == code[cpu.pc]
         taken == CASE ins[1] = "jump" -> TRUE
                    [] ins[1] = "jumpIfZero" -> cpu.rax = 0
                    [] ins[1] = "jumpIfNot"  -> cpu.rax # 0
                    [] ins[1] = "jumpIf"     -> Compute(ins[2], cpu.rax, cpu.rbx) = 1
     IN  /\ ins[1] \in Jumps
         /\ Runs(IF taken THEN [cpu EXCEPT !.pc = Find(code, <<"label", Last(ins)>>)] ELSE Next_(cpu))

CallFunction ==
  /\ phase = "running"
  /\ code[cpu.pc][1] = "call"
  /\ Runs([PushWord(cpu, ReturnTo(cpu.pc + 1)) EXCEPT !.pc = Find(code, <<"func", code[cpu.pc][2]>>)])

\* leave and ret; what is no return address leads out of the text.
Leave ==
  /\ phase = "running"
  /\ code[cpu.pc][1] = "ret"
  /\ LET to   == Read(cpu, cpu.fp - 1)
         back == [cpu EXCEPT !.fp = Read(cpu, cpu.fp), !.sp = cpu.fp - 2, !.pc = to - ReturnTo(0)]
     IN  CASE to = ReturnTo(0) -> Ends(back, "exit")
           [] to > ReturnTo(0) -> Runs(back)
           [] to < ReturnTo(0) -> Ends(cpu, "crash")

(***************************************************************************)
(* The runtime library.                                                    *)
(***************************************************************************)
CountIn ==
  /\ phase = "running"
  /\ code[cpu.pc][1] = "countIn"
  /\ LET counted == Clobbered([cpu EXCEPT !.depth = @ + 1])
     IN  IF counted.depth > MaxCallDepth THEN Ends(counted, "depth") ELSE Runs(Next_(counted))

CountOut ==
  /\ phase = "running"
  /\ code[cpu.pc][1] = "countOut"
  /\ Runs(Next_(Clobbered([cpu EXCEPT !.depth = @ - 1])))

PrintFirst ==
  /\ phase = "running"
  /\ code[cpu.pc][1] = "print"
  /\ LET w == cpu.args[1]
         shown == IF ~code[cpu.pc][2] THEN ToString(w) ELSE IF w # 0 THEN "true" ELSE "false"
     IN  Runs(Next_(Clobbered([cpu EXCEPT !.out = Append(@, shown)])))

\* What was taken back is handed out again.  owed: the cells made in a region.
Malloc ==
  /\ phase = "running"
  /\ code[cpu.pc][1] = "malloc"
  /\ Cardinality(cpu.live) < MaxCells
  /\ LET a == Min({Cell(k) : k \in 1..MaxCells} \ cpu.live)
     IN  Runs(Next_([Clobbered(cpu) EXCEPT !.rax = a, !.live = @ \cup {a},
                                           !.owed = IF code[cpu.pc][2] > 0 THEN @ \cup {a} ELSE @ \ {a}]))

\* free(0) is nothing; anything else that is no live cell ends the process.
Free ==
  /\ phase = "running"
  /\ code[cpu.pc][1] = "free"
  /\ LET a == Slot(cpu, code[cpu.pc][2])
     IN  IF a \notin cpu.live \cup {0} THEN Ends(cpu, "abort")
         ELSE Runs(Next_([Clobbered(cpu) EXCEPT !.live = @ \ {a}]))

Execute_ == Instruction \/ Jump \/ CallFunction \/ Leave \/ CountIn \/ CountOut \/ PrintFirst \/ Malloc \/ Free

BuildNext == \/ (Check \/ Interpret) /\ UNCHANGED <<code, cpu>>
             \/ Compile
             \/ Execute_

BuildSpec == BuildInit /\ [][BuildNext]_bvars

-----------------------------------------------------------------------------
(***************************************************************************)
(* The forms that mean something else in the text.                         *)
(***************************************************************************)
\* The locals end before the first temporary, the temporaries in the frame.
Fits == \A ins \in Range(code) :
          /\ ins[1] \in {"store", "clear"} => ins[2] < ScratchSlot
          /\ ins[1] = "keep" => ins[2] <= FrameSlots

Declares(n) == {Word(m, 3) : m \in {v \in Nodes(n) : Kind(v) = "Var"}}
          \cup {Word(m, 1) : m \in {v \in Nodes(n) : Kind(v) = "ForIn"}}

\* A declaration hides another: the text has one name for both.
Hides == \/ \E f \in All(Functions_) : Params(f) \cap Declares(f) # {}
         \/ \E n \in All({"ForIn"}) : Word(n, 1) \in Declares(Part(n, 3))
         \/ \E b \in All({"Block"}) : \E i, j \in DOMAIN Parts(b) :
              i # j /\ Kind(Part(b, i)) = "Var" /\ Word(Part(b, i), 3) \in Declares(Part(b, j))

\* The value of a function that does not say what it returns, print among them.
Silent   == {"print"} \cup {Word(f, 1) : f \in {g \in All(Functions_) : ~Says(g)}}
IsCall(n) == Kind(n) = "Call" /\ IsIdent(Callee(n))
Valued   == UNION {Range(Parts(n)) : n \in {m \in Nodes(program) : Kind(m) \notin {"ExprStmt", "text"}}}
Unsaid   == \E c \in Valued : IsCall(c) /\ Word(Part(c, 1), 1) \in Silent

\* A cell used for more than to be made.
UsesCell == \E v \in All({"Var"}) : Kind(Part(v, 5)) = "Own" /\ Uses(program, Word(v, 3))

\* What both treat alike, one form at a time: numbers of the type int, variables with a
\* value, calls with every argument, ranges where they are run through or matched.
AlikeKinds == {"Program", "Func", "Params", "Param", "TypeName", "Block", "Var", "ExprStmt", "Return", "If", "While",
               "Loop", "ForIn", "Range", "Match", "Arm", "Region", "Break", "Continue", "Ident", "Int", "Bool",
               "Binary", "Unary", "Assign", "Ternary", "Call", "Own", "None", "text"}

\* A truth value is a number in the text: it is only asked for and shown.
RECURSIVE IsBool(_)
IsBool(e) == \/ Kind(e) = "Bool"
             \/ Kind(e) = "Binary" /\ Word(e, 2) \in Tests
             \/ Kind(e) = "Unary" /\ Word(e, 1) = "!"
             \/ Kind(e) = "Ternary" /\ (IsBool(Part(e, 2)) \/ IsBool(Part(e, 3)))
TakesBool(n) == \/ Kind(n) \in {"ExprStmt", "If", "While", "Ternary"}
                \/ Kind(n) = "Binary" /\ Word(n, 2) \in {"&&", "||"}
                \/ Kind(n) = "Unary" /\ Word(n, 1) = "!"
                \/ Calls_(n, "print")

Arity(x) == {Len(Parts(Part(f, 2))) : f \in {g \in All(Functions_) : Word(g, 1) = x}}
Runs_(n, m) ==
  /\ IsBool(m) => TakesBool(n)
  /\ Kind(m) = "Range" => Kind(n) \in {"ForIn", "Arm"} /\ Word(m, 2) # "="
  /\ Kind(m) = "Own" => Kind(n) \in {"Var", "ExprStmt"}
IsAlike(n) ==
  /\ Kind(n) \in AlikeKinds
  /\ Kind(n) # "text" => \A m \in Range(Parts(n)) : Runs_(n, m)
  /\ CASE Kind(n) = "TypeName" -> n = <<"TypeName", <<<<"text", "int">>>>>>
       [] Kind(n) = "Var"    -> Has(n, 5)
       [] Kind(n) = "Assign" -> IsIdent(Part(n, 1))
       [] Kind(n) = "ForIn"  -> Kind(Part(n, 2)) = "Range"
       [] Kind(n) = "Arm"    -> Kind(Part(n, 1)) = "Range" =>
                                  {Kind(Part(Part(n, 1), 1)), Kind(Part(Part(n, 1), 3))} \subseteq {"Int", "Ident"}
       [] Kind(n) = "Call"   -> /\ Len(Parts(n)) - 1 <= ArgRegs
                                /\ {Len(Parts(n)) - 1} = IF Calls_(n, "print") THEN {1} ELSE Arity(Word(Callee(n), 1))
       [] Kind(n) = "Func"   -> Word(n, 1) \notin Builtins /\ "self" \notin Params(n)
       [] OTHER -> TRUE

\* The nodes of n that are in no region inside n.
RECURSIVE Here(_)
Here(n) == {n} \cup IF Kind(n) \in {"text", "Region"} THEN {} ELSE UNION {Here(m) : m \in Range(Parts(n))}

Loops == {"While", "ForIn", "Loop"}
RECURSIVE JumpsOut(_, _)
JumpsOut(n, looped) ==
  \/ Kind(n) = "Return"
  \/ Kind(n) \in {"Break", "Continue"} /\ ~looped
  \/ Kind(n) # "text" /\ \E m \in Range(Parts(n)) : JumpsOut(m, looped \/ Kind(n) \in Loops)

\* An own that is not made exactly once each time the region is run through.
Branching(n) == \/ Kind(n) \in Loops \cup {"If", "Match", "Ternary"}
                \/ Kind(n) = "Binary" /\ Word(n, 2) \in {"&&", "||"}
Sometimes(r) == \E n \in Here(Part(r, 2)) : Branching(n) /\ \E m \in Here(n) : Kind(m) = "Own"

OnlyFunctions == \A n \in Range(Parts(program)) : Kind(n) \in Functions_

Alike == /\ OnlyFunctions /\ Nested = {} /\ Fits
         /\ ~Hides /\ ~Unsaid /\ ~UsesCell
         /\ \A r \in All({"Region"}) : ~Sometimes(r)
         /\ \A n \in Nodes(program) : IsAlike(n)
         /\ Arity("main") = {0}

Shown(t) == CASE t = "true" -> "1" [] t = "false" -> "0" [] OTHER -> t

Endings == [running |-> "exit", zero |-> "killed", depth |-> "depth"]
EndOf(stop) == IF stop = Running THEN "exit"
               ELSE IF stop[1] = "panic" /\ stop[2] \in DOMAIN Endings THEN Endings[stop[2]] ELSE "other"

\* A compiled program of these forms prints what the interpreter prints, but for the
\* spelling of truth values, and ends as it does: where the one panics for a zero
\* divisor or the call depth the other is stopped there too, and no word is read that
\* nothing wrote.  Programs the interpreter ends in another way are left out; the exit
\* status is not compared, the limits of the integers are in CheckedArith, and no
\* function has the name of one of the C library.
Agrees ==
  phase = "halted" /\ EndOf(result.stop) # "other" /\ Alike =>
    /\ cpu.end = EndOf(result.stop)
    /\ [i \in DOMAIN cpu.out |-> Shown(cpu.out[i])] = [i \in DOMAIN result.out |-> Shown(result.out[i][1][1])]

\* A cell made in a region is live no more when the program has come to its end, and
\* nothing is freed twice or without having been made (README.md: "region frees
\* own<T>"), but for a region that is left by a jump and an own that is in a branch or
\* a loop of it.
RegionsFree ==
  /\ phase = "halted"
  /\ cpu.end \in {"exit", "abort", "crash"}
  /\ Nested = {} /\ Fits
  /\ \A r \in All({"Region"}) : ~JumpsOut(r, FALSE) /\ ~Sometimes(r)
  => cpu.end = "exit" /\ cpu.owed \cap cpu.live = {}
=============================================================================
