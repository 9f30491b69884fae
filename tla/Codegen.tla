------------------------------- MODULE Codegen -------------------------------
(***************************************************************************)
(* The native code generator (src/src/codegen.cpp), for integers, booleans  *)
(* and owned values.  A walk takes the text generated so far together with  *)
(* what the generator knows of the function at hand, and returns both after *)
(* it.  The result of an expression is left in rax.                         *)
(*                                                                          *)
(* A frame is the words 1, 2, ... below rbp: the locals from 1 on and the   *)
(* temporaries from ScratchSlot on, which are stored with "keep".  Strings, *)
(* floats, lists, lambdas and the members of classes are left out; overflow  *)
(* is in CheckedArith.                                                      *)
(***************************************************************************)
EXTENDS Tree

CONSTANTS ScratchSlot,  \* 40: the first temporary is at rbp - 320
          FrameSlots,   \* 64: 512 bytes
          ArgRegs       \* 6: arguments that are passed in registers

ASSUME FrameAssumption == ScratchSlot \in 1..FrameSlots /\ ArgRegs \in Nat

(***************************************************************************)
(* The generator: FnCtx, the loop stack, the label counter and the text.    *)
(***************************************************************************)
Context == [vars |-> << >>, next |-> 1, scratch |-> ScratchSlot, owned |-> << >>, regions |-> 0]

Blank == [fn |-> Context, loops |-> << >>, labels |-> 0, code |-> << >>]

Emit(g, instructions) == [g EXCEPT !.code = @ \o instructions]

\* alloc_local: a name has the slot it was given last, whatever block that was in.
Local(g, x) == [g EXCEPT !.fn.vars = (x :> g.fn.next) @@ @, !.fn.next = @ + 1]
Hidden(g)   == [g EXCEPT !.fn.next = @ + 1]    \* for __for_end_x, __match_subj__ and __own_n
Take(g)     == [g EXCEPT !.fn.scratch = @ + 1]
Release(g, k) == [g EXCEPT !.fn.scratch = @ - k]
Labels(g, k)  == [g EXCEPT !.labels = @ + k]
InLoop(g, continue, break) == [g EXCEPT !.loops = Append(@, <<continue, break>>)]
LeaveLoop(g)  == [g EXCEPT !.loops = Front(@)]

\* A name that is no local is a word of its own, which starts as zero.
LoadVar(g, x)  == Emit(g, <<IF x \in DOMAIN g.fn.vars THEN <<"load", g.fn.vars[x]>> ELSE <<"loadGlobal", x>>>>)
StoreVar(g, x) == Emit(g, <<IF x \in DOMAIN g.fn.vars THEN <<"store", g.fn.vars[x]>> ELSE <<"storeGlobal", x>>>>)

RECURSIVE Gen(_, _), GenStmt(_, _)

GenOptional(g, n, i) == IF Has(n, i) THEN Gen(g, Part(n, i)) ELSE g
GenAll(g, ns) == InTurn(LAMBDA h, n : GenStmt(h, n), g, ns)

(***************************************************************************)
(* Expressions.                                                            *)
(***************************************************************************)
\* && and || leave 1 or 0, and skip the right operand when the left decides.
GenLogic(g, n) ==
  LET out   == g.labels
      end   == g.labels + 1
      skips == IF Word(n, 2) = "&&" THEN "jumpIfZero" ELSE "jumpIfNot"
      both  == IF Word(n, 2) = "&&" THEN 1 ELSE 0
      left  == Emit(Gen(Labels(g, 2), Part(n, 1)), <<<<skips, out>>>>)
  IN  Emit(Gen(left, Part(n, 3)), <<<<skips, out>>, <<"set", both>>, <<"jump", end>>,
                                    <<"label", out>>, <<"set", 1 - both>>, <<"label", end>>>>)

\* The left operand waits in a temporary while the right one is computed.
GenBinary(g, n) ==
  LET left == Emit(Gen(Take(g), Part(n, 1)), <<<<"keep", g.fn.scratch>>>>)
  IN  IF Word(n, 2) \in {"&&", "||"} THEN GenLogic(g, n)
      ELSE Emit(Release(Gen(left, Part(n, 3)), 1),
                <<<<"toRbx">>, <<"recall", g.fn.scratch>>, <<"binary", Word(n, 2)>>>>)

CompoundOp == [op \in {"+=", "-=", "*=", "/=", "%="} |->
                 CASE op = "+=" -> "+" [] op = "-=" -> "-" [] op = "*=" -> "*"
                   [] op = "/=" -> "/" [] op = "%=" -> "%"]

GenAssign(g, n) ==
  LET x     == Word(Part(n, 1), 1)
      right == Gen(g, Part(n, 3))
  IN  StoreVar(IF Word(n, 2) = "=" THEN right
               ELSE Emit(LoadVar(Emit(right, <<<<"toRbx">>>>), x), <<<<"binary", CompoundOp[Word(n, 2)]>>>>), x)

GenTernary(g, n) ==
  LET other == g.labels
      end   == g.labels + 1
      then  == Gen(Emit(Gen(Labels(g, 2), Part(n, 1)), <<<<"jumpIfZero", other>>>>), Part(n, 2))
  IN  Emit(Gen(Emit(then, <<<<"jump", end>>, <<"label", other>>>>), Part(n, 3)), <<<<"label", end>>>>)

\* The cell, then its value.  In a region the pointer has a local of its own, which
\* is freed where the region ends.
GenOwn(g, n) ==
  LET cell == Emit(g, <<<<"malloc", g.fn.regions>>>>)
      init == Emit(Gen(Emit(Take(cell), <<<<"keep", g.fn.scratch>>>>), Part(n, 2)), <<<<"fill", g.fn.scratch>>>>)
      made == IF Has(n, 2) THEN Release(init, 1) ELSE cell
      slot == made.fn.next
  IN  IF g.fn.regions = 0 THEN made
      ELSE [Emit(Hidden(made), <<<<"store", slot>>>>)
              EXCEPT !.fn.owned = Append(@, slot)]

IsLocal(g, e) == IsIdent(e) /\ Word(e, 1) \in DOMAIN g.fn.vars

\* The source is zeroed, the value kept on the stack meanwhile.
GenMove(g, n) ==
  LET source == Part(n, 1)
  IN  IF IsLocal(g, source)
      THEN Emit(Gen(g, source), <<<<"push">>, <<"clear", g.fn.vars[Word(source, 1)]>>, <<"pop">>>>)
      ELSE Gen(g, source)

GenRef(g, n) ==
  LET source == Part(n, 2)
  IN  IF IsLocal(g, source) THEN Emit(g, <<<<"address", g.fn.vars[Word(source, 1)]>>>>)
      ELSE IF IsIdent(source) THEN Emit(g, <<<<"set", 0>>>>)
      ELSE Gen(g, source)

\* Only the first argument is printed.
GenPrint(g, n) ==
  IF Len(Parts(n)) = 1 THEN g
  ELSE Emit(Gen(g, Part(n, 2)), <<<<"keep", g.fn.scratch>>, <<"toArg", 1, g.fn.scratch>>,
                                  <<"print", Kind(Part(n, 2)) = "Bool">>>>)

\* Mutated: a temporary is released as soon as its argument is computed.
GenCallReuses(g, n) ==
  LET args   == From(n, 2)
      inRegs == Min({Len(args), ArgRegs})
      onStack == Len(args) - inRegs
      pad    == onStack % 2
      pushed == InTurn(LAMBDA h, i : Emit(Gen(h, args[Len(args) + 1 - i]), <<<<"push">>>>),
                       Emit(g, [i \in 1..pad |-> <<"push">>]), [i \in 1..onStack |-> i])
      kept   == InTurn(LAMBDA h, i : Emit(Gen(h, args[i]), <<<<"keep", g.fn.scratch>>>>),
                       pushed, [i \in 1..inRegs |-> i])
  IN  Emit(kept, [i \in 1..inRegs |-> <<"toArg", i, g.fn.scratch>>]
                 \o <<<<"call", Word(Part(n, 1), 1)>>, <<"drop", onStack + pad>>>>)

\* What does not fit in registers is pushed, the last one first and padded to an even
\* number.  The others wait in temporaries, so that a call among them disturbs none.
GenCall(g, n) ==
  LET args   == From(n, 2)
      inRegs == Min({Len(args), ArgRegs})
      onStack == Len(args) - inRegs
      pad    == onStack % 2
      slot(i) == g.fn.scratch + i - 1
      pushed == InTurn(LAMBDA h, i : Emit(Gen(h, args[Len(args) + 1 - i]), <<<<"push">>>>),
                       Emit(g, [i \in 1..pad |-> <<"push">>]), [i \in 1..onStack |-> i])
      kept   == InTurn(LAMBDA h, i : Emit(Gen(Take(h), args[i]), <<<<"keep", slot(i)>>>>),
                       pushed, [i \in 1..inRegs |-> i])
  IN  Emit(Release(kept, inRegs),
           [i \in 1..inRegs |-> <<"toArg", i, slot(i)>>]
           \o <<<<"call", Word(Part(n, 1), 1)>>, <<"drop", onStack + pad>>>>)

\* A list, a channel, a scope and what is not known are 0; of a range there is the
\* start, of a field the object.
GenExpr(g, n) ==
  CASE Kind(n) = "Int"  -> Emit(g, <<<<"set", Number(Word(n, 1))>>>>)
    [] Kind(n) = "Bool" -> Emit(g, <<<<"set", IF Word(n, 1) = "true" THEN 1 ELSE 0>>>>)
    [] Kind(n) = "Ident"   -> LoadVar(g, Word(n, 1))
    [] Kind(n) = "Binary"  -> GenBinary(g, n)
    [] Kind(n) = "Unary"   -> Emit(Gen(g, Part(n, 2)), <<<<"unary", Word(n, 1)>>>>)
    [] Kind(n) = "Assign"  -> GenAssign(g, n)
    [] Kind(n) = "Ternary" -> GenTernary(g, n)
    [] Kind(n) = "Own"     -> GenOwn(g, n)
    [] Kind(n) = "Move"    -> GenMove(g, n)
    [] Kind(n) = "Ref"     -> GenRef(g, n)
    [] Kind(n) = "Alloc"   -> GenOptional(g, n, 2)
    [] Kind(n) \in {"Await", "Range", "Field"} -> GenOptional(g, n, 1)
    [] Kind(n) = "Call"    -> IF Word(Part(n, 1), 1) = "print" THEN GenPrint(g, n) ELSE GenCall(g, n)
    [] Kind(n) = "Spawn"   -> Emit(GenStmt(g, Part(n, 1)), <<<<"set", 0>>>>)
    [] OTHER               -> Emit(g, <<<<"set", 0>>>>)

Gen(g, n) == With_(g, LAMBDA h : GenExpr(h, n))

(***************************************************************************)
(* Statements.                                                             *)
(***************************************************************************)
\* The slot is taken before the value is computed.
GenVar(g, n) ==
  LET h == Local(g, Word(n, 3))
  IN  IF Has(n, 5) THEN Emit(Gen(h, Part(n, 5)), <<<<"store", g.fn.next>>>>) ELSE Emit(h, <<<<"clear", g.fn.next>>>>)

GenReturn(g, n) == Emit(GenOptional(g, n, 1), <<<<"push">>, <<"countOut">>, <<"pop">>, <<"ret">>>>)

GenIf(g, n) ==
  LET end == g.labels
      Branch(h, b) ==
        IF Kind(b[1]) = "None" THEN GenStmt(Labels(h, 1), b[2])
        ELSE Emit(GenStmt(Emit(Gen(Labels(h, 1), b[1]), <<<<"jumpIfZero", h.labels>>>>), b[2]),
                  <<<<"jump", end>>, <<"label", h.labels>>>>)
  IN  Emit(InTurn(Branch, Labels(g, 1), Branches(n)), <<<<"label", end>>>>)

GenWhile(g, n) ==
  LET cond == g.labels
      end  == g.labels + 1
      test == Gen(Emit(InLoop(Labels(g, 2), cond, end), <<<<"label", cond>>>>), Part(n, 1))
  IN  LeaveLoop(Emit(GenStmt(Emit(test, <<<<"jumpIfZero", end>>>>), Part(n, 2)),
                     <<<<"jump", cond>>, <<"label", end>>>>))

GenLoop(g, n) ==
  LET top == g.labels
      end == g.labels + 1
  IN  LeaveLoop(Emit(GenStmt(Emit(InLoop(Labels(g, 2), top, end), <<<<"label", top>>>>), Part(n, 1)),
                     <<<<"jump", top>>, <<"label", end>>>>))

\* A range counts in the slot of the variable, up to the end that was computed first
\* and never including it.  Over anything else the body runs once.
GenFor(g, n) ==
  LET cond == g.labels
      end  == g.labels + 1
      incr == g.labels + 2
      x    == g.fn.next
      over == Part(n, 2)
      inside == InLoop(Labels(g, 3), incr, end)
      lo   == Emit(Gen(Hidden(Local(inside, Word(n, 1))), Part(over, 1)), <<<<"store", x>>>>)
      hi   == Emit(Gen(lo, Part(over, 3)), <<<<"store", x + 1>>>>)
      test == Emit(hi, <<<<"label", cond>>, <<"load", x + 1>>, <<"toRbx">>, <<"load", x>>, <<"jumpIf", ">=", end>>>>)
  IN  IF Kind(over) = "Range"
      THEN LeaveLoop(Emit(GenStmt(test, Part(n, 3)),
                          <<<<"label", incr>>, <<"increment", x>>, <<"jump", cond>>, <<"label", end>>>>))
      ELSE LeaveLoop(Emit(GenStmt(inside, Part(n, 3)), <<<<"label", incr>>, <<"label", end>>>>))

\* The lower end of a range is computed twice, the upper end is never included.
GenMatch(g, n) ==
  LET end  == g.labels
      subj == Gen(Labels(g, 1), Part(n, 1))
      slot == subj.fn.next
      Against(h, e, test) == Emit(Gen(h, e), <<<<"toRbx">>, <<"load", slot>>, <<"jumpIf">> \o test>>)
      Arm(h, arm) ==
        LET p    == Part(arm, 1)
            next == h.labels
            new  == Labels(h, 1)
            hit  == CASE Kind(p) = "Range" ->
                           Against(Against(Gen(new, Part(p, 1)), Part(p, 1), <<"<", next>>), Part(p, 3), <<">=", next>>)
                      [] IsIdent(p) /\ Word(p, 1) = "_" -> new
                      [] OTHER -> Against(new, p, <<"!=", next>>)
        IN  Emit(GenStmt(hit, Part(arm, 2)), <<<<"jump", end>>, <<"label", next>>>>)
  IN  Emit(InTurn(Arm, Emit(Hidden(subj), <<<<"store", slot>>>>), From(n, 2)), <<<<"label", end>>>>)

\* Mutated: what the regions around own is freed as well.
GenRegionFreesAll(g, n) ==
  LET inside == GenAll([g EXCEPT !.fn.regions = @ + 1], Parts(Part(n, 2)))
      freed  == Emit(inside, [i \in DOMAIN inside.fn.owned |-> <<"free", inside.fn.owned[i]>>])
  IN  [freed EXCEPT !.fn.owned = g.fn.owned, !.fn.regions = g.fn.regions]

\* What was made in the region, and not in one inside it, is freed where the text of
\* the region ends; a jump out of it goes past that.
GenRegion(g, n) ==
  LET inside == GenAll([g EXCEPT !.fn.owned = << >>, !.fn.regions = @ + 1], Parts(Part(n, 2)))
      freed  == Emit(inside, [i \in DOMAIN inside.fn.owned |-> <<"free", inside.fn.owned[i]>>])
  IN  [freed EXCEPT !.fn.owned = g.fn.owned, !.fn.regions = g.fn.regions]

\* Without a loop around it a break is nothing.
GenJump(g, n) ==
  IF g.loops = << >> THEN g
  ELSE Emit(g, <<<<"jump", Last(g.loops)[IF Kind(n) = "Continue" THEN 1 ELSE 2]>>>>)

\* All parameters but self have a slot, those that come in registers are stored there.
\* A function in a function is emitted where it stands.
GenFunc(g, n) ==
  LET names == SelectSeq([i \in DOMAIN Parts(Part(n, 2)) |-> ParamName(Parts(Part(n, 2))[i])], LAMBDA x : x # "self")
      bound == InTurn(Local, [g EXCEPT !.fn = Context], names)
      enter == Emit(bound, <<<<"func", Word(n, 1)>>, <<"enter">>>>
                           \o [i \in 1..Min({Len(names), ArgRegs}) |-> <<"arg", i, i>>]
                           \o <<<<"reserve">>, <<"countIn">>>>)
  IN  [Emit(GenAll(enter, Parts(Part(n, 4))), <<<<"countOut">>, <<"set", 0>>, <<"ret">>>>) EXCEPT !.fn = g.fn]

GenStmt(g, n) ==
  CASE Kind(n) = "Var"    -> GenVar(g, n)
    [] Kind(n) = "Return" -> GenReturn(g, n)
    [] Kind(n) = "If"     -> GenIf(g, n)
    [] Kind(n) = "While"  -> GenWhile(g, n)
    [] Kind(n) = "Loop"   -> GenLoop(g, n)
    [] Kind(n) = "Match"  -> GenMatch(g, n)
    [] Kind(n) = "Region" -> GenRegion(g, n)
    [] Kind(n) = "Func"   -> GenFunc(g, n)
    [] Kind(n) = "Block"  -> GenAll(g, Parts(n))
    [] Kind(n) = "ExprStmt" -> GenOptional(g, n, 1)
    [] Kind(n) \in {"ForIn", "ParFor"} -> GenFor(g, n)
    [] Kind(n) \in {"Break", "Continue"} -> GenJump(g, n)
    [] Kind(n) \in {"Annotation", "Try", "Throw"} -> g
    [] OTHER -> Gen(g, n)

\* Of a program the functions; the words of its globals are all zero.
Generate(tree) == InTurn(GenFunc, Blank, OfKinds(Parts(tree), Functions_)).code
=============================================================================
