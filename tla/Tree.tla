-------------------------------- MODULE Tree --------------------------------
(***************************************************************************)
(* The syntax tree (src/include/ast.hpp) as the module Parser builds it: a *)
(* node is <<kind, parts>>, a name or literal <<"text", t>>, and a missing *)
(* part is the node "None".  Also the names the global scope starts with.  *)
(***************************************************************************)
EXTENDS Integers, Sequences, SequencesExt

\* F(x).  x is bound to its value first: a walk nests many of these, and TLC would
\* else compute x again at each use of it, deep inside F.
With_(x, F(_)) == CHOOSE r \in {F(t) : t \in {x}} : TRUE

\* s after F for each of ns, in their order.
InTurn(F(_, _), s, ns) ==
  LET after[i \in 0..Len(ns)] == IF i = 0 THEN s ELSE With_(after[i - 1], LAMBDA t : F(t, ns[i]))
  IN  after[Len(ns)]

Kind(n)    == n[1]
Parts(n)   == n[2]
Part(n, i) == n[2][i]
Word(n, i) == n[2][i][2]
Has(n, i)  == n[2][i][1] # "None"
From(n, i) == SubSeq(n[2], i, Len(n[2]))
OfKinds(ns, kinds) == SelectSeq(ns, LAMBDA m : Kind(m) \in kinds)

Functions_ == {"Func", "AsyncFunc"}
IsIdent(n) == Kind(n) = "Ident"

\* A parameter is <<mut, name, type, default>>; the default is read by nobody.
ParamName(p) == Word(p, 2)
ParamMut(p)  == Word(p, 1) = "mut"

\* The conditions and bodies of an if alternate, the condition of else is None.
Branches(n) == [i \in 1..(Len(Parts(n)) \div 2) |-> <<Part(n, 2 * i - 1), Part(n, 2 * i)>>]

\* The decimal literals of the programs.
Number(t) == CHOOSE k \in 0..9 : ToString(k) = t

Builtins == {"print", "len", "push", "is_null"}
=============================================================================
