------------------------------- MODULE MCRepl -------------------------------
(***************************************************************************)
(* The lines of the sessions of the run Repl.                              *)
(***************************************************************************)
EXTENDS Repl

S(op, name, of) == [op |-> op, name |-> name, of |-> of]

Says(names) == {<<S("let", x, "data")>> : x \in names}

LinesDef ==
  Says({"x", "len", "main"}) \cup
  {<<S("use", "x", None)>>,
   <<S("let", "x", "func"), S("use", "x", None)>>,
   <<S("own", "x", None), S("own", "B", None)>>,
   <<S("func", "len", None)>>,
   <<S("func", "v", None)>>,
   <<S("use", "len", None), S("let", "v", "data")>>,
   <<S("func", "main", None)>>,
   <<S("let", "main", "func"), S("fail", "x", None)>>,
   <<S("let", "x", "thread")>>,
   <<S("let", "len", "data"), S("func", "x", None), S("let", "y", "thread"), S("use", "x", None)>>,
   <<S("let", "len", "data"), S("let", "x", "thread"), S("func", "x", None), S("fail", "x", None)>>,
   <<S("class", "B", None), S("use", "B", None)>>,
   <<S("class", "B", "C"), S("class", "C", "B"), S("own", "B", None)>>,
   <<S("class", "C", "B"), S("func", "x", None), S("pass", "C", "x"), S("pass", "C", "C")>>,
   <<S("class", "C", "B"), S("class", "B", None), S("let", "y", "func"), S("pass", "C", "y")>>,
   <<S("class", "C", None), S("pass", "C", "x")>>,
   <<S("class", "C", None), S("pass", "C", "B")>>}
=============================================================================
