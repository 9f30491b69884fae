------------------------------ MODULE MoveCheck ------------------------------
(***************************************************************************)
(* The two halves of move tracking.  Sema reads the statements once, in the *)
(* order of the text, and keeps a flag is_moved per variable; the           *)
(* interpreter executes them in the order of the program's control flow and *)
(* keeps a flag on the owned object, which several variables may share.     *)
(*                                                                          *)
(* The statements are those that matter to the tracking: move(x, _), a use  *)
(* of x, x = own(..), and y = x.  The statements from `first` on are the body of  *)
(* a loop (0: there is none), for which Sema has only a warning.            *)
(***************************************************************************)
EXTENDS Naturals, Sequences

CONSTANTS Vars,      \* the owned variables of the program
          Null,
          Kinds,     \* the statements it uses
          MaxText,   \* bound: statements in the text
          MaxSteps   \* bound: statements executed

ASSUME VarsAssumption == Vars \intersect Nat = {} /\ Null \notin Vars \union Nat
ASSUME KindsAssumption == Kinds \subseteq {"move", "use", "fresh", "alias"}
ASSUME BoundsAssumption == MaxText \in Nat /\ MaxSteps \in Nat

VARIABLES text,      \* the statements Sema has visited
          isMoved,   \* history: Symbol::is_moved before each of them, and now
          rejected,  \* Sema reported a use of a moved value
          warned,    \* Sema warned of a move inside a loop
          first,     \* where the loop begins, 0 without one
          pc,        \* 0 while Sema runs; the statement executed next
          env,       \* the object each variable holds, Null once it was moved from
          moved,     \* the objects whose OwnedValue::moved is set
          made,      \* the objects made so far
          outcome    \* "fine", "panic", or "silent": a moved variable read as null

vars == <<text, isMoved, rejected, warned, first, pc, env, moved, made, outcome>>
sema == <<text, isMoved, rejected, warned, first>>
run  == <<pc, env, moved, made, outcome>>

\* The first object of a variable is named after it, a later one is a number.
Objects == Vars \union Nat
Stmt(k, x, y) == [kind |-> k, var |-> x, to |-> y]
Stmts ==
  {Stmt(k, x, x) : k \in Kinds \ {"alias"}, x \in Vars} \union
  {Stmt(k, p[1], p[2]) : k \in Kinds \intersect {"alias"},
                         p \in {q \in Vars \X Vars : q[1] # q[2]}}

Flags == isMoved[Len(isMoved)]

-----------------------------------------------------------------------------
(* Mutated forms *)

\* An assignment leaves is_moved as it was (the false alarm of CHANGELOG.md).
FlagsAfterKept(m, s) == IF s.kind = "move" THEN m \union {s.var} ELSE m

\* Reading a moved variable falls through.
MisusedReadAllowed(m, s) == s.kind = "move" /\ s.var \in m

\* The loop is noted after the first statement of its body was visited.
WarnsLate(s) == s.kind = "move" /\ first # 0 /\ Len(text) + 1 > first

-----------------------------------------------------------------------------
(* Sema: infer of MoveExpr, infer_ident, infer_assign *)

\* "is moved inside a loop but declared outside it"
Warns(s) == s.kind = "move" /\ first # 0 /\ Len(text) + 1 >= first

Misused(m, s) == s.kind \in {"move", "use", "alias"} /\ s.var \in m

FlagsAfter(m, s) ==
  CASE s.kind = "move"  -> m \union {s.var}
    [] s.kind = "fresh" -> m \ {s.var}
    [] s.kind = "alias" -> m \ {s.to}
    [] s.kind = "use"   -> m

Init ==
  /\ text = <<>>
  /\ isMoved = <<{}>>
  /\ rejected = FALSE
  /\ warned = FALSE
  /\ first \in 0..MaxText
  /\ pc = 0
  /\ made = 0
  /\ env = [x \in Vars |-> x]
  /\ moved = {}
  /\ outcome = "fine"

Visit(s) ==
  /\ pc = 0 /\ Len(text) < MaxText
  /\ text' = Append(text, s)
  /\ rejected' = (rejected \/ Misused(Flags, s))
  /\ warned' = (warned \/ Warns(s))
  /\ isMoved' = Append(isMoved, FlagsAfter(Flags, s))
  /\ UNCHANGED <<first, run>>

-----------------------------------------------------------------------------
(* The interpreter *)

\* All variables were declared with `own` before.  (A program that Sema
\* rejects is never run; it is here, to see what it would have done.)
Start ==
  /\ pc = 0
  /\ pc' = 1
  /\ UNCHANGED <<sema, env, moved, made, outcome>>

\* The objects a move marks: OwnedValue::moved belongs to the object.
Marks(obj) == {obj}

Executing == pc \in 1..Len(text) /\ outcome = "fine" /\ made < MaxSteps
Now == text[pc]
Live(x) == env[x] # Null /\ env[x] \notin moved
GoOn == pc' = pc + 1 /\ made' = made + 1

\* move: a null or a moved object is a panic, anything else is taken.
ExecMove ==
  /\ Executing /\ Now.kind = "move" /\ Live(Now.var)
  /\ moved' = moved \union Marks(env[Now.var])
  /\ env' = [env EXCEPT ![Now.var] = Null]
  /\ GoOn
  /\ UNCHANGED <<sema, outcome>>

ExecFresh ==
  /\ Executing /\ Now.kind = "fresh"
  /\ env' = [env EXCEPT ![Now.var] = made + 1]
  /\ GoOn
  /\ UNCHANGED <<sema, moved, outcome>>

\* A use reads the variable, an alias copies what it reads.
ExecRead ==
  /\ Executing /\ Now.kind \in {"use", "alias"} /\ Live(Now.var)
  /\ env' = IF Now.kind = "alias" THEN [env EXCEPT ![Now.to] = env[Now.var]] ELSE env
  /\ GoOn
  /\ UNCHANGED <<sema, moved, outcome>>

\* "Use of moved value": the flag is set, or a move finds null.
ExecPanic ==
  /\ Executing /\ Now.kind # "fresh"
  /\ \/ env[Now.var] \in moved
     \/ env[Now.var] = Null /\ Now.kind = "move"
  /\ outcome' = "panic"
  /\ UNCHANGED <<sema, pc, env, moved, made>>

\* A nullified variable reads as null.
ExecNull ==
  /\ Executing /\ Now.kind \in {"use", "alias"} /\ env[Now.var] = Null
  /\ outcome' = "silent"
  /\ UNCHANGED <<sema, pc, env, moved, made>>

\* The end of the loop's body.
Repeat ==
  /\ first # 0 /\ pc = Len(text) + 1 /\ first < pc /\ made < MaxSteps
  /\ pc' = first
  /\ UNCHANGED <<sema, env, moved, made, outcome>>

Stop == pc # 0 /\ UNCHANGED vars

Next ==
  \/ \E s \in Stmts : Visit(s)
  \/ Start
  \/ ExecMove \/ ExecFresh \/ ExecRead \/ ExecPanic \/ ExecNull \/ Repeat \/ Stop

Spec == Init /\ [][Next]_vars

-----------------------------------------------------------------------------
TypeOK ==
  /\ text \in Seq(Stmts) /\ Len(text) <= MaxText
  /\ isMoved \in Seq(SUBSET Vars) /\ Len(isMoved) = Len(text) + 1
  /\ rejected \in BOOLEAN /\ warned \in BOOLEAN
  /\ first \in 0..MaxText
  /\ pc \in 0..(Len(text) + 1)
  /\ env \in [Vars -> Objects \union {Null}]
  /\ moved \subseteq Objects
  /\ made \in 0..MaxSteps
  /\ outcome \in {"fine", "panic", "silent"}

\* Sema's flags belong to variables: what an alias reaches is not tracked.
Unaliased == \A i \in DOMAIN text : text[i].kind # "alias"

\* "Using a variable after it's been moved -> error; moving an already-moved
\* variable again -> error; moving a variable inside a loop -> warning": a
\* program with neither an error nor that warning meets no moved value when it
\* runs, however often its loop does.
UnwarnedIsSafe == ~rejected /\ ~warned /\ Unaliased => outcome = "fine"

\* "Reassigning a moved variable with = clears its moved status": a program
\* that Sema rejects would have met a moved value.
RejectedIsMisuse ==
  rejected /\ Unaliased => ~(pc = Len(text) + 1 /\ outcome = "fine")

\* "Use-after-move is detected at runtime": even through an alias, a program
\* without an error or a warning that uses a moved value stops, it does not go
\* on with null.
UseAfterMoveDetected == ~rejected /\ ~warned => outcome # "silent"

=============================================================================
