--------------------------- MODULE MoveCheck_proofs ---------------------------
(***************************************************************************)
(* For any number of variables, any text and any number of steps: what Sema *)
(* accepts without a warning meets no moved value (or, with aliases, stops  *)
(* at it), and what it rejects would have met one.                          *)
(***************************************************************************)
EXTENDS MoveCheck, TLAPS

LEMMA StmtType ==
  ASSUME NEW s \in Stmts
  PROVE  /\ s.kind \in {"move", "use", "fresh", "alias"}
         /\ s.var \in Vars /\ s.to \in Vars
BY KindsAssumption DEF Stmts, Stmt

-----------------------------------------------------------------------------
(* Sema *)

\* What the flags, the errors and the warnings say of the text.  Inside the
\* loop of a program without a warning no flag is ever set.
SemaInv ==
  /\ text \in Seq(Stmts)
  /\ isMoved \in Seq(SUBSET Vars) /\ Len(isMoved) = Len(text) + 1
  /\ first \in Nat
  /\ \A i \in 1..Len(text) : isMoved[i + 1] = FlagsAfter(isMoved[i], text[i])
  /\ ~rejected => \A i \in 1..Len(text) : ~Misused(isMoved[i], text[i])
  /\ ~warned /\ first # 0 =>
       \A i, j \in 1..(Len(text) + 1) : first =< i /\ i =< j => isMoved[j] \subseteq isMoved[i]

LEMMA FlagsType ==
  ASSUME NEW m \in SUBSET Vars, NEW s \in Stmts
  PROVE  /\ FlagsAfter(m, s) \in SUBSET Vars
         /\ s.kind # "move" => FlagsAfter(m, s) \subseteq m
BY StmtType DEF FlagsAfter

LEMMA VisitSema ==
  ASSUME SemaInv, NEW s \in Stmts, Visit(s)
  PROVE  SemaInv'
<1> DEFINE n == Len(text)
           flags == FlagsAfter(isMoved[n + 1], s)
<1>1. /\ n \in Nat /\ Len(isMoved) = n + 1
      /\ isMoved[n + 1] \in SUBSET Vars
      /\ flags \in SUBSET Vars
  <2>1. n \in Nat /\ Len(isMoved) = n + 1 /\ isMoved[n + 1] \in SUBSET Vars
    BY DEF SemaInv
  <2> QED
    BY <2>1, FlagsType
<1>2. /\ text' = Append(text, s) /\ isMoved' = Append(isMoved, flags)
      /\ first' = first
      /\ rejected' = (rejected \/ Misused(isMoved[n + 1], s))
      /\ warned' = (warned \/ Warns(s))
  BY <1>1 DEF Visit, Flags
<1>3. /\ text' \in Seq(Stmts) /\ isMoved' \in Seq(SUBSET Vars)
      /\ Len(text') = n + 1 /\ Len(isMoved') = n + 2
      /\ text'[n + 1] = s /\ isMoved'[n + 2] = flags
      /\ \A i \in 1..n : text'[i] = text[i]
      /\ \A i \in 1..(n + 1) : isMoved'[i] = isMoved[i]
  BY <1>1, <1>2 DEF SemaInv
<1> HIDE DEF flags
<1>4. \A i \in 1..Len(text') : isMoved'[i + 1] = FlagsAfter(isMoved'[i], text'[i])
  <2> TAKE i \in 1..Len(text')
  <2>1. CASE i = n + 1
    BY <1>1, <1>3, <2>1 DEF flags
  <2>2. CASE i # n + 1
    <3>1. i \in 1..n /\ i + 1 \in 1..(n + 1) /\ i \in 1..(n + 1)
      BY <1>1, <1>3, <2>2
    <3> QED
      BY <1>3, <3>1 DEF SemaInv
  <2> QED
    BY <2>1, <2>2
<1>5. ASSUME ~rejected', NEW i \in 1..Len(text')
      PROVE  ~Misused(isMoved'[i], text'[i])
  <2>1. CASE i = n + 1
    BY <1>1, <1>2, <1>3, <1>5, <2>1
  <2>2. CASE i # n + 1
    <3>1. i \in 1..n /\ i \in 1..(n + 1)
      BY <1>1, <1>3, <2>2
    <3> QED
      BY <1>2, <1>3, <1>5, <3>1 DEF SemaInv
  <2> QED
    BY <2>1, <2>2
<1>6. ASSUME ~warned', first # 0,
             NEW i \in 1..(n + 2), NEW j \in 1..(n + 2), first =< i, i =< j
      PROVE  isMoved'[j] \subseteq isMoved'[i]
  <2>0. ~warned /\ ~Warns(s)
    BY <1>2, <1>6
  <2>1. CASE j # n + 2
    <3>1. i \in 1..(n + 1) /\ j \in 1..(n + 1)
      BY <1>1, <1>6, <2>1
    <3>2. isMoved[j] \subseteq isMoved[i]
      BY <1>6, <2>0, <3>1 DEF SemaInv
    <3> QED
      BY <1>3, <3>1, <3>2
  <2>2. CASE i = n + 2
    BY <1>1, <1>6, <2>2
  <2>3. CASE j = n + 2 /\ i # n + 2
    <3>1. i \in 1..(n + 1) /\ n + 1 \in 1..(n + 1) /\ i =< n + 1 /\ first =< n + 1
      BY <1>1, <1>6, <2>3 DEF SemaInv
    <3>2. s.kind # "move"
      BY <1>6, <2>0, <3>1, <1>1 DEF Warns, SemaInv
    <3>3. isMoved'[j] \subseteq isMoved[n + 1]
      BY <1>1, <1>3, <2>3, <3>2, FlagsType DEF flags
    <3>4. isMoved[n + 1] \subseteq isMoved[i]
      BY <1>6, <2>0, <3>1 DEF SemaInv
    <3> QED
      BY <1>3, <3>1, <3>3, <3>4
  <2> QED
    BY <2>1, <2>2, <2>3
<1>7. Len(text') + 1 = n + 2
  BY <1>1, <1>3
<1> QED
  BY <1>2, <1>3, <1>4, <1>5, <1>6, <1>7 DEF SemaInv

-----------------------------------------------------------------------------
(* The run *)

Accepted == ~rejected /\ ~warned /\ Unaliased

\* Every object is held by one variable, the numbered ones were made before
\* now, and a variable that holds no live object has its flag set.
RunInv ==
  /\ pc \in 0..(Len(text) + 1)
  /\ made \in Nat
  /\ env \in [Vars -> Objects \union {Null}]
  /\ moved \subseteq Objects
  /\ \A x \in Vars : env[x] \in Nat => env[x] =< made
  /\ \A o \in moved : o \in Nat => o =< made
  /\ pc = 0 => \A x \in Vars : Live(x)
  /\ pc = 0 \/ Unaliased => \A x, y \in Vars : env[x] = env[y] /\ env[x] # Null => x = y
  /\ Accepted => outcome = "fine"
  /\ pc = 0 => outcome = "fine"
  /\ Accepted /\ pc # 0 => \A x \in Vars : ~Live(x) => x \in isMoved[pc]

Inv == SemaInv /\ RunInv

LEMMA InitInv == Init => Inv
<1> SUFFICES ASSUME Init PROVE Inv
  OBVIOUS
<1>1. SemaInv
  BY BoundsAssumption DEF Init, SemaInv
<1>2. \A x \in Vars : env[x] = x /\ x # Null /\ x \notin Nat
  BY VarsAssumption DEF Init
<1>3. RunInv
  BY <1>2 DEF Init, RunInv, Live, Objects
<1> QED
  BY <1>1, <1>3 DEF Inv

LEMMA VisitInv ==
  ASSUME Inv, NEW s \in Stmts, Visit(s)
  PROVE  Inv'
<1>1. SemaInv'
  BY VisitSema DEF Inv
<1>2. pc = 0 /\ UNCHANGED run
  BY DEF Visit
<1>3. RunInv'
  BY <1>1, <1>2 DEF Inv, SemaInv, RunInv, Live, run
<1> QED
  BY <1>1, <1>3 DEF Inv

\* What the text and the flags before the statement that is executed say of it.
LEMMA AtStatement ==
  ASSUME Inv, Executing
  PROVE  /\ pc \in 1..Len(text) /\ Len(text) \in Nat /\ pc + 1 \in 1..(Len(text) + 1)
         /\ Now \in Stmts
         /\ isMoved[pc] \in SUBSET Vars
         /\ isMoved[pc + 1] = FlagsAfter(isMoved[pc], Now)
         /\ ~rejected => ~Misused(isMoved[pc], Now)
         /\ Unaliased => Now.kind # "alias"
BY DEF Inv, SemaInv, Executing, Now, Unaliased

\* While the program runs Sema's results stay.
LEMMA SemaStays ==
  ASSUME Inv, UNCHANGED sema
  PROVE  SemaInv' /\ (Accepted' <=> Accepted) /\ (Unaliased' <=> Unaliased)
BY DEF Inv, SemaInv, sema, Accepted, Unaliased

LEMMA MoveInv ==
  ASSUME Inv, ExecMove
  PROVE  Inv'
<1> DEFINE x == Now.var
<1>1. /\ Executing /\ Now.kind = "move" /\ Live(x)
      /\ moved' = moved \union {env[x]} /\ env' = [env EXCEPT ![x] = Null]
      /\ pc' = pc + 1 /\ made' = made + 1
      /\ UNCHANGED sema /\ UNCHANGED outcome
  BY DEF ExecMove, Marks, GoOn
<1>2. x \in Vars /\ pc \in 1..Len(text)
  BY <1>1, AtStatement, StmtType
<1>3. isMoved[pc + 1] = isMoved[pc] \union {x}
  BY <1>1, AtStatement DEF FlagsAfter
<1>4. /\ made \in Nat /\ env \in [Vars -> Objects \union {Null}] /\ moved \subseteq Objects
      /\ env[x] \in Objects
  BY <1>1, <1>2 DEF Inv, RunInv, Live
<1>5. /\ pc' \in 0..(Len(text') + 1) /\ made' \in Nat
      /\ env' \in [Vars -> Objects \union {Null}] /\ moved' \subseteq Objects
  BY <1>1, <1>2, <1>4, AtStatement DEF sema
<1>6. \A y \in Vars : env'[y] = IF y = x THEN Null ELSE env[y]
  BY <1>1, <1>2, <1>4
<1>7. Null \notin Nat
  BY VarsAssumption
<1>8. /\ \A y \in Vars : env'[y] \in Nat => env'[y] =< made'
      /\ \A o \in moved' : o \in Nat => o =< made'
  BY <1>1, <1>2, <1>4, <1>6, <1>7 DEF Inv, RunInv
<1>9. Unaliased => \A y, z \in Vars : env'[y] = env'[z] /\ env'[y] # Null => y = z
  BY <1>6 DEF Inv, RunInv
<1>10. ASSUME Accepted, NEW y \in Vars, ~Live(y)' PROVE y \in isMoved[pc + 1]
  <2>1. CASE y = x
    BY <1>3, <2>1
  <2>2. CASE y # x
    <3>1. ~Live(y)
      BY <1>1, <1>2, <1>4, <1>6, <1>10, <2>2 DEF Live, Accepted, Inv, RunInv
    <3> QED
      BY <1>2, <1>3, <1>10, <3>1 DEF Inv, RunInv
  <2> QED
    BY <2>1, <2>2
<1>11. isMoved' = isMoved /\ outcome' = outcome /\ pc' # 0
  BY <1>1, <1>2 DEF sema
<1>12. RunInv'
  BY <1>1, <1>5, <1>8, <1>9, <1>10, <1>11, SemaStays DEF Inv, RunInv
<1> QED
  BY <1>1, <1>12, SemaStays DEF Inv

LEMMA FreshInv ==
  ASSUME Inv, ExecFresh
  PROVE  Inv'
<1> DEFINE x == Now.var
<1>1. /\ Executing /\ Now.kind = "fresh"
      /\ env' = [env EXCEPT ![x] = made + 1] /\ moved' = moved
      /\ pc' = pc + 1 /\ made' = made + 1
      /\ UNCHANGED sema /\ UNCHANGED outcome
  BY DEF ExecFresh, GoOn
<1>2. x \in Vars /\ pc \in 1..Len(text)
  BY <1>1, AtStatement, StmtType
<1>3. isMoved[pc + 1] = isMoved[pc] \ {x}
  BY <1>1, AtStatement DEF FlagsAfter
<1>4. made \in Nat /\ env \in [Vars -> Objects \union {Null}] /\ moved \subseteq Objects
  BY DEF Inv, RunInv
<1>5. /\ pc' \in 0..(Len(text') + 1) /\ made' \in Nat
      /\ env' \in [Vars -> Objects \union {Null}] /\ moved' \subseteq Objects
  BY <1>1, <1>2, <1>4, AtStatement DEF sema, Objects
<1>6. \A y \in Vars : env'[y] = IF y = x THEN made + 1 ELSE env[y]
  BY <1>1, <1>2, <1>4
<1>7. made + 1 \notin moved /\ (\A y \in Vars : env[y] # made + 1) /\ made + 1 # Null
  BY <1>4, VarsAssumption DEF Inv, RunInv
<1>8. /\ \A y \in Vars : env'[y] \in Nat => env'[y] =< made'
      /\ \A o \in moved' : o \in Nat => o =< made'
  BY <1>1, <1>4, <1>6 DEF Inv, RunInv
<1>9. Unaliased => \A y, z \in Vars : env'[y] = env'[z] /\ env'[y] # Null => y = z
  BY <1>6, <1>7 DEF Inv, RunInv
<1>10. ASSUME Accepted, NEW y \in Vars, ~Live(y)' PROVE y \in isMoved[pc + 1]
  <2>1. y # x /\ ~Live(y)
    BY <1>1, <1>6, <1>7, <1>10 DEF Live
  <2> QED
    BY <1>2, <1>3, <1>10, <2>1 DEF Inv, RunInv
<1>11. isMoved' = isMoved /\ outcome' = outcome /\ pc' # 0
  BY <1>1, <1>2 DEF sema
<1>12. RunInv'
  BY <1>1, <1>5, <1>8, <1>9, <1>10, <1>11, SemaStays DEF Inv, RunInv
<1> QED
  BY <1>1, <1>12, SemaStays DEF Inv

LEMMA ReadInv ==
  ASSUME Inv, ExecRead
  PROVE  Inv'
<1>1. /\ Executing /\ Now.kind \in {"use", "alias"} /\ Live(Now.var)
      /\ moved' = moved /\ pc' = pc + 1 /\ made' = made + 1
      /\ UNCHANGED sema /\ UNCHANGED outcome
      /\ env' = IF Now.kind = "alias" THEN [env EXCEPT ![Now.to] = env[Now.var]] ELSE env
  BY DEF ExecRead, GoOn
<1>2. Now.var \in Vars /\ Now.to \in Vars /\ pc \in 1..Len(text)
  BY <1>1, AtStatement, StmtType
<1>3. /\ made \in Nat /\ env \in [Vars -> Objects \union {Null}] /\ moved \subseteq Objects
      /\ isMoved' = isMoved /\ pc' # 0
  BY <1>1, <1>2 DEF Inv, RunInv, sema
<1>4. /\ pc' \in 0..(Len(text') + 1) /\ made' \in Nat
      /\ env' \in [Vars -> Objects \union {Null}] /\ moved' \subseteq Objects
  BY <1>1, <1>2, <1>3, AtStatement DEF sema
<1>5. /\ \A y \in Vars : env'[y] \in Nat => env'[y] =< made'
      /\ \A o \in moved' : o \in Nat => o =< made'
  <2>1. \A y \in Vars : \E z \in Vars : env'[y] = env[z]
    BY <1>1, <1>2, <1>3
  <2> QED
    BY <1>1, <1>3, <2>1 DEF Inv, RunInv
<1>6. Unaliased => Now.kind = "use" /\ env' = env /\ isMoved[pc + 1] = isMoved[pc]
  BY <1>1, AtStatement DEF FlagsAfter
<1>7. Unaliased => \A y, z \in Vars : env'[y] = env'[z] /\ env'[y] # Null => y = z
  BY <1>6 DEF Inv, RunInv
<1>8. ASSUME Accepted, NEW y \in Vars, ~Live(y)' PROVE y \in isMoved'[pc']
  BY <1>1, <1>2, <1>3, <1>6, <1>8 DEF Live, Accepted, Inv, RunInv
<1>9. RunInv'
  BY <1>1, <1>3, <1>4, <1>5, <1>7, <1>8, SemaStays DEF Inv, RunInv
<1> QED
  BY <1>1, <1>9, SemaStays DEF Inv

\* A program that Sema accepted has no statement that finds a moved value.
LEMMA NoMisuse ==
  ASSUME Inv, Executing, Accepted, Now.kind \in {"move", "use", "alias"}
  PROVE  Live(Now.var)
<1>1. Now.var \in Vars /\ Now.var \notin isMoved[pc] /\ pc # 0
  BY AtStatement, StmtType DEF Misused, Accepted
<1> QED
  BY <1>1 DEF Inv, RunInv

LEMMA StopsInv ==
  ASSUME Inv, ExecPanic \/ ExecNull
  PROVE  Inv'
<1>1. /\ Executing /\ UNCHANGED sema /\ UNCHANGED <<pc, env, moved, made>>
      /\ ~Live(Now.var) /\ Now.kind # "fresh"
  BY DEF ExecPanic, ExecNull, Live
<1>2. pc # 0 /\ Now.kind \in {"move", "use", "alias"}
  BY <1>1, AtStatement, StmtType
<1>3. ~Accepted
  BY <1>1, <1>2, NoMisuse
<1>4. RunInv'
  BY <1>1, <1>2, <1>3, SemaStays DEF Inv, RunInv, Live, sema
<1> QED
  BY <1>1, <1>4, SemaStays DEF Inv

LEMMA StartInv ==
  ASSUME Inv, Start
  PROVE  Inv'
<1>1. pc = 0 /\ pc' = 1 /\ UNCHANGED sema /\ UNCHANGED <<env, moved, made, outcome>>
  BY DEF Start
<1>2. Len(text) \in Nat
  BY DEF Inv, SemaInv
<1>3. \A x \in Vars : Live(x)'
  BY <1>1 DEF Inv, RunInv, Live
<1>4. RunInv'
  BY <1>1, <1>2, <1>3, SemaStays DEF Inv, RunInv, sema
<1> QED
  BY <1>1, <1>4, SemaStays DEF Inv

\* The loop begins again with the flags it began with, or fewer.
LEMMA RepeatInv ==
  ASSUME Inv, Repeat
  PROVE  Inv'
<1>1. /\ first # 0 /\ pc = Len(text) + 1 /\ first < pc /\ pc' = first
      /\ UNCHANGED sema /\ UNCHANGED <<env, moved, made, outcome>>
  BY DEF Repeat
<1>2. Len(text) \in Nat /\ first \in 1..(Len(text) + 1) /\ pc \in 1..(Len(text) + 1)
  BY <1>1 DEF Inv, SemaInv
<1>3. ~warned => isMoved[pc] \subseteq isMoved[first]
  BY <1>1, <1>2 DEF Inv, SemaInv
<1>4. RunInv'
  BY <1>1, <1>2, <1>3, SemaStays DEF Inv, RunInv, Live, Accepted, sema
<1> QED
  BY <1>1, <1>4, SemaStays DEF Inv

LEMMA Inductive == Inv /\ [Next]_vars => Inv'
<1> SUFFICES ASSUME Inv, [Next]_vars PROVE Inv'
  OBVIOUS
<1>1. CASE UNCHANGED vars
  <2>1. UNCHANGED sema /\ UNCHANGED run
    BY <1>1 DEF vars, sema, run
  <2>2. RunInv'
    BY <2>1, SemaStays DEF Inv, RunInv, Live, run, sema
  <2> QED
    BY <2>1, <2>2, SemaStays DEF Inv
<1> QED
  BY <1>1, VisitInv, StartInv, MoveInv, FreshInv, ReadInv, StopsInv, RepeatInv
  DEF Next, Stop

\* A program without aliases that Sema passes without an error and without the
\* warning about moves in loops meets no moved value, however often its loop
\* runs.
THEOREM AcceptedRunsWell == Spec => []UnwarnedIsSafe
<1>1. Inv => UnwarnedIsSafe
  BY DEF Inv, RunInv, Accepted, UnwarnedIsSafe
<1> QED
  BY <1>1, InitInv, Inductive, PTL DEF Spec

-----------------------------------------------------------------------------
(* Null is read only where Sema has seen the variable moved *)

\* A move leaves null in its own variable only, so the flag of Sema covers it,
\* whatever aliases the object has.
NullInv ==
  /\ pc = 0 => outcome # "silent" /\ \A x \in Vars : env[x] # Null
  /\ ~rejected /\ ~warned =>
       /\ outcome # "silent"
       /\ pc # 0 => \A x \in Vars : env[x] = Null => x \in isMoved[pc]

LEMMA NullInit == Init => NullInv
BY VarsAssumption DEF Init, NullInv

\* A statement of a program without an error or a warning is executed.
LEMMA NullExec ==
  ASSUME Inv, NullInv, ExecMove \/ ExecFresh \/ ExecRead
  PROVE  NullInv'
<1>1. /\ Executing /\ UNCHANGED sema /\ UNCHANGED outcome /\ pc' = pc + 1
      /\ pc \in 1..Len(text) /\ pc' # 0
      /\ Now \in Stmts /\ Now.var \in Vars /\ Now.to \in Vars
      /\ isMoved' = isMoved /\ isMoved[pc'] = FlagsAfter(isMoved[pc], Now)
      /\ env \in [Vars -> Objects \union {Null}] /\ made + 1 # Null
  BY AtStatement, StmtType, VarsAssumption
  DEF ExecMove, ExecFresh, ExecRead, GoOn, Executing, sema, Inv, RunInv
<1>2. ASSUME ~rejected, ~warned, NEW x \in Vars, env'[x] = Null
      PROVE  x \in isMoved[pc']
  <2>1. env[x] = Null => x \in isMoved[pc]
    BY <1>1, <1>2 DEF NullInv
  <2>2. CASE ExecMove
    <3>1. isMoved[pc'] = isMoved[pc] \union {Now.var} /\ env' = [env EXCEPT ![Now.var] = Null]
      BY <1>1, <2>2 DEF ExecMove, FlagsAfter
    <3> QED
      BY <1>1, <1>2, <2>1, <3>1
  <2>3. CASE ExecFresh
    <3>1. isMoved[pc'] = isMoved[pc] \ {Now.var} /\ env' = [env EXCEPT ![Now.var] = made + 1]
      BY <1>1, <2>3 DEF ExecFresh, FlagsAfter
    <3> QED
      BY <1>1, <1>2, <2>1, <3>1
  <2>4. CASE ExecRead /\ Now.kind = "alias"
    <3>1. /\ isMoved[pc'] = isMoved[pc] \ {Now.to}
          /\ env' = [env EXCEPT ![Now.to] = env[Now.var]] /\ env[Now.var] # Null
      BY <1>1, <2>4 DEF ExecRead, FlagsAfter, Live
    <3> QED
      BY <1>1, <1>2, <2>1, <3>1
  <2>5. CASE ExecRead /\ Now.kind = "use"
    <3>1. isMoved[pc'] = isMoved[pc] /\ env' = env
      BY <1>1, <2>5 DEF ExecRead, FlagsAfter
    <3> QED
      BY <1>2, <2>1, <3>1
  <2> QED
    BY <2>2, <2>3, <2>4, <2>5 DEF ExecRead
<1> QED
  BY <1>1, <1>2 DEF NullInv, sema

\* Null is read: then Sema has rejected the statement, or warned.
LEMMA NullRead ==
  ASSUME Inv, NullInv, ExecNull
  PROVE  NullInv'
<1>1. /\ Executing /\ Now.kind \in {"use", "alias"} /\ env[Now.var] = Null
      /\ UNCHANGED sema /\ UNCHANGED <<pc, env>>
      /\ pc # 0 /\ Now.var \in Vars
      /\ ~rejected => Now.var \notin isMoved[pc]
  BY AtStatement, StmtType DEF ExecNull, Misused
<1> QED
  BY <1>1 DEF NullInv, sema

LEMMA NullStep == Inv /\ NullInv /\ [Next]_vars => NullInv'
<1> SUFFICES ASSUME Inv, NullInv, [Next]_vars PROVE NullInv'
  OBVIOUS
<1>1. CASE UNCHANGED vars
  BY <1>1 DEF vars, NullInv
<1>2. ASSUME NEW s \in Stmts, Visit(s) PROVE NullInv'
  BY <1>2 DEF Visit, run, NullInv
<1>3. CASE Start
  BY <1>3 DEF Start, sema, NullInv
<1>4. CASE Repeat
  <2>1. /\ first # 0 /\ pc = Len(text) + 1 /\ first < pc /\ pc' = first
        /\ UNCHANGED sema /\ UNCHANGED <<env, outcome>>
    BY <1>4 DEF Repeat
  <2>2. ~warned => isMoved[pc] \subseteq isMoved[first]
    BY <2>1 DEF Inv, SemaInv
  <2>3. pc # 0
    BY <2>1 DEF Inv, SemaInv
  <2> QED
    BY <2>1, <2>2, <2>3 DEF NullInv, sema
<1>5. CASE ExecPanic
  BY <1>5 DEF ExecPanic, sema, NullInv, Executing
<1> QED
  BY <1>1, <1>2, <1>3, <1>4, <1>5, NullExec, NullRead DEF Next, Stop

\* "Use-after-move is detected at runtime": a program that Sema passes without
\* an error and without a warning never goes on with the null that a move left
\* behind, even where several variables share an object.
THEOREM NullIsNeverRead == Spec => []UseAfterMoveDetected
<1>1. NullInv => UseAfterMoveDetected
  BY DEF NullInv, UseAfterMoveDetected
<1> QED
  BY <1>1, InitInv, Inductive, NullInit, NullStep, PTL DEF Spec

-----------------------------------------------------------------------------
(* What Sema rejects goes wrong *)

\* An error names a statement that reads a variable moved before it in the
\* text.  The run has not passed it, for until there it follows the text: what
\* the flags say was moved, was.
MisuseInv ==
  /\ isMoved[1] = {}
  /\ rejected => \E i \in 1..Len(text) : Misused(isMoved[i], text[i])
  /\ rejected /\ Unaliased /\ pc # 0 =>
       \E i \in 1..Len(text) :
         /\ Misused(isMoved[i], text[i]) /\ pc =< i
         /\ \A x \in isMoved[pc] : ~Live(x)

LEMMA MisuseInit == Init => MisuseInv
BY DEF Init, MisuseInv

LEMMA MisuseVisit ==
  ASSUME Inv, MisuseInv, NEW s \in Stmts, Visit(s)
  PROVE  MisuseInv'
<1>1. /\ pc = 0 /\ pc' = 0
      /\ text' = Append(text, s) /\ isMoved' = Append(isMoved, FlagsAfter(Flags, s))
      /\ rejected' = (rejected \/ Misused(Flags, s))
      /\ text \in Seq(Stmts) /\ isMoved \in Seq(SUBSET Vars)
      /\ Len(isMoved) = Len(text) + 1 /\ Len(text) \in Nat
  BY DEF Visit, run, Inv, SemaInv
<1>2. /\ Len(text') = Len(text) + 1 /\ text'[Len(text) + 1] = s
      /\ \A i \in 1..Len(text) : text'[i] = text[i]
      /\ \A i \in 1..(Len(text) + 1) : isMoved'[i] = isMoved[i]
      /\ Flags = isMoved'[Len(text) + 1]
  BY <1>1 DEF Flags
<1>3. ASSUME rejected'
      PROVE  \E i \in 1..Len(text') : Misused(isMoved'[i], text'[i])
  <2>1. CASE rejected
    <3>1. PICK i \in 1..Len(text) : Misused(isMoved[i], text[i])
      BY <2>1 DEF MisuseInv
    <3>2. Misused(isMoved'[i], text'[i]) /\ i \in 1..Len(text')
      BY <1>1, <1>2, <3>1
    <3> QED
      BY <3>2
  <2>2. CASE Misused(Flags, s)
    BY <1>1, <1>2, <2>2
  <2> QED
    BY <1>1, <1>3, <2>1, <2>2
<1>4. isMoved'[1] = {}
  BY <1>1, <1>2 DEF MisuseInv
<1> QED
  BY <1>1, <1>3, <1>4 DEF MisuseInv

\* The run passes a statement: it was not the misused one, and what it moves
\* or makes its flags follow.
LEMMA MisuseExec ==
  ASSUME Inv, MisuseInv, ExecMove \/ ExecFresh \/ ExecRead
  PROVE  MisuseInv'
<1>1. /\ Executing /\ UNCHANGED sema /\ pc' = pc + 1
      /\ pc \in 1..Len(text) /\ Len(text) \in Nat
      /\ Now \in Stmts /\ Now.var \in Vars
      /\ isMoved[pc] \in SUBSET Vars
      /\ isMoved[pc + 1] = FlagsAfter(isMoved[pc], Now)
      /\ Unaliased => Now.kind # "alias"
      /\ env \in [Vars -> Objects \union {Null}]
  BY AtStatement, StmtType DEF ExecMove, ExecFresh, ExecRead, GoOn, Inv, RunInv
<1>2. /\ text' = text /\ isMoved' = isMoved /\ rejected' = rejected
      /\ Unaliased' <=> Unaliased
  BY <1>1 DEF sema, Unaliased
<1>3. ASSUME rejected, Unaliased
      PROVE  \E i \in 1..Len(text) :
               /\ Misused(isMoved[i], text[i]) /\ pc + 1 =< i
               /\ \A x \in isMoved[pc + 1] : ~Live(x)'
  <2>1. PICK i \in 1..Len(text) :
               /\ Misused(isMoved[i], text[i]) /\ pc =< i
               /\ \A x \in isMoved[pc] : ~Live(x)
    BY <1>1, <1>3 DEF MisuseInv
  <2>2. pc # i
    <3>1. Misused(isMoved[pc], Now) => ~Live(Now.var) /\ Now.kind # "fresh"
      BY <2>1 DEF Misused
    <3>2. Now.kind = "fresh" \/ Live(Now.var)
      BY DEF ExecMove, ExecFresh, ExecRead
    <3> QED
      BY <2>1, <3>1, <3>2 DEF Now
  <2>3. ASSUME NEW x \in isMoved[pc + 1]
        PROVE  ~Live(x)'
    <3>0. x \in Vars
      BY <1>1, <2>3, FlagsType
    <3>1. CASE ExecMove
      <4>1. /\ x \in isMoved[pc] \/ x = Now.var
            /\ env' = [env EXCEPT ![Now.var] = Null] /\ moved \subseteq moved'
        BY <1>1, <2>3, <3>1 DEF ExecMove, FlagsAfter
      <4> QED
        BY <1>1, <2>1, <3>0, <4>1 DEF Live
    <3>2. CASE ExecFresh
      <4>1. /\ x \in isMoved[pc] /\ x # Now.var
            /\ env' = [env EXCEPT ![Now.var] = made + 1] /\ moved' = moved
        BY <1>1, <2>3, <3>2 DEF ExecFresh, FlagsAfter
      <4> QED
        BY <1>1, <2>1, <3>0, <4>1 DEF Live
    <3>3. CASE ExecRead
      <4>1. Now.kind = "use" /\ env' = env /\ moved' = moved /\ x \in isMoved[pc]
        BY <1>1, <1>3, <2>3, <3>3 DEF ExecRead, FlagsAfter
      <4> QED
        BY <2>1, <4>1 DEF Live
    <3> QED
      BY <3>1, <3>2, <3>3
  <2> QED
    BY <1>1, <2>1, <2>2, <2>3
<1> QED
  BY <1>1, <1>2, <1>3 DEF MisuseInv

LEMMA MisuseStep == Inv /\ MisuseInv /\ [Next]_vars => MisuseInv'
<1> SUFFICES ASSUME Inv, MisuseInv, [Next]_vars PROVE MisuseInv'
  OBVIOUS
<1>1. CASE UNCHANGED vars
  BY <1>1 DEF vars, MisuseInv, Unaliased, Live
<1>2. CASE Start
  <2>1. /\ pc' = 1 /\ UNCHANGED sema /\ UNCHANGED <<env, moved>>
        /\ Len(text) \in Nat /\ (Unaliased' <=> Unaliased)
    BY <1>2 DEF Start, sema, Inv, SemaInv, Unaliased
  <2> QED
    BY <2>1 DEF MisuseInv, sema
<1>3. CASE Repeat
  <2>1. /\ pc = Len(text) + 1 /\ UNCHANGED sema /\ Len(text) \in Nat
        /\ (Unaliased' <=> Unaliased)
    BY <1>3 DEF Repeat, sema, Inv, SemaInv, Unaliased
  <2>2. ~(rejected /\ Unaliased)
    BY <2>1 DEF MisuseInv
  <2> QED
    BY <2>1, <2>2 DEF MisuseInv, sema
<1>4. CASE ExecPanic \/ ExecNull
  <2>1. UNCHANGED sema /\ UNCHANGED <<pc, env, moved>> /\ (Unaliased' <=> Unaliased)
    BY <1>4 DEF ExecPanic, ExecNull, sema, Unaliased
  <2> QED
    BY <2>1 DEF MisuseInv, sema, Live
<1> QED
  BY <1>1, <1>2, <1>3, <1>4, MisuseVisit, MisuseExec DEF Next, Stop

\* Sema raises no false alarm: a program without aliases that it rejects, had
\* it been run, would not have come to its end, since the flag of a variable is
\* cleared by an assignment as its value is.
THEOREM RejectedGoesWrong == Spec => []RejectedIsMisuse
<1>1. Inv /\ MisuseInv => RejectedIsMisuse
  BY DEF Inv, SemaInv, MisuseInv, RejectedIsMisuse
<1> QED
  BY <1>1, InitInv, Inductive, MisuseInit, MisuseStep, PTL DEF Spec

=============================================================================
