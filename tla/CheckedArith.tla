----------------------------- MODULE CheckedArith -----------------------------
(***************************************************************************)
(* The integer arithmetic of the two back ends.  The interpreter guards     *)
(* each operation with comparisons that must not overflow themselves; the   *)
(* native code executes the instruction and jumps to a trap on the overflow *)
(* flag.  Both are run side by side on a chain of operations, next to the   *)
(* exact integer the chain denotes.                                         *)
(*                                                                          *)
(* Max stands for the largest long long: every definition depends on the    *)
(* width through Max alone.                                                 *)
(***************************************************************************)
EXTENDS Integers

CONSTANTS Max,   \* std::numeric_limits<long long>::max()
          Ops    \* the operators the program uses

ASSUME MaxAssumption == Max \in Nat \ {0}

AdditiveOps == {"+", "-", "+=", "-="}
AllOps == AdditiveOps \union {"*", "*=", "/", "/=", "%", "%=", "neg"}
ASSUME OpsAssumption == Ops \subseteq AllOps

Min  == -Max - 1
Ints == Min..Max

VARIABLES interp,    \* the outcome of the chain in the interpreter
          native,    \* the outcome of the chain in compiled code
          ideal      \* the integer it denotes, NoValue after a division by zero

chainVars == <<interp, native, ideal>>

\* "ok" with a value; "panic", the error the language defines; "trap", the
\* process is killed by SIGFPE.
Ok(v)  == [st |-> "ok", v |-> v]
Panic  == [st |-> "panic", v |-> 0]
Trap   == [st |-> "trap", v |-> 0]
NoValue == 2 * (Max + 1) * (Max + 1)   \* larger than any product

\* What the bits of an overflowing result mean.
Wrap(v) == ((v - Min) % (2 * (Max + 1))) + Min

Abs(a) == IF a < 0 THEN -a ELSE a

\* Division of C++ and of idiv: towards zero.
Quotient(a, b)  == LET q == Abs(a) \div Abs(b) IN IF (a < 0) = (b < 0) THEN q ELSE -q
Remainder(a, b) == a - b * Quotient(a, b)

\* A machine division: the quotient of Min and -1 does not fit and traps.
Idiv(a, b, result) == IF b = 0 \/ (a = Min /\ b = -1) THEN Trap ELSE Ok(result)

-----------------------------------------------------------------------------
(* Mutated forms: slips in the guards. *)

CheckedAddUnguarded(a, b) ==
  IF b > 0 /\ a > Max - b THEN Panic ELSE Ok(Wrap(a + b))

CheckedSubOffByOne(a, b) ==
  IF \/ b < 0 /\ a >= Max + b
     \/ b > 0 /\ a < Min + b
    THEN Panic
    ELSE Ok(a - b)

JoDropped(v) == Ok(Wrap(v))

-----------------------------------------------------------------------------
(* The interpreter *)

CheckedAdd(a, b) ==
  IF \/ b > 0 /\ a > Max - b
     \/ b < 0 /\ a < Min - b
    THEN Panic
    ELSE Ok(a + b)

CheckedSub(a, b) ==
  IF \/ b < 0 /\ a > Max + b
     \/ b > 0 /\ a < Min + b
    THEN Panic
    ELSE Ok(a - b)

\* The four comparisons are evaluated in this order, each only if the ones
\* before it were false; Min / b traps for b = -1.
CheckedMul(a, b) ==
  IF a = 0 \/ b = 0 THEN Ok(0)
  ELSE IF b > 0
    THEN IF a > Quotient(Max, b) \/ a < Quotient(Min, b)
           THEN Panic ELSE Ok(a * b)
    ELSE IF a < Quotient(Max, b) THEN Panic
         ELSE IF b = -1 THEN Trap
         ELSE IF a > Quotient(Min, b) THEN Panic ELSE Ok(a * b)

\* The helper of `*=` has two of the four comparisons.
CkMul(a, b) ==
  IF a # 0 /\ b # 0
     /\ \/ b > 0 /\ a > Quotient(Max, b)
        \/ b < 0 /\ a < Quotient(Max, b)
    THEN Panic
    ELSE Ok(Wrap(a * b))

InterpDiv(a, b) == IF b = 0 THEN Panic ELSE Idiv(a, b, Quotient(a, b))
InterpMod(a, b) == IF b = 0 THEN Panic ELSE Idiv(a, b, Remainder(a, b))

Interp(op, a, b) ==
  CASE op \in {"+", "+="} -> CheckedAdd(a, b)
    [] op \in {"-", "-="} -> CheckedSub(a, b)
    [] op = "*"           -> CheckedMul(a, b)
    [] op = "*="          -> CkMul(a, b)
    [] op \in {"/", "/="} -> InterpDiv(a, b)
    [] op \in {"%", "%="} -> InterpMod(a, b)
    [] op = "neg"         -> Ok(Wrap(-a))

-----------------------------------------------------------------------------
(* Compiled code *)

\* `jo __aegis_overflow_trap` after add, sub and imul.
Jo(v) == IF v \in Ints THEN Ok(v) ELSE Panic

Native(op, a, b) ==
  CASE op \in {"+", "+="} -> Jo(a + b)
    [] op \in {"-", "-="} -> Jo(a - b)
    [] op \in {"*", "*="} -> Jo(a * b)
    [] op \in {"/", "/="} -> Idiv(a, b, Quotient(a, b))
    [] op \in {"%", "%="} -> Idiv(a, b, Remainder(a, b))
    [] op = "neg"         -> Ok(Wrap(-a))

-----------------------------------------------------------------------------
\* What the operator means for integers without a width.
Exact(op, a, b) ==
  CASE op \in {"+", "+="} -> a + b
    [] op \in {"-", "-="} -> a - b
    [] op \in {"*", "*="} -> a * b
    [] op \in {"/", "/="} -> IF b = 0 THEN NoValue ELSE Quotient(a, b)
    [] op \in {"%", "%="} -> IF b = 0 THEN NoValue ELSE Remainder(a, b)
    [] op = "neg"         -> -a

ChainInit == \E x \in Ints : interp = Ok(x) /\ native = Ok(x) /\ ideal = x

Running == interp.st = "ok" /\ native.st = "ok"

Apply(op, b) ==
  /\ Running
  /\ interp' = Interp(op, interp.v, b)
  /\ native' = Native(op, native.v, b)
  /\ ideal' = Exact(op, ideal, b)

ChainNext == \E op \in Ops, b \in Ints : Apply(op, b)

ChainSpec == ChainInit /\ [][ChainNext]_chainVars

-----------------------------------------------------------------------------
Outcomes == [st : {"ok", "panic", "trap"}, v : Ints]
ChainTypeOK == interp \in Outcomes /\ native \in Outcomes /\ ideal \in Int

\* "an overflowing add/sub/mul panics rather than wrapping, in both the
\* interpreter and native codegen": a chain that goes on has the exact value.
NoWrap ==
  /\ interp.st = "ok" => interp.v = ideal
  /\ native.st = "ok" => native.v = ideal

\* The guards do not stop a program whose result would have fitted.
PanicJustified ==
  /\ interp.st = "panic" => ideal \notin Ints
  /\ native.st = "panic" => ideal \notin Ints

\* The comparisons of the interpreter decide exactly what the overflow flag of
\* the processor reports: where the processor kills neither of them (a division
\* by zero in compiled code, a quotient of Min and -1), the two back ends
\* cannot be told apart.
SameOutcome == "trap" \notin {interp.st, native.st} => interp = native

\* Checked arithmetic ends in a value or a panic, never in a signal.
NeverKilled == interp.st # "trap"

=============================================================================
