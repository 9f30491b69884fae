--------------------------- MODULE Compiler_proofs ---------------------------
(***************************************************************************)
(* What the compiler reads, and what compiled programs compute with.       *)
(*                                                                         *)
(* Their integers: at every width the comparisons of the interpreter are   *)
(* the overflow flag of the processor.                                     *)
(*                                                                         *)
(* Their channels: the ring buffer implements the queue, for every first   *)
(* capacity, every set of values and any number of sends.                  *)
(*                                                                         *)
(* Their texts: whatever the grammar, as long as it is built as the module *)
(* Parser assumes, an accepted text is all in the tree.                    *)
(***************************************************************************)
EXTENDS CheckedArith, NativeChannel, FrontEnd, SequenceTheorems, WellFoundedInduction, TLAPS

-----------------------------------------------------------------------------
(***************************************************************************)
(* The comparisons of the interpreter and the overflow flag                *)
(***************************************************************************)

LEMMA IntsAreIntegers == Min \in Int /\ Max \in Int /\ Min = -Max - 1 /\ Ints \subseteq Int
BY MaxAssumption DEF Min, Ints

\* checked_add and ck_add panic exactly when the sum does not fit, and return
\* the sum when it does; their own comparisons stay within the width.
THEOREM AddIsJo ==
  ASSUME NEW a \in Ints, NEW b \in Ints
  PROVE  /\ CheckedAdd(a, b) = Jo(a + b)
         /\ b > 0 => Max - b \in Ints
         /\ b < 0 => Min - b \in Ints
BY MaxAssumption DEF CheckedAdd, Jo, Ints, Min

\* The same for checked_sub and ck_sub.
THEOREM SubIsJo ==
  ASSUME NEW a \in Ints, NEW b \in Ints
  PROVE  /\ CheckedSub(a, b) = Jo(a - b)
         /\ b < 0 => Max + b \in Ints
         /\ b > 0 => Min + b \in Ints
BY MaxAssumption DEF CheckedSub, Jo, Ints, Min

-----------------------------------------------------------------------------
(* Multiplication *)

\* Comparing with a quotient is comparing the product.
LEMMA DivBound ==
  ASSUME NEW n \in Nat, NEW d \in Nat \ {0}, NEW x \in Int
  PROVE  /\ n \div d \in Nat
         /\ x > n \div d <=> d * x > n
<1> DEFINE q == n \div d
<1>1. /\ q \in Nat
      /\ d * q =< n
      /\ n < d * q + d
  BY Z3
<1>2. x > q => d * x >= d * (q + 1)
  <2> SUFFICES ASSUME x > q PROVE d * x >= d * (q + 1)
    OBVIOUS
  <2>1. d * (x - (q + 1)) >= 0
    BY <1>1, Z3
  <2> QED
    BY <1>1, <2>1, Z3
<1>3. x =< q => d * x =< d * q
  <2> SUFFICES ASSUME x =< q PROVE d * x =< d * q
    OBVIOUS
  <2>1. d * (q - x) >= 0
    BY <1>1, Z3
  <2> QED
    BY <1>1, <2>1, Z3
<1>4. d * (q + 1) = d * q + d /\ d * q \in Int /\ d * x \in Int
  BY <1>1, Z3
<1> HIDE DEF q
<1>5. x > q <=> d * x > n
  BY <1>1, <1>2, <1>3, <1>4
<1> QED
  BY <1>1, <1>5 DEF q

\* checked_mul panics exactly when the product does not fit, for every factor
\* but the one its last comparison divides Min by, -1.
THEOREM MulIsJo ==
  ASSUME NEW a \in Ints, NEW b \in Ints, b # -1
  PROVE  CheckedMul(a, b) = Jo(a * b)
<1>1. CASE a = 0 \/ b = 0
  <2>1. a * b = 0
    BY <1>1, IntsAreIntegers
  <2> QED
    BY <1>1, <2>1, MaxAssumption DEF CheckedMul, Jo, Ints, Min
<1>2. CASE a # 0 /\ b > 0
  <2>1. Quotient(Max, b) = Max \div b /\ Quotient(Min, b) = -((Max + 1) \div b)
    BY <1>2, MaxAssumption DEF Quotient, Abs, Ints, Min
  <2>2. a > Max \div b <=> b * a > Max
    BY <1>2, MaxAssumption, DivBound DEF Ints, Min
  <2>3. -a > (Max + 1) \div b <=> b * (-a) > Max + 1
    BY <1>2, MaxAssumption, DivBound DEF Ints, Min
  <2>4. (Max + 1) \div b \in Int /\ Max \div b \in Int
    BY <1>2, MaxAssumption, DivBound DEF Ints, Min
  <2>5. a \in Int /\ b \in Int /\ a * b \in Int /\ b * a = a * b /\ b * (-a) = -(a * b)
    BY IntsAreIntegers, Z3
  <2>6. a < Quotient(Min, b) <=> a * b < Min
    BY <2>1, <2>3, <2>4, <2>5, MaxAssumption DEF Min
  <2>7. a > Quotient(Max, b) <=> a * b > Max
    BY <2>1, <2>2, <2>5
  <2> QED
    BY <1>2, <2>5, <2>6, <2>7, IntsAreIntegers DEF CheckedMul, Jo, Ints
<1>3. CASE a # 0 /\ b < -1
  <2> DEFINE d == -b
  <2>1. d \in Nat \ {0} /\ d # 0
    BY <1>3, IntsAreIntegers
  <2>2. Quotient(Max, b) = -(Max \div d) /\ Quotient(Min, b) = (Max + 1) \div d
    BY <1>3, MaxAssumption DEF Quotient, Abs, Ints, Min
  <2>3. -a > Max \div d <=> d * (-a) > Max
    BY <2>1, MaxAssumption, DivBound DEF Ints, Min
  <2>4. a > (Max + 1) \div d <=> d * a > Max + 1
    BY <2>1, MaxAssumption, DivBound DEF Ints, Min
  <2>5. (Max + 1) \div d \in Int /\ Max \div d \in Int
    BY <2>1, MaxAssumption, DivBound
  <2>6. a \in Int /\ b \in Int /\ a * b \in Int /\ d * a = -(a * b) /\ d * (-a) = a * b
    BY IntsAreIntegers, Z3
  <2> HIDE DEF d
  <2>7. a < Quotient(Max, b) <=> a * b > Max
    BY <2>2, <2>3, <2>5, <2>6
  <2>8. a > Quotient(Min, b) <=> a * b < Min
    BY <2>2, <2>4, <2>5, <2>6, MaxAssumption DEF Min
  <2> QED
    BY <1>3, <2>6, <2>7, <2>8, IntsAreIntegers DEF CheckedMul, Jo, Ints
<1> QED
  BY <1>1, <1>2, <1>3, IntsAreIntegers

\* ck_mul lacks the comparisons with the smallest integer: `*=` panics on a product
\* too large, and wraps exactly on one too small. Negation, which no comparison
\* guards, wraps exactly on the smallest integer.
THEOREM WhatWraps ==
  ASSUME NEW a \in Ints, NEW b \in Ints
  PROVE  /\ CkMul(a, b) = IF a * b < Min THEN Ok(Wrap(a * b)) ELSE Jo(a * b)
         /\ Ok(Wrap(-a)) = IF a = Min THEN Ok(Min) ELSE Jo(-a)
<1>1. a \in Int /\ b \in Int /\ a * b \in Int
  BY IntsAreIntegers, Z3
<1>2. ASSUME NEW v \in Ints PROVE Wrap(v) = v
  <2> DEFINE n == v - Min
             m == 2 * (Max + 1)
  <2>1. n \in Nat /\ m \in Nat \ {0} /\ n < m
    BY MaxAssumption DEF Ints, Min
  <2>2. n % m = n
    <3> HIDE DEF n, m
    <3> QED
      BY <2>1, Z3
  <2> QED
    BY <2>2, IntsAreIntegers DEF Wrap
<1>3. a # 0 /\ b > 0 => (a > Quotient(Max, b) <=> a * b > Max)
  <2> SUFFICES ASSUME a # 0, b > 0 PROVE a > Quotient(Max, b) <=> a * b > Max
    OBVIOUS
  <2>1. Quotient(Max, b) = Max \div b
    BY MaxAssumption DEF Quotient, Abs, Ints, Min
  <2>2. a > Max \div b <=> b * a > Max
    BY MaxAssumption, DivBound DEF Ints, Min
  <2>3. b * a = a * b
    BY <1>1, Z3
  <2> QED
    BY <2>1, <2>2, <2>3
<1>4. a # 0 /\ b < 0 => (a < Quotient(Max, b) <=> a * b > Max)
  <2> SUFFICES ASSUME a # 0, b < 0 PROVE a < Quotient(Max, b) <=> a * b > Max
    OBVIOUS
  <2> DEFINE d == -b
  <2>1. d \in Nat \ {0}
    BY <1>1
  <2>2. Quotient(Max, b) = -(Max \div d)
    BY <1>1, MaxAssumption DEF Quotient, Abs
  <2>3. (-a > Max \div d <=> d * (-a) > Max) /\ Max \div d \in Int
    <3>1. Max \in Nat /\ -a \in Int
      BY <1>1, MaxAssumption
    <3> HIDE DEF d
    <3> QED
      BY <2>1, <3>1, DivBound
  <2>4. d * (-a) = a * b
    BY <1>1, Z3
  <2> HIDE DEF d
  <2> QED
    BY <1>1, <2>2, <2>3, <2>4
<1>5. a = 0 \/ b = 0 => a * b = 0
  BY <1>1, Z3
<1>6. CkMul(a, b) = IF a * b > Max THEN Panic ELSE Ok(Wrap(a * b))
  <2>1. 0 =< Max /\ Max \in Int
    BY MaxAssumption
  <2> QED
    BY <1>1, <1>3, <1>4, <1>5, <2>1 DEF CkMul
<1>7. CkMul(a, b) = IF a * b < Min THEN Ok(Wrap(a * b)) ELSE Jo(a * b)
  <2>1. a * b \in Ints <=> Min =< a * b /\ a * b =< Max
    BY <1>1, IntsAreIntegers DEF Ints
  <2>2. Min =< Max
    BY MaxAssumption DEF Min
  <2> QED
    BY <1>1, <1>2, <1>6, <2>1, <2>2, IntsAreIntegers DEF Jo
<1>8. CASE a = Min
  <2>1. (-a - Min) % (2 * (Max + 1)) = 0
    <3>1. -a - Min = 2 * (Max + 1) /\ 2 * (Max + 1) \in Nat \ {0}
      BY <1>8, MaxAssumption DEF Min
    <3>2. \A k \in Nat \ {0} : k % k = 0
      BY Z3
    <3> QED
      BY <3>1, <3>2
  <2> QED
    BY <1>7, <1>8, <2>1, IntsAreIntegers DEF Wrap
<1>9. CASE a # Min
  <2>1. -a \in Ints
    BY <1>9, MaxAssumption DEF Ints, Min
  <2> QED
    BY <1>2, <1>7, <1>9, <2>1 DEF Jo
<1> QED
  BY <1>8, <1>9

-----------------------------------------------------------------------------
(* Division *)

\* Euclid's division of naturals.
LEMMA Euclid ==
  ASSUME NEW n \in Nat, NEW d \in Nat \ {0}
  PROVE  LET q == n \div d IN
         /\ q \in Nat /\ d * q \in Nat
         /\ d * q =< n /\ n - d * q < d /\ q =< n
         /\ d > 1 /\ n > 0 => q < n
<1> DEFINE q == n \div d
<1>1. q \in Nat /\ d * q =< n /\ n < d * q + d
  BY Z3
<1>2. d * q \in Nat /\ d * q >= q
  BY <1>1, Z3
<1>3. d > 1 => d * q >= 2 * q
  BY <1>1, Z3
<1> HIDE DEF q
<1> QED
  BY <1>1, <1>2, <1>3 DEF q

\* A quotient fits unless it is that of Min and -1, and so does a remainder.
THEOREM DivisionFits ==
  ASSUME NEW a \in Ints, NEW b \in Ints, b # 0
  PROVE  /\ Quotient(a, b) \in Int /\ Remainder(a, b) \in Int
         /\ ~(a = Min /\ b = -1) => Quotient(a, b) \in Ints
         /\ Remainder(a, b) \in Ints
<1> DEFINE n == Abs(a)
           d == Abs(b)
           q == n \div d
<1>1. a \in Int /\ b \in Int /\ Min =< a /\ a =< Max /\ Min =< b /\ b =< Max
  BY IntsAreIntegers DEF Ints
<1>2. n \in Nat /\ d \in Nat \ {0} /\ n =< Max + 1 /\ d =< Max + 1
  BY <1>1, MaxAssumption DEF Abs, Min
<1>3. /\ q \in Nat /\ d * q \in Nat
      /\ d * q =< n /\ n - d * q < d /\ q =< n
      /\ d > 1 /\ n > 0 => q < n
  BY <1>2, Euclid
<1>4. Quotient(a, b) \in {q, -q} /\ (Quotient(a, b) = q <=> (a < 0) = (b < 0) \/ q = 0)
  BY <1>2, <1>3 DEF Quotient
<1>5. a - b * Quotient(a, b) = IF a < 0 THEN -(n - d * q) ELSE n - d * q
  <2>1. CASE a < 0 /\ b < 0
    <3>1. Quotient(a, b) = q /\ a = -n /\ b = -d
      BY <2>1, <1>1 DEF Quotient, Abs
    <3> HIDE DEF n, d, q
    <3>2. (-d) * q = -(d * q)
      BY <1>2, <1>3, Z3
    <3> QED
      BY <2>1, <3>1, <3>2, <1>2, <1>3
  <2>2. CASE a < 0 /\ b > 0
    <3>1. Quotient(a, b) = -q /\ a = -n /\ b = d
      BY <2>2, <1>1 DEF Quotient, Abs
    <3> HIDE DEF n, d, q
    <3>2. d * (-q) = -(d * q)
      BY <1>2, <1>3, Z3
    <3> QED
      BY <2>2, <3>1, <3>2, <1>2, <1>3
  <2>3. CASE a >= 0 /\ b < 0
    <3>1. Quotient(a, b) = -q /\ a = n /\ b = -d
      BY <2>3, <1>1 DEF Quotient, Abs
    <3> HIDE DEF n, d, q
    <3>2. (-d) * (-q) = d * q
      BY <1>2, <1>3, Z3
    <3> QED
      BY <2>3, <3>1, <3>2, <1>2, <1>3
  <2>4. CASE a >= 0 /\ b > 0
    <3>1. Quotient(a, b) = q /\ a = n /\ b = d
      BY <2>4, <1>1 DEF Quotient, Abs
    <3> HIDE DEF n, d, q
    <3> QED
      BY <2>4, <3>1, <1>2, <1>3
  <2> QED
    BY <2>1, <2>2, <2>3, <2>4, <1>1
<1>6. Quotient(a, b) \in Int /\ Remainder(a, b) \in Int /\ Remainder(a, b) \in Ints
  <2> HIDE DEF n, d, q
  <2> QED
    BY <1>2, <1>3, <1>4, <1>5, MaxAssumption DEF Remainder, Ints, Min
<1>7. ASSUME ~(a = Min /\ b = -1) PROVE Quotient(a, b) \in Ints
  <2>1. CASE q =< Max
    <3> HIDE DEF q
    <3> QED
      BY <2>1, <1>3, <1>4, MaxAssumption DEF Ints, Min
  <2>2. CASE q = Max + 1
    <3>1. n = Max + 1 /\ d = 1
      <4> HIDE DEF n, d, q
      <4> QED
        BY <2>2, <1>2, <1>3, MaxAssumption
    <3>2. a = Min /\ b = 1
      BY <3>1, <1>1, <1>7, MaxAssumption DEF Abs, Min
    <3>3. Quotient(a, b) = -q
      BY <3>2, MaxAssumption DEF Quotient, Min
    <3> HIDE DEF n, d, q
    <3> QED
      BY <3>3, <2>2, MaxAssumption DEF Ints, Min
  <2> HIDE DEF n, d, q
  <2> QED
    BY <2>1, <2>2, <1>2, <1>3, MaxAssumption
<1> QED
  BY <1>6, <1>7

-----------------------------------------------------------------------------
(* Chains of operations *)

\* What one operation must do to the three states for a chain to be right.
Agree(i, n, e) ==
  /\ i \in Outcomes /\ n \in Outcomes /\ e \in Int
  /\ "trap" \notin {i.st, n.st} => i = n
  /\ i.st = "ok" => i.v = e
  /\ n.st = "ok" => n.v = e
  /\ i.st = "panic" => e \notin Ints
  /\ n.st = "panic" => e \notin Ints

\* A result behind `jo` is right on both sides.
LEMMA JoAgrees ==
  ASSUME NEW r \in Int
  PROVE  Agree(Jo(r), Jo(r), r)
BY MaxAssumption DEF Agree, Outcomes, Jo, Ok, Panic, Ints, Min

LEMMA MulAgrees ==
  ASSUME NEW a \in Ints, NEW b \in Ints
  PROVE  Agree(CheckedMul(a, b), Jo(a * b), a * b)
<1>1. a \in Int /\ b \in Int /\ a * b \in Int /\ 0 \in Ints
  BY IntsAreIntegers, MaxAssumption, Z3 DEF Ints, Min
<1>2. CASE b # -1
  BY <1>1, <1>2, MulIsJo, JoAgrees
<1>3. CASE b = -1
  <2>1. a * b = -a
    BY <1>1, <1>3, Z3
  <2>2. Quotient(Max, b) = -(Max \div 1) /\ Max \div 1 = Max
    <3>1. Max \div 1 = Max
      BY MaxAssumption, Z3
    <3> QED
      BY <1>3, <3>1, MaxAssumption DEF Quotient, Abs
  <2>3. CASE a = Min
    <3>1. CheckedMul(a, b) = Panic /\ Jo(a * b) = Panic /\ a * b = Max + 1
      BY <1>1, <1>3, <2>1, <2>2, <2>3, MaxAssumption DEF CheckedMul, Jo, Ints, Min
    <3> QED
      BY <3>1, <1>1, MaxAssumption DEF Agree, Outcomes, Panic, Ints, Min
  <2>4. CASE a = 0
    <3>1. CheckedMul(a, b) = Ok(0) /\ Jo(a * b) = Ok(0) /\ a * b = 0
      BY <1>1, <2>1, <2>4 DEF CheckedMul, Jo
    <3> QED
      BY <3>1, <1>1 DEF Agree, Outcomes, Ok
  <2>5. CASE a # 0 /\ a # Min
    <3>1. -a \in Ints /\ ~(a < -Max)
      BY <2>5, MaxAssumption DEF Ints, Min
    <3>2. CheckedMul(a, b) = Trap
      BY <1>1, <1>3, <2>2, <2>5, <3>1, MaxAssumption DEF CheckedMul
    <3>3. Jo(a * b) = Ok(-a)
      BY <2>1, <3>1 DEF Jo
    <3> QED
      BY <1>1, <2>1, <3>1, <3>2, <3>3 DEF Agree, Outcomes, Ok, Trap
  <2> QED
    BY <2>3, <2>4, <2>5
<1> QED
  BY <1>2, <1>3

\* The interpreter's test for zero and the processor's own.
LEMMA DivisionAgrees ==
  ASSUME NEW a \in Ints, NEW b \in Ints,
         NEW r, b # 0 => r \in Int /\ (~(a = Min /\ b = -1) => r \in Ints)
  PROVE  Agree(IF b = 0 THEN Panic ELSE Idiv(a, b, r), Idiv(a, b, r),
               IF b = 0 THEN NoValue ELSE r)
<1>1. NoValue \in Int /\ NoValue \notin Ints /\ 0 \in Ints
  <2>1. (Max + 1) * (Max + 1) >= Max + 1 /\ (Max + 1) * (Max + 1) \in Int
    BY MaxAssumption, Z3
  <2>2. NoValue = 2 * ((Max + 1) * (Max + 1))
    BY MaxAssumption, Z3 DEF NoValue
  <2> QED
    BY <2>1, <2>2, MaxAssumption DEF Ints, Min
<1>2. CASE b = 0
  BY <1>1, <1>2 DEF Agree, Outcomes, Panic, Trap, Idiv
<1>3. CASE b # 0 /\ a = Min /\ b = -1
  BY <1>1, <1>3 DEF Agree, Outcomes, Trap, Idiv
<1>4. CASE b # 0 /\ ~(a = Min /\ b = -1)
  BY <1>1, <1>4 DEF Agree, Outcomes, Ok, Idiv
<1> QED
  BY <1>2, <1>3, <1>4

\* What is known of the chain after any number of operations.
ChainInv == Agree(interp, native, ideal)

LEMMA ChainStep ==
  ASSUME Ops \subseteq AllOps \ {"*=", "neg"}, ChainInv, ChainNext
  PROVE  ChainInv'
<1>1. PICK op \in Ops, b \in Ints : Apply(op, b)
  BY DEF ChainNext
<1> DEFINE a == ideal
<1>2. a \in Ints /\ interp.v = a /\ native.v = a
  BY <1>1 DEF ChainInv, Agree, Outcomes, Apply, Running
<1>3. a \in Int /\ b \in Int /\ a + b \in Int /\ a - b \in Int
  BY <1>2, IntsAreIntegers
<1>4. Agree(Interp(op, a, b), Native(op, a, b), Exact(op, a, b))
  <2>1. CASE op \in {"+", "+="}
    <3>1. Interp(op, a, b) = Jo(a + b) /\ Native(op, a, b) = Jo(a + b) /\ Exact(op, a, b) = a + b
      BY <1>2, <2>1, AddIsJo DEF Interp, Native, Exact
    <3> QED
      BY <1>3, <3>1, JoAgrees
  <2>2. CASE op \in {"-", "-="}
    <3>1. Interp(op, a, b) = Jo(a - b) /\ Native(op, a, b) = Jo(a - b) /\ Exact(op, a, b) = a - b
      BY <1>2, <2>2, SubIsJo DEF Interp, Native, Exact
    <3> QED
      BY <1>3, <3>1, JoAgrees
  <2>3. CASE op = "*"
    BY <1>2, <2>3, MulAgrees DEF Interp, Native, Exact
  <2>4. CASE op \in {"/", "/="}
    <3>1. Agree(IF b = 0 THEN Panic ELSE Idiv(a, b, Quotient(a, b)), Idiv(a, b, Quotient(a, b)),
                IF b = 0 THEN NoValue ELSE Quotient(a, b))
      BY <1>2, DivisionFits, DivisionAgrees
    <3> QED
      BY <2>4, <3>1 DEF Interp, Native, Exact, InterpDiv
  <2>5. CASE op \in {"%", "%="}
    <3>1. Agree(IF b = 0 THEN Panic ELSE Idiv(a, b, Remainder(a, b)), Idiv(a, b, Remainder(a, b)),
                IF b = 0 THEN NoValue ELSE Remainder(a, b))
      BY <1>2, DivisionFits, DivisionAgrees
    <3> QED
      BY <2>5, <3>1 DEF Interp, Native, Exact, InterpMod
  <2> QED
    BY <2>1, <2>2, <2>3, <2>4, <2>5 DEF AllOps, AdditiveOps
<1>5. interp' = Interp(op, a, b) /\ native' = Native(op, a, b) /\ ideal' = Exact(op, a, b)
  BY <1>1, <1>2 DEF Apply
<1> QED
  BY <1>4, <1>5 DEF ChainInv

\* `*=` and unary minus are left out: they wrap.
LEMMA ChainAlways ==
  ASSUME Ops \subseteq AllOps \ {"*=", "neg"}
  PROVE  ChainSpec => []ChainInv
<1>1. ChainInit => ChainInv
  BY IntsAreIntegers, MaxAssumption DEF ChainInit, ChainInv, Agree, Outcomes, Ok
<1>2. ChainInv /\ [ChainNext]_chainVars => ChainInv'
  <2>1. ChainInv /\ UNCHANGED chainVars => ChainInv'
    BY DEF chainVars, ChainInv
  <2> QED
    BY <2>1, ChainStep
<1> QED
  BY <1>1, <1>2, PTL DEF ChainSpec

\* For every width: a chain of the operators `*` and `+ - / %` with their
\* compound forms goes on only with the exact integer.
THEOREM ChainsExact ==
  ASSUME Ops \subseteq AllOps \ {"*=", "neg"}
  PROVE  ChainSpec => []NoWrap
<1>1. ChainInv => NoWrap
  BY DEF ChainInv, Agree, NoWrap
<1> QED
  BY <1>1, ChainAlways, PTL

\* Such a chain panics only when there is no exact integer that fits.
THEOREM PanicsHaveReason ==
  ASSUME Ops \subseteq AllOps \ {"*=", "neg"}
  PROVE  ChainSpec => []PanicJustified
<1>1. ChainInv => PanicJustified
  BY DEF ChainInv, Agree, PanicJustified
<1> QED
  BY <1>1, ChainAlways, PTL

\* It ends alike in the interpreter and in native code wherever the processor
\* kills neither.
THEOREM CheckedChains ==
  ASSUME Ops \subseteq AllOps \ {"*=", "neg"}
  PROVE  ChainSpec => []SameOutcome
<1>1. ChainInv => SameOutcome
  BY DEF ChainInv, Agree, SameOutcome
<1> QED
  BY <1>1, ChainAlways, PTL

-----------------------------------------------------------------------------
(***************************************************************************)
(* Positions modulo a capacity                                             *)
(***************************************************************************)

\* Arithmetic the solver wants to be told for counters after a step.
LEMMA LessOne ==
  ASSUME NEW n \in Nat, NEW a \in Nat, NEW b \in Nat, a - b = n + 1
  PROVE  a - b - 1 = n
OBVIOUS

\* Quotient and remainder.
LEMMA DivMod ==
  ASSUME NEW a \in Nat, NEW c \in Nat \ {0}
  PROVE  /\ a \div c \in Nat
         /\ a % c \in 0..(c - 1)
         /\ a = c * (a \div c) + (a % c)
BY Z3

\* A counter below the capacity is its own position.
LEMMA SmallMod ==
  ASSUME NEW c \in Nat \ {0}, NEW a \in 0..(c - 1)
  PROVE  a % c = a
BY Z3

\* Two counters closer than the capacity have different positions.
LEMMA DistinctPositions ==
  ASSUME NEW c \in Nat \ {0}, NEW a \in Nat, NEW b \in Nat, a < b, b - a < c
  PROVE  a % c # b % c
<1> DEFINE qa == a \div c
           qb == b \div c
<1>1. qa \in Nat /\ a % c \in 0..(c - 1) /\ a = c * qa + (a % c)
  BY DivMod
<1>2. qb \in Nat /\ b % c \in 0..(c - 1) /\ b = c * qb + (b % c)
  BY DivMod
<1> HIDE DEF qa, qb
<1> SUFFICES ASSUME a % c = b % c PROVE FALSE
  OBVIOUS
<1>3. b - a = c * (qb - qa)
  BY <1>1, <1>2, Z3
<1>4. CASE qb - qa =< 0
  <2>1. c * (qb - qa) =< 0
    BY <1>1, <1>2, <1>4, Z3
  <2> QED
    BY <1>3, <2>1
<1>5. CASE qb - qa >= 1
  <2>1. c * (qb - qa) >= c
    BY <1>1, <1>2, <1>5, Z3
  <2> QED
    BY <1>3, <2>1
<1> QED
  BY <1>1, <1>2, <1>4, <1>5

-----------------------------------------------------------------------------
(***************************************************************************)
(* Types                                                                   *)
(***************************************************************************)

Cell == Values \union {Garbage}

\* The counters and the buffer agree, and every waiting value was written.
TypeInv ==
  /\ TypeOK
  /\ NothingUnwritten

\* A buffer from malloc holds nothing of use.
LEMMA FreshBuffer ==
  ASSUME NEW n \in Nat \ {0}
  PROVE  [i \in Cells(n) |-> Garbage] \in [Cells(n) -> Cell]
BY DEF Cell

\* The new buffer holds the waiting values from cell 0 on.
LEMMA RelaidValues ==
  ASSUME TypeInv, handle = "channel", Full
  PROVE  /\ Relaid(2 * cap) \in [Cells(2 * cap) -> Cell]
         /\ \A i \in 0..(tail - head - 1) :
              Relaid(2 * cap)[i] = buf[(head + i) % cap]
<1>1. cap \in Nat \ {0} /\ (2 * cap) \div 2 = cap /\ tail - head = cap
  BY DEF TypeInv, NothingUnwritten, TypeOK, Full
<1>2. \A i \in 0..(cap - 1) : i \in Cells(2 * cap)
  BY <1>1 DEF Cells
<1>3. \A i \in Cells(2 * cap) : i < cap => buf[(head + i) % cap] \in Values
  BY <1>1 DEF TypeInv, NothingUnwritten, Cells
<1>4. Relaid(2 * cap) = [i \in Cells(2 * cap) |->
                           IF i < cap THEN buf[(head + i) % cap] ELSE Garbage]
  BY <1>1 DEF Relaid
<1> QED
  BY <1>1, <1>2, <1>3, <1>4 DEF Cell

\* A store behind the waiting values of a buffer leaves them as they are.
LEMMA StoreKeeps ==
  ASSUME NEW c \in Nat \ {0}, NEW h \in Nat, NEW t \in Nat, h <= t, t - h < c,
         NEW b \in [Cells(c) -> Cell], NEW v \in Values
  PROVE  /\ [b EXCEPT ![t % c] = v] \in [Cells(c) -> Cell]
         /\ [b EXCEPT ![t % c] = v][t % c] = v
         /\ \A i \in 0..(t - h - 1) :
              [b EXCEPT ![t % c] = v][(h + i) % c] = b[(h + i) % c]
<1>1. t % c \in Cells(c)
  BY DivMod DEF Cells
<1>2. ASSUME NEW i \in 0..(t - h - 1)
      PROVE  (h + i) % c # t % c /\ (h + i) % c \in Cells(c)
  <2>1. h + i \in Nat /\ h + i < t /\ t - (h + i) < c
    OBVIOUS
  <2> QED
    BY <2>1, DistinctPositions, DivMod DEF Cells
<1> QED
  BY <1>1, <1>2 DEF Cell

\* What a send does, from the values as they lie when it stores: either they
\* lie where they did, or from cell 0 of a buffer twice as large.
LEMMA SendEffect ==
  ASSUME TypeInv, NEW v \in Values, Send(v)
  PROVE  /\ head' \in Nat /\ tail' \in Nat /\ cap' \in Nat \ {0}
         /\ head' <= tail' /\ tail' - head' = tail - head + 1
         /\ tail' - head' <= cap'
         /\ buf' \in [Cells(cap') -> Cell]
         /\ buf'[(head' + (tail - head)) % cap'] = v
         /\ \A i \in 0..(tail - head - 1) :
              buf'[(head' + i) % cap'] = buf[(head + i) % cap]
<1>0. /\ handle \in {"null", "channel"} /\ head \in Nat /\ tail \in Nat /\ head <= tail
      /\ tail - head <= cap /\ cap \in Nat
      /\ handle = "channel" => cap > 0 /\ buf \in [Cells(cap) -> Cell]
  BY DEF TypeInv, NothingUnwritten, TypeOK, Cell
<1>1. CASE Full
  <2> DEFINE b == Relaid(2 * cap)
             n == tail - head
  <2>1. buf' = [b EXCEPT ![n % (2 * cap)] = v] /\ head' = 0 /\ tail' = n + 1 /\ cap' = 2 * cap
    BY <1>1 DEF Send, Store
  <2>2. handle = "channel" /\ n \in Nat /\ n = cap /\ cap \in Nat \ {0}
    BY <1>0, <1>1 DEF Send, Full
  <2>3. /\ b \in [Cells(2 * cap) -> Cell]
        /\ \A i \in 0..(n - 1) : b[i] = buf[(head + i) % cap]
    BY <1>1, <2>2, RelaidValues
  <2> HIDE DEF b, n
  <2>4. /\ buf' \in [Cells(2 * cap) -> Cell]
        /\ buf'[n % (2 * cap)] = v
        /\ \A i \in 0..(n - 1) : buf'[(0 + i) % (2 * cap)] = b[(0 + i) % (2 * cap)]
    <3>1. 2 * cap \in Nat \ {0} /\ 0 <= n /\ n - 0 < 2 * cap
      BY <2>2
    <3>2. /\ [b EXCEPT ![n % (2 * cap)] = v] \in [Cells(2 * cap) -> Cell]
          /\ [b EXCEPT ![n % (2 * cap)] = v][n % (2 * cap)] = v
          /\ \A i \in 0..(n - 0 - 1) :
               [b EXCEPT ![n % (2 * cap)] = v][(0 + i) % (2 * cap)] = b[(0 + i) % (2 * cap)]
      BY <3>1, <2>2, <2>3, StoreKeeps, 0 \in Nat
    <3>3. n - 0 - 1 = n - 1
      BY <2>2
    <3> QED
      BY <2>1, <3>2, <3>3
  <2>5. \A i \in 0..(n - 1) : (0 + i) % (2 * cap) = i
    BY <2>2, SmallMod
  <2>6. \A i \in 0..(n - 1) : buf'[(head' + i) % cap'] = buf[(head + i) % cap]
    BY <2>1, <2>3, <2>4, <2>5
  <2>7. 0 + n = n /\ n + 1 - 0 = n + 1 /\ n + 1 <= 2 * cap
    BY <2>2
  <2> QED
    BY <2>1, <2>2, <2>4, <2>6, <2>7 DEF n
<1>2. CASE ~Full
  <2>1. handle = "channel" /\ buf' = [buf EXCEPT ![tail % cap] = v] /\ head' = head /\ tail' = tail + 1 /\ cap' = cap
    BY <1>2 DEF Send, Store
  <2>2. cap \in Nat \ {0} /\ tail - head < cap /\ head + (tail - head) = tail
        /\ buf \in [Cells(cap) -> Cell]
    BY <1>0, <1>2, <2>1 DEF Full
  <2>3. /\ buf' \in [Cells(cap) -> Cell]
        /\ buf'[tail % cap] = v
        /\ \A i \in 0..(tail - head - 1) : buf'[(head + i) % cap] = buf[(head + i) % cap]
    <3>1. /\ head \in Nat /\ tail \in Nat /\ head <= tail
          /\ cap \in Nat \ {0} /\ tail - head < cap
          /\ buf \in [Cells(cap) -> Cell]
      BY <1>0, <2>2
    <3>2. /\ [buf EXCEPT ![tail % cap] = v] \in [Cells(cap) -> Cell]
          /\ [buf EXCEPT ![tail % cap] = v][tail % cap] = v
          /\ \A i \in 0..(tail - head - 1) :
               [buf EXCEPT ![tail % cap] = v][(head + i) % cap] = buf[(head + i) % cap]
      <4>1. [buf EXCEPT ![tail % cap] = v] \in [Cells(cap) -> Cell]
        BY <3>1, StoreKeeps
      <4>2. [buf EXCEPT ![tail % cap] = v][tail % cap] = v
        BY <3>1, StoreKeeps
      <4>3. \A i \in 0..(tail - head - 1) :
               [buf EXCEPT ![tail % cap] = v][(head + i) % cap] = buf[(head + i) % cap]
        <5> SUFFICES ASSUME NEW i \in 0..(tail - head - 1)
                     PROVE  [buf EXCEPT ![tail % cap] = v][(head + i) % cap]
                              = buf[(head + i) % cap]
          OBVIOUS
        <5>1. head + i \in Nat /\ head + i < tail /\ tail - (head + i) < cap
          BY <3>1
        <5>2. (head + i) % cap # tail % cap /\ (head + i) % cap \in Cells(cap)
          BY <3>1, <5>1, DistinctPositions, DivMod DEF Cells
        <5> QED
          BY <3>1, <5>2
      <4> QED
        BY <4>1, <4>2, <4>3
    <3> QED
      BY <2>1, <3>2
  <2> QED
    BY <1>0, <2>1, <2>2, <2>3
<1> QED
  BY <1>1, <1>2

\* The type invariant of the ring, for any first capacity.
LEMMA Typing == Spec => []TypeInv
<1>1. Init => TypeInv
  <2> SUFFICES ASSUME Init PROVE TypeInv
    OBVIOUS
  <2>1. 0..(tail - head - 1) = {}
    BY DEF Init
  <2> QED
    BY <2>1 DEF Init, TypeInv, NothingUnwritten, TypeOK
<1>2. TypeInv /\ [Next]_vars => TypeInv'
  <2> SUFFICES ASSUME TypeInv, [Next]_vars PROVE TypeInv'
    OBVIOUS
  <2>1. CASE New
    BY <2>1, InitialCapAssumption, FreshBuffer DEF New, TypeInv, NothingUnwritten, TypeOK, Cell
  <2>2. ASSUME NEW v \in Values, Send(v) PROVE TypeInv'
    <3> DEFINE n == tail - head
    <3>1. n \in Nat /\ handle' = handle /\ handle = "channel" /\ answer' = answer
      BY <2>2 DEF Send, Store, TypeInv, NothingUnwritten, TypeOK
    <3>2. longest' \in Nat
      BY <2>2 DEF Send, Store, Maximum, TypeInv, NothingUnwritten, TypeOK
    <3>3. /\ head' \in Nat /\ tail' \in Nat /\ cap' \in Nat \ {0}
          /\ head' <= tail' /\ tail' - head' = n + 1
          /\ tail' - head' <= cap'
          /\ buf' \in [Cells(cap') -> Cell]
          /\ buf'[(head' + n) % cap'] = v
          /\ \A i \in 0..(n - 1) : buf'[(head' + i) % cap'] = buf[(head + i) % cap]
      BY <2>2, SendEffect
    <3>4. \A i \in 0..(n - 1) : buf[(head + i) % cap] \in Values
      BY DEF TypeInv, NothingUnwritten
    <3> HIDE DEF n
    <3>5. \A i \in 0..(tail' - head' - 1) : i \in 0..(n - 1) \/ i = n
      <4> tail' \in Nat /\ head' \in Nat /\ tail' - head' = n + 1 /\ n \in Nat
        BY <3>1, <3>3, Zenon
      <4>1. tail' - head' - 1 = n
        BY LessOne
      <4>2. \A i \in 0..n : i \in 0..(n - 1) \/ i = n
        BY <3>1
      <4> QED
        BY <4>1, <4>2
    <3>6. \A i \in 0..(tail' - head' - 1) : buf'[(head' + i) % cap'] \in Values
      BY <3>3, <3>4, <3>5
    <3>7. answer \in Values \union {Zero, Garbage} /\ handle \in {"null", "channel"}
      BY DEF TypeInv, NothingUnwritten, TypeOK
    <3>8. TypeOK'
      <4>1. cap' > 0 /\ cap' \in Nat /\ handle' = "channel"
        BY <3>1, <3>3, <3>7
      <4>2. buf' \in [Cells(cap)' -> Values \union {Garbage}]
        BY <3>3 DEF Cell, Cells
      <4> QED
        BY <3>1, <3>2, <3>3, <3>7, <4>1, <4>2 DEF TypeOK
    <3>9. answer' \in Values \union {Zero}
      BY <3>1 DEF TypeInv, NothingUnwritten
    <3> QED
      BY <3>6, <3>8, <3>9 DEF TypeInv, NothingUnwritten
  <2>3. CASE Recv
    <3>1. /\ 0 \in 0..(tail - head - 1) /\ head + 0 = head
          /\ \A i \in 0..(tail - (head + 1) - 1) :
               i + 1 \in 0..(tail - head - 1) /\ head + (i + 1) = (head + 1) + i
      BY <2>3 DEF Recv, TypeInv, NothingUnwritten, TypeOK
    <3>2. buf[head % cap] \in Values
      BY <3>1 DEF TypeInv, NothingUnwritten
    <3>3. \A i \in 0..(tail - (head + 1) - 1) : buf[((head + 1) + i) % cap] \in Values
      BY <3>1 DEF TypeInv, NothingUnwritten
    <3>4. TypeOK'
      BY <2>3, <3>2 DEF Recv, TypeInv, NothingUnwritten, TypeOK
    <3> QED
      BY <2>3, <3>2, <3>3, <3>4 DEF Recv, TypeInv, NothingUnwritten
  <2>4. CASE RecvNothing
    BY <2>4 DEF RecvNothing, TypeInv, NothingUnwritten, TypeOK
  <2>5. CASE UNCHANGED vars
    BY <2>5 DEF vars, TypeInv, NothingUnwritten, TypeOK
  <2> QED
    BY <2>1, <2>2, <2>3, <2>4, <2>5 DEF Next
<1> QED
  BY <1>1, <1>2, PTL DEF Spec

\* The ring (structure AegisChannel, line 218): the counters are never further apart
\* than the capacity, a cell between them holds a value that some send was given,
\* however often the buffer was moved, and no recv answers memory nobody wrote.
THEOREM TypeCorrect == Spec => [](TypeOK /\ NothingUnwritten)
<1>1. TypeInv => TypeOK /\ NothingUnwritten
  BY DEF TypeInv, NothingUnwritten
<1> QED
  BY <1>1, Typing, PTL

-----------------------------------------------------------------------------
(***************************************************************************)
(* Growth                                                                  *)
(***************************************************************************)

\* The queue has been as long as it is now.
LongestInv == GrowsForWaiting /\ tail - head <= longest

\* The ring grows only for values that wait: never beyond twice the longest
\* the queue has been (line 225).
THEOREM Growth == Spec => []GrowsForWaiting
<1>1. Init => LongestInv
  BY InitialCapAssumption DEF Init, LongestInv, GrowsForWaiting
<1>2. TypeInv /\ LongestInv /\ [Next]_vars => LongestInv'
  <2> SUFFICES ASSUME TypeInv, LongestInv, [Next]_vars PROVE LongestInv'
    OBVIOUS
  <2> USE InitialCapAssumption DEF TypeInv, NothingUnwritten, TypeOK, LongestInv, GrowsForWaiting
  <2>1. CASE New
    BY <2>1 DEF New
  <2>2. ASSUME NEW v \in Values, Send(v) PROVE LongestInv'
    BY <2>2 DEF Send, Store, Maximum, Full
  <2>3. CASE Recv
    BY <2>3 DEF Recv
  <2>4. CASE RecvNothing
    BY <2>4 DEF RecvNothing
  <2>5. CASE UNCHANGED vars
    BY <2>5 DEF vars
  <2> QED
    BY <2>1, <2>2, <2>3, <2>4, <2>5 DEF Next
<1>3. LongestInv => GrowsForWaiting
  BY DEF LongestInv
<1> QED
  BY <1>1, <1>2, <1>3, Typing, PTL DEF Spec

-----------------------------------------------------------------------------
(***************************************************************************)
(* The queue                                                               *)
(***************************************************************************)

\* The queue as a sequence, and its front.
ContentsInv ==
  /\ Contents \in Seq(Values)
  /\ Len(Contents) = tail - head
  /\ \A i \in 1..(tail - head) : Contents[i] = buf[(head + i - 1) % cap]

LEMMA ContentsAsSeq == TypeInv => ContentsInv
<1> SUFFICES ASSUME TypeInv PROVE ContentsInv
  OBVIOUS
<1>1. tail - head \in Nat
  BY DEF TypeInv, NothingUnwritten, TypeOK
<1>2. \A i \in 1..(tail - head) :
        i - 1 \in 0..(tail - head - 1) /\ head + (i - 1) = head + i - 1
  BY <1>1 DEF TypeInv, NothingUnwritten, TypeOK
<1>3. \A i \in 1..(tail - head) : buf[(head + i - 1) % cap] \in Values
  BY <1>2 DEF TypeInv, NothingUnwritten
<1> QED
  BY <1>1, <1>3 DEF Contents, ContentsInv

\* A send appends its value, whether the buffer was moved or not.
LEMMA SendAppends ==
  ASSUME TypeInv, TypeInv', NEW v \in Values, Send(v)
  PROVE  Contents' = Append(Contents, v)
<1> DEFINE n == tail - head
<1>1. /\ n \in Nat /\ head \in Nat /\ head' \in Nat /\ tail' - head' = n + 1
      /\ buf'[(head' + n) % cap'] = v
      /\ \A i \in 0..(n - 1) : buf'[(head' + i) % cap'] = buf[(head + i) % cap]
  <2>1. n \in Nat /\ head \in Nat
    BY DEF TypeInv, NothingUnwritten, TypeOK
  <2>2. /\ head' \in Nat /\ tail' - head' = tail - head + 1
        /\ buf'[(head' + (tail - head)) % cap'] = v
        /\ \A i \in 0..(tail - head - 1) : buf'[(head' + i) % cap'] = buf[(head + i) % cap]
    BY SendEffect
  <2> QED
    BY <2>1, <2>2
<1>2. /\ Contents \in Seq(Values) /\ Len(Contents) = n
      /\ \A i \in 1..n : Contents[i] = buf[(head + i - 1) % cap]
  BY ContentsAsSeq DEF ContentsInv
<1> HIDE DEF n
<1>3. /\ Contents' \in Seq(Values) /\ Len(Contents') = n + 1
      /\ \A i \in 1..(n + 1) : Contents'[i] = buf'[(head' + i - 1) % cap']
  <2>1. /\ Contents' \in Seq(Values) /\ Len(Contents') = tail' - head'
        /\ \A i \in 1..(tail' - head') : Contents'[i] = buf'[(head' + i - 1) % cap']
    <3>1. TypeInv' => ContentsInv'
      BY ContentsAsSeq, PTL
    <3> QED
      BY <3>1 DEF ContentsInv
  <2> QED
    BY <1>1, <2>1
<1>4. \A i \in 1..n : Contents'[i] = Contents[i]
  <2> SUFFICES ASSUME NEW i \in 1..n PROVE Contents'[i] = Contents[i]
    OBVIOUS
  <2>1. i - 1 \in 0..(n - 1) /\ head' + i - 1 = head' + (i - 1) /\ head + i - 1 = head + (i - 1)
        /\ i \in 1..(n + 1)
    BY <1>1
  <2> QED
    BY <1>1, <1>2, <1>3, <2>1
<1>5. Contents'[n + 1] = v
  <2>1. n + 1 \in 1..(n + 1) /\ head' + (n + 1) - 1 = head' + n
    BY <1>1
  <2> QED
    BY <1>1, <1>3, <2>1
<1>6. /\ Append(Contents, v) \in Seq(Values)
      /\ Len(Append(Contents, v)) = n + 1
      /\ \A i \in 1..n : Append(Contents, v)[i] = Contents[i]
      /\ Append(Contents, v)[n + 1] = v
  BY <1>1, <1>2, AppendProperties
<1>7. \A i \in 1..(n + 1) : Contents'[i] = Append(Contents, v)[i]
  BY <1>1, <1>4, <1>5, <1>6
<1> QED
  BY <1>3, <1>6, <1>7, SeqEqual

\* A recv takes the front.
LEMMA RecvTakes ==
  ASSUME TypeInv, TypeInv', Recv
  PROVE  /\ Contents # <<>>
         /\ answer' = Head(Contents)
         /\ Contents' = Tail(Contents)
<1> DEFINE n == tail - head
<1>1. /\ n \in Nat \ {0} /\ head \in Nat /\ tail' - head' = n - 1
      /\ head' = head + 1 /\ buf' = buf /\ cap' = cap /\ answer' = buf[head % cap]
      /\ head + 1 - 1 = head
  BY DEF Recv, TypeInv, NothingUnwritten, TypeOK
<1>2. /\ Contents \in Seq(Values) /\ Len(Contents) = n
      /\ \A i \in 1..n : Contents[i] = buf[(head + i - 1) % cap]
  BY ContentsAsSeq DEF ContentsInv
<1> HIDE DEF n
<1>3. /\ Contents' \in Seq(Values) /\ Len(Contents') = n - 1
      /\ \A i \in 1..(n - 1) : Contents'[i] = buf[(head + 1 + i - 1) % cap]
  <2>1. /\ Contents' \in Seq(Values) /\ Len(Contents') = tail' - head'
        /\ \A i \in 1..(tail' - head') : Contents'[i] = buf'[(head' + i - 1) % cap']
    <3>1. TypeInv' => ContentsInv'
      BY ContentsAsSeq, PTL
    <3> QED
      BY <3>1 DEF ContentsInv
  <2> QED
    BY <1>1, <2>1
<1>4. Contents # <<>>
  BY <1>1, <1>2
<1>5. /\ Tail(Contents) \in Seq(Values)
      /\ Len(Tail(Contents)) = n - 1
      /\ \A i \in 1..(n - 1) : Tail(Contents)[i] = Contents[i + 1]
      /\ Head(Contents) = Contents[1]
  BY <1>1, <1>2, <1>4, HeadTailProperties
<1>6. \A i \in 1..(n - 1) : Contents'[i] = Tail(Contents)[i]
  <2> SUFFICES ASSUME NEW i \in 1..(n - 1) PROVE Contents'[i] = Tail(Contents)[i]
    OBVIOUS
  <2>1. i + 1 \in 1..n /\ head + (i + 1) - 1 = head + 1 + i - 1
    BY <1>1
  <2> QED
    BY <1>2, <1>3, <1>5, <2>1
<1>7. Contents' = Tail(Contents)
  BY <1>3, <1>5, <1>6, SeqEqual
<1>8. answer' = Head(Contents)
  <2>1. 1 \in 1..n
    BY <1>1
  <2> QED
    BY <1>1, <1>2, <1>5, <2>1
<1> QED
  BY <1>4, <1>7, <1>8

\* What does not touch the ring does not touch the queue.
LEMMA SameContents ==
  ASSUME UNCHANGED <<buf, head, tail, cap>>
  PROVE  Contents' = Contents
BY DEF Contents

\* An empty ring is an empty queue.
LEMMA EmptyContents ==
  ASSUME head \in Nat, tail \in Nat, ContentsInv
  PROVE  Contents = <<>> <=> head = tail
BY DEF ContentsInv

\* The ring implements the queue: aegis_channel_send and aegis_channel_recv
\* deliver what was sent, in order and once (lines 223 to 235), for every
\* first capacity and any number of sends.
THEOREM Refinement == Spec => QueueSpec
<1>1. Init => Queue!QInit
  BY DEF Init, Queue!QInit, Contents
<1>2. TypeInv /\ TypeInv' /\ [Next]_vars => [Queue!QNext]_(Queue!qvars)
  <2> SUFFICES ASSUME TypeInv, TypeInv', [Next]_vars
               PROVE  [Queue!QNext]_(Queue!qvars)
    OBVIOUS
  <2> USE DEF Queue!QNext, Queue!qvars
  <2>1. CASE New
    <3>1. head = tail /\ handle = "null"
      BY <2>1 DEF New, TypeInv, NothingUnwritten, TypeOK
    <3>2. head' = tail' /\ Contents = <<>> /\ Contents' = <<>>
      <4>1. head' = head /\ tail' = tail /\ head \in Nat /\ tail \in Nat
        BY <2>1 DEF New, TypeInv, NothingUnwritten, TypeOK
      <4>2. ContentsInv /\ ContentsInv'
        <5>1. TypeInv' => ContentsInv'
          BY ContentsAsSeq, PTL
        <5> QED
          BY <5>1, ContentsAsSeq
      <4>3. Len(Contents) = 0 /\ Contents \in Seq(Values)
        BY <3>1, <4>1, <4>2 DEF ContentsInv
      <4>4. Len(Contents') = 0 /\ Contents' \in Seq(Values)
        BY <3>1, <4>1, <4>2 DEF ContentsInv
      <4> QED
        BY <3>1, <4>1, <4>3, <4>4
    <3> QED
      BY <2>1, <3>1, <3>2 DEF New, Queue!Make
  <2>2. ASSUME NEW v \in Values, Send(v) PROVE [Queue!QNext]_(Queue!qvars)
    <3>1. handle = "channel" /\ handle' = handle /\ answer' = answer
      BY <2>2 DEF Send
    <3>2. Contents' = Append(Contents, v)
      BY <2>2, SendAppends
    <3> QED
      BY <3>1, <3>2 DEF Queue!Put
  <2>3. CASE Recv
    BY <2>3, RecvTakes DEF Recv, Queue!Take
  <2>4. CASE RecvNothing
    <3>1. head = tail
      BY <2>4 DEF RecvNothing, TypeInv, NothingUnwritten, TypeOK
    <3>2. Contents = <<>> /\ Contents' = Contents
      <4>1. ContentsInv /\ head \in Nat /\ tail \in Nat
        BY ContentsAsSeq DEF TypeInv, NothingUnwritten, TypeOK
      <4> QED
        BY <2>4, <3>1, <4>1, EmptyContents, SameContents DEF RecvNothing
    <3> QED
      BY <2>4, <3>2 DEF RecvNothing, Queue!TakeNothing
  <2>5. CASE UNCHANGED vars
    BY <2>5, SameContents DEF vars
  <2> QED
    BY <2>1, <2>2, <2>3, <2>4, <2>5 DEF Next
<1> QED
  BY <1>1, <1>2, Typing, PTL DEF Spec, QueueSpec, Queue!QSpec

-----------------------------------------------------------------------------
(***************************************************************************)
(* The scanner and the parser.                                             *)
(***************************************************************************)
\* A set of naturals has a least element.
LEMMA Least ==
  ASSUME NEW S \in SUBSET Nat, S # {}
  PROVE  \E m \in S : \A k \in S : m =< k
<1> DEFINE R == {ss \in Nat \X Nat : ss[1] < ss[2]}
<1>1. IsWellFoundedOn(R, Nat)
  BY NatLessThanWellFounded DEF OpToRel
<1>2. PICK m \in S : \A k \in S : ~ (<<k, m>> \in R)
  <2> HIDE DEF R
  <2> QED
    BY <1>1, WFMin
<1>3. \A k, n \in S : k < n => <<k, n>> \in R
  OBVIOUS
<1>4. \A k \in S : ~ (k < m)
  BY <1>2, <1>3
<1> QED
  BY <1>4

-----------------------------------------------------------------------------
(***************************************************************************)
(* The scanner never stands still.                                         *)
(***************************************************************************)
SourceInv == source \in Seq(STRING)

\* What peek finds behind the end of the text.
Nul == ""

LEMMA TextLength ==
  ASSUME SourceInv
  PROVE  Len(source) \in Nat
BY DEF SourceInv

LEMMA GlyphWithin ==
  ASSUME SourceInv, NEW i \in Nat, Glyph(i) # Nul
  PROVE  i <= Len(source)
<1>1. i > Len(source) => Glyph(i) = Nul
  BY DEF Glyph, Nul
<1> QED
  BY <1>1, TextLength

LEMMA GlyphIs ==
  ASSUME SourceInv
  PROVE  /\ \A i \in 1..Len(source) : Glyph(i) = source[i]
         /\ Glyph(Len(source) + 1) = Nul
<1>1. \A i \in 1..Len(source) : ~(i > Len(source))
  BY TextLength
<1>2. Len(source) + 1 > Len(source)
  BY TextLength
<1> QED
  BY <1>1, <1>2 DEF Glyph, Nul

LEMMA GlyphBehind ==
  ASSUME SourceInv, NEW i \in Nat, Glyph(i + 1) # Nul
  PROVE  i + 1 \in Nat /\ i + 1 <= Len(source)
<1>1. PICK k \in Nat : k = i + 1
  OBVIOUS
<1>2. k <= Len(source)
  BY <1>1, GlyphWithin
<1> QED
  BY <1>1, <1>2

LEMMA RunEndFacts ==
  ASSUME SourceInv, NEW S, Nul \notin S, NEW i \in 1..(Len(source) + 1)
  PROVE  /\ RunEnd(i, S) \in i..(Len(source) + 1)
         /\ Glyph(i) \in S => RunEnd(i, S) > i
<1> DEFINE n == Len(source) + 1
           Stops == {j \in i..n : Glyph(j) \notin S}
           Ends(j) == (\A k \in i..(j - 1) : source[k] \in S) /\ Glyph(j) \notin S
<1>1. n \in Nat /\ Glyph(n) = Nul /\ i \in Nat /\ i <= n
  BY TextLength, GlyphIs
<1>2. PICK j \in Stops : \A k \in Stops : j =< k
  <2>1. n \in Stops /\ Stops \in SUBSET Nat
    BY <1>1
  <2> HIDE DEF Stops
  <2> QED
    BY <2>1, Least
<1>3. Ends(j)
  <2>1. ASSUME NEW k \in i..(j - 1) PROVE source[k] \in S
    <3>1. k \in i..n /\ k \in 1..Len(source) /\ ~(j =< k)
      BY <1>1
    <3>2. Glyph(k) \in S
      BY <1>2, <3>1
    <3> QED
      BY <3>1, <3>2, GlyphIs
  <2> QED
    BY <2>1
<1> DEFINE e == CHOOSE k \in i..n : Ends(k)
<1>4. RunEnd(i, S) = e
  BY DEF RunEnd
<1>5. \E k \in i..n : Ends(k)
  BY <1>3
<1>6. e \in i..n /\ Ends(e)
  <2> HIDE DEF Ends
  <2> QED
    BY <1>5
<1>7. Glyph(i) \in S => e # i
  <2> HIDE DEF e
  <2> QED
    BY <1>6
<1> HIDE DEF e
<1> QED
  BY <1>1, <1>4, <1>6, <1>7

LEMMA LineEndFacts ==
  ASSUME SourceInv, NEW i \in 1..(Len(source) + 1)
  PROVE  /\ LineEnd(i) \in i..(Len(source) + 1)
         /\ i <= Len(source) /\ source[i] \notin {Nul, NewLine} => LineEnd(i) > i
<1> DEFINE n == Len(source) + 1
           Stops == {j \in i..n : j = n \/ source[j] = NewLine}
           Ends(j) == (\A k \in i..(j - 1) : source[k] # NewLine) /\ Glyph(j) \in {Nul, NewLine}
<1>1. n \in Nat /\ Glyph(n) = Nul /\ i \in Nat /\ i <= n
  BY TextLength, GlyphIs
<1>2. PICK j \in Stops : \A k \in Stops : j =< k
  <2>1. n \in Stops /\ Stops \in SUBSET Nat
    BY <1>1
  <2> HIDE DEF Stops
  <2> QED
    BY <2>1, Least
<1>3. Ends(j)
  <2>1. ASSUME NEW k \in i..(j - 1) PROVE source[k] # NewLine
    <3>1. k \in i..n /\ ~(j =< k)
      BY <1>1
    <3> QED
      BY <1>2, <3>1
  <2>2. j = n \/ (j \in 1..Len(source) /\ source[j] = NewLine)
    BY <1>1, <1>2
  <2>3. Glyph(j) \in {Nul, NewLine}
    BY <1>1, <2>2, GlyphIs
  <2> QED
    BY <2>1, <2>3
<1> DEFINE e == CHOOSE k \in i..n : Ends(k)
<1>4. LineEnd(i) = e
  BY DEF LineEnd, Nul
<1>5. \E k \in i..n : Ends(k)
  BY <1>3
<1>6. e \in i..n /\ Ends(e)
  <2> HIDE DEF Ends
  <2> QED
    BY <1>5
<1>7. i <= Len(source) /\ source[i] \notin {Nul, NewLine} => e # i
  <2> HIDE DEF e
  <2>1. i <= Len(source) => Glyph(i) = source[i]
    BY <1>1, GlyphIs
  <2> QED
    BY <1>6, <2>1
<1> HIDE DEF e
<1> QED
  BY <1>1, <1>4, <1>6, <1>7

\* Words, numbers, characters and symbols.
WordGlyphs == Letters \cup Digits \cup {"_"}
Spaced(S)  == S \cup {"_"}

Passes(i, e) == e \in Nat /\ e > i /\ e <= Len(source) + 2

LEMMA WordPasses ==
  ASSUME SourceInv, NEW i \in Nat, i >= 1, Glyph(i) \in WordGlyphs
  PROVE  Passes(i, Word(i).end)
<1>1. Nul \notin WordGlyphs
  BY LettersAssumption DEF WordGlyphs, Digits, Nul
<1>2. Glyph(i) # Nul
  BY <1>1
<1>3. i \in 1..(Len(source) + 1)
  BY <1>2, GlyphWithin, TextLength
<1>4. Word(i).end = RunEnd(i, WordGlyphs)
  BY DEF Word, WordGlyphs
<1>5. RunEnd(i, WordGlyphs) \in i..(Len(source) + 1) /\ RunEnd(i, WordGlyphs) > i
  BY <1>1, <1>3, RunEndFacts
<1> QED
  BY <1>4, <1>5, TextLength DEF Passes

LEMMA NumPasses ==
  ASSUME SourceInv, NEW i \in Nat, i >= 1, Glyph(i) \in Digits
  PROVE  Passes(i, Num(i).end)
<1> DEFINE n == Len(source) + 1
           radix  == Glyph(i) = "0" /\ Glyph(i + 1) \in {"x", "X", "b", "B"}
           digits == IF Glyph(i + 1) \in {"x", "X"} THEN HexDigits ELSE {"0", "1"}
           whole  == IF radix THEN RunEnd(i + 2, Spaced(digits)) ELSE RunEnd(i, Spaced(Digits))
           point  == ~radix /\ Glyph(whole) = "." /\ Glyph(whole + 1) \in Digits
           fract  == IF point THEN RunEnd(whole + 1, Digits) ELSE whole
           expo   == ~radix /\ Glyph(fract) \in Exponents
           word   == expo /\ Glyph(fract) \notin {"e", "E"}
           signed == Glyph(fract + 1) \in {"+", "-"}
           sign   == IF signed THEN fract + 2 ELSE fract + 1
           j      == IF word THEN fract + 1 ELSE IF expo THEN RunEnd(sign, Digits) ELSE fract
<1>1. Num(i).end = j
  BY DEF Num, Spaced
<1>2. n \in Nat /\ n = Len(source) + 1 /\ Len(source) \in Nat
  BY TextLength
<1>3. Nul \notin Digits /\ Nul \notin Spaced(digits) /\ Nul \notin Spaced(Digits)
  BY DEF Digits, HexDigits, Nul, Spaced
<1>4. i <= Len(source) /\ Glyph(i) \in Spaced(Digits)
  BY <1>3, GlyphWithin DEF Spaced
<1>5. radix => i + 1 <= Len(source)
  <2> SUFFICES ASSUME radix PROVE i + 1 <= Len(source)
    OBVIOUS
  <2>1. Glyph(i + 1) # Nul
    BY DEF Nul
  <2> QED
    BY <2>1, GlyphBehind
<1>6. (radix => whole = RunEnd(i + 2, Spaced(digits))) /\ (~radix => whole = RunEnd(i, Spaced(Digits)))
  OBVIOUS
<1>7. /\ \A k : k \in Nat /\ point /\ k = whole => k + 1 <= Len(source)
      /\ point => fract = RunEnd(whole + 1, Digits)
      /\ ~point => fract = whole
  <2> HIDE DEF whole
  <2>1. ASSUME NEW k \in Nat, point, k = whole PROVE k + 1 <= Len(source)
    <3>1. Glyph(k + 1) # Nul
      BY <1>3, <2>1 DEF Nul
    <3> QED
      BY <3>1, GlyphBehind
  <2> QED
    BY <2>1
<1>8. /\ \A k : k \in Nat /\ expo /\ k = fract => k <= Len(source)
      /\ \A k : k \in Nat /\ signed /\ k = fract => k + 1 <= Len(source)
      /\ word => expo /\ j = fract + 1
      /\ expo /\ ~word => j = RunEnd(sign, Digits)
      /\ ~expo => j = fract
      /\ signed => sign = fract + 2
      /\ ~signed => sign = fract + 1
  <2> HIDE DEF fract
  <2>1. ASSUME NEW k \in Nat, expo, k = fract PROVE k <= Len(source)
    <3>1. Glyph(k) # Nul
      BY <2>1, LettersAssumption DEF Nul
    <3> QED
      BY <3>1, GlyphWithin
  <2>2. ASSUME NEW k \in Nat, signed, k = fract PROVE k + 1 <= Len(source)
    <3>1. Glyph(k + 1) # Nul
      BY <2>2 DEF Nul
    <3> QED
      BY <3>1, GlyphBehind
  <2> QED
    BY <2>1, <2>2
<1> HIDE DEF n, radix, digits, whole, point, fract, expo, word, signed, sign, j
<1>9. whole \in Nat /\ whole > i /\ whole <= n
  <2>1. CASE radix
    <3>1. i + 2 \in 1..(Len(source) + 1)
      BY <1>2, <1>5, <2>1
    <3>2. RunEnd(i + 2, Spaced(digits)) \in (i + 2)..(Len(source) + 1)
      BY <1>3, <3>1, RunEndFacts
    <3> QED
      BY <1>2, <1>6, <2>1, <3>2
  <2>2. CASE ~radix
    <3>1. i \in 1..(Len(source) + 1)
      BY <1>2, <1>4
    <3>2. /\ RunEnd(i, Spaced(Digits)) \in i..(Len(source) + 1)
          /\ RunEnd(i, Spaced(Digits)) > i
      BY <1>3, <1>4, <3>1, RunEndFacts
    <3> QED
      BY <1>2, <1>6, <2>2, <3>2
  <2> QED
    BY <2>1, <2>2
<1>10. fract \in Nat /\ fract > i /\ fract <= n
  <2>1. CASE point
    <3>1. whole + 1 \in 1..(Len(source) + 1)
      BY <1>2, <1>7, <1>9, <2>1
    <3>2. RunEnd(whole + 1, Digits) \in (whole + 1)..(Len(source) + 1)
      BY <1>3, <3>1, RunEndFacts
    <3> QED
      BY <1>2, <1>7, <1>9, <2>1, <3>2
  <2> QED
    BY <1>7, <1>9, <2>1
<1>11. j \in Nat /\ j > i /\ j <= n
  <2>3. CASE word
    BY <1>2, <1>8, <1>10, <2>3
  <2>1. CASE expo /\ ~word
    <3>1. sign \in Nat /\ sign > i /\ sign <= n
      BY <1>2, <1>8, <1>10, <2>1
    <3>2. sign \in 1..(Len(source) + 1)
      BY <1>2, <3>1
    <3>3. RunEnd(sign, Digits) \in sign..(Len(source) + 1)
      BY <1>3, <3>2, RunEndFacts
    <3> QED
      BY <1>2, <1>8, <2>1, <3>1, <3>3
  <2> QED
    BY <1>8, <1>10, <2>1, <2>3
<1> QED
  BY <1>1, <1>2, <1>11 DEF Passes

LEMMA CharPasses ==
  ASSUME SourceInv, NEW i \in Nat, i >= 1, i <= Len(source)
  PROVE  Passes(i, CharLit(i).end)
<1> DEFINE escape == Glyph(i + 1) = "\\"
           none   == i + 1 > Len(source)
           last   == IF escape THEN i + 3 ELSE IF none THEN i + 1 ELSE i + 2
           closed == Glyph(last) = "'"
<1>1. CharLit(i).end = IF closed THEN last + 1 ELSE last
  BY DEF CharLit
<1>2. Len(source) \in Nat
  BY TextLength
<1>3. escape => i + 1 <= Len(source)
  <2> SUFFICES ASSUME escape PROVE i + 1 <= Len(source)
    OBVIOUS
  <2>1. Glyph(i + 1) # Nul
    BY DEF Nul
  <2> QED
    BY <2>1, GlyphBehind
<1>4. (escape => last = i + 3) /\ (~escape => last \in {i + 1, i + 2})
  OBVIOUS
<1>5. \A k : k \in Nat /\ closed /\ k = last => k <= Len(source)
  <2> HIDE DEF last
  <2>1. ASSUME NEW k \in Nat, closed, k = last PROVE k <= Len(source)
    <3>1. Glyph(k) # Nul
      BY <2>1 DEF Nul
    <3> QED
      BY <3>1, GlyphWithin
  <2> QED
    BY <2>1
<1> HIDE DEF escape, none, last, closed
<1>6. last \in Nat /\ last > i /\ last <= Len(source) + 2
  BY <1>2, <1>3, <1>4
<1> QED
  BY <1>1, <1>2, <1>5, <1>6 DEF Passes

LEMMA SymbolPasses ==
  ASSUME SourceInv, NEW i \in Nat, i >= 1, i <= Len(source) + 1
  PROVE  Passes(i, Symbol(i).end)
<1> DEFINE both == {p \in Pairs : p[1] = Glyph(i) /\ p[2] = Glyph(i + 1)}
<1>1. Symbol(i).end = IF both # {} THEN i + 2 ELSE i + 1
  BY DEF Symbol
<1>3. ASSUME NEW p \in Pairs PROVE p[2] # Nul
  <2>1. \E a \in {"=", ">", "&", "|", ":", "."} : p[2] = a
    BY DEF Pairs
  <2> QED
    BY <2>1 DEF Nul
<1>4. both # {} => i + 1 <= Len(source)
  <2> SUFFICES ASSUME both # {} PROVE i + 1 <= Len(source)
    OBVIOUS
  <2>1. PICK p \in Pairs : p[2] = Glyph(i + 1)
    OBVIOUS
  <2>2. Glyph(i + 1) # Nul
    BY <1>3, <2>1 DEF Nul
  <2> QED
    BY <2>2, GlyphBehind
<1>5. Len(source) \in Nat
  BY TextLength
<1> HIDE DEF both
<1>6. CASE both # {}
  BY <1>1, <1>4, <1>5, <1>6 DEF Passes
<1>7. CASE both = {}
  BY <1>1, <1>5, <1>7 DEF Passes
<1> QED
  BY <1>6, <1>7

\* A set of the numbers from 1 to n has a greatest.
LEMMA Greatest ==
  ASSUME NEW n \in Nat, NEW S \in SUBSET (1..n), S # {}
  PROVE  \E m \in S : \A k \in S : k <= m
<1> DEFINE R == {n - k : k \in S}
<1>1. R \in SUBSET Nat /\ R # {}
  <2>1. \A k \in S : n - k \in Nat
    OBVIOUS
  <2>2. PICK k \in S : TRUE
    OBVIOUS
  <2> QED
    BY <2>1, <2>2
<1>2. PICK r \in R : \A k \in R : r =< k
  <2> HIDE DEF R
  <2> QED
    BY <1>1, Least
<1>3. PICK m \in S : r = n - m
  BY <1>2
<1>4. ASSUME NEW k \in S PROVE k <= m
  <2>1. n - m =< n - k
    BY <1>2, <1>3
  <2> QED
    BY <2>1
<1> QED
  BY <1>4

\* Strings.
StrAt(rest, k) ==
  IF k > Len(source) THEN [end |-> k, text |-> << >>, faults |-> 1]
  ELSE IF source[k] = "\"" THEN [end |-> k + 1, text |-> << >>, faults |-> 0]
  ELSE IF source[k] = NewLine THEN [end |-> k + 1, text |-> << >>, faults |-> 1]
  ELSE IF source[k] # "\\"
       THEN LET r == rest[k + 1]
            IN  [end |-> r.end, text |-> <<source[k]>> \o r.text, faults |-> r.faults]
       ELSE LET r == rest[k + 2]
            IN  IF Glyph(k + 1) \in Escapes
                THEN [end |-> r.end, text |-> <<"\\" \o Glyph(k + 1)>> \o r.text,
                      faults |-> r.faults]
                ELSE [end |-> r.end, text |-> r.text, faults |-> r.faults + 1]

LEMMA StrAtEnd ==
  ASSUME NEW rest, NEW k
  PROVE  IF k > Len(source) THEN StrAt(rest, k).end = k
         ELSE StrAt(rest, k).end \in {k + 1, rest[k + 1].end, rest[k + 2].end}
BY DEF StrAt

LEMMA StrAtSame ==
  ASSUME NEW f, NEW g, NEW k,
         k > Len(source) \/ (f[k + 1] = g[k + 1] /\ f[k + 2] = g[k + 2])
  PROVE  StrAt(f, k) = StrAt(g, k)
BY DEF StrAt

\* The recursion has a solution.
LEMMA StrExists ==
  ASSUME SourceInv, NEW n, n = Len(source) + 2
  PROVE  \E f : f = [k \in 1..n |-> StrAt(f, k)]
<1> DEFINE Solves(f, m) == \A k \in m..n : f[k] = StrAt(f, k)
           Bad == {m \in 1..n : ~ \E f : f = [k \in 1..n |-> f[k]] /\ Solves(f, m)}
<1>1. n \in Nat /\ Len(source) \in Nat /\ 1 \in 1..n
  BY TextLength
<1>2. Bad = {}
  <2> SUFFICES ASSUME Bad # {} PROVE FALSE
    OBVIOUS
  <2>1. PICK m \in Bad : \A k \in Bad : k <= m
    <3>1. Bad \in SUBSET (1..n)
      OBVIOUS
    <3> HIDE DEF Bad
    <3> QED
      BY <1>1, <3>1, Greatest
  <2>2. m \in 1..n /\ m + 1 \notin Bad
    <3>1. m \in 1..n
      BY <2>1
    <3>2. ~(m + 1 <= m)
      BY <3>1
    <3> HIDE DEF Bad
    <3> QED
      BY <2>1, <3>1, <3>2
  <2>3. PICK f : f = [k \in 1..n |-> f[k]] /\ Solves(f, m + 1)
    <3>1. CASE m = n
      <4> DEFINE f == [k \in 1..n |-> 0]
      <4>1. \A k : ~(k \in (m + 1)..n)
        BY <1>1, <3>1
      <4>2. f = [k \in 1..n |-> f[k]] /\ Solves(f, m + 1)
        BY <4>1
      <4> QED
        BY <4>2
    <3>2. CASE m # n
      <4>1. m + 1 \in 1..n
        BY <1>1, <2>2, <3>2
      <4> QED
        BY <2>2, <4>1
    <3> QED
      BY <3>1, <3>2
  <2> DEFINE g == [k \in 1..n |-> IF k = m THEN StrAt(f, m) ELSE f[k]]
  <2>4. \A k \in 1..n : g[k] = IF k = m THEN StrAt(f, m) ELSE f[k]
    OBVIOUS
  <2>5. g = [k \in 1..n |-> g[k]]
    OBVIOUS
  <2> HIDE DEF g
  <2>6. ASSUME NEW k \in m..n PROVE StrAt(f, k) = StrAt(g, k)
    <3>1. k > Len(source) \/ (k + 1 \in 1..n /\ k + 2 \in 1..n /\ k + 1 # m /\ k + 2 # m)
      BY <1>1, <2>2
    <3>2. k > Len(source) \/ (f[k + 1] = g[k + 1] /\ f[k + 2] = g[k + 2])
      BY <2>4, <3>1
    <3> QED
      BY <3>2, StrAtSame
  <2>7. ASSUME NEW k \in m..n PROVE g[k] = StrAt(g, k)
    <3>1. k \in 1..n /\ (k = m \/ k \in (m + 1)..n)
      BY <1>1, <2>2
    <3>2. g[k] = StrAt(f, k)
      BY <2>3, <2>4, <3>1
    <3> QED
      BY <2>6, <3>2
  <2>8. Solves(g, m)
    BY <2>7
  <2> QED
    BY <2>1, <2>5, <2>8
<1>3. PICK f : f = [k \in 1..n |-> f[k]] /\ Solves(f, 1)
  BY <1>1, <1>2
<1>4. f = [k \in 1..n |-> StrAt(f, k)]
  BY <1>3
<1> QED
  BY <1>4

LEMMA StrPasses ==
  ASSUME SourceInv, NEW i \in Nat, i >= 1, i <= Len(source)
  PROVE  Passes(i, Str(i).end)
<1> DEFINE n == Len(source) + 2
           Eq(f) == f = [k \in 1..n |-> StrAt(f, k)]
           rest == CHOOSE f : Eq(f)
           Bad == {k \in 1..n : ~(rest[k].end \in k..n)}
<1>1. n \in Nat /\ Len(source) \in Nat /\ n = Len(source) + 2
  BY TextLength
<1>2. Str(i).end = rest[i + 1].end
  BY DEF Str, StrAt
<1>3. Eq(rest)
  <2>1. \E f : Eq(f)
    BY StrExists
  <2> HIDE DEF Eq
  <2> QED
    BY <2>1
<1> HIDE DEF rest
<1>4. \A k \in 1..n : rest[k] = StrAt(rest, k)
  BY <1>3
<1> HIDE DEF n
<1>5. Bad = {}
  <2> SUFFICES ASSUME Bad # {} PROVE FALSE
    OBVIOUS
  <2>1. PICK k \in Bad : \A m \in Bad : m <= k
    <3>1. Bad \in SUBSET (1..n)
      OBVIOUS
    <3> HIDE DEF Bad
    <3> QED
      BY <1>1, <3>1, Greatest
  <2>2. k \in 1..n /\ rest[k].end \notin k..n
    BY <2>1
  <2>3. \A m \in 1..n : m > k => rest[m].end \in m..n
    <3>1. \A m \in 1..n : m > k => m \notin Bad
      <4> HIDE DEF Bad
      <4> QED
        BY <1>1, <2>1, <2>2
    <3> QED
      BY <3>1
  <2>4. CASE k > Len(source)
    <3>1. rest[k].end = k
      BY <1>4, <2>2, <2>4, StrAtEnd
    <3> QED
      BY <1>1, <2>2, <3>1
  <2>5. CASE ~(k > Len(source))
    <3>1. rest[k].end \in {k + 1, rest[k + 1].end, rest[k + 2].end}
      BY <1>4, <2>2, <2>5, StrAtEnd
    <3>2. k + 1 \in 1..n /\ k + 2 \in 1..n /\ k + 1 > k /\ k + 2 > k
      BY <1>1, <2>2, <2>5
    <3>3. rest[k + 1].end \in (k + 1)..n /\ rest[k + 2].end \in (k + 2)..n
      BY <2>3, <3>2
    <3> QED
      BY <1>1, <2>2, <3>1, <3>2, <3>3
  <2> QED
    BY <2>4, <2>5
<1>6. i + 1 \in 1..n
  BY <1>1
<1>7. rest[i + 1].end \in (i + 1)..n
  BY <1>5, <1>6
<1> QED
  BY <1>1, <1>2, <1>6, <1>7 DEF Passes

\* Block comments.
BlockAt(skip, p) ==
  LET k == p[1]
      depth == p[2]
  IN
  IF depth = 0 \/ k > Len(source) THEN p
  ELSE IF Opens(k) THEN skip[<<k + 2, depth + 1>>]
  ELSE IF Closes(k) THEN skip[<<k + 2, depth - 1>>]
  ELSE skip[<<k + 1, depth>>]

LEMMA TwoGlyphs ==
  ASSUME SourceInv, NEW k \in Nat, Opens(k) \/ Closes(k)
  PROVE  k + 2 <= Len(source) + 1
<1>1. Glyph(k + 1) # Nul
  BY DEF Opens, Closes, Nul
<1>2. k + 1 <= Len(source)
  BY <1>1, GlyphBehind
<1> QED
  BY <1>2, TextLength

LEMMA BlockAtSame ==
  ASSUME NEW f, NEW g, NEW k, NEW d,
         Opens(k) => f[<<k + 2, d + 1>>] = g[<<k + 2, d + 1>>],
         ~Opens(k) /\ Closes(k) => f[<<k + 2, d - 1>>] = g[<<k + 2, d - 1>>],
         ~Opens(k) /\ ~Closes(k) => f[<<k + 1, d>>] = g[<<k + 1, d>>]
  PROVE  BlockAt(f, <<k, d>>) = BlockAt(g, <<k, d>>)
BY DEF BlockAt

\* Where it goes on is behind k, and in the text.
LEMMA BlockAhead ==
  ASSUME SourceInv, NEW k \in 1..Len(source), NEW d \in Nat, d # 0
  PROVE  /\ k + 1 \in (k + 1)..(Len(source) + 1)
         /\ Opens(k) \/ Closes(k) => k + 2 \in (k + 1)..(Len(source) + 1)
         /\ d + 1 \in Nat /\ d - 1 \in Nat
BY TwoGlyphs, TextLength

LEMMA BlockExists ==
  ASSUME SourceInv, NEW n, n = Len(source) + 1
  PROVE  \E f : f = [x \in (1..n) \X Nat |-> BlockAt(f, x)]
<1> DEFINE D == (1..n) \X Nat
           Solves(f, m) == \A k \in m..n : \A d \in Nat : f[<<k, d>>] = BlockAt(f, <<k, d>>)
           Total(f) == f = [x \in D |-> f[x]]
           Bad == {m \in 1..n : ~ \E f : Total(f) /\ Solves(f, m)}
<1>1. n \in Nat /\ Len(source) \in Nat /\ 1 \in 1..n
  BY TextLength
<1>2. Bad = {}
  <2> SUFFICES ASSUME Bad # {} PROVE FALSE
    OBVIOUS
  <2>1. PICK m \in Bad : \A k \in Bad : k <= m
    <3>1. Bad \in SUBSET (1..n)
      OBVIOUS
    <3> HIDE DEF Bad
    <3> QED
      BY <1>1, <3>1, Greatest
  <2>2. m \in 1..n /\ m + 1 \notin Bad
    <3>1. m \in 1..n
      BY <2>1
    <3>2. ~(m + 1 <= m)
      BY <3>1
    <3> HIDE DEF Bad
    <3> QED
      BY <2>1, <3>1, <3>2
  <2>3. PICK f : Total(f) /\ Solves(f, m + 1)
    <3>1. CASE m = n
      <4> DEFINE f == [x \in D |-> 0]
      <4>1. \A k : ~(k \in (m + 1)..n)
        BY <1>1, <3>1
      <4>2. Total(f) /\ Solves(f, m + 1)
        BY <4>1
      <4> HIDE DEF f, Total, Solves
      <4> QED
        BY <4>2
    <3>2. CASE m # n
      <4>1. m + 1 \in 1..n
        BY <1>1, <2>2, <3>2
      <4> HIDE DEF Total, Solves
      <4> QED
        BY <2>2, <4>1
    <3> QED
      BY <3>1, <3>2
  <2> DEFINE g == [x \in D |-> IF x[1] = m THEN BlockAt(f, x) ELSE f[x]]
  <2>4. \A k \in 1..n : \A d \in Nat : g[<<k, d>>] = IF k = m THEN BlockAt(f, <<k, d>>) ELSE f[<<k, d>>]
    OBVIOUS
  <2>5. Total(g)
    OBVIOUS
  <2> HIDE DEF g
  <2>6. ASSUME NEW k \in m..n, NEW d \in Nat PROVE BlockAt(f, <<k, d>>) = BlockAt(g, <<k, d>>)
    <3>1. CASE d = 0 \/ k > Len(source)
      BY <3>1 DEF BlockAt
    <3>2. CASE ~(d = 0 \/ k > Len(source))
      <4>1. k \in 1..Len(source) /\ d # 0
        BY <1>1, <2>2, <3>2
      <4>2. /\ k + 1 \in (k + 1)..n
            /\ Opens(k) \/ Closes(k) => k + 2 \in (k + 1)..n
            /\ d + 1 \in Nat /\ d - 1 \in Nat
        BY <4>1, BlockAhead
      <4>3. \A j \in (k + 1)..n : j \in 1..n /\ j # m
        BY <1>1, <2>2, <4>1
      <4>4. \A j \in (k + 1)..n : \A e \in Nat : f[<<j, e>>] = g[<<j, e>>]
        BY <2>4, <4>3
      <4>5. /\ Opens(k) => f[<<k + 2, d + 1>>] = g[<<k + 2, d + 1>>]
            /\ ~Opens(k) /\ Closes(k) => f[<<k + 2, d - 1>>] = g[<<k + 2, d - 1>>]
            /\ ~Opens(k) /\ ~Closes(k) => f[<<k + 1, d>>] = g[<<k + 1, d>>]
        BY <4>2, <4>4
      <4> QED
        BY <4>5, BlockAtSame
    <3> QED
      BY <3>1, <3>2
  <2>7. ASSUME NEW k \in m..n, NEW d \in Nat PROVE g[<<k, d>>] = BlockAt(g, <<k, d>>)
    <3>1. k \in 1..n /\ (k = m \/ k \in (m + 1)..n)
      BY <1>1, <2>2
    <3>2. g[<<k, d>>] = BlockAt(f, <<k, d>>)
      BY <2>3, <2>4, <3>1
    <3> QED
      BY <2>6, <3>2
  <2>8. Solves(g, m)
    BY <2>7
  <2> HIDE DEF Total, Solves
  <2> QED
    BY <2>1, <2>5, <2>8
<1>3. PICK f : Total(f) /\ Solves(f, 1)
  <2> HIDE DEF Total, Solves
  <2> QED
    BY <1>1, <1>2
<1>4. ASSUME NEW x \in D PROVE f[x] = BlockAt(f, x)
  <2>1. PICK k \in 1..n, d \in Nat : x = <<k, d>>
    OBVIOUS
  <2> QED
    BY <1>3, <2>1
<1>5. f = [x \in D |-> BlockAt(f, x)]
  BY <1>3, <1>4
<1> QED
  BY <1>5

LEMMA BlockPasses ==
  ASSUME SourceInv, NEW i \in Nat, i >= 1, i + 1 <= Len(source)
  PROVE  Passes(i, BlockComment(i)[1])
<1> DEFINE n == Len(source) + 1
           Eq(f) == f = [x \in (1..n) \X Nat |-> BlockAt(f, x)]
           skip == CHOOSE f : Eq(f)
           Bad == {k \in 1..n : \E d \in Nat : ~(skip[<<k, d>>][1] \in k..n)}
<1>1. n \in Nat /\ Len(source) \in Nat /\ n = Len(source) + 1
  BY TextLength
<1>2. BlockComment(i) = skip[<<i + 2, 1>>]
  BY DEF BlockComment, BlockAt
<1>3. Eq(skip)
  <2>1. \E f : Eq(f)
    BY BlockExists
  <2> HIDE DEF Eq
  <2> QED
    BY <2>1
<1> HIDE DEF skip
<1>4. \A k \in 1..n : \A d \in Nat : skip[<<k, d>>] = BlockAt(skip, <<k, d>>)
  BY <1>3
<1> HIDE DEF n
<1>5. Bad = {}
  <2> SUFFICES ASSUME Bad # {} PROVE FALSE
    OBVIOUS
  <2>1. PICK k \in Bad : \A m \in Bad : m <= k
    <3>1. Bad \in SUBSET (1..n)
      OBVIOUS
    <3> HIDE DEF Bad
    <3> QED
      BY <1>1, <3>1, Greatest
  <2>2. PICK d \in Nat : k \in 1..n /\ skip[<<k, d>>][1] \notin k..n
    BY <2>1
  <2>3. \A m \in 1..n : m > k => \A e \in Nat : skip[<<m, e>>][1] \in m..n
    <3>1. \A m \in 1..n : m > k => m \notin Bad
      <4> HIDE DEF Bad
      <4> QED
        BY <1>1, <2>1, <2>2
    <3> QED
      BY <3>1
  <2>4. skip[<<k, d>>] = BlockAt(skip, <<k, d>>)
    BY <1>4, <2>2
  <2>5. CASE d = 0 \/ k > Len(source)
    <3>1. skip[<<k, d>>][1] = k
      BY <2>4, <2>5 DEF BlockAt
    <3> QED
      BY <1>1, <2>2, <3>1
  <2>6. CASE ~(d = 0 \/ k > Len(source))
    <3>1. k \in 1..Len(source) /\ d # 0
      BY <1>1, <2>2, <2>6
    <3>2. /\ k + 1 \in (k + 1)..n
          /\ Opens(k) \/ Closes(k) => k + 2 \in (k + 1)..n
          /\ d + 1 \in Nat /\ d - 1 \in Nat
      BY <1>1, <3>1, BlockAhead
    <3>3. PICK j \in (k + 1)..n, e \in Nat : skip[<<k, d>>] = skip[<<j, e>>]
      BY <2>4, <2>6, <3>2 DEF BlockAt
    <3>4. j \in 1..n /\ j > k
      BY <1>1, <2>2
    <3>5. skip[<<j, e>>][1] \in j..n
      BY <2>3, <3>4
    <3> QED
      BY <1>1, <2>2, <3>3, <3>4, <3>5
  <2> QED
    BY <2>5, <2>6
<1>6. i + 2 \in 1..n
  BY <1>1
<1>7. skip[<<i + 2, 1>>][1] \in (i + 2)..n
  BY <1>5, <1>6
<1> QED
  BY <1>1, <1>2, <1>6, <1>7 DEF Passes


\* Where the scanner stands.
ScanInv ==
  /\ SourceInv
  /\ at \in Nat /\ at >= 1
  /\ scanning => at <= Len(source) + 1

Onwards == source' = source /\ (Passes(at, at') \/ tokens' = Append(tokens, <<"EOF", "">>))

LEMMA ScanTokenMoves ==
  ASSUME ScanInv, ScanToken
  PROVE  Passes(at, at') /\ scanning' = FALSE /\ source' = source
<1>2. SourceInv /\ at \in Nat /\ at >= 1 /\ source' = source /\ scanning' = FALSE
  BY DEF ScanInv, ScanToken
<1>1. at <= Len(source) + 1
  <2>1. scanning \/ at <= Len(source)
    BY DEF ScanToken
  <2>2. scanning => at <= Len(source) + 1
    BY DEF ScanInv
  <2> QED
    BY <1>2, <2>1, <2>2, TextLength
<1>3. Nul \notin Digits /\ Glyph(at) # Nul => at <= Len(source)
  BY <1>2, GlyphWithin DEF Digits, Nul
<1>4. CASE Glyph(at) \in Digits
  <2>1. at' = Num(at).end
    BY <1>4 DEF ScanToken
  <2> QED
    BY <1>2, <1>4, <2>1, NumPasses
<1>5. CASE Glyph(at) \notin Digits /\ Glyph(at) = "\""
  <2>1. at' = Str(at).end /\ Glyph(at) # Nul
    BY <1>5 DEF ScanToken, Nul
  <2>2. at <= Len(source)
    BY <1>2, <2>1, GlyphWithin
  <2> QED
    BY <1>2, <2>1, <2>2, StrPasses
<1>6. CASE Glyph(at) \notin Digits /\ Glyph(at) # "\"" /\ Glyph(at) = "'"
  <2>1. at' = CharLit(at).end /\ Glyph(at) # Nul
    BY <1>6 DEF ScanToken, Nul
  <2>2. at <= Len(source)
    BY <1>2, <2>1, GlyphWithin
  <2> QED
    BY <1>2, <2>1, <2>2, CharPasses
<1>7. CASE /\ Glyph(at) \notin Digits /\ Glyph(at) # "\"" /\ Glyph(at) # "'"
           /\ Glyph(at) \in Letters \cup {"_"}
  <2>1. at' = Word(at).end /\ Glyph(at) \in WordGlyphs
    BY <1>7 DEF ScanToken, WordGlyphs
  <2> QED
    BY <1>2, <2>1, WordPasses
<1>8. CASE /\ Glyph(at) \notin Digits /\ Glyph(at) # "\"" /\ Glyph(at) # "'"
           /\ Glyph(at) \notin Letters \cup {"_"}
  <2>1. at' = Symbol(at).end
    BY <1>8 DEF ScanToken
  <2> QED
    BY <1>1, <1>2, <2>1, SymbolPasses
<1> QED
  BY <1>2, <1>4, <1>5, <1>6, <1>7, <1>8

LEMMA HashMoves ==
  ASSUME ScanInv, HashComment
  PROVE  Passes(at, at') /\ at' <= Len(source) + 1 /\ source' = source
<1>1. SourceInv /\ at \in Nat /\ at >= 1 /\ source' = source /\ at' = LineEnd(at + 1)
  BY DEF ScanInv, HashComment
<1>2. Glyph(at) # Nul
  BY DEF HashComment, Nul
<1>3. at <= Len(source)
  BY <1>1, <1>2, GlyphWithin
<1>4. at + 1 \in 1..(Len(source) + 1)
  BY <1>1, <1>3, TextLength
<1>5. LineEnd(at + 1) \in (at + 1)..(Len(source) + 1)
  BY <1>1, <1>4, LineEndFacts
<1> QED
  BY <1>1, <1>5, TextLength DEF Passes

LEMMA SkipMoves ==
  ASSUME ScanInv, SkipWhitespace
  PROVE  Passes(at, at') /\ scanning' = FALSE /\ source' = source
<1>1. /\ SourceInv /\ at \in Nat /\ at >= 1 /\ at <= Len(source) /\ source' = source
      /\ scanning' = FALSE
  BY DEF ScanInv, SkipWhitespace
<1>2. CASE at' = at + 1
  BY <1>1, <1>2, TextLength DEF Passes
<1>3. CASE Glyph(at) = "/" /\ at' = LineEnd(at)
  <2>1. at \in 1..Len(source) /\ at \in 1..(Len(source) + 1)
    BY <1>1, TextLength
  <2>2. source[at] \notin {Nul, NewLine}
    BY <1>1, <1>3, <2>1, GlyphIs DEF Nul, NewLine
  <2>3. LineEnd(at) \in at..(Len(source) + 1) /\ LineEnd(at) > at
    BY <1>1, <2>1, <2>2, LineEndFacts
  <2>4. at' = LineEnd(at)
    BY <1>3
  <2> HIDE <1>3
  <2> QED
    BY <1>1, <2>3, <2>4, TextLength DEF Passes
<1>4. CASE Glyph(at + 1) = "*" /\ at' = BlockComment(at)[1]
  <2>1. Glyph(at + 1) # Nul
    BY <1>4 DEF Nul
  <2>2. at + 1 <= Len(source)
    BY <1>1, <2>1, GlyphBehind
  <2> QED
    BY <1>1, <1>4, <2>2, BlockPasses
<1>5. at' = at + 1 \/ (Glyph(at) = "/" /\ at' = LineEnd(at))
        \/ (Glyph(at + 1) = "*" /\ at' = BlockComment(at)[1])
  BY DEF SkipWhitespace, AtComment
<1> QED
  BY <1>1, <1>2, <1>3, <1>4, <1>5

LEMMA ScanMoves ==
  ASSUME ScanInv, Scan
  PROVE  ScanInv' /\ Onwards
<1>1. SourceInv /\ at \in Nat /\ at >= 1
  BY DEF ScanInv
<1>2. ASSUME Passes(at, at'), source' = source, scanning' => at' <= Len(source) + 1
      PROVE  ScanInv' /\ Onwards
  <2>1. at' \in Nat /\ at' >= 1
    BY <1>1, <1>2 DEF Passes
  <2> QED
    BY <1>1, <1>2, <2>1 DEF ScanInv, SourceInv, Onwards
<1>3. CASE ScanToken
  <2>1. Passes(at, at') /\ scanning' = FALSE /\ source' = source
    BY <1>3, ScanTokenMoves
  <2> QED
    BY <1>2, <2>1
<1>4. CASE HashComment
  <2>1. Passes(at, at') /\ at' <= Len(source) + 1 /\ source' = source
    BY <1>4, HashMoves
  <2> QED
    BY <1>2, <2>1
<1>5. CASE SkipWhitespace
  <2>1. Passes(at, at') /\ scanning' = FALSE /\ source' = source
    BY <1>5, SkipMoves
  <2> QED
    BY <1>2, <2>1
<1>6. CASE EndOfText
  <2>1. UNCHANGED <<source, at, scanning>>
    BY <1>6 DEF EndOfText
  <2>2. tokens' = Append(tokens, <<"EOF", "">>)
    BY <1>6 DEF EndOfText
  <2> QED
    BY <2>1, <2>2 DEF ScanInv, SourceInv, Onwards
<1> QED
  BY <1>3, <1>4, <1>5, <1>6 DEF Scan, LexNext

\* Every step of the scanner leaves the text alone and moves at forward, never
\* past the end by more than one glyph, or appends the EOF that stops it: no text
\* holds a token, a comment or a string the loop of tokenize stays on
\* (lexer.cpp:17-26), nested comments and unterminated literals included.
THEOREM ScannerMoves == FrontSpec => [][Scan => Onwards]_frontVars
<1>1. FrontInit => ScanInv
  <2> SUFFICES ASSUME FrontInit PROVE ScanInv
    OBVIOUS
  <2>1. PICK p \in Programs : source = p.text
    BY DEF FrontInit
  <2>2. SourceInv
    BY <2>1, ProgramsAssumption DEF SourceInv
  <2> QED
    BY <2>2 DEF FrontInit, LexInit, ScanInv
<1>2. ScanInv /\ [FrontNext]_frontVars => ScanInv'
  <2> SUFFICES ASSUME ScanInv, [FrontNext]_frontVars PROVE ScanInv'
    OBVIOUS
  <2>1. CASE Scan
    BY <2>1, ScanMoves
  <2>2. CASE Parse \/ UNCHANGED frontVars
    <3>1. UNCHANGED <<source, at, scanning>>
      BY <2>2 DEF Parse, frontVars, lexVars
    <3> QED
      BY <3>1 DEF ScanInv, SourceInv
  <2> QED
    BY <2>1, <2>2 DEF FrontNext
<1>3. ScanInv /\ Scan => Onwards
  BY ScanMoves
<1>4. FrontSpec => []ScanInv
  BY <1>1, <1>2, PTL DEF FrontSpec
<1> QED
  BY <1>3, <1>4, PTL

-----------------------------------------------------------------------------
(* The names and literals of a sequence of symbols *)

LEMMA ValuedFacts ==
  ASSUME NEW x
  PROVE  /\ Valued(Valued(x)) = Valued(x)
         /\ Valued(x)[1] \in NameOrLiteral <=> x[1] \in NameOrLiteral
<1>1. CASE x \in ReadAsZero
  <2>1. Valued(x) = <<x[1], "0">> /\ Valued(x)[1] = x[1]
    BY <1>1 DEF Valued
  <2>2. Valued(Valued(x)) = Valued(x)
    BY <2>1 DEF Valued
  <2> QED
    BY <2>1, <2>2
<1>2. CASE x \notin ReadAsZero
  BY <1>2 DEF Valued
<1> QED
  BY <1>1, <1>2

WordsAt(words, s, i) ==
  words[i] = IF i = 0 THEN << >>
             ELSE IF s[i][1] \in NameOrLiteral THEN Append(words[i - 1], Valued(s[i]))
             ELSE words[i - 1]

\* The recursion has a solution.
LEMMA WordsExist ==
  ASSUME NEW S, NEW s \in Seq(S)
  PROVE  \E words \in [0..Len(s) -> Seq({Valued(v) : v \in S})] : \A i \in 0..Len(s) : WordsAt(words, s, i)
<1> DEFINE V == {Valued(v) : v \in S}
           D == 0..Len(s)
           Solves(words, k) == \A i \in 0..k : WordsAt(words, s, i)
           Bad == {k \in D : ~ \E words \in [D -> Seq(V)] : Solves(words, k)}
<1>1. Bad = {}
  <2> SUFFICES ASSUME Bad # {} PROVE FALSE
    OBVIOUS
  <2>1. PICK k \in Bad : \A j \in Bad : k =< j
    <3>1. Bad \in SUBSET Nat
      OBVIOUS
    <3> HIDE DEF Bad
    <3> QED
      BY <3>1, Least
  <2>2. CASE k = 0
    <3> DEFINE words == [i \in D |-> << >>]
    <3>1. words \in [D -> Seq(V)] /\ Solves(words, k)
      BY <2>2 DEF WordsAt
    <3> QED
      BY <2>1, <3>1
  <2>3. CASE k # 0
    <3>1. k \in 1..Len(s) /\ k - 1 \in D /\ k - 1 \notin Bad
      <4>1. k \in D /\ Len(s) \in Nat
        BY <2>1
      <4>2. k \in 1..Len(s) /\ k - 1 \in D /\ ~(k =< k - 1)
        BY <2>3, <4>1
      <4> HIDE DEF Bad
      <4> QED
        BY <2>1, <4>2
    <3>2. PICK words \in [D -> Seq(V)] : Solves(words, k - 1)
      BY <3>1
    <3> DEFINE next == IF s[k][1] \in NameOrLiteral THEN Append(words[k - 1], Valued(s[k]))
                       ELSE words[k - 1]
               more == [i \in D |-> IF i = k THEN next ELSE words[i]]
    <3>3. next \in Seq(V)
      <4>1. words[k - 1] \in Seq(V)
        BY <3>1, <3>2
      <4>2. Valued(s[k]) \in V
        BY <3>1
      <4> HIDE DEF V
      <4>3. Append(words[k - 1], Valued(s[k])) \in Seq(V)
        BY <4>1, <4>2
      <4> QED
        BY <4>1, <4>3
    <3>4. more \in [D -> Seq(V)]
      BY <3>3
    <3>5. ASSUME NEW i \in 0..k PROVE WordsAt(more, s, i)
      <4>1. CASE i = k
        <5>1. more[k] = next /\ more[k - 1] = words[k - 1] /\ k # 0
          BY <3>1
        <5> QED
          BY <4>1, <5>1 DEF WordsAt
      <4>2. CASE i # k
        <5>1. i \in 0..(k - 1) /\ i \in D /\ (i # 0 => i - 1 \in D /\ i - 1 # k)
          BY <3>1, <4>2
        <5>2. more[i] = words[i] /\ (i # 0 => more[i - 1] = words[i - 1])
          BY <4>2, <5>1
        <5>3. WordsAt(words, s, i)
          BY <3>2, <5>1
        <5> HIDE DEF more
        <5> QED
          BY <5>2, <5>3 DEF WordsAt
      <4> QED
        BY <4>1, <4>2
    <3> HIDE DEF more
    <3> QED
      BY <2>1, <3>4, <3>5
  <2> QED
    BY <2>2, <2>3
<1>2. Len(s) \in D
  OBVIOUS
<1>3. \E words \in [D -> Seq(V)] : Solves(words, Len(s))
  BY <1>1, <1>2
<1> QED
  BY <1>3

LEMMA WordsDef ==
  ASSUME NEW S, NEW s \in Seq(S)
  PROVE  /\ Words(s, 0) = << >>
         /\ \A k \in 1..Len(s) :
              Words(s, k) = IF s[k][1] \in NameOrLiteral THEN Append(Words(s, k - 1), Valued(s[k]))
                            ELSE Words(s, k - 1)
<1> DEFINE D == 0..Len(s)
           Eq(words) == words = [i \in D |->
                          IF i = 0 THEN << >>
                          ELSE IF s[i][1] \in NameOrLiteral THEN Append(words[i - 1], Valued(s[i]))
                          ELSE words[i - 1]]
           all == CHOOSE words : Eq(words)
<1>1. Eq(all)
  <2>1. PICK words \in [D -> Seq({Valued(v) : v \in S})] : \A i \in D : WordsAt(words, s, i)
    BY WordsExist
  <2>2. Eq(words)
    BY <2>1 DEF WordsAt
  <2> HIDE DEF Eq
  <2> QED
    BY <2>2
<1>2. \A k \in D : Words(s, k) = all[k]
  BY DEF Words
<1> HIDE DEF all
<1>3. \A i \in D : WordsAt(all, s, i)
  BY <1>1 DEF WordsAt
<1>4. 0 \in D /\ \A k \in 1..Len(s) : k \in D /\ k - 1 \in D /\ k # 0
  OBVIOUS
<1> HIDE DEF D
<1> QED
  BY <1>2, <1>3, <1>4 DEF WordsAt

\* What is appended changes nothing before it.
LEMMA WordsAppend ==
  ASSUME NEW S, NEW s \in Seq(S), NEW x
  PROVE  Words(Append(s, x), Len(s) + 1) =
           IF x[1] \in NameOrLiteral THEN Append(Words(s, Len(s)), Valued(x)) ELSE Words(s, Len(s))
<1> DEFINE T == S \cup {x}
           t == Append(s, x)
           Bad == {k \in 0..Len(s) : Words(t, k) # Words(s, k)}
<1>1. t \in Seq(T) /\ Len(t) = Len(s) + 1 /\ t[Len(s) + 1] = x /\ \A k \in 1..Len(s) : t[k] = s[k]
  <2>1. s \in Seq(T) /\ x \in T
    OBVIOUS
  <2> HIDE DEF T
  <2> QED
    BY <2>1
<1> HIDE DEF T, t
<1>2. /\ Words(t, 0) = << >>
      /\ \A k \in 1..Len(t) : Words(t, k) = IF t[k][1] \in NameOrLiteral
                                            THEN Append(Words(t, k - 1), Valued(t[k])) ELSE Words(t, k - 1)
  BY <1>1, WordsDef
<1>3. /\ Words(s, 0) = << >>
      /\ \A k \in 1..Len(s) : Words(s, k) = IF s[k][1] \in NameOrLiteral
                                            THEN Append(Words(s, k - 1), Valued(s[k])) ELSE Words(s, k - 1)
  BY WordsDef
<1>4. Bad = {}
  <2> SUFFICES ASSUME Bad # {} PROVE FALSE
    OBVIOUS
  <2>1. PICK k \in Bad : \A j \in Bad : k =< j
    <3>1. Bad \in SUBSET Nat
      OBVIOUS
    <3> HIDE DEF Bad
    <3> QED
      BY <3>1, Least
  <2>2. k # 0
    BY <1>2, <1>3, <2>1
  <2>3. k \in 1..Len(s) /\ k - 1 \in 0..Len(s) /\ k \in 1..Len(t) /\ ~(k =< k - 1)
    BY <1>1, <2>1, <2>2
  <2>4. Words(t, k - 1) = Words(s, k - 1)
    BY <2>1, <2>3
  <2> QED
    BY <1>1, <1>2, <1>3, <2>1, <2>3, <2>4
<1>5. Words(t, Len(s)) = Words(s, Len(s))
  <2>1. Len(s) \in 0..Len(s)
    OBVIOUS
  <2> QED
    BY <1>4, <2>1
<1>6. Len(s) + 1 \in 1..Len(t) /\ (Len(s) + 1) - 1 = Len(s)
  BY <1>1
<1> QED
  BY <1>1, <1>2, <1>5, <1>6 DEF t

-----------------------------------------------------------------------------
(* What is to do, as a sequence *)

LEMMA JoinFacts ==
  ASSUME NEW S, NEW s \in Seq(S), NEW t \in Seq(S)
  PROVE  /\ s \o t \in Seq(S) /\ Len(s \o t) = Len(s) + Len(t) /\ Len(s) \in Nat /\ Len(t) \in Nat
         /\ DOMAIN s = 1..Len(s) /\ DOMAIN t = 1..Len(t) /\ DOMAIN (s \o t) = 1..(Len(s) + Len(t))
         /\ \A i \in 1..Len(s) : (s \o t)[i] = s[i]
         /\ \A i \in 1..Len(t) : (s \o t)[Len(s) + i] = t[i]
         /\ \A i \in 1..(Len(s) + Len(t)) : i > Len(s) => i - Len(s) \in 1..Len(t) /\ (s \o t)[i] = t[i - Len(s)]
<1>1. s \o t \in Seq(S) /\ Len(s \o t) = Len(s) + Len(t) /\ Len(s) \in Nat /\ Len(t) \in Nat
  OBVIOUS
<1>2. DOMAIN s = 1..Len(s) /\ DOMAIN t = 1..Len(t)
  OBVIOUS
<1>3. DOMAIN (s \o t) = 1..(Len(s) + Len(t))
  BY <1>1
<1>4. \A i \in 1..Len(s) : (s \o t)[i] = s[i]
  OBVIOUS
<1>5. \A i \in 1..(Len(s) + Len(t)) : i > Len(s) => i - Len(s) \in 1..Len(t) /\ (s \o t)[i] = t[i - Len(s)]
  OBVIOUS
<1>6. ASSUME NEW i \in 1..Len(t) PROVE (s \o t)[Len(s) + i] = t[i]
  <2>1. Len(s) + i \in 1..(Len(s) + Len(t)) /\ Len(s) + i > Len(s) /\ (Len(s) + i) - Len(s) = i
    BY <1>1
  <2> QED
    BY <1>5, <2>1
<1> QED
  BY <1>1, <1>2, <1>3, <1>4, <1>5, <1>6

LEMMA TailFacts ==
  ASSUME NEW S, NEW s \in Seq(S), s # << >>
  PROVE  /\ Tail(s) \in Seq(S) /\ Len(Tail(s)) = Len(s) - 1 /\ Len(s) \in Nat /\ Len(s) >= 1
         /\ DOMAIN s = 1..Len(s) /\ DOMAIN Tail(s) = 1..(Len(s) - 1) /\ Head(s) = s[1] /\ s[1] \in S
         /\ \A i \in 1..(Len(s) - 1) : Tail(s)[i] = s[i + 1] /\ i + 1 \in 1..Len(s)
OBVIOUS

LEMMA TailOfOne ==
  ASSUME NEW S, NEW s \in Seq(S), Len(s) = 1
  PROVE  Tail(s) = << >>
<1>1. Tail(s) \in Seq(S) /\ Len(Tail(s)) = 0
  OBVIOUS
<1> DEFINE t == Tail(s)
<1> HIDE DEF t
<1>2. t \in Seq(S) /\ Len(t) = 0
  BY <1>1 DEF t
<1>3. t = << >>
  BY <1>2
<1> QED
  BY <1>3 DEF t

LEMMA JoinNothing ==
  ASSUME NEW S, NEW s \in Seq(S)
  PROVE  s \o << >> = s
<1>1. << >> \in Seq(S) /\ Len(<< >>) = 0
  OBVIOUS
<1> DEFINE u == s \o << >>
<1>2. u \in Seq(S) /\ Len(u) = Len(s) + 0 /\ Len(s) \in Nat /\ \A i \in 1..Len(s) : u[i] = s[i]
  BY <1>1, JoinFacts
<1> HIDE DEF u
<1>3. Len(u) = Len(s)
  BY <1>2
<1>4. u = s
  BY <1>2, <1>3
<1> QED
  BY <1>4 DEF u

LEMMA SkipIsNoNode == Skip # Fault /\ Skip # Comma /\ Comma # Fault /\ ~Makes(Skip) /\ ~Makes(Fault)
                      /\ \A k : Close(k) # Skip /\ ~Makes(Close(k)) /\ Close(k) # Comma
BY DEF Skip, Fault, Comma, Makes, Close

\* Behind an item that is not advance() nothing is known of the tokens.
LEMMA KnownTail ==
  ASSUME NEW S, NEW s \in Seq(S), s # << >>, s[1] # Skip, s[1] # Fault,
         NEW one, NEW two, Known(s, one, two)
  PROVE  Known(Tail(s), FALSE, FALSE)
<1> DEFINE t == Tail(s)
<1> SUFFICES ASSUME NEW i \in DOMAIN t, \A j \in 1..(i - 1) : t[j] # Fault
             PROVE  t[i] # Skip /\ ~(Makes(t[i]) /\ Skips(t[i][3])) /\ ~(Makes(t[i]) /\ SkipsTwo(t[i][3]))
  BY DEF Known
<1>1. i \in 1..(Len(s) - 1) /\ i + 1 \in DOMAIN s /\ t[i] = s[i + 1] /\ Len(s) \in Nat
  BY TailFacts
<1>2. \A j \in 1..((i + 1) - 1) : s[j] # Fault
  <2> SUFFICES ASSUME NEW j \in 1..((i + 1) - 1), j # 1 PROVE s[j] # Fault
    OBVIOUS
  <2>1. j - 1 \in 1..(i - 1) /\ j - 1 \in 1..(Len(s) - 1) /\ (j - 1) + 1 = j
    BY <1>1
  <2>2. t[j - 1] = s[j]
    BY <2>1, TailFacts
  <2> QED
    BY <2>1, <2>2
<1>3. /\ s[i + 1] = Skip => (i + 1 = 1 /\ one) \/ (i + 1 = 2 /\ s[1] = Skip /\ two)
      /\ Makes(s[i + 1]) /\ Skips(s[i + 1][3]) => i + 1 = 1 /\ one
  BY <1>1, <1>2 DEF Known
<1>4. SkipsTwo(s[i + 1][3]) => Skips(s[i + 1][3])
  BY DEF SkipsTwo
<1> QED
  BY <1>1, <1>3, <1>4

\* Behind advance() what was known of the second token is known of the next.
LEMMA KnownSkip ==
  ASSUME NEW S, NEW s \in Seq(S), s # << >>, s[1] = Skip,
         NEW one, NEW two \in BOOLEAN, Known(s, one, two)
  PROVE  Known(Tail(s), two, FALSE)
<1> DEFINE t == Tail(s)
<1> SUFFICES ASSUME NEW i \in DOMAIN t, \A j \in 1..(i - 1) : t[j] # Fault
             PROVE  /\ t[i] = Skip => i = 1 /\ two
                    /\ ~(Makes(t[i]) /\ Skips(t[i][3])) /\ ~(Makes(t[i]) /\ SkipsTwo(t[i][3]))
  BY DEF Known
<1>1. i \in 1..(Len(s) - 1) /\ i + 1 \in DOMAIN s /\ t[i] = s[i + 1] /\ Len(s) \in Nat
  BY TailFacts
<1>2. \A j \in 1..((i + 1) - 1) : s[j] # Fault
  <2> SUFFICES ASSUME NEW j \in 1..((i + 1) - 1), j # 1 PROVE s[j] # Fault
    BY SkipIsNoNode
  <2>1. j - 1 \in 1..(i - 1) /\ j - 1 \in 1..(Len(s) - 1) /\ (j - 1) + 1 = j
    BY <1>1
  <2>2. t[j - 1] = s[j]
    BY <2>1, TailFacts
  <2> QED
    BY <2>1, <2>2
<1>3. /\ s[i + 1] = Skip => (i + 1 = 1 /\ one) \/ (i + 1 = 2 /\ s[1] = Skip /\ two)
      /\ Makes(s[i + 1]) /\ Skips(s[i + 1][3]) => i + 1 = 1 /\ one
  BY <1>1, <1>2 DEF Known
<1>4. SkipsTwo(s[i + 1][3]) => Skips(s[i + 1][3])
  BY DEF SkipsTwo
<1> QED
  BY <1>1, <1>3, <1>4

LEMMA KnownJoin ==
  ASSUME NEW S, NEW s \in Seq(S), NEW t \in Seq(S), NEW one \in BOOLEAN, NEW two \in BOOLEAN,
         Known(s, one, two), Known(t, FALSE, FALSE)
  PROVE  Known(s \o t, one, two)
<1> DEFINE u == s \o t
<1> SUFFICES ASSUME NEW i \in DOMAIN u, \A j \in 1..(i - 1) : u[j] # Fault
             PROVE  /\ u[i] = Skip => (i = 1 /\ one) \/ (i = 2 /\ u[1] = Skip /\ two)
                    /\ Makes(u[i]) /\ Skips(u[i][3]) => i = 1 /\ one
                    /\ Makes(u[i]) /\ SkipsTwo(u[i][3]) => two
  BY DEF Known
<1>0. i \in 1..(Len(s) + Len(t)) /\ Len(s) \in Nat /\ Len(t) \in Nat
  BY JoinFacts
<1>1. CASE i <= Len(s)
  <2>1. i \in 1..Len(s) /\ i \in DOMAIN s /\ \A j \in 1..(i - 1) : j \in 1..Len(s)
    BY <1>0, <1>1, JoinFacts
  <2>2. u[i] = s[i] /\ \A j \in 1..(i - 1) : u[j] = s[j]
    BY <2>1, JoinFacts
  <2>3. i > 1 => u[1] = s[1]
    <3>1. i > 1 => 1 \in 1..(i - 1)
      BY <2>1
    <3> QED
      BY <2>2, <3>1
  <2>4. \A j \in 1..(i - 1) : s[j] # Fault
    BY <2>2
  <2> HIDE DEF u
  <2> QED
    BY <2>1, <2>2, <2>3, <2>4 DEF Known
<1>2. CASE i > Len(s)
  <2> DEFINE k == i - Len(s)
  <2>1. k \in 1..Len(t) /\ k \in DOMAIN t /\ u[i] = t[k]
    BY <1>0, <1>2, JoinFacts
  <2>2. \A j \in 1..(k - 1) : t[j] # Fault
    <3> SUFFICES ASSUME NEW j \in 1..(k - 1) PROVE t[j] # Fault
      OBVIOUS
    <3>1. Len(s) + j \in 1..(i - 1) /\ j \in 1..Len(t)
      BY <1>0, <2>1
    <3>2. u[Len(s) + j] = t[j]
      BY <3>1, JoinFacts
    <3> QED
      BY <3>1, <3>2
  <2> HIDE DEF u, k
  <2> QED
    BY <2>1, <2>2 DEF Known
<1> QED
  BY <1>0, <1>1, <1>2

LEMMA KnownWeaken ==
  ASSUME NEW s, NEW one \in BOOLEAN, NEW two \in BOOLEAN, NEW first \in BOOLEAN, NEW second \in BOOLEAN,
         Known(s, one, two), one => first, two => second
  PROVE  Known(s, first, second)
BY DEF Known

\* The items of a node are to do where the node was.
LEMMA KnownBody ==
  ASSUME NEW s, NEW x, NEW S, NEW b \in Seq(S), b = x[3], 1 \in DOMAIN s, s[1] = x, Makes(x), Sound(x),
         NEW one \in BOOLEAN, NEW two \in BOOLEAN, Known(s, one, two)
  PROVE  Known(b, one, two)
<1> SUFFICES ASSUME NEW i \in DOMAIN b, \A j \in 1..(i - 1) : b[j] # Fault
             PROVE  /\ b[i] = Skip => (i = 1 /\ one) \/ (i = 2 /\ b[1] = Skip /\ two)
                    /\ Makes(b[i]) /\ Skips(b[i][3]) => i = 1 /\ one
                    /\ Makes(b[i]) /\ SkipsTwo(b[i][3]) => two
  BY DEF Known
<1>1. Known(b, TRUE, TRUE) /\ (b # << >> => ~(Makes(b[1]) /\ Skips(b[1][3])))
  BY DEF Sound
<1>2. /\ b[i] = Skip => i = 1 \/ (i = 2 /\ b[1] = Skip)
      /\ Makes(b[i]) /\ Skips(b[i][3]) => i = 1
  BY <1>1 DEF Known
<1>3. /\ Skips(b) => one
      /\ SkipsTwo(b) => two
  <2>1. \A j \in 1..(1 - 1) : s[j] # Fault
    OBVIOUS
  <2> QED
    BY <2>1 DEF Known
<1>4. b # << >>
  OBVIOUS
<1>5. ~(Makes(b[i]) /\ Skips(b[i][3]))
  BY <1>1, <1>2, <1>4
<1>6. SkipsTwo(b[i][3]) => Skips(b[i][3])
  BY DEF SkipsTwo
<1>7. b[1] = Skip => one
  BY <1>3, <1>4 DEF Skips
<1>8. b[i] = Skip /\ i = 2 => two
  <2> SUFFICES ASSUME b[i] = Skip, i = 2 PROVE SkipsTwo(b)
    BY <1>3
  <2> QED
    BY <1>2, <1>4 DEF SkipsTwo, Skips
<1> QED
  BY <1>2, <1>5, <1>6, <1>7, <1>8

-----------------------------------------------------------------------------
(* What the parser has to do *)

\* A comma is optional only as the last item of a loop that is still to do.
Commas(s) == \A i \in DOMAIN s : s[i] = Comma =>
               i < Len(s) /\ s[i + 1][1] = "until" /\ EndsInComma(s[i + 1][3])

LEMMA CommasTail ==
  ASSUME NEW S, NEW s \in Seq(S), s # << >>, Commas(s)
  PROVE  Commas(Tail(s))
<1> DEFINE t == Tail(s)
<1> SUFFICES ASSUME NEW i \in DOMAIN t, t[i] = Comma
             PROVE  i < Len(t) /\ t[i + 1][1] = "until" /\ EndsInComma(t[i + 1][3])
  BY DEF Commas
<1>1. i \in 1..(Len(s) - 1) /\ i + 1 \in DOMAIN s /\ t[i] = s[i + 1] /\ Len(s) \in Nat /\ Len(t) = Len(s) - 1
  BY TailFacts
<1>2. i + 1 < Len(s) /\ s[(i + 1) + 1][1] = "until" /\ EndsInComma(s[(i + 1) + 1][3])
  BY <1>1 DEF Commas
<1>3. i + 1 \in 1..(Len(s) - 1)
  BY <1>1, <1>2
<1>4. t[i + 1] = s[(i + 1) + 1]
  BY <1>3, TailFacts
<1> QED
  BY <1>1, <1>2, <1>4

LEMMA CommasJoin ==
  ASSUME NEW S, NEW s \in Seq(S), NEW t \in Seq(S), Commas(t),
         \A i \in DOMAIN s : s[i] = Comma => i = Len(s),
         EndsInComma(s) => t # << >> /\ t[1][1] = "until" /\ EndsInComma(t[1][3])
  PROVE  Commas(s \o t)
<1> DEFINE u == s \o t
<1> SUFFICES ASSUME NEW i \in DOMAIN u, u[i] = Comma
             PROVE  i < Len(u) /\ u[i + 1][1] = "until" /\ EndsInComma(u[i + 1][3])
  BY DEF Commas
<1>0. i \in 1..(Len(s) + Len(t)) /\ Len(s) \in Nat /\ Len(t) \in Nat /\ Len(u) = Len(s) + Len(t)
  BY JoinFacts
<1>1. CASE i <= Len(s)
  <2>1. i \in 1..Len(s) /\ i \in DOMAIN s
    BY <1>0, <1>1, JoinFacts
  <2>2. i = Len(s) /\ s # << >> /\ s[Len(s)] = Comma
    BY <2>1, JoinFacts
  <2>3. t # << >> /\ t[1][1] = "until" /\ EndsInComma(t[1][3])
    BY <2>2 DEF EndsInComma
  <2>4. 1 \in 1..Len(t)
    BY <2>3, TailFacts
  <2>5. u[Len(s) + 1] = t[1]
    BY <2>4, JoinFacts
  <2> QED
    BY <1>0, <2>2, <2>3, <2>4, <2>5
<1>2. CASE i > Len(s)
  <2> DEFINE k == i - Len(s)
  <2>1. k \in 1..Len(t) /\ k \in DOMAIN t /\ u[i] = t[k]
    BY <1>0, <1>2, JoinFacts
  <2>2. k < Len(t) /\ t[k + 1][1] = "until" /\ EndsInComma(t[k + 1][3])
    BY <2>1 DEF Commas
  <2>3. i + 1 \in 1..(Len(s) + Len(t)) /\ i + 1 > Len(s) /\ (i + 1) - Len(s) = k + 1
    BY <1>0, <2>1, <2>2
  <2>4. u[i + 1] = t[k + 1]
    BY <2>3, JoinFacts
  <2> QED
    BY <1>0, <2>2, <2>3, <2>4
<1> QED
  BY <1>0, <1>1, <1>2

IsTop(x) == x[1] = "until" /\ x[2] = {"EOF"} /\ ~EndsInComma(x[3])
IsEnd(x) == x[1] = "close"
Looped(s) == Len(s) >= 2 /\ IsTop(s[Len(s) - 1]) /\ IsEnd(s[Len(s)])

\* Under all that is to do lies the loop of parse, which only the end of the text ends.
Bottom(s, ended) ==
  \/ s = <<Sub("Program")>>
  \/ s = Rules["Program"]
  \/ Looped(s)
  \/ Len(s) = 1 /\ IsEnd(s[1]) /\ ended
  \/ s = << >> /\ ended

LEMMA LoopedTailLong ==
  ASSUME NEW S, NEW s \in Seq(S), Looped(s), Len(s) # 2
  PROVE  Looped(Tail(s))
<1>1. s # << >> /\ Len(s) \in Nat /\ Len(s) >= 2
  BY DEF Looped
<1>2. Len(s) >= 3
  <2>1. \A k \in Nat : k >= 2 /\ k # 2 => k >= 3
    OBVIOUS
  <2>2. Len(s) \in Nat /\ Len(s) >= 2
    BY <1>1
  <2> QED
    BY <2>1, <2>2
<1> DEFINE n == Len(s)
           t == Tail(s)
<1>3. n \in Nat /\ n >= 3 /\ Len(t) = n - 1
  BY <1>1, <1>2, TailFacts
<1>4. \A i \in 1..(n - 1) : t[i] = s[i + 1]
  BY <1>1, TailFacts
<1>5. IsTop(s[n - 1]) /\ IsEnd(s[n])
  BY DEF Looped
<1> HIDE DEF n, t
<1>6. n - 2 \in 1..(n - 1) /\ n - 1 \in 1..(n - 1) /\ (n - 2) + 1 = n - 1 /\ (n - 1) + 1 = n /\ (n - 1) - 1 = n - 2 /\ n - 1 >= 2
  BY <1>3
<1>7. t[n - 2] = s[n - 1] /\ t[n - 1] = s[n]
  BY <1>4, <1>6
<1>8. Looped(t)
  BY <1>3, <1>5, <1>6, <1>7 DEF Looped
<1> QED
  BY <1>8 DEF t

LEMMA LoopedTail ==
  ASSUME NEW S, NEW s \in Seq(S), Looped(s), ~IsTop(s[1])
  PROVE  Looped(Tail(s))
<1>1. Len(s) # 2
  BY DEF Looped
<1> QED
  BY <1>1, LoopedTailLong

LEMMA LoopedJoin ==
  ASSUME NEW S, NEW s \in Seq(S), NEW t \in Seq(S), Looped(t)
  PROVE  Looped(s \o t)
<1> DEFINE u == s \o t
<1>1. Len(u) = Len(s) + Len(t) /\ Len(s) \in Nat /\ Len(t) \in Nat /\ Len(t) >= 2
  BY JoinFacts DEF Looped
<1>2. Len(t) \in 1..Len(t) /\ Len(t) - 1 \in 1..Len(t)
  BY <1>1
<1>3. u[Len(s) + Len(t)] = t[Len(t)] /\ u[Len(s) + (Len(t) - 1)] = t[Len(t) - 1]
  BY <1>2, JoinFacts
<1>4. Len(u) - 1 = Len(s) + (Len(t) - 1) /\ Len(u) >= 2
  BY <1>1
<1> HIDE DEF u
<1>5. Looped(u)
  BY <1>1, <1>3, <1>4 DEF Looped
<1> QED
  BY <1>5 DEF u

LEMMA BottomLooped == \A s, e : Looped(s) => Bottom(s, e)
BY DEF Bottom

\* An item that is not a call, not a node, no loop and no end leaves the loop of parse.
LEMMA BottomIsLooped ==
  ASSUME NEW s, NEW e, Bottom(s, e), s # << >>,
         s[1][1] \notin {"sub", "node", "close"}
  PROVE  Looped(s)
<1>1. s # <<Sub("Program")>>
  BY DEF Sub
<1>2. s # Rules["Program"]
  BY ProgramAssumption
<1> QED
  BY <1>1, <1>2 DEF Bottom, IsEnd
\* What may be to do: the items of the rules, the ends of their nodes, the first call.
Work == Items \cup {Close(x[2]) : x \in Items} \cup {Sub("Program")}

LEMMA WorkFacts ==
  /\ \A f \in Fragments : f \in Seq(Work) /\ \A i \in DOMAIN f : f[i] = Comma => i = Len(f)
  /\ \A x \in Work : Sound(x)
  /\ \A x \in Work : x[1] \in {"node", "around", "until", "repeat"} => x \in Items /\ x[3] \in Fragments
  /\ \A x \in Work : x[1] = "pick" => \A i \in 1..Len(x[2]) : x[2][i][2] \in Fragments
  /\ \A x \in Items : Close(x[2]) \in Work
<1>1. ASSUME NEW f \in Fragments
      PROVE  f \in Seq(Work) /\ \A i \in DOMAIN f : f[i] = Comma => i = Len(f)
  <2>1. f \in Seq(Items) /\ \A i \in DOMAIN f : f[i] = Comma => i = Len(f)
    BY RulesAssumption
  <2>2. Items \subseteq Work
    BY DEF Work
  <2> QED
    BY <2>1, <2>2
<1>2. ASSUME NEW x \in Work, x \notin Items
      PROVE  (\E k : x = Close(k)) \/ x = Sub("Program")
  BY <1>2 DEF Work
<1>3. \A k : Sound(Close(k)) /\ Close(k)[1] = "close"
  BY DEF Sound, Close, Makes
<1>4. Sound(Sub("Program")) /\ Sub("Program")[1] = "sub"
  BY ProgramAssumption DEF Sound, Sub, Makes
<1>5. ASSUME NEW x \in Work PROVE Sound(x)
  BY <1>2, <1>3, <1>4, RulesAssumption
<1>6. ASSUME NEW x \in Items PROVE \A b \in Bodies(x) : b \in Fragments
  <2>1. PICK s \in Fragments : \E i \in DOMAIN s : x = s[i]
    BY DEF Items
  <2>2. Bodies(x) \in {Bodies(s[i]) : i \in DOMAIN s}
    BY <2>1
  <2>3. \A b \in Bodies(x) : b \in Inside(Fragments)
    BY <2>1, <2>2 DEF Inside
  <2> QED
    BY <2>3, RulesAssumption
<1>7. ASSUME NEW x \in Work, x[1] \in {"node", "around", "until", "repeat"}
      PROVE  x \in Items /\ x[3] \in Fragments
  <2>1. x \in Items
    BY <1>2, <1>3, <1>4, <1>7
  <2> QED
    BY <1>6, <1>7, <2>1 DEF Bodies
<1>8. ASSUME NEW x \in Work, x[1] = "pick", NEW i \in 1..Len(x[2])
      PROVE  x[2][i][2] \in Fragments
  <2>1. x \in Items
    BY <1>2, <1>3, <1>4, <1>8
  <2>2. x[2][i][2] \in Bodies(x)
    BY <1>8 DEF Bodies
  <2> QED
    BY <1>6, <2>1, <2>2
<1>9. \A x \in Items : Close(x[2]) \in Work
  BY DEF Work
<1> QED
  BY <1>1, <1>5, <1>7, <1>8, <1>9

-----------------------------------------------------------------------------
(* The tokens *)

\* A finished text: the last token is the end, and no other is.
Finished(ts) ==
  /\ \E S : ts \in Seq(S)
  /\ ts # << >> /\ ts[Len(ts)][1] = "EOF"
  /\ \A i \in 1..(Len(ts) - 1) : ts[i][1] # "EOF"

At(ts, p) == IF p > Len(ts) THEN ts[Len(ts)] ELSE ts[p]
Unnamed(ts, p) == At(ts, p)[1] \notin NameOrLiteral
Onward(ts, p) == IF At(ts, p)[1] = "EOF" THEN p ELSE p + 1

LEMMA OnwardFacts ==
  ASSUME NEW ts, Finished(ts), NEW p \in Nat, p >= 1, p <= Len(ts)
  PROVE  /\ Onward(ts, p) \in Nat /\ Onward(ts, p) >= 1 /\ Onward(ts, p) <= Len(ts)
         /\ At(ts, p)[1] = "EOF" <=> p = Len(ts)
         /\ At(ts, p) = ts[p]
         /\ At(ts, Onward(ts, p)) = At(ts, p + 1)
<1>1. Len(ts) \in Nat /\ ts[Len(ts)][1] = "EOF"
  BY DEF Finished
<1>2. At(ts, p) = ts[p]
  BY <1>1 DEF At
<1>3. ts[p][1] = "EOF" <=> p = Len(ts)
  <2>1. p # Len(ts) => p \in 1..(Len(ts) - 1)
    BY <1>1
  <2> QED
    BY <1>1, <2>1 DEF Finished
<1>4. CASE p = Len(ts)
  BY <1>1, <1>2, <1>3, <1>4 DEF Onward, At
<1>5. CASE p # Len(ts)
  BY <1>1, <1>2, <1>3, <1>5 DEF Onward, At
<1> QED
  BY <1>4, <1>5

LEMMA EofIsNoName == "EOF" \notin NameOrLiteral /\ "node" \notin NameOrLiteral
BY DEF NameOrLiteral

\* The words before a position, one position on.
LEMMA WordsOnward ==
  ASSUME NEW ts, Finished(ts), NEW p \in Nat, p >= 1, p <= Len(ts)
  PROVE  Words(ts, Onward(ts, p) - 1) =
           IF Unnamed(ts, p) THEN Words(ts, p - 1) ELSE Append(Words(ts, p - 1), Valued(At(ts, p)))
<1>1. PICK S : ts \in Seq(S)
  BY DEF Finished
<1>2. At(ts, p) = ts[p] /\ p \in 1..Len(ts)
  BY <1>1, OnwardFacts
<1>3. CASE At(ts, p)[1] = "EOF"
  BY <1>3, EofIsNoName DEF Onward, Unnamed
<1>4. CASE At(ts, p)[1] # "EOF"
  <2>1. Onward(ts, p) - 1 = p
    BY <1>4 DEF Onward
  <2> QED
    BY <1>1, <1>2, <2>1, WordsDef DEF Unnamed
<1> QED
  BY <1>3, <1>4

\* At the end of the text all its words are read.
LEMMA WordsEnd ==
  ASSUME NEW ts, Finished(ts)
  PROVE  Words(ts, Len(ts) - 1) = Words(ts, Len(ts))
<1>1. PICK S : ts \in Seq(S)
  BY DEF Finished
<1>2. Len(ts) \in 1..Len(ts) /\ ts[Len(ts)][1] \notin NameOrLiteral
  BY <1>1, EofIsNoName DEF Finished
<1> QED
  BY <1>1, <1>2, WordsDef
-----------------------------------------------------------------------------
(* One step of the parser *)

Read(ts, p, o) == Words(o, Len(o)) = Words(ts, p - 1)

\* While no error is reported: what is read is in the tree, and what is to do is sound.
Good(ts, p, td, o) ==
  /\ p \in Nat /\ p >= 1 /\ p <= Len(ts)
  /\ td \in Seq(Work)
  /\ Known(td, Unnamed(ts, p), Unnamed(ts, p + 1))
  /\ Commas(td)
  /\ Bottom(td, p = Len(ts))
  /\ \E S : o \in Seq(S)
  /\ Read(ts, p, o)

LEMMA ReadFacts ==
  ASSUME NEW ts, Finished(ts), NEW p \in Nat, p >= 1, p <= Len(ts),
         NEW S, NEW o \in Seq(S), Read(ts, p, o)
  PROVE  /\ Read(ts, Onward(ts, p), Append(o, At(ts, p)))
         /\ Unnamed(ts, p) => Read(ts, Onward(ts, p), o)
         /\ \A x : x[1] \notin NameOrLiteral => Read(ts, p, Append(o, x))
         /\ Read(ts, Onward(ts, p), Append(o, Valued(At(ts, p))))
<1>1. \A x : Len(Append(o, x)) = Len(o) + 1
  OBVIOUS
<1>2. ASSUME NEW x
      PROVE  Words(Append(o, x), Len(Append(o, x))) =
               IF x[1] \in NameOrLiteral THEN Append(Words(o, Len(o)), Valued(x)) ELSE Words(o, Len(o))
  BY <1>1, WordsAppend
<1>3. Read(ts, Onward(ts, p), Append(o, At(ts, p)))
  BY <1>2, WordsOnward DEF Read, Unnamed
<1>4. Unnamed(ts, p) => Read(ts, Onward(ts, p), o)
  BY WordsOnward DEF Read
<1>5. \A x : x[1] \notin NameOrLiteral => Read(ts, p, Append(o, x))
  BY <1>2 DEF Read
<1>6. Read(ts, Onward(ts, p), Append(o, Valued(At(ts, p))))
  BY <1>2, WordsOnward, ValuedFacts DEF Read, Unnamed
<1> QED
  BY <1>3, <1>4, <1>5, <1>6 DEF Read

Plain == {"want", "name", "skip", "take", "number", "may", "flag", "comma"}

\* An item that looks at one token, or passes it.
LEMMA PlainStep ==
  ASSUME NEW ts, Finished(ts), NEW p, NEW td, NEW o, Good(ts, p, td, o),
         td # << >>, td[1][1] \in Plain,
         NEW q \in {p, Onward(ts, p)}, td[1][1] = "skip" => q = Onward(ts, p),
         NEW S, NEW t \in Seq(S), Read(ts, q, t)
  PROVE  Good(ts, q, Tail(td), t)
<1>1. td \in Seq(Work) /\ td[1] \in Work /\ Tail(td) \in Seq(Work)
  BY TailFacts DEF Good
<1>2. q \in Nat /\ q >= 1 /\ q <= Len(ts) /\ At(ts, Onward(ts, p)) = At(ts, p + 1)
  BY OnwardFacts DEF Good
<1>3. Known(Tail(td), Unnamed(ts, q), Unnamed(ts, q + 1))
  <2>1. CASE td[1] = Skip
    <3>1. td[1][1] = "skip"
      BY <2>1 DEF Skip
    <3>2. Known(Tail(td), Unnamed(ts, p + 1), FALSE)
      <4>1. Unnamed(ts, p + 1) \in BOOLEAN /\ Known(td, Unnamed(ts, p), Unnamed(ts, p + 1))
        BY DEF Good, Unnamed
      <4> QED
        BY <1>1, <2>1, <4>1, KnownSkip
    <3>3. Unnamed(ts, q) = Unnamed(ts, p + 1)
      BY <1>2, <3>1 DEF Unnamed
    <3>4. Unnamed(ts, q) \in BOOLEAN /\ Unnamed(ts, q + 1) \in BOOLEAN
      BY DEF Unnamed
    <3> QED
      BY <3>2, <3>3, <3>4, KnownWeaken
  <2>2. CASE td[1] # Skip
    <3>1. td[1] # Fault
      BY DEF Plain, Fault
    <3>2. Known(Tail(td), FALSE, FALSE)
      BY <1>1, <2>2, <3>1, KnownTail DEF Good
    <3>3. Unnamed(ts, q) \in BOOLEAN /\ Unnamed(ts, q + 1) \in BOOLEAN
      BY DEF Unnamed
    <3> QED
      BY <3>2, <3>3, KnownWeaken
  <2> QED
    BY <2>1, <2>2
<1>4. Commas(Tail(td))
  BY <1>1, CommasTail DEF Good
<1>5. Bottom(Tail(td), q = Len(ts))
  <2>1. Looped(td)
    BY BottomIsLooped DEF Good, Plain
  <2>2. ~IsTop(td[1])
    BY DEF Plain, IsTop
  <2> QED
    BY <1>1, <2>1, <2>2, LoopedTail, BottomLooped
<1> QED
  BY <1>1, <1>2, <1>3, <1>4, <1>5 DEF Good

\* An item that is replaced by what it stands for.
LEMMA ThenStep ==
  ASSUME NEW ts, Finished(ts), NEW p, NEW td, NEW o, Good(ts, p, td, o),
         td # << >>, td[1] # Skip, td[1] # Fault,
         NEW f \in Seq(Work), \A i \in DOMAIN f : f[i] = Comma => i = Len(f), ~EndsInComma(f),
         Known(f, Unnamed(ts, p), Unnamed(ts, p + 1)),
         Bottom(f \o Tail(td), p = Len(ts))
  PROVE  Good(ts, p, f \o Tail(td), o)
<1>1. td \in Seq(Work) /\ Tail(td) \in Seq(Work) /\ f \o Tail(td) \in Seq(Work)
  BY TailFacts DEF Good
<1>2. Known(f \o Tail(td), Unnamed(ts, p), Unnamed(ts, p + 1))
  <2>1. Known(Tail(td), FALSE, FALSE)
    BY <1>1, KnownTail DEF Good
  <2>2. Unnamed(ts, p) \in BOOLEAN /\ Unnamed(ts, p + 1) \in BOOLEAN
    BY DEF Unnamed
  <2> QED
    BY <1>1, <2>1, <2>2, KnownJoin
<1>3. Commas(f \o Tail(td))
  <2>1. Commas(Tail(td))
    BY <1>1, CommasTail DEF Good
  <2> QED
    BY <1>1, <2>1, CommasJoin
<1> QED
  BY <1>1, <1>2, <1>3 DEF Good
LEMMA CallStep ==
  ASSUME NEW ts, Finished(ts), NEW p, NEW td, NEW o, Good(ts, p, td, o),
         td # << >>, td[1][1] = "sub"
  PROVE  Good(ts, p, Rules[td[1][2]] \o Tail(td), o)
<1> DEFINE f == Rules[td[1][2]]
<1>1. td \in Seq(Work) /\ td[1] \in Work /\ td[1] # Skip /\ td[1] # Fault /\ ~IsTop(td[1])
  BY TailFacts DEF Good, Skip, Fault, IsTop
<1>2. td[1][2] \in DOMAIN Rules
  BY <1>1, WorkFacts DEF Sound
<1>3. f \in Fragments /\ Known(f, FALSE, FALSE) /\ ~EndsInComma(f)
  BY <1>2, RulesAssumption
<1>4. f \in Seq(Work) /\ \A i \in DOMAIN f : f[i] = Comma => i = Len(f)
  BY <1>3, WorkFacts
<1>5. Unnamed(ts, p) \in BOOLEAN /\ Unnamed(ts, p + 1) \in BOOLEAN
  BY DEF Unnamed
<1>6. Known(f, Unnamed(ts, p), Unnamed(ts, p + 1))
  BY <1>3, <1>5, KnownWeaken
<1>7. Bottom(f \o Tail(td), p = Len(ts))
  <2>1. CASE td = <<Sub("Program")>>
    <3>1. f = Rules["Program"] /\ Tail(td) = << >>
      BY <1>1, <2>1, TailOfOne DEF Sub
    <3>2. f \o Tail(td) = f
      BY <1>4, <3>1, JoinNothing
    <3> QED
      BY <3>1, <3>2 DEF Bottom
  <2>2. CASE Looped(td)
    BY <1>1, <1>4, <2>2, TailFacts, LoopedTail, LoopedJoin, BottomLooped
  <2> QED
    BY <2>1, <2>2, ProgramAssumption DEF Good, Bottom, IsEnd
<1> HIDE DEF f
<1>8. Good(ts, p, f \o Tail(td), o)
  BY <1>1, <1>3, <1>4, <1>6, <1>7, ThenStep
<1> QED
  BY <1>8 DEF f

LEMMA BeginStep ==
  ASSUME NEW ts, Finished(ts), NEW p, NEW td, NEW o, Good(ts, p, td, o),
         td # << >>, td[1][1] \in {"node", "around"}
  PROVE  Good(ts, p, (td[1][3] \o <<Close(td[1][2])>>) \o Tail(td), o)
<1> DEFINE x == td[1]
           b == x[3]
           e == Close(x[2])
           f == b \o <<e>>
<1>1. td \in Seq(Work) /\ x \in Work /\ x # Skip /\ x # Fault /\ ~IsTop(x) /\ 1 \in DOMAIN td
  BY TailFacts DEF Good, Skip, Fault, IsTop
<1>2. b \in Fragments /\ e \in Work /\ Sound(x) /\ Makes(x)
  BY <1>1, WorkFacts DEF Makes
<1>3. b \in Seq(Work) /\ <<e>> \in Seq(Work) /\ Len(<<e>>) = 1 /\ <<e>>[1] = e
  BY <1>2, WorkFacts
<1>4. ~EndsInComma(b) /\ \A i \in DOMAIN b : b[i] = Comma => i = Len(b)
  BY <1>2, WorkFacts DEF Sound
<1>5. \A i \in DOMAIN b : b[i] # Comma
  BY <1>4 DEF EndsInComma
<1>6. f \in Seq(Work) /\ Len(f) = Len(b) + 1 /\ f[Len(b) + 1] = e /\ Len(b) \in Nat
      /\ DOMAIN f = 1..(Len(b) + 1) /\ DOMAIN b = 1..Len(b) /\ \A i \in 1..Len(b) : f[i] = b[i]
  <2>1. 1 \in 1..Len(<<e>>)
    BY <1>3
  <2> QED
    BY <1>3, <2>1, JoinFacts
<1>7. \A i \in DOMAIN f : f[i] # Comma
  BY <1>5, <1>6, SkipIsNoNode
<1>8. ~EndsInComma(f) /\ \A i \in DOMAIN f : f[i] = Comma => i = Len(f)
  <2>1. f[Len(f)] # Comma
    BY <1>6, SkipIsNoNode
  <2> QED
    BY <1>7, <2>1 DEF EndsInComma
<1>9. Unnamed(ts, p) \in BOOLEAN /\ Unnamed(ts, p + 1) \in BOOLEAN
  BY DEF Unnamed
<1>10. Known(f, Unnamed(ts, p), Unnamed(ts, p + 1))
  <2>1. Known(b, Unnamed(ts, p), Unnamed(ts, p + 1))
    <3>1. Known(td, Unnamed(ts, p), Unnamed(ts, p + 1))
      BY DEF Good
    <3> HIDE DEF b, x
    <3>2. b = x[3] /\ td[1] = x
      BY DEF b, x
    <3> QED
      BY <1>1, <1>2, <1>3, <1>9, <3>1, <3>2, KnownBody
  <2>2. Known(<<e>>, FALSE, FALSE)
    <3>1. \A i \in DOMAIN <<e>> : <<e>>[i] # Skip /\ ~Makes(<<e>>[i])
      BY SkipIsNoNode
    <3> HIDE DEF e
    <3> QED
      BY <3>1 DEF Known
  <2> HIDE DEF b, e
  <2> QED
    BY <1>3, <1>9, <2>1, <2>2, KnownJoin
<1>11. Bottom(f \o Tail(td), p = Len(ts))
  <2>1. CASE td = Rules["Program"]
    <3>1. Len(td) = 1 /\ Len(b) = 1 /\ IsTop(b[1])
      BY <2>1, ProgramAssumption DEF IsTop
    <3>2. Tail(td) = << >>
      BY <1>1, <3>1, TailOfOne
    <3>3. f \o Tail(td) = f
      <4> HIDE DEF f
      <4> QED
        BY <1>6, <3>2, JoinNothing
    <3>4. Looped(f)
      <4>1. IsEnd(e)
        BY DEF IsEnd, Close
      <4>2. Len(f) = 2 /\ f[1] = b[1] /\ f[2] = e
        BY <1>6, <3>1
      <4> HIDE DEF f, b, e
      <4>3. Len(f) >= 2 /\ Len(f) - 1 = 1
        BY <4>2
      <4> QED
        BY <3>1, <4>1, <4>2, <4>3 DEF Looped
    <3> HIDE DEF f
    <3> QED
      BY <3>3, <3>4, BottomLooped
  <2>2. CASE Looped(td)
    <3>1. Looped(Tail(td)) /\ Tail(td) \in Seq(Work)
      BY <1>1, <2>2, TailFacts, LoopedTail
    <3> HIDE DEF f
    <3> QED
      BY <1>6, <3>1, LoopedJoin, BottomLooped
  <2>3. td = Rules["Program"] \/ Looped(td)
    <3> HIDE DEF f, b, e, x
    <3>1. td # <<Sub("Program")>> /\ ~IsEnd(td[1])
      BY DEF Sub, IsEnd
    <3> QED
      BY <3>1 DEF Good, Bottom
  <2> HIDE DEF f, b, e, x
  <2> QED
    BY <2>1, <2>2, <2>3
<1>12. td[1] # Skip /\ td[1] # Fault
  BY <1>1
<1> HIDE DEF f
<1>13. Good(ts, p, f \o Tail(td), o)
  BY <1>12, <1>6, <1>8, <1>10, <1>11, ThenStep
<1> QED
  BY <1>13 DEF f

LEMMA EndStep ==
  ASSUME NEW ts, Finished(ts), NEW p, NEW td, NEW o, Good(ts, p, td, o),
         td # << >>, td[1][1] = "close", NEW x, x[1] = "node"
  PROVE  Good(ts, p, Tail(td), Append(o, x))
<1>1. td \in Seq(Work) /\ Tail(td) \in Seq(Work) /\ td[1] # Skip /\ td[1] # Fault /\ ~IsTop(td[1])
  BY TailFacts DEF Good, Skip, Fault, IsTop
<1>2. Known(Tail(td), Unnamed(ts, p), Unnamed(ts, p + 1))
  <2>1. Known(Tail(td), FALSE, FALSE)
    BY <1>1, KnownTail DEF Good
  <2>2. Unnamed(ts, p) \in BOOLEAN /\ Unnamed(ts, p + 1) \in BOOLEAN
    BY DEF Unnamed
  <2> QED
    BY <2>1, <2>2, KnownWeaken
<1>3. Commas(Tail(td))
  BY <1>1, CommasTail DEF Good
<1>4. Bottom(Tail(td), p = Len(ts))
  <2>1. CASE Looped(td)
    BY <1>1, <2>1, LoopedTail, BottomLooped
  <2>2. CASE Len(td) = 1 /\ p = Len(ts)
    <3>1. Tail(td) = << >>
      BY <1>1, <2>2, TailOfOne
    <3> QED
      BY <2>2, <3>1 DEF Bottom
  <2> QED
    BY <2>1, <2>2, ProgramAssumption DEF Good, Bottom, Sub
<1>5. PICK S : o \in Seq(S)
  BY DEF Good
<1>6. Append(o, x) \in Seq(S \cup {x})
  <2>1. o \in Seq(S \cup {x}) /\ x \in S \cup {x}
    BY <1>5
  <2> QED
    BY <2>1
<1>7. Read(ts, p, Append(o, x))
  BY <1>5, ReadFacts, EofIsNoName DEF Good
<1> QED
  BY <1>1, <1>2, <1>3, <1>4, <1>6, <1>7 DEF Good
AheadAt(ts, p, la) == \A i \in 1..Len(la) : Looks(At(ts, p + (i - 1))) \cap la[i] # {}

LEMMA TellsUnnamed ==
  ASSUME NEW ts, NEW p \in Nat, NEW la, AheadAt(ts, p, la)
  PROVE  (Tells(la, 1) => Unnamed(ts, p)) /\ (Tells(la, 2) => Unnamed(ts, p + 1))
<1>1. ASSUME NEW k, Tells(la, k) PROVE At(ts, p + (k - 1))[1] \notin NameOrLiteral
  <2>1. PICK word \in Looks(At(ts, p + (k - 1))) : word \in la[k]
    BY <1>1 DEF AheadAt, Tells
  <2>2. word \notin NameOrLiteral \cup Contextual
    BY <1>1, <2>1 DEF Tells
  <2> QED
    BY <2>1, <2>2 DEF Looks
<1>2. p + (1 - 1) = p /\ p + (2 - 1) = p + 1
  OBVIOUS
<1> QED
  BY <1>1, <1>2 DEF Unnamed

\* An alternative or the body of a loop, with what was found ahead of it.
LEMMA ChooseStep ==
  ASSUME NEW ts, Finished(ts), NEW p, NEW td, NEW o, Good(ts, p, td, o),
         td # << >>, td[1][1] = "pick",
         NEW i \in 1..Len(td[1][2]), AheadAt(ts, p, td[1][2][i][1])
  PROVE  Good(ts, p, td[1][2][i][2] \o Tail(td), o)
<1> DEFINE x == td[1]
           f == x[2][i][2]
<1>1. td \in Seq(Work) /\ x \in Work /\ x # Skip /\ x # Fault /\ ~IsTop(x)
  BY TailFacts DEF Good, Skip, Fault, IsTop
<1>2. f \in Fragments /\ Sound(x)
  BY <1>1, WorkFacts
<1>3. f \in Seq(Work) /\ \A k \in DOMAIN f : f[k] = Comma => k = Len(f)
  BY <1>2, WorkFacts
<1>4. Known(f, Tells(x[2][i][1], 1), Tells(x[2][i][1], 2)) /\ ~EndsInComma(f)
  BY <1>2 DEF Sound
<1>5. Known(f, Unnamed(ts, p), Unnamed(ts, p + 1))
  <2>1. Unnamed(ts, p) \in BOOLEAN /\ Unnamed(ts, p + 1) \in BOOLEAN
        /\ Tells(x[2][i][1], 1) \in BOOLEAN /\ Tells(x[2][i][1], 2) \in BOOLEAN
    BY DEF Unnamed, Tells
  <2>2. (Tells(x[2][i][1], 1) => Unnamed(ts, p)) /\ (Tells(x[2][i][1], 2) => Unnamed(ts, p + 1))
    BY TellsUnnamed DEF Good
  <2> HIDE DEF f, x
  <2> QED
    BY <1>4, <2>1, <2>2, KnownWeaken
<1>6. Bottom(f \o Tail(td), p = Len(ts))
  <2>1. Looped(td)
    BY BottomIsLooped DEF Good
  <2>2. Looped(Tail(td)) /\ Tail(td) \in Seq(Work)
    BY <1>1, <2>1, TailFacts, LoopedTail
  <2> HIDE DEF f
  <2> QED
    BY <1>3, <2>2, LoopedJoin, BottomLooped
<1>7. td[1] # Skip /\ td[1] # Fault
  BY <1>1
<1> HIDE DEF f
<1>8. Good(ts, p, f \o Tail(td), o)
  BY <1>3, <1>4, <1>5, <1>6, <1>7, ThenStep
<1> QED
  BY <1>8 DEF f

LEMMA LoopStep ==
  ASSUME NEW ts, Finished(ts), NEW p, NEW td, NEW o, Good(ts, p, td, o),
         td # << >>, td[1][1] \in {"until", "repeat"},
         td[1][1] = "repeat" => AheadAt(ts, p, td[1][2])
  PROVE  Good(ts, p, td[1][3] \o td, o)
<1> DEFINE x == td[1]
           f == x[3]
<1>1. td \in Seq(Work) /\ x \in Work /\ x # Skip /\ x # Fault
  BY TailFacts DEF Good, Skip, Fault
<1>2. f \in Fragments /\ Sound(x)
  BY <1>1, WorkFacts
<1>3. f \in Seq(Work) /\ \A k \in DOMAIN f : f[k] = Comma => k = Len(f)
  BY <1>2, WorkFacts
<1>4. Unnamed(ts, p) \in BOOLEAN /\ Unnamed(ts, p + 1) \in BOOLEAN
  BY DEF Unnamed
<1>5. Known(f, Unnamed(ts, p), Unnamed(ts, p + 1))
  <2>1. CASE x[1] = "until"
    <3>1. Known(f, FALSE, FALSE)
      BY <1>2, <2>1 DEF Sound
    <3> HIDE DEF f
    <3> QED
      BY <1>4, <3>1, KnownWeaken
  <2>2. CASE x[1] = "repeat"
    <3>1. Known(f, Tells(x[2], 1), Tells(x[2], 2))
      BY <1>2, <2>2 DEF Sound
    <3>2. Tells(x[2], 1) \in BOOLEAN /\ Tells(x[2], 2) \in BOOLEAN
      BY DEF Tells
    <3>3. (Tells(x[2], 1) => Unnamed(ts, p)) /\ (Tells(x[2], 2) => Unnamed(ts, p + 1))
      BY <2>2, TellsUnnamed DEF Good
    <3> HIDE DEF f, x
    <3> QED
      BY <1>4, <3>1, <3>2, <3>3, KnownWeaken
  <2> QED
    BY <2>1, <2>2
<1>6. Known(td, FALSE, FALSE)
  <2>1. Known(td, Unnamed(ts, p), Unnamed(ts, p + 1)) /\ ~Makes(td[1])
    BY DEF Good, Makes
  <2>2. ASSUME NEW k \in DOMAIN td, \A j \in 1..(k - 1) : td[j] # Fault
        PROVE  td[k] # Skip /\ ~(Makes(td[k]) /\ Skips(td[k][3])) /\ ~(Makes(td[k]) /\ SkipsTwo(td[k][3]))
    <3>1. /\ td[k] = Skip => k = 1 \/ (k = 2 /\ td[1] = Skip)
          /\ Makes(td[k]) /\ Skips(td[k][3]) => k = 1
      BY <2>1, <2>2 DEF Known
    <3>2. SkipsTwo(td[k][3]) => Skips(td[k][3])
      BY DEF SkipsTwo
    <3> QED
      BY <1>1, <2>1, <3>1, <3>2
  <2> QED
    BY <2>2 DEF Known
<1>7. Known(f \o td, Unnamed(ts, p), Unnamed(ts, p + 1))
  <2> HIDE DEF f
  <2> QED
    BY <1>1, <1>3, <1>4, <1>5, <1>6, KnownJoin
<1>8. Commas(f \o td)
  <2>1. EndsInComma(f) => td # << >> /\ td[1][1] = "until" /\ EndsInComma(td[1][3])
    BY <1>2 DEF Sound
  <2>2. Commas(td)
    BY DEF Good
  <2> HIDE DEF f
  <2> QED
    BY <1>1, <1>3, <2>1, <2>2, CommasJoin
<1>9. Bottom(f \o td, p = Len(ts))
  <2>1. Looped(td)
    BY BottomIsLooped DEF Good
  <2> HIDE DEF f
  <2> QED
    BY <1>1, <1>3, <2>1, LoopedJoin, BottomLooped
<1>10. f \o td \in Seq(Work)
  <2> HIDE DEF f
  <2> QED
    BY <1>1, <1>3, JoinFacts
<1> HIDE DEF f
<1>11. Good(ts, p, f \o td, o)
  BY <1>7, <1>8, <1>9, <1>10 DEF Good
<1> QED
  BY <1>11 DEF f

\* A loop that ends; the loop of parse ends only with the text.
LEMMA LoopEndStep ==
  ASSUME NEW ts, Finished(ts), NEW p, NEW td, NEW o, Good(ts, p, td, o),
         td # << >>, td[1][1] \in {"until", "repeat"},
         td[1][1] = "until" => At(ts, p)[1] \in td[1][2] \/ At(ts, p)[1] = "EOF"
  PROVE  Good(ts, p, Tail(td), o)
<1>1. td \in Seq(Work) /\ Tail(td) \in Seq(Work) /\ td[1] # Skip /\ td[1] # Fault
  BY TailFacts DEF Good, Skip, Fault
<1>2. Known(Tail(td), Unnamed(ts, p), Unnamed(ts, p + 1))
  <2>1. Known(Tail(td), FALSE, FALSE)
    BY <1>1, KnownTail DEF Good
  <2>2. Unnamed(ts, p) \in BOOLEAN /\ Unnamed(ts, p + 1) \in BOOLEAN
    BY DEF Unnamed
  <2> QED
    BY <2>1, <2>2, KnownWeaken
<1>3. Commas(Tail(td))
  BY <1>1, CommasTail DEF Good
<1>4. Looped(td)
  BY BottomIsLooped DEF Good
<1>5. Bottom(Tail(td), p = Len(ts))
  <2>1. CASE IsTop(td[1]) /\ Len(td) = 2
    <3>1. p = Len(ts)
      BY <2>1, OnwardFacts DEF IsTop, Good
    <3>2. Len(Tail(td)) = 1 /\ Tail(td)[1] = td[2]
      BY <1>1, <2>1
    <3>3. IsEnd(td[2])
      BY <1>4, <2>1 DEF Looped
    <3> QED
      BY <3>1, <3>2, <3>3 DEF Bottom
  <2>2. CASE Len(td) # 2
    <3>1. Looped(Tail(td))
      BY <1>1, <1>4, <2>2, LoopedTailLong
    <3> QED
      BY <3>1, BottomLooped
  <2>3. CASE ~IsTop(td[1])
    BY <1>1, <1>4, <2>3, LoopedTail, BottomLooped
  <2> QED
    BY <2>1, <2>2, <2>3
<1> QED
  BY <1>1, <1>2, <1>3, <1>5 DEF Good

\* Without a comma its loop ends too, and that is not the loop of parse.
LEMMA SeparatorStep ==
  ASSUME NEW ts, Finished(ts), NEW p, NEW td, NEW o, Good(ts, p, td, o),
         td # << >>, td[1][1] = "comma"
  PROVE  Good(ts, p, Tail(Tail(td)), o)
<1> DEFINE u == Tail(td)
<1>1. td \in Seq(Work) /\ td[1] \in Work /\ td[1] # Skip /\ td[1] # Fault /\ ~IsTop(td[1])
  BY TailFacts DEF Good, Skip, Fault, IsTop
<1>2. td[1] = Comma
  BY <1>1, WorkFacts DEF Sound
<1>3. Len(td) > 1 /\ td[2][1] = "until" /\ EndsInComma(td[2][3])
  <2>1. 1 \in DOMAIN td /\ 1 + 1 = 2
    BY <1>1, TailFacts
  <2> QED
    BY <1>2, <2>1 DEF Good, Commas
<1>4. u \in Seq(Work) /\ u # << >> /\ u[1] = td[2]
  <2>1. u \in Seq(Work) /\ Len(u) = Len(td) - 1 /\ Len(td) \in Nat /\ 1 \in 1..(Len(td) - 1)
    BY <1>1, <1>3, TailFacts
  <2>2. u[1] = td[1 + 1]
    BY <1>1, <2>1, TailFacts
  <2>3. Len(u) # 0
    BY <1>3, <2>1
  <2> HIDE DEF u
  <2> QED
    BY <2>1, <2>2, <2>3
<1>5. u[1] # Skip /\ u[1] # Fault /\ ~IsTop(u[1])
  BY <1>3, <1>4 DEF Skip, Fault, IsTop
<1>6. Known(u, FALSE, FALSE) /\ Commas(u)
  BY <1>1, KnownTail, CommasTail DEF Good
<1>7. Looped(u)
  <2>1. Looped(td)
    BY BottomIsLooped DEF Good
  <2> QED
    BY <1>1, <2>1, LoopedTail
<1> HIDE DEF u
<1>8. Known(Tail(u), Unnamed(ts, p), Unnamed(ts, p + 1))
  <2>1. Known(Tail(u), FALSE, FALSE)
    BY <1>4, <1>5, <1>6, KnownTail
  <2>2. Unnamed(ts, p) \in BOOLEAN /\ Unnamed(ts, p + 1) \in BOOLEAN
    BY DEF Unnamed
  <2> QED
    BY <2>1, <2>2, KnownWeaken
<1>9. Tail(u) \in Seq(Work) /\ Commas(Tail(u)) /\ Bottom(Tail(u), p = Len(ts))
  BY <1>4, <1>5, <1>6, <1>7, TailFacts, CommasTail, LoopedTail, BottomLooped
<1>10. Good(ts, p, Tail(u), o)
  BY <1>8, <1>9 DEF Good
<1> QED
  BY <1>10 DEF u
-----------------------------------------------------------------------------
(* The inductive invariant *)

ScannedInv ==
  /\ \E S : tokens \in Seq(S)
  /\ IF Lexed THEN Finished(tokens)
     ELSE /\ \A i \in 1..Len(tokens) : tokens[i][1] # "EOF"
          /\ pos = 1 /\ todo = <<Sub("Program")>> /\ out = << >>

ParsedInv == Lexed /\ errors = 0 => Good(tokens, pos, todo, out)

FrontInv == ScannedInv /\ errors \in Nat /\ ParsedInv

LEMMA GoodAtFirst ==
  ASSUME NEW ts, Finished(ts)
  PROVE  Good(ts, 1, <<Sub("Program")>>, << >>)
<1> DEFINE td == <<Sub("Program")>>
<1>1. Len(ts) \in Nat /\ Len(ts) >= 1
  BY DEF Finished
<1>2. td \in Seq(Work) /\ DOMAIN td = {1} /\ td[1] = Sub("Program")
  BY DEF Work
<1>3. Sub("Program") # Skip /\ ~Makes(Sub("Program")) /\ Sub("Program") # Comma
  BY DEF Sub, Skip, Makes, Comma
<1> HIDE DEF td
<1>4. Known(td, Unnamed(ts, 1), Unnamed(ts, 1 + 1))
  BY <1>2, <1>3 DEF Known
<1>5. Commas(td)
  BY <1>2, <1>3 DEF Commas
<1>6. Bottom(td, 1 = Len(ts))
  BY DEF Bottom, td
<1>7. << >> \in Seq(Work)
  OBVIOUS
<1>8. Read(ts, 1, << >>)
  <2>1. PICK S : ts \in Seq(S)
    BY DEF Finished
  <2>2. Words(ts, 0) = << >>
    BY <2>1, WordsDef
  <2>3. Words(<< >>, 0) = << >>
    BY <1>7, WordsDef
  <2>4. Len(<< >>) = 0 /\ 1 - 1 = 0
    OBVIOUS
  <2> QED
    BY <2>2, <2>3, <2>4 DEF Read
<1> QED
  BY <1>1, <1>2, <1>4, <1>5, <1>6, <1>7, <1>8 DEF Good, td

LEMMA FrontInvInit == FrontInit => FrontInv
<1> SUFFICES ASSUME FrontInit PROVE FrontInv
  OBVIOUS
<1>1. tokens = << >> /\ pos = 1 /\ todo = <<Sub("Program")>> /\ out = << >> /\ errors = 0
  BY DEF FrontInit, LexInit, ParseInit
<1>2. ~Lexed
  BY <1>1 DEF Lexed
<1>3. << >> \in Seq({1}) /\ \A i \in 1..Len(tokens) : FALSE
  BY <1>1
<1> QED
  BY <1>1, <1>2, <1>3 DEF FrontInv, ScannedInv, ParsedInv

\* A token more.
LEMMA ScannedMore ==
  ASSUME ScannedInv, ~Lexed, NEW x, tokens' = Append(tokens, x), UNCHANGED parseVars, errors \in Nat
  PROVE  FrontInv'
<1>1. PICK S : tokens \in Seq(S)
  BY DEF ScannedInv
<1> DEFINE T == S \cup {x}
<1>2. tokens \in Seq(T) /\ x \in T
  BY <1>1
<1> HIDE DEF T
<1>3. tokens' \in Seq(T) /\ Len(tokens') = Len(tokens) + 1 /\ tokens'[Len(tokens) + 1] = x
      /\ Len(tokens) \in Nat /\ \A i \in 1..Len(tokens) : tokens'[i] = tokens[i]
  BY <1>2
<1>4. \A i \in 1..Len(tokens) : tokens'[i][1] # "EOF"
  BY <1>3 DEF ScannedInv
<1>5. tokens' # << >> /\ tokens'[Len(tokens')] = x /\ Len(tokens') - 1 = Len(tokens)
  BY <1>3
<1>6. Lexed' <=> x[1] = "EOF"
  BY <1>5 DEF Lexed
<1>7. pos' = 1 /\ todo' = <<Sub("Program")>> /\ out' = << >> /\ errors' = errors
  BY DEF ScannedInv, parseVars
<1>8. CASE x[1] = "EOF"
  <2>1. Finished(tokens')
    BY <1>3, <1>4, <1>5, <1>8 DEF Finished
  <2>2. Good(tokens', pos', todo', out')
    BY <1>7, <2>1, GoodAtFirst
  <2> QED
    BY <1>3, <1>6, <1>7, <1>8, <2>1, <2>2 DEF FrontInv, ScannedInv, ParsedInv
<1>9. CASE x[1] # "EOF"
  <2>1. ASSUME NEW i \in 1..Len(tokens') PROVE tokens'[i][1] # "EOF"
    <3>1. i \in 1..Len(tokens) \/ i = Len(tokens) + 1
      BY <1>3
    <3> QED
      BY <1>3, <1>4, <1>9, <3>1
  <2> QED
    BY <1>3, <1>6, <1>7, <1>9, <2>1 DEF FrontInv, ScannedInv, ParsedInv
<1> QED
  BY <1>8, <1>9

LEMMA FrontInvKept ==
  ASSUME FrontInv, UNCHANGED <<tokens, parseVars>>
  PROVE  FrontInv'
<1>1. Lexed' = Lexed
  BY DEF Lexed
<1> QED
  BY <1>1 DEF FrontInv, ScannedInv, ParsedInv, parseVars

LEMMA ScanKeeps ==
  ASSUME FrontInv, Scan
  PROVE  FrontInv'
<1>1. CASE SkipWhitespace \/ HashComment
  <2>1. UNCHANGED tokens
    BY <1>1 DEF SkipWhitespace, HashComment
  <2> QED
    BY <2>1, FrontInvKept DEF Scan, parseVars
<1>2. CASE ScanToken \/ EndOfText
  <2>1. ~Lexed /\ \E x : tokens' = Append(tokens, x)
    BY <1>2 DEF ScanToken, EndOfText
  <2>2. UNCHANGED parseVars /\ ScannedInv /\ errors \in Nat
    BY DEF Scan, FrontInv
  <2> QED
    BY <2>1, <2>2, ScannedMore
<1> QED
  BY <1>1, <1>2 DEF Scan, LexNext
\* What a step of the parser finds.
LEMMA ParseFacts ==
  ASSUME FrontInv, Parse, errors = 0
  PROVE  /\ Finished(tokens) /\ Good(tokens, pos, todo, out) /\ tokens' = tokens /\ Lexed'
         /\ pos \in Nat /\ pos >= 1 /\ pos <= Len(tokens)
         /\ Peek(0) = At(tokens, pos) /\ Peek(0) = tokens[pos]
         /\ Advance => pos' = Onward(tokens, pos)
         /\ todo # << >> => Head(todo) = todo[1] /\ todo[1] \in Work
<1>1. Lexed /\ Finished(tokens) /\ Good(tokens, pos, todo, out)
  BY DEF Parse, FrontInv, ScannedInv, ParsedInv
<1>2. tokens' = tokens /\ Lexed'
  BY <1>1 DEF Parse, lexVars, Lexed
<1>3. pos \in Nat /\ pos >= 1 /\ pos <= Len(tokens) /\ pos + 0 = pos
  BY <1>1 DEF Good
<1>4. Peek(0) = At(tokens, pos)
  BY <1>3 DEF Peek, At
<1>5. At(tokens, pos) = tokens[pos]
  BY <1>1, <1>3, OnwardFacts
<1>6. Advance => pos' = Onward(tokens, pos)
  BY <1>4 DEF Advance, AtEnd, Onward
<1>7. todo # << >> => Head(todo) = todo[1] /\ todo[1] \in Work
  BY <1>1, TailFacts DEF Good
<1> QED
  BY <1>1, <1>2, <1>3, <1>4, <1>5, <1>6, <1>7

\* A step that reports no error need only keep what holds while there is none.
LEMMA ParseKeepsBy ==
  ASSUME FrontInv, Parse, errors' = errors, errors = 0 => Good(tokens, pos', todo', out')
  PROVE  FrontInv'
<1>1. Lexed /\ tokens' = tokens
  BY DEF Parse, lexVars
<1>2. Lexed'
  BY <1>1 DEF Lexed
<1>3. ScannedInv'
  BY <1>1, <1>2 DEF FrontInv, ScannedInv
<1> QED
  BY <1>1, <1>3 DEF FrontInv, ParsedInv

\* Behind an error nothing is promised.
LEMMA FaultKeeps ==
  ASSUME FrontInv, Parse, errors' = errors + 1
  PROVE  FrontInv'
<1>1. Lexed /\ tokens' = tokens
  BY DEF Parse, lexVars
<1>2. Lexed'
  BY <1>1 DEF Lexed
<1>3. ScannedInv'
  BY <1>1, <1>2 DEF FrontInv, ScannedInv
<1>4. errors' \in Nat /\ errors' # 0
  BY DEF FrontInv
<1> QED
  BY <1>3, <1>4 DEF FrontInv, ParsedInv

LEMMA AppendIsSeq ==
  ASSUME NEW S, NEW s \in Seq(S), NEW x
  PROVE  Append(s, x) \in Seq(S \cup {x})
<1> DEFINE T == S \cup {x}
<1>1. s \in Seq(T) /\ x \in T
  OBVIOUS
<1> HIDE DEF T
<1>2. Append(s, x) \in Seq(T)
  BY <1>1
<1> QED
  BY <1>2 DEF T

\* The same of an item that looks at one token: where the next token is then, and what is in the tree.
LEMMA PlainKeeps ==
  ASSUME FrontInv, Parse, errors' = errors, todo # << >>, todo[1][1] \in Plain, todo' = Tail(todo),
         pos' = pos \/ Advance, todo[1][1] = "skip" => Advance,
         out' = out \/ \E x : out' = Append(out, x),
         errors = 0 => Read(tokens, pos', out')
  PROVE  FrontInv'
<1> SUFFICES ASSUME errors = 0 PROVE Good(tokens, pos', todo', out')
  BY ParseKeepsBy
<1>1. Finished(tokens) /\ Good(tokens, pos, todo, out)
  BY ParseFacts
<1>2. pos' \in {pos, Onward(tokens, pos)} /\ (todo[1][1] = "skip" => pos' = Onward(tokens, pos))
  BY ParseFacts
<1>3. \E S : out' \in Seq(S)
  <2>1. PICK S : out \in Seq(S)
    BY <1>1 DEF Good
  <2>2. \A x : Append(out, x) \in Seq(S \cup {x})
    BY <2>1, AppendIsSeq
  <2> QED
    BY <2>1, <2>2
<1>4. Read(tokens, pos', out')
  OBVIOUS
<1> QED
  BY <1>1, <1>2, <1>3, <1>4, PlainStep
\* What an item that looks at one token may leave of what is read.
LEMMA ReadOn ==
  ASSUME FrontInv, Parse, errors = 0
  PROVE  /\ Advance /\ out' = Append(out, Peek(0)) => Read(tokens, pos', out')
         /\ Advance /\ out' = out /\ Peek(0)[1] \notin NameOrLiteral => Read(tokens, pos', out')
         /\ pos' = pos /\ out' = out => Read(tokens, pos', out')
         /\ \A x : pos' = pos /\ out' = Append(out, x) /\ x[1] \notin NameOrLiteral => Read(tokens, pos', out')
         /\ Advance /\ out' = Append(out, Valued(Peek(0))) => Read(tokens, pos', out')
<1>1. Finished(tokens) /\ Good(tokens, pos, todo, out)
  BY ParseFacts
<1>2. PICK S : out \in Seq(S)
  BY <1>1 DEF Good
<1>3. Peek(0) = At(tokens, pos) /\ (Advance => pos' = Onward(tokens, pos))
      /\ pos \in Nat /\ pos >= 1 /\ pos <= Len(tokens) /\ Read(tokens, pos, out)
  BY ParseFacts, <1>1 DEF Good
<1>4. /\ Read(tokens, Onward(tokens, pos), Append(out, At(tokens, pos)))
      /\ Unnamed(tokens, pos) => Read(tokens, Onward(tokens, pos), out)
      /\ \A x : x[1] \notin NameOrLiteral => Read(tokens, pos, Append(out, x))
      /\ Read(tokens, Onward(tokens, pos), Append(out, Valued(At(tokens, pos))))
  BY <1>1, <1>2, <1>3, ReadFacts
<1>5. Peek(0)[1] \notin NameOrLiteral => Unnamed(tokens, pos)
  BY <1>3 DEF Unnamed
<1> QED
  BY <1>3, <1>4, <1>5

LEMMA HeadFacts ==
  ASSUME FrontInv, Parse, errors = 0, todo # << >>
  PROVE  Head(todo) = todo[1] /\ Sound(todo[1])
BY ParseFacts, WorkFacts

LEMMA ExpectKeeps ==
  ASSUME FrontInv, Parse, Expect
  PROVE  FrontInv'
<1>1. todo # << >> /\ Head(todo)[1] \in {"want", "name"} /\ todo' = Tail(todo)
  BY DEF Expect, NextIs, Done
<1>2. CASE Peek(0)[1] # Arg
  BY <1>2, FaultKeeps DEF Expect
<1>3. CASE Peek(0)[1] = Arg
  <2>1. Advance /\ errors' = errors
    BY <1>3 DEF Expect
  <2> SUFFICES ASSUME errors = 0 PROVE FrontInv'
    BY <2>1, <1>1, ParseKeepsBy
  <2>2. Head(todo) = todo[1] /\ Sound(todo[1])
    BY <1>1, HeadFacts
  <2>3. CASE Head(todo)[1] = "name"
    <3>1. out' = Append(out, Peek(0))
      BY <2>3, <1>1 DEF Expect, NextIs, Put
    <3>2. Read(tokens, pos', out')
      BY <2>1, <3>1, ReadOn
    <3> QED
      BY <1>1, <2>1, <2>2, <2>3, <3>1, <3>2, PlainKeeps DEF Plain
  <2>4. CASE Head(todo)[1] = "want"
    <3>1. out' = out
      BY <2>4, <1>1 DEF Expect, NextIs, Nowhere
    <3>2. Peek(0)[1] \notin NameOrLiteral
      BY <1>3, <2>2, <2>4 DEF Arg, Sound
    <3>3. Read(tokens, pos', out')
      BY <2>1, <3>1, <3>2, ReadOn
    <3> QED
      BY <1>1, <2>1, <2>2, <2>4, <3>1, <3>3, PlainKeeps DEF Plain
  <2> QED
    BY <1>1, <2>3, <2>4
<1> QED
  BY <1>2, <1>3

LEMMA ConsumeKeeps ==
  ASSUME FrontInv, Parse, Consume
  PROVE  FrontInv'
<1>1. todo # << >> /\ Head(todo)[1] \in {"skip", "take"} /\ todo' = Tail(todo) /\ Advance /\ errors' = errors
  BY DEF Consume, NextIs, Done
<1> SUFFICES ASSUME errors = 0 PROVE FrontInv'
  BY <1>1, ParseKeepsBy
<1>2. Head(todo) = todo[1] /\ Sound(todo[1])
  BY <1>1, HeadFacts
<1>3. CASE Head(todo)[1] = "take"
  <2>1. out' = Append(out, Peek(0))
    BY <1>3, <1>1 DEF Consume, NextIs, Put
  <2>2. Read(tokens, pos', out')
    BY <1>1, <2>1, ReadOn
  <2> QED
    BY <1>1, <1>2, <1>3, <2>1, <2>2, PlainKeeps DEF Plain
<1>4. CASE Head(todo)[1] = "skip"
  <2>1. out' = out
    BY <1>4, <1>1 DEF Consume, NextIs, Nowhere
  <2>2. Peek(0)[1] \notin NameOrLiteral
    <3>1. Good(tokens, pos, todo, out) /\ Peek(0) = At(tokens, pos)
      BY ParseFacts
    <3>2. todo[1] = Skip /\ 1 \in DOMAIN todo
      BY <1>1, <1>2, <1>4, <3>1, TailFacts DEF Sound, Good
    <3>3. Unnamed(tokens, pos)
      <4>1. \A j \in 1..(1 - 1) : todo[j] # Fault
        OBVIOUS
      <4>2. Known(todo, Unnamed(tokens, pos), Unnamed(tokens, pos + 1))
        BY <3>1 DEF Good
      <4> QED
        BY <3>2, <4>1, <4>2 DEF Known
    <3> QED
      BY <3>1, <3>3 DEF Unnamed
  <2>3. Read(tokens, pos', out')
    BY <1>1, <2>1, <2>2, ReadOn
  <2> QED
    BY <1>1, <1>2, <1>4, <2>1, <2>3, PlainKeeps DEF Plain
<1> QED
  BY <1>1, <1>3, <1>4

LEMMA ReadNumberKeeps ==
  ASSUME FrontInv, Parse, ReadNumber
  PROVE  FrontInv'
<1>1. todo # << >> /\ Head(todo)[1] = "number" /\ todo' = Tail(todo) /\ Advance /\ errors' = errors
      /\ \E x : out' = Append(out, x)
  BY DEF ReadNumber, NextIs, Done, Put
<1> SUFFICES ASSUME errors = 0 PROVE FrontInv'
  BY <1>1, ParseKeepsBy
<1>2. Head(todo) = todo[1]
  BY <1>1, HeadFacts
<1>3. Read(tokens, pos', out')
  <2>1. out' = Append(out, Valued(Peek(0)))
    BY DEF ReadNumber, Put
  <2> QED
    BY <1>1, <2>1, ReadOn
<1> QED
  BY <1>1, <1>2, <1>3, PlainKeeps DEF Plain

LEMMA MatchKeeps ==
  ASSUME FrontInv, Parse, Match
  PROVE  FrontInv'
<1>1. todo # << >> /\ Head(todo)[1] \in {"may", "flag"} /\ todo' = Tail(todo) /\ errors' = errors
      /\ (pos' = pos \/ Advance)
  BY DEF Match, NextIs, Done
<1> SUFFICES ASSUME errors = 0 PROVE FrontInv'
  BY <1>1, ParseKeepsBy
<1>2. Head(todo) = todo[1] /\ Sound(todo[1])
  BY <1>1, HeadFacts
<1>3. CASE Peek(0)[1] = Arg
  <2>1. Advance
    BY <1>3 DEF Match
  <2>2. Peek(0)[1] \notin NameOrLiteral
    BY <1>1, <1>2, <1>3 DEF Arg, Sound
  <2>3. out' = out \/ out' = Append(out, Peek(0))
    BY <1>3 DEF Match, Nowhere, Put
  <2>4. Read(tokens, pos', out')
    BY <2>1, <2>2, <2>3, ReadOn
  <2> QED
    BY <1>1, <1>2, <2>1, <2>3, <2>4, PlainKeeps DEF Plain
<1>4. CASE Peek(0)[1] # Arg
  <2>1. pos' = pos
    BY <1>4 DEF Match
  <2>2. out' = out \/ out' = Append(out, NodeOf("None", 0))
    BY <1>4 DEF Match, Nowhere, Put
  <2>3. NodeOf("None", 0)[1] \notin NameOrLiteral
    BY EofIsNoName DEF NodeOf
  <2>4. Read(tokens, pos', out')
    BY <2>1, <2>2, <2>3, ReadOn
  <2> QED
    BY <1>1, <1>2, <2>1, <2>2, <2>4, PlainKeeps DEF Plain
<1> QED
  BY <1>3, <1>4
LEMMA CallKeeps ==
  ASSUME FrontInv, Parse, Call
  PROVE  FrontInv'
<1>1. todo # << >> /\ Head(todo)[1] = "sub" /\ todo' = Rules[Head(todo)[2]] \o Tail(todo)
      /\ pos' = pos /\ out' = out /\ errors' = errors
  BY DEF Call, NextIs, Then, Arg
<1> SUFFICES ASSUME errors = 0 PROVE Good(tokens, pos', todo', out')
  BY <1>1, ParseKeepsBy
<1> QED
  BY <1>1, ParseFacts, CallStep

LEMMA BeginKeeps ==
  ASSUME FrontInv, Parse, Begin
  PROVE  FrontInv'
<1>1. todo # << >> /\ Head(todo)[1] \in {"node", "around"}
      /\ todo' = (Head(todo)[3] \o <<Close(Head(todo)[2])>>) \o Tail(todo)
      /\ pos' = pos /\ out' = out /\ errors' = errors
  BY DEF Begin, NextIs, Then, Arg
<1> SUFFICES ASSUME errors = 0 PROVE Good(tokens, pos', todo', out')
  BY <1>1, ParseKeepsBy
<1> QED
  BY <1>1, ParseFacts, BeginStep

LEMMA EndKeeps ==
  ASSUME FrontInv, Parse, End
  PROVE  FrontInv'
<1>1. todo # << >> /\ Head(todo)[1] = "close" /\ todo' = Tail(todo)
      /\ out' = Append(out, NodeOf(Arg, parts[Top])) /\ pos' = pos /\ errors' = errors
  BY DEF End, NextIs, Done
<1>2. NodeOf(Arg, parts[Top])[1] = "node"
  BY DEF NodeOf
<1> SUFFICES ASSUME errors = 0 PROVE Good(tokens, pos', todo', out')
  BY <1>1, ParseKeepsBy
<1> QED
  BY <1>1, <1>2, ParseFacts, EndStep

LEMMA AheadIs ==
  ASSUME pos \in Nat
  PROVE  \A la : Ahead(la) <=> AheadAt(tokens, pos, la)
<1>1. \A i : Peek(i) = At(tokens, pos + i)
  BY DEF Peek, At
<1> QED
  BY <1>1 DEF Ahead, AheadAt

LEMMA ChooseKeeps ==
  ASSUME FrontInv, Parse, Choose
  PROVE  FrontInv'
<1> DEFINE First(i) == /\ Ahead(Arg[i][1])
                       /\ \A j \in 1..(i - 1) : ~Ahead(Arg[j][1])
<1>1. todo # << >> /\ Head(todo)[1] = "pick" /\ pos' = pos /\ out' = out /\ errors' = errors
      /\ todo' = Arg[CHOOSE i \in 1..Len(Arg) : First(i)][2] \o Tail(todo)
  BY DEF Choose, NextIs, Then
<1> SUFFICES ASSUME errors = 0 PROVE Good(tokens, pos', todo', out')
  BY <1>1, ParseKeepsBy
<1>2. Head(todo) = todo[1] /\ Sound(todo[1]) /\ Arg = todo[1][2]
  BY <1>1, HeadFacts DEF Arg
<1>3. \E i \in 1..Len(Arg) : First(i)
  <2> DEFINE Found == {i \in 1..Len(Arg) : Ahead(Arg[i][1])}
  <2>1. Found # {}
    <3>1. PICK i \in 1..Len(Arg) : Arg[i][1] = << >>
      BY <1>1, <1>2 DEF Sound
    <3>2. Ahead(<< >>)
      BY DEF Ahead
    <3> QED
      BY <3>1, <3>2
  <2>2. Found \in SUBSET Nat
    OBVIOUS
  <2>3. PICK m \in Found : \A k \in Found : m =< k
    <3> HIDE DEF Found
    <3> QED
      BY <2>1, <2>2, Least
  <2>4. \A j \in 1..(m - 1) : j \in 1..Len(Arg) /\ ~(m =< j)
    BY <2>3
  <2>5. First(m)
    BY <2>3, <2>4
  <2> QED
    BY <2>3, <2>5
<1>4. PICK i \in 1..Len(Arg) : First(i) /\ todo' = Arg[i][2] \o Tail(todo)
  <2> HIDE DEF First
  <2> QED
    BY <1>1, <1>3
<1>5. AheadAt(tokens, pos, todo[1][2][i][1])
  BY <1>2, <1>4, AheadIs, ParseFacts
<1> HIDE DEF First
<1> QED
  BY <1>1, <1>2, <1>4, <1>5, ParseFacts, ChooseStep

LEMMA LoopKeeps ==
  ASSUME FrontInv, Parse, Loop
  PROVE  FrontInv'
<1> DEFINE go == IF NextIs("until") THEN ~(Peek(0)[1] \in Arg) /\ ~AtEnd ELSE Ahead(Arg)
<1>1. todo # << >> /\ Head(todo)[1] \in {"until", "repeat"} /\ pos' = pos /\ out' = out /\ errors' = errors
      /\ (NextIs("until") <=> Head(todo)[1] = "until")
  BY DEF Loop, NextIs
<1>2. IF go THEN todo' = Head(todo)[3] \o todo ELSE todo' = Tail(todo)
  BY DEF Loop, Done
<1> SUFFICES ASSUME errors = 0 PROVE Good(tokens, pos', todo', out')
  BY <1>1, ParseKeepsBy
<1>3. Head(todo) = todo[1] /\ Arg = todo[1][2]
  BY <1>1, HeadFacts DEF Arg
<1>4. CASE go
  <2>1. todo[1][1] = "repeat" => AheadAt(tokens, pos, todo[1][2])
    BY <1>1, <1>3, <1>4, AheadIs, ParseFacts
  <2>2. todo' = todo[1][3] \o todo
    BY <1>2, <1>3, <1>4
  <2> QED
    BY <1>1, <1>3, <2>1, <2>2, ParseFacts, LoopStep
<1>5. CASE ~go
  <2>1. todo[1][1] = "until" => At(tokens, pos)[1] \in todo[1][2] \/ At(tokens, pos)[1] = "EOF"
    BY <1>1, <1>3, <1>5, ParseFacts DEF AtEnd
  <2>2. todo' = Tail(todo)
    BY <1>2, <1>5
  <2> QED
    BY <1>1, <1>3, <2>1, <2>2, ParseFacts, LoopEndStep
<1> HIDE DEF go
<1> QED
  BY <1>4, <1>5

LEMMA SeparatorKeeps ==
  ASSUME FrontInv, Parse, Separator
  PROVE  FrontInv'
<1>1. todo # << >> /\ Head(todo)[1] = "comma" /\ out' = out /\ errors' = errors
  BY DEF Separator, NextIs
<1> SUFFICES ASSUME errors = 0 PROVE FrontInv'
  BY <1>1, ParseKeepsBy
<1>2. Head(todo) = todo[1]
  BY <1>1, HeadFacts
<1>3. CASE Peek(0)[1] = ","
  <2>1. Advance /\ todo' = Tail(todo)
    BY <1>3 DEF Separator, Done
  <2>2. Peek(0)[1] \notin NameOrLiteral
    BY <1>3 DEF NameOrLiteral
  <2>3. Read(tokens, pos', out')
    BY <1>1, <2>1, <2>2, ReadOn
  <2> QED
    BY <1>1, <1>2, <2>1, <2>3, PlainKeeps DEF Plain
<1>4. CASE Peek(0)[1] # ","
  <2>1. pos' = pos /\ todo' = Tail(Tail(todo))
    BY <1>4 DEF Separator
  <2>2. Good(tokens, pos', todo', out')
    BY <1>1, <1>2, <2>1, ParseFacts, SeparatorStep
  <2> QED
    BY <1>1, <2>2, ParseKeepsBy
<1> QED
  BY <1>3, <1>4

LEMMA FrontInvStep == FrontInv /\ [FrontNext]_frontVars => FrontInv'
<1> SUFFICES ASSUME FrontInv, [FrontNext]_frontVars PROVE FrontInv'
  OBVIOUS
<1>1. CASE Scan
  BY <1>1, ScanKeeps
<1>2. CASE Parse
  <2>1. CASE EmitError
    BY <1>2, <2>1, FaultKeeps DEF EmitError
  <2> QED
    BY <1>2, <2>1, ExpectKeeps, ConsumeKeeps, ReadNumberKeeps, MatchKeeps, CallKeeps, BeginKeeps,
       EndKeeps, ChooseKeeps, LoopKeeps, SeparatorKeeps DEF Parse, ParseNext
<1>3. CASE UNCHANGED frontVars
  BY <1>3, FrontInvKept DEF frontVars, lexVars
<1> QED
  BY <1>1, <1>2, <1>3 DEF FrontNext

LEMMA FrontInvAlways == FrontSpec => []FrontInv
<1> QED
  BY FrontInvInit, FrontInvStep, PTL DEF FrontSpec

-----------------------------------------------------------------------------
\* With nothing left to do, and no error, the parser is at the last token.
LEMMA AcceptedAtEnd ==
  ASSUME FrontInv, Accepted
  PROVE  Finished(tokens) /\ Good(tokens, pos, todo, out) /\ pos = Len(tokens)
<1>1. todo = << >> /\ errors = 0
  BY DEF Accepted, Parsed
<1>2. Lexed
  BY <1>1 DEF FrontInv, ScannedInv
<1>3. Finished(tokens) /\ Good(tokens, pos, todo, out)
  BY <1>1, <1>2 DEF FrontInv, ScannedInv, ParsedInv
<1>4. ~Looped(<< >>) /\ Len(<< >>) = 0
  BY DEF Looped
<1>5. << >> # Rules["Program"]
  BY ProgramAssumption
<1>6. pos = Len(tokens)
  BY <1>1, <1>3, <1>4, <1>5 DEF Good, Bottom
<1> QED
  BY <1>3, <1>6

\* A text is accepted only when it is read to its end: the loop of parse is the
\* last to stop (parser.cpp:73-83), whatever stops the others.
THEOREM AcceptedTextsAreRead == FrontSpec => [](Accepted => AtEnd)
<1>1. FrontInv => (Accepted => AtEnd)
  <2> SUFFICES ASSUME FrontInv, Accepted PROVE AtEnd
    OBVIOUS
  <2>1. pos = Len(tokens) /\ Finished(tokens) /\ pos + 0 = pos /\ pos \in Nat
    BY AcceptedAtEnd DEF Good
  <2> QED
    BY <2>1 DEF AtEnd, Peek, Finished
<1> QED
  BY <1>1, FrontInvAlways, PTL

\* Whatever the grammar, as long as it is made the way the assumptions say, and
\* whatever the text: the names and literals of an accepted text are all in its
\* tree, by the values the parser gives them, in their order (the loops of parser.cpp stop only where the next token is
\* looked at, and advance() is called without a look only behind one).
THEOREM AcceptedTextsAreKept == FrontSpec => []NothingDropped
<1>1. FrontInv => NothingDropped
  <2> SUFFICES ASSUME FrontInv, Accepted
               PROVE  Words(out, Len(out)) = Words(tokens, Len(tokens))
    BY DEF NothingDropped, Tree
  <2>1. Finished(tokens) /\ Good(tokens, pos, todo, out) /\ pos = Len(tokens)
    BY AcceptedAtEnd
  <2>2. Words(out, Len(out)) = Words(tokens, Len(tokens) - 1)
    BY <2>1 DEF Good, Read
  <2> QED
    BY <2>1, <2>2, WordsEnd
<1> QED
  BY <1>1, FrontInvAlways, PTL
=============================================================================
