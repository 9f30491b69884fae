--------------------------- MODULE SharedList_proofs ---------------------------
(***************************************************************************)
(* For any number of threads and operations: Value::mtx excludes, no one    *)
(* keeps it, and no change of the list is lost.  For the last, the sum over  *)
(* a list is shown not to depend on the order of its elements, by induction  *)
(* over the subsets of its domain.                                          *)
(***************************************************************************)
EXTENDS SharedList, FiniteSetTheorems, WellFoundedInduction, TLAPS

Inv == TypeOK /\ OwnerIsInside

LEMMA FrontLast ==
  ASSUME NEW s \in Seq(Nat), s # <<>>
  PROVE  /\ Front(s) \in Seq(Nat) /\ Last(s) \in Nat
         /\ Len(Front(s)) = Len(s) - 1 /\ Last(s) = s[Len(s)]
         /\ \A i \in 1..Len(Front(s)) : Front(s)[i] = s[i]
<1>1. Len(s) \in Nat /\ Len(s) >= 1
  OBVIOUS
<1>2. Front(s) \in Seq(Nat)
  BY <1>1 DEF Front
<1>3. Len(Front(s)) = Len(s) - 1
  <2>1. PICK n \in Nat : n = Len(s) - 1
    BY <1>1
  <2>2. Len(SubSeq(s, 1, n)) = n
    BY <1>1, <2>1
  <2>3. Front(s) = SubSeq(s, 1, n)
    BY <2>1 DEF Front
  <2> QED
    BY <2>1, <2>2, <2>3
<1>4. \A i \in 1..(Len(s) - 1) : Front(s)[i] = s[i]
  BY <1>1 DEF Front
<1> QED
  BY <1>1, <1>2, <1>3, <1>4 DEF Last

LEMMA InitInv == Init => Inv
BY ThreadsAssumption, MaxCallsAssumption
DEF Init, Inv, TypeOK, OwnerIsInside, Inside, Places, Locked

LEMMA StartInv ==
  ASSUME Inv, NEW t \in Threads, NEW o \in Ops, NEW i \in Indices(o), Start(t, o, i)
  PROVE  Inv'
<1>1. o \in Locked \union {"scan"} /\ i \in 1..2
  BY OpsAssumption DEF Indices
<1>2. TypeOK'
  BY <1>1, MaxCallsAssumption DEF Start, Goto, Inv, TypeOK, Places
<1>3. OwnerIsInside'
  BY DEF Start, Goto, Inv, TypeOK, OwnerIsInside, Inside
<1> QED
  BY <1>2, <1>3 DEF Inv

LEMMA LockInv ==
  ASSUME Inv, NEW t \in Threads, Lock(t)
  PROVE  Inv'
<1>1. TypeOK'
  BY DEF Lock, Goto, Inv, TypeOK, Places
<1>2. OwnerIsInside'
  BY ThreadsAssumption DEF Lock, Goto, Inv, TypeOK, OwnerIsInside, Inside
<1> QED
  BY <1>1, <1>2 DEF Inv

LEMMA ReadInv ==
  ASSUME Inv, NEW t \in Threads, Read(t)
  PROVE  Inv'
<1>1. TypeOK'
  <2>1. idx[t] \in 1..2 /\ Len(list) \in Nat /\ DOMAIN list = 1..Len(list)
    BY DEF Inv, TypeOK
  <2>2. pc' \in [Threads -> Places] /\ seen' \in [Threads -> Seq(Nat)]
    BY DEF Read, Goto, Inv, TypeOK, Places
  <2>3. ASSUME NEW u \in Threads, pc'[u] = "write", op'[u] \in {"add", "get"}
        PROVE  idx'[u] \in DOMAIN seen'[u]
    BY <2>1, <2>3 DEF Read, Goto, Inv, TypeOK
  <2> QED
    BY <2>2, <2>3 DEF Read, Inv, TypeOK
<1>2. OwnerIsInside'
  BY DEF Read, Goto, Inv, TypeOK, OwnerIsInside, Inside
<1> QED
  BY <1>1, <1>2 DEF Inv

LEMMA WriteInv ==
  ASSUME Inv, NEW t \in Threads, Write(t)
  PROVE  Inv'
<1> DEFINE Tallies == [{"push", "pop", "added", "popped"} -> Nat]
<1>1. list' \in Seq(Nat) /\ tally' \in Tallies
  <2>1. seen[t] \in Seq(Nat) /\ tally \in Tallies /\ list \in Seq(Nat)
    BY DEF Inv, TypeOK
  <2>2. CASE op[t] = "push"
    <3>1. list' = Append(seen[t], 0) /\ tally' = [tally EXCEPT !["push"] = @ + 1]
      BY <2>2 DEF Write, Count
    <3> QED
      BY <2>1, <3>1
  <2>3. CASE op[t] = "pop" /\ seen[t] # <<>>
    <3>1. /\ list' = Front(seen[t])
          /\ tally' = [tally EXCEPT !.pop = @ + 1, !.popped = @ + Last(seen[t])]
      BY <2>3 DEF Write
    <3>2. Front(seen[t]) \in Seq(Nat) /\ Last(seen[t]) \in Nat
      BY <2>1, <2>3, FrontLast
    <3> DEFINE counted == [tally EXCEPT !["pop"] = @ + 1]
    <3>3. counted \in Tallies
      BY <2>1
    <3>4. tally' = [counted EXCEPT !["popped"] = @ + Last(seen[t])]
      BY <2>1, <3>1
    <3> HIDE DEF counted
    <3>5. tally' \in Tallies
      BY <3>2, <3>3, <3>4
    <3> QED
      BY <3>1, <3>2, <3>5
  <2>4. CASE op[t] = "add"
    <3>1. idx[t] \in DOMAIN seen[t]
      BY <2>4 DEF Write, Inv, TypeOK
    <3>2. /\ list' = [seen[t] EXCEPT ![idx[t]] = @ + 1]
          /\ tally' = [tally EXCEPT !["added"] = @ + 1]
      BY <2>4 DEF Write, Count
    <3>3. list' \in Seq(Nat)
      BY <2>1, <3>1, <3>2
    <3> QED
      BY <2>1, <3>2, <3>3
  <2>5. CASE op[t] \notin {"push", "add"} /\ ~(op[t] = "pop" /\ seen[t] # <<>>)
    <3>1. UNCHANGED <<list, tally>>
      BY <2>5 DEF Write
    <3> QED
      BY <2>1, <3>1
  <2> QED
    BY <2>2, <2>3, <2>4, <2>5
<1>2. /\ mtx' = Nobody /\ pc' = [pc EXCEPT ![t] = "run"]
      /\ seen' = [seen EXCEPT ![t] = <<>>]
      /\ UNCHANGED <<op, idx, calls>>
      /\ pc[t] = "write"
  BY DEF Write, Goto
<1>3. TypeOK'
  BY <1>1, <1>2 DEF Inv, TypeOK, Places
<1>4. OwnerIsInside'
  BY <1>2, ThreadsAssumption DEF Inv, TypeOK, OwnerIsInside, Inside
<1> QED
  BY <1>3, <1>4 DEF Inv

LEMMA PanicInv ==
  ASSUME Inv, NEW t \in Threads, Panic(t)
  PROVE  Inv'
BY ThreadsAssumption DEF Panic, Goto, Inv, TypeOK, OwnerIsInside, Inside, Places

LEMMA EndScanInv ==
  ASSUME Inv, NEW t \in Threads, EndScan(t)
  PROVE  Inv'
BY DEF EndScan, Goto, Inv, TypeOK, OwnerIsInside, Inside, Places

LEMMA EndInv ==
  ASSUME Inv, NEW t \in Threads, End(t)
  PROVE  Inv'
BY DEF End, Goto, Inv, TypeOK, OwnerIsInside, Inside, Places

LEMMA Inductive == Inv /\ [Next]_vars => Inv'
<1> SUFFICES ASSUME Inv, [Next]_vars PROVE Inv'
  OBVIOUS
<1>1. CASE UNCHANGED vars
  BY <1>1 DEF vars, Inv, TypeOK, OwnerIsInside, Inside
<1>2. CASE Next
  BY <1>1, <1>2, StartInv, LockInv, ReadInv, WriteInv, PanicInv, EndScanInv, EndInv
  DEF Next, AllDead
<1> QED
  BY <1>1, <1>2

\* The variables keep their types; an element that is written exists in what
\* was read.
THEOREM TypeCorrect == Spec => []TypeOK
<1>1. Inv => TypeOK
  BY DEF Inv
<1> QED
  BY <1>1, InitInv, Inductive, PTL DEF Spec

\* Of the operations that lock, none looks at the container while another
\* thread is between reading and changing it.
THEOREM LockedExclude == Spec => []Exclusive
<1>1. Inv => Exclusive
  BY DEF Inv, OwnerIsInside, Exclusive, Changing, Inside
<1> QED
  BY <1>1, InitInv, Inductive, PTL DEF Spec

\* A thread owns the mutex exactly while it is inside an access: never two
\* are, and one that ended, by a panic too, does not own it.
THEOREM NobodyKeepsTheLock == Spec => []OwnerIsInside
<1>1. Inv => OwnerIsInside
  BY DEF Inv
<1> QED
  BY <1>1, InitInv, Inductive, PTL DEF Spec

-----------------------------------------------------------------------------
(* No push and no pop is lost *)

\* What a thread is about to write rests on what the list still is.
CountInv ==
  /\ \A t \in Threads : pc[t] = "write" => seen[t] = list
  /\ Len(list) = tally.push - tally.pop

LEMMA CountWrite ==
  ASSUME Inv, CountInv, NEW t \in Threads, Write(t)
  PROVE  CountInv'
<1>1. /\ pc[t] = "write" /\ seen[t] = list /\ mtx = t
      /\ list \in Seq(Nat) /\ Len(list) \in Nat
      /\ tally \in [{"push", "pop", "added", "popped"} -> Nat]
      /\ Len(list) = tally.push - tally.pop
  BY DEF Write, Inv, TypeOK, OwnerIsInside, Inside, CountInv
<1>2. \A u \in Threads : pc'[u] # "write"
  BY <1>1 DEF Write, Goto, Inv, TypeOK, OwnerIsInside, Inside
<1>3. Len(list') = tally'.push - tally'.pop
  <2>1. CASE op[t] = "push"
    <3>1. list' = Append(list, 0) /\ tally' = [tally EXCEPT !["push"] = @ + 1]
      BY <1>1, <2>1 DEF Write, Count
    <3> QED
      BY <1>1, <3>1
  <2>2. CASE op[t] = "pop" /\ list # <<>>
    <3>1. /\ list' = Front(list)
          /\ tally'.push = tally.push /\ tally'.pop = tally.pop + 1
      BY <1>1, <2>2 DEF Write
    <3>2. Len(Front(list)) = Len(list) - 1
      BY <1>1, <2>2 DEF Front
    <3> QED
      BY <1>1, <3>1, <3>2
  <2>3. CASE op[t] = "add"
    <3>1. /\ list' = [list EXCEPT ![idx[t]] = @ + 1]
          /\ tally' = [tally EXCEPT !["added"] = @ + 1]
      BY <1>1, <2>3 DEF Write, Count
    <3>2. Len(list') = Len(list)
      BY <1>1, <3>1
    <3> QED
      BY <1>1, <3>1, <3>2
  <2>4. CASE op[t] \notin {"push", "add"} /\ ~(op[t] = "pop" /\ list # <<>>)
    <3>1. UNCHANGED <<list, tally>>
      BY <1>1, <2>4 DEF Write
    <3> QED
      BY <1>1, <3>1
  <2> QED
    BY <2>1, <2>2, <2>3, <2>4
<1> QED
  BY <1>2, <1>3 DEF CountInv

LEMMA CountStep == Inv /\ CountInv /\ [Next]_vars => CountInv'
<1> SUFFICES ASSUME Inv, CountInv, [Next]_vars PROVE CountInv'
  OBVIOUS
<1>1. CASE UNCHANGED vars
  BY <1>1 DEF vars, CountInv
<1>2. ASSUME NEW t \in Threads, NEW o \in Ops, NEW i \in Indices(o), Start(t, o, i)
      PROVE  CountInv'
  BY <1>2 DEF Start, Goto, Inv, TypeOK, CountInv
<1>3. ASSUME NEW t \in Threads, Lock(t) \/ Panic(t) \/ EndScan(t) \/ End(t)
      PROVE  CountInv'
  BY <1>3 DEF Lock, Panic, EndScan, End, Goto, Inv, TypeOK, CountInv
<1>4. ASSUME NEW t \in Threads, Read(t)
      PROVE  CountInv'
  BY <1>4 DEF Read, Goto, Inv, TypeOK, CountInv
<1> QED
  BY <1>1, <1>2, <1>3, <1>4, CountWrite DEF Next, AllDead

\* However pushes and pops of the threads interleave, the list is as long as
\* their numbers say.
THEOREM LengthKept == Spec => [](Len(list) = tally.push - tally.pop)
<1>1. Init => CountInv
  BY DEF Init, CountInv
<1>2. CountInv => Len(list) = tally.push - tally.pop
  BY DEF CountInv
<1> QED
  BY <1>1, <1>2, InitInv, Inductive, CountStep, PTL DEF Spec

-----------------------------------------------------------------------------
(* Folding a sum over a list *)

\* A set of naturals has a least element.
LEMMA Least ==
  ASSUME NEW S \in SUBSET Nat, S # {}
  PROVE  \E m \in S : \A k \in S : m =< k
<1> DEFINE R == {ss \in Nat \X Nat : ss[1] < ss[2]}
<1>1. IsWellFoundedOn(R, Nat)
  BY NatLessThanWellFounded DEF OpToRel
<1>2. PICK m \in S : \A k \in S : ~ (<<k, m>> \in R)
  <2> HIDE DEF R
  <2> QED
    BY <1>1, WFMin
<1>3. \A k, n \in S : k < n => <<k, n>> \in R
  OBVIOUS
<1>4. \A k \in S : ~ (k < m)
  BY <1>2, <1>3
<1> QED
  BY <1>4

LEMMA SmallerSubset ==
  ASSUME NEW S, IsFiniteSet(S), NEW t \in SUBSET S
  PROVE  /\ IsFiniteSet(t) /\ Cardinality(t) \in Nat
         /\ Cardinality(t) = 0 <=> t = {}
         /\ \A x \in t : t \ {x} \in SUBSET S /\ Cardinality(t \ {x}) = Cardinality(t) - 1
<1>1. IsFiniteSet(t) /\ Cardinality(t) \in Nat
  BY FS_Subset, FS_CardinalityType
<1>2. Cardinality(t) = 0 <=> t = {}
  BY <1>1, FS_EmptySet
<1>3. \A x \in t : Cardinality(t \ {x}) = Cardinality(t) - 1
  BY <1>1, FS_RemoveElement
<1> QED
  BY <1>1, <1>2, <1>3

\* Induction over the subsets of a finite set.
LEMMA SubsetInduction ==
  ASSUME NEW S, IsFiniteSet(S), NEW T \in SUBSET (SUBSET S),
         \A t \in SUBSET S : (\A x \in t : t \ {x} \in T) => t \in T
  PROVE  T = SUBSET S
<1> SUFFICES ASSUME NEW t \in SUBSET S, t \notin T PROVE FALSE
  OBVIOUS
<1> DEFINE Sizes == {Cardinality(u) : u \in (SUBSET S) \ T}
<1>1. PICK n \in Sizes : \A k \in Sizes : n =< k
  <2>1. Sizes \in SUBSET Nat /\ Sizes # {}
    BY SmallerSubset
  <2> HIDE DEF Sizes
  <2> QED
    BY <2>1, Least
<1>2. PICK u \in (SUBSET S) \ T : Cardinality(u) = n
  BY <1>1
<1>3. PICK x \in u : u \ {x} \notin T
  BY <1>2
<1>4. /\ u \ {x} \in (SUBSET S) \ T
      /\ Cardinality(u \ {x}) = n - 1 /\ n \in Nat
  BY <1>2, <1>3, SmallerSubset
<1>5. n - 1 \in Sizes
  BY <1>4
<1> QED
  BY <1>1, <1>4, <1>5

\* f has a natural for each element of the finite set D.
Weights(f, D) == IsFiniteSet(D) /\ f \in [D -> Nat]

\* FoldSeq takes the elements in an order of its own choice.
Chosen(t) == CHOOSE x \in t : TRUE
Rest(t)   == t \ {Chosen(t)}
SumsUpTo(s, g, t) == g[t] = IF t = {} THEN 0 ELSE s[Chosen(t)] + g[Rest(t)]

Sums(s) == CHOOSE g : g = [t \in SUBSET DOMAIN s |->
                             IF t = {} THEN 0 ELSE s[Chosen(t)] + g[Rest(t)]]

LEMMA TotalIsSums == \A s : Total(s) = Sums(s)[DOMAIN s]
BY DEF Total, FoldSeq, FoldFunction, FoldFunctionOnSet, MapThenFoldSet, Sums, Chosen, Rest

\* The recursion has a solution, by induction on the size of the sets.
LEMMA SumsExist ==
  ASSUME NEW D, NEW f, Weights(f, D)
  PROVE  \E g \in [SUBSET D -> Nat] : \A t \in SUBSET D : SumsUpTo(f, g, t)
<1> USE DEF Weights
<1> DEFINE Solves(g, k) == \A t \in SUBSET D : Cardinality(t) =< k => SumsUpTo(f, g, t)
           Bad == {k \in Nat : ~ \E g \in [SUBSET D -> Nat] : Solves(g, k)}
<1>1. \A t \in SUBSET D : Cardinality(t) \in Nat /\ (Cardinality(t) = 0 <=> t = {})
  BY SmallerSubset
<1>2. ASSUME NEW t \in SUBSET D, t # {}
      PROVE  /\ Rest(t) \in SUBSET D /\ Cardinality(Rest(t)) = Cardinality(t) - 1
             /\ f[Chosen(t)] \in Nat
  <2>1. Chosen(t) \in t
    BY <1>2 DEF Chosen
  <2> QED
    BY <2>1, SmallerSubset DEF Rest
<1>3. Bad = {}
  <2> SUFFICES ASSUME Bad # {} PROVE FALSE
    OBVIOUS
  <2>1. PICK k \in Bad : \A j \in Bad : k =< j
    <3>1. Bad \in SUBSET Nat
      OBVIOUS
    <3> HIDE DEF Bad
    <3> QED
      BY <3>1, Least
  <2>2. CASE k = 0
    <3> DEFINE g == [t \in SUBSET D |-> 0]
    <3>1. g \in [SUBSET D -> Nat] /\ Solves(g, k)
      BY <1>1, <2>2 DEF SumsUpTo
    <3> QED
      BY <2>1, <3>1
  <2>3. CASE k # 0
    <3>1. k - 1 \in Nat /\ k - 1 \notin Bad
      <4>1. k \in Nat /\ k - 1 \in Nat /\ ~(k =< k - 1)
        BY <2>1, <2>3
      <4> QED
        BY <2>1, <4>1
    <3>2. PICK g \in [SUBSET D -> Nat] : Solves(g, k - 1)
      BY <3>1
    <3> DEFINE h == [t \in SUBSET D |->
                       IF Cardinality(t) = k THEN f[Chosen(t)] + g[Rest(t)] ELSE g[t]]
    <3>3. h \in [SUBSET D -> Nat]
      <4> SUFFICES ASSUME NEW t \in SUBSET D, Cardinality(t) = k
                   PROVE  f[Chosen(t)] + g[Rest(t)] \in Nat
        OBVIOUS
      <4>1. t # {}
        BY <1>1, <2>3
      <4> QED
        BY <1>2, <4>1
    <3>4. ASSUME NEW t \in SUBSET D, Cardinality(t) =< k
          PROVE  SumsUpTo(f, h, t)
      <4>1. CASE t = {}
        <5>1. Cardinality(t) = 0 /\ 0 =< k - 1 /\ k # 0
          BY <1>1, <2>3, <3>1, <4>1
        <5> QED
          BY <3>2, <4>1, <5>1 DEF SumsUpTo
      <4>2. CASE t # {} /\ Cardinality(t) = k
        <5>1. Rest(t) \in SUBSET D /\ Cardinality(Rest(t)) # k
          BY <1>2, <2>1, <4>2
        <5> QED
          BY <4>2, <5>1 DEF SumsUpTo
      <4>3. CASE t # {} /\ Cardinality(t) # k
        <5>1. Rest(t) \in SUBSET D /\ Cardinality(Rest(t)) = Cardinality(t) - 1
          BY <1>2, <4>3
        <5>2. Cardinality(t) =< k - 1 /\ Cardinality(Rest(t)) # k
          BY <1>1, <2>1, <3>4, <4>3, <5>1
        <5> QED
          BY <3>2, <4>3, <5>1, <5>2 DEF SumsUpTo
      <4> QED
        BY <4>1, <4>2, <4>3
    <3>5. Solves(h, k)
      <4> HIDE DEF h
      <4> QED
        BY <3>4
    <3> HIDE DEF h, Solves
    <3> QED
      BY <2>1, <3>3, <3>5
  <2> QED
    BY <2>2, <2>3
<1>4. Cardinality(D) \in Nat /\ \A t \in SUBSET D : Cardinality(t) =< Cardinality(D)
  BY <1>1, FS_Subset
<1>5. PICK g \in [SUBSET D -> Nat] : Solves(g, Cardinality(D))
  BY <1>3, <1>4
<1> QED
  BY <1>4, <1>5

LEMMA SumsDef ==
  ASSUME NEW D, NEW f, Weights(f, D)
  PROVE  /\ Sums(f) \in [SUBSET D -> Nat]
         /\ Sums(f)[{}] = 0
         /\ \A t \in SUBSET D : t # {} =>
              /\ Chosen(t) \in t
              /\ Sums(f)[t] = f[Chosen(t)] + Sums(f)[t \ {Chosen(t)}]
<1> DEFINE Eq(g) == g = [t \in SUBSET D |->
                           IF t = {} THEN 0 ELSE f[Chosen(t)] + g[Rest(t)]]
<1>1. PICK g \in [SUBSET D -> Nat] : \A t \in SUBSET D : SumsUpTo(f, g, t)
  BY SumsExist
<1>2. Eq(g)
  BY <1>1 DEF SumsUpTo
<1>3. Eq(Sums(f))
  <2>1. DOMAIN f = D
    BY DEF Weights
  <2>2. Sums(f) = CHOOSE h : Eq(h)
    BY <2>1 DEF Sums
  <2> HIDE DEF Eq
  <2> QED
    BY <1>2, <2>2
<1>4. ASSUME NEW t \in SUBSET D
      PROVE  Sums(f)[t] = IF t = {} THEN 0 ELSE f[Chosen(t)] + Sums(f)[Rest(t)]
  BY <1>3
<1>5. \A t \in SUBSET D : t # {} => Chosen(t) \in t /\ Rest(t) = t \ {Chosen(t)}
  BY DEF Chosen, Rest
<1> DEFINE T == {t \in SUBSET D : Sums(f)[t] \in Nat}
<1>6. ASSUME NEW t \in SUBSET D, \A x \in t : t \ {x} \in T
      PROVE  t \in T
  <2>1. CASE t = {}
    <3>1. Sums(f)[t] = 0
      BY <1>4, <2>1
    <3> QED
      BY <3>1
  <2>2. CASE t # {}
    <3>1. Chosen(t) \in t /\ Rest(t) \in T
      BY <1>5, <1>6, <2>2
    <3>2. f[Chosen(t)] \in Nat /\ Sums(f)[Rest(t)] \in Nat
      BY <3>1 DEF Weights
    <3>3. Sums(f)[t] = f[Chosen(t)] + Sums(f)[Rest(t)]
      BY <1>4, <2>2
    <3> QED
      BY <3>2, <3>3
  <2> QED
    BY <2>1, <2>2
<1>7. T = SUBSET D
  <2>1. T \in SUBSET (SUBSET D)
    OBVIOUS
  <2> HIDE DEF T
  <2> QED
    BY <1>6, <2>1, SubsetInduction DEF Weights
<1>8. Sums(f) \in [SUBSET D -> Nat]
  <2>1. \A t \in SUBSET D : Sums(f)[t] \in Nat
    BY <1>7
  <2>2. Sums(f) = [t \in SUBSET D |-> Sums(f)[t]]
    BY <1>3
  <2> QED
    BY <2>1, <2>2
<1> QED
  BY <1>4, <1>5, <1>8

\* The order does not matter: any element can be taken first.
LEMMA SumsTake ==
  ASSUME NEW D, NEW f, Weights(f, D), NEW t \in SUBSET D, NEW x \in t
  PROVE  Sums(f)[t] = f[x] + Sums(f)[t \ {x}]
<1> DEFINE T == {u \in SUBSET D : \A y \in u : Sums(f)[u] = f[y] + Sums(f)[u \ {y}]}
<1>1. ASSUME NEW u \in SUBSET D, \A y \in u : u \ {y} \in T
      PROVE  u \in T
  <2> SUFFICES ASSUME NEW y \in u PROVE Sums(f)[u] = f[y] + Sums(f)[u \ {y}]
    OBVIOUS
  <2>1. PICK c \in u : Sums(f)[u] = f[c] + Sums(f)[u \ {c}]
    <3>0. u # {}
      OBVIOUS
    <3>1. Chosen(u) \in u /\ Sums(f)[u] = f[Chosen(u)] + Sums(f)[u \ {Chosen(u)}]
      BY <3>0, SumsDef
    <3> QED
      BY <3>1
  <2>2. CASE y = c
    BY <2>1, <2>2
  <2>3. CASE y # c
    <3> DEFINE v == (u \ {c}) \ {y}
    <3>1. Sums(f)[u \ {c}] = f[y] + Sums(f)[v]
      BY <1>1, <2>3
    <3>2. Sums(f)[u \ {y}] = f[c] + Sums(f)[v]
      <4>1. (u \ {y}) \ {c} = v
        OBVIOUS
      <4> QED
        BY <1>1, <2>3, <4>1
    <3>3. f[y] \in Nat /\ f[c] \in Nat /\ Sums(f)[v] \in Nat
      <4>1. Sums(f) \in [SUBSET D -> Nat] /\ v \in SUBSET D
        BY SumsDef
      <4> QED
        BY <4>1 DEF Weights
    <3> HIDE DEF v
    <3> QED
      BY <2>1, <3>1, <3>2, <3>3
  <2> QED
    BY <2>2, <2>3
<1>2. T = SUBSET D
  <2>1. T \in SUBSET (SUBSET D)
    OBVIOUS
  <2> HIDE DEF T
  <2> QED
    BY <1>1, <2>1, SubsetInduction DEF Weights
<1> QED
  BY <1>2

\* Functions that agree on a set have the same sum over it.
LEMMA SumsAgree ==
  ASSUME NEW D, NEW f, Weights(f, D),
         NEW E, NEW g, Weights(g, E),
         NEW S, S \subseteq D, S \subseteq E, \A i \in S : f[i] = g[i]
  PROVE  Sums(f)[S] = Sums(g)[S]
<1> DEFINE T == {t \in SUBSET S : Sums(f)[t] = Sums(g)[t]}
<1>1. IsFiniteSet(S)
  BY FS_Subset DEF Weights
<1>2. ASSUME NEW t \in SUBSET S, \A x \in t : t \ {x} \in T
      PROVE  t \in T
  <2>1. CASE t = {}
    BY <2>1, SumsDef
  <2>2. CASE t # {}
    <3>1. PICK x \in t : TRUE
      BY <2>2
    <3>2. t \in SUBSET D /\ t \in SUBSET E
      OBVIOUS
    <3>3. Sums(f)[t] = f[x] + Sums(f)[t \ {x}]
      BY <3>2, SumsTake
    <3>4. Sums(g)[t] = g[x] + Sums(g)[t \ {x}]
      BY <3>2, SumsTake
    <3>5. Sums(f)[t \ {x}] = Sums(g)[t \ {x}] /\ f[x] = g[x]
      BY <1>2
    <3> QED
      BY <3>3, <3>4, <3>5
  <2> QED
    BY <2>1, <2>2
<1>3. T = SUBSET S
  <2>1. T \in SUBSET (SUBSET S)
    OBVIOUS
  <2> HIDE DEF T
  <2> QED
    BY <1>1, <1>2, <2>1, SubsetInduction
<1> QED
  BY <1>3

\* One element less; one element larger by one.
LEMMA SumsDrop ==
  ASSUME NEW D, NEW f, Weights(f, D), NEW x \in D,
         NEW E, NEW g, Weights(g, E), E = D \ {x}, \A i \in E : f[i] = g[i]
  PROVE  Sums(f)[D] = f[x] + Sums(g)[E] /\ Sums(g)[E] \in Nat /\ f[x] \in Nat
<1>1. Sums(f)[D] = f[x] + Sums(f)[E]
  BY SumsTake
<1>2. Sums(f)[E] = Sums(g)[E]
  BY SumsAgree
<1>3. Sums(g) \in [SUBSET E -> Nat] /\ f[x] \in Nat
  BY SumsDef DEF Weights
<1> QED
  BY <1>1, <1>2, <1>3

LEMMA SumsAdd ==
  ASSUME NEW D, NEW f, Weights(f, D), NEW g, Weights(g, D),
         NEW x \in D, g[x] = f[x] + 1, \A i \in D \ {x} : g[i] = f[i]
  PROVE  Sums(g)[D] = Sums(f)[D] + 1
<1> DEFINE E == D \ {x}
<1>1. Sums(f)[D] = f[x] + Sums(f)[E]
  BY SumsTake
<1>2. Sums(g)[D] = g[x] + Sums(g)[E]
  BY SumsTake
<1>3. Sums(g)[E] = Sums(f)[E]
  BY SumsAgree
<1>4. Sums(f) \in [SUBSET D -> Nat] /\ f[x] \in Nat
  BY SumsDef DEF Weights
<1>5. Sums(f)[E] \in Nat
  BY <1>4
<1> QED
  BY <1>1, <1>2, <1>3, <1>4, <1>5

LEMMA ListFacts ==
  ASSUME NEW s \in Seq(Nat)
  PROVE  /\ Len(s) \in Nat /\ Weights(s, 1..Len(s))
         /\ Total(s) = Sums(s)[1..Len(s)] /\ Total(s) \in Nat
<1>1. Len(s) \in Nat /\ DOMAIN s = 1..Len(s) /\ s \in [1..Len(s) -> Nat]
  OBVIOUS
<1>2. Weights(s, 1..Len(s))
  BY <1>1, FS_Interval DEF Weights
<1>3. Sums(s) \in [SUBSET (1..Len(s)) -> Nat]
  BY <1>2, SumsDef
<1>4. Sums(s)[1..Len(s)] \in Nat
  BY <1>3
<1> QED
  BY <1>1, <1>2, <1>4, TotalIsSums

\* What the three operations that change a list do to its sum: an element more
\* or less at the end, and an element larger by one.
LEMMA TotalLast ==
  ASSUME NEW s \in Seq(Nat), NEW r \in Seq(Nat), Len(s) = Len(r) + 1,
         \A i \in 1..Len(r) : s[i] = r[i]
  PROVE  /\ Total(s) = Total(r) + s[Len(s)]
         /\ Total(r) \in Nat /\ s[Len(s)] \in Nat
<1>1. /\ Weights(s, 1..Len(s)) /\ Weights(r, 1..Len(r))
      /\ Total(s) = Sums(s)[1..Len(s)] /\ Total(r) = Sums(r)[1..Len(r)]
  BY ListFacts
<1>2. 1..Len(r) = (1..Len(s)) \ {Len(s)} /\ Len(s) \in 1..Len(s)
  OBVIOUS
<1>3. /\ Sums(s)[1..Len(s)] = s[Len(s)] + Sums(r)[1..Len(r)]
      /\ Sums(r)[1..Len(r)] \in Nat /\ s[Len(s)] \in Nat
  BY <1>1, <1>2, SumsDrop
<1> QED
  BY <1>1, <1>3

LEMMA TotalAdd ==
  ASSUME NEW s \in Seq(Nat), NEW r \in Seq(Nat), Len(r) = Len(s), NEW i \in 1..Len(s),
         r[i] = s[i] + 1, \A j \in (1..Len(s)) \ {i} : r[j] = s[j]
  PROVE  Total(r) = Total(s) + 1
<1>1. /\ Weights(s, 1..Len(s)) /\ Weights(r, 1..Len(s))
      /\ Total(s) = Sums(s)[1..Len(s)] /\ Total(r) = Sums(r)[1..Len(s)]
  BY ListFacts
<1>2. Sums(r)[1..Len(s)] = Sums(s)[1..Len(s)] + 1
  BY <1>1, SumsAdd
<1> QED
  BY <1>1, <1>2

-----------------------------------------------------------------------------
(* No addition is lost *)

SumInv == Total(list) + tally.popped = tally.added

LEMMA SumWrite ==
  ASSUME Inv, CountInv, SumInv, NEW t \in Threads, Write(t)
  PROVE  SumInv'
<1>1. /\ seen[t] = list /\ list \in Seq(Nat) /\ list' \in Seq(Nat)
      /\ tally \in [{"push", "pop", "added", "popped"} -> Nat]
      /\ Total(list) + tally.popped = tally.added
      /\ Total(list) \in Nat /\ tally.popped \in Nat /\ tally.added \in Nat
  <2>1. list' \in Seq(Nat)
    BY WriteInv DEF Inv, TypeOK
  <2>2. seen[t] = list /\ list \in Seq(Nat)
    BY DEF Write, CountInv, Inv, TypeOK
  <2>3. tally \in [{"push", "pop", "added", "popped"} -> Nat]
    BY DEF Inv, TypeOK
  <2>4. Total(list) \in Nat
    BY <2>2, ListFacts
  <2> QED
    BY <2>1, <2>2, <2>3, <2>4 DEF SumInv
<1>2. CASE op[t] = "push"
  <2>1. list' = Append(list, 0) /\ tally' = [tally EXCEPT !["push"] = @ + 1]
    BY <1>1, <1>2 DEF Write, Count
  <2>2. tally'.popped = tally.popped /\ tally'.added = tally.added
    BY <1>1, <2>1
  <2>3. /\ Len(list') = Len(list) + 1 /\ list'[Len(list')] = 0
        /\ \A i \in 1..Len(list) : list'[i] = list[i]
    BY <1>1, <2>1
  <2>4. Total(list') = Total(list) + list'[Len(list')]
    BY <1>1, <2>3, TotalLast
  <2>5. Total(list') = Total(list)
    BY <1>1, <2>3, <2>4
  <2> QED
    BY <1>1, <2>2, <2>5 DEF SumInv
<1>3. CASE op[t] = "pop" /\ list # <<>>
  <2>1. /\ list' = Front(list)
        /\ tally'.popped = tally.popped + Last(list) /\ tally'.added = tally.added
    BY <1>1, <1>3 DEF Write
  <2>2. /\ Len(list) = Len(list') + 1 /\ Last(list) = list[Len(list)]
        /\ \A i \in 1..Len(list') : list[i] = list'[i]
    <3>1. list' \in Seq(Nat) /\ Len(list') = Len(Front(list))
      BY <1>1, <2>1
    <3>2. \A i \in 1..Len(Front(list)) : Front(list)[i] = list[i]
      BY <1>1, <1>3, FrontLast
    <3>3. Len(list) \in Nat /\ Len(Front(list)) = Len(list) - 1 /\ Last(list) = list[Len(list)]
      BY <1>1, <1>3, FrontLast
    <3> QED
      BY <2>1, <3>1, <3>2, <3>3
  <2>3. /\ Total(list) = Total(list') + list[Len(list)]
        /\ Total(list') \in Nat /\ list[Len(list)] \in Nat
    BY <1>1, <2>2, TotalLast
  <2> QED
    BY <1>1, <2>1, <2>2, <2>3 DEF SumInv
<1>4. CASE op[t] = "add"
  <2>1. /\ list' = [list EXCEPT ![idx[t]] = @ + 1] /\ idx[t] \in DOMAIN list
        /\ tally' = [tally EXCEPT !["added"] = @ + 1]
    BY <1>1, <1>4 DEF Write, Count, Inv, TypeOK
  <2>2. tally'.popped = tally.popped /\ tally'.added = tally.added + 1
    BY <1>1, <2>1
  <2>3. /\ Len(list') = Len(list) /\ idx[t] \in 1..Len(list)
        /\ list'[idx[t]] = list[idx[t]] + 1
        /\ \A j \in (1..Len(list)) \ {idx[t]} : list'[j] = list[j]
    BY <1>1, <2>1
  <2>4. Total(list') = Total(list) + 1
    BY <1>1, <2>3, TotalAdd
  <2> QED
    BY <1>1, <2>2, <2>4 DEF SumInv
<1>5. CASE op[t] \notin {"push", "add"} /\ ~(op[t] = "pop" /\ list # <<>>)
  <2>1. UNCHANGED <<list, tally>>
    BY <1>1, <1>5 DEF Write
  <2> QED
    BY <2>1 DEF SumInv
<1> QED
  BY <1>2, <1>3, <1>4, <1>5

LEMMA SumStep == Inv /\ CountInv /\ SumInv /\ [Next]_vars => SumInv'
<1> SUFFICES ASSUME Inv, CountInv, SumInv, [Next]_vars PROVE SumInv'
  OBVIOUS
<1>1. CASE UNCHANGED <<list, tally>>
  BY <1>1 DEF SumInv
<1>2. ASSUME NEW t \in Threads, NEW o \in Ops, NEW i \in Indices(o), Start(t, o, i)
      PROVE  UNCHANGED <<list, tally>>
  BY <1>2 DEF Start
<1>3. ASSUME NEW t \in Threads,
             Lock(t) \/ Read(t) \/ Panic(t) \/ EndScan(t) \/ End(t)
      PROVE  UNCHANGED <<list, tally>>
  BY <1>3 DEF Lock, Read, Panic, EndScan, End
<1>4. CASE UNCHANGED vars
  BY <1>1, <1>4 DEF vars
<1> QED
  BY <1>1, <1>2, <1>3, <1>4, SumWrite DEF Next, AllDead, vars

\* No push, pop or compound assignment is lost, however the threads interleave:
\* the length of the list and the sum of its elements are what was done to it.
THEOREM NoUpdateLost == Spec => []NothingLost
<1>1. Init => CountInv /\ SumInv
  <2> SUFFICES ASSUME Init PROVE CountInv /\ SumInv
    OBVIOUS
  <2>1. CountInv
    BY DEF Init, CountInv
  <2>2. /\ list \in Seq(Nat) /\ Len(list) = 1 /\ list[1] = 0
        /\ tally.popped = 0 /\ tally.added = 0
    BY DEF Init
  <2>3. PICK s \in Seq(Nat) : Len(s) = 0
    <3>1. <<>> \in Seq(Nat) /\ Len(<<>>) = 0
      OBVIOUS
    <3> QED
      BY <3>1
  <2>4. Total(s) = 0
    <3>1. Weights(s, 1..Len(s)) /\ Total(s) = Sums(s)[1..Len(s)]
      BY ListFacts
    <3>2. 1..Len(s) = {}
      BY <2>3
    <3> QED
      BY <3>1, <3>2, SumsDef
  <2>5. Total(list) = Total(s) + list[Len(list)]
    <3>1. Len(list) = Len(s) + 1 /\ \A i \in 1..Len(s) : list[i] = s[i]
      BY <2>2, <2>3
    <3> QED
      BY <2>2, <3>1, TotalLast
  <2> QED
    BY <2>1, <2>2, <2>4, <2>5 DEF SumInv
<1>2. CountInv /\ SumInv => NothingLost
  BY DEF CountInv, SumInv, NothingLost
<1> QED
  BY <1>1, <1>2, InitInv, Inductive, CountStep, SumStep, PTL DEF Spec

-----------------------------------------------------------------------------
(* The operations as one thread alone would do them, on the list as it is.   *)

Pushes == list' = Append(list, 0)
Pops   == list # <<>> /\ list' = Front(list)
Adds(i) == i \in DOMAIN list /\ list' = [list EXCEPT ![i] = @ + 1]

Alone(t) ==
  /\ mtx = t
  /\ \/ op[t] = "push" /\ Pushes
     \/ op[t] = "pop"  /\ Pops
     \/ op[t] = "add"  /\ Adds(idx[t])

LEMMA WriteAlone ==
  ASSUME Inv, CountInv, NEW t \in Threads, Write(t), list' # list
  PROVE  Alone(t)
<1>1. seen[t] = list /\ mtx = t
  BY DEF Write, CountInv, Inv, OwnerIsInside, Inside
<1>2. CASE op[t] = "push"
  BY <1>1, <1>2 DEF Write, Alone, Pushes
<1>3. CASE op[t] = "pop" /\ list # <<>>
  BY <1>1, <1>3 DEF Write, Alone, Pops
<1>4. CASE op[t] = "add"
  <2>1. idx[t] \in DOMAIN list
    BY <1>1, <1>4 DEF Write, Inv, TypeOK
  <2>2. list' = [list EXCEPT ![idx[t]] = @ + 1]
    BY <1>1, <1>4 DEF Write
  <2> QED
    BY <1>1, <1>4, <2>1, <2>2 DEF Alone, Adds
<1>5. CASE op[t] \notin {"push", "add"} /\ ~(op[t] = "pop" /\ list # <<>>)
  <2>1. list' = list
    BY <1>1, <1>5 DEF Write
  <2> QED
    BY <2>1
<1> QED
  BY <1>2, <1>3, <1>4, <1>5

\* Every change of the container is one push, pop or compound assignment of the thread
\* that holds the mutex, done on the container as it is at that moment: what a thread
\* read, and the index it tested, still hold when it writes, whatever the others do.
THEOREM OperationsAreAtomic == Spec => [][\E t \in Threads : Alone(t)]_list
<1>1. Inv /\ CountInv /\ [Next]_vars => [\E t \in Threads : Alone(t)]_list
  <2> SUFFICES ASSUME Inv, CountInv, [Next]_vars, list' # list
               PROVE  \E t \in Threads : Alone(t)
    OBVIOUS
  <2>1. PICK t \in Threads : Write(t)
    BY DEF Next, Start, Lock, Read, Panic, EndScan, End, AllDead, vars
  <2> QED
    BY <2>1, WriteAlone
<1>2. Init => CountInv
  BY DEF Init, CountInv
<1> QED
  BY <1>1, <1>2, InitInv, Inductive, CountStep, PTL DEF Spec

=============================================================================
