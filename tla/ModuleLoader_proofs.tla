------------------------- MODULE ModuleLoader_proofs -------------------------
(***************************************************************************)
(* For any set of files, any imports between them and any depth limit: what *)
(* resolve_modules loads and when it refuses to.                            *)
(***************************************************************************)
EXTENDS ModuleLoader, WellFoundedInduction, TLAPS

\* A set of naturals has a least element.
LEMMA Least ==
  ASSUME NEW S \in SUBSET Nat, S # {}
  PROVE  \E m \in S : \A k \in S : m =< k
<1> DEFINE R == {ss \in Nat \X Nat : ss[1] < ss[2]}
<1>1. IsWellFoundedOn(R, Nat)
  BY NatLessThanWellFounded DEF OpToRel
<1>2. PICK m \in S : \A k \in S : ~ (<<k, m>> \in R)
  <2> HIDE DEF R
  <2> QED
    BY <1>1, WFMin
<1>3. \A k, n \in S : k < n => <<k, n>> \in R
  OBVIOUS
<1>4. \A k \in S : ~ (k < m)
  BY <1>2, <1>3
<1> QED
  BY <1>4

-----------------------------------------------------------------------------
(* Filter, the loop over the declarations of an imported file *)

KeptAt(kept, s, names, i) ==
  kept[i] = IF i = 0 THEN <<>>
            ELSE IF names = {} \/ s[i] \in names THEN Append(kept[i - 1], s[i])
            ELSE kept[i - 1]

\* What the loop has of s after i rounds.
Sifted(t, s, names, i) ==
  /\ t \in Seq(Decls)
  /\ \A j \in 1..Len(t) : \E m \in 1..i : t[j] = s[m]
  /\ IsInjective(s) => IsInjective(t)
  /\ names = {} => \A m \in 1..i : \E j \in 1..Len(t) : t[j] = s[m]

LEMMA SiftStep ==
  ASSUME NEW s \in Seq(Decls), NEW names, NEW i \in 1..Len(s),
         NEW t, Sifted(t, s, names, i - 1)
  PROVE  /\ Sifted(Append(t, s[i]), s, names, i)
         /\ names # {} => Sifted(t, s, names, i)
<1>1. t \in Seq(Decls) /\ s[i] \in Decls /\ Len(t) \in Nat
  BY DEF Sifted
<1> DEFINE u == Append(t, s[i])
<1>2. /\ u \in Seq(Decls) /\ Len(u) = Len(t) + 1 /\ u[Len(u)] = s[i]
      /\ \A j \in 1..Len(t) : u[j] = t[j]
  BY <1>1
<1>3. ASSUME NEW j \in 1..Len(u) PROVE \E m \in 1..i : u[j] = s[m]
  <2>1. CASE j = Len(u)
    BY <1>2, <2>1
  <2>2. CASE j # Len(u)
    <3>1. j \in 1..Len(t)
      BY <1>1, <1>2, <2>2
    <3>2. PICK m \in 1..(i - 1) : t[j] = s[m]
      BY <3>1 DEF Sifted
    <3> QED
      BY <1>2, <3>1, <3>2
  <2> QED
    BY <2>1, <2>2
<1>4. ASSUME IsInjective(s) PROVE IsInjective(u)
  <2>1. \A a, b \in 1..Len(s) : s[a] = s[b] => a = b
    BY <1>4 DEF IsInjective
  <2>2. \A j \in 1..Len(t) : t[j] # s[i]
    <3> SUFFICES ASSUME NEW j \in 1..Len(t) PROVE t[j] # s[i]
      OBVIOUS
    <3>1. PICK m \in 1..(i - 1) : t[j] = s[m]
      BY DEF Sifted
    <3> QED
      BY <2>1, <3>1
  <2>3. \A a, b \in 1..Len(t) : t[a] = t[b] => a = b
    <3>1. IsInjective(t) /\ DOMAIN t = 1..Len(t)
      BY <1>1, <1>4 DEF Sifted
    <3> QED
      BY <3>1 DEF IsInjective
  <2>4. \A a, b \in 1..Len(u) : u[a] = u[b] => a = b
    <3> HIDE DEF u
    <3> QED
      BY <1>1, <1>2, <2>2, <2>3
  <2>5. DOMAIN u = 1..Len(u)
    BY <1>2
  <2> HIDE DEF u
  <2> QED
    BY <2>4, <2>5 DEF IsInjective
<1>5. ASSUME names = {}, NEW m \in 1..i PROVE \E j \in 1..Len(u) : u[j] = s[m]
  <2>1. CASE m = i
    BY <1>1, <1>2, <2>1
  <2>2. CASE m # i
    <3>1. m \in 1..(i - 1)
      BY <2>2
    <3>2. PICK j \in 1..Len(t) : t[j] = s[m]
      BY <1>5, <3>1 DEF Sifted
    <3>3. j \in 1..Len(u)
      BY <1>1, <1>2
    <3> QED
      BY <1>2, <3>2, <3>3
  <2> QED
    BY <2>1, <2>2
<1>6. Sifted(u, s, names, i)
  <2> HIDE DEF u
  <2> QED
    BY <1>2, <1>3, <1>4, <1>5 DEF Sifted
<1>7. names # {} => Sifted(t, s, names, i)
  BY DEF Sifted
<1> QED
  BY <1>6, <1>7

\* The recursion has a solution.
LEMMA KeptExists ==
  ASSUME NEW s \in Seq(Decls), NEW names
  PROVE  \E kept \in [0..Len(s) -> Seq(Decls)] :
            \A i \in 0..Len(s) : KeptAt(kept, s, names, i)
<1> DEFINE D == 0..Len(s)
           Solves(kept, k) == \A i \in 0..k : KeptAt(kept, s, names, i)
           Bad == {k \in D : ~ \E kept \in [D -> Seq(Decls)] : Solves(kept, k)}
<1>1. Bad = {}
  <2> SUFFICES ASSUME Bad # {} PROVE FALSE
    OBVIOUS
  <2>1. PICK k \in Bad : \A j \in Bad : k =< j
    <3>1. Bad \in SUBSET Nat
      OBVIOUS
    <3> HIDE DEF Bad
    <3> QED
      BY <3>1, Least
  <2>2. CASE k = 0
    <3> DEFINE kept == [i \in D |-> <<>>]
    <3>1. kept \in [D -> Seq(Decls)] /\ Solves(kept, k)
      BY <2>2 DEF KeptAt
    <3> QED
      BY <2>1, <3>1
  <2>3. CASE k # 0
    <3>1. k \in 1..Len(s) /\ k - 1 \in D /\ k - 1 \notin Bad
      <4>1. k \in D /\ Len(s) \in Nat
        BY <2>1
      <4>2. k \in 1..Len(s) /\ k - 1 \in D /\ ~(k =< k - 1)
        BY <2>3, <4>1
      <4> HIDE DEF Bad
      <4> QED
        BY <2>1, <4>2
    <3>2. PICK kept \in [D -> Seq(Decls)] : Solves(kept, k - 1)
      BY <3>1
    <3> DEFINE next == IF names = {} \/ s[k] \in names THEN Append(kept[k - 1], s[k])
                       ELSE kept[k - 1]
               more == [i \in D |-> IF i = k THEN next ELSE kept[i]]
    <3>3. next \in Seq(Decls)
      <4>1. kept[k - 1] \in Seq(Decls)
        BY <3>1, <3>2
      <4>2. s[k] \in Decls
        BY <3>1
      <4>3. Append(kept[k - 1], s[k]) \in Seq(Decls)
        BY <4>1, <4>2
      <4> QED
        BY <4>1, <4>3
    <3>4. more \in [D -> Seq(Decls)]
      BY <3>3
    <3>5. ASSUME NEW i \in 0..k PROVE KeptAt(more, s, names, i)
      <4>1. CASE i = k
        <5>1. more[k] = next /\ more[k - 1] = kept[k - 1] /\ k # 0
          BY <3>1
        <5> QED
          BY <4>1, <5>1 DEF KeptAt
      <4>2. CASE i # k
        <5>1. i \in 0..(k - 1) /\ i \in D /\ (i # 0 => i - 1 \in D /\ i - 1 # k)
          BY <3>1, <4>2
        <5>2. more[i] = kept[i] /\ (i # 0 => more[i - 1] = kept[i - 1])
          BY <4>2, <5>1
        <5>3. KeptAt(kept, s, names, i)
          BY <3>2, <5>1
        <5> HIDE DEF more
        <5> QED
          BY <5>2, <5>3 DEF KeptAt
      <4> QED
        BY <4>1, <4>2
    <3> HIDE DEF more
    <3> QED
      BY <2>1, <3>4, <3>5
  <2> QED
    BY <2>2, <2>3
<1>2. Len(s) \in D
  OBVIOUS
<1>3. \E kept \in [D -> Seq(Decls)] : Solves(kept, Len(s))
  BY <1>1, <1>2
<1> QED
  BY <1>3

LEMMA FilterSifts ==
  ASSUME NEW s \in Seq(Decls), NEW names
  PROVE  Sifted(Filter(s, names), s, names, Len(s))
<1> DEFINE D == 0..Len(s)
           Eq(kept) == kept = [i \in D |->
                          IF i = 0 THEN <<>>
                          ELSE IF names = {} \/ s[i] \in names THEN Append(kept[i - 1], s[i])
                          ELSE kept[i - 1]]
           all == CHOOSE kept : Eq(kept)
           Bad == {i \in D : ~ Sifted(all[i], s, names, i)}
<1>1. Eq(all)
  <2>1. PICK kept \in [D -> Seq(Decls)] : \A i \in D : KeptAt(kept, s, names, i)
    BY KeptExists
  <2>2. Eq(kept)
    BY <2>1 DEF KeptAt
  <2> HIDE DEF Eq
  <2> QED
    BY <2>2
<1>2. Filter(s, names) = all[Len(s)]
  BY DEF Filter
<1> HIDE DEF all
<1>3. \A i \in D : KeptAt(all, s, names, i)
  BY <1>1 DEF KeptAt
<1>4. Bad = {}
  <2> SUFFICES ASSUME Bad # {} PROVE FALSE
    OBVIOUS
  <2>1. PICK k \in Bad : \A j \in Bad : k =< j
    <3>1. Bad \in SUBSET Nat
      OBVIOUS
    <3> HIDE DEF Bad
    <3> QED
      BY <3>1, Least
  <2>2. CASE k = 0
    <3>1. all[0] = <<>>
      BY <1>3, <2>2 DEF KeptAt
    <3>2. Sifted(<<>>, s, names, 0)
      BY DEF Sifted, IsInjective
    <3> QED
      BY <2>1, <2>2, <3>1, <3>2
  <2>3. CASE k # 0
    <3>1. k \in 1..Len(s) /\ k - 1 \in D /\ k - 1 \notin Bad
      <4>1. k \in D /\ Len(s) \in Nat
        BY <2>1
      <4>2. k \in 1..Len(s) /\ k - 1 \in D /\ ~(k =< k - 1)
        BY <2>3, <4>1
      <4> HIDE DEF Bad
      <4> QED
        BY <2>1, <4>2
    <3>2. Sifted(all[k - 1], s, names, k - 1)
      BY <3>1
    <3>3. /\ Sifted(Append(all[k - 1], s[k]), s, names, k)
          /\ names # {} => Sifted(all[k - 1], s, names, k)
      BY <3>1, <3>2, SiftStep
    <3>4. KeptAt(all, s, names, k)
      BY <1>3, <3>1
    <3> QED
      BY <2>1, <2>3, <3>3, <3>4 DEF KeptAt
  <2> QED
    BY <2>2, <2>3
<1>5. Len(s) \in D /\ Len(s) \notin Bad
  BY <1>4
<1> QED
  BY <1>2, <1>5

\* What is spliced in is of what the file has, once; without names it is all of it.
LEMMA FilterFacts ==
  ASSUME NEW s \in Seq(Decls), NEW names
  PROVE  /\ Filter(s, names) \in Seq(Decls)
         /\ ToSet(Filter(s, names)) \subseteq ToSet(s)
         /\ IsInjective(s) => IsInjective(Filter(s, names))
         /\ names = {} => ToSet(s) \subseteq ToSet(Filter(s, names))
<1> DEFINE t == Filter(s, names)
<1>1. Sifted(t, s, names, Len(s))
  BY FilterSifts
<1>2. t \in Seq(Decls) /\ DOMAIN t = 1..Len(t) /\ DOMAIN s = 1..Len(s)
  BY <1>1 DEF Sifted
<1> HIDE DEF t
<1>3. ToSet(t) \subseteq ToSet(s)
  BY <1>1, <1>2 DEF Sifted, ToSet
<1>4. ASSUME names = {}, NEW d \in ToSet(s) PROVE d \in ToSet(t)
  <2>1. PICK m \in 1..Len(s) : d = s[m]
    BY <1>2 DEF ToSet
  <2>2. PICK j \in 1..Len(t) : t[j] = s[m]
    BY <1>1, <1>4 DEF Sifted
  <2> QED
    BY <1>2, <2>1, <2>2 DEF ToSet
<1>5. IsInjective(s) => IsInjective(t)
  BY <1>1 DEF Sifted
<1> QED
  BY <1>2, <1>3, <1>4, <1>5 DEF t

\* One list behind the other.
LEMMA Joined ==
  ASSUME NEW s \in Seq(Decls), NEW t \in Seq(Decls)
  PROVE  /\ s \o t \in Seq(Decls)
         /\ ToSet(s \o t) = ToSet(s) \union ToSet(t)
         /\ IsInjective(s) /\ IsInjective(t) /\ ToSet(s) \intersect ToSet(t) = {} =>
              IsInjective(s \o t)
<1> DEFINE u == s \o t
<1>1. /\ u \in Seq(Decls) /\ Len(s) \in Nat /\ Len(t) \in Nat
      /\ DOMAIN s = 1..Len(s) /\ DOMAIN t = 1..Len(t)
  OBVIOUS
<1>2. DOMAIN u = 1..(Len(s) + Len(t))
  OBVIOUS
<1>3. \A i \in 1..Len(s) : u[i] = s[i]
  OBVIOUS
<1>4. \A i \in 1..(Len(s) + Len(t)) : i > Len(s) => u[i] = t[i - Len(s)]
  OBVIOUS
<1>5. \A i \in 1..Len(t) : u[i + Len(s)] = t[i]
  OBVIOUS
<1> HIDE DEF u
<1>6. ASSUME NEW d \in ToSet(u) PROVE d \in ToSet(s) \union ToSet(t)
  <2>1. PICK i \in 1..(Len(s) + Len(t)) : d = u[i]
    BY <1>2 DEF ToSet
  <2>2. CASE i =< Len(s)
    <3>1. i \in DOMAIN s /\ d = s[i]
      BY <1>1, <1>3, <2>1, <2>2
    <3> QED
      BY <3>1 DEF ToSet
  <2>3. CASE i > Len(s)
    <3>1. i - Len(s) \in DOMAIN t /\ d = t[i - Len(s)]
      BY <1>1, <1>4, <2>1, <2>3
    <3> QED
      BY <3>1 DEF ToSet
  <2> QED
    BY <1>1, <2>2, <2>3
<1>7. ASSUME NEW d \in ToSet(s) PROVE d \in ToSet(u)
  <2>1. PICK i \in 1..Len(s) : d = s[i]
    BY <1>1 DEF ToSet
  <2>2. i \in DOMAIN u /\ d = u[i]
    BY <1>1, <1>2, <1>3, <2>1
  <2> QED
    BY <2>2 DEF ToSet
<1>8. ASSUME NEW d \in ToSet(t) PROVE d \in ToSet(u)
  <2>1. PICK i \in 1..Len(t) : d = t[i]
    BY <1>1 DEF ToSet
  <2>2. i + Len(s) \in DOMAIN u /\ d = u[i + Len(s)]
    BY <1>1, <1>2, <1>5, <2>1
  <2> QED
    BY <2>2 DEF ToSet
<1>9. ASSUME IsInjective(s), IsInjective(t), ToSet(s) \intersect ToSet(t) = {},
             NEW a \in DOMAIN u, NEW b \in DOMAIN u, u[a] = u[b]
      PROVE  a = b
  <2>1. \A i \in 1..Len(s), j \in 1..Len(t) : s[i] # t[j]
    BY <1>1, <1>9 DEF ToSet
  <2>2. CASE a =< Len(s) /\ b =< Len(s)
    <3>1. a \in DOMAIN s /\ b \in DOMAIN s /\ s[a] = s[b]
      BY <1>1, <1>2, <1>3, <1>9, <2>2
    <3> QED
      BY <1>9, <3>1 DEF IsInjective
  <2>3. CASE a > Len(s) /\ b > Len(s)
    <3>1. a - Len(s) \in DOMAIN t /\ b - Len(s) \in DOMAIN t /\ t[a - Len(s)] = t[b - Len(s)]
      BY <1>1, <1>2, <1>4, <1>9, <2>3
    <3>2. a - Len(s) = b - Len(s)
      BY <1>9, <3>1 DEF IsInjective
    <3> QED
      BY <1>1, <1>2, <3>2
  <2>4. CASE a =< Len(s) /\ b > Len(s)
    <3>1. a \in 1..Len(s) /\ b - Len(s) \in 1..Len(t) /\ u[a] = s[a] /\ u[b] = t[b - Len(s)]
      BY <1>1, <1>2, <1>3, <1>4, <2>4
    <3> QED
      BY <1>9, <2>1, <3>1
  <2>5. CASE a > Len(s) /\ b =< Len(s)
    <3>1. b \in 1..Len(s) /\ a - Len(s) \in 1..Len(t) /\ u[b] = s[b] /\ u[a] = t[a - Len(s)]
      BY <1>1, <1>2, <1>3, <1>4, <2>5
    <3> QED
      BY <1>9, <2>1, <3>1
  <2> QED
    BY <1>1, <1>2, <2>2, <2>3, <2>4, <2>5
<1>10. ToSet(u) = ToSet(s) \union ToSet(t)
  BY <1>6, <1>7, <1>8
<1>11. IsInjective(s) /\ IsInjective(t) /\ ToSet(s) \intersect ToSet(t) = {} => IsInjective(u)
  BY <1>9 DEF IsInjective
<1> QED
  BY <1>1, <1>10, <1>11 DEF u

-----------------------------------------------------------------------------
(* The stack of calls *)

Frames == [file : Paths, pos : Nat, out : Seq(Decls)]

StackInv ==
  /\ uses \in [Paths -> Seq(Imports)]
  /\ stack \in Seq(Frames)
  /\ \A i \in 1..Len(stack) : stack[i].pos >= 1
  /\ program \in Seq(Decls)
  /\ given \in {Root, Bare} /\ given \in visited /\ visited \subseteq Paths

\* The calls are those of a chain of imports that starts at the command's, no file of
\* which occurs twice.
ChainInv ==
  /\ Len(stack) \in 1..(MaxDepth + 1)
  /\ stack[1].file = given
  /\ \A i \in 1..Len(stack) : stack[i].file \in visited
  /\ \A i, j \in 1..Len(stack) : stack[i].file = stack[j].file => i = j
  /\ \A i \in 1..(Len(stack) - 1) :
       /\ stack[i].pos \in 1..Len(uses[stack[i].file])
       /\ uses[stack[i].file][stack[i].pos].mod = stack[i + 1].file

LEMMA ImportFields ==
  ASSUME NEW u \in Imports
  PROVE  u.mod \in Files /\ u.mod \in Paths
BY SelectiveAssumption DEF Imports, Import, Files

LEMMA UseFacts ==
  ASSUME StackInv, NEW f \in Paths
  PROVE  /\ Len(uses[f]) \in Nat /\ DOMAIN uses[f] = 1..Len(uses[f])
         /\ \A p \in 1..Len(uses[f]) : uses[f][p].mod \in UsesOf(f) /\ uses[f][p].mod \in Paths
         /\ UsesOf(f) \subseteq Files /\ UsesOf(f) \subseteq Paths
<1>1. uses[f] \in Seq(Imports)
  BY DEF StackInv
<1>2. Len(uses[f]) \in Nat /\ DOMAIN uses[f] = 1..Len(uses[f])
  BY <1>1
<1>3. \A p \in 1..Len(uses[f]) : uses[f][p].mod \in Files /\ uses[f][p].mod \in Paths
  BY <1>1, ImportFields
<1> QED
  BY <1>2, <1>3 DEF UsesOf

LEMMA FrameFacts ==
  ASSUME StackInv, NEW i \in 1..Len(stack)
  PROVE  stack[i].file \in Paths /\ stack[i].pos \in Nat /\ stack[i].pos >= 1 /\ stack[i].out \in Seq(Decls)
<1>1. stack[i] \in Frames
  BY DEF StackInv
<1> QED
  BY <1>1 DEF Frames, StackInv

LEMMA TopFacts ==
  ASSUME StackInv, ChainInv
  PROVE  /\ Len(stack) \in Nat /\ Len(stack) >= 1 /\ Len(stack) \in 1..Len(stack) /\ 1 \in 1..Len(stack)
         /\ Top = stack[Len(stack)]
BY DEF ChainInv, Top, Last, StackInv

LEMMA AtUseFacts ==
  ASSUME StackInv, ChainInv, AtUse
  PROVE  /\ Top.pos \in 1..Len(uses[Top.file]) /\ Top.file \in Paths
         /\ Current.mod \in Paths /\ Current.mod \in UsesOf(Top.file)
         /\ Current.mod = uses[Top.file][Top.pos].mod
<1>1. Top.file \in Paths /\ Top.pos \in Nat /\ Top.pos >= 1
  BY TopFacts, FrameFacts
<1>2. Top.pos \in 1..Len(uses[Top.file])
  BY <1>1, UseFacts DEF AtUse
<1> QED
  BY <1>1, <1>2, UseFacts DEF Current

LEMMA SkipFacts ==
  ASSUME StackInv, ChainInv, SkipVisited
  PROVE  /\ stack' \in Seq(Frames) /\ Len(stack') = Len(stack)
         /\ \A i \in 1..Len(stack) : stack'[i].file = stack[i].file /\ stack'[i].out = stack[i].out
         /\ \A i \in 1..(Len(stack) - 1) : stack'[i].pos = stack[i].pos
         /\ stack'[Len(stack)].pos = stack[Len(stack)].pos + 1
<1> DEFINE n == Len(stack)
           changed == [stack[n] EXCEPT !.pos = @ + 1]
<1>1. stack \in Seq(Frames) /\ n \in 1..n /\ n \in Nat /\ stack[n] \in Frames
  BY TopFacts DEF StackInv
<1>2. stack' = [stack EXCEPT ![n] = changed]
  BY DEF SkipVisited
<1>3. /\ changed \in Frames /\ changed.file = stack[n].file /\ changed.out = stack[n].out
      /\ changed.pos = stack[n].pos + 1
  BY <1>1 DEF Frames
<1> HIDE DEF changed
<1>4. stack' \in Seq(Frames) /\ Len(stack') = n
  BY <1>1, <1>2, <1>3
<1>5. stack'[n] = changed /\ \A i \in 1..n : i # n => stack'[i] = stack[i]
  BY <1>1, <1>2
<1> HIDE DEF n
<1>6. \A i \in 1..(n - 1) : i \in 1..n /\ i # n
  BY <1>1
<1>7. \A i \in 1..n : stack'[i].file = stack[i].file /\ stack'[i].out = stack[i].out
  BY <1>3, <1>5
<1>8. \A i \in 1..(n - 1) : stack'[i].pos = stack[i].pos
  BY <1>5, <1>6
<1> QED
  BY <1>3, <1>4, <1>5, <1>7, <1>8 DEF n

LEMMA DescendFacts ==
  ASSUME StackInv, ChainInv, Descend
  PROVE  /\ stack' \in Seq(Frames) /\ Len(stack') = Len(stack) + 1
         /\ \A i \in 1..Len(stack) : stack'[i] = stack[i]
         /\ stack'[Len(stack) + 1] = Frame(Current.mod)
<1>1. stack \in Seq(Frames) /\ stack' = Append(stack, Frame(Current.mod))
  BY DEF StackInv, Descend
<1>2. Frame(Current.mod) \in Frames
  BY AtUseFacts DEF Frame, Frames, Descend
<1> QED
  BY <1>1, <1>2

\* What a call hands back.
Brought(f, pos) == Filter(Top.out \o Own(Top.file), uses[f][pos].names)

LEMMA OwnFacts ==
  ASSUME NEW f \in Paths
  PROVE  /\ Own(f) \in Seq(Decls) /\ IsInjective(Own(f))
         /\ ToSet(Own(f)) = {d \in Decls : d.file = f}
<1> DEFINE a == [file |-> f, name |-> "f"]
           b == [file |-> f, name |-> "g"]
<1>1. Own(f) = <<a, b>> /\ a \in Decls /\ b \in Decls /\ a # b
  BY DEF Own, Decls
<1>2. {d \in Decls : d.file = f} = {a, b}
  BY DEF Decls
<1> HIDE DEF a, b
<1>3. Own(f) \in Seq(Decls) /\ DOMAIN Own(f) = {1, 2} /\ Own(f)[1] = a /\ Own(f)[2] = b
  BY <1>1
<1>4. IsInjective(Own(f))
  BY <1>1, <1>3 DEF IsInjective
<1>5. ToSet(Own(f)) = {a, b}
  BY <1>3 DEF ToSet
<1> QED
  BY <1>2, <1>3, <1>4, <1>5

LEMMA ReturnFacts ==
  ASSUME StackInv, ChainInv, Return, NEW n, n = Len(stack) - 1
  PROVE  /\ n \in Nat /\ n >= 1 /\ n \in 1..Len(stack) /\ n + 1 \in 1..Len(stack) /\ Len(stack) = n + 1
         /\ stack' \in Seq(Frames) /\ Len(stack') = n
         /\ \A i \in 1..(n - 1) : stack'[i] = stack[i]
         /\ stack'[n].file = stack[n].file /\ stack'[n].pos = stack[n].pos + 1
         /\ stack'[n].out = stack[n].out \o Brought(stack[n].file, stack[n].pos)
         /\ Top = stack[n + 1] /\ Top.file \in Paths /\ Top.out \in Seq(Decls)
         /\ Top.out \o Own(Top.file) \in Seq(Decls)
         /\ Brought(stack[n].file, stack[n].pos) \in Seq(Decls)
<1>1. /\ n \in Nat /\ n >= 1 /\ n \in 1..Len(stack) /\ n + 1 \in 1..Len(stack) /\ Len(stack) = n + 1
      /\ stack \in Seq(Frames)
  BY TopFacts DEF Return, StackInv
<1>2. Top = stack[n + 1] /\ Top.file \in Paths /\ Top.out \in Seq(Decls)
  BY <1>1, TopFacts, FrameFacts
<1>3. Top.out \o Own(Top.file) \in Seq(Decls)
  BY <1>2, OwnFacts, Joined
<1> DEFINE new == Brought(stack[n].file, stack[n].pos)
<1>4. new \in Seq(Decls)
  BY <1>3, FilterFacts DEF Brought
<1> DEFINE above == Front(stack)
<1>5. above \in Seq(Frames) /\ Len(above) = n /\ \A i \in 1..n : above[i] = stack[i]
  <2>1. above = SubSeq(stack, 1, n)
    BY DEF Front
  <2> HIDE DEF above
  <2>2. Len(SubSeq(stack, 1, n)) = n
    BY <1>1
  <2>3. \A i \in 1..n : SubSeq(stack, 1, n)[i] = stack[i]
    BY <1>1
  <2>4. SubSeq(stack, 1, n) \in Seq(Frames)
    BY <1>1
  <2> QED
    BY <2>1, <2>2, <2>3, <2>4
<1>6. Last(above) = above[n]
  BY <1>5 DEF Last
<1> DEFINE call == [stack[n] EXCEPT !.pos = @ + 1, !.out = @ \o new]
<1>7. stack' = [above EXCEPT ![n] = call]
  <2>1. stack' = [above EXCEPT ![Len(above)] = [Last(above) EXCEPT !.pos = @ + 1,
                    !.out = @ \o Brought(Last(above).file, Last(above).pos)]]
    BY DEF Return, Brought
  <2>2. Len(above) = n /\ Last(above) = stack[n]
    BY <1>1, <1>5, <1>6
  <2> HIDE DEF above
  <2> QED
    BY <2>1, <2>2
<1>8. call \in Frames /\ call.file = stack[n].file /\ call.pos = stack[n].pos + 1 /\ call.out = stack[n].out \o new
  <2>1. stack[n] \in Frames
    BY <1>1
  <2>2. stack[n].out \o new \in Seq(Decls)
    BY <1>1, <1>4, FrameFacts, Joined
  <2> HIDE DEF new
  <2>3. call = [file |-> stack[n].file, pos |-> stack[n].pos + 1, out |-> stack[n].out \o new]
    <3>1. PICK f \in Paths, p \in Nat, o \in Seq(Decls) :
            stack[n] = [file |-> f, pos |-> p, out |-> o]
      BY <2>1 DEF Frames
    <3> DEFINE old == [file |-> f, pos |-> p, out |-> o]
               one == [old EXCEPT !.pos = p + 1]
    <3>2. one = [file |-> f, pos |-> p + 1, out |-> o]
      OBVIOUS
    <3>3. call = [one EXCEPT !.out = o \o new]
      BY <3>1
    <3> HIDE DEF one, call
    <3>4. call = [file |-> f, pos |-> p + 1, out |-> o \o new]
      BY <3>2, <3>3
    <3> QED
      BY <3>1, <3>4
  <2>4. stack[n].file \in Paths /\ stack[n].pos + 1 \in Nat
    BY <2>1 DEF Frames
  <2> HIDE DEF call
  <2> QED
    BY <2>2, <2>3, <2>4 DEF Frames
<1> HIDE DEF call, above, new
<1>9. stack' \in Seq(Frames) /\ Len(stack') = n
  BY <1>1, <1>5, <1>7, <1>8
<1>10. stack'[n] = call /\ \A i \in 1..n : i # n => stack'[i] = above[i]
  BY <1>1, <1>5, <1>7
<1>11. \A i \in 1..(n - 1) : stack'[i] = stack[i]
  <2>1. \A i \in 1..(n - 1) : i \in 1..n /\ i # n
    BY <1>1
  <2> QED
    BY <1>5, <1>10, <2>1
<1> QED
  BY <1>1, <1>2, <1>3, <1>4, <1>8, <1>9, <1>10, <1>11 DEF new

LEMMA ChainSkip ==
  ASSUME StackInv, ChainInv, SkipVisited
  PROVE  StackInv' /\ ChainInv'
<1>1. UNCHANGED <<given, uses, visited, program>> /\ Len(stack) \in Nat
  BY TopFacts DEF SkipVisited
<1>2. \A i \in 1..Len(stack') : stack'[i].pos >= 1
  <2> SUFFICES ASSUME NEW i \in 1..Len(stack) PROVE stack'[i].pos >= 1
    BY SkipFacts
  <2>1. stack[i].pos \in Nat /\ stack[i].pos >= 1
    BY FrameFacts
  <2>2. i = Len(stack) \/ i \in 1..(Len(stack) - 1)
    BY <1>1
  <2> QED
    BY <2>1, <2>2, SkipFacts
<1>3. StackInv'
  BY <1>1, <1>2, SkipFacts DEF StackInv
<1>4. \A i \in 1..(Len(stack) - 1) : i \in 1..Len(stack) /\ i + 1 \in 1..Len(stack)
  BY <1>1
<1>5. ChainInv'
  <2>1. Len(stack') = Len(stack) /\ \A i \in 1..Len(stack) : stack'[i].file = stack[i].file
    BY SkipFacts
  <2>2. \A i \in 1..(Len(stack) - 1) : stack'[i].pos = stack[i].pos
    BY SkipFacts
  <2>3. 1 \in 1..Len(stack)
    BY TopFacts
  <2> QED
    BY <1>1, <1>4, <2>1, <2>2, <2>3 DEF ChainInv
<1> QED
  BY <1>3, <1>5

LEMMA ChainDescend ==
  ASSUME StackInv, ChainInv, Descend
  PROVE  StackInv' /\ ChainInv'
<1> DEFINE n == Len(stack)
           m == Current.mod
<1>1. /\ UNCHANGED <<given, uses, program>> /\ visited' = visited \union {m} /\ m \notin visited
      /\ n =< MaxDepth /\ n \in Nat /\ n >= 1 /\ AtUse
  BY TopFacts DEF Descend
<1>2. /\ m \in Paths /\ stack[n].pos \in 1..Len(uses[stack[n].file])
      /\ m = uses[stack[n].file][stack[n].pos].mod
  BY <1>1, AtUseFacts, TopFacts
<1>3. stack'[n + 1].file = m /\ stack'[n + 1].pos = 1
  BY DescendFacts DEF Frame
<1>4. /\ Len(stack') = n + 1 /\ \A i \in 1..n : stack'[i] = stack[i]
      /\ stack' \in Seq(Frames)
  BY DescendFacts
<1> HIDE DEF m, n
<1>5. \A i \in 1..(n + 1) : i = n + 1 \/ i \in 1..n
  BY <1>1
<1>6. StackInv'
  <2>1. \A i \in 1..(n + 1) : stack'[i].pos >= 1
    BY <1>3, <1>4, <1>5 DEF StackInv, n
  <2> QED
    BY <1>1, <1>2, <1>4, <2>1 DEF StackInv
<1>7. ChainInv'
  <2>1. Len(stack') \in 1..(MaxDepth + 1)
    BY <1>1, <1>4, BoundsAssumption
  <2>2. stack'[1].file = given'
    BY <1>1, <1>4 DEF ChainInv
  <2>3. \A i \in 1..(n + 1) : stack'[i].file \in visited'
    BY <1>1, <1>3, <1>4, <1>5 DEF ChainInv, n
  <2>4. ASSUME NEW i \in 1..(n + 1), NEW j \in 1..(n + 1), stack'[i].file = stack'[j].file
        PROVE  i = j
    <3>1. \A k \in 1..n : stack'[k].file # m
      BY <1>1, <1>4 DEF ChainInv, n
    <3> QED
      BY <1>3, <1>4, <1>5, <2>4, <3>1 DEF ChainInv, n
  <2>5. ASSUME NEW i \in 1..n
        PROVE  /\ stack'[i].pos \in 1..Len(uses[stack'[i].file])
               /\ uses[stack'[i].file][stack'[i].pos].mod = stack'[i + 1].file
    <3>1. CASE i = n
      BY <1>2, <1>3, <1>4, <3>1
    <3>2. CASE i # n
      <4>1. i \in 1..(n - 1) /\ i + 1 \in 1..n
        BY <1>1, <3>2
      <4> QED
        BY <1>4, <4>1 DEF ChainInv, n
    <3> QED
      BY <3>1, <3>2
  <2>6. n + 1 - 1 = n
    BY <1>1
  <2> QED
    BY <1>1, <1>4, <2>1, <2>2, <2>3, <2>4, <2>5, <2>6 DEF ChainInv
<1> QED
  BY <1>6, <1>7

LEMMA ChainReturn ==
  ASSUME StackInv, ChainInv, Return
  PROVE  StackInv' /\ ChainInv'
<1> DEFINE n == Len(stack) - 1
<1>1. /\ n \in Nat /\ n >= 1 /\ Len(stack) = n + 1 /\ stack' \in Seq(Frames) /\ Len(stack') = n
      /\ \A i \in 1..(n - 1) : stack'[i] = stack[i]
      /\ stack'[n].file = stack[n].file /\ stack'[n].pos = stack[n].pos + 1
  BY ReturnFacts
<1>2. UNCHANGED <<given, uses, visited, program>>
  BY DEF Return
<1> HIDE DEF n
<1>3. \A i \in 1..n : (i = n \/ i \in 1..(n - 1)) /\ i \in 1..Len(stack)
  BY <1>1
<1>4. \A i \in 1..n : stack'[i].file = stack[i].file
  BY <1>1, <1>3
<1>5. StackInv'
  <2>1. ASSUME NEW i \in 1..n PROVE stack'[i].pos >= 1
    <3>1. stack[i].pos \in Nat /\ stack[i].pos >= 1
      BY <1>3, FrameFacts
    <3> QED
      BY <1>1, <1>3, <3>1
  <2> QED
    BY <1>1, <1>2, <2>1 DEF StackInv
<1>6. ChainInv'
  <2>1. Len(stack') \in 1..(MaxDepth + 1) /\ 1 \in 1..n
    BY <1>1, BoundsAssumption DEF ChainInv
  <2>2. ASSUME NEW i \in 1..(n - 1)
        PROVE  stack'[i] = stack[i] /\ i \in 1..(Len(stack) - 1) /\ i + 1 \in 1..n /\ i \in 1..n
    BY <1>1
  <2> QED
    BY <1>1, <1>2, <1>3, <1>4, <2>1, <2>2 DEF ChainInv
<1> QED
  BY <1>5, <1>6

LEMMA FinishFacts ==
  ASSUME StackInv, ChainInv, Finish
  PROVE  /\ Len(stack) = 1 /\ Top = stack[1] /\ Top.file = given /\ Top.out \in Seq(Decls)
         /\ Top.pos \in Nat /\ Top.pos > Len(uses[given])
         /\ program' = Top.out \o Own(given) /\ program' \in Seq(Decls)
         /\ UNCHANGED <<given, uses, broken, visited, stack>> /\ status' \in {"loaded", "redefined"}
<1>1. Len(stack) = 1 /\ Top = stack[1] /\ 1 \in 1..Len(stack)
  BY TopFacts DEF Finish
<1>2. Top.file = given /\ Top.out \in Seq(Decls) /\ Top.pos \in Nat
  BY <1>1, FrameFacts DEF ChainInv
<1>3. program' = Top.out \o Own(given) /\ Top.pos > Len(uses[given])
  BY <1>2 DEF Finish, AtEnd
<1>4. program' \in Seq(Decls)
  <2>1. given \in Paths
    BY FilesAssumption DEF StackInv
  <2> QED
    BY <1>2, <1>3, <2>1, OwnFacts, Joined
<1> QED
  BY <1>1, <1>2, <1>3, <1>4 DEF Finish

\* The actions that end a load.
LEMMA ChainEnds ==
  ASSUME StackInv, ChainInv, Fail \/ TooDeep \/ Finish
  PROVE  StackInv' /\ ChainInv'
<1>1. UNCHANGED <<given, uses, stack>> /\ visited \subseteq visited'
  BY DEF Fail, TooDeep, Finish
<1>2. visited' \subseteq Paths
  BY AtUseFacts DEF Fail, TooDeep, Finish, StackInv
<1>3. program' \in Seq(Decls)
  BY FinishFacts DEF Fail, TooDeep, StackInv
<1> QED
  BY <1>1, <1>2, <1>3 DEF StackInv, ChainInv

LEMMA ChainStep ==
  ASSUME StackInv, ChainInv, Load
  PROVE  StackInv' /\ ChainInv'
BY ChainSkip, ChainDescend, ChainReturn, ChainEnds DEF Load

-----------------------------------------------------------------------------
(* A file is loaded once *)

\* What the calls hold so far is of files that are resolved, each declaration in
\* one place.
OnceInv ==
  /\ \A i \in 1..Len(stack) : IsInjective(stack[i].out)
  /\ \A i \in 1..Len(stack) : \A d \in ToSet(stack[i].out) :
       d.file \in visited /\ \A j \in 1..Len(stack) : stack[j].file # d.file
  /\ \A i, j \in 1..Len(stack) : i # j => ToSet(stack[i].out) \intersect ToSet(stack[j].out) = {}
  /\ IsInjective(program)
  /\ \A d \in ToSet(program) : d.file \in visited

LEMMA OnceSkip ==
  ASSUME StackInv, ChainInv, OnceInv, SkipVisited
  PROVE  OnceInv'
<1>1. UNCHANGED <<given, uses, visited, program>>
  BY DEF SkipVisited
<1>2. Len(stack') = Len(stack) /\
      \A i \in 1..Len(stack) : stack'[i].file = stack[i].file /\ stack'[i].out = stack[i].out
  BY SkipFacts
<1> QED
  BY <1>1, <1>2 DEF OnceInv

LEMMA OnceDescend ==
  ASSUME StackInv, ChainInv, OnceInv, Descend
  PROVE  OnceInv'
<1> DEFINE n == Len(stack)
           m == Current.mod
<1>1. /\ UNCHANGED program /\ visited' = visited \union {m} /\ m \notin visited /\ n \in Nat
  BY TopFacts DEF Descend
<1>2. /\ Len(stack') = n + 1 /\ \A i \in 1..n : stack'[i] = stack[i]
      /\ stack'[n + 1].file = m /\ stack'[n + 1].out = <<>>
  BY DescendFacts DEF Frame
<1>3. IsInjective(<<>>) /\ ToSet(<<>>) = {}
  BY DEF IsInjective, ToSet
<1> HIDE DEF m, n
<1>4. \A i \in 1..(n + 1) : i = n + 1 \/ i \in 1..n
  BY <1>1
<1>5. \A i \in 1..(n + 1) : IsInjective(stack'[i].out)
  BY <1>2, <1>3, <1>4 DEF OnceInv, n
<1>6. ASSUME NEW i \in 1..(n + 1), NEW d \in ToSet(stack'[i].out)
      PROVE  d.file \in visited' /\ \A j \in 1..(n + 1) : stack'[j].file # d.file
  <2>1. i \in 1..n
    BY <1>2, <1>3, <1>4, <1>6
  <2>2. d.file \in visited /\ \A j \in 1..n : stack[j].file # d.file
    BY <1>2, <1>6, <2>1 DEF OnceInv, n
  <2> QED
    BY <1>1, <1>2, <1>4, <2>2
<1>7. ASSUME NEW i \in 1..(n + 1), NEW j \in 1..(n + 1), i # j
      PROVE  ToSet(stack'[i].out) \intersect ToSet(stack'[j].out) = {}
  <2>1. CASE i = n + 1 \/ j = n + 1
    BY <1>2, <1>3, <2>1
  <2>2. CASE i \in 1..n /\ j \in 1..n
    BY <1>2, <1>7, <2>2 DEF OnceInv, n
  <2> QED
    BY <1>4, <2>1, <2>2
<1> QED
  BY <1>1, <1>2, <1>5, <1>6, <1>7 DEF OnceInv

LEMMA OnceReturn ==
  ASSUME StackInv, ChainInv, OnceInv, Return
  PROVE  OnceInv'
<1> DEFINE n == Len(stack) - 1
           new == Brought(stack[n].file, stack[n].pos)
           old == stack[n].out
<1>1. /\ n \in Nat /\ n >= 1 /\ Len(stack) = n + 1 /\ Len(stack') = n
      /\ n \in 1..Len(stack) /\ n + 1 \in 1..Len(stack)
      /\ \A i \in 1..(n - 1) : stack'[i] = stack[i]
      /\ stack'[n].file = stack[n].file /\ stack'[n].out = old \o new
      /\ Top = stack[n + 1] /\ Top.file \in Paths /\ Top.out \in Seq(Decls)
      /\ Top.out \o Own(Top.file) \in Seq(Decls) /\ new \in Seq(Decls)
  BY ReturnFacts
<1>2. UNCHANGED <<given, uses, visited, program>>
  BY DEF Return
<1>3. old \in Seq(Decls)
  BY <1>1, FrameFacts
<1>4. ToSet(new) \subseteq ToSet(Top.out) \union {d \in Decls : d.file = Top.file}
  <2>1. ToSet(Top.out \o Own(Top.file)) = ToSet(Top.out) \union {d \in Decls : d.file = Top.file}
    BY <1>1, OwnFacts, Joined
  <2>2. ToSet(new) \subseteq ToSet(Top.out \o Own(Top.file))
    <3> DEFINE whole == Top.out \o Own(Top.file)
    <3>1. whole \in Seq(Decls) /\ new = Filter(whole, uses[stack[n].file][stack[n].pos].names)
      BY <1>1 DEF Brought
    <3> HIDE DEF whole, new
    <3>2. ToSet(new) \subseteq ToSet(whole)
      BY <3>1, FilterFacts
    <3> QED
      BY <3>2 DEF whole
  <2> QED
    BY <2>1, <2>2
<1>5. IsInjective(new)
  <2>1. ToSet(Top.out) \intersect ToSet(Own(Top.file)) = {}
    <3>1. \A d \in ToSet(Top.out) : d.file # Top.file
      BY <1>1 DEF OnceInv
    <3> QED
      BY <1>1, <3>1, OwnFacts
  <2>2. IsInjective(Top.out) /\ IsInjective(Own(Top.file)) /\ Own(Top.file) \in Seq(Decls)
    BY <1>1, OwnFacts DEF OnceInv
  <2>3. IsInjective(Top.out \o Own(Top.file))
    BY <1>1, <2>1, <2>2, Joined
  <2> QED
    BY <1>1, <2>3, FilterFacts DEF Brought
<1> HIDE DEF new
<1>6. \A i \in 1..n : (i = n \/ i \in 1..(n - 1)) /\ i \in 1..Len(stack) /\ i # n + 1
  BY <1>1
\* What comes in is of files that no remaining call is of, and nowhere else.
<1>7. ASSUME NEW d \in ToSet(new)
      PROVE  /\ d.file \in visited /\ \A j \in 1..n : stack[j].file # d.file
             /\ \A j \in 1..n : d \notin ToSet(stack[j].out)
  <2>1. CASE d \in ToSet(Top.out)
    BY <1>1, <1>6, <2>1 DEF OnceInv
  <2>2. CASE d.file = Top.file
    BY <1>1, <1>6, <2>2 DEF OnceInv, ChainInv
  <2> QED
    BY <1>4, <2>1, <2>2
<1>8. IsInjective(old \o new) /\ ToSet(old \o new) = ToSet(old) \union ToSet(new)
  <2>1. IsInjective(old)
    BY <1>1 DEF OnceInv
  <2>2. ToSet(old) \intersect ToSet(new) = {}
    <3>1. n \in 1..n
      BY <1>1
    <3> QED
      BY <1>7, <3>1
  <2> QED
    BY <1>1, <1>3, <1>5, <2>1, <2>2, Joined
<1>9. \A i \in 1..n : stack'[i].file = stack[i].file
  BY <1>1, <1>6
<1>10. ASSUME NEW i \in 1..n, NEW d \in ToSet(stack'[i].out)
       PROVE  d \in ToSet(stack[i].out) \/ (i = n /\ d \in ToSet(new))
  BY <1>1, <1>6, <1>8, <1>10
<1>11. \A i \in 1..n : IsInjective(stack'[i].out)
  BY <1>1, <1>6, <1>8 DEF OnceInv
<1>12. ASSUME NEW i \in 1..n, NEW d \in ToSet(stack'[i].out)
       PROVE  d.file \in visited /\ \A j \in 1..n : stack'[j].file # d.file
  <2>1. CASE d \in ToSet(stack[i].out)
    BY <1>6, <1>9, <2>1 DEF OnceInv
  <2>2. CASE d \in ToSet(new)
    BY <1>7, <1>9, <2>2
  <2> QED
    BY <1>10, <1>12, <2>1, <2>2
<1>13. ASSUME NEW i \in 1..n, NEW j \in 1..n, i # j, NEW d \in ToSet(stack'[i].out),
              d \in ToSet(stack'[j].out)
       PROVE  FALSE
  <2>1. ~ (d \in ToSet(stack[i].out) /\ d \in ToSet(stack[j].out))
    BY <1>6, <1>13 DEF OnceInv
  <2> QED
    BY <1>7, <1>10, <1>13, <2>1
<1> QED
  BY <1>1, <1>2, <1>11, <1>12, <1>13 DEF OnceInv

LEMMA OnceFinish ==
  ASSUME StackInv, ChainInv, OnceInv, Finish
  PROVE  OnceInv'
<1>1. /\ Len(stack) = 1 /\ Top = stack[1] /\ Top.file = given /\ Top.out \in Seq(Decls)
      /\ program' = Top.out \o Own(given) /\ UNCHANGED <<visited, stack>>
  BY FinishFacts
<1>2. IsInjective(Top.out) /\ \A d \in ToSet(Top.out) : d.file # given
  <2>1. 1 \in 1..Len(stack)
    BY <1>1
  <2> QED
    BY <1>1, <2>1 DEF OnceInv
<1>3. Own(given) \in Seq(Decls) /\ IsInjective(Own(given)) /\ \A d \in ToSet(Own(given)) : d.file = given
  BY OwnFacts DEF StackInv
<1>4. IsInjective(program') /\ ToSet(program') = ToSet(Top.out) \union ToSet(Own(given))
  BY <1>1, <1>2, <1>3, Joined
<1>5. \A d \in ToSet(program') : d.file \in visited
  <2>1. 1 \in 1..Len(stack) /\ given \in visited
    BY <1>1 DEF StackInv
  <2> QED
    BY <1>1, <1>3, <1>4, <2>1 DEF OnceInv
<1> QED
  BY <1>1, <1>4, <1>5 DEF OnceInv

LEMMA OnceStep ==
  ASSUME StackInv, ChainInv, OnceInv, Load
  PROVE  OnceInv'
<1>1. CASE Fail \/ TooDeep
  <2>1. UNCHANGED <<stack, program>> /\ visited \subseteq visited'
    BY <1>1 DEF Fail, TooDeep
  <2> QED
    BY <2>1 DEF OnceInv
<1> QED
  BY <1>1, OnceSkip, OnceDescend, OnceReturn, OnceFinish DEF Load

-----------------------------------------------------------------------------
(* What is visited is needed *)

LEMMA NeededFacts ==
  ASSUME StackInv
  PROVE  /\ given \in Needed /\ (Bare \in Needed => given = Bare)
         /\ \A f \in Needed : UsesOf(f) \subseteq Needed
         /\ \A C \in SUBSET Paths : given \in C /\ Closed(C) => Needed \subseteq C
<1>1. given \in Needed
  BY FilesAssumption DEF StackInv, Needed, Reach
<1>2. ASSUME NEW f \in Needed, NEW g \in UsesOf(f) PROVE g \in Needed
  <2>1. f \in Paths /\ g \in Paths
    BY <1>2, UseFacts DEF Needed, Reach
  <2>2. ASSUME NEW C \in SUBSET Paths, {given} \subseteq C, Closed(C) PROVE g \in C
    <3>1. f \in C
      BY <2>2 DEF Needed, Reach
    <3> QED
      BY <2>2, <3>1 DEF Closed
  <2> QED
    BY <2>1, <2>2 DEF Needed, Reach
<1>3. ASSUME NEW C \in SUBSET Paths, given \in C, Closed(C) PROVE Needed \subseteq C
  BY <1>3 DEF Needed, Reach
<1>4. ASSUME given # Bare PROVE Bare \notin Needed
  <2>1. Files \in SUBSET Paths /\ Bare \notin Files /\ given \in Files
    BY <1>4, FilesAssumption DEF Files, StackInv
  <2>2. Closed(Files)
    BY <2>1, UseFacts DEF Closed
  <2> QED
    BY <1>3, <2>1, <2>2
<1> QED
  BY <1>1, <1>2, <1>3, <1>4

\* Two declarations of needed files that are one in the source, under two paths.
LEMMA CopiesOf ==
  ASSUME StackInv, NEW d \in Decls, NEW e \in Decls, d # e, Copies(d, e),
         d.file \in Needed, e.file \in Needed
  PROVE  FileOf(d.file) = Root /\ NamedTwice
<1>1. d.file # e.file
  BY DEF Copies, Decls
<1>2. {d.file, e.file} = {Root, Bare}
  BY <1>1 DEF Copies, FileOf
<1> QED
  BY <1>2, NeededFacts DEF NamedTwice, FileOf

\* The same of two places of a program no declaration of which occurs twice.
LEMMA CopiesOfFile ==
  ASSUME StackInv, NEW decls \in Seq(Decls), IsInjective(decls),
         \A d \in ToSet(decls) : d.file \in Needed,
         NEW i \in DOMAIN decls, NEW j \in DOMAIN decls, i # j,
         Copies(decls[i], decls[j])
  PROVE  FileOf(decls[i].file) = Root /\ NamedTwice
<1>1. decls[i] # decls[j]
  BY DEF IsInjective
<1>2. decls[i] \in Decls /\ decls[j] \in Decls
  OBVIOUS
<1>3. decls[i].file \in Needed /\ decls[j].file \in Needed
  BY DEF ToSet
<1> QED
  BY <1>1, <1>2, <1>3, CopiesOf

LEMMA NeededSame ==
  ASSUME UNCHANGED <<given, uses>>
  PROVE  Needed' = Needed /\ \A f : UsesOf(f)' = UsesOf(f)
BY DEF Needed, Reach, Closed, UsesOf

NeededInv == visited \subseteq Needed /\ FailureHasCause

LEMMA NeededStep ==
  ASSUME StackInv, ChainInv, NeededInv, OnceInv', Load, status = "loading"
  PROVE  NeededInv'
<1>1. UNCHANGED <<given, uses, broken>>
  BY DEF Load, SkipVisited, Fail, Descend, TooDeep, Return, Finish
<1>2. Needed' = Needed /\ \A f : UsesOf(f)' = UsesOf(f)
  BY <1>1, NeededSame
<1>3. ASSUME AtUse PROVE Current.mod \in Needed
  <2>1. Top.file \in visited
    BY TopFacts DEF ChainInv
  <2> QED
    BY <1>3, <2>1, AtUseFacts, NeededFacts DEF NeededInv
<1>4. visited' \subseteq Needed
  BY <1>3 DEF NeededInv, Load, SkipVisited, Fail, Descend, TooDeep, Return, Finish
<1>5. CASE SkipVisited \/ Descend \/ Return
  <2>1. status' \notin {"missing", "tooDeep", "redefined"}
    BY <1>5 DEF SkipVisited, Descend, Return
  <2> QED
    BY <1>2, <1>4, <2>1 DEF NeededInv, FailureHasCause
<1>8. CASE Finish
  <2>1. /\ status' = (IF Redefined(program') THEN "redefined" ELSE "loaded")
        /\ program' \in Seq(Decls)
    BY <1>8, FinishFacts DEF Finish
  <2>2. IsInjective(program') /\ \A d \in ToSet(program') : d.file \in Needed
    BY <1>4 DEF OnceInv
  <2>3. ASSUME Redefined(program') PROVE NamedTwice
    <3>1. PICK i \in DOMAIN program', j \in DOMAIN program' :
            i # j /\ Copies(program'[i], program'[j])
      BY <2>3 DEF Redefined
    <3>2. PICK decls : decls = program'
      OBVIOUS
    <3> QED
      BY <2>1, <2>2, <3>1, <3>2, CopiesOfFile
  <2>4. NamedTwice' <=> NamedTwice
    BY <1>1, <1>2 DEF NamedTwice
  <2> QED
    BY <1>2, <1>4, <2>1, <2>3, <2>4 DEF NeededInv, FailureHasCause
<1>6. CASE Fail
  <2>1. status' = "missing" /\ Current.mod \in broken \intersect Needed
    BY <1>3, <1>6 DEF Fail
  <2>2. (broken \intersect Needed)' # {}
    BY <1>1, <1>2, <2>1
  <2> QED
    BY <1>2, <1>4, <2>1, <2>2 DEF NeededInv, FailureHasCause
<1>7. CASE TooDeep
  <2> DEFINE n == MaxDepth + 1
             chain == [i \in 1..(MaxDepth + 2) |-> IF i = n + 1 THEN Current.mod ELSE stack[i].file]
  <2>1. /\ status' = "tooDeep" /\ AtUse /\ Current.mod \notin visited
        /\ Len(stack) = n /\ n \in Nat /\ n + 1 = MaxDepth + 2
    <3>1. MaxDepth \in Nat /\ Len(stack) > MaxDepth /\ Len(stack) \in 1..(MaxDepth + 1)
      BY <1>7, BoundsAssumption DEF TooDeep, ChainInv
    <3>2. Len(stack) = n /\ n \in Nat /\ n + 1 = MaxDepth + 2
      BY <3>1
    <3> QED
      BY <1>7, <3>2 DEF TooDeep
  <2> HIDE DEF n
  <2>2. /\ \A i \in 1..n : chain[i] = stack[i].file /\ i \in 1..(n + 1)
        /\ chain[n + 1] = Current.mod
        /\ \A i \in 1..(n + 1) : i = n + 1 \/ i \in 1..n
    BY <2>1
  <2>3. DOMAIN chain = 1..(n + 1)
    BY <2>1
  <2>4. \A i \in 1..(n + 1) : chain[i] \in Needed
    BY <1>3, <2>1, <2>2 DEF ChainInv, NeededInv
  <2>5. chain \in [1..(MaxDepth + 2) -> Needed]
    BY <2>1, <2>4
  <2>6. IsInjective(chain)
    <3>1. \A i \in 1..n : stack[i].file \in visited
      BY <2>1 DEF ChainInv
    <3>2. ASSUME NEW i \in 1..(n + 1), NEW j \in 1..(n + 1), chain[i] = chain[j] PROVE i = j
      <4> HIDE DEF chain
      <4>1. \A k \in 1..n : chain[k] # chain[n + 1]
        BY <2>1, <2>2, <3>1
      <4>2. \A k, l \in 1..n : stack[k].file = stack[l].file => k = l
        BY <2>1 DEF ChainInv
      <4> QED
        BY <2>2, <3>2, <4>1, <4>2
    <3> HIDE DEF chain
    <3> QED
      BY <2>3, <3>2 DEF IsInjective
  <2>7. ASSUME NEW i \in 1..n PROVE chain[i + 1] \in UsesOf(chain[i])
    <3>1. CASE i = n
      <4>1. chain[i + 1] = Current.mod /\ chain[i] = Top.file
        BY <2>1, <2>2, <3>1, TopFacts
      <4> QED
        BY <2>1, <4>1, AtUseFacts
    <3>2. CASE i # n
      <4>1. i \in 1..(n - 1) /\ i + 1 \in 1..n
        BY <2>1, <3>2
      <4>2. /\ stack[i].pos \in 1..Len(uses[stack[i].file])
            /\ uses[stack[i].file][stack[i].pos].mod = stack[i + 1].file
        BY <2>1, <4>1 DEF ChainInv
      <4>3. stack[i].file \in Paths
        BY <2>1, FrameFacts
      <4>4. stack[i + 1].file \in UsesOf(stack[i].file)
        BY <4>2, <4>3, UseFacts
      <4> QED
        BY <2>2, <4>1, <4>4
    <3> QED
      BY <3>1, <3>2
  <2>8. \E c \in [1..(MaxDepth + 2) -> Needed'] :
          IsInjective(c) /\ \A i \in 1..(MaxDepth + 1) : c[i + 1] \in UsesOf(c[i])'
    <3> HIDE DEF chain
    <3> QED
      BY <1>2, <2>5, <2>6, <2>7 DEF n
  <2> QED
    BY <1>2, <1>4, <2>1, <2>8 DEF NeededInv, FailureHasCause
<1> QED
  BY <1>5, <1>6, <1>7, <1>8 DEF Load

-----------------------------------------------------------------------------
(* What is needed is loaded *)

Whole == \A f \in Paths : \A i \in DOMAIN uses[f] : uses[f][i].names = {}
Resolved(f) == f \in visited /\ \A i \in 1..Len(stack) : stack[i].file # f

\* A resolved file has its imports loaded and its declarations with some call;
\* a call has loaded the imports it is past.
FoundInv ==
  /\ status = "loading" =>
       /\ \A f \in Paths : Resolved(f) => UsesOf(f) \subseteq visited
       /\ \A i \in 1..Len(stack) : \A p \in 1..Len(uses[stack[i].file]) :
            p < stack[i].pos => uses[stack[i].file][p].mod \in visited
       /\ Whole => \A d \in Decls : Resolved(d.file) =>
            \E i \in 1..Len(stack) : d \in ToSet(stack[i].out)
  /\ LoadsReachable

LEMMA Unfinished == ~ Merged => LoadsReachable
BY DEF LoadsReachable

LEMMA FoundSkip ==
  ASSUME StackInv, ChainInv, FoundInv, status = "loading", SkipVisited
  PROVE  FoundInv'
<1>1. UNCHANGED <<given, uses, visited, status>> /\ AtUse /\ Current.mod \in visited
  BY DEF SkipVisited
<1>2. /\ Len(stack') = Len(stack) /\ Len(stack) \in Nat
      /\ \A i \in 1..Len(stack) : stack'[i].file = stack[i].file /\ stack'[i].out = stack[i].out
      /\ \A i \in 1..(Len(stack) - 1) : stack'[i].pos = stack[i].pos
      /\ stack'[Len(stack)].pos = stack[Len(stack)].pos + 1
  BY SkipFacts, TopFacts
<1>3. \A f : Resolved(f)' <=> Resolved(f)
  BY <1>1, <1>2 DEF Resolved
<1>4. Whole' <=> Whole
  BY <1>1 DEF Whole
<1>5. \A f : UsesOf(f)' = UsesOf(f)
  BY <1>1, NeededSame
<1>6. ASSUME NEW i \in 1..Len(stack), NEW p \in 1..Len(uses[stack[i].file]), p < stack'[i].pos
      PROVE  uses[stack[i].file][p].mod \in visited
  <2>1. CASE p < stack[i].pos
    BY <1>1, <2>1 DEF FoundInv
  <2>2. CASE ~(p < stack[i].pos)
    <3>1. stack[i].pos \in Nat /\ Len(uses[stack[i].file]) \in Nat
      BY FrameFacts, UseFacts
    <3>2. i = Len(stack) \/ i \in 1..(Len(stack) - 1)
      BY <1>2
    <3>3. i = Len(stack) /\ p = stack[i].pos
      BY <1>2, <1>6, <2>2, <3>1, <3>2
    <3> QED
      BY <1>1, <3>3, AtUseFacts, TopFacts
  <2> QED
    BY <2>1, <2>2
<1>7. LoadsReachable'
  BY <1>1 DEF LoadsReachable, Merged
<1>8. \A f \in Paths : Resolved(f)' => UsesOf(f)' \subseteq visited'
  BY <1>1, <1>3, <1>5 DEF FoundInv
<1>9. Whole' => \A d \in Decls : Resolved(d.file)' =>
        \E i \in 1..Len(stack') : d \in ToSet(stack'[i].out)
  BY <1>1, <1>2, <1>3, <1>4 DEF FoundInv
<1> QED
  BY <1>1, <1>2, <1>6, <1>7, <1>8, <1>9 DEF FoundInv

LEMMA FoundDescend ==
  ASSUME StackInv, ChainInv, FoundInv, status = "loading", Descend
  PROVE  FoundInv'
<1> DEFINE n == Len(stack)
           m == Current.mod
<1>1. UNCHANGED <<given, uses, status>> /\ visited' = visited \union {m} /\ n \in Nat
  BY TopFacts DEF Descend
<1>2. /\ Len(stack') = n + 1 /\ \A i \in 1..n : stack'[i] = stack[i]
      /\ stack'[n + 1].file = m /\ stack'[n + 1].pos = 1
  BY DescendFacts DEF Frame
<1> HIDE DEF m
<1>3. \A i \in 1..(n + 1) : i = n + 1 \/ i \in 1..n
  BY <1>1
<1>4. \A i \in 1..n : i \in 1..(n + 1)
  BY <1>1
<1>5. \A f : Resolved(f)' => Resolved(f)
  <2> SUFFICES ASSUME NEW f, Resolved(f)' PROVE Resolved(f)
    OBVIOUS
  <2>1. f \in visited' /\ \A i \in 1..(n + 1) : stack'[i].file # f
    BY <1>2 DEF Resolved
  <2>2. f # m
    BY <1>1, <1>2, <2>1
  <2> QED
    BY <1>1, <1>2, <1>4, <2>1, <2>2 DEF Resolved
<1>6. Whole' <=> Whole
  BY <1>1 DEF Whole
<1>7. \A f : UsesOf(f)' = UsesOf(f)
  BY <1>1, NeededSame
<1>8. \A f \in Paths : Resolved(f)' => UsesOf(f)' \subseteq visited'
  BY <1>1, <1>5, <1>7 DEF FoundInv
<1>9. ASSUME NEW i \in 1..(n + 1), NEW p \in 1..Len(uses[stack'[i].file]), p < stack'[i].pos
      PROVE  uses[stack'[i].file][p].mod \in visited'
  <2>1. CASE i = n + 1
    <3>1. p < 1 /\ p >= 1 /\ p \in Int
      BY <1>2, <1>9, <2>1
    <3> QED
      BY <3>1
  <2>2. CASE i \in 1..n
    BY <1>1, <1>2, <1>9, <2>2 DEF FoundInv
  <2> QED
    BY <1>3, <2>1, <2>2
<1>10. ASSUME Whole', NEW d \in Decls, Resolved(d.file)'
       PROVE  \E i \in 1..Len(stack') : d \in ToSet(stack'[i].out)
  <2>1. PICK i \in 1..n : d \in ToSet(stack[i].out)
    BY <1>5, <1>6, <1>10 DEF FoundInv
  <2> QED
    BY <1>2, <1>4, <2>1
<1>11. LoadsReachable'
  BY <1>1 DEF LoadsReachable, Merged
<1> QED
  BY <1>1, <1>2, <1>8, <1>9, <1>10, <1>11 DEF FoundInv

LEMMA FoundReturn ==
  ASSUME StackInv, ChainInv, FoundInv, status = "loading", Return
  PROVE  FoundInv'
<1> DEFINE n == Len(stack) - 1
           f0 == stack[n].file
           new == Brought(f0, stack[n].pos)
<1>1. /\ n \in Nat /\ n >= 1 /\ n \in 1..Len(stack) /\ n + 1 \in 1..Len(stack)
      /\ Len(stack) = n + 1 /\ Len(stack') = n
      /\ \A i \in 1..(n - 1) : stack'[i] = stack[i]
      /\ stack'[n].file = f0 /\ stack'[n].pos = stack[n].pos + 1
      /\ stack'[n].out = stack[n].out \o new
      /\ Top = stack[n + 1] /\ Top.file \in Paths /\ Top.out \in Seq(Decls)
      /\ Top.out \o Own(Top.file) \in Seq(Decls) /\ new \in Seq(Decls)
  BY ReturnFacts
<1>2. UNCHANGED <<given, uses, visited, status>> /\ AtEnd
  BY DEF Return
<1>3. stack[n].out \in Seq(Decls) /\ f0 \in Paths /\ stack[n].pos \in Nat
  BY <1>1, FrameFacts
<1>4. ToSet(stack'[n].out) = ToSet(stack[n].out) \union ToSet(new)
  BY <1>1, <1>3, Joined
<1>5. Whole => ToSet(Top.out) \union ToSet(Own(Top.file)) \subseteq ToSet(new)
  <2> SUFFICES ASSUME Whole PROVE ToSet(Top.out) \union ToSet(Own(Top.file)) \subseteq ToSet(new)
    OBVIOUS
  <2> DEFINE whole == Top.out \o Own(Top.file)
             names == uses[f0][stack[n].pos].names
  <2>1. n \in 1..(Len(stack) - 1)
    BY <1>1
  <2>2. stack[n].pos \in DOMAIN uses[f0]
    BY <1>3, <2>1, UseFacts DEF ChainInv
  <2>3. names = {}
    BY <1>3, <2>2 DEF Whole
  <2>4. new = Filter(whole, names) /\ whole \in Seq(Decls)
    BY <1>1 DEF Brought
  <2>5. ToSet(whole) = ToSet(Top.out) \union ToSet(Own(Top.file))
    BY <1>1, OwnFacts, Joined
  <2> HIDE DEF whole, names, new
  <2>6. ToSet(whole) \subseteq ToSet(new)
    BY <2>3, <2>4, FilterFacts
  <2> QED
    BY <2>5, <2>6
<1>6. \A p \in 1..Len(uses[Top.file]) : uses[Top.file][p].mod \in visited
  <2>1. Top.pos \in Nat /\ Top.pos > Len(uses[Top.file]) /\ Len(uses[Top.file]) \in Nat
    BY <1>1, <1>2, FrameFacts, UseFacts DEF AtEnd
  <2>2. \A p \in 1..Len(uses[Top.file]) : p < Top.pos
    BY <2>1
  <2> QED
    BY <1>1, <2>2 DEF FoundInv
<1>7. UsesOf(Top.file) \subseteq visited
  BY <1>1, <1>6, UseFacts DEF UsesOf
<1>8. \A f : UsesOf(f)' = UsesOf(f)
  BY <1>2, NeededSame
<1>9. Whole' <=> Whole
  BY <1>2 DEF Whole
<1> HIDE DEF new
<1>10. \A i \in 1..n : (i = n \/ i \in 1..(n - 1)) /\ i \in 1..Len(stack)
  <2>1. n \in Nat /\ Len(stack) = n + 1
    BY <1>1
  <2> HIDE DEF n
  <2> QED
    BY <2>1
<1>11. \A i \in 1..n : stack'[i].file = stack[i].file
  BY <1>1, <1>10
<1>12. \A f : Resolved(f)' => Resolved(f) \/ f = Top.file
  <2> SUFFICES ASSUME NEW f, Resolved(f)', f # Top.file PROVE Resolved(f)
    OBVIOUS
  <2>1. f \in visited /\ \A i \in 1..n : stack[i].file # f
    BY <1>1, <1>2, <1>11 DEF Resolved
  <2>2. \A i \in 1..(n + 1) : i \in 1..n \/ i = n + 1
    <3>1. n \in Nat
      BY <1>1
    <3> HIDE DEF n
    <3> QED
      BY <3>1
  <2> QED
    BY <1>1, <2>1, <2>2 DEF Resolved
<1>13. \A f \in Paths : Resolved(f)' => UsesOf(f)' \subseteq visited'
  BY <1>2, <1>7, <1>8, <1>12 DEF FoundInv
<1>14. ASSUME NEW i \in 1..n, NEW p \in 1..Len(uses[stack[i].file]), p < stack'[i].pos
       PROVE  uses[stack[i].file][p].mod \in visited
  <2>1. CASE p < stack[i].pos
    BY <1>10, <2>1 DEF FoundInv
  <2>2. CASE ~(p < stack[i].pos)
    <3>1. stack[i].pos \in Nat /\ Len(uses[stack[i].file]) \in Nat
      BY <1>10, FrameFacts, UseFacts
    <3>2. i = n
      BY <1>1, <1>10, <1>14, <2>2
    <3>3. p = stack[n].pos
      BY <1>1, <1>3, <1>14, <2>2, <3>1, <3>2
    <3>4. n \in 1..(Len(stack) - 1)
      BY <1>1
    <3>5. uses[f0][stack[n].pos].mod = stack[n + 1].file
      BY <3>4 DEF ChainInv
    <3> QED
      BY <1>1, <3>2, <3>3, <3>5 DEF ChainInv
  <2> QED
    BY <2>1, <2>2
<1>15. ASSUME Whole', NEW d \in Decls, Resolved(d.file)'
       PROVE  \E i \in 1..n : d \in ToSet(stack'[i].out)
  <2>1. n \in 1..n
    BY <1>1
  <2>2. CASE d.file = Top.file
    <3>1. d \in ToSet(Own(Top.file))
      BY <1>1, <2>2, OwnFacts
    <3> QED
      BY <1>4, <1>5, <1>9, <1>15, <2>1, <3>1
  <2>3. CASE d.file # Top.file
    <3>1. PICK i \in 1..(n + 1) : d \in ToSet(stack[i].out)
      BY <1>1, <1>9, <1>12, <1>15, <2>3 DEF FoundInv
    <3>2. CASE i = n + 1
      <4>1. d \in ToSet(Top.out)
        BY <1>1, <3>1, <3>2
      <4> QED
        BY <1>4, <1>5, <1>9, <1>15, <2>1, <4>1
    <3>3. CASE i = n
      <4>1. d \in ToSet(stack[n].out)
        BY <3>1, <3>3
      <4> QED
        BY <1>4, <2>1, <4>1
    <3>4. CASE i \in 1..(n - 1)
      <4>1. i \in 1..n
        BY <1>1, <3>4
      <4>2. stack'[i] = stack[i]
        BY <1>1, <3>4
      <4>3. d \in ToSet(stack'[i].out)
        BY <3>1, <4>2
      <4> QED
        BY <4>1, <4>3
    <3>5. i = n + 1 \/ i = n \/ i \in 1..(n - 1)
      <4>1. n \in Nat
        BY <1>1
      <4> HIDE DEF n
      <4> QED
        BY <4>1
    <3> QED
      BY <3>2, <3>3, <3>4, <3>5
  <2> QED
    BY <2>2, <2>3
<1>16. LoadsReachable'
  BY <1>2 DEF LoadsReachable, Merged
<1> QED
  BY <1>1, <1>2, <1>11, <1>13, <1>14, <1>15, <1>16 DEF FoundInv

LEMMA FoundFinish ==
  ASSUME StackInv, ChainInv, OnceInv, NeededInv, FoundInv, status = "loading", Finish
  PROVE  FoundInv'
<1>1. /\ Len(stack) = 1 /\ Top = stack[1] /\ Top.file = given /\ Top.out \in Seq(Decls)
      /\ Top.pos \in Nat /\ Top.pos > Len(uses[given])
      /\ program' = Top.out \o Own(given) /\ program' \in Seq(Decls)
      /\ UNCHANGED <<given, uses, visited, stack>> /\ status' \in {"loaded", "redefined"}
  BY FinishFacts
<1>2. 1 \in 1..Len(stack) /\ \A i \in 1..Len(stack) : i = 1
  BY <1>1
<1>3. \A f \in visited : f # given => Resolved(f)
  BY <1>1, <1>2 DEF Resolved
<1>4. Closed(visited)
  <2> SUFFICES ASSUME NEW f \in visited PROVE UsesOf(f) \subseteq visited
    BY DEF Closed
  <2>1. CASE f = given
    <3>1. Len(uses[given]) \in Nat /\ DOMAIN uses[given] = 1..Len(uses[given])
      BY UseFacts
    <3>2. \A p \in 1..Len(uses[given]) : p < Top.pos
      BY <1>1, <3>1
    <3>3. \A p \in 1..Len(uses[given]) : uses[given][p].mod \in visited
      BY <1>1, <1>2, <3>2 DEF FoundInv
    <3> QED
      BY <2>1, <3>1, <3>3 DEF UsesOf
  <2>2. CASE f # given
    BY <1>3, <2>2 DEF FoundInv, StackInv
  <2> QED
    BY <2>1, <2>2
<1>5. visited = Needed
  BY <1>4, NeededFacts DEF NeededInv, StackInv
<1>6. ToSet(program') = ToSet(Top.out) \union {d \in Decls : d.file = given}
  <2>1. given \in Paths
    BY FilesAssumption DEF StackInv
  <2> QED
    BY <1>1, <2>1, OwnFacts, Joined
<1>7. ASSUME Whole PROVE ToSet(program') = {d \in Decls : d.file \in Needed}
  <2>1. ASSUME NEW d \in ToSet(Top.out) PROVE d \in Decls /\ d.file \in Needed
    <3>1. d \in Decls
      BY <1>1, <2>1 DEF ToSet
    <3>2. d.file \in visited
      BY <1>1, <1>2, <2>1 DEF OnceInv
    <3> QED
      BY <1>5, <3>1, <3>2
  <2>2. ASSUME NEW d \in Decls, d.file \in Needed, d.file # given PROVE d \in ToSet(Top.out)
    <3>1. Resolved(d.file)
      BY <1>3, <1>5, <2>2
    <3>2. PICK i \in 1..Len(stack) : d \in ToSet(stack[i].out)
      BY <1>7, <3>1 DEF FoundInv
    <3> QED
      BY <1>1, <1>2, <3>2
  <2>3. given \in Needed
    BY NeededFacts
  <2> QED
    BY <1>6, <2>1, <2>2, <2>3
<1>8. Needed' = Needed /\ (Whole' <=> Whole)
  BY <1>1, NeededSame DEF Whole
<1>9. LoadsReachable'
  BY <1>7, <1>8 DEF LoadsReachable, Whole
<1> QED
  BY <1>1, <1>9 DEF FoundInv

LEMMA FoundStep ==
  ASSUME StackInv, ChainInv, OnceInv, NeededInv, FoundInv, status = "loading", Load
  PROVE  FoundInv'
<1>1. CASE Fail \/ TooDeep
  <2>1. status' \notin {"loading", "loaded", "redefined"}
    BY <1>1 DEF Fail, TooDeep
  <2> QED
    BY <2>1 DEF FoundInv, LoadsReachable, Merged
<1> QED
  BY <1>1, FoundSkip, FoundDescend, FoundReturn, FoundFinish DEF Load

-----------------------------------------------------------------------------
(* The theorems *)

Inv == StackInv /\ ChainInv /\ OnceInv /\ NeededInv /\ FoundInv

LEMMA InitInv == Init => Inv
<1> SUFFICES ASSUME Init PROVE Inv
  OBVIOUS
<1>1. /\ stack = <<Frame(given)>> /\ visited = {given} /\ status = "loading" /\ program = <<>>
      /\ given \in {Root, Bare} /\ given \in Paths
  BY FilesAssumption DEF Init
<1>2. Frame(given) \in Frames /\ Frame(given).file = given /\ Frame(given).pos = 1 /\ Frame(given).out = <<>>
  BY <1>1 DEF Frame, Frames
<1>3. stack \in Seq(Frames) /\ Len(stack) = 1 /\ stack[1] = Frame(given) /\ \A i \in 1..1 : i = 1
  BY <1>1, <1>2
<1>4. uses \in [Paths -> Seq(Imports)]
  <2>1. ASSUME NEW s \in UseLists PROVE s \in Seq(Imports)
    <3>1. PICK m \in 0..MaxUses : s \in [1..m -> Imports]
      BY DEF UseLists, BoundedSeq, SeqOf
    <3>2. m \in Nat
      BY BoundsAssumption
    <3> QED
      BY <3>1, <3>2
  <2>2. uses \in [Paths -> UseLists]
    BY DEF Init, Programs
  <2> QED
    BY <2>1, <2>2
<1>5. IsInjective(<<>>) /\ ToSet(<<>>) = {}
  BY DEF IsInjective, ToSet
<1>6. StackInv
  BY <1>1, <1>2, <1>3, <1>4 DEF StackInv
<1>7. ChainInv
  BY <1>1, <1>2, <1>3, BoundsAssumption DEF ChainInv
<1>8. OnceInv
  BY <1>1, <1>2, <1>3, <1>5 DEF OnceInv
<1>9. NeededInv
  BY <1>1, <1>6, NeededFacts DEF NeededInv, FailureHasCause
<1>10. FoundInv
  <2>1. \A f : ~ Resolved(f)
    BY <1>1, <1>2, <1>3 DEF Resolved
  <2>2. ASSUME NEW i \in 1..Len(stack), NEW p \in 1..Len(uses[stack[i].file]), p < stack[i].pos
        PROVE  FALSE
    <3>1. p < 1 /\ p \in Int /\ p >= 1
      BY <1>2, <1>3, <2>2
    <3> QED
      BY <3>1
  <2> QED
    BY <1>1, <2>1, <2>2 DEF FoundInv, LoadsReachable, Merged
<1> QED
  BY <1>6, <1>7, <1>8, <1>9, <1>10 DEF Inv

LEMMA Inductive == Inv /\ [Next]_vars => Inv'
<1> SUFFICES ASSUME Inv, [Next]_vars PROVE Inv'
  OBVIOUS
<1>1. CASE UNCHANGED vars
  <2>1. UNCHANGED <<given, uses, broken, visited, stack, status, program>>
    BY <1>1 DEF vars
  <2>2. Needed' = Needed /\ \A f : UsesOf(f)' = UsesOf(f)
    BY <2>1, NeededSame
  <2>3. StackInv' /\ ChainInv' /\ OnceInv'
    BY <2>1 DEF Inv, StackInv, ChainInv, OnceInv
  <2>4. NeededInv'
    BY <2>1, <2>2 DEF Inv, NeededInv, FailureHasCause, NamedTwice
  <2>5. FoundInv'
    BY <2>1, <2>2 DEF Inv, FoundInv, Resolved, Whole, LoadsReachable, Merged
  <2> QED
    BY <2>3, <2>4, <2>5 DEF Inv
<1>2. CASE Load
  <2>1. status = "loading"
    BY <1>2 DEF Load, SkipVisited, Fail, Descend, TooDeep, Return, Finish, AtUse, AtEnd
  <2> QED
    BY <1>2, <2>1, ChainStep, OnceStep, NeededStep, FoundStep DEF Inv
<1> QED
  BY <1>1, <1>2 DEF Next, Done

\* The variables keep their types; the program that is loaded and what is wrong
\* with its files do not change.
THEOREM TypeCorrect == Spec => []TypeOK
<1> DEFINE Rest == /\ given \in {Root, Bare} /\ uses \in Programs /\ broken \subseteq MayBreak
                   /\ status \in {"loading", "loaded", "missing", "tooDeep", "redefined"}
<1>1. Init => Rest
  BY DEF Init
<1>2. Rest /\ [Next]_vars => Rest'
  BY DEF Next, Load, SkipVisited, Fail, Descend, TooDeep, Return, Finish, Done, vars
<1>3. Inv /\ Rest => TypeOK
  <2> SUFFICES ASSUME Inv, Rest PROVE TypeOK
    OBVIOUS
  <2>1. \A i \in DOMAIN stack : stack[i].file \in visited /\ stack[i].out \in Seq(Decls)
    BY FrameFacts DEF Inv, StackInv, ChainInv
  <2> QED
    BY <2>1 DEF Inv, StackInv, TypeOK
<1> QED
  BY <1>1, <1>2, <1>3, InitInv, Inductive, PTL DEF Spec

\* "a file is only ever loaded once", whatever cycles, diamonds and repeated imports
\* the files of a program of any size form: by path, so that the command's file alone
\* can come twice, when the command names it without a directory and it is imported.
THEOREM FilesLoadedOnce == Spec => []LoadedOnce
<1>1. Inv => LoadedOnce
  <2> SUFFICES ASSUME Inv PROVE LoadedOnce
    OBVIOUS
  <2>1. StackInv /\ IsInjective(program) /\ program \in Seq(Decls)
    BY DEF Inv, OnceInv, StackInv
  <2>2. \A d \in ToSet(program) : d.file \in Needed
    BY DEF Inv, OnceInv, NeededInv
  <2> QED
    BY <2>1, <2>2, CopiesOfFile DEF LoadedOnce
<1> QED
  BY <1>1, InitInv, Inductive, PTL DEF Spec

\* A program whose imports name whole files becomes the declarations of exactly the
\* files that can be reached from its first.
THEOREM ReachableLoaded == Spec => []LoadsReachable
<1>1. Inv => LoadsReachable
  BY DEF Inv, FoundInv
<1> QED
  BY <1>1, InitInv, Inductive, PTL DEF Spec

\* A load fails over a file that is needed and broken, or over a chain of more than
\* MaxDepth imports between different paths; Sema refuses what was merged over no copy
\* of a declaration but one of the command's file, named without a directory.
THEOREM RefusedWithCause == Spec => []FailureHasCause
<1>1. Inv => FailureHasCause
  BY DEF Inv, NeededInv
<1> QED
  BY <1>1, InitInv, Inductive, PTL DEF Spec

-----------------------------------------------------------------------------
(* Why every load ends: the part of LoadEnds that needs no fairness.  Of the *)
(* files, the calls in progress and the imports of the innermost call, the   *)
(* first of them that a step changes gets closer to its end.                 *)

\* The imports the innermost call has still to look at, and its return.
Left == Len(uses[Top.file]) + 1 - Top.pos

MoreVisited == visited \subseteq visited' /\ visited' # visited /\ visited' \subseteq Paths
FewerCalls  == visited' = visited /\ Len(stack') < Len(stack)
FewerUses   == visited' = visited /\ Len(stack') = Len(stack) /\ Left' < Left

Advances == status' # "loading" \/ MoreVisited \/ FewerCalls \/ FewerUses

LEMMA SkipAdvances ==
  ASSUME StackInv, ChainInv, SkipVisited
  PROVE  FewerUses
<1>1. UNCHANGED <<uses, visited>> /\ AtUse
  BY DEF SkipVisited
<1>2. /\ Len(stack') = Len(stack) /\ stack'[Len(stack)].file = Top.file
      /\ stack'[Len(stack)].pos = Top.pos + 1
  BY SkipFacts, TopFacts
<1>3. Top' = stack'[Len(stack)]
  BY <1>2 DEF Top, Last
<1>4. Top.pos \in Nat /\ Top.file \in Paths /\ Len(uses[Top.file]) \in Nat
  BY <1>1, AtUseFacts, UseFacts
<1>5. Left' = Len(uses[Top.file]) + 1 - (Top.pos + 1)
  BY <1>1, <1>2, <1>3 DEF Left
<1> QED
  BY <1>1, <1>2, <1>4, <1>5 DEF FewerUses, Left

LEMMA LoadStep ==
  ASSUME StackInv, ChainInv, Load
  PROVE  Advances
<1>1. CASE SkipVisited
  BY <1>1, SkipAdvances DEF Advances
<1>2. CASE Descend
  BY <1>2, AtUseFacts DEF Descend, Advances, MoreVisited, StackInv
<1>3. CASE Return
  <2>1. PICK n : n = Len(stack) - 1
    OBVIOUS
  <2>2. n \in Nat /\ Len(stack) = n + 1 /\ Len(stack') = n
    BY <1>3, <2>1, ReturnFacts
  <2>3. visited' = visited
    BY <1>3 DEF Return
  <2> QED
    BY <2>2, <2>3 DEF Advances, FewerCalls
<1>4. CASE Fail \/ TooDeep \/ Finish
  BY <1>4 DEF Fail, TooDeep, Finish, Advances
<1> QED
  BY <1>1, <1>2, <1>3, <1>4 DEF Load

\* Every step of a load visits one more of the files, or returns from a call, or takes
\* the innermost call to its next import, or ends the load; a file never leaves
\* `visited` and an import is never looked at again.  As the files, the calls and the
\* imports are finite, no cycle of imports keeps resolve_modules going.
THEOREM LoadAdvances == Spec => [][Advances]_vars
<1>1. Inv /\ [Next]_vars => [Advances]_vars
  BY LoadStep DEF Inv, Next, Done
<1> QED
  BY <1>1, InitInv, Inductive, PTL DEF Spec

=============================================================================
