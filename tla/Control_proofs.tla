---------------------------- MODULE Control_proofs ----------------------------
(***************************************************************************)
(* For any nesting of activations: call_depth_ is the number of calls in    *)
(* progress, however they are left; and a signal stops where the language   *)
(* says it does.                                                            *)
(***************************************************************************)
EXTENDS Control, FiniteSetTheorems, WellFoundedInduction, TLAPS

CallsIn(s) == {i \in 1..Len(s) : s[i].kind = "call"}

LEMMA CallsFinite ==
  ASSUME NEW s \in Seq(Frames)
  PROVE  /\ IsFiniteSet(CallsIn(s))
         /\ Cardinality(CallsIn(s)) \in Nat
<1>1. IsFiniteSet(1..Len(s))
  BY FS_Interval
<1>2. CallsIn(s) \subseteq 1..Len(s)
  BY DEF CallsIn
<1> QED
  BY <1>1, <1>2, FS_Subset, FS_CardinalityType

\* Entering an activation counts it if it is a call.
LEMMA CallsAppend ==
  ASSUME NEW s \in Seq(Frames), NEW f \in Frames
  PROVE  Cardinality(CallsIn(Append(s, f))) =
           Cardinality(CallsIn(s)) + (IF f.kind = "call" THEN 1 ELSE 0)
<1>1. CASE f.kind = "call"
  <2>1. CallsIn(Append(s, f)) = CallsIn(s) \union {Len(s) + 1}
    BY <1>1 DEF CallsIn
  <2>2. Len(s) + 1 \notin CallsIn(s)
    BY DEF CallsIn
  <2> QED
    BY <1>1, <2>1, <2>2, CallsFinite, FS_AddElement
<1>2. CASE f.kind # "call"
  <2>1. CallsIn(Append(s, f)) = CallsIn(s)
    BY <1>2 DEF CallsIn
  <2> QED
    BY <1>2, <2>1, CallsFinite
<1> QED
  BY <1>1, <1>2

\* Leaving one takes it off again.
LEMMA CallsFront ==
  ASSUME NEW s \in Seq(Frames), s # <<>>
  PROVE  /\ Front(s) \in Seq(Frames)
         /\ Last(s) \in Frames
         /\ Cardinality(CallsIn(Front(s))) =
              Cardinality(CallsIn(s)) - (IF Last(s).kind = "call" THEN 1 ELSE 0)
         /\ Last(s).kind = "call" => Cardinality(CallsIn(s)) > 0
<1>1. Len(s) \in Nat \ {0}
  OBVIOUS
<1>2. /\ Front(s) \in Seq(Frames) /\ Len(Front(s)) = Len(s) - 1
      /\ \A i \in 1..(Len(s) - 1) : Front(s)[i] = s[i]
      /\ Last(s) = s[Len(s)] /\ Last(s) \in Frames
  BY <1>1 DEF Front, Last
<1>3. CASE Last(s).kind = "call"
  <2>1. CallsIn(Front(s)) = CallsIn(s) \ {Len(s)} /\ Len(s) \in CallsIn(s)
    BY <1>1, <1>2, <1>3 DEF CallsIn
  <2>2. Cardinality(CallsIn(s) \ {Len(s)}) = Cardinality(CallsIn(s)) - 1
    BY <2>1, CallsFinite, FS_RemoveElement
  <2>3. Cardinality(CallsIn(Front(s))) \in Nat
    BY <1>2, CallsFinite
  <2> QED
    BY <1>2, <1>3, <2>1, <2>2, <2>3, CallsFinite
<1>4. CASE Last(s).kind # "call"
  <2>1. CallsIn(Front(s)) = CallsIn(s)
    BY <1>1, <1>2, <1>4 DEF CallsIn
  <2> QED
    BY <1>2, <1>4, <2>1, CallsFinite
<1> QED
  BY <1>3, <1>4

-----------------------------------------------------------------------------
Inv ==
  /\ stack \in Seq(Frames)
  /\ depth \in 0..MaxDepth
  /\ depth = Cardinality(CallsIn(stack))

LEMMA FrameType ==
  ASSUME NEW k \in Kinds, NEW il \in BOOLEAN, NEW u \in {"stmt", "operand"}
  PROVE  Frame(k, il, u) \in Frames /\ Frame(k, il, u).kind = k
BY DEF Frame, Frames

LEMMA InitInv == Init => Inv
<1> SUFFICES ASSUME Init PROVE Inv
  OBVIOUS
<1>1. PICK k \in Bases, il \in BOOLEAN : stack = <<Frame(k, il, "stmt")>>
  BY DEF Init, BodyInLoop
<1>2. Frame(k, il, "stmt") \in Frames /\ Frame(k, il, "stmt").kind \in Bases
  BY FrameType DEF Kinds, Bodies
<1>3. CallsIn(stack) = {}
  BY <1>1, <1>2 DEF CallsIn, Bases
<1>4. Cardinality(CallsIn(stack)) = 0
  BY <1>3, FS_EmptySet
<1> QED
  BY <1>1, <1>2, <1>4, MaxDepthAssumption DEF Init, Inv

\* An activation that is no call is entered.
LEMMA PushInv ==
  ASSUME Inv, NEW f \in Frames, Push(f),
         depth' = (IF f.kind = "call" THEN depth + 1 ELSE depth),
         f.kind = "call" => depth < MaxDepth
  PROVE  Inv'
<1>1. stack' = Append(stack, f) /\ stack' \in Seq(Frames)
  BY DEF Push, Inv
<1>2. Cardinality(CallsIn(stack')) = Cardinality(CallsIn(stack)) + (IF f.kind = "call" THEN 1 ELSE 0)
  BY <1>1, CallsAppend DEF Inv
<1> QED
  BY <1>1, <1>2, MaxDepthAssumption DEF Inv

\* The innermost activation is left.
LEMMA PopInv ==
  ASSUME Inv, stack # <<>>, Pop,
         depth' = (IF Top.kind = "call" THEN depth - 1 ELSE depth)
  PROVE  Inv'
BY CallsFront, MaxDepthAssumption DEF Inv, Pop, Top

LEMMA SameStackInv ==
  ASSUME Inv, UNCHANGED <<stack, depth>>
  PROVE  Inv'
BY DEF Inv

LEMMA EnterInv ==
  ASSUME Inv, EnterBlock \/ EnterLoop \/ Call \/ CallTooDeep \/ Construct
  PROVE  Inv'
<1> USE DEF Kinds, Bodies, Bases
<1>1. CASE EnterBlock
  <2>1. Top.inLoop \in BOOLEAN
    BY <1>1, CallsFront DEF EnterBlock, Running, Top, Inv, Frames
  <2>2. PICK k \in {"block", "try"} : Push(Frame(k, Top.inLoop, "stmt"))
    BY <1>1 DEF EnterBlock
  <2> QED
    BY <1>1, <2>1, <2>2, FrameType, PushInv DEF EnterBlock
<1>2. CASE EnterLoop
  <2>1. Frame("loop", TRUE, "stmt") \in Frames /\ Frame("loop", TRUE, "stmt").kind = "loop"
    BY FrameType
  <2>2. Push(Frame("loop", TRUE, "stmt")) /\ depth' = depth
    BY <1>2 DEF EnterLoop
  <2> QED
    BY <2>1, <2>2, PushInv
<1>3. CASE Call
  <2>1. PICK il \in BOOLEAN, u \in {"stmt", "operand"} : Push(Frame("call", il, u))
    BY <1>3 DEF Call, BodyInLoop
  <2> QED
    BY <1>3, <2>1, FrameType, PushInv DEF Call
<1>4. CASE CallTooDeep
  BY <1>4, SameStackInv DEF CallTooDeep
<1>5. CASE Construct
  <2>1. PICK il \in BOOLEAN : Push(Frame("init", il, "operand"))
    BY <1>5 DEF Construct, BodyInLoop
  <2> QED
    BY <1>5, <2>1, FrameType, PushInv DEF Construct
<1> QED
  BY <1>1, <1>2, <1>3, <1>4, <1>5

LEMMA LeaveInv ==
  ASSUME Inv, Complete \/ CompleteCall \/ LeaveBlock \/ LoopSignal \/ LeaveCall
              \/ LeaveInit \/ LeaveBase \/ LeaveByException \/ PanicThroughTry
              \/ EndByException
  PROVE  Inv'
<1>1. CASE Complete
  BY <1>1, PopInv DEF Complete, Running
<1>2. CASE CompleteCall
  BY <1>2, PopInv DEF CompleteCall, Running
<1>3. CASE LeaveBlock
  BY <1>3, PopInv DEF LeaveBlock, At
<1>4. CASE LoopSignal
  BY <1>4, PopInv, SameStackInv DEF LoopSignal, At, Values
<1>5. CASE LeaveCall
  BY <1>5, PopInv DEF LeaveCall, At
<1>6. CASE LeaveInit
  BY <1>6, PopInv DEF LeaveInit, At
<1>7. CASE LeaveBase
  BY <1>7, PopInv, SameStackInv DEF LeaveBase, Bases
<1>8. CASE LeaveByException
  BY <1>8, PopInv DEF LeaveByException
<1>9. CASE PanicThroughTry
  BY <1>9, PopInv DEF PanicThroughTry, At
<1>10. CASE EndByException
  BY <1>10, PopInv DEF EndByException, Bases
<1> QED
  BY <1>1, <1>2, <1>3, <1>4, <1>5, <1>6, <1>7, <1>8, <1>9, <1>10

\* The handler's block takes the place of the try: no call comes or goes.
LEMMA CatchInv ==
  ASSUME Inv, CatchThrow
  PROVE  Inv'
<1>1. /\ stack # <<>> /\ Last(stack).kind = "try"
      /\ stack' = [stack EXCEPT ![Len(stack)].kind = "block"]
      /\ depth' = depth
  BY DEF CatchThrow, At, Top
<1>2. Len(stack) \in Nat \ {0} /\ stack[Len(stack)].kind = "try"
  BY <1>1 DEF Inv, Last
<1>3. [stack[Len(stack)] EXCEPT !.kind = "block"] \in Frames
  <2>1. stack[Len(stack)] \in Frames /\ "block" \in Kinds
    BY <1>2 DEF Inv, Kinds
  <2> QED
    BY <2>1 DEF Frames
<1>4. stack' \in Seq(Frames) /\ Len(stack') = Len(stack)
  BY <1>1, <1>2, <1>3 DEF Inv
<1>5. \A i \in 1..Len(stack) : stack'[i].kind = "call" <=> stack[i].kind = "call"
  <2> TAKE i \in 1..Len(stack)
  <2>1. CASE i = Len(stack)
    BY <1>1, <1>2, <1>3, <2>1 DEF Inv, Frames
  <2>2. CASE i # Len(stack)
    BY <1>1, <2>2 DEF Inv
  <2> QED
    BY <2>1, <2>2
<1>6. CallsIn(stack') = CallsIn(stack)
  BY <1>4, <1>5 DEF CallsIn
<1> QED
  BY <1>1, <1>4, <1>6 DEF Inv

LEMMA Inductive == Inv /\ [Next]_vars => Inv'
<1> SUFFICES ASSUME Inv, [Next]_vars PROVE Inv'
  OBVIOUS
<1>1. CASE UNCHANGED vars
  BY <1>1, SameStackInv DEF vars
<1>2. ASSUME NEW sig \in Signals, Raise(sig) PROVE Inv'
  BY <1>2, SameStackInv DEF Raise
<1> QED
  BY <1>1, <1>2, EnterInv, LeaveInv, CatchInv DEF Next, Finished

\* call_depth_ counts the calls in progress, whatever nest of activations they
\* are in and however they are left: by their last statement, a return, a break
\* that leaks, a throw or a panic.  It never exceeds MAX_CALL_DEPTH.
THEOREM DepthIsExact == Spec => [](DepthExact /\ depth \in 0..MaxDepth)
<1>1. Inv => DepthExact /\ depth \in 0..MaxDepth
  BY DEF Inv, DepthExact, Calls, CallsIn
<1> QED
  BY <1>1, InitInv, Inductive, PTL DEF Spec

-----------------------------------------------------------------------------
(* The innermost frame of a kind *)

\* A set of naturals has a least element.
LEMMA Least ==
  ASSUME NEW S \in SUBSET Nat, S # {}
  PROVE  \E m \in S : \A k \in S : m =< k
<1> DEFINE R == {ss \in Nat \X Nat : ss[1] < ss[2]}
<1>1. IsWellFoundedOn(R, Nat)
  BY NatLessThanWellFounded DEF OpToRel
<1>2. PICK m \in S : \A k \in S : ~ (<<k, m>> \in R)
  <2> HIDE DEF R
  <2> QED
    BY <1>1, WFMin
<1>3. \A k, n \in S : k < n => <<k, n>> \in R
  OBVIOUS
<1>4. \A k \in S : ~ (k < m)
  BY <1>2, <1>3
<1> QED
  BY <1>4

\* A set of naturals that has a bound has a largest element: the least of its
\* bounds.
LEMMA MaxExists ==
  ASSUME NEW S \in SUBSET Nat, S # {}, NEW n \in Nat, \A i \in S : i =< n
  PROVE  Max(S) \in S /\ \A i \in S : i =< Max(S)
<1> DEFINE Bounds == {k \in Nat : \A i \in S : i =< k}
<1>1. PICK m \in Bounds : \A k \in Bounds : m =< k
  <2>1. Bounds \in SUBSET Nat /\ n \in Bounds
    OBVIOUS
  <2> HIDE DEF Bounds
  <2> QED
    BY <2>1, Least
<1>2. m \in S
  <2>1. CASE m = 0
    <3>1. PICK i \in S : TRUE
      OBVIOUS
    <3>2. i \in Nat /\ i =< 0
      BY <2>1, <3>1
    <3>3. i = m
      BY <2>1, <3>2
    <3> QED
      BY <3>3
  <2>2. CASE m # 0
    <3>1. m - 1 \in Nat /\ ~(m =< m - 1)
      BY <2>2
    <3>2. PICK i \in S : ~(i =< m - 1)
      BY <1>1, <3>1
    <3>3. i =< m /\ i \in Nat
      BY <3>2
    <3> QED
      BY <3>1, <3>2, <3>3
  <2> QED
    BY <2>1, <2>2
<1>3. \E x \in S : \A y \in S : x >= y
  BY <1>2
<1> QED
  BY <1>3 DEF Max

\* LastOf and Destination, of any stack.
LastIn(s, kinds) ==
  LET found == {i \in 1..Len(s) : s[i].kind \in kinds}
  IN  IF found = {} THEN 0 ELSE Max(found)

DestIn(s, sig) ==
  LET body == LastIn(s, Bodies)
      loop == LastIn(s, {"loop"})
  IN CASE sig = "break"    -> IF loop > body THEN loop - 1 ELSE NoGoal
       [] sig = "continue" -> IF loop > body THEN loop ELSE NoGoal
       [] sig = "return"   -> IF s[body].kind = "top" THEN body ELSE body - 1
       [] sig = "throw"    -> LastIn(s, {"try"})
       [] sig = "panic"    -> 0

LEMMA DestOfStack == \A sig \in Signals : Destination(sig) = DestIn(stack, sig)
BY DEF Destination, DestIn, LastOf, LastIn, Signals, Values, Thrown

LEMMA LastInFacts ==
  ASSUME NEW s \in Seq(Frames), NEW K
  PROVE  /\ LastIn(s, K) \in 0..Len(s)
         /\ LastIn(s, K) # 0 => s[LastIn(s, K)].kind \in K
         /\ \A i \in 1..Len(s) : s[i].kind \in K => i =< LastIn(s, K)
<1> DEFINE found == {i \in 1..Len(s) : s[i].kind \in K}
<1>1. CASE found = {}
  BY <1>1 DEF LastIn
<1>2. CASE found # {}
  <2>1. /\ found \in SUBSET Nat /\ Len(s) \in Nat
        /\ \A i \in found : i =< Len(s)
    OBVIOUS
  <2>2. Max(found) \in found /\ \A i \in found : i =< Max(found)
    <3> HIDE DEF found
    <3> QED
      BY <1>2, <2>1, MaxExists
  <2>3. LastIn(s, K) = Max(found)
    BY <1>2 DEF LastIn
  <2> QED
    BY <2>2, <2>3
<1> QED
  BY <1>1, <1>2

LEMMA FrontFacts ==
  ASSUME NEW s \in Seq(Frames), s # <<>>
  PROVE  /\ Len(s) \in Nat \ {0} /\ Len(Front(s)) = Len(s) - 1
         /\ Front(s) \in Seq(Frames)
         /\ \A i \in 1..(Len(s) - 1) : Front(s)[i] = s[i]
         /\ Last(s) = s[Len(s)] /\ Last(s) \in Frames
<1>1. Len(s) \in Nat \ {0}
  OBVIOUS
<1>2. /\ Front(s) \in Seq(Frames) /\ Len(Front(s)) = Len(s) - 1
      /\ \A i \in 1..(Len(s) - 1) : Front(s)[i] = s[i]
      /\ Last(s) = s[Len(s)] /\ Last(s) \in Frames
  BY <1>1 DEF Front, Last
<1> QED
  BY <1>1, <1>2

\* A frame of another kind is left: the innermost of the kind is the same.
LEMMA LastInFront ==
  ASSUME NEW s \in Seq(Frames), s # <<>>, NEW K, Last(s).kind \notin K
  PROVE  LastIn(Front(s), K) = LastIn(s, K)
<1>1. {i \in 1..Len(Front(s)) : Front(s)[i].kind \in K} = {i \in 1..Len(s) : s[i].kind \in K}
  <2>1. /\ Len(s) \in Nat /\ Len(Front(s)) = Len(s) - 1 /\ s[Len(s)].kind \notin K
        /\ \A i \in 1..(Len(s) - 1) : Front(s)[i] = s[i]
    BY FrontFacts
  <2>2. ASSUME NEW i
        PROVE  i \in 1..Len(Front(s)) /\ Front(s)[i].kind \in K
                 <=> i \in 1..Len(s) /\ s[i].kind \in K
    BY <2>1
  <2> QED
    BY <2>2
<1> QED
  BY <1>1 DEF LastIn

LEMMA LastInTop ==
  ASSUME NEW s \in Seq(Frames), s # <<>>, NEW K, Last(s).kind \in K
  PROVE  LastIn(s, K) = Len(s)
BY LastInFacts, FrontFacts

-----------------------------------------------------------------------------
(* Where signals go *)

\* A file or a spawn is the outermost activation and the only one of its kind.
WellNested(s) ==
  /\ s # <<>> => s[1].kind \in Bases
  /\ \A i \in 2..Len(s) : s[i].kind \notin Bases

\* On its way a signal is headed for where it was when it was raised.
GoalInv ==
  /\ Len(stack) =< MaxFrames
  /\ WellNested(stack)
  /\ outcome \in Signals \union {"next"}
  /\ goal \in 0..NoGoal
  /\ outcome \in Signals /\ goal # NoGoal => goal = DestIn(stack, outcome)

LEMMA NestedPush ==
  ASSUME NEW s \in Seq(Frames), WellNested(s), s # <<>>,
         NEW f \in Frames, f.kind \notin Bases
  PROVE  WellNested(Append(s, f))
BY DEF WellNested

LEMMA NestedFront ==
  ASSUME NEW s \in Seq(Frames), WellNested(s), s # <<>>
  PROVE  WellNested(Front(s))
<1>1. /\ Len(Front(s)) = Len(s) - 1 /\ Len(s) \in Nat \ {0}
      /\ \A i \in 1..(Len(s) - 1) : Front(s)[i] = s[i]
      /\ Front(s) \in Seq(Frames)
  BY FrontFacts
<1>2. Front(s) # <<>> => Len(Front(s)) # 0
  BY <1>1
<1>3. \A i \in 2..Len(Front(s)) : Front(s)[i] = s[i] /\ i \in 2..Len(s)
  BY <1>1
<1>4. Len(Front(s)) # 0 => Front(s)[1] = s[1]
  BY <1>1
<1> QED
  BY <1>2, <1>3, <1>4 DEF WellNested

\* No signal changes its destination when it passes a frame that is none for it.
LEMMA DestFront ==
  ASSUME NEW s \in Seq(Frames), s # <<>>, WellNested(s), NEW sig \in Signals,
         sig \in {"break", "continue"} => Last(s).kind \notin Bodies \union {"loop"},
         sig = "return" => Last(s).kind \notin Bodies,
         sig = "throw" => Last(s).kind # "try"
  PROVE  DestIn(Front(s), sig) = DestIn(s, sig)
<1>1. CASE sig \in {"break", "continue"}
  BY <1>1, LastInFront DEF DestIn
<1>2. CASE sig = "return"
  <2>1. LastIn(Front(s), Bodies) = LastIn(s, Bodies)
    BY <1>2, LastInFront
  <2>2. LastIn(s, Bodies) \in 1..Len(s)
    <3>1. 1 \in 1..Len(s) /\ s[1].kind \in Bodies
      BY FrontFacts DEF WellNested, Bodies
    <3> QED
      BY <3>1, LastInFacts
  <2>3. LastIn(s, Bodies) # Len(s)
    BY <1>2, <2>2, LastInFacts, FrontFacts
  <2>4. Front(s)[LastIn(s, Bodies)] = s[LastIn(s, Bodies)]
    BY <2>2, <2>3, FrontFacts
  <2> QED
    BY <1>2, <2>1, <2>4 DEF DestIn
<1>3. CASE sig = "throw"
  BY <1>3, LastInFront DEF DestIn
<1>4. CASE sig = "panic"
  BY <1>4 DEF DestIn
<1> QED
  BY <1>1, <1>2, <1>3, <1>4 DEF Signals, Values, Thrown

LEMMA DestType ==
  ASSUME NEW s \in Seq(Frames), s # <<>>, WellNested(s), Len(s) =< MaxFrames,
         NEW sig \in Signals
  PROVE  DestIn(s, sig) \in 0..NoGoal
<1>1. /\ LastIn(s, Bodies) \in 0..Len(s) /\ LastIn(s, {"loop"}) \in 0..Len(s)
      /\ LastIn(s, {"try"}) \in 0..Len(s) /\ Len(s) \in Nat
  BY LastInFacts
<1>2. LastIn(s, Bodies) # 0
  <2>1. 1 \in 1..Len(s) /\ s[1].kind \in Bodies
    BY FrontFacts DEF WellNested, Bodies
  <2> QED
    BY <2>1, <1>1, LastInFacts
<1>3. MaxFrames \in Nat
  BY MaxFramesAssumption
<1> QED
  BY <1>1, <1>2, <1>3 DEF DestIn, NoGoal, Signals, Values, Thrown

LEMMA GoalInit == Init => GoalInv
<1> SUFFICES ASSUME Init PROVE GoalInv
  OBVIOUS
<1>1. PICK k \in Bases, il \in BOOLEAN : stack = <<Frame(k, il, "stmt")>>
  BY DEF Init, BodyInLoop
<1>2. Frame(k, il, "stmt").kind \in Bases
  BY FrameType DEF Kinds, Bodies
<1> QED
  BY <1>1, <1>2, MaxFramesAssumption
  DEF Init, GoalInv, WellNested, NoGoal, Signals, Values, Thrown

\* An activation is entered: no signal is in flight.
LEMMA GoalPush ==
  ASSUME Inv, GoalInv, Running, NEW f \in Frames, f.kind \notin Bases, Push(f),
         UNCHANGED <<outcome, goal>>
  PROVE  GoalInv'
<1>1. /\ stack' = Append(stack, f) /\ Len(stack) < MaxFrames
      /\ stack \in Seq(Frames) /\ stack # <<>> /\ outcome' = "next" /\ goal' = goal
  BY DEF Push, Running, Inv
<1>2. Len(stack') =< MaxFrames
  BY <1>1, MaxFramesAssumption
<1>3. WellNested(stack')
  BY <1>1, NestedPush DEF GoalInv
<1> QED
  BY <1>1, <1>2, <1>3 DEF GoalInv, Signals, Values, Thrown

\* An activation is left, and its signal done with: no signal is in flight.
LEMMA GoalPop ==
  ASSUME Inv, GoalInv, stack # <<>>, Pop, outcome' = "next", UNCHANGED goal
  PROVE  GoalInv'
<1>1. stack' = Front(stack) /\ stack \in Seq(Frames)
  BY DEF Pop, Inv
<1>2. Len(stack') =< MaxFrames
  BY <1>1, FrontFacts, MaxFramesAssumption DEF GoalInv
<1>3. WellNested(stack')
  BY <1>1, NestedFront DEF GoalInv
<1> QED
  BY <1>2, <1>3 DEF GoalInv, Signals, Values, Thrown

\* A signal passes an activation.
LEMMA GoalPass ==
  ASSUME Inv, GoalInv, stack # <<>>, Pop, Pass, outcome \in Signals,
         outcome \in {"break", "continue"} /\ goal # NoGoal =>
           Top.kind \notin Bodies \union {"loop"},
         outcome = "return" => Top.kind \notin Bodies,
         outcome = "throw" => Top.kind # "try"
  PROVE  GoalInv'
<1>1. stack' = Front(stack) /\ stack \in Seq(Frames) /\ outcome' = outcome /\ goal' = goal
  BY DEF Pop, Pass, Inv
<1>2. Len(stack') =< MaxFrames
  BY <1>1, FrontFacts, MaxFramesAssumption DEF GoalInv
<1>3. WellNested(stack')
  BY <1>1, NestedFront DEF GoalInv
<1>4. goal # NoGoal => DestIn(stack', outcome) = DestIn(stack, outcome)
  BY <1>1, DestFront DEF GoalInv, Top
<1> QED
  BY <1>1, <1>2, <1>3, <1>4 DEF GoalInv

\* The loop of a break is not beyond the running body: a body that meets one
\* has no goal for it.
LEMMA LeakHasNoGoal ==
  ASSUME Inv, GoalInv, stack # <<>>, Top.kind \in Bodies, outcome \in {"break", "continue"}
  PROVE  goal = NoGoal
<1>1. stack \in Seq(Frames) /\ Last(stack).kind \in Bodies /\ outcome \in Signals
  BY DEF Inv, Top, Signals, Values
<1>2. LastIn(stack, Bodies) = Len(stack) /\ LastIn(stack, {"loop"}) \in 0..Len(stack)
  BY <1>1, LastInTop, LastInFacts
<1>3. DestIn(stack, outcome) = NoGoal
  BY <1>1, <1>2 DEF DestIn
<1> QED
  BY <1>1, <1>3 DEF GoalInv

LEMMA GoalEnter ==
  ASSUME Inv, GoalInv, EnterBlock \/ EnterLoop \/ Call \/ Construct
  PROVE  GoalInv'
<1> USE DEF Kinds, Bodies, Bases
<1>1. CASE EnterBlock
  <2>1. Top.inLoop \in BOOLEAN
    BY <1>1, CallsFront DEF EnterBlock, Running, Top, Inv, Frames
  <2>2. PICK k \in {"block", "try"} : Push(Frame(k, Top.inLoop, "stmt"))
    BY <1>1 DEF EnterBlock
  <2> QED
    BY <1>1, <2>1, <2>2, FrameType, GoalPush DEF EnterBlock
<1>2. CASE EnterLoop
  <2>1. Frame("loop", TRUE, "stmt") \in Frames /\ Frame("loop", TRUE, "stmt").kind = "loop"
    BY FrameType
  <2>2. Push(Frame("loop", TRUE, "stmt")) /\ Running /\ UNCHANGED <<outcome, goal>>
    BY <1>2 DEF EnterLoop
  <2> QED
    BY <2>1, <2>2, GoalPush
<1>3. CASE Call
  <2>1. PICK il \in BOOLEAN, u \in {"stmt", "operand"} : Push(Frame("call", il, u))
    BY <1>3 DEF Call, BodyInLoop
  <2> QED
    BY <1>3, <2>1, FrameType, GoalPush DEF Call
<1>4. CASE Construct
  <2>1. PICK il \in BOOLEAN : Push(Frame("init", il, "operand"))
    BY <1>4 DEF Construct, BodyInLoop
  <2> QED
    BY <1>4, <2>1, FrameType, GoalPush DEF Construct
<1> QED
  BY <1>1, <1>2, <1>3, <1>4

\* A signal is raised, by a statement or by a call that is too deep.
LEMMA GoalRaise ==
  ASSUME Inv, GoalInv, NEW sig \in Signals, Running,
         outcome' = sig, goal' = Destination(sig), UNCHANGED stack
  PROVE  GoalInv'
<1>1. goal' = DestIn(stack, sig)
  BY DestOfStack
<1>2. goal' \in 0..NoGoal
  BY <1>1, DestType DEF Running, Inv, GoalInv
<1> QED
  BY <1>1, <1>2 DEF GoalInv

\* A signal is done with where it is.
LEMMA GoalStay ==
  ASSUME Inv, GoalInv, UNCHANGED <<stack, goal>>, outcome' = "next"
  PROVE  GoalInv'
BY DEF GoalInv, Signals, Values, Thrown

\* The handler's block takes the place of the try.
LEMMA GoalCatch ==
  ASSUME Inv, GoalInv, CatchThrow
  PROVE  GoalInv'
<1>1. /\ stack # <<>> /\ stack \in Seq(Frames) /\ Len(stack) \in Nat \ {0}
      /\ Last(stack).kind = "try" /\ stack[Len(stack)].kind = "try"
      /\ stack' = [stack EXCEPT ![Len(stack)].kind = "block"]
      /\ outcome' = "next" /\ goal' = goal
  BY FrontFacts DEF CatchThrow, At, Top, Proceed, Inv
<1>2. Len(stack) # 1
  BY <1>1 DEF GoalInv, WellNested, Bases
<1>3. /\ Len(stack') = Len(stack) /\ stack' \in Seq(Frames)
      /\ \A i \in 1..(Len(stack) - 1) : stack'[i] = stack[i]
      /\ stack'[Len(stack)].kind = "block"
  <2>1. [stack[Len(stack)] EXCEPT !.kind = "block"] \in Frames
    <3>1. stack[Len(stack)] \in Frames /\ "block" \in Kinds
      BY <1>1 DEF Kinds
    <3> QED
      BY <3>1 DEF Frames
  <2>2. [stack[Len(stack)] EXCEPT !.kind = "block"].kind = "block"
    <3>1. stack[Len(stack)] \in Frames
      BY <1>1
    <3> QED
      BY <3>1 DEF Frames
  <2>3. stack' = [stack EXCEPT ![Len(stack)] = [stack[Len(stack)] EXCEPT !.kind = "block"]]
    BY <1>1
  <2> HIDE DEF Frames
  <2> QED
    BY <1>1, <2>1, <2>2, <2>3
<1>4. WellNested(stack')
  BY <1>1, <1>2, <1>3 DEF GoalInv, WellNested, Bases
<1> QED
  BY <1>1, <1>3, <1>4 DEF GoalInv, Signals, Values, Thrown

LEMMA GoalLeave ==
  ASSUME Inv, GoalInv, Complete \/ CompleteCall \/ LeaveBlock \/ LoopSignal \/ LeaveCall
              \/ LeaveInit \/ LeaveBase \/ LeaveByException \/ PanicThroughTry
              \/ EndByException
  PROVE  GoalInv'
<1> USE DEF Signals, Values, Thrown, Bodies, Bases
<1>1. CASE Complete \/ CompleteCall
  BY <1>1, GoalPop DEF Complete, CompleteCall, Running
<1>2. CASE LeaveBlock
  BY <1>2, GoalPass DEF LeaveBlock, At
<1>3. CASE LoopSignal
  <2>1. stack # <<>> /\ Top.kind = "loop" /\ outcome \in Values
    BY <1>3 DEF LoopSignal, At
  <2>2. CASE outcome = "break"
    BY <1>3, <2>1, <2>2, GoalPop DEF LoopSignal, Proceed
  <2>3. CASE outcome = "continue"
    BY <1>3, <2>1, <2>3, GoalStay DEF LoopSignal, Proceed
  <2>4. CASE outcome = "return"
    BY <1>3, <2>1, <2>4, GoalPass DEF LoopSignal
  <2> QED
    BY <2>1, <2>2, <2>3, <2>4
<1>4. CASE LeaveCall
  <2>1. stack # <<>> /\ Top.kind = "call" /\ outcome \in Values /\ Pop
    BY <1>4 DEF LeaveCall, At
  <2>2. CASE outcome = "return" \/ Top.used = "operand"
    BY <1>4, <2>1, <2>2, GoalPop DEF LeaveCall, Proceed
  <2>3. CASE ~(outcome = "return" \/ Top.used = "operand")
    <3>1. outcome \in {"break", "continue"} /\ Pass
      BY <1>4, <2>1, <2>3 DEF LeaveCall
    <3>2. goal = NoGoal
      BY <2>1, <3>1, LeakHasNoGoal
    <3> QED
      BY <2>1, <3>1, <3>2, GoalPass
  <2> QED
    BY <2>2, <2>3
<1>5. CASE LeaveInit
  BY <1>5, GoalPop DEF LeaveInit, At, Proceed
<1>6. CASE LeaveBase
  <2>1. CASE Top.kind = "top"
    BY <1>6, <2>1, GoalStay DEF LeaveBase, Proceed
  <2>2. CASE Top.kind # "top"
    BY <1>6, <2>2, GoalPop DEF LeaveBase, Proceed
  <2> QED
    BY <2>1, <2>2
<1>7. CASE LeaveByException
  BY <1>7, GoalPass DEF LeaveByException
<1>8. CASE PanicThroughTry
  BY <1>8, GoalPass DEF PanicThroughTry, At
<1>9. CASE EndByException
  BY <1>9, GoalPop DEF EndByException, Proceed
<1> QED
  BY <1>1, <1>2, <1>3, <1>4, <1>5, <1>6, <1>7, <1>8, <1>9

LEMMA GoalStep == Inv /\ GoalInv /\ [Next]_vars => GoalInv'
<1> SUFFICES ASSUME Inv, GoalInv, [Next]_vars PROVE GoalInv'
  OBVIOUS
<1>1. CASE UNCHANGED vars
  BY <1>1 DEF vars, GoalInv
<1>2. ASSUME NEW sig \in Signals, Raise(sig) PROVE GoalInv'
  BY <1>2, GoalRaise DEF Raise
<1>3. CASE CallTooDeep
  <2>1. "panic" \in Signals
    BY DEF Signals, Thrown
  <2> QED
    BY <1>3, <2>1, GoalRaise DEF CallTooDeep
<1> QED
  BY <1>1, <1>2, <1>3, GoalEnter, GoalLeave, GoalCatch DEF Next, Finished

\* The variables keep their types, and a signal has a destination inside the
\* stack or none.
THEOREM TypeCorrect == Spec => []TypeOK
<1>1. Inv /\ GoalInv => TypeOK
  BY DEF Inv, GoalInv, TypeOK
<1> QED
  BY <1>1, InitInv, Inductive, GoalInit, GoalStep, PTL DEF Spec

\* The frame that does the work of a signal is its destination.
Arrives ==
  outcome \in Signals /\ outcome' = "next" /\ goal # NoGoal => Len(stack') = goal

LEMMA ArrivesStep == Inv /\ GoalInv /\ [Next]_vars => (Arrives \/ UNCHANGED vars)
<1> SUFFICES ASSUME Inv, GoalInv, Next, outcome \in Signals, outcome' = "next", goal # NoGoal
             PROVE  Len(stack') = goal
  BY DEF Arrives
<1> USE DEF Signals, Values, Thrown
<1>1. /\ goal = DestIn(stack, outcome) /\ stack \in Seq(Frames) /\ outcome # "next"
  BY DEF Inv, GoalInv
<1>2. ASSUME stack # <<>>, Pop
      PROVE  Len(stack') = Len(stack) - 1 /\ Len(stack) \in Nat \ {0}
  BY <1>1, <1>2, FrontFacts DEF Pop
<1>3. CASE LoopSignal
  <2>1. /\ stack # <<>> /\ Last(stack).kind = "loop" /\ outcome \in Values
        /\ outcome = "break" => Pop
        /\ outcome = "continue" => stack' = stack
        /\ outcome # "return"
    BY <1>1, <1>3 DEF LoopSignal, At, Top, Pass
  <2>2. LastIn(stack, {"loop"}) = Len(stack)
    BY <1>1, <2>1, LastInTop
  <2>3. LastIn(stack, Bodies) \in 0..Len(stack) /\ LastIn(stack, Bodies) # Len(stack)
    BY <1>1, <2>1, LastInFacts, FrontFacts DEF Bodies, Bases
  <2> QED
    BY <1>1, <1>2, <2>1, <2>2, <2>3 DEF DestIn
<1>4. ASSUME stack # <<>>, Top.kind \in Bodies, outcome \in Values
      PROVE  outcome = "return" /\ goal = IF Top.kind = "top" THEN Len(stack) ELSE Len(stack) - 1
  <2>1. outcome = "return"
    BY <1>4, LeakHasNoGoal
  <2>2. LastIn(stack, Bodies) = Len(stack) /\ stack[Len(stack)] = Top
    BY <1>1, <1>4, LastInTop, FrontFacts DEF Top
  <2> QED
    BY <1>1, <2>1, <2>2 DEF DestIn
<1>5. CASE LeaveCall \/ LeaveInit
  BY <1>2, <1>4, <1>5 DEF LeaveCall, LeaveInit, At, Bodies, Bases
<1>6. CASE LeaveBase
  <2>1. stack # <<>> /\ Top.kind \in Bodies /\ outcome \in Values
    BY <1>6 DEF LeaveBase, Bodies
  <2>2. CASE Top.kind = "top"
    BY <1>4, <1>6, <2>1, <2>2 DEF LeaveBase
  <2>3. CASE Top.kind # "top"
    BY <1>2, <1>4, <1>6, <2>1, <2>3 DEF LeaveBase
  <2> QED
    BY <2>2, <2>3
<1>7. CASE CatchThrow
  <2>1. /\ stack # <<>> /\ Last(stack).kind = "try" /\ outcome = "throw"
        /\ stack' = [stack EXCEPT ![Len(stack)].kind = "block"]
    BY <1>7 DEF CatchThrow, At, Top
  <2>2. LastIn(stack, {"try"}) = Len(stack)
    BY <1>1, <2>1, LastInTop
  <2>3. Len(stack') = Len(stack)
    BY <1>1, <2>1
  <2> QED
    BY <1>1, <2>1, <2>2, <2>3 DEF DestIn
<1>8. CASE EndByException
  <2>1. stack # <<>> /\ Last(stack).kind \in Bases /\ outcome \in Thrown /\ Pop
    BY <1>8 DEF EndByException, Top
  <2>2. Len(stack) = 1 /\ Len(stack') = 0
    BY <1>1, <1>2, <2>1, FrontFacts DEF GoalInv, WellNested
  <2>3. LastIn(stack, {"try"}) = 0
    BY <1>1, <2>1, <2>2, LastInFacts, FrontFacts DEF Bases
  <2> QED
    BY <1>1, <2>1, <2>2, <2>3 DEF DestIn
<1> QED
  BY <1>1, <1>3, <1>5, <1>6, <1>7, <1>8
  DEF Next, EnterBlock, EnterLoop, Call, CallTooDeep, Construct, Raise, Running,
      Complete, CompleteCall, LeaveBlock, LeaveByException, PanicThroughTry,
      Pass, Finished, vars

\* A signal stops where the language says it does: break and continue at the
\* innermost loop of the running body, return at the end of that body, throw at
\* the innermost try in progress, a panic nowhere; whatever activations it has
\* to pass on its way.
THEOREM SignalsStopWhereMeant == Spec => SignalsArrive
<1>1. Inv /\ GoalInv /\ [Next]_vars =>
        [(outcome \in Signals /\ outcome' = "next" /\ goal # NoGoal) => Len(stack') = goal]_vars
  BY ArrivesStep DEF Arrives
<1> QED
  BY <1>1, InitInv, Inductive, GoalInit, GoalStep, PTL DEF Spec, SignalsArrive

=============================================================================
