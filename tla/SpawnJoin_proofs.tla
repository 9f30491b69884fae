--------------------------- MODULE SpawnJoin_proofs ---------------------------
(***************************************************************************)
(* For any number of threads and any style of program: no handle is lost,   *)
(* a thread that was joined has ended, and a thread never sees a freed      *)
(* environment.                                                             *)
(***************************************************************************)
EXTENDS SpawnJoin, FiniteSetTheorems, WellFoundedInduction, TLAPS

TypeInv ==
  /\ TypeOK
  /\ pc[Main] # "unborn"

\* The steps of the program as one disjunction, without the guard of Next.
Steps(p, q) ==
  \/ Spawn(p, q) \/ Overwrite(p, q) \/ CallJoin(p, q)
  \/ EndStatement(p, q) \/ EndStatement(p, None)
  \/ Define(p) \/ Discard(p) \/ EnterJoin(p) \/ FinishJoin(p) \/ Destroy(p)
  \/ Lookup(p) \/ Found(p) \/ End(p) \/ Throw(p) \/ Unwind(p)

LEMMA NextSteps ==
  ASSUME Next
  PROVE  \/ UNCHANGED vars
         \/ UNCHANGED habits /\ Exit
         \/ UNCHANGED habits /\ \E p, q \in Procs : Steps(p, q)
BY DEF Next, Steps

-----------------------------------------------------------------------------
(* Types *)

LEMMA InitType == Init => TypeInv
BY ProcsAssumption DEF Init, TypeInv, TypeOK, Places, Fates

LEMMA GiveUpType ==
  ASSUME TypeInv, NEW p \in Procs, NEW t \in Procs \union {None}, NEW kept \in BOOLEAN,
         NEW l \in {"body", "unwind"}, GiveUp(p, t, kept, l)
  PROVE  /\ pc' \in [Procs -> Places] /\ pc'[Main] # "unborn"
         /\ target' \in [Procs -> Procs \union {None}]
BY DEF GiveUp, Goto, TypeInv, TypeOK, Places

LEMMA StepType ==
  ASSUME TypeInv, NEW p \in Procs, NEW q \in Procs, Steps(p, q), UNCHANGED habits
  PROVE  TypeInv'
<1> USE ProcsAssumption DEF TypeInv, TypeOK, Places, Fates, InCall, Goto, EndProgram
<1>1. CASE Spawn(p, q)
  BY <1>1 DEF Spawn
<1>2. CASE Overwrite(p, q)
  <2> DEFINE new == IF pc[p] = "bound" THEN target[p] ELSE None
             kept == last[p] = q \/ HeldElsewhere(p, q)
  <2>1. /\ pc[p] \in {"body", "bound"} /\ home[q] \in chain[p]
        /\ home' = [h \in Procs |-> CASE h = q   -> None
                                      [] h = new -> home[q]
                                      [] OTHER   -> home[h]]
        /\ envLock' = [g \in Procs |-> IF ~kept /\ g \in Path(p, home[q]) THEN p ELSE envLock[g]]
        /\ UNCHANGED <<chain, parent, frames, last, joinable, dropping, fate>>
    BY <1>2 DEF Overwrite
  <2>2. home' \in [Procs -> Procs \union {None}]
    BY <2>1
  <2>3. envLock' \in [Procs -> Procs \union {None}]
    BY <2>1
  <2>4. pc' \in [Procs -> Places] /\ pc'[Main] # "unborn" /\ target' \in [Procs -> Procs \union {None}]
    BY <1>2, GiveUpType DEF Overwrite
  <2> QED
    BY <2>1, <2>2, <2>3, <2>4
<1>3. CASE CallJoin(p, q)
  BY <1>3 DEF CallJoin
<1>4. CASE Define(p) \/ Discard(p) \/ EndStatement(p, q) \/ EndStatement(p, None)
  <2>1. PICK v \in Procs \union {None} : Settle(p, v)
    BY <1>4 DEF Define, Discard, EndStatement
  <2>2. /\ pc' \in [Procs -> Places] /\ pc'[Main] # "unborn"
        /\ target' \in [Procs -> Procs \union {None}] /\ last' \in [Procs -> Procs \union {None}]
    BY <2>1, GiveUpType DEF Settle
  <2>3. home' \in [Procs -> Procs \union {None}]
    BY <1>4 DEF Define, Discard, EndStatement
  <2> QED
    BY <1>4, <2>2, <2>3 DEF Define, Discard, EndStatement
<1>5. CASE EnterJoin(p)
  BY <1>5 DEF EnterJoin
<1>6. CASE FinishJoin(p)
  BY <1>6 DEF FinishJoin
<1>7. CASE Destroy(p)
  BY <1>7 DEF Destroy
<1>8. CASE Lookup(p) \/ Found(p) \/ End(p) \/ Throw(p)
  BY <1>8 DEF Lookup, Found, End, Throw
<1>9. CASE Unwind(p)
  <2>1. /\ pc' \in [Procs -> Places] /\ pc'[Main] # "unborn"
        /\ target' \in [Procs -> Procs \union {None}]
    BY <1>9, GiveUpType DEF Unwind
  <2>2. /\ home' \in [Procs -> Procs \union {None}] /\ last' \in [Procs -> Procs \union {None}]
        /\ dropping' \in [Procs -> Procs \union {None}] /\ frames' \subseteq Procs
    BY <1>9 DEF Unwind
  <2> QED
    BY <1>9, <2>1, <2>2 DEF Unwind
<1> QED
  BY <1>1, <1>2, <1>3, <1>4, <1>5, <1>6, <1>7, <1>8, <1>9 DEF Steps

LEMMA ExitType ==
  ASSUME TypeInv, Exit, UNCHANGED habits
  PROVE  TypeInv'
BY DEF Exit, EndProgram, TypeInv, TypeOK, Fates

LEMMA StutterType == TypeInv /\ UNCHANGED vars => TypeInv'
BY DEF vars, TypeInv, TypeOK

LEMMA TypeStep == TypeInv /\ [Next]_vars => TypeInv'
BY NextSteps, StepType, ExitType, StutterType

\* Every variable keeps its type, and the main thread is never one that can be
\* joined.
THEOREM TypeCorrect == SafeSpec => []TypeOK
<1>1. TypeInv => TypeOK
  BY DEF TypeInv
<1> QED
  BY <1>1, InitType, TypeStep, PTL DEF SafeSpec

-----------------------------------------------------------------------------
(* Handles *)

\* A process holds the Value of thread t outside any variable, and somebody
\* does.
Holds(u, t) == target[u] = t /\ pc[u] \in {"bound", "dtor"} \union InCall
Held(t) ==
  \/ home[t] # None
  \/ \E u \in Procs : last[u] = t
  \/ \E u \in Procs : Holds(u, t)

\* A Value that p gives up has another owner or is destroyed.
LEMMA GiveUpHandle ==
  ASSUME TypeInv, NEW p \in Procs, NEW t \in Procs, NEW kept \in BOOLEAN, NEW l,
         pc[p] \in {"body", "bound", "unwind"}, GiveUp(p, t, kept, l),
         \A q \in Procs \ {p} : last'[q] = last[q],
         kept => last'[p] = t \/ home'[t] # None \/ HeldElsewhere(p, t)
  PROVE  Held(t)'
<1> USE DEF TypeInv, TypeOK, GiveUp, Goto
<1>1. CASE ~kept
  <2>1. pc'[p] = "dtor" /\ target'[p] = t
    BY <1>1
  <2> QED
    BY <2>1 DEF Held, Holds
<1>2. CASE kept /\ (last'[p] = t \/ home'[t] # None)
  BY <1>2 DEF Held
<1>3. CASE HeldElsewhere(p, t)
  <2>1. CASE Joining(t) # {}
    <3>1. PICK u \in Procs : pc[u] \in InCall /\ target[u] = t
      BY <2>1 DEF Joining
    <3>2. u # p
      BY <3>1 DEF InCall
    <3>3. pc'[u] = pc[u] /\ target'[u] = target[u]
      BY <3>2
    <3> QED
      BY <3>1, <3>3 DEF Held, Holds, InCall
  <2>2. CASE \E q \in Procs \ {p} : last[q] = t
    BY <2>2 DEF Held
  <2> QED
    BY <1>3, <2>1, <2>2 DEF HeldElsewhere
<1> QED
  BY <1>1, <1>2, <1>3

\* The other Values keep their owners.
LEMMA OthersHeld ==
  ASSUME TypeInv, NEW p \in Procs, NEW t \in Procs, Held(t),
         \A q \in Procs \ {p} :
            last'[q] = last[q] /\ pc'[q] = pc[q] /\ target'[q] = target[q],
         home'[t] = home[t] \/ home'[t] # None,
         last[p] = t => last'[p] = t,
         ~Holds(p, t)
  PROVE  Held(t)'
<1>1. \A u \in Procs : last[u] = t => last'[u] = t
  OBVIOUS
<1>2. \A u \in Procs : Holds(u, t) => Holds(u, t)'
  BY DEF Holds, InCall
<1> QED
  BY <1>1, <1>2 DEF Held

LEMMA SettleHandle ==
  ASSUME TypeInv, NEW p \in Procs, NEW v \in Procs \union {None}, Settle(p, v),
         pc[p] = "body" \/ (pc[p] = "bound" /\ target[p] = v),
         NEW t \in Procs, Held(t), home'[t] = home[t] \/ home'[t] # None
  PROVE  Held(t)'
<1> USE DEF TypeInv, TypeOK
<1>1. /\ last' = [last EXCEPT ![p] = v]
      /\ \A q \in Procs \ {p} : last'[q] = last[q] /\ pc'[q] = pc[q] /\ target'[q] = target[q]
  BY DEF Settle, GiveUp, Goto
<1>2. CASE t = v
  BY <1>1, <1>2 DEF Held
<1>3. CASE t # v /\ t = last[p]
  <2> DEFINE kept == last[p] \in {None, v} \/ home[last[p]] # None \/ HeldElsewhere(p, last[p])
  <2>1. GiveUp(p, t, kept, "body")
    BY <1>3 DEF Settle
  <2>2. kept => home'[t] # None \/ HeldElsewhere(p, t)
    BY <1>3, ProcsAssumption
  <2> HIDE DEF kept
  <2>3. kept \in BOOLEAN
    BY DEF kept
  <2> QED
    BY <1>1, <2>1, <2>2, <2>3, GiveUpHandle
<1>4. CASE t # v /\ t # last[p]
  <2>1. ~Holds(p, t)
    BY <1>4 DEF Holds, InCall
  <2> QED
    BY <1>1, <1>4, <2>1, OthersHeld
<1> QED
  BY <1>2, <1>3, <1>4

\* What a frame given up, or the result of a body, does to the Values.
LEMMA UnwindHandle ==
  ASSUME TypeInv, NEW p \in Procs, Unwind(p), NEW t \in Procs, Held(t)
  PROVE  Held(t)'
<1> USE DEF TypeInv, TypeOK
<1>1. pc[p] = "unwind" /\ ~Holds(p, t)
  BY DEF Unwind, Holds, InCall
<1> DEFINE f == dropping[p]
           freed == f # None /\ ~HeldBesides(p, f)
<1>2. ASSUME NEW c \in Procs, home[c] = f, home' = [home EXCEPT ![c] = None],
             GiveUp(p, c, last[p] = c \/ HeldElsewhere(p, c), "unwind"), UNCHANGED last
      PROVE  Held(t)'
  <2>1. CASE t = c
    <3> DEFINE kept == last[p] = c \/ HeldElsewhere(p, c)
    <3>1. kept \in BOOLEAN /\ GiveUp(p, t, kept, "unwind")
      BY <1>2, <2>1
    <3>2. kept => last'[p] = t \/ HeldElsewhere(p, t)
      BY <1>2, <2>1
    <3> HIDE DEF kept
    <3> QED
      BY <1>1, <1>2, <3>1, <3>2, GiveUpHandle
  <2>2. CASE t # c
    BY <1>1, <1>2, <2>2, OthersHeld DEF GiveUp, Goto
  <2> QED
    BY <2>1, <2>2
<1>3. ASSUME last[p] # None, last' = [last EXCEPT ![p] = None], UNCHANGED home,
             GiveUp(p, last[p], home[last[p]] # None \/ HeldElsewhere(p, last[p]), "unwind")
      PROVE  Held(t)'
  <2>1. CASE t = last[p]
    <3> DEFINE kept == home[last[p]] # None \/ HeldElsewhere(p, last[p])
    <3>1. kept \in BOOLEAN /\ GiveUp(p, t, kept, "unwind")
      BY <1>3, <2>1
    <3>2. kept => home'[t] # None \/ HeldElsewhere(p, t)
      BY <1>3, <2>1
    <3> HIDE DEF kept
    <3> QED
      BY <1>1, <1>3, <3>1, <3>2, GiveUpHandle
  <2>2. CASE t # last[p]
    BY <1>1, <1>3, <2>2, OthersHeld DEF GiveUp, Goto
  <2> QED
    BY <2>1, <2>2
<1>4. CASE UNCHANGED <<pc, target, home, last>>
  BY <1>4 DEF Held, Holds
<1>5. CASE pc' = [pc EXCEPT ![p] = "ended"] /\ UNCHANGED <<target, home, last>>
  BY <1>1, <1>5, OthersHeld
<1> QED
  BY <1>2, <1>3, <1>4, <1>5 DEF Unwind, Goto

LEMMA HandleStep ==
  ASSUME TypeInv, HandleNeverLost, NEW p \in Procs, NEW q \in Procs, Steps(p, q)
  PROVE  HandleNeverLost'
<1> SUFFICES ASSUME NEW t \in joinable'
             PROVE  Held(t)'
  BY DEF HandleNeverLost, Held, Holds
<1> USE ProcsAssumption DEF TypeInv, TypeOK, InCall, Goto, EndProgram, Holds
<1>0. t \in joinable => t \in Procs /\ Held(t)
  BY DEF HandleNeverLost, Held
<1>1. CASE Spawn(p, q)
  BY <1>0, <1>1 DEF Spawn, Held
<1>2. CASE Overwrite(p, q)
  <2> DEFINE new == IF pc[p] = "bound" THEN target[p] ELSE None
             kept == last[p] = q \/ HeldElsewhere(p, q)
  <2>1. /\ pc[p] \in {"body", "bound"} /\ home[q] \in chain[p] /\ t \in joinable
        /\ home' = [h \in Procs |-> CASE h = q   -> None
                                      [] h = new -> home[q]
                                      [] OTHER   -> home[h]]
        /\ GiveUp(p, q, kept, "body") /\ UNCHANGED last /\ kept \in BOOLEAN
    BY <1>2 DEF Overwrite
  <2>2. home[q] # None /\ t \in Procs
    BY <2>1
  <2>3. CASE t = q
    <3>1. kept => last'[p] = t \/ HeldElsewhere(p, t)
      BY <2>1, <2>3
    <3> HIDE DEF kept
    <3> QED
      BY <2>1, <2>3, <3>1, GiveUpHandle
  <2>4. CASE t # q /\ t = new
    BY <2>1, <2>2, <2>4 DEF Held
  <2>5. CASE t # q /\ t # new
    <3>1. ~Holds(p, t) /\ home'[t] = home[t]
      BY <2>1, <2>5
    <3> HIDE DEF kept
    <3> QED
      BY <1>0, <2>1, <3>1, OthersHeld DEF GiveUp
  <2> QED
    BY <2>3, <2>4, <2>5
<1>3. CASE CallJoin(p, q)
  BY <1>0, <1>3 DEF CallJoin, Held
<1>4. CASE Define(p) \/ Discard(p) \/ EndStatement(p, q) \/ EndStatement(p, None)
  <2>1. PICK v \in Procs \union {None} :
           Settle(p, v) /\ (pc[p] = "body" \/ (pc[p] = "bound" /\ target[p] = v))
    BY <1>4 DEF Define, Discard, EndStatement
  <2>2. t \in joinable /\ (home'[t] = home[t] \/ home'[t] # None)
    BY <1>0, <1>4 DEF Define, Discard, EndStatement
  <2> QED
    BY <1>0, <2>1, <2>2, SettleHandle
<1>5. CASE EnterJoin(p)
  BY <1>0, <1>5 DEF EnterJoin, Held
<1>6. CASE FinishJoin(p)
  BY <1>0, <1>6 DEF FinishJoin, Held
<1>7. CASE Destroy(p)
  BY <1>0, <1>7 DEF Destroy, Held
<1>8. CASE Lookup(p) \/ Found(p) \/ End(p) \/ Throw(p)
  BY <1>0, <1>8 DEF Lookup, Found, End, Throw, Held
<1>9. CASE Unwind(p)
  BY <1>0, <1>9, UnwindHandle DEF Unwind
<1> QED
  BY <1>1, <1>2, <1>3, <1>4, <1>5, <1>6, <1>7, <1>8, <1>9 DEF Steps

LEMMA HandleNext == TypeInv /\ HandleNeverLost /\ [Next]_vars => HandleNeverLost'
<1>1. ASSUME HandleNeverLost, UNCHANGED vars \/ Exit PROVE HandleNeverLost'
  BY <1>1 DEF HandleNeverLost, vars, Exit
<1> QED
  BY <1>1, NextSteps, HandleStep

\* The Value of a thread that was not joined always has an owner, whichever
\* variables are assigned and in whatever order scopes and threads end.
THEOREM HandlesKept == SafeSpec => []HandleNeverLost
<1>1. Init => HandleNeverLost
  BY DEF Init, HandleNeverLost
<1> QED
  BY <1>1, InitType, TypeStep, HandleNext, PTL DEF SafeSpec

-----------------------------------------------------------------------------
(* Joins *)

\* The end of a statement leaves p in its body or in a destructor.
LEMMA SettlePlace ==
  ASSUME NEW p, NEW v, Settle(p, v)
  PROVE  pc' \in {[pc EXCEPT ![p] = "dtor"], [pc EXCEPT ![p] = "body"]}
BY DEF Settle, GiveUp, Goto

LEMMA JoinedStep ==
  ASSUME TypeInv, JoinedMeansEnded, NEW p \in Procs, NEW q \in Procs, Steps(p, q)
  PROVE  JoinedMeansEnded'
<1> SUFFICES ASSUME NEW t \in Procs \ {Main}, pc'[t] # "unborn", t \notin joinable'
             PROVE  pc'[t] = "ended"
  BY DEF JoinedMeansEnded
<1> USE ProcsAssumption DEF TypeInv, TypeOK, InCall, Goto, EndProgram
<1>0. pc[t] # "unborn" /\ t \notin joinable => pc[t] = "ended"
  BY DEF JoinedMeansEnded
<1>1. CASE Spawn(p, q)
  BY <1>0, <1>1 DEF Spawn
<1>2. CASE Overwrite(p, q) \/ Define(p) \/ Discard(p) \/ EndStatement(p, q) \/ EndStatement(p, None)
  <2>1. pc[p] \in {"body", "bound"} /\ joinable' = joinable
    BY <1>2 DEF Overwrite, Define, Discard, EndStatement
  <2>2. pc' \in {[pc EXCEPT ![p] = "dtor"], [pc EXCEPT ![p] = "body"]}
    BY <1>2, SettlePlace DEF Overwrite, Define, Discard, EndStatement, GiveUp
  <2> QED
    BY <1>0, <2>1, <2>2
<1>3. CASE CallJoin(p, q)
  BY <1>0, <1>3 DEF CallJoin
<1>5. CASE EnterJoin(p)
  BY <1>0, <1>5 DEF EnterJoin
<1>6. CASE FinishJoin(p)
  BY <1>0, <1>6 DEF FinishJoin
<1>7. CASE Destroy(p)
  BY <1>0, <1>7 DEF Destroy
<1>8. CASE Lookup(p) \/ Found(p) \/ End(p) \/ Throw(p)
  BY <1>0, <1>8 DEF Lookup, Found, End, Throw
<1>9. CASE Unwind(p)
  BY <1>0, <1>9 DEF Unwind, GiveUp
<1> QED
  BY <1>1, <1>2, <1>3, <1>5, <1>6, <1>7, <1>8, <1>9 DEF Steps

LEMMA JoinedNext == TypeInv /\ JoinedMeansEnded /\ [Next]_vars => JoinedMeansEnded'
<1>1. ASSUME JoinedMeansEnded, UNCHANGED vars \/ Exit PROVE JoinedMeansEnded'
  BY <1>1 DEF JoinedMeansEnded, vars, Exit
<1> QED
  BY <1>1, NextSteps, JoinedStep

\* After a join or a destructor of a thread its body has ended.
THEOREM JoinsWait == SafeSpec => []JoinedMeansEnded
<1>1. Init => JoinedMeansEnded
  BY DEF Init, JoinedMeansEnded
<1> QED
  BY <1>1, InitType, TypeStep, JoinedNext, PTL DEF SafeSpec

-----------------------------------------------------------------------------
(* Environments *)

\* A frame that is enclosed by another keeps it alive, and a process keeps its
\* own frame until it gives it up.
FrameInv ==
  /\ \A p \in Procs : dropping[p] # None => pc[p] \in {"unwind", "dtor"}
  /\ \A p, q \in Procs : pc[p] = "unborn" /\ q # p => p \notin chain[q]
  /\ \A p \in Procs : pc[p] # "unborn" /\ ~Leaving(p) => p \in frames
  /\ \A p \in frames : chain[p] \subseteq frames
  /\ \A p \in frames : \A f \in chain[p] \ {p} : \E c \in chain[p] : parent[c] = f

LEMMA InitFrame == Init => FrameInv
BY ProcsAssumption DEF Init, FrameInv

\* The steps that change no frame: a process stays on the same side of giving
\* up its own.
LEMMA SameFrames ==
  ASSUME TypeInv, FrameInv, NEW p \in Procs,
         UNCHANGED <<chain, parent, frames>>,
         NEW l \in Places \ {"unborn"}, pc' = [pc EXCEPT ![p] = l], pc[p] # "unborn",
         NEW d \in Procs \union {None}, dropping' = [dropping EXCEPT ![p] = d],
         Leaving(p) => d # None \/ l \in {"unwind", "ended"},
         d # None => l \in {"unwind", "dtor"}
  PROVE  FrameInv'
<1> USE DEF TypeInv, TypeOK
<1>1. \A q \in Procs : pc'[q] = (IF q = p THEN l ELSE pc[q])
                       /\ dropping'[q] = (IF q = p THEN d ELSE dropping[q])
  OBVIOUS
<1>2. \A q \in Procs : dropping'[q] # None => pc'[q] \in {"unwind", "dtor"}
  BY <1>1 DEF FrameInv
<1>3. \A q, r \in Procs : pc'[q] = "unborn" /\ r # q => q \notin chain'[r]
  BY <1>1 DEF FrameInv
<1>4. \A q \in Procs : Leaving(q) => Leaving(q)'
  BY <1>1 DEF Leaving
<1>5. \A q \in Procs : pc'[q] # "unborn" /\ ~Leaving(q)' => q \in frames'
  BY <1>1, <1>4 DEF FrameInv
<1> QED
  BY <1>2, <1>3, <1>5 DEF FrameInv

LEMMA SpawnFrame ==
  ASSUME TypeInv, FrameInv, NEW p \in Procs, NEW c \in Procs, Spawn(p, c)
  PROVE  FrameInv'
<1> USE DEF TypeInv, TypeOK
<1>1. /\ pc[p] = "body" /\ pc[c] = "unborn" /\ p # c
      /\ pc' = [pc EXCEPT ![p] = "bound", ![c] = "body"]
      /\ chain' = [chain EXCEPT ![c] = chain[p] \union {c}]
      /\ parent' = [parent EXCEPT ![c] = p]
      /\ frames' = frames \union {c}
      /\ dropping' = dropping
  BY DEF Spawn
<1>2. dropping[p] = None /\ ~Leaving(p) /\ p \in frames /\ chain[p] \subseteq frames
  BY <1>1 DEF FrameInv, Leaving
<1>3. c \notin chain[p]
  BY <1>1 DEF FrameInv
<1>4. \A q \in Procs : dropping'[q] # None => pc'[q] \in {"unwind", "dtor"}
  BY <1>1, <1>2 DEF FrameInv
<1>5. \A q, r \in Procs : pc'[q] = "unborn" /\ r # q => q \notin chain'[r]
  <2> TAKE q, r \in Procs
  <2> HAVE pc'[q] = "unborn" /\ r # q
  <2>1. pc[q] = "unborn" /\ q # c /\ q # p
    BY <1>1
  <2>2. q \notin chain[r] /\ q \notin chain[p]
    BY <2>1 DEF FrameInv
  <2> QED
    BY <1>1, <2>1, <2>2
<1>6. \A q \in Procs : pc'[q] # "unborn" /\ ~Leaving(q)' => q \in frames'
  BY <1>1, <1>2 DEF FrameInv, Leaving
<1>7. \A q \in frames' : chain'[q] \subseteq frames'
  BY <1>1, <1>2 DEF FrameInv
<1>8. ASSUME NEW q \in frames', NEW f \in chain'[q] \ {q}
      PROVE  \E d \in chain'[q] : parent'[d] = f
  <2>1. CASE q = c /\ f = p
    BY <1>1, <2>1
  <2>2. CASE q = c /\ f # p
    <3>1. f \in chain[p] \ {p}
      BY <1>1, <1>8, <2>2
    <3>2. PICK d \in chain[p] : parent[d] = f
      BY <1>2, <3>1 DEF FrameInv
    <3> QED
      BY <1>1, <1>3, <2>2, <3>2
  <2>3. CASE q # c
    <3>1. q \in frames /\ chain'[q] = chain[q] /\ c \notin chain[q]
      BY <1>1, <1>8, <2>3 DEF FrameInv
    <3>2. PICK d \in chain[q] : parent[d] = f
      BY <1>8, <3>1 DEF FrameInv
    <3>3. parent'[d] = f
      BY <1>1, <3>1, <3>2
    <3> QED
      BY <3>1, <3>3
  <2> QED
    BY <2>1, <2>2, <2>3
<1> QED
  BY <1>4, <1>5, <1>6, <1>7, <1>8 DEF FrameInv

\* A frame dies only when no thread, and no frame in use, refers to it.
LEMMA UnwindFrame ==
  ASSUME TypeInv, FrameInv, NEW p \in Procs, Unwind(p)
  PROVE  FrameInv'
<1> USE DEF TypeInv, TypeOK
<1> DEFINE f == dropping[p]
<1>1. pc[p] = "unwind" /\ UNCHANGED <<chain, parent>> /\ Leaving(p)
  BY DEF Unwind, Leaving
<1>2. ASSUME dropping' = [dropping EXCEPT ![p] = None], UNCHANGED frames, Goto(p, "ended")
      PROVE  FrameInv'
  BY <1>1, <1>2, SameFrames DEF Places, Goto
<1>3. ASSUME NEW t, NEW kept \in BOOLEAN, GiveUp(p, t, kept, "unwind"),
             f # None, UNCHANGED <<frames, dropping>>
      PROVE  FrameInv'
  <2>1. dropping' = [dropping EXCEPT ![p] = f] /\ f \in Procs \union {None}
    BY <1>3
  <2>2. CASE kept
    <3>1. pc' = [pc EXCEPT ![p] = "unwind"]
      BY <1>3, <2>2 DEF GiveUp, Goto
    <3> QED
      BY <1>1, <1>3, <2>1, <3>1, SameFrames DEF Places
  <2>3. CASE ~kept
    <3>1. pc' = [pc EXCEPT ![p] = "dtor"]
      BY <1>3, <2>3 DEF GiveUp, Goto
    <3> QED
      BY <1>1, <1>3, <2>1, <3>1, SameFrames DEF Places
  <2> QED
    BY <2>2, <2>3
<1>4. ASSUME f # None, ~HeldBesides(p, f), UNCHANGED pc,
             frames' = frames \ {f}, dropping' = [dropping EXCEPT ![p] = parent[f]]
      PROVE  FrameInv'
  <2>1. /\ frames' = frames \ {f} /\ UNCHANGED pc
        /\ dropping' = [dropping EXCEPT ![p] = parent[f]]
        /\ f \in Procs
    BY <1>4
  <2>2. Leaving(f) /\ \A c \in frames : parent[c] # f
    BY <1>1, <1>4, <2>1 DEF HeldBesides
  <2>3. \A q \in Procs : dropping'[q] # None => pc'[q] \in {"unwind", "dtor"}
    BY <1>1, <2>1 DEF FrameInv
  <2>4. \A q, r \in Procs : pc'[q] = "unborn" /\ r # q => q \notin chain'[r]
    BY <1>1, <2>1 DEF FrameInv
  <2>5. \A q \in Procs : Leaving(q) => Leaving(q)'
    BY <1>1, <2>1 DEF Leaving
  <2>6. \A q \in Procs : pc'[q] # "unborn" /\ ~Leaving(q)' => q \in frames'
    BY <2>1, <2>2, <2>5 DEF FrameInv
  <2>7. ASSUME NEW q \in frames' PROVE chain'[q] \subseteq frames'
    <3>1. q \in frames /\ q # f /\ chain[q] \subseteq frames
      BY <2>1, <2>7 DEF FrameInv
    <3>2. f \notin chain[q]
      BY <2>2, <3>1 DEF FrameInv
    <3> QED
      BY <1>1, <2>1, <3>1, <3>2
  <2>8. \A q \in frames' : \A g \in chain'[q] \ {q} : \E c \in chain'[q] : parent'[c] = g
    BY <1>1, <2>1 DEF FrameInv
  <2> QED
    BY <2>3, <2>4, <2>6, <2>7, <2>8 DEF FrameInv
<1>5. CASE \E c \in Procs :
        f # None /\ GiveUp(p, c, last[p] = c \/ HeldElsewhere(p, c), "unwind") /\ UNCHANGED <<frames, dropping>>
  BY <1>3, <1>5
<1> QED
  BY <1>2, <1>3, <1>4, <1>5 DEF Unwind

LEMMA FrameStep ==
  ASSUME TypeInv, FrameInv, NEW p \in Procs, NEW q \in Procs, Steps(p, q)
  PROVE  FrameInv'
<1> USE DEF TypeInv, TypeOK, InCall, Goto, EndProgram, Places
<1>0. /\ pc[p] \in {"body", "bound", "lookup", "joinable", "waiting"} =>
           dropping[p] = None /\ ~Leaving(p)
      /\ dropping = [dropping EXCEPT ![p] = dropping[p]] /\ pc = [pc EXCEPT ![p] = pc[p]]
  BY DEF FrameInv, Leaving
<1>1. CASE Spawn(p, q)
  BY <1>1, SpawnFrame
<1>2. CASE Overwrite(p, q) \/ Define(p) \/ Discard(p) \/ EndStatement(p, q) \/ EndStatement(p, None)
  <2>1. /\ pc[p] \in {"body", "bound"} /\ UNCHANGED <<chain, parent, frames, dropping>>
        /\ pc' = [pc EXCEPT ![p] = "dtor"] \/ pc' = [pc EXCEPT ![p] = "body"]
    BY <1>2, SettlePlace DEF Overwrite, Define, Discard, EndStatement, GiveUp
  <2> QED
    BY <1>0, <2>1, SameFrames
<1>3. CASE CallJoin(p, q)
  BY <1>0, <1>3, SameFrames DEF CallJoin
<1>5. CASE EnterJoin(p)
  <2>1. /\ pc[p] = "joinable" /\ UNCHANGED <<chain, parent, frames, dropping>>
        /\ \/ pc' = [pc EXCEPT ![p] = "joinable"] \/ pc' = [pc EXCEPT ![p] = "waiting"]
           \/ pc' = [pc EXCEPT ![p] = "stuck"]
    BY <1>0, <1>5 DEF EnterJoin
  <2> QED
    BY <1>0, <2>1, SameFrames
<1>6. CASE FinishJoin(p)
  BY <1>0, <1>6, SameFrames DEF FinishJoin
<1>7. CASE Destroy(p)
  <2>1. /\ pc[p] = "dtor" /\ UNCHANGED <<chain, parent, frames, dropping>>
        /\ \/ pc' = [pc EXCEPT ![p] = "dtor"]
           \/ pc' = [pc EXCEPT ![p] = "body"] /\ dropping[p] = None
           \/ pc' = [pc EXCEPT ![p] = "unwind"]
    BY <1>0, <1>7 DEF Destroy
  <2>2. Leaving(p) => dropping[p] # None
    BY <2>1 DEF Leaving
  <2> QED
    BY <1>0, <2>1, <2>2, SameFrames
<1>8. CASE Lookup(p) \/ Found(p)
  BY <1>0, <1>8, SameFrames DEF Lookup, Found
<1>9. CASE End(p)
  BY <1>0, <1>9, SameFrames DEF End
<1>10. CASE Throw(p)
  <2>1. pc[p] = "body" /\ UNCHANGED <<pc, chain, parent, frames, dropping>>
    BY <1>10 DEF Throw
  <2> QED
    BY <1>0, <2>1, SameFrames
<1>11. CASE Unwind(p)
  BY <1>11, UnwindFrame
<1> QED
  BY <1>1, <1>2, <1>3, <1>5, <1>6, <1>7, <1>8, <1>9, <1>10, <1>11 DEF Steps

LEMMA FrameNext == TypeInv /\ FrameInv /\ [Next]_vars => FrameInv'
<1>1. ASSUME FrameInv, UNCHANGED vars \/ Exit PROVE FrameInv'
  BY <1>1 DEF FrameInv, Leaving, vars, Exit
<1> QED
  BY <1>1, NextSteps, FrameStep

\* A thread that still runs its body sees no environment that was freed: not
\* its own, and none of those around it.
THEOREM FramesOutlive == SafeSpec => []FramesOutliveThreads
<1>1. TypeInv /\ FrameInv => FramesOutliveThreads
  <2> SUFFICES ASSUME TypeInv, FrameInv, NEW p \in Procs,
                      pc[p] \in {"body", "bound", "lookup"} \union InCall
               PROVE  chain[p] \subseteq frames
    BY DEF FramesOutliveThreads
  <2>1. dropping[p] = None
    BY DEF FrameInv, InCall
  <2>2. ~Leaving(p) /\ pc[p] # "unborn"
    BY <2>1 DEF Leaving, InCall
  <2> QED
    BY <2>2 DEF FrameInv
<1> QED
  BY <1>1, InitType, InitFrame, TypeStep, FrameNext, PTL DEF SafeSpec

-----------------------------------------------------------------------------
(* The end of the program *)

\* A frame encloses those of the threads its body started, and of no thread
\* that started it.
TreeInv ==
  /\ \A p \in Procs : p \in chain[p]
  /\ \A p \in Procs : pc[p] = "unborn" => parent[p] = None
  /\ \A c, p \in Procs : parent[c] = p => p \in chain[c] /\ c \notin chain[p]

\* A program with none of the three habits that let a thread be joined by
\* somebody else than the one who started it.
Tidy == habits \intersect {"leave", "overwrite", "shareJoin"} = {}

\* Then a thread is bound, joined and destroyed by its parent alone, and a
\* scope that ends keeps only handles that were joined.
OwnInv ==
  /\ \A t \in Procs : home[t] # None => parent[t] = home[t]
  /\ \A p \in Procs : pc[p] = "bound" => target[p] \in Procs /\ parent[target[p]] = p
  /\ \A p \in Procs : pc[p] \in InCall => target[p] \in joinable /\ parent[target[p]] = p
  /\ \A p \in Procs : pc[p] = "dtor" => target[p] \in Procs /\ parent[target[p]] # None
  /\ \A p \in Procs : pc[p] = "dtor" /\ target[p] \in joinable => parent[target[p]] = p
  /\ \A p \in Procs : last[p] # None =>
        /\ parent[last[p]] # None
        /\ last[p] \in joinable => parent[last[p]] = p \/ home[last[p]] # None
  /\ \A p \in Procs : Leaving(p) => \A c \in joinable : home[c] # p
  /\ NeverTerminates

CauseInv ==
  /\ Tidy => OwnInv
  /\ fate = "uncaught" => "throw" \in habits

LEMMA TreeStep ==
  ASSUME TypeInv, FrameInv, TreeInv, NEW p \in Procs, NEW q \in Procs, Steps(p, q)
  PROVE  TreeInv'
<1> USE DEF TypeInv, TypeOK
<1>1. CASE Spawn(p, q)
  <2>1. /\ pc[p] = "body" /\ pc[q] = "unborn" /\ p # q
        /\ pc' = [pc EXCEPT ![p] = "bound", ![q] = "body"]
        /\ chain' = [chain EXCEPT ![q] = chain[p] \union {q}]
        /\ parent' = [parent EXCEPT ![q] = p]
    BY <1>1 DEF Spawn
  <2>2. \A r \in Procs \ {q} : q \notin chain[r] /\ parent[r] # q
    BY <2>1 DEF FrameInv, TreeInv
  <2>3. \A r \in Procs : r \in chain'[r] /\ (pc'[r] = "unborn" => parent'[r] = None)
    BY <2>1 DEF TreeInv
  <2>4. ASSUME NEW c \in Procs, NEW r \in Procs, parent'[c] = r
        PROVE  r \in chain'[c] /\ c \notin chain'[r]
    <3>1. CASE c = q
      BY <2>1, <2>2, <2>4, <3>1 DEF TreeInv
    <3>2. CASE c # q
      BY <2>1, <2>2, <2>4, <3>2 DEF TreeInv
    <3> QED
      BY <3>1, <3>2
  <2> QED
    BY <2>3, <2>4 DEF TreeInv
<1>2. CASE ~Spawn(p, q)
  <2>1. UNCHANGED <<chain, parent>> /\ \A r \in Procs : pc'[r] = "unborn" => pc[r] = "unborn"
    <3> USE DEF InCall, Goto
    <3>1. CASE Overwrite(p, q) \/ Define(p) \/ Discard(p) \/ EndStatement(p, q) \/ EndStatement(p, None)
      BY <3>1, SettlePlace DEF Overwrite, Define, Discard, EndStatement, GiveUp
    <3>2. CASE CallJoin(p, q)
      BY <3>2 DEF CallJoin, MayName
    <3>3. CASE EnterJoin(p)
      BY <3>3 DEF EnterJoin
    <3>4. CASE FinishJoin(p) \/ Destroy(p)
      BY <3>4 DEF FinishJoin, Destroy
    <3>5. CASE Lookup(p) \/ Found(p) \/ End(p) \/ Throw(p)
      BY <3>5 DEF Lookup, Found, End, Throw
    <3>6. CASE Unwind(p)
      BY <3>6 DEF Unwind, GiveUp
    <3> QED
      BY <1>2, <3>1, <3>2, <3>3, <3>4, <3>5, <3>6 DEF Steps
  <2> QED
    BY <2>1 DEF TreeInv
<1> QED
  BY <1>1, <1>2

\* No two threads started each other.
LEMMA NoCycle ==
  ASSUME TypeInv, TreeInv, NEW t \in Procs, NEW u \in Procs, parent[t] = u
  PROVE  t # u /\ parent[u] # t
BY DEF TreeInv

\* Spawning, binding and dropping a handle.
LEMMA OwnSpawn ==
  ASSUME TypeInv, FrameInv, TreeInv, OwnInv, NEW p \in Procs, NEW q \in Procs, Spawn(p, q)
  PROVE  OwnInv'
<1> USE ProcsAssumption DEF TypeInv, TypeOK
<1>1. /\ pc[p] = "body" /\ pc[q] = "unborn" /\ p # q
      /\ pc' = [pc EXCEPT ![p] = "bound", ![q] = "body"]
      /\ target' = [target EXCEPT ![p] = q]
      /\ parent' = [parent EXCEPT ![q] = p]
      /\ joinable' = joinable \union {q}
      /\ UNCHANGED <<home, last, dropping, fate>>
  BY DEF Spawn
<1>2. parent[q] = None /\ home[q] = None /\ p # None
  BY <1>1 DEF TreeInv, OwnInv
<1>3. \A t \in Procs : home'[t] # None => parent'[t] = home'[t]
  BY <1>1, <1>2 DEF OwnInv
<1>4. \A r \in Procs : pc'[r] = "bound" => target'[r] \in Procs /\ parent'[target'[r]] = r
  BY <1>1, <1>2 DEF OwnInv
<1>5. \A r \in Procs : pc'[r] \in InCall => target'[r] \in joinable' /\ parent'[target'[r]] = r
  BY <1>1, <1>2 DEF OwnInv, InCall
<1>6. \A r \in Procs : pc'[r] = "dtor" => target'[r] \in Procs /\ parent'[target'[r]] # None
  BY <1>1, <1>2 DEF OwnInv
<1>8. ASSUME NEW r \in Procs, pc'[r] = "dtor", target'[r] \in joinable'
      PROVE  parent'[target'[r]] = r
  <2>1. pc[r] = "dtor" /\ target'[r] = target[r] /\ target[r] \in Procs
    BY <1>1, <1>8 DEF OwnInv
  <2>2. target[r] # q
    BY <1>2, <2>1 DEF OwnInv
  <2> QED
    BY <1>1, <1>8, <2>1, <2>2 DEF OwnInv
<1>9. ASSUME NEW r \in Procs, last'[r] # None
      PROVE  /\ parent'[last'[r]] # None
             /\ last'[r] \in joinable' => parent'[last'[r]] = r \/ home'[last'[r]] # None
  <2>1. last[r] \in Procs /\ last[r] # q
    BY <1>1, <1>2, <1>9 DEF OwnInv
  <2> QED
    BY <1>1, <1>9, <2>1 DEF OwnInv
<1>7. ASSUME NEW r \in Procs, Leaving(r)' PROVE \A c \in joinable' : home'[c] # r
  <2>1. Leaving(r)
    BY <1>1, <1>7 DEF Leaving
  <2> QED
    BY <1>1, <1>2, <2>1 DEF OwnInv
<1> QED
  BY <1>1, <1>3, <1>4, <1>5, <1>6, <1>7, <1>8, <1>9 DEF OwnInv, NeverTerminates

\* The steps of one process that start no thread and leave every Value in its
\* variable, or put the one they bind into their own frame.
LEMMA OwnLocal ==
  ASSUME TypeInv, TreeInv, OwnInv, NEW p \in Procs, TypeInv',
         UNCHANGED parent, NeverTerminates', joinable' \subseteq joinable,
         \A r \in Procs \ {p} :
            /\ pc'[r] = pc[r] /\ target'[r] = target[r]
            /\ dropping'[r] = dropping[r] /\ last'[r] = last[r],
         \A t \in Procs : \/ home'[t] = home[t]
                          \/ home'[t] = None /\ t \notin joinable
                          \/ home'[t] = p /\ parent[t] = p /\ ~Leaving(p)',
         Leaving(p)' => Leaving(p) \/ \A c \in joinable : home[c] # p,
         pc'[p] = "bound" => target'[p] \in Procs /\ parent[target'[p]] = p,
         pc'[p] \in InCall => target'[p] \in joinable' /\ parent[target'[p]] = p,
         pc'[p] = "dtor" => /\ target'[p] \in Procs /\ parent[target'[p]] # None
                            /\ target'[p] \in joinable' => parent[target'[p]] = p,
         last'[p] # None => /\ parent[last'[p]] # None
                            /\ last'[p] \in joinable' => parent[last'[p]] = p \/ home'[last'[p]] # None,
         \A t \in joinable \ joinable' : parent[t] = p
  PROVE  OwnInv'
<1> USE ProcsAssumption DEF TypeInv, TypeOK
<1>1. \A r \in Procs \ {p} : Leaving(r)' <=> Leaving(r)
  BY DEF Leaving
<1>2. \A t \in Procs : home'[t] # None => parent'[t] = home'[t]
  BY DEF OwnInv
<1>3. \A r \in Procs : pc'[r] = "bound" => target'[r] \in Procs /\ parent'[target'[r]] = r
  BY DEF OwnInv
<1>4. ASSUME NEW r \in Procs, pc'[r] \in InCall
      PROVE  target'[r] \in joinable' /\ parent'[target'[r]] = r
  <2>1. CASE r = p
    BY <1>4, <2>1
  <2>2. CASE r # p
    <3>1. pc[r] \in InCall /\ target'[r] = target[r]
          /\ target[r] \in joinable /\ parent[target[r]] = r
      BY <1>4, <2>2 DEF OwnInv
    <3> QED
      BY <2>2, <3>1
  <2> QED
    BY <2>1, <2>2
<1>5. ASSUME NEW r \in Procs, pc'[r] = "dtor"
      PROVE  /\ target'[r] \in Procs /\ parent'[target'[r]] # None
             /\ target'[r] \in joinable' => parent'[target'[r]] = r
  BY <1>5 DEF OwnInv
<1>7. ASSUME NEW r \in Procs, last'[r] # None
      PROVE  /\ parent'[last'[r]] # None
             /\ last'[r] \in joinable' => parent'[last'[r]] = r \/ home'[last'[r]] # None
  <2>1. CASE r = p
    BY <1>7, <2>1
  <2>2. CASE r # p
    <3>1. last'[r] = last[r] /\ last[r] \in Procs
      BY <1>7, <2>2
    <3>2. last[r] \in joinable' => last[r] \in joinable /\ (home[last[r]] # None => home'[last[r]] # None)
      BY <3>1
    <3> QED
      BY <1>7, <3>1, <3>2 DEF OwnInv
  <2> QED
    BY <2>1, <2>2
<1>6. ASSUME NEW r \in Procs, Leaving(r)', NEW c \in joinable'
      PROVE  home'[c] # r
  <2>1. c \in joinable /\ c \in Procs /\ r # None
    OBVIOUS
  <2>2. home'[c] = r => home[c] = r
    BY <1>6, <2>1
  <2>3. CASE r = p
    BY <1>6, <2>1, <2>2, <2>3 DEF OwnInv
  <2>4. CASE r # p
    BY <1>1, <1>6, <2>1, <2>2, <2>4 DEF OwnInv
  <2> QED
    BY <2>3, <2>4
<1> QED
  BY <1>2, <1>3, <1>4, <1>5, <1>6, <1>7 DEF OwnInv

\* The end of a statement whose result is a thread of p, or one that a variable
\* has.
LEMMA OwnSettle ==
  ASSUME TypeInv, TypeInv', TreeInv, OwnInv, NEW p \in Procs, NEW v \in Procs \union {None},
         Settle(p, v), pc[p] \in {"body", "bound"}, ~Leaving(p), dropping[p] = None,
         UNCHANGED <<parent, joinable, dropping, fate>>,
         v # None => parent[v] # None /\ (parent[v] = p \/ home'[v] # None),
         \A t \in Procs : home'[t] = home[t] \/ (home'[t] = p /\ parent[t] = p)
  PROVE  OwnInv'
<1> DEFINE l == last[p]
           kept == l \in {None, v} \/ home[l] # None \/ HeldElsewhere(p, l)
<1>1. /\ last' = [last EXCEPT ![p] = v]
      /\ target' = [target EXCEPT ![p] = IF kept THEN None ELSE l]
      /\ pc' = [pc EXCEPT ![p] = IF kept THEN "body" ELSE "dtor"]
  BY DEF Settle, GiveUp, Goto
<1>2. ~kept => l \in Procs /\ parent[l] # None /\ (l \in joinable => parent[l] = p)
  BY DEF OwnInv, TypeInv, TypeOK
<1> HIDE DEF kept
<1>3. pc'[p] = "dtor" => /\ target'[p] \in Procs /\ parent[target'[p]] # None
                         /\ target'[p] \in joinable' => parent[target'[p]] = p
  BY <1>1, <1>2 DEF TypeInv, TypeOK
<1>4. pc'[p] \in {"body", "dtor"} /\ ~Leaving(p)' /\ last'[p] = v
  BY <1>1 DEF Leaving, TypeInv, TypeOK
<1>5. NeverTerminates'
  BY DEF OwnInv, NeverTerminates
<1>6. \A r \in Procs \ {p} : /\ pc'[r] = pc[r] /\ target'[r] = target[r]
                             /\ dropping'[r] = dropping[r] /\ last'[r] = last[r]
  BY <1>1 DEF TypeInv, TypeOK
<1>7. pc'[p] \notin InCall /\ pc'[p] # "bound"
  BY <1>4 DEF InCall
<1>8. \A t \in Procs : home'[t] = home[t] \/ (home'[t] = p /\ parent[t] = p /\ ~Leaving(p)')
  BY <1>4
<1>9. last'[p] # None => /\ parent[last'[p]] # None
                         /\ last'[p] \in joinable' => parent[last'[p]] = p \/ home'[last'[p]] # None
  BY <1>4
<1>10. joinable' \subseteq joinable /\ \A t \in joinable \ joinable' : parent[t] = p
  OBVIOUS
<1> QED
  BY <1>3, <1>4, <1>5, <1>6, <1>7, <1>8, <1>9, <1>10, OwnLocal

\* Under those habits a thread is joined by its parent alone.
LEMMA OneJoiner ==
  ASSUME TypeInv, TreeInv, OwnInv, NEW u \in Procs, target[u] \in Procs,
         parent[target[u]] = u
  PROVE  /\ target[u] # u
         /\ ~(pc[target[u]] = "waiting" /\ target[target[u]] = u)
         /\ \A w \in Joining(target[u]) : w = u
<1>1. target[u] # u /\ parent[u] # target[u]
  BY NoCycle
<1>2. \A w \in Joining(target[u]) : w \in Procs /\ parent[target[u]] = w
  BY DEF Joining, OwnInv
<1>3. pc[target[u]] = "waiting" => parent[target[target[u]]] = target[u]
  BY DEF OwnInv, InCall
<1> QED
  BY <1>1, <1>2, <1>3

LEMMA OwnStep ==
  ASSUME TypeInv, FrameInv, TreeInv, OwnInv, Tidy,
         NEW p \in Procs, NEW q \in Procs, Steps(p, q), UNCHANGED habits
  PROVE  OwnInv'
<1>type. TypeInv'
  BY StepType
<1> USE ProcsAssumption DEF TypeInv, TypeOK, InCall, Goto, EndProgram, Places
<1>0. /\ pc[p] \in {"body", "bound", "lookup"} \union InCall => dropping[p] = None /\ ~Leaving(p)
      /\ dropping = [dropping EXCEPT ![p] = dropping[p]] /\ pc = [pc EXCEPT ![p] = pc[p]]
      /\ target = [target EXCEPT ![p] = target[p]]
  BY DEF FrameInv, Leaving
<1>1. CASE Spawn(p, q)
  BY <1>1, OwnSpawn
<1>2. CASE Overwrite(p, q)
  BY <1>2 DEF Overwrite, Tidy
<1>3. CASE CallJoin(p, q)
  <2>1. /\ pc[p] = "body" /\ home[q] = p /\ q \in joinable /\ UNCHANGED <<home, last, dropping, fate, parent, joinable>>
        /\ pc' = [pc EXCEPT ![p] = "joinable"] /\ target' = [target EXCEPT ![p] = q]
    BY <1>3 DEF CallJoin, MayName, Tidy
  <2>2. parent[q] = p
    BY <2>1 DEF OwnInv
  <2> QED
    BY <1>0, <2>1, <2>2, <1>type, OwnLocal DEF OwnInv, NeverTerminates, Leaving
<1>4. CASE Define(p) \/ Discard(p)
  <2>1. /\ pc[p] = "bound" /\ Settle(p, target[p])
        /\ home' = home \/ home' = [home EXCEPT ![target[p]] = p]
        /\ UNCHANGED <<parent, joinable, dropping, fate>>
    BY <1>4 DEF Define, Discard
  <2>2. target[p] \in Procs /\ parent[target[p]] = p
    BY <2>1 DEF OwnInv
  <2> QED
    BY <1>0, <2>1, <2>2, <1>type, OwnSettle
<1>5. CASE EndStatement(p, q) \/ EndStatement(p, None)
  <2>1. PICK v \in Procs \union {None} : Settle(p, v) /\ (v # None => home[v] # None)
    BY <1>5 DEF EndStatement, MayName
  <2>2. pc[p] = "body" /\ UNCHANGED <<home, parent, joinable, dropping, fate>>
    BY <1>5 DEF EndStatement
  <2>3. v # None => parent[v] # None
    BY <2>1 DEF OwnInv
  <2> QED
    BY <1>0, <2>1, <2>2, <2>3, <1>type, OwnSettle
<1>6. CASE EnterJoin(p)
  <2>1. pc[p] = "joinable" /\ UNCHANGED <<home, last, target, parent, joinable, dropping>>
    BY <1>6 DEF EnterJoin
  <2>2. target[p] \in joinable /\ target[p] \in Procs /\ parent[target[p]] = p
    BY <2>1 DEF OwnInv
  <2>3. /\ target[p] # p /\ ~(pc[target[p]] = "waiting" /\ target[target[p]] = p)
        /\ ~\E w \in Joining(target[p]) : pc[w] = "waiting"
    BY <2>1, <2>2, OneJoiner
  <2>4. pc' = [pc EXCEPT ![p] = "waiting"] /\ UNCHANGED fate
    BY <1>6, <2>2, <2>3 DEF EnterJoin
  <2> QED
    BY <1>0, <2>1, <2>2, <2>4, <1>type, OwnLocal DEF OwnInv, NeverTerminates, Leaving
<1>7. CASE FinishJoin(p)
  <2>1. /\ pc[p] = "waiting" /\ joinable' = joinable \ {target[p]}
        /\ pc' = [pc EXCEPT ![p] = "body"] /\ target' = [target EXCEPT ![p] = None]
        /\ UNCHANGED <<home, last, parent, dropping, fate>>
    BY <1>7 DEF FinishJoin
  <2>2. parent[target[p]] = p
    BY <2>1 DEF OwnInv
  <2> QED
    BY <1>0, <2>1, <2>2, <1>type, OwnLocal DEF OwnInv, NeverTerminates, Leaving
<1>8. CASE Destroy(p)
  <2>1. pc[p] = "dtor" /\ target[p] \in Procs /\ UNCHANGED <<home, last, parent, dropping>>
    BY <1>8 DEF Destroy, OwnInv
  <2>2. target[p] \in joinable => parent[target[p]] = p
    BY <2>1 DEF OwnInv
  <2>3. /\ joinable' = joinable \ {target[p]} /\ target' = [target EXCEPT ![p] = None]
        /\ pc' = [pc EXCEPT ![p] = IF dropping[p] = None THEN "body" ELSE "unwind"]
        /\ UNCHANGED fate
    BY <1>8, <2>1, <2>2, OneJoiner DEF Destroy
  <2>4. dropping[p] # None => Leaving(p)
    BY DEF Leaving
  <2>5. CASE dropping[p] = None
    BY <1>0, <2>1, <2>2, <2>3, <2>5, <1>type, OwnLocal DEF OwnInv, NeverTerminates, Leaving
  <2>6. CASE dropping[p] # None
    BY <1>0, <2>1, <2>2, <2>3, <2>4, <2>6, <1>type, OwnLocal DEF OwnInv, NeverTerminates, Leaving
  <2> QED
    BY <2>5, <2>6
<1>9. CASE Lookup(p) \/ Found(p)
  BY <1>0, <1>9, <1>type, OwnLocal DEF Lookup, Found, OwnInv, NeverTerminates, Leaving
<1>10. CASE End(p)
  <2>1. /\ pc[p] = "body" /\ \A c \in joinable : home[c] # p
        /\ pc' = [pc EXCEPT ![p] = "unwind"] /\ dropping' = [dropping EXCEPT ![p] = p]
        /\ UNCHANGED <<home, last, target, parent, joinable, fate>>
    BY <1>10 DEF End, Tidy
  <2> QED
    BY <1>0, <2>1, <1>type, OwnLocal DEF OwnInv, NeverTerminates, Leaving
<1>11. CASE Throw(p)
  <2>1. /\ pc[p] = "body" /\ fate' = "uncaught"
        /\ UNCHANGED <<home, last, pc, target, parent, joinable, dropping>>
    BY <1>11 DEF Throw
  <2> QED
    BY <1>0, <2>1, <1>type, OwnLocal DEF OwnInv, NeverTerminates, Leaving
<1>12. CASE Unwind(p)
  <2> DEFINE f == dropping[p]
  <2>1. pc[p] = "unwind" /\ Leaving(p) /\ UNCHANGED <<parent, joinable, fate>>
    BY <1>12 DEF Unwind, Leaving
  <2>2. ASSUME dropping' = [dropping EXCEPT ![p] = None], pc' = [pc EXCEPT ![p] = "ended"],
               UNCHANGED <<target, home, last>>
        PROVE  OwnInv'
    BY <1>0, <2>1, <2>2, <1>type, OwnLocal DEF OwnInv, NeverTerminates, Leaving
  <2>3. ASSUME dropping' = [dropping EXCEPT ![p] = parent[f]], UNCHANGED <<pc, target, home, last>>
        PROVE  OwnInv'
    BY <1>0, <2>1, <2>3, <1>type, OwnLocal DEF OwnInv, NeverTerminates, Leaving
  <2>4. ASSUME NEW c \in Procs, NEW kept \in BOOLEAN, c \notin joinable, parent[c] # None,
               home' = [home EXCEPT ![c] = None], GiveUp(p, c, kept, "unwind"),
               UNCHANGED <<last, dropping>>
        PROVE  OwnInv'
    <3>1. /\ target' = [target EXCEPT ![p] = IF kept THEN None ELSE c]
          /\ pc' = [pc EXCEPT ![p] = IF kept THEN "unwind" ELSE "dtor"]
      BY <2>4 DEF GiveUp
    <3>2. /\ pc'[p] \in {"unwind", "dtor"} /\ (pc'[p] = "dtor" => target'[p] = c)
          /\ \A r \in Procs \ {p} : /\ pc'[r] = pc[r] /\ target'[r] = target[r]
                                  /\ dropping'[r] = dropping[r] /\ last'[r] = last[r]
      BY <2>4, <3>1
    <3>3. last'[p] # None => /\ parent[last'[p]] # None
                             /\ last'[p] \in joinable' => parent[last'[p]] = p \/ home'[last'[p]] # None
      BY <2>1, <2>4 DEF OwnInv
    <3>4. NeverTerminates' /\ \A t \in joinable \ joinable' : parent[t] = p
      BY <2>1 DEF OwnInv, NeverTerminates
    <3>5. \A t \in Procs : home'[t] = home[t] \/ (home'[t] = None /\ t \notin joinable)
      BY <2>4
    <3>6. pc'[p] = "dtor" => /\ target'[p] \in Procs /\ parent[target'[p]] # None
                             /\ target'[p] \in joinable' => parent[target'[p]] = p
      BY <2>1, <2>4, <3>2
    <3> QED
      BY <2>1, <3>2, <3>3, <3>4, <3>5, <3>6, <1>type, OwnLocal
  <2>5. ASSUME NEW kept \in BOOLEAN, last[p] # None, last' = [last EXCEPT ![p] = None],
               GiveUp(p, last[p], kept, "unwind"), ~kept => home[last[p]] = None,
               UNCHANGED <<home, dropping>>
        PROVE  OwnInv'
    <3>1. /\ target' = [target EXCEPT ![p] = IF kept THEN None ELSE last[p]]
          /\ pc' = [pc EXCEPT ![p] = IF kept THEN "unwind" ELSE "dtor"]
      BY <2>5 DEF GiveUp
    <3>2. /\ pc'[p] \in {"unwind", "dtor"} /\ (pc'[p] = "dtor" => target'[p] = last[p] /\ home[last[p]] = None)
          /\ \A r \in Procs \ {p} : /\ pc'[r] = pc[r] /\ target'[r] = target[r]
                                  /\ dropping'[r] = dropping[r] /\ last'[r] = last[r]
      BY <2>5, <3>1
    <3>3. last[p] \in Procs /\ last'[p] = None /\ parent[last[p]] # None
      BY <2>5 DEF OwnInv
    <3>4. pc'[p] = "dtor" => (last[p] \in joinable => parent[last[p]] = p)
      BY <2>5, <3>2 DEF OwnInv
    <3>5. NeverTerminates' /\ \A t \in joinable \ joinable' : parent[t] = p
      BY <2>1 DEF OwnInv, NeverTerminates
    <3>6. pc'[p] = "dtor" => /\ target'[p] \in Procs /\ parent[target'[p]] # None
                             /\ target'[p] \in joinable' => parent[target'[p]] = p
      BY <2>1, <3>2, <3>3, <3>4
    <3> QED
      BY <2>1, <2>5, <3>2, <3>3, <3>5, <3>6, <1>type, OwnLocal
  <2>6. ASSUME NEW c \in Procs, f # None, ~HeldBesides(p, f), home[c] = f
        PROVE  c \notin joinable /\ parent[c] # None
    <3>1. Leaving(f)
      BY <2>1, <2>6 DEF HeldBesides
    <3> QED
      BY <2>6, <3>1 DEF OwnInv
  <2> QED
    BY <1>12, <2>2, <2>3, <2>4, <2>5, <2>6 DEF Unwind
<1> QED
  BY <1>1, <1>2, <1>3, <1>4, <1>5, <1>6, <1>7, <1>8, <1>9, <1>10, <1>11, <1>12 DEF Steps

LEMMA TreeNext == TypeInv /\ FrameInv /\ TreeInv /\ [Next]_vars => TreeInv'
<1>1. ASSUME TreeInv, UNCHANGED vars \/ Exit PROVE TreeInv'
  BY <1>1 DEF TreeInv, vars, Exit
<1> QED
  BY <1>1, NextSteps, TreeStep

LEMMA ThrowStep ==
  ASSUME NEW p \in Procs, NEW q \in Procs, Steps(p, q), fate' = "uncaught"
  PROVE  fate = "uncaught" \/ "throw" \in habits
BY DEF Steps, Spawn, Overwrite, CallJoin, Define, Discard, EndStatement, EnterJoin, FinishJoin,
       Destroy, Lookup, Found, End, Throw, Unwind, EndProgram

LEMMA CauseNext ==
  TypeInv /\ FrameInv /\ TreeInv /\ CauseInv /\ [Next]_vars => CauseInv'
<1>1. ASSUME CauseInv, UNCHANGED vars PROVE CauseInv'
  BY <1>1 DEF CauseInv, Tidy, OwnInv, Leaving, NeverTerminates, vars
<1>2. ASSUME CauseInv, Exit, UNCHANGED habits PROVE CauseInv'
  BY <1>2 DEF CauseInv, Tidy, OwnInv, Leaving, NeverTerminates, Exit, EndProgram
<1>3. ASSUME TypeInv, FrameInv, TreeInv, CauseInv, UNCHANGED habits,
             NEW p \in Procs, NEW q \in Procs, Steps(p, q)
      PROVE  CauseInv'
  <2>1. Tidy' => OwnInv'
    BY <1>3, OwnStep DEF CauseInv, Tidy
  <2>2. fate' = "uncaught" => "throw" \in habits'
    BY <1>3, ThrowStep DEF CauseInv
  <2> QED
    BY <2>1, <2>2 DEF CauseInv
<1> QED
  BY <1>1, <1>2, <1>3, NextSteps

\* A program whose every thread is joined by the one that started it, before
\* its scope ends, is never aborted by std::thread; one that does not throw
\* out of a thread is not aborted by an exception either.
THEOREM AbortsAreCaused == SafeSpec => []AbortHasCause
<1>1. Init => TreeInv /\ CauseInv
  BY ProcsAssumption DEF Init, TreeInv, CauseInv, OwnInv, Leaving, NeverTerminates, InCall
<1>2. CauseInv => AbortHasCause
  BY DEF CauseInv, AbortHasCause, Tidy, OwnInv
<1> QED
  BY <1>1, <1>2, InitType, InitFrame, TypeStep, FrameNext, TreeNext, CauseNext, PTL DEF SafeSpec

-----------------------------------------------------------------------------
(* Waiting *)

\* What a process outside its body needs to take its next step.
MayGo(p) ==
  \/ pc[p] \in {"joinable", "unwind"}
  \/ pc[p] = "bound" /\ Unlocked(p, {p})
  \/ pc[p] = "lookup" /\ Unlocked(p, chain[p])
  \/ pc[p] = "waiting" /\ pc[target[p]] = "ended"
  \/ pc[p] = "dtor" /\ (target[p] \in joinable => pc[target[p]] = "ended")

\* In a program that joins its own handles before their scope ends, the threads
\* never all wait for one another, in join, in ~Value or for a mutex.
SomebodyGoesOn ==
  Tidy => \/ \A p \in Procs : pc[p] \in {"unborn", "ended"}
          \/ \E p \in Procs : pc[p] = "body" \/ MayGo(p)

WaitInv ==
  /\ \A c, p \in Procs : parent[c] = p => chain[c] = chain[p] \union {c}
  /\ "overwrite" \notin habits => \A f \in Procs : envLock[f] = None
  /\ Tidy => \A p \in Procs : pc[p] # "stuck"

LEMMA ChainStep ==
  ASSUME TypeInv, FrameInv, TreeInv, WaitInv, NEW p \in Procs, NEW q \in Procs, Steps(p, q)
  PROVE  \A c, r \in Procs : parent'[c] = r => chain'[c] = chain'[r] \union {c}
<1> USE DEF TypeInv, TypeOK
<1>1. CASE Spawn(p, q)
  <2>1. /\ pc[p] = "body" /\ pc[q] = "unborn" /\ p # q
        /\ chain' = [chain EXCEPT ![q] = chain[p] \union {q}]
        /\ parent' = [parent EXCEPT ![q] = p]
    BY <1>1 DEF Spawn
  <2>2. \A r \in Procs : parent[r] # q
    BY <2>1 DEF FrameInv, TreeInv
  <2> SUFFICES ASSUME NEW c \in Procs, NEW r \in Procs, parent'[c] = r
               PROVE  chain'[c] = chain'[r] \union {c}
    OBVIOUS
  <2>3. CASE c = q
    <3>1. r = p /\ chain'[c] = chain[p] \union {c} /\ chain'[p] = chain[p]
      BY <2>1, <2>3
    <3> QED
      BY <3>1
  <2>4. CASE c # q
    <3>1. parent[c] = r /\ r # q
      BY <2>1, <2>2, <2>4
    <3>2. chain'[c] = chain[c] /\ chain'[r] = chain[r]
      BY <2>1, <2>4, <3>1
    <3> QED
      BY <3>1, <3>2 DEF WaitInv
  <2> QED
    BY <2>3, <2>4
<1>2. CASE ~Spawn(p, q)
  <2>1. UNCHANGED <<chain, parent>>
    BY <1>2 DEF Steps, Overwrite, CallJoin, Define, Discard, EndStatement, EnterJoin, FinishJoin,
                Destroy, Lookup, Found, End, Throw, Unwind
  <2> QED
    BY <2>1 DEF WaitInv
<1> QED
  BY <1>1, <1>2

LEMMA LockStep ==
  ASSUME TypeInv, WaitInv, NEW p \in Procs, NEW q \in Procs, Steps(p, q), "overwrite" \notin habits
  PROVE  \A f \in Procs : envLock'[f] = None
<1> USE DEF TypeInv, TypeOK
<1>1. CASE Destroy(p)
  BY <1>1 DEF Destroy, WaitInv
<1>2. CASE ~Destroy(p)
  <2>1. ~Overwrite(p, q)
    BY DEF Overwrite
  <2>2. UNCHANGED envLock
    BY <1>2, <2>1 DEF Steps, Spawn, CallJoin, Define, Discard, EndStatement, EnterJoin, FinishJoin,
                      Lookup, Found, End, Throw, Unwind
  <2> QED
    BY <2>2 DEF WaitInv
<1> QED
  BY <1>1, <1>2

LEMMA StuckStep ==
  ASSUME TypeInv, TreeInv, OwnInv, WaitInv, Tidy, NEW p \in Procs, NEW q \in Procs, Steps(p, q)
  PROVE  \A r \in Procs : pc'[r] # "stuck"
<1> USE DEF TypeInv, TypeOK, Goto
<1>1. CASE EnterJoin(p)
  <2>1. pc[p] = "joinable"
    BY <1>1 DEF EnterJoin
  <2>2. target[p] \in Procs /\ parent[target[p]] = p
    BY <2>1 DEF OwnInv, InCall
  <2>3. \A w \in Joining(target[p]) : w = p
    BY <2>2, OneJoiner
  <2>4. pc' = pc \/ pc' = [pc EXCEPT ![p] = "waiting"]
    BY <1>1, <2>1, <2>3 DEF EnterJoin
  <2> QED
    BY <2>4 DEF WaitInv
<1>2. CASE Spawn(p, q) \/ CallJoin(p, q)
  BY <1>2 DEF Spawn, CallJoin, WaitInv
<1>5. CASE Overwrite(p, q) \/ Define(p) \/ Discard(p) \/ EndStatement(p, q) \/ EndStatement(p, None)
  <2>1. pc' \in {[pc EXCEPT ![p] = "dtor"], [pc EXCEPT ![p] = "body"]}
    BY <1>5, SettlePlace DEF Overwrite, Define, Discard, EndStatement, GiveUp
  <2> QED
    BY <2>1 DEF WaitInv
<1>3. CASE FinishJoin(p) \/ Destroy(p) \/ Lookup(p) \/ Found(p)
  BY <1>3 DEF FinishJoin, Destroy, Lookup, Found, WaitInv
<1>4. CASE End(p) \/ Throw(p) \/ Unwind(p)
  BY <1>4 DEF End, Throw, Unwind, GiveUp, WaitInv
<1> QED
  BY <1>1, <1>2, <1>3, <1>4, <1>5 DEF Steps

LEMMA WaitNext ==
  TypeInv /\ FrameInv /\ TreeInv /\ CauseInv /\ WaitInv /\ [Next]_vars => WaitInv'
<1>1. ASSUME WaitInv, UNCHANGED vars PROVE WaitInv'
  BY <1>1 DEF WaitInv, Tidy, vars
<1>2. ASSUME WaitInv, Exit, UNCHANGED habits PROVE WaitInv'
  BY <1>2 DEF WaitInv, Tidy, Exit
<1>3. ASSUME TypeInv, FrameInv, TreeInv, CauseInv, WaitInv, UNCHANGED habits,
             NEW p \in Procs, NEW q \in Procs, Steps(p, q)
      PROVE  WaitInv'
  <2>1. \A c, r \in Procs : parent'[c] = r => chain'[c] = chain'[r] \union {c}
    BY <1>3, ChainStep
  <2>2. "overwrite" \notin habits' => \A f \in Procs : envLock'[f] = None
    BY <1>3, LockStep
  <2>3. Tidy' => \A r \in Procs : pc'[r] # "stuck"
    <3>1. Tidy' => Tidy /\ OwnInv
      BY <1>3 DEF Tidy, CauseInv
    <3> QED
      BY <1>3, <3>1, StuckStep
  <2> QED
    BY <2>1, <2>2, <2>3 DEF WaitInv
<1> QED
  BY <1>1, <1>2, <1>3, NextSteps

LEMMA LeastOf ==
  ASSUME NEW S \in SUBSET Nat, S # {}
  PROVE  \E m \in S : \A k \in S : m =< k
<1> DEFINE R == {ss \in Nat \X Nat : ss[1] < ss[2]}
<1>1. IsWellFoundedOn(R, Nat)
  BY NatLessThanWellFounded DEF OpToRel
<1>2. PICK m \in S : \A k \in S : ~ (<<k, m>> \in R)
  <2> HIDE DEF R
  <2> QED
    BY <1>1, WFMin
<1>3. \A k, n \in S : k < n => <<k, n>> \in R
  OBVIOUS
<1>4. \A k \in S : ~ (k < m)
  BY <1>2, <1>3
<1> QED
  BY <1>4

\* The innermost of the threads that wait would wait for one further inside.
LEMMA WaitsInward ==
  ASSUME IsFiniteSet(Procs), TypeInv, TreeInv, CauseInv, WaitInv
  PROVE  SomebodyGoesOn
<1> USE DEF TypeInv, TypeOK
<1> SUFFICES ASSUME Tidy, NEW first \in Procs, pc[first] \notin {"unborn", "ended"},
                    \A p \in Procs : pc[p] # "body" /\ ~MayGo(p)
             PROVE  FALSE
  BY DEF SomebodyGoesOn
<1> DEFINE S == {p \in Procs : pc[p] \notin {"unborn", "ended"}}
           Depth(p) == Cardinality(chain[p])
<1>1. OwnInv /\ "overwrite" \notin habits
  BY DEF CauseInv, Tidy
<1>2. ASSUME NEW p \in S
      PROVE  target[p] \in S /\ parent[target[p]] = p
  <2>1. pc[p] \in Places /\ p \in Procs
    OBVIOUS
  <2>2. \A fs \in SUBSET Procs : Unlocked(p, fs)
    BY <1>1 DEF WaitInv, Unlocked
  <2>3. pc[p] \in {"waiting", "dtor"}
    <3>1. Unlocked(p, {p}) /\ Unlocked(p, chain[p])
      BY <2>1, <2>2
    <3>2. pc[p] # "stuck"
      BY <2>1 DEF WaitInv
    <3> QED
      BY <2>1, <3>1, <3>2 DEF MayGo, Places, InCall
  <2>4. target[p] \in Procs /\ parent[target[p]] = p /\ pc[target[p]] # "ended"
    <3>1. CASE pc[p] = "waiting"
      BY <1>1, <2>1, <3>1 DEF MayGo, OwnInv, InCall
    <3>2. CASE pc[p] = "dtor"
      BY <1>1, <2>1, <3>2 DEF MayGo, OwnInv
    <3> QED
      BY <2>3, <3>1, <3>2
  <2>5. pc[target[p]] # "unborn"
    BY <2>1, <2>4, ProcsAssumption DEF TreeInv
  <2> QED
    BY <2>4, <2>5
<1>3. ASSUME NEW p \in Procs PROVE Depth(p) \in Nat /\ Depth(p) =< Cardinality(Procs)
  <2>1. chain[p] \subseteq Procs
    OBVIOUS
  <2> QED
    BY <2>1, FS_Subset, FS_CardinalityType
<1>4. ASSUME NEW p \in S PROVE Depth(target[p]) = Depth(p) + 1
  <2>1. chain[target[p]] = chain[p] \union {target[p]} /\ target[p] \notin chain[p]
    BY <1>2 DEF WaitInv, TreeInv
  <2>2. IsFiniteSet(chain[p])
    BY FS_Subset
  <2> QED
    BY <2>1, <2>2, FS_AddElement
<1> DEFINE Above(p) == Cardinality(Procs) - Depth(p)
           M == {Above(p) : p \in S}
<1>5. M \in SUBSET Nat /\ M # {} /\ Cardinality(Procs) \in Nat
  <2>1. Cardinality(Procs) \in Nat
    BY FS_CardinalityType
  <2>2. \A p \in S : Above(p) \in Nat
    <3> HIDE DEF Depth
    <3> QED
      BY <1>3, <2>1
  <2>3. first \in S
    OBVIOUS
  <2> HIDE DEF S, Above
  <2> QED
    BY <2>1, <2>2, <2>3
<1>6. PICK p \in S : \A r \in S : Above(p) =< Above(r)
  <2>1. PICK m \in M : \A k \in M : m =< k
    <3> HIDE DEF M
    <3> QED
      BY <1>5, LeastOf
  <2> HIDE DEF S, Above
  <2> QED
    BY <2>1
<1>7. Above(p) =< Above(target[p])
  BY <1>2, <1>6
<1>8. p \in Procs /\ target[p] \in Procs /\ Depth(target[p]) = Depth(p) + 1
  BY <1>2, <1>4
<1>9. Depth(p) \in Nat
  BY <1>3, <1>8
<1> HIDE DEF Depth, S, M
<1> QED
  BY <1>5, <1>7, <1>8, <1>9

\* Any finite number of threads of a program that joins its own handles before
\* their scope ends: as long as a thread has not ended, some thread can go on (the
\* documented use of spawn and join cannot deadlock).
THEOREM NoDeadlock ==
  ASSUME IsFiniteSet(Procs)
  PROVE  SafeSpec => []SomebodyGoesOn
<1>1. Init => TreeInv /\ CauseInv /\ WaitInv
  BY ProcsAssumption DEF Init, TreeInv, CauseInv, OwnInv, Leaving, NeverTerminates, InCall, WaitInv
<1>2. TypeInv /\ TreeInv /\ CauseInv /\ WaitInv => SomebodyGoesOn
  BY WaitsInward
<1> QED
  BY <1>1, <1>2, InitType, InitFrame, TypeStep, FrameNext, TreeNext, CauseNext, WaitNext, PTL DEF SafeSpec

=============================================================================
