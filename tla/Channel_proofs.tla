--------------------------- MODULE Channel_proofs ---------------------------
(***************************************************************************)
(* Proofs about Channel, for any finite set of threads and any number of    *)
(* values sent.  Fairness plays no part in them: every theorem is about     *)
(* SafeSpec, which Spec implies.                                            *)
(***************************************************************************)
EXTENDS Channel, FiniteSetTheorems, SequenceTheorems, TLAPS

\* A thread between the call of send and the push has a value to push.
IssuedInv ==
  \A t \in Threads : pc[t] \in {"sendLock", "sendPush"} => issued[t] >= 1

TypeInv == TypeOK /\ IssuedInv

-----------------------------------------------------------------------------
(***************************************************************************)
(* Types                                                                   *)
(***************************************************************************)

\* A pop takes the front of the queue to the end of the delivered values, so
\* the two together do not change.
LEMMA PopKeepsLog ==
  ASSUME NEW S, NEW d \in Seq(S), NEW q \in Seq(S), q # <<>>
  PROVE  Append(d, Head(q)) \o Tail(q) = d \o q
<1>1. /\ Head(q) \in S
      /\ Tail(q) \in Seq(S)
      /\ Len(Tail(q)) = Len(q) - 1
      /\ \A i \in 1..Len(Tail(q)) : Tail(q)[i] = q[i + 1]
  BY HeadTailProperties
<1>2. Append(d, Head(q)) = d \o <<Head(q)>>
  BY <1>1, AppendIsConcat
<1>3. <<Head(q)>> \o Tail(q) = q
  BY <1>1
<1>4. (d \o <<Head(q)>>) \o Tail(q) = d \o (<<Head(q)>> \o Tail(q))
  BY <1>1, ConcatAssociative
<1> QED
  BY <1>2, <1>3, <1>4

\* A push puts the new value at the end of the log.
LEMMA PushExtendsLog ==
  ASSUME NEW S, NEW d \in Seq(S), NEW q \in Seq(S), NEW m \in S
  PROVE  d \o Append(q, m) = Append(d \o q, m)
<1>1. /\ Append(q, m) = q \o <<m>>
      /\ d \o q \in Seq(S)
      /\ <<m>> \in Seq(S)
  BY AppendIsConcat, ConcatProperties
<1>2. Append(d \o q, m) = (d \o q) \o <<m>>
  BY <1>1, AppendIsConcat
<1>3. (d \o q) \o <<m>> = d \o (q \o <<m>>)
  BY <1>1, ConcatAssociative
<1> QED
  BY <1>1, <1>2, <1>3

\* Every reachable state is well typed, and the values carry the numbers
\* 1..MaxSends of their senders.
LEMMA Typing == SafeSpec => []TypeInv
<1> USE MaxSendsAssumption, ThreadsAssumption
        DEF TypeInv, TypeOK, IssuedInv, Messages, Locations, Receiving
<1>1. Init => TypeInv
  BY DEF Init
<1>2. TypeInv /\ [Next]_vars => TypeInv'
  <2> SUFFICES ASSUME TypeInv, [Next]_vars
               PROVE  TypeInv'
    OBVIOUS
  <2> USE DEF Goto, Acquire, Release
  <2>1. ASSUME NEW t \in Threads, CallSend(t)
        PROVE  TypeInv'
    BY <2>1 DEF CallSend
  <2>2. ASSUME NEW t \in Threads, SendLock(t)
        PROVE  TypeInv'
    BY <2>2 DEF SendLock
  <2>3. ASSUME NEW t \in Threads, SendPush(t)
        PROVE  TypeInv'
    <3>1. [from |-> t, n |-> issued[t]] \in Messages
      BY <2>3 DEF SendPush
    <3>2. Append(queue, [from |-> t, n |-> issued[t]]) \in Seq(Messages)
      BY <3>1, AppendProperties
    <3> QED
      BY <2>3, <3>2 DEF SendPush
  <2>4. ASSUME NEW t \in Threads, SendNotify(t)
        PROVE  TypeInv'
    BY <2>4 DEF SendNotify, Waiters, At
  <2>5. ASSUME NEW t \in Threads, CallRecv(t)
        PROVE  TypeInv'
    BY <2>5 DEF CallRecv
  <2>6. ASSUME NEW t \in Threads, RecvLock(t)
        PROVE  TypeInv'
    BY <2>6 DEF RecvLock
  <2>7. ASSUME NEW t \in Threads, RecvPop(t)
        PROVE  TypeInv'
    <3>1. /\ Head(queue) \in Messages
          /\ Tail(queue) \in Seq(Messages)
      BY <2>7, HeadTailProperties DEF RecvPop
    <3>2. Append(delivered, Head(queue)) \in Seq(Messages)
      BY <3>1, AppendProperties
    <3> QED
      BY <2>7, <3>1, <3>2 DEF RecvPop
  <2>8. ASSUME NEW t \in Threads, RecvWait(t)
        PROVE  TypeInv'
    BY <2>8 DEF RecvWait
  <2>9. ASSUME NEW t \in Threads, SpuriousWake(t)
        PROVE  TypeInv'
    BY <2>9 DEF SpuriousWake
  <2>10. ASSUME NEW t \in Threads, Finish(t)
         PROVE  TypeInv'
    BY <2>10 DEF Finish
  <2>11. CASE UNCHANGED vars
    BY <2>11 DEF vars
  <2> QED
    BY <2>1, <2>2, <2>3, <2>4, <2>5, <2>6, <2>7, <2>8, <2>9, <2>10, <2>11
    DEF Next, Progress
<1> QED
  BY <1>1, <1>2, PTL DEF SafeSpec

\* The type invariant alone.
THEOREM TypeCorrect == SafeSpec => []TypeOK
<1>1. TypeInv => TypeOK
  BY DEF TypeInv
<1> QED
  BY <1>1, Typing, PTL

-----------------------------------------------------------------------------
(***************************************************************************)
(* The mutex                                                               *)
(***************************************************************************)

\* The deque is touched only by the thread that owns the mutex: the critical
\* threads are exactly the owner.
THEOREM MutualExclusion == SafeSpec => []MutexInv
<1> USE ThreadsAssumption DEF MutexInv, Critical, At
<1>1. Init => MutexInv
  BY DEF Init
<1>2. TypeInv /\ MutexInv /\ [Next]_vars => MutexInv'
  <2> SUFFICES ASSUME TypeInv, MutexInv, [Next]_vars
               PROVE  MutexInv'
    OBVIOUS
  <2> USE DEF TypeInv, TypeOK, Goto, Acquire, Release
  <2>1. ASSUME NEW t \in Threads, CallSend(t) \/ CallRecv(t) \/ Finish(t)
        PROVE  MutexInv'
    BY <2>1 DEF CallSend, CallRecv, Finish
  <2>2. ASSUME NEW t \in Threads, SendLock(t) \/ RecvLock(t)
        PROVE  MutexInv'
    BY <2>2 DEF SendLock, RecvLock
  <2>3. ASSUME NEW t \in Threads, SendPush(t) \/ RecvPop(t) \/ RecvWait(t)
        PROVE  MutexInv'
    BY <2>3 DEF SendPush, RecvPop, RecvWait
  <2>4. ASSUME NEW t \in Threads, SendNotify(t)
        PROVE  MutexInv'
    BY <2>4 DEF SendNotify, Waiters
  <2>5. ASSUME NEW t \in Threads, SpuriousWake(t)
        PROVE  MutexInv'
    BY <2>5 DEF SpuriousWake
  <2>6. CASE UNCHANGED vars
    BY <2>6 DEF vars
  <2> QED
    BY <2>1, <2>2, <2>3, <2>4, <2>5, <2>6 DEF Next, Progress
<1> QED
  BY <1>1, <1>2, Typing, PTL DEF SafeSpec

-----------------------------------------------------------------------------
(***************************************************************************)
(* The order and the completeness of the log                               *)
(***************************************************************************)

\* A step extends the log by the value it pushes, or leaves it alone; Pushed
\* grows exactly for the thread that pushes.
LEMMA LogStep ==
  ASSUME TypeInv, [Next]_vars
  PROVE  \/ /\ UNCHANGED Log
            /\ \A u \in Threads : Pushed(u)' = Pushed(u)
         \/ \E t \in Threads :
              /\ pc[t] = "sendPush"
              /\ Log' = Append(Log, [from |-> t, n |-> issued[t]])
              /\ Pushed(t) = issued[t] - 1
              /\ \A u \in Threads :
                    Pushed(u)' = IF u = t THEN issued[t] ELSE Pushed(u)
<1> USE MaxSendsAssumption
        DEF TypeInv, TypeOK, IssuedInv, Goto, Acquire, Release, Pushed
<1> DEFINE Same == /\ UNCHANGED Log
                   /\ \A u \in Threads : Pushed(u)' = Pushed(u)
<1>1. ASSUME NEW t \in Threads, CallSend(t) \/ CallRecv(t) \/ Finish(t)
      PROVE  Same
  <2>1. UNCHANGED Log
    BY <1>1 DEF CallSend, CallRecv, Finish, Log
  <2>2. CASE CallSend(t)
    <3> SUFFICES ASSUME NEW u \in Threads
                 PROVE  Pushed(u)' = Pushed(u)
      BY <2>1
    <3>1. issued[t] \in Int
      BY <1>1
    <3>2. CASE u = t
      BY <2>2, <3>1, <3>2 DEF CallSend
    <3>3. CASE u # t
      BY <2>2, <3>3 DEF CallSend
    <3> QED
      BY <3>2, <3>3
  <2>3. CASE CallRecv(t) \/ Finish(t)
    BY <2>1, <2>3 DEF CallRecv, Finish
  <2> QED
    BY <1>1, <2>2, <2>3
<1>2. ASSUME NEW t \in Threads, SendLock(t) \/ RecvLock(t)
      PROVE  Same
  BY <1>2 DEF SendLock, RecvLock, Log
<1>3. ASSUME NEW t \in Threads, RecvWait(t) \/ SpuriousWake(t)
      PROVE  Same
  BY <1>3 DEF RecvWait, SpuriousWake, Log
<1>4. ASSUME NEW t \in Threads, SendNotify(t)
      PROVE  Same
  BY <1>4 DEF SendNotify, Waiters, At, Log
<1>5. ASSUME NEW t \in Threads, RecvPop(t)
      PROVE  Same
  <2>1. UNCHANGED Log
    BY <1>5, PopKeepsLog DEF RecvPop, Log
  <2> QED
    BY <1>5, <2>1 DEF RecvPop
<1>6. ASSUME NEW t \in Threads, SendPush(t)
      PROVE  /\ pc[t] = "sendPush"
             /\ Log' = Append(Log, [from |-> t, n |-> issued[t]])
             /\ Pushed(t) = issued[t] - 1
             /\ \A u \in Threads :
                   Pushed(u)' = IF u = t THEN issued[t] ELSE Pushed(u)
  <2>1. [from |-> t, n |-> issued[t]] \in Messages
    BY <1>6 DEF SendPush, Messages
  <2>2. Log' = Append(Log, [from |-> t, n |-> issued[t]])
    BY <1>6, <2>1, PushExtendsLog DEF SendPush, Log
  <2> QED
    BY <1>6, <2>2 DEF SendPush
<1>7. CASE UNCHANGED vars
  BY <1>7 DEF vars, Log
<1> QED
  BY <1>1, <1>2, <1>3, <1>4, <1>5, <1>6, <1>7 DEF Next, Progress

LogInv == SenderOrder /\ NothingLost

\* LogInv is inductive: the value a push appends has the number that follows
\* all the numbers of its sender that are in the log already.
LEMMA LogInvStep ==
  ASSUME TypeInv, LogInv, [Next]_vars
  PROVE  LogInv'
<1> USE MaxSendsAssumption DEF LogInv
<1>1. /\ Log \in Seq(Messages)
      /\ Len(Log) \in Nat
      /\ \A i \in 1..Len(Log) : Log[i] \in Messages
  BY ConcatProperties, LenProperties, ElementOfSeq DEF TypeInv, TypeOK, Log
<1>2. CASE /\ UNCHANGED Log
           /\ \A u \in Threads : Pushed(u)' = Pushed(u)
  <2>1. SenderOrder'
    BY <1>2 DEF SenderOrder
  <2>2. NothingLost'
    <3>1. \A m \in Messages : m.n <= Pushed(m.from) <=> m.n <= Pushed(m.from)'
      BY <1>2 DEF Messages
    <3> QED
      BY <1>2, <3>1 DEF NothingLost
  <2> QED
    BY <2>1, <2>2
<1>3. ASSUME NEW t \in Threads,
             pc[t] = "sendPush",
             Log' = Append(Log, [from |-> t, n |-> issued[t]]),
             Pushed(t) = issued[t] - 1,
             \A u \in Threads :
                Pushed(u)' = IF u = t THEN issued[t] ELSE Pushed(u)
      PROVE  LogInv'
  <2> DEFINE new == [from |-> t, n |-> issued[t]]
  <2>1. /\ new \in Messages
        /\ new.from = t
        /\ new.n = issued[t]
        /\ issued[t] \in 1..MaxSends
    BY <1>3 DEF TypeInv, TypeOK, IssuedInv, Messages
  <2> HIDE DEF new
  <2>2. /\ Log' \in Seq(Messages)
        /\ Len(Log') = Len(Log) + 1
        /\ \A i \in 1..Len(Log) : Log'[i] = Log[i]
        /\ Log'[Len(Log) + 1] = new
    BY <1>1, <1>3, <2>1, AppendProperties DEF new
  <2>3. \A i \in 1..Len(Log) : Log[i].from = t => Log[i].n <= issued[t] - 1
    BY <1>1, <1>3 DEF NothingLost
  <2>4. SenderOrder'
    <3> SUFFICES ASSUME NEW i \in 1..Len(Log) + 1, NEW j \in 1..Len(Log) + 1,
                        i < j, Log'[i].from = Log'[j].from
                 PROVE  Log'[i].n < Log'[j].n
      BY <2>2 DEF SenderOrder
    <3>1. i \in 1..Len(Log) /\ Log'[i] = Log[i] /\ Log[i].n \in Nat
      BY <1>1, <2>2 DEF Messages
    <3>2. CASE j = Len(Log) + 1
      BY <2>1, <2>2, <2>3, <3>1, <3>2
    <3>3. CASE j # Len(Log) + 1
      BY <1>1, <2>2, <3>1, <3>3 DEF SenderOrder
    <3> QED
      BY <3>2, <3>3
  <2>5. NothingLost'
    <3>1. {Log'[i] : i \in 1..Len(Log')} = {Log[i] : i \in 1..Len(Log)} \union {new}
      BY <1>1, <2>2
    <3>2. ASSUME NEW m \in Messages
          PROVE  m.n <= Pushed(m.from)' <=> (m.n <= Pushed(m.from) \/ m = new)
      <4>1. m.from \in Threads /\ m.n \in 1..MaxSends
        BY DEF Messages
      <4>2. CASE m.from # t
        BY <1>3, <2>1, <4>1, <4>2
      <4>3. CASE m.from = t
        <5>1. m = new <=> m.n = issued[t]
          BY <4>1, <4>3 DEF Messages, new
        <5> QED
          BY <1>3, <2>1, <4>1, <4>3, <5>1
      <4> QED
        BY <4>2, <4>3
    <3> QED
      BY <2>1, <3>1, <3>2 DEF NothingLost
  <2> QED
    BY <2>4, <2>5
<1> QED
  BY <1>2, <1>3, LogStep

LEMMA LogAlways == SafeSpec => []LogInv
<1>1. Init => LogInv
  <2> SUFFICES ASSUME Init
               PROVE  LogInv
    OBVIOUS
  <2>1. Log = <<>> /\ Len(Log) = 0
    BY DEF Init, Log
  <2>2. \A m \in Messages : ~(m.n <= Pushed(m.from))
    BY MaxSendsAssumption DEF Init, Messages, Pushed
  <2> QED
    BY <2>1, <2>2 DEF LogInv, SenderOrder, NothingLost
<1>2. TypeInv /\ LogInv /\ [Next]_vars => LogInv'
  BY LogInvStep
<1> QED
  BY <1>1, <1>2, Typing, PTL DEF SafeSpec

\* Whatever the interleaving of send and recv, the values of one sender are
\* received in the order it sent them, and none is received twice.
THEOREM OrderKept == SafeSpec => []SenderOrder
<1>1. LogInv => SenderOrder
  BY DEF LogInv
<1> QED
  BY <1>1, LogAlways, PTL

\* A value whose send is past its push is in the queue or was received.
THEOREM Delivery == SafeSpec => []NothingLost
<1>1. LogInv => NothingLost
  BY DEF LogInv
<1> QED
  BY <1>1, LogAlways, PTL

-----------------------------------------------------------------------------
(***************************************************************************)
(* Wake-ups                                                                *)
(***************************************************************************)

\* The sets of threads that NoLostWakeup counts are finite.
LEMMA CountedSetsFinite ==
  ASSUME TypeInv
  PROVE  /\ IsFiniteSet(At("sendNotify"))
         /\ IsFiniteSet(Awake)
         /\ Cardinality(At("sendNotify")) \in Nat
         /\ Cardinality(Awake) \in Nat
<1>1. At("sendNotify") \in SUBSET Threads /\ Awake \in SUBSET Threads
  BY DEF At, Awake
<1> QED
  BY <1>1, ThreadsAssumption, FS_Subset, FS_CardinalityType

\* The rest of the argument: a step that makes the queue longer adds a sender
\* that will notify, and a step that removes a notifier or an awake receiver
\* hands its duty on, unless the queue is empty or nobody sleeps.
LEMMA WakeupStep ==
  ASSUME TypeInv, TypeInv', NoLostWakeup, [Next]_vars
  PROVE  NoLostWakeup'
<1> DEFINE N == At("sendNotify")
<1> DEFINE A == Awake
<1> DEFINE C(q, n, a) == Len(q) <= Cardinality(n) + Cardinality(a)
<1>1. /\ IsFiniteSet(N) /\ Cardinality(N) \in Nat
      /\ IsFiniteSet(A) /\ Cardinality(A) \in Nat
      /\ Len(queue) \in Nat
  BY CountedSetsFinite, LenProperties DEF TypeInv, TypeOK
<1>2. /\ IsFiniteSet(N') /\ Cardinality(N') \in Nat
      /\ IsFiniteSet(A') /\ Cardinality(A') \in Nat
  <2>1. N' \in SUBSET Threads /\ A' \in SUBSET Threads
    BY DEF At, Awake
  <2> QED
    BY <2>1, ThreadsAssumption, FS_Subset, FS_CardinalityType
<1>3. Waiters # {} => C(queue, N, A)
  BY DEF NoLostWakeup
<1>4. SUFFICES ASSUME Waiters' # {}
               PROVE  C(queue', N', A')
  BY DEF NoLostWakeup
<1> HIDE DEF N, A
<1>5. ASSUME NEW t \in Threads,
             CallSend(t) \/ Finish(t) \/ SendLock(t) \/ RecvLock(t)
      PROVE  C(queue', N', A')
  <2>1. UNCHANGED queue /\ N' = N /\ A' = A /\ Waiters' = Waiters
    BY <1>5 DEF CallSend, Finish, SendLock, RecvLock, Goto, N, A, Awake, At,
                Waiters, TypeInv, TypeOK
  <2> QED
    BY <1>3, <1>4, <2>1
<1>6. ASSUME NEW t \in Threads, CallRecv(t) \/ SpuriousWake(t)
      PROVE  C(queue', N', A')
  <2>1. UNCHANGED queue /\ N' = N /\ A' = A \union {t} /\ t \notin A
    BY <1>6 DEF CallRecv, SpuriousWake, Goto, N, A, Awake, At, TypeInv, TypeOK
  <2>2. Waiters # {}
    BY <1>4, <1>6 DEF CallRecv, SpuriousWake, Goto, Waiters, At, TypeInv, TypeOK
  <2>3. Cardinality(A') = Cardinality(A) + 1
    BY <1>1, <2>1, FS_AddElement
  <2> QED
    BY <1>1, <1>3, <2>1, <2>2, <2>3
<1>7. ASSUME NEW t \in Threads, SendPush(t)
      PROVE  C(queue', N', A')
  <2>1. N' = N \union {t} /\ t \notin N /\ A' = A /\ Waiters' = Waiters
    BY <1>7 DEF SendPush, Goto, N, A, Awake, At, Waiters, TypeInv, TypeOK
  <2>2. [from |-> t, n |-> issued[t]] \in Messages
    BY <1>7, MaxSendsAssumption
    DEF SendPush, Messages, TypeInv, TypeOK, IssuedInv
  <2>3. Len(queue') = Len(queue) + 1
    BY <1>7, <2>2, AppendProperties DEF SendPush, TypeInv, TypeOK
  <2>4. Cardinality(N') = Cardinality(N) + 1
    BY <1>1, <2>1, FS_AddElement
  <2> QED
    BY <1>1, <1>3, <1>4, <2>1, <2>3, <2>4
<1>8. ASSUME NEW t \in Threads, SendNotify(t)
      PROVE  C(queue', N', A')
  <2>1. N' = N \ {t} /\ t \in N /\ UNCHANGED queue
    BY <1>8 DEF SendNotify, Goto, N, At, Waiters, TypeInv, TypeOK
  <2>2. PICK w \in Waiters : pc' = [pc EXCEPT ![t] = "run", ![w] = "recvRelock"]
    <3>1. CASE Waiters = {}
      <4>1. Waiters' = {}
        BY <1>8, <3>1 DEF SendNotify, Goto, Waiters, At, TypeInv, TypeOK
      <4> QED
        BY <1>4, <4>1
    <3> QED
      BY <1>8, <3>1 DEF SendNotify
  <2>3. A' = A \union {w} /\ w \notin A
    BY <1>8, <2>2 DEF SendNotify, A, Awake, At, Waiters, TypeInv, TypeOK
  <2>4. /\ Cardinality(N') = Cardinality(N) - 1
        /\ Cardinality(A') = Cardinality(A) + 1
    BY <1>1, <2>1, <2>3, FS_AddElement, FS_RemoveElement
  <2> QED
    BY <1>1, <1>3, <2>1, <2>2, <2>4
<1>9. ASSUME NEW t \in Threads, RecvPop(t)
      PROVE  C(queue', N', A')
  <2>1. N' = N /\ A' = A \ {t} /\ t \in A /\ Waiters' = Waiters
    BY <1>9 DEF RecvPop, Goto, N, A, Awake, At, Waiters, TypeInv, TypeOK
  <2>2. Len(queue') = Len(queue) - 1
    BY <1>9, HeadTailProperties DEF RecvPop, TypeInv, TypeOK
  <2>3. Cardinality(A') = Cardinality(A) - 1
    BY <1>1, <2>1, FS_RemoveElement
  <2> QED
    BY <1>1, <1>3, <1>4, <2>1, <2>2, <2>3
<1>10. ASSUME NEW t \in Threads, RecvWait(t)
       PROVE  C(queue', N', A')
  <2>1. Len(queue') = 0
    BY <1>10 DEF RecvWait
  <2> QED
    BY <1>2, <2>1
<1>11. CASE UNCHANGED vars
  <2>1. UNCHANGED queue /\ N' = N /\ A' = A /\ Waiters' = Waiters
    BY <1>11 DEF vars, N, A, Awake, At, Waiters
  <2> QED
    BY <1>3, <1>4, <2>1
<1> QED
  BY <1>5, <1>6, <1>7, <1>8, <1>9, <1>10, <1>11 DEF Next, Progress

\* No wake-up is lost although notify_one runs after the mutex was dropped:
\* while a receiver sleeps there are at least as many notifications on their
\* way and awake receivers as there are values in the queue.
THEOREM Wakeups == SafeSpec => []NoLostWakeup
<1>1. Init => NoLostWakeup
  <2>1. Init => Waiters = {}
    BY DEF Init, Waiters, At
  <2> QED
    BY <2>1 DEF NoLostWakeup
<1>2. TypeInv /\ TypeInv' /\ NoLostWakeup /\ [Next]_vars => NoLostWakeup'
  BY WakeupStep
<1> QED
  BY <1>1, <1>2, Typing, PTL DEF SafeSpec

-----------------------------------------------------------------------------
(***************************************************************************)
(* The abstract channel                                                    *)
(***************************************************************************)

\* The deque, the mutex and the condition variable implement the log of
\* AbstractChannel: a push is a Put, the call of recv an Ask, the pop a Take,
\* and every other step changes nothing the abstract channel shows.
THEOREM Refinement == SafeSpec => AbsSafeSpec
<1>1. Init => Abs!AInit
  BY DEF Init, Abs!AInit, Log, Receivers, Receiving
<1>2. TypeInv /\ [Next]_vars => [Abs!ANext]_(Abs!avars)
  <2> SUFFICES ASSUME TypeInv, [Next]_vars
               PROVE  [Abs!ANext]_(Abs!avars)
    OBVIOUS
  <2> USE DEF TypeInv, TypeOK, Goto, Acquire, Release
  <2> DEFINE Stutter == UNCHANGED <<Log, Len(delivered), Receivers>>
  <2>1. ASSUME NEW t \in Threads,
               \/ CallSend(t) \/ Finish(t) \/ SendLock(t) \/ RecvLock(t)
               \/ RecvWait(t) \/ SpuriousWake(t)
        PROVE  Stutter
    <3>1. Receivers' = Receivers
      BY <2>1 DEF CallSend, Finish, SendLock, RecvLock, RecvWait, SpuriousWake,
                  Receivers, Receiving
    <3> QED
      BY <2>1, <3>1 DEF CallSend, Finish, SendLock, RecvLock, RecvWait,
                        SpuriousWake, Log
  <2>2. ASSUME NEW t \in Threads, SendNotify(t)
        PROVE  Stutter
    <3>1. Receivers' = Receivers
      BY <2>2 DEF SendNotify, Receivers, Receiving, Waiters, At
    <3> QED
      BY <2>2, <3>1 DEF SendNotify, Log
  <2>3. ASSUME NEW t \in Threads, SendPush(t)
        PROVE  Abs!Put([from |-> t, n |-> issued[t]])
               /\ [from |-> t, n |-> issued[t]] \in Messages
    <3>1. [from |-> t, n |-> issued[t]] \in Messages
      BY <2>3, MaxSendsAssumption DEF SendPush, Messages, IssuedInv
    <3>2. Log' = Append(Log, [from |-> t, n |-> issued[t]])
      BY <2>3, <3>1, PushExtendsLog DEF SendPush, Log
    <3>3. Receivers' = Receivers
      BY <2>3 DEF SendPush, Receivers, Receiving
    <3> QED
      BY <2>3, <3>1, <3>2, <3>3 DEF SendPush, Abs!Put
  <2>4. ASSUME NEW t \in Threads, CallRecv(t)
        PROVE  Abs!Ask(t)
    <3>1. t \notin Receivers /\ Receivers' = Receivers \union {t}
      BY <2>4 DEF CallRecv, Receivers, Receiving
    <3> QED
      BY <2>4, <3>1 DEF CallRecv, Abs!Ask, Log
  <2>5. ASSUME NEW t \in Threads, RecvPop(t)
        PROVE  Abs!Take(t)
    <3>1. t \in Receivers /\ Receivers' = Receivers \ {t}
      BY <2>5 DEF RecvPop, Receivers, Receiving
    <3>2. Log' = Log
      BY <2>5, PopKeepsLog DEF RecvPop, Log
    <3>3. /\ Len(delivered') = Len(delivered) + 1
          /\ Len(delivered) \in Nat
      BY <2>5, HeadTailProperties, AppendProperties, LenProperties DEF RecvPop
    <3>4. Len(Log) = Len(delivered) + Len(queue) /\ Len(queue) \in Nat \ {0}
      BY <2>5, ConcatProperties, EmptySeq DEF RecvPop, Log
    <3> QED
      BY <3>1, <3>2, <3>3, <3>4 DEF Abs!Take
  <2>6. ASSUME UNCHANGED vars
        PROVE  Stutter
    BY <2>6 DEF vars, Log, Receivers
  <2>7. ASSUME NEW t \in Threads, Abs!Ask(t) \/ Abs!Take(t)
        PROVE  Abs!ANext
    BY <2>7 DEF Abs!ANext
  <2>8. ASSUME NEW m \in Messages, Abs!Put(m)
        PROVE  Abs!ANext
    BY <2>8 DEF Abs!ANext
  <2>9. Stutter \/ Abs!ANext
    <3> HIDE DEF Stutter
    <3>1. CASE UNCHANGED vars
      BY <2>6, <3>1
    <3>2. CASE Next
      BY <2>1, <2>2, <2>3, <2>4, <2>5, <2>7, <2>8, <3>2 DEF Next, Progress
    <3> QED
      BY <3>1, <3>2
  <2> QED
    BY <2>9 DEF Abs!avars
<1> QED
  BY <1>1, <1>2, Typing, PTL DEF SafeSpec, AbsSafeSpec, Abs!ASafeSpec

=============================================================================
