------------------------------- MODULE Channel -------------------------------
(***************************************************************************)
(* The channel of the interpreter: a deque guarded by a mutex, with a       *)
(* condition variable for the receivers that find it empty.  send pushes    *)
(* under the mutex, drops it, and only then calls notify_one; recv waits    *)
(* for the predicate "not empty or closed" and pops the front.  A condition *)
(* variable may wake a waiter that nobody notified.                         *)
(*                                                                          *)
(* The critical sections are one step each: their data is touched only by   *)
(* the thread that holds the mutex, so no other thread can see them half    *)
(* done.  What happens between them (taking the mutex, waiting, notifying   *)
(* after the mutex was dropped, waking, taking the mutex again) is a step   *)
(* of its own.                                                              *)
(***************************************************************************)
EXTENDS Naturals, Sequences, FiniteSets

CONSTANTS Threads,    \* the OS threads that share the channel
          NoThread,   \* nobody holds the mutex
          MaxSends    \* bound: how many values one thread sends

ASSUME ThreadsAssumption ==
  /\ IsFiniteSet(Threads)
  /\ NoThread \notin Threads
ASSUME MaxSendsAssumption == MaxSends \in Nat

VARIABLES queue,      \* ChannelValue::queue
          holder,     \* the thread that owns ChannelValue::mtx
          pc,         \* where each thread is in send or recv
          issued,     \* how many sends each thread has called
          delivered   \* history: the values recv returned, in order of the pops

vars == <<queue, holder, pc, issued, delivered>>

\* A value is identified by its sender and its place among that sender's values.
Messages == [from : Threads, n : 1..MaxSends]

\* ChannelValue::closed starts false and no statement of the program sets it.
Closed == FALSE

Receiving == {"recvLock", "recvTest", "recvWait", "recvRelock"}
Locations == {"run", "sendLock", "sendPush", "sendNotify", "done"} \union Receiving

At(l)    == {t \in Threads : pc[t] = l}
Waiters  == At("recvWait")
Goto(t, l) == pc' = [pc EXCEPT ![t] = l]

Acquire(t) ==
  /\ holder = NoThread
  /\ holder' = t

Release(t) == holder' = NoThread

-----------------------------------------------------------------------------
(***************************************************************************)
(* Mutated forms of the actions below, each a plausible slip in send or     *)
(* recv.  They are not part of the specification: a property is worth its   *)
(* run when it fails under one of them.                                     *)
(***************************************************************************)

\* push_front for push_back.
SendPushFront(t) ==
  /\ pc[t] = "sendPush"
  /\ queue' = <<[from |-> t, n |-> issued[t]]>> \o queue
  /\ Release(t)
  /\ Goto(t, "sendNotify")
  /\ UNCHANGED <<issued, delivered>>

\* notify_one only when the queue was empty before the push.
SendPushNotifyFirst(t) ==
  /\ pc[t] = "sendPush"
  /\ queue' = Append(queue, [from |-> t, n |-> issued[t]])
  /\ Release(t)
  /\ Goto(t, IF queue = <<>> THEN "sendNotify" ELSE "run")
  /\ UNCHANGED <<issued, delivered>>

\* notify_one is forgotten.
SendNotifyNobody(t) ==
  /\ pc[t] = "sendNotify"
  /\ Goto(t, "run")
  /\ UNCHANGED <<queue, holder, issued, delivered>>

\* back for front.
RecvPopBack(t) ==
  /\ pc[t] = "recvTest"
  /\ queue # <<>>
  /\ delivered' = Append(delivered, queue[Len(queue)])
  /\ queue' = SubSeq(queue, 1, Len(queue) - 1)
  /\ Release(t)
  /\ Goto(t, "run")
  /\ UNCHANGED issued

-----------------------------------------------------------------------------
Init ==
  /\ queue = <<>>
  /\ holder = NoThread
  /\ pc = [t \in Threads |-> "run"]
  /\ issued = [t \in Threads |-> 0]
  /\ delivered = <<>>

CallSend(t) ==
  /\ pc[t] = "run"
  /\ issued[t] < MaxSends
  /\ issued' = [issued EXCEPT ![t] = @ + 1]
  /\ Goto(t, "sendLock")
  /\ UNCHANGED <<queue, holder, delivered>>

SendLock(t) ==
  /\ pc[t] = "sendLock"
  /\ Acquire(t)
  /\ Goto(t, "sendPush")
  /\ UNCHANGED <<queue, issued, delivered>>

\* push_back, and the lock_guard goes out of scope.
SendPush(t) ==
  /\ pc[t] = "sendPush"
  /\ queue' = Append(queue, [from |-> t, n |-> issued[t]])
  /\ Release(t)
  /\ Goto(t, "sendNotify")
  /\ UNCHANGED <<issued, delivered>>

\* notify_one, with the mutex free: it wakes any one waiter, or nobody.
SendNotify(t) ==
  /\ pc[t] = "sendNotify"
  /\ \/ /\ Waiters = {}
        /\ Goto(t, "run")
     \/ \E w \in Waiters : pc' = [pc EXCEPT ![t] = "run", ![w] = "recvRelock"]
  /\ UNCHANGED <<queue, holder, issued, delivered>>

CallRecv(t) ==
  /\ pc[t] = "run"
  /\ Goto(t, "recvLock")
  /\ UNCHANGED <<queue, holder, issued, delivered>>

\* The unique_lock of recv, and the re-lock at the end of a wait.
RecvLock(t) ==
  /\ pc[t] \in {"recvLock", "recvRelock"}
  /\ Acquire(t)
  /\ Goto(t, "recvTest")
  /\ UNCHANGED <<queue, issued, delivered>>

\* The predicate holds: take the front and return.
RecvPop(t) ==
  /\ pc[t] = "recvTest"
  /\ queue # <<>>
  /\ delivered' = Append(delivered, Head(queue))
  /\ queue' = Tail(queue)
  /\ Release(t)
  /\ Goto(t, "run")
  /\ UNCHANGED issued

\* The predicate does not hold: release the mutex and wait, in one step.
RecvWait(t) ==
  /\ pc[t] = "recvTest"
  /\ queue = <<>>
  /\ ~Closed
  /\ Release(t)
  /\ Goto(t, "recvWait")
  /\ UNCHANGED <<queue, issued, delivered>>

\* A wake-up nobody asked for.
SpuriousWake(t) ==
  /\ pc[t] = "recvWait"
  /\ Goto(t, "recvRelock")
  /\ UNCHANGED <<queue, holder, issued, delivered>>

\* The thread's body ends.
Finish(t) ==
  /\ pc[t] = "run"
  /\ Goto(t, "done")
  /\ UNCHANGED <<queue, holder, issued, delivered>>

\* The steps inside a send or a recv that a scheduler that runs every
\* runnable thread makes happen.
Progress(t) ==
  \/ SendLock(t) \/ SendPush(t) \/ SendNotify(t)
  \/ RecvLock(t) \/ RecvPop(t) \/ RecvWait(t)

Next ==
  \E t \in Threads :
     \/ CallSend(t) \/ CallRecv(t) \/ Finish(t)
     \/ Progress(t) \/ SpuriousWake(t)

SafeSpec == Init /\ [][Next]_vars

\* A thread inside send or recv is scheduled, and a mutex that stays free is
\* taken by one of those who want it.  Nothing is assumed of which one, of
\* spurious wake-ups, or of the program calling send or recv at all.
Fairness == \A t \in Threads : WF_vars(Progress(t))

Spec == SafeSpec /\ Fairness

-----------------------------------------------------------------------------
TypeOK ==
  /\ queue \in Seq(Messages)
  /\ holder \in Threads \union {NoThread}
  /\ pc \in [Threads -> Locations]
  /\ issued \in [Threads -> 0..MaxSends]
  /\ delivered \in Seq(Messages)

\* The queue is touched by one thread at a time: the threads at the push and
\* at the test own the mutex (send's lock_guard, recv's unique_lock).
Critical == At("sendPush") \union At("recvTest")
MutexInv == \A t \in Threads : t \in Critical <=> holder = t

\* Everything pushed so far, in the order of the pushes.
Log == delivered \o queue

\* A thread's k-th value has been pushed.
Pushed(t) == IF pc[t] \in {"sendLock", "sendPush"} THEN issued[t] - 1 ELSE issued[t]

\* The channel keeps every sender's values in the order that sender sent
\* them, whatever the threads do in between.
SenderOrder ==
  \A i, j \in 1..Len(Log) :
     (i < j /\ Log[i].from = Log[j].from) => Log[i].n < Log[j].n

\* No value is lost: a value whose send has released the mutex is in the
\* queue or was returned by exactly one recv (SenderOrder forbids two), and
\* nothing else is.
NothingLost ==
  {Log[i] : i \in 1..Len(Log)} =
     {m \in Messages : m.n <= Pushed(m.from)}

\* No wake-up is lost although send notifies after it released the mutex: as
\* long as receivers sleep, every value in the queue has a send about to
\* notify or a receiver that is awake and will test the queue again.
Awake == At("recvLock") \union At("recvTest") \union At("recvRelock")
NoLostWakeup ==
  Waiters # {} =>
     Len(queue) <= Cardinality(At("sendNotify")) + Cardinality(Awake)

Receivers == {t \in Threads : pc[t] \in Receiving}

\* The channel keeps the promise of AbstractChannel: one log, entries taken in
\* order and once each (AbsSafeSpec); with a fair scheduler also its liveness,
\* so receivers and values do not stay together for ever (AbsSpec).
Abs == INSTANCE AbstractChannel
         WITH log <- Log, taken <- Len(delivered), asking <- Receivers
AbsSafeSpec == Abs!ASafeSpec
AbsSpec == Abs!ASpec

=============================================================================
