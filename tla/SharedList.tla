----------------------------- MODULE SharedList -----------------------------
(***************************************************************************)
(* One container shared by the threads of a program: a list (the elements   *)
(* stand for the entries of a map and the fields of an instance too, which  *)
(* are locked in the same way).  push, pop, len and indexing hold Value::mtx *)
(* while they look at the container and change it; `for`, print and         *)
(* contains read it without the mutex.                                      *)
(*                                                                          *)
(* A change is two steps, reading what is there and writing the result, so  *)
(* that an access that is not excluded can fall between them.               *)
(***************************************************************************)
EXTENDS Integers, Sequences, FiniteSets, SequencesExt

CONSTANTS Threads, Nobody,
          Ops,         \* what the program does with the container
          MaxCalls     \* bound: operations one thread starts

Locked == {"push", "pop", "len", "get", "add"}
ASSUME ThreadsAssumption == Nobody \notin Threads
ASSUME OpsAssumption == Ops \subseteq Locked \union {"scan"}
ASSUME MaxCallsAssumption == MaxCalls \in Nat

VARIABLES list,
          mtx,        \* the owner of Value::mtx
          pc,         \* where each thread is
          op,         \* the operation it executes
          idx,        \* the index its expression evaluated to
          seen,       \* the list as the thread read it
          calls,      \* operations started
          tally       \* history: pushes, pops and additions that were done

vars == <<list, mtx, pc, op, idx, seen, calls, tally>>

Goto(t, l) == pc' = [pc EXCEPT ![t] = l]
Count(k, n) == tally' = [tally EXCEPT ![k] = @ + n]

\* The indices an operation is tried with; those without one have a dummy.
Indices(o) == IF o \in {"add", "get"} THEN 1..2 ELSE {1}

Total(s) == FoldSeq(LAMBDA x, y : x + y, 0, s)

-----------------------------------------------------------------------------
(* Mutated forms *)

\* No lock_guard.
LockUnguarded(t) ==
  /\ pc[t] = "lock"
  /\ mtx' = t
  /\ Goto(t, "read")
  /\ UNCHANGED <<list, op, idx, seen, calls, tally>>

\* A panic leaves the mutex locked.
PanicLocked(t) ==
  /\ pc[t] = "panic"
  /\ Goto(t, "dead")
  /\ UNCHANGED <<list, mtx, op, idx, seen, calls, tally>>

-----------------------------------------------------------------------------
Init ==
  /\ list = <<0>>
  /\ mtx = Nobody
  /\ pc = [t \in Threads |-> "run"]
  /\ op = [t \in Threads |-> "len"]
  /\ idx = [t \in Threads |-> 1]
  /\ seen = [t \in Threads |-> <<>>]
  /\ calls = [t \in Threads |-> 0]
  /\ tally = [push |-> 1, pop |-> 0, added |-> 0, popped |-> 0]

\* The arguments are evaluated, the right side of an assignment included,
\* before the mutex is taken.
Start(t, o, i) ==
  /\ pc[t] = "run" /\ calls[t] < MaxCalls
  /\ calls' = [calls EXCEPT ![t] = @ + 1]
  /\ op' = [op EXCEPT ![t] = o]
  /\ idx' = [idx EXCEPT ![t] = i]
  /\ Goto(t, IF o = "scan" THEN "scan" ELSE "lock")
  /\ UNCHANGED <<list, mtx, seen, tally>>

Lock(t) ==
  /\ pc[t] = "lock"
  /\ mtx = Nobody
  /\ mtx' = t
  /\ Goto(t, "read")
  /\ UNCHANGED <<list, op, idx, seen, calls, tally>>

\* The element is fetched, or the size; an index beyond it is a panic.
Read(t) ==
  /\ pc[t] = "read"
  /\ seen' = [seen EXCEPT ![t] = list]
  /\ Goto(t, IF op[t] \in {"add", "get"} /\ idx[t] > Len(list) THEN "panic" ELSE "write")
  /\ UNCHANGED <<list, mtx, op, idx, calls, tally>>

\* push_back; pop_back unless the list is empty; `l[i] += 1`, whose sum is
\* computed inside the mutex; nothing for len and l[i].  Then the lock_guard
\* goes out of scope.
Write(t) ==
  /\ pc[t] = "write"
  /\ CASE op[t] = "push" ->
            /\ list' = Append(seen[t], 0)
            /\ Count("push", 1)
       [] op[t] = "pop" /\ seen[t] # <<>> ->
            /\ list' = Front(seen[t])
            /\ tally' = [tally EXCEPT !.pop = @ + 1, !.popped = @ + Last(seen[t])]
       [] op[t] = "add" ->
            /\ list' = [seen[t] EXCEPT ![idx[t]] = @ + 1]
            /\ Count("added", 1)
       [] OTHER -> UNCHANGED <<list, tally>>
  /\ mtx' = Nobody
  /\ seen' = [seen EXCEPT ![t] = <<>>]
  /\ Goto(t, "run")
  /\ UNCHANGED <<op, idx, calls>>

\* The RuntimeError passes the lock_guard and ends the thread.
Panic(t) ==
  /\ pc[t] = "panic"
  /\ mtx' = Nobody
  /\ Goto(t, "dead")
  /\ UNCHANGED <<list, op, idx, seen, calls, tally>>

\* `for x in l`, print(l), contains(l, x): the vector is walked as it is.
EndScan(t) ==
  /\ pc[t] = "scan"
  /\ Goto(t, "run")
  /\ UNCHANGED <<list, mtx, op, idx, seen, calls, tally>>

\* The thread's body ends.
End(t) ==
  /\ pc[t] = "run"
  /\ Goto(t, "dead")
  /\ UNCHANGED <<list, mtx, op, idx, seen, calls, tally>>

AllDead == (\A t \in Threads : pc[t] = "dead") /\ UNCHANGED vars

Next ==
  \/ \E t \in Threads :
        \/ \E o \in Ops : \E i \in Indices(o) : Start(t, o, i)
        \/ Lock(t) \/ Read(t) \/ Write(t) \/ Panic(t) \/ EndScan(t) \/ End(t)
  \/ AllDead

Spec == Init /\ [][Next]_vars

-----------------------------------------------------------------------------
Places == {"run", "lock", "read", "write", "panic", "scan", "dead"}
TypeOK ==
  /\ list \in Seq(Nat)
  /\ mtx \in Threads \union {Nobody}
  /\ pc \in [Threads -> Places]
  /\ op \in [Threads -> Locked \union {"scan"}]
  /\ idx \in [Threads -> 1..2]
  /\ seen \in [Threads -> Seq(Nat)]
  /\ calls \in [Threads -> 0..MaxCalls]
  /\ tally \in [{"push", "pop", "added", "popped"} -> Nat]
  /\ \A t \in Threads : pc[t] = "write" /\ op[t] \in {"add", "get"} => idx[t] \in DOMAIN seen[t]

Inside    == {t \in Threads : pc[t] \in {"read", "write", "panic"}}
Changing  == {t \in Inside : op[t] \in {"push", "pop", "add"}}
Looking   == Inside \union {t \in Threads : pc[t] = "scan"}

\* Of the operations that lock, none looks at the container while another
\* thread is between reading and changing it.
Exclusive == \A t \in Changing, u \in Inside : t = u

\* "every access site that can run under spawn takes this lock": the same of
\* every operation, or it would be memory corruption and not a wrong value.
NoTornAccess == \A t \in Changing, u \in Looking : t = u

\* A thread is inside exactly while it owns the mutex: no two threads are, so
\* that none reads what another is about to write, and a panic does not keep
\* it, so that none is locked out of the container by one that has died.
OwnerIsInside == \A t \in Threads : t \in Inside <=> mtx = t

\* "8 threads x 25,000 concurrent pushes -> exactly 200,000": no push, pop or
\* compound assignment is lost, however they interleave.
NothingLost ==
  /\ Len(list) = tally.push - tally.pop
  /\ Total(list) + tally.popped = tally.added

=============================================================================
