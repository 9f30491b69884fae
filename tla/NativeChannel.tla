---------------------------- MODULE NativeChannel ----------------------------
(***************************************************************************)
(* The channel of the native runtime: a ring buffer between two counters    *)
(* that only grow, each taken modulo the capacity.  A send that finds it     *)
(* full doubles the capacity and lays the values out anew from cell 0, so   *)
(* the same value has a position modulo the old capacity before and one     *)
(* modulo the new capacity after.  Cells come from malloc: what was not      *)
(* written is Garbage.                                                      *)
(***************************************************************************)
EXTENDS Integers, Sequences

CONSTANTS InitialCap,   \* 16 in the code
          Values,       \* the integers a send may carry
          Zero,         \* what recv answers when there is nothing
          Garbage,      \* the contents of memory nobody wrote
          MaxTail       \* bound: how far tail may count

ASSUME InitialCapAssumption == InitialCap \in Nat \ {0}

VARIABLES handle,   \* "channel", or "null" while the program has none
          buf, head, tail, cap,
          answer,   \* the result of the last recv
          longest   \* history: the most values that ever waited

vars == <<handle, buf, head, tail, cap, answer, longest>>

Cells(n) == 0..(n - 1)

Maximum(a, b) == IF a < b THEN b ELSE a

-----------------------------------------------------------------------------
(***************************************************************************)
(* Mutated forms, each a plausible slip: they are not part of the           *)
(* specification.                                                           *)
(***************************************************************************)

\* The values keep their cells, as after a realloc.
RelaidInPlace(n) ==
  [i \in Cells(n) |-> IF i < cap THEN buf[i] ELSE Garbage]

-----------------------------------------------------------------------------
\* The buffer is full when as many values wait as it has cells.
Full == tail - head = cap

\* The new buffer of n cells: the old one read modulo its own capacity.
Relaid(n) ==
  [i \in Cells(n) |-> IF i < tail - head THEN buf[(head + i) % (n \div 2)] ELSE Garbage]

Init ==
  /\ handle = "null"
  /\ buf = <<>>
  /\ head = 0
  /\ tail = 0
  /\ cap = 0
  /\ answer = Zero
  /\ longest = 0

\* aegis_channel_new
New ==
  /\ handle = "null"
  /\ handle' = "channel"
  /\ buf' = [i \in Cells(InitialCap) |-> Garbage]
  /\ cap' = InitialCap
  /\ UNCHANGED <<head, tail, answer, longest>>

\* buf[tail++ % cap] = v, on the buffer and counters the send has by then.
Store(v, b, h, t, c) ==
  /\ buf' = [b EXCEPT ![t % c] = v]
  /\ head' = h
  /\ tail' = t + 1
  /\ cap' = c
  /\ longest' = Maximum(longest, t + 1 - h)

\* aegis_channel_send
Send(v) ==
  /\ handle = "channel"
  /\ tail < MaxTail
  /\ IF Full
     THEN Store(v, Relaid(2 * cap), 0, tail - head, 2 * cap)
     ELSE Store(v, buf, head, tail, cap)
  /\ UNCHANGED <<handle, answer>>

\* aegis_channel_recv
Recv ==
  /\ handle = "channel"
  /\ head # tail
  /\ answer' = buf[head % cap]
  /\ head' = head + 1
  /\ UNCHANGED <<handle, buf, tail, cap, longest>>

\* aegis_channel_recv of an empty channel, or of none
RecvNothing ==
  /\ handle = "null" \/ head = tail
  /\ answer' = Zero
  /\ UNCHANGED <<handle, buf, head, tail, cap, longest>>

Next ==
  \/ New \/ Recv \/ RecvNothing
  \/ \E v \in Values : Send(v)

Spec == Init /\ [][Next]_vars

-----------------------------------------------------------------------------
(***************************************************************************)
(* Properties                                                               *)
(***************************************************************************)

TypeOK ==
  /\ handle \in {"null", "channel"}
  /\ head \in Nat /\ tail \in Nat /\ cap \in Nat /\ longest \in Nat
  /\ IF handle = "channel" THEN cap > 0 ELSE tail = 0
  /\ head <= tail /\ tail - head <= cap
  /\ handle = "channel" => buf \in [Cells(cap) -> Values \union {Garbage}]
  /\ answer \in Values \union {Zero, Garbage}

\* The values that wait, oldest first: the cells from head to tail.
Contents == [i \in 1..(tail - head) |-> buf[(head + i - 1) % cap]]

\* A cell that nobody wrote, or that was left behind when the buffer moved, is never
\* among those that wait, and a recv never answers one.
NothingUnwritten ==
  /\ \A i \in 0..(tail - head - 1) : buf[(head + i) % cap] \in Values
  /\ answer \in Values \union {Zero}

\* What comes out of the ring is what went in, in that order and once each,
\* wherever the two counters stood when the buffer was moved (line 228): the
\* ring implements the queue of AbstractQueue.
Queue == INSTANCE AbstractQueue
           WITH handle <- handle, waiting <- Contents, answer <- answer
QueueSpec == Queue!QSpec

\* The buffer grows for values that wait and not for values that passed
\* through: beyond its first capacity it is never more than twice as large
\* as the longest the queue has been (line 225 compares the distance of the
\* counters, which themselves grow for ever).
GrowsForWaiting == cap > InitialCap => cap < 2 * longest

=============================================================================
