--------------------------- MODULE AbstractChannel ---------------------------
(***************************************************************************)
(* What a program may rely on when its threads share a channel: the values *)
(* sent form one log, receivers take the entries of the log in order, each *)
(* entry is taken by exactly one recv, and a recv that is asking while the  *)
(* log still has entries nobody took cannot be left waiting for ever with   *)
(* every other one.                                                         *)
(***************************************************************************)
EXTENDS Naturals, Sequences

CONSTANTS Threads,   \* the OS threads of the program, the main one included
          Messages   \* the values a send may carry

VARIABLES log,       \* every value sent so far, in the order of the sends
          taken,     \* how many entries of the log have been received
          asking     \* the threads that are inside a recv

avars == <<log, taken, asking>>

AInit ==
  /\ log = <<>>
  /\ taken = 0
  /\ asking = {}

Put(m) ==
  /\ log' = Append(log, m)
  /\ UNCHANGED <<taken, asking>>

Ask(t) ==
  /\ t \notin asking
  /\ asking' = asking \union {t}
  /\ UNCHANGED <<log, taken>>

Take(t) ==
  /\ t \in asking
  /\ taken < Len(log)
  /\ taken' = taken + 1
  /\ asking' = asking \ {t}
  /\ UNCHANGED log

ANext ==
  \/ \E m \in Messages : Put(m)
  \/ \E t \in Threads : Ask(t) \/ Take(t)

ASafeSpec == AInit /\ [][ANext]_avars

ASpec == ASafeSpec /\ WF_avars(\E t \in Threads : Take(t))

=============================================================================
