---------------------------- MODULE AbstractQueue ----------------------------
(***************************************************************************)
(* What the channel of the native runtime promises: values come out in the  *)
(* order they went in, each once, and a recv that finds nothing, or no      *)
(* channel, answers Zero at once (the interpreter's recv would wait).       *)
(***************************************************************************)
EXTENDS Sequences

CONSTANTS Values, Zero

VARIABLES handle,   \* "null", or "channel" once the channel was made
          waiting,  \* the values that wait, oldest first
          answer    \* what the last recv returned

qvars == <<handle, waiting, answer>>

QInit ==
  /\ handle = "null"
  /\ waiting = <<>>
  /\ answer = Zero

Make ==
  /\ handle = "null"
  /\ handle' = "channel"
  /\ UNCHANGED <<waiting, answer>>

Put(v) ==
  /\ handle = "channel"
  /\ waiting' = Append(waiting, v)
  /\ UNCHANGED <<handle, answer>>

Take ==
  /\ waiting # <<>>
  /\ answer' = Head(waiting)
  /\ waiting' = Tail(waiting)
  /\ UNCHANGED handle

TakeNothing ==
  /\ waiting = <<>>
  /\ answer' = Zero
  /\ UNCHANGED <<handle, waiting>>

QNext ==
  \/ Make \/ Take \/ TakeNothing
  \/ \E v \in Values : Put(v)

QSpec == QInit /\ [][QNext]_qvars

=============================================================================
