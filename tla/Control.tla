------------------------------- MODULE Control -------------------------------
(***************************************************************************)
(* How control moves through the tree-walking interpreter.  A statement is  *)
(* executed by a nest of C++ activations (exec_block, exec_loop, exec_try,  *)
(* call_function, ...), modelled as a stack of frames.  break, continue and *)
(* return are values of a special kind that every activation inspects and   *)
(* hands up; throw and panic are C++ exceptions.  A signal travels one      *)
(* frame per step.                                                          *)
(*                                                                          *)
(* The program is any program Sema accepts.  Sema keeps one flag in_loop_   *)
(* that it does not reset when it enters the body of a function, a lambda   *)
(* or a spawn, so such a body written inside a loop may contain a break of  *)
(* no loop of its own.  A signal that ends up inside a larger expression is *)
(* not followed further.                                                    *)
(***************************************************************************)
EXTENDS Naturals, SequencesExt

CONSTANTS MaxDepth,      \* MAX_CALL_DEPTH
          MaxFrames      \* bound: how many activations are nested

ASSUME MaxDepthAssumption == MaxDepth \in Nat
ASSUME MaxFramesAssumption == MaxFrames \in Nat \ {0}

VARIABLES stack,     \* the activations, innermost last
          outcome,   \* "next": the innermost executes; or the signal in flight
          depth,     \* Interpreter::call_depth_
          goal       \* history: where the signal in flight is meant to stop

vars == <<stack, outcome, depth, goal>>

\* Signals that are values, and signals that are C++ exceptions.
Values  == {"break", "continue", "return"}
Thrown  == {"throw", "panic"}
Signals == Values \union Thrown

\* top: the statements of the file; thread: the body of a spawn; block: what
\* if, match, region, a catch and braces execute.
Bases  == {"top", "thread"}
Bodies == Bases \union {"call", "init"}
Kinds  == Bodies \union {"block", "loop", "try"}

\* `inLoop`: what in_loop_ was when Sema visited the code of the frame.
\* `used`: a call is a statement, or an operand of a larger expression.
Frame(k, il, u) == [kind |-> k, inLoop |-> il, used |-> u]
Frames == [kind : Kinds, inLoop : BOOLEAN, used : {"stmt", "operand"}]

Top       == Last(stack)
Running   == outcome = "next" /\ stack # <<>>
At(k, S) == stack # <<>> /\ Top.kind = k /\ outcome \in S
Pop       == stack' = Front(stack)
Pass      == UNCHANGED <<outcome, goal>>
Proceed   == outcome' = "next" /\ UNCHANGED goal

\* The lexical in_loop_ of a body that is called from anywhere.
BodyInLoop == BOOLEAN

-----------------------------------------------------------------------------
(* What the language means by each signal: the depth the stack has when it  *)
(* has done its work, from the shape of the stack when it is raised.        *)

LastOf(kinds) ==
  LET found == {i \in 1..Len(stack) : stack[i].kind \in kinds}
  IN  IF found = {} THEN 0 ELSE Max(found)

NoGoal == MaxFrames + 1

Destination(sig) ==
  LET body == LastOf(Bodies)
      loop == LastOf({"loop"})
      own  == loop > body          \* the loop belongs to the running body
  IN CASE sig = "break"    -> IF own THEN loop - 1 ELSE NoGoal
       [] sig = "continue" -> IF own THEN loop ELSE NoGoal
       [] sig = "return"   -> IF stack[body].kind = "top" THEN body ELSE body - 1
       [] sig = "throw"    -> LastOf({"try"})
       [] sig = "panic"    -> 0

-----------------------------------------------------------------------------
(* Mutated forms *)

\* exec_loop tests for Break only.
LoopSignalNoReturn ==
  /\ At("loop", Values)
  /\ IF outcome = "break" THEN Pop ELSE UNCHANGED stack
  /\ Proceed
  /\ UNCHANGED depth

\* The counter is decremented after the body, not by a destructor.
LeaveByExceptionUncounted ==
  /\ stack # <<>> /\ Top.kind \notin Bases \union {"try"} /\ outcome \in Thrown
  /\ Pop /\ Pass
  /\ UNCHANGED depth

-----------------------------------------------------------------------------
Init ==
  /\ \E k \in Bases : \E il \in IF k = "thread" THEN BodyInLoop ELSE {FALSE} :
        stack = <<Frame(k, il, "stmt")>>
  /\ outcome = "next"
  /\ depth = 0
  /\ goal = NoGoal

Push(f) ==
  /\ Len(stack) < MaxFrames
  /\ stack' = Append(stack, f)

\* if, match, region, braces; try; while, for and loop.
EnterBlock ==
  /\ Running
  /\ \E k \in {"block", "try"} : Push(Frame(k, Top.inLoop, "stmt"))
  /\ UNCHANGED <<outcome, depth, goal>>

EnterLoop ==
  /\ Running
  /\ Push(Frame("loop", TRUE, "stmt"))
  /\ UNCHANGED <<outcome, depth, goal>>

\* call_function on a Function: the guard, the counter, the body.
Call ==
  /\ Running
  /\ depth < MaxDepth
  /\ \E il \in BodyInLoop, u \in {"stmt", "operand"} : Push(Frame("call", il, u))
  /\ depth' = depth + 1
  /\ UNCHANGED <<outcome, goal>>

CallTooDeep ==
  /\ Running
  /\ depth >= MaxDepth
  /\ outcome' = "panic"
  /\ goal' = Destination("panic")
  /\ UNCHANGED <<stack, depth>>

\* A class name is a NativeFunc: call_constructor runs init, uncounted.
Construct ==
  /\ Running
  /\ \E il \in BodyInLoop : Push(Frame("init", il, "operand"))
  /\ UNCHANGED <<outcome, depth, goal>>

\* A statement of the program, or a failing operation, raises a signal.
Raise(sig) ==
  /\ Running
  /\ sig \in {"break", "continue"} => Top.inLoop
  /\ outcome' = sig
  /\ goal' = Destination(sig)
  /\ UNCHANGED <<stack, depth>>

\* The last statement of a body was executed: a loop ends when its condition
\* or its range says so, the file's statements and a thread end the run.
Complete ==
  /\ Running /\ Top.kind # "call"
  /\ Pop
  /\ UNCHANGED <<outcome, depth, goal>>

CompleteCall ==
  /\ Running /\ Top.kind = "call"
  /\ Pop
  /\ depth' = depth - 1
  /\ UNCHANGED <<outcome, goal>>

-----------------------------------------------------------------------------
(* A signal meets a frame *)

\* exec_block returns the value at once, and so does a try around it.
LeaveBlock ==
  /\ At("block", Values) \/ At("try", Values)
  /\ Pop /\ Pass
  /\ UNCHANGED depth

\* exec_while, exec_for, exec_loop.
LoopSignal ==
  /\ At("loop", Values)
  /\ CASE outcome = "break"    -> Pop /\ Proceed
       [] outcome = "continue" -> UNCHANGED stack /\ Proceed
       [] outcome = "return"   -> Pop /\ Pass
  /\ UNCHANGED depth

\* call_function unwraps a Return; any other value of the body is the value of
\* the call, which exec_stmt hands on when the call is a statement.
LeaveCall ==
  /\ At("call", Values)
  /\ Pop
  /\ depth' = depth - 1
  /\ IF outcome = "return" \/ Top.used = "operand" THEN Proceed ELSE Pass

\* call_constructor drops the value of init's body.
LeaveInit ==
  /\ At("init", Values)
  /\ Pop /\ Proceed
  /\ UNCHANGED depth

\* run drops the value of a top-level statement and goes on to the next one;
\* the value of a spawn's body ends the thread.
LeaveBase ==
  /\ stack # <<>> /\ Top.kind \in Bases /\ outcome \in Values
  /\ IF Top.kind = "top" THEN UNCHANGED stack ELSE Pop
  /\ Proceed
  /\ UNCHANGED depth

\* An exception leaves every activation but a try that catches it; the
\* DepthGuard of a call runs.
LeaveByException ==
  /\ stack # <<>> /\ Top.kind \notin Bases \union {"try"} /\ outcome \in Thrown
  /\ Pop /\ Pass
  /\ depth' = IF Top.kind = "call" THEN depth - 1 ELSE depth

\* catch (AegisThrow&): the handler's block takes the place of the try.
CatchThrow ==
  /\ At("try", {"throw"})
  /\ stack' = [stack EXCEPT ![Len(stack)].kind = "block"]
  /\ Proceed
  /\ UNCHANGED depth

\* A RuntimeError goes through a try.
PanicThroughTry ==
  /\ At("try", {"panic"})
  /\ Pop /\ Pass
  /\ UNCHANGED depth

\* cmd_run reports what was not caught, the lambda of spawn a RuntimeError;
\* an AegisThrow that leaves a thread ends the process (see SpawnJoin).
EndByException ==
  /\ stack # <<>> /\ Top.kind \in Bases /\ outcome \in Thrown
  /\ Pop /\ Proceed
  /\ UNCHANGED depth

Finished == stack = <<>> /\ UNCHANGED vars

Next ==
  \/ EnterBlock \/ EnterLoop \/ Call \/ CallTooDeep \/ Construct
  \/ \E sig \in Signals : Raise(sig)
  \/ Complete \/ CompleteCall
  \/ LeaveBlock \/ LoopSignal \/ LeaveCall \/ LeaveInit \/ LeaveBase
  \/ LeaveByException \/ CatchThrow \/ PanicThroughTry \/ EndByException
  \/ Finished

Spec == Init /\ [][Next]_vars

-----------------------------------------------------------------------------
TypeOK ==
  /\ stack \in Seq(Frames) /\ Len(stack) <= MaxFrames
  /\ outcome \in Signals \union {"next"}
  /\ depth \in 0..MaxDepth
  /\ goal \in 0..NoGoal

\* call_depth_ counts the calls in progress, however they are left: by their
\* last statement, a return, a break that leaks, a throw or a panic.
Calls == {i \in 1..Len(stack) : stack[i].kind = "call"}
DepthExact == depth = Cardinality(Calls)

\* A signal stops where the language says it does: break and continue at the
\* innermost loop of the running body, return at the end of that body, throw
\* at the innermost try in progress (a throw in a catch: at the next one out),
\* a panic nowhere ("try/catch does not catch them").
SignalsArrive ==
  [][(outcome \in Signals /\ outcome' = "next" /\ goal # NoGoal)
        => Len(stack') = goal]_vars

\* "break used outside of loop" is an error of Sema: a break or continue that
\* passed Sema never leaves the body it is written in.
BreakStaysInBody ==
  [][(outcome \in {"break", "continue"} /\ Top.kind \in Bodies)
        => outcome' \notin {"break", "continue"}]_vars

=============================================================================
