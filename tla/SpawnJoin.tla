------------------------------ MODULE SpawnJoin ------------------------------
(***************************************************************************)
(* The life of the OS threads a program starts with `spawn`: the Value that *)
(* owns the std::thread, the variable that holds the Value, the environment *)
(* (here: frame) that holds the variable and is itself kept alive by the    *)
(* threads that captured it, join(), the destructor of Value that joins,    *)
(* and the end of the process.                                              *)
(*                                                                          *)
(* Each process has one frame, the scope its body runs in.  `habits` says   *)
(* what the Aegis program does beyond the documented use (spawn, keep the   *)
(* handle, join it yourself before the scope ends):                         *)
(*   "leave"      a scope may end while a thread of it is not joined        *)
(*   "overwrite"  a variable that holds a handle may be assigned            *)
(*   "shareJoin"  a thread may join a handle of an enclosing scope          *)
(*   "shareName"  a thread may have such a handle as the result of a        *)
(*                statement                                                 *)
(*   "throw"      a body may end with a throw that nobody catches           *)
(***************************************************************************)
EXTENDS Naturals, FiniteSets

CONSTANTS Procs,      \* the processes: the main thread and those spawned
          Main,       \* the thread of cmd_run
          None,
          Styles      \* the sets of habits a program may have, see above

ASSUME ProcsAssumption == Main \in Procs /\ None \notin Procs
Habits == {"leave", "overwrite", "shareJoin", "shareName", "throw"}
ASSUME StylesAssumption == Styles \subseteq SUBSET Habits

VARIABLES habits,     \* what this program does; it never changes
          pc,         \* where each process is
          target,     \* the thread a process joins, destroys or just spawned
          chain,      \* the frames a process sees: its own and the enclosing ones
          parent,     \* the process whose frame encloses a process's frame
          frames,     \* the frames whose Env still exists
          home,       \* the frame with the variable that holds a thread's Value
          last,       \* the thread whose Value was the result of a body's last statement
          joinable,   \* the threads whose std::thread is joinable()
          envLock,    \* the owner of Env::mtx_ of each frame
          dropping,   \* the frame whose shared_ptr a process is giving up
          fate        \* "live", or how the program ended

vars == <<habits, pc, target, chain, parent, frames, home, last, joinable, envLock, dropping, fate>>

InCall == {"joinable", "waiting", "stuck"}
Places == {"unborn", "body", "bound", "lookup", "dtor", "unwind", "ended"} \union InCall
Fates == {"live", "exit", "badJoin", "selfJoin", "uncaught"}

Goto(p, l) == pc' = [pc EXCEPT ![p] = l]
Live == fate = "live"
EndProgram(how) == fate' = how

Leaving(p) == dropping[p] # None \/ pc[p] \in {"unwind", "ended"}

\* Nobody else owns the mutexes of the frames fs.
Unlocked(p, fs) == \A f \in fs : envLock[f] \in {None, p}

\* The frames Env::get and Env::assign lock, child first, to reach frame f.
Path(p, f) == {g \in chain[p] : f \in chain[g]}

\* Somebody is inside join() on t: the call keeps the Value alive.
Joining(t) == {u \in Procs : pc[u] \in InCall /\ target[u] = t}

\* Another process than p has the Value of t outside any variable.
HeldElsewhere(p, t) == Joining(t) # {} \/ \E q \in Procs \ {p} : last[q] = t

\* u finds the variable with the Value of t: its own, or another if it has the
\* habit.
MayName(u, t, habit) ==
  /\ home[t] \in chain[u]
  /\ home[t] = u \/ habit \in habits
  /\ Unlocked(u, Path(u, home[t]))

-----------------------------------------------------------------------------
(* Mutated forms: slips that the properties below must notice. *)

\* The lambda of spawn refers to its Env without owning it.
HeldBesidesByName(p, f) ==
  \/ f # p /\ ~Leaving(f)
  \/ \E q \in Procs \ {p} : dropping[q] = f

\* ~Value does nothing: the thread of a handle nobody has goes on unjoined.
GiveUpUnjoined(p, t, kept, l) ==
  /\ target' = [target EXCEPT ![p] = None]
  /\ Goto(p, l)

\* join() does not ask joinable().
CallJoinUnchecked(u, t) ==
  /\ pc[u] = "body"
  /\ MayName(u, t, "shareJoin")
  /\ Goto(u, "joinable")
  /\ target' = [target EXCEPT ![u] = t]
  /\ UNCHANGED <<chain, parent, frames, home, last, joinable, envLock, dropping, fate>>

\* The method is called with the mutexes of the variable's lookup still held.
CallJoinLocked(u, t) ==
  /\ pc[u] = "body"
  /\ MayName(u, t, "shareJoin")
  /\ t \in joinable
  /\ Goto(u, "joinable")
  /\ target' = [target EXCEPT ![u] = t]
  /\ envLock' = [g \in Procs |-> IF g \in Path(u, home[t]) THEN u ELSE envLock[g]]
  /\ UNCHANGED <<chain, parent, frames, home, last, joinable, dropping, fate>>

\* A join() that waits for the moment the thread ends, not for its having ended.
EnterJoinMissed(u) ==
  LET t == target[u] IN
  /\ pc[u] = "joinable"
  /\ IF t \notin joinable \/ t = u \/ (pc[t] = "waiting" /\ target[t] = u)
       THEN EndProgram("badJoin") /\ UNCHANGED pc
       ELSE Goto(u, IF pc[t] = "ended" THEN "stuck" ELSE "waiting") /\ UNCHANGED fate
  /\ UNCHANGED <<target, chain, parent, frames, home, last, joinable, envLock, dropping>>

\* detach() for join().
FinishJoinDetached(u) ==
  /\ pc[u] = "waiting"
  /\ joinable' = joinable \ {target[u]}
  /\ target' = [target EXCEPT ![u] = None]
  /\ Goto(u, "body")
  /\ UNCHANGED <<chain, parent, frames, home, last, envLock, dropping, fate>>

-----------------------------------------------------------------------------
\* The shared_ptr to frame f held elsewhere than by p.
HeldBesides(p, f) ==
  \/ f # p /\ ~Leaving(f)
  \/ \E q \in Procs \ {p} : dropping[q] = f
  \/ \E c \in frames : parent[c] = f

Init ==
  /\ habits \in Styles
  /\ pc = [p \in Procs |-> IF p = Main THEN "body" ELSE "unborn"]
  /\ target = [p \in Procs |-> None]
  /\ chain = [p \in Procs |-> {p}]
  /\ parent = [p \in Procs |-> None]
  /\ frames = {Main}
  /\ home = [p \in Procs |-> None]
  /\ last = [p \in Procs |-> None]
  /\ joinable = {}
  /\ envLock = [p \in Procs |-> None]
  /\ dropping = [p \in Procs |-> None]
  /\ fate = "live"

-----------------------------------------------------------------------------
(* spawn *)

\* A std::thread starts on a new Env whose parent is the current one.  Its
\* Value is a temporary of p until the next step.
Spawn(p, c) ==
  /\ pc[p] = "body" /\ pc[c] = "unborn"
  /\ pc' = [pc EXCEPT ![p] = "bound", ![c] = "body"]
  /\ target' = [target EXCEPT ![p] = c]
  /\ chain' = [chain EXCEPT ![c] = chain[p] \union {c}]
  /\ parent' = [parent EXCEPT ![c] = p]
  /\ frames' = frames \union {c}
  /\ joinable' = joinable \union {c}
  /\ UNCHANGED <<home, last, envLock, dropping, fate>>

\* p gives up a reference to the Value of t: if it was the last one, ~Value
\* runs before p goes on at l.
GiveUp(p, t, kept, l) ==
  /\ target' = [target EXCEPT ![p] = IF kept THEN None ELSE t]
  /\ Goto(p, IF kept THEN l ELSE "dtor")

\* A statement of a body ends with result v; exec_block keeps it until the next
\* one has ended.
Settle(p, v) ==
  /\ last' = [last EXCEPT ![p] = v]
  /\ GiveUp(p, last[p],
            last[p] \in {None, v} \/ home[last[p]] # None \/ HeldElsewhere(p, last[p]), "body")

\* `let t = spawn { .. }`
Define(p) ==
  /\ pc[p] = "bound"
  /\ Unlocked(p, {p})
  /\ home' = [home EXCEPT ![target[p]] = p]
  /\ Settle(p, target[p])
  /\ UNCHANGED <<chain, parent, frames, joinable, envLock, dropping, fate>>

\* `spawn { .. };`: the result of the statement is all that has the Value.
Discard(p) ==
  /\ pc[p] = "bound"
  /\ Settle(p, target[p])
  /\ UNCHANGED <<chain, parent, frames, home, joinable, envLock, dropping, fate>>

\* Any other statement ends: `t`, `t = spawn { .. }`, whose result is a thread,
\* or one that has another result.
EndStatement(p, v) ==
  /\ pc[p] = "body"
  /\ v # None => MayName(p, v, "shareName")
  /\ Settle(p, v)
  /\ UNCHANGED <<chain, parent, frames, home, joinable, envLock, dropping, fate>>

\* `t = null` or `t = spawn { .. }` for the variable that holds thread d: the
\* old Value, if nobody else has it, dies inside Env::assign, which owns the
\* mutexes of every frame from p's own to the variable's.
Overwrite(p, d) ==
  LET f == home[d]
      new == IF pc[p] = "bound" THEN target[p] ELSE None
      kept == last[p] = d \/ HeldElsewhere(p, d)
  IN
  /\ "overwrite" \in habits
  /\ pc[p] \in {"body", "bound"}
  /\ f \in chain[p]
  /\ Unlocked(p, Path(p, f))
  /\ home' = [h \in Procs |-> CASE h = d   -> None
                                [] h = new -> f
                                [] OTHER   -> home[h]]
  /\ envLock' = [g \in Procs |-> IF ~kept /\ g \in Path(p, f) THEN p ELSE envLock[g]]
  /\ GiveUp(p, d, kept, "body")
  /\ UNCHANGED <<chain, parent, frames, last, joinable, dropping, fate>>

-----------------------------------------------------------------------------
(* join *)

\* t.join(): the Value is looked up; joinable() decides whether to go on.
CallJoin(u, t) ==
  /\ pc[u] = "body"
  /\ MayName(u, t, "shareJoin")
  /\ t \in joinable
  /\ Goto(u, "joinable")
  /\ target' = [target EXCEPT ![u] = t]
  /\ UNCHANGED <<chain, parent, frames, home, last, joinable, envLock, dropping, fate>>

\* std::thread::join after the check: it throws when the thread is no longer
\* joinable, is the caller, or waits for the caller, and that exception is
\* neither a RuntimeError nor an AegisThrow.  A second join of the same
\* thread is undefined: it may fail, behave like the first, or never return.
EnterJoin(u) ==
  LET t == target[u] IN
  /\ pc[u] = "joinable"
  /\ \/ /\ t \notin joinable \/ t = u \/ (pc[t] = "waiting" /\ target[t] = u)
        /\ EndProgram("badJoin")
        /\ UNCHANGED pc
     \/ /\ t \in joinable /\ t # u /\ ~(pc[t] = "waiting" /\ target[t] = u)
        /\ Goto(u, "waiting")
        /\ UNCHANGED fate
     \/ /\ \E w \in Joining(t) : pc[w] = "waiting"
        /\ Goto(u, "stuck")
        /\ UNCHANGED fate
     \/ /\ \E w \in Joining(t) : pc[w] = "waiting"
        /\ EndProgram("badJoin")
        /\ UNCHANGED pc
  /\ UNCHANGED <<target, chain, parent, frames, home, last, joinable, envLock, dropping>>

FinishJoin(u) ==
  /\ pc[u] = "waiting"
  /\ pc[target[u]] = "ended"
  /\ joinable' = joinable \ {target[u]}
  /\ target' = [target EXCEPT ![u] = None]
  /\ Goto(u, "body")
  /\ UNCHANGED <<chain, parent, frames, home, last, envLock, dropping, fate>>

\* ~Value: join a thread that is still joinable; the owner of the Value may be
\* that very thread.  The mutexes of an assignment are released after it.
Destroy(u) ==
  LET t == target[u] IN
  /\ pc[u] = "dtor"
  /\ \/ /\ t \in joinable
        /\ t = u \/ (pc[t] = "waiting" /\ target[t] = u)
        /\ EndProgram("selfJoin")
        /\ UNCHANGED <<pc, target, joinable, envLock>>
     \/ /\ t \in joinable => pc[t] = "ended"
        /\ joinable' = joinable \ {t}
        /\ target' = [target EXCEPT ![u] = None]
        /\ envLock' = [g \in Procs |-> IF envLock[g] = u THEN None ELSE envLock[g]]
        /\ Goto(u, IF dropping[u] = None THEN "body" ELSE "unwind")
        /\ UNCHANGED fate
  /\ UNCHANGED <<chain, parent, frames, home, last, dropping>>

-----------------------------------------------------------------------------
(* the body of a process *)

\* A name of the global scope is used: Env::get walks the whole chain.
Lookup(p) ==
  /\ pc[p] = "body"
  /\ Goto(p, "lookup")
  /\ UNCHANGED <<target, chain, parent, frames, home, last, joinable, envLock, dropping, fate>>

Found(p) ==
  /\ pc[p] = "lookup"
  /\ Unlocked(p, chain[p])
  /\ Goto(p, "body")
  /\ UNCHANGED <<target, chain, parent, frames, home, last, joinable, envLock, dropping, fate>>

\* The body returns, or a RuntimeError ends it (the thread's lambda and
\* cmd_run catch it): the process gives up its reference to its frame.
End(p) ==
  /\ pc[p] = "body"
  /\ "leave" \in habits \/ \A c \in joinable : home[c] # p
  /\ Goto(p, "unwind")
  /\ dropping' = [dropping EXCEPT ![p] = p]
  /\ UNCHANGED <<target, chain, parent, frames, home, last, joinable, envLock, fate>>

\* An AegisThrow leaves the body of a spawned thread: its lambda has no
\* handler for it.  In Main it ends the body (cmd_run reports it), see End.
Throw(p) ==
  /\ "throw" \in habits
  /\ pc[p] = "body" /\ p # Main
  /\ EndProgram("uncaught")
  /\ UNCHANGED <<pc, target, chain, parent, frames, home, last, joinable, envLock, dropping>>

\* Giving up a frame: if it was the last reference the variables die, one
\* Value at a time, and then the reference to the enclosing frame is given up.
\* The result of the body's last statement dies with the variables: after them
\* when the body returned, before them when an exception left it.
Unwind(p) ==
  LET f == dropping[p]
      freed == f # None /\ ~HeldBesides(p, f)
  IN
  /\ pc[p] = "unwind"
  /\ \/ \E c \in Procs :
          /\ freed /\ home[c] = f
          /\ home' = [home EXCEPT ![c] = None]
          /\ GiveUp(p, c, last[p] = c \/ HeldElsewhere(p, c), "unwind")
          /\ UNCHANGED <<frames, last, dropping>>
     \/ /\ f # None /\ last[p] # None
        /\ last' = [last EXCEPT ![p] = None]
        /\ GiveUp(p, last[p], home[last[p]] # None \/ HeldElsewhere(p, last[p]), "unwind")
        /\ UNCHANGED <<frames, home, dropping>>
     \/ /\ last[p] = None /\ freed /\ \A c \in Procs : home[c] # f
        /\ frames' = frames \ {f}
        /\ dropping' = [dropping EXCEPT ![p] = parent[f]]
        /\ UNCHANGED <<pc, target, home, last>>
     \/ /\ last[p] = None /\ ~freed
        /\ Goto(p, "ended")
        /\ dropping' = [dropping EXCEPT ![p] = None]
        /\ UNCHANGED <<target, frames, home, last>>
  /\ UNCHANGED <<chain, parent, joinable, envLock, fate>>

\* main() of the process returns: the threads that still run are killed.
Exit ==
  /\ pc[Main] = "ended"
  /\ EndProgram("exit")
  /\ UNCHANGED <<pc, target, chain, parent, frames, home, last, joinable, envLock, dropping>>

\* What the scheduler makes happen to a process that is not in its body.
Progress(p) ==
  Live /\ UNCHANGED habits /\ (Define(p) \/ EnterJoin(p) \/ FinishJoin(p) \/ Destroy(p) \/ Found(p) \/ Unwind(p))

Next ==
  \/ /\ Live
     /\ UNCHANGED habits
     /\ \/ \E p, q \in Procs :
             Spawn(p, q) \/ Overwrite(p, q) \/ CallJoin(p, q) \/ EndStatement(p, q)
        \/ \E p \in Procs :
             \/ Define(p) \/ Discard(p) \/ EndStatement(p, None)
             \/ EnterJoin(p) \/ FinishJoin(p) \/ Destroy(p)
             \/ Lookup(p) \/ Found(p) \/ End(p) \/ Throw(p) \/ Unwind(p)
        \/ Exit
  \/ ~Live /\ UNCHANGED vars

SafeSpec == Init /\ [][Next]_vars

\* The scheduler runs every thread that can take a step outside its body, the
\* bodies of the program join what they may join and come to their end, and
\* then the process exits.
Fairness ==
  /\ \A p \in Procs : WF_vars(Progress(p))
  /\ \A p \in Procs : SF_vars(Live /\ UNCHANGED habits /\ End(p))
  /\ \A p \in Procs : SF_vars(Live /\ UNCHANGED habits /\ \E t \in Procs : CallJoin(p, t))
  /\ WF_vars(Live /\ UNCHANGED habits /\ Exit)

Spec == SafeSpec /\ Fairness

-----------------------------------------------------------------------------
TypeOK ==
  /\ habits \in Styles
  /\ pc \in [Procs -> Places]
  /\ target \in [Procs -> Procs \union {None}]
  /\ chain \in [Procs -> SUBSET Procs]
  /\ parent \in [Procs -> Procs \union {None}]
  /\ frames \subseteq Procs
  /\ home \in [Procs -> Procs \union {None}]
  /\ last \in [Procs -> Procs \union {None}]
  /\ joinable \subseteq Procs \ {Main}
  /\ envLock \in [Procs -> Procs \union {None}]
  /\ dropping \in [Procs -> Procs \union {None}]
  /\ fate \in Fates

\* A thread that still runs its body never sees an environment that was freed,
\* although the scopes around it may have ended long ago (the lambda of spawn
\* owns its Env, and an Env owns its parent).
FramesOutliveThreads ==
  \A p \in Procs :
     pc[p] \in {"body", "bound", "lookup"} \union InCall => chain[p] \subseteq frames

\* Once a join of a thread returned, and once a destructor is past its join,
\* the body of that thread has ended, whoever else joined or destroyed it.
JoinedMeansEnded ==
  \A t \in Procs \ {Main} :
     pc[t] # "unborn" /\ t \notin joinable => pc[t] = "ended"

\* The Value of a thread that was not joined is never lost: a variable, the
\* result of a statement, or a process that binds, joins or destroys it, still
\* holds it.  A std::thread
\* destroyed while joinable would call std::terminate.
HandleNeverLost ==
  \A t \in joinable :
     \/ home[t] # None
     \/ \E u \in Procs : last[u] = t
     \/ \E u \in Procs : target[u] = t /\ pc[u] \in {"bound", "dtor"} \union InCall

\* "Destructor: join any live thread so std::terminate() is never called".
NeverTerminates == fate \notin {"badJoin", "selfJoin"}

\* The program is aborted only when it left a thread unjoined, assigned over a
\* handle, joined a handle of another scope, or threw out of a thread; the
\* last is the one way to an uncaught error.
AbortHasCause ==
  /\ ~NeverTerminates => habits \intersect {"leave", "overwrite", "shareJoin"} # {}
  /\ fate = "uncaught" => "throw" \in habits

\* "join() method - blocks until thread finishes", and no longer than that,
\* as long as one thread joins a handle.
JoinReturns ==
  \A u \in Procs :
     ("shareJoin" \notin habits /\ pc[u] \in InCall /\ pc[target[u]] = "ended")
        ~> (~Live \/ pc[u] \notin InCall)

\* What a process cannot go on without: the owners of the mutexes it needs, the
\* thread it joins.
WaitsFor(p) ==
  CASE pc[p] = "bound"   -> {envLock[p]} \ {None, p}
    [] pc[p] = "lookup"  -> {envLock[f] : f \in chain[p]} \ {None, p}
    [] pc[p] = "waiting" -> {target[p]}
    [] pc[p] = "dtor" /\ target[p] \in joinable -> {target[p]}
    [] OTHER -> {}

\* q has an environment that p sees locked while it joins a thread: it assigns
\* over a handle.
LockedOut(p, q) ==
  /\ \E f \in chain[p] : envLock[f] = q /\ q # p
  /\ pc[q] = "dtor" /\ target[q] \in joinable

\* "Environment - thread-safe via recursive_mutex": a process that uses a name
\* is locked out of an environment for good in one case.  The environment is
\* locked by an assignment over a handle, which joins the handle's thread with
\* the mutex taken, and that thread comes to no end because it waits, through
\* other threads or not, for this very assignment or for a second join of one
\* thread, that never returns.
LookupReturns ==
  \A p \in Procs :
     <>[](Live /\ pc[p] = "lookup") =>
        <>[](\E S \in SUBSET Procs :
               /\ \E q \in S : LockedOut(p, q)
               /\ \A q \in S : pc[q] = "stuck" \/ WaitsFor(q) \intersect S # {})

\* A program that joins its own handles before their scope ends comes to a
\* regular exit.
ProgramEnds == (habits = {}) ~> (fate = "exit")

=============================================================================
