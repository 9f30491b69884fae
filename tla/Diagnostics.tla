----------------------------- MODULE Diagnostics -----------------------------
(***************************************************************************)
(* aegis-vscode/src/extension.js: the diagnostics of the open documents.   *)
(* The handlers of the extension run one at a time; what they start runs   *)
(* beside them and beside each other: processes of `aegis check`, each of  *)
(* which reads the file of its document and those it imports, as they are  *)
(* on disk, and one timer.                                                 *)
(*                                                                         *)
(* A text is the number of its version, and a result is what was read:     *)
(* what the compiler says of a program is in the modules of the compiler.  *)
(***************************************************************************)
EXTENDS Naturals, Sequences, SequencesExt

CONSTANTS Docs,
          Reads,         \* the files a check of a document reads, one after the other
          CheckOnSave, CheckOnType,
          NoDocument,
          MaxVersion,    \* bound: versions of a file
          MaxChecks      \* bound: checks that run at once

ASSUME DocsAssumption ==
  /\ IsFiniteSet(Docs)
  /\ Reads \in [Docs -> Seq(Docs)]
  /\ \A d \in Docs : Reads[d] # << >> /\ Head(Reads[d]) = d
  /\ NoDocument \notin Docs
ASSUME SettingsAssumption == CheckOnSave \in BOOLEAN /\ CheckOnType \in BOOLEAN
ASSUME BoundsAssumption == MaxVersion \in Nat /\ MaxChecks \in Nat

VARIABLES
  open,      \* the documents that are open, and those with changes not saved
  dirty,
  file,      \* the version of each on disk
  shown,     \* diagnosticCollection: the versions a result is of
  checks,    \* the checks that run, in the order they were started
  timer,     \* the document of debounceTimer
  logged,    \* whether outputChannel has a line
  missed,    \* history: a check could not be run
  since      \* history: what happened to a document since a check of it began alone

editorVars == <<open, dirty, file, shown, checks, timer, logged, missed, since>>

Nothing == << >>
Partial == << 0 >>      \* some of a result

Check(d) == [doc |-> d, seen |-> << >>]
Checked(d) == \E i \in DOMAIN checks : checks[i].doc = d

Current(d) == [i \in DOMAIN Reads[d] |-> file[Reads[d][i]]]

\* The error that execFile passes to its callback.
Errors == [killed  |-> [code |-> "null", errno |-> "undefined"],
           missing |-> [code |-> "ENOENT", errno |-> "-2"]]

\* activate: every document that is open already is checked.
EditorInit ==
  /\ open \in SUBSET Docs
  /\ dirty \in SUBSET open
  /\ file = [d \in Docs |-> 1]
  /\ shown = [d \in Docs |-> Nothing]
  /\ checks = SetToSeq({Check(d) : d \in open})
  /\ timer = NoDocument
  /\ logged = FALSE
  /\ missed = FALSE
  /\ since = [d \in Docs |-> {}]

\* Mutated: one check at a time, and what comes in between is dropped.
RunCheckUnlessBusy(d, past) ==
  /\ Len(checks) < MaxChecks
  /\ IF checks = << >>
     THEN checks' = << Check(d) >> /\ since' = [past EXCEPT ![d] = {}]
     ELSE UNCHANGED checks /\ since' = past

\* runCheck starts a process and returns; past is the history before it.
RunCheck(d, past) ==
  /\ Len(checks) < MaxChecks
  /\ checks' = Append(checks, Check(d))
  /\ since' = [past EXCEPT ![d] = IF Checked(d) THEN @ \cup {"overlap"} ELSE {}]

-----------------------------------------------------------------------------
(* The handlers of activate. *)

Open(d) ==
  /\ d \notin open
  /\ open' = open \cup {d}
  /\ RunCheck(d, since)
  /\ UNCHANGED <<dirty, file, shown, timer, logged, missed>>

\* The versions of all that import d are old now.
Save(d) ==
  /\ d \in open /\ file[d] < MaxVersion
  /\ dirty' = dirty \ {d}
  /\ file' = [file EXCEPT ![d] = @ + (IF d \in dirty THEN 1 ELSE 0)]
  /\ LET past == [e \in Docs |-> IF d \in Range(Reads[e]) THEN since[e] \cup {"saved"} ELSE since[e]]
     IN  IF CheckOnSave THEN RunCheck(d, past) ELSE since' = past /\ UNCHANGED checks
  /\ UNCHANGED <<open, shown, timer, logged, missed>>

\* scheduleCheck: the timer of an earlier change is cleared, whichever document it was of.
Change(d) ==
  /\ d \in open
  /\ dirty' = dirty \cup {d}
  /\ timer' = IF CheckOnType THEN d ELSE timer
  /\ UNCHANGED <<open, file, shown, checks, logged, missed, since>>

TimerFires ==
  /\ timer # NoDocument
  /\ timer' = NoDocument
  /\ RunCheck(timer, since)
  /\ UNCHANGED <<open, dirty, file, shown, logged, missed>>

\* Checks and timers of the document are left running.
Close(d) ==
  /\ d \in open
  /\ open' = open \ {d}
  /\ dirty' = dirty \ {d}
  /\ shown' = [shown EXCEPT ![d] = Nothing]
  /\ UNCHANGED <<file, checks, timer, logged, missed, since>>

CheckFile(d) ==
  /\ d \in open
  /\ RunCheck(d, since)
  /\ UNCHANGED <<open, dirty, file, shown, timer, logged, missed>>

-----------------------------------------------------------------------------
(* The processes, and the callback of execFile. *)

Read(i) ==
  LET c == checks[i]
  IN  /\ Len(c.seen) < Len(Reads[c.doc])
      /\ checks' = [checks EXCEPT ![i].seen = Append(@, file[Reads[c.doc][Len(@) + 1]])]
      /\ UNCHANGED <<open, dirty, file, shown, timer, logged, missed, since>>

\* "We only bail out early if the executable couldn't be run at all."
BailsOut(err) == err.code = "undefined" /\ err.errno # "undefined"

\* A program with errors is an exit with code 1, whose output is shown like any other.
Exit(i) ==
  LET c == checks[i]
  IN  /\ Len(c.seen) = Len(Reads[c.doc])
      /\ shown' = [shown EXCEPT ![c.doc] = c.seen]
      /\ checks' = RemoveAt(checks, i)
      /\ UNCHANGED <<open, dirty, file, timer, logged, missed, since>>

\* What was written before the end is shown.
CheckFails(i, err, output) ==
  LET d == checks[i].doc
  IN  /\ shown' = [shown EXCEPT ![d] = IF BailsOut(err) THEN Nothing ELSE output]
      /\ logged' = (logged \/ BailsOut(err))
      /\ checks' = RemoveAt(checks, i)
      /\ since' = [since EXCEPT ![d] = @ \cup {"failed"}]
      /\ UNCHANGED <<open, dirty, file, timer>>

\* Mutated: execFile is not given a timeout.
NotKilled(i) == FALSE /\ UNCHANGED editorVars

\* Ten seconds are over.
Killed(i) == CheckFails(i, Errors.killed, Partial) /\ UNCHANGED missed

Missing(i) ==
  /\ checks[i].seen = << >>
  /\ CheckFails(i, Errors.missing, Nothing)
  /\ missed' = TRUE

Callback == checks # << >> /\ (Exit(1) \/ Killed(1) \/ Missing(1))

EditorNext ==
  \/ \E d \in Docs : Open(d) \/ Save(d) \/ Change(d) \/ Close(d) \/ CheckFile(d)
  \/ TimerFires
  \/ \E i \in DOMAIN checks : Read(i) \/ Exit(i) \/ Killed(i) \/ Missing(i)

\* The first of the checks is at most ten seconds from its end.
EditorSpec == EditorInit /\ [][EditorNext]_editorVars /\ WF_editorVars(Callback)

-----------------------------------------------------------------------------
(***************************************************************************)
(* Properties.                                                             *)
(***************************************************************************)
\* The result that stays (extension.js:90) is that of the document and of all it
\* imports as they are on disk, unless since a check of it began alone another one
\* did, one failed, or a file of its program was saved without one.
StaleHasCause ==
  \A d \in open : ~Checked(d) /\ since[d] = {} => shown[d] = Current(d)

\* A document that is open comes to show what its program is, with the same exceptions:
\* no process, be it hung, keeps the extension from it.
Answers ==
  \A d \in Docs : d \in open ~> d \notin open \/ since[d] # {} \/ shown[d] = Current(d)

\* extension.js:79: "We only bail out early if the executable couldn't be run at all";
\* then it does, and says so.
MissingIsSaid == missed => logged

\* extension.js:133: what is closed shows nothing.
ClosedShowsNothing == \A d \in Docs \ open : shown[d] = Nothing
=============================================================================
