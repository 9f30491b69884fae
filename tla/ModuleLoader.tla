---------------------------- MODULE ModuleLoader ----------------------------
(***************************************************************************)
(* resolve_modules: the relative imports of a program are replaced, depth   *)
(* first, by the top-level declarations of the files they name.  `visited`  *)
(* is one set for the whole load; a `use` of a file that is in it is        *)
(* dropped; `use ./m::{names}` keeps only those declarations of what the    *)
(* whole import of m brought, its own imports included.                     *)
(*                                                                          *)
(* The recursion is a stack of frames, one per file being resolved.  Every  *)
(* file declares two names, a function f and a class or variable g, which    *)
(* no other file declares.  Where in a file its imports stand makes no       *)
(* difference to what is loaded: they come first.                            *)
(*                                                                          *)
(* `visited` holds paths, and a file can have two of them: the command may    *)
(* name its file without a directory (main.ae), while an import of the same   *)
(* file names it with one (./main.ae).  That file is Root as imports name it  *)
(* and Bare as the command may; every other file has one path.               *)
(***************************************************************************)
EXTENDS Naturals, SequencesExt

CONSTANTS Paths,         \* the paths of the files
          Root, Bare,    \* the two of the file that the command names
          MaxDepth,      \* 32 in the code
          MaxUses,       \* bound: the imports of one file
          MaxImports,    \* bound: the imports of all files
          Selective,     \* the files m of which `use ./m::{names}` is used
          MayBreak       \* the files that may be missing or not lex or parse

\* The files, each as its imports name it.
Files == Paths \ {Bare}

ASSUME FilesAssumption ==
  /\ {Root, Bare} \subseteq Paths /\ Root # Bare
  /\ MayBreak \subseteq Files \ {Root}
ASSUME BoundsAssumption == {MaxDepth, MaxUses, MaxImports} \subseteq Nat
ASSUME SelectiveAssumption == Selective \subseteq Files

VARIABLES given,     \* the path in the command
          uses,      \* the program: the imports of each file, in order
          broken,    \* the files of it that cannot be loaded
          visited,
          stack,     \* the calls of resolve_modules in progress
          status,    \* "loading", "loaded", "missing", "tooDeep", "redefined"
          program    \* the merged declarations

vars == <<given, uses, broken, visited, stack, status, program>>

Own(f) == <<[file |-> f, name |-> "f"], [file |-> f, name |-> "g"]>>
Decls  == [file : Paths, name : {"f", "g"}]

\* The file a path leads to.
FileOf(p) == IF p = Bare THEN Root ELSE p

\* Two declarations that are one in the source.
Copies(d, e) == FileOf(d.file) = FileOf(e.file) /\ d.name = e.name

\* `names` empty: everything.
Import(m, names) == [mod |-> m, names |-> names]
Imports ==
  {Import(m, {}) : m \in Files} \union
  {Import(m, {[file |-> m, name |-> "f"]}) : m \in Selective}

UseLists == BoundedSeq(Imports, MaxUses)

Programs ==
  {p \in [Paths -> UseLists] :
     /\ p[Bare] = p[Root]
     /\ Cardinality(UNION {{f} \X DOMAIN p[f] : f \in Files}) <= MaxImports}

Frame(f) == [file |-> f, pos |-> 1, out |-> <<>>]
Top      == Last(stack)
Current  == uses[Top.file][Top.pos]

\* A call of resolve_modules is at one of its imports.
AtUse    == status = "loading" /\ Top.pos <= Len(uses[Top.file])
AtEnd    == status = "loading" /\ Top.pos > Len(uses[Top.file])

\* The loop over the declarations of the imported file.
Filter(decls, names) ==
  LET kept[i \in 0..Len(decls)] ==
        IF i = 0 THEN <<>>
        ELSE IF names = {} \/ decls[i] \in names THEN Append(kept[i - 1], decls[i])
        ELSE kept[i - 1]
  IN  kept[Len(decls)]

-----------------------------------------------------------------------------
(* Mutated forms *)

\* visited remembers a file only when it was resolved completely.
DescendUnmarked ==
  /\ AtUse /\ Current.mod \notin visited \union broken
  /\ Len(stack) <= MaxDepth
  /\ stack' = Append(stack, Frame(Current.mod))
  /\ UNCHANGED <<given, uses, broken, visited, status, program>>

\* The declarations of the importing file replace those of its imports.
ReturnOwnOnly ==
  /\ AtEnd /\ Len(stack) > 1
  /\ LET above == Front(stack)
         call  == Last(above)
     IN  stack' = [above EXCEPT ![Len(above)] =
           [call EXCEPT !.pos = @ + 1,
                        !.out = @ \o Filter(Own(Top.file), uses[call.file][call.pos].names)]]
  /\ UNCHANGED <<given, uses, broken, visited, status, program>>

\* The depth is compared with >= .
TooDeepEarly ==
  /\ AtUse /\ Current.mod \notin visited \union broken
  /\ Len(stack) >= MaxDepth
  /\ status' = "tooDeep"
  /\ UNCHANGED <<given, uses, broken, visited, stack, program>>

\* The loop over the children does not go past an import it drops.
SkipVisitedStays ==
  /\ AtUse /\ Current.mod \in visited
  /\ UNCHANGED vars

-----------------------------------------------------------------------------
Init ==
  /\ given \in {Root, Bare}
  /\ uses \in Programs
  /\ broken \in SUBSET MayBreak
  /\ visited = {given}
  /\ stack = <<Frame(given)>>
  /\ status = "loading"
  /\ program = <<>>

\* `if (visited.count(mod_path)) continue;`
SkipVisited ==
  /\ AtUse /\ Current.mod \in visited
  /\ stack' = [stack EXCEPT ![Len(stack)].pos = @ + 1]
  /\ UNCHANGED <<given, uses, broken, visited, status, program>>

\* The file cannot be opened, lexed or parsed: the whole load fails.
Fail ==
  /\ AtUse /\ Current.mod \in broken \ visited
  /\ visited' = visited \union {Current.mod}
  /\ status' = "missing"
  /\ UNCHANGED <<given, uses, broken, stack, program>>

Descend ==
  /\ AtUse /\ Current.mod \notin visited \union broken
  /\ Len(stack) <= MaxDepth
  /\ visited' = visited \union {Current.mod}
  /\ stack' = Append(stack, Frame(Current.mod))
  /\ UNCHANGED <<given, uses, broken, status, program>>

\* The recursive call finds its depth above the limit.
TooDeep ==
  /\ AtUse /\ Current.mod \notin visited \union broken
  /\ Len(stack) > MaxDepth
  /\ visited' = visited \union {Current.mod}
  /\ status' = "tooDeep"
  /\ UNCHANGED <<given, uses, broken, stack, program>>

\* A file is resolved: its own declarations follow those it imported, and
\* what the importing file asked for is spliced into that file.
Return ==
  /\ AtEnd /\ Len(stack) > 1
  /\ LET above == Front(stack)
         call  == Last(above)
         names == uses[call.file][call.pos].names
     IN  stack' = [above EXCEPT ![Len(above)] =
           [call EXCEPT !.pos = @ + 1,
                        !.out = @ \o Filter(Top.out \o Own(Top.file), names)]]
  /\ UNCHANGED <<given, uses, broken, visited, status, program>>

\* What Sema refuses in the merged program: a class or a variable of it twice in
\* the global scope.  It registers a function again without a word.
Redefined(decls) ==
  \E i, j \in DOMAIN decls :
     i # j /\ decls[i].name = "g" /\ Copies(decls[i], decls[j])

\* The command's own file is resolved, and Sema looks at the whole.
Finish ==
  /\ AtEnd /\ Len(stack) = 1
  /\ program' = Top.out \o Own(given)
  /\ status' = IF Redefined(program') THEN "redefined" ELSE "loaded"
  /\ UNCHANGED <<given, uses, broken, visited, stack>>

Done == status # "loading" /\ UNCHANGED vars

Load == SkipVisited \/ Fail \/ Descend \/ TooDeep \/ Return \/ Finish
Next == Load \/ Done

Spec == Init /\ [][Next]_vars /\ WF_vars(Load)

-----------------------------------------------------------------------------
TypeOK ==
  /\ given \in {Root, Bare}
  /\ uses \in Programs
  /\ broken \subseteq MayBreak
  /\ visited \subseteq Paths
  /\ \A i \in DOMAIN stack : stack[i].file \in visited /\ stack[i].out \in Seq(Decls)
  /\ status \in {"loading", "loaded", "missing", "tooDeep", "redefined"}
  /\ program \in Seq(Decls)

\* What the program's imports mean, without the order of the load.
UsesOf(f) == {uses[f][i].mod : i \in DOMAIN uses[f]}

\* What S reaches: the least set of paths that contains S and what its files use.
Closed(C) == \A f \in C : UsesOf(f) \subseteq C
Reach(S)  == {f \in Paths : \A C \in SUBSET Paths : S \subseteq C /\ Closed(C) => f \in C}
Needed == Reach({given})

\* The command names its file without a directory, and an import leads back to it.
NamedTwice == given = Bare /\ Root \in Needed

Merged == status \in {"loaded", "redefined"}

\* "a file is only ever loaded once", by path: whatever cycles, diamonds and
\* repeated imports the files form, no declaration is spliced in twice, except
\* those of the command's file when it is named without a directory and imported.
LoadedOnce ==
  /\ IsInjective(program)
  /\ \A i, j \in DOMAIN program :
        Copies(program[i], program[j]) /\ i # j =>
          FileOf(program[i].file) = Root /\ NamedTwice

\* "transitive imports and diamond imports are both handled correctly": when
\* every import names a whole file, the program is the declarations of exactly
\* the files the command's file reaches.
LoadsReachable ==
  Merged /\ (\A f \in Paths : \A i \in DOMAIN uses[f] : uses[f][i].names = {}) =>
    ToSet(program) = {d \in Decls : d.file \in Needed}

\* A program is refused only over a file that is needed and broken, over a chain of
\* imports that is really longer than the limit, or over the command's file, when
\* it is named without a directory and imported.
FailureHasCause ==
  /\ status = "missing" => broken \intersect Needed # {}
  /\ status = "tooDeep" =>
       \E chain \in [1..(MaxDepth + 2) -> Needed] :
          /\ IsInjective(chain)
          /\ \A i \in 1..(MaxDepth + 1) : chain[i + 1] \in UsesOf(chain[i])
  /\ status = "redefined" => NamedTwice

\* Every load comes to an end, whatever cycles the imports form.
LoadEnds == <>(status # "loading")

Acyclic == \A f \in Needed : f \notin Reach(UsesOf(f))

\* "Files are lexed/parsed/resolved exactly once even if imported from multiple
\* places", whatever the command calls its own.
LoadedExactlyOnce ==
  \A i, j \in DOMAIN program : Copies(program[i], program[j]) => i = j

\* "transitive imports and diamond imports (two files both importing the same
\* third file) are both handled correctly": in a program without cycles every
\* import of every file brings the names it asks for.
ImportsHonoured ==
  status = "loaded" /\ Acyclic =>
    \A f \in Needed : \A i \in DOMAIN uses[f] :
      LET u == uses[f][i]
          asked == IF u.names = {} THEN ToSet(Own(u.mod)) ELSE u.names
      IN  asked \subseteq ToSet(program)

=============================================================================
