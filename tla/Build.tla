-------------------------------- MODULE Build --------------------------------
(***************************************************************************)
(* The fhec commands that read the source tree and write files             *)
(* (crates/fhec-cli/src/commands.rs), with the loader (load.rs), the       *)
(* driver of the stages (stages.rs), the mirror writer and the manifest    *)
(* writer (crates/fhec-emit/src/mirror.rs, manifest.rs): build, build      *)
(* --frozen, check, check --fix and clean.  Several may run at once (an    *)
(* editor's --watch, a Hardhat compile, a terminal), nothing locks the     *)
(* tree, the author edits meanwhile, and a process may die at any point.   *)
(*                                                                         *)
(* fs::write truncates and then writes, so it is two steps.  What the      *)
(* stages make of a unit (its files and their texts) is given by constant  *)
(* operators.  The manifest is a file like another; directories, the       *)
(* configuration file, --self-check and what is printed are left out.      *)
(***************************************************************************)
EXTENDS Integers, Sequences, FiniteSets

CONSTANTS
    Proc,           \* processes that run commands
    Commands,       \* the commands they run
    Path,           \* the files of the project
    SrcOrder,       \* the files under src the include globs admit, sorted
    OutTree,        \* the files under out
    Manifest,       \* out/.fhec/manifest.json
    Layout,         \* where out is: "apart", "out in src", "src in out", "same"
    OutRel,         \* output_rel_path: the output of each source
    None, Torn,     \* no file; a file truncated and not yet written
    Text,           \* what else a file may hold
    Disks,          \* the trees the project may be found in
    AuthorText,     \* what the author may write to a source (None: delete it)
    Errors(_),      \* whether some stage reports an error for a unit
    Lower(_, _),    \* the output of a file of an accepted unit
    ManifestOf(_),  \* the manifest of an accepted unit
    Fixes(_),       \* the files of a unit with safe fix-its
    Fixed(_),       \* a text with its fix-its applied; None: they overlap
    MaxRuns, MaxEdits  \* bounds on commands started and on edits

SrcPath == {SrcOrder[i] : i \in DOMAIN SrcOrder}
\* the author's own files; what is in an out inside src is generated
Authored == IF Layout = "out in src" THEN SrcPath \ OutTree ELSE SrcPath
Units   == UNION {[S -> Text \cup {Torn}] : S \in SUBSET SrcPath}

ASSUME PathAssumption ==
    /\ SrcOrder \in Seq(Path) /\ OutTree \subseteq Path
    /\ Layout \in {"apart", "out in src", "src in out", "same"}
    /\ Layout = "apart" => SrcPath \cap OutTree = {}
    /\ Manifest \in OutTree \ SrcPath
    /\ OutRel \in [SrcPath -> OutTree \ {Manifest}]
ASSUME TextAssumption ==
    /\ None # Torn /\ None \notin Text /\ Torn \notin Text
    /\ AuthorText \subseteq Text \cup {None}
    /\ \A u \in Units : /\ Errors(u) \in BOOLEAN
                        /\ Fixes(u) \subseteq DOMAIN u
                        /\ ManifestOf(u) \in Text
                        /\ \A f \in DOMAIN u : Lower(f, u) \in Text
    /\ \A t \in Text \cup {Torn} : Fixed(t) \in Text \cup {None}
    /\ Disks \subseteq [Path -> {None, Torn} \cup Text]
ASSUME BoundAssumption == MaxRuns \in Nat /\ MaxEdits \in Nat

VARIABLES
    disk,   \* what every file holds
    run,    \* what every process is doing
    runs, edits  \* how many commands were started, how many edits were made

vars == <<disk, run, runs, edits>>

NoUnit == [f \in {} |-> None]
Resting == [cmd |-> "none", pc |-> "rest", queue |-> << >>, unit |-> NoUnit,
            base |-> NoUnit, again |-> FALSE, bad |-> FALSE, code |-> 0,
            calm |-> TRUE]

Init == /\ disk \in Disks
        /\ run = [p \in Proc |-> Resting]
        /\ runs = 0
        /\ edits = 0

-----------------------------------------------------------------------------
\* those of the files in S, in the order of the walk
Sorted(S) ==
    LET upto[i \in 0..Len(SrcOrder)] ==
            IF i = 0 THEN << >>
            ELSE IF SrcOrder[i] \in S THEN Append(upto[i - 1], SrcOrder[i])
            ELSE upto[i - 1]
    IN upto[Len(SrcOrder)]

\* Fault: the walk goes into an out directory inside src.
WalkedAll == SrcPath

\* discover walks src, but not an out directory nested in it
Walked == SrcPath \ (IF Layout = "out in src" THEN OutTree ELSE {})
Present == {f \in Walked : disk[f] # None}

\* p does its next step; whoever else is running may have been disturbed
Private(p, r) == run' = [run EXCEPT ![p] = r] /\ UNCHANGED disk
Public(p, r, path, text) ==
    /\ disk' = [disk EXCEPT ![path] = text]
    /\ run' = [q \in Proc |-> IF q = p THEN r
                              ELSE [run[q] EXCEPT !.calm = FALSE]]

Ended(r, code) == [r EXCEPT !.pc = "done", !.code = code, !.queue = << >>]
Verdict(bad)   == IF bad THEN 1 ELSE 0

Start(p, c) ==
    /\ runs < MaxRuns
    /\ run[p].pc \in {"rest", "done"}
    /\ Private(p, [Resting EXCEPT !.cmd = c,
                                  !.pc = IF c = "clean" THEN "clean" ELSE "walk"])
    /\ runs' = runs + 1
    /\ UNCHANGED edits

\* discover: list the files, then read them one by one
Walk(p) ==
    /\ run[p].pc = "walk"
    /\ Private(p, [run[p] EXCEPT !.pc = "read", !.queue = Sorted(Present),
                                 !.unit = NoUnit, !.bad = FALSE])
    /\ UNCHANGED <<runs, edits>>

\* a file gone since it was listed is an error, and not part of the unit
ReadFile(p) ==
    /\ run[p].pc = "read" /\ run[p].queue # << >>
    /\ LET r == run[p]
           f == Head(r.queue)
       IN Private(p,
            [r EXCEPT !.queue = Tail(r.queue),
                      !.unit  = IF disk[f] = None THEN r.unit
                                ELSE [g \in DOMAIN r.unit \cup {f} |->
                                        IF g = f THEN disk[f] ELSE r.unit[g]],
                      !.bad   = r.bad \/ disk[f] = None])
    /\ UNCHANGED <<runs, edits>>

\* the writes of stage 7, in order: the mirror, then the manifest
Outputs(u) ==
    [i \in 1..Len(Sorted(DOMAIN u)) |->
        LET f == Sorted(DOMAIN u)[i] IN [path |-> OutRel[f], text |-> Lower(f, u)]]
Writes(u) == Append(Outputs(u), [path |-> Manifest, text |-> ManifestOf(u)])
FixWrites(u) ==
    [i \in 1..Len(Sorted(Fixes(u))) |->
        LET f == Sorted(Fixes(u))[i] IN [path |-> f, text |-> Fixed(u[f])]]

\* stages::run on the whole unit, and what the command does with the result
Stages(p) ==
    /\ run[p].pc = "read" /\ run[p].queue = << >>
    /\ LET r   == run[p]
           bad == r.bad \/ Errors(r.unit)
           fix == r.cmd = "fix" /\ ~r.again
       IN Private(p,
            IF fix /\ Fixes(r.unit) # {}
            THEN [r EXCEPT !.pc = "write", !.base = r.unit,
                           !.queue = FixWrites(r.unit)]
            ELSE IF r.cmd \in {"check", "fix"} \/ bad THEN Ended(r, Verdict(bad))
            ELSE [r EXCEPT !.pc = IF r.cmd = "frozen" THEN "compare" ELSE "write",
                           !.queue = Writes(r.unit)])
    /\ UNCHANGED <<runs, edits>>

-----------------------------------------------------------------------------
(* Writing                                                                 *)

FailCode(r) == IF r.cmd = "fix" THEN 2 ELSE 1

\* fs::write opens and truncates ...
OpenFile(p) ==
    /\ run[p].pc = "write" /\ run[p].queue # << >>
    /\ Head(run[p].queue).text # None
    /\ Public(p, [run[p] EXCEPT !.pc = "fill"], Head(run[p].queue).path, Torn)
    /\ UNCHANGED <<runs, edits>>

\* ... and then writes
FillFile(p) ==
    /\ run[p].pc = "fill"
    /\ Public(p, [run[p] EXCEPT !.pc = "write", !.queue = Tail(run[p].queue)],
              Head(run[p].queue).path, Head(run[p].queue).text)
    /\ UNCHANGED <<runs, edits>>

\* the file system refuses, before or after the file was truncated, or the
\* fix-its of a file overlap: the command ends with what it has written so far
WriteFails(p) ==
    /\ run[p].pc \in {"write", "fill"} /\ run[p].queue # << >>
    /\ Private(p, Ended(run[p], FailCode(run[p])))
    /\ UNCHANGED <<runs, edits>>

\* Fault: --fix checks the sources it had read.
WrittenStale(p) ==
    /\ run[p].pc = "write" /\ run[p].queue = << >>
    /\ Private(p, [run[p] EXCEPT !.pc = IF run[p].cmd = "fix" THEN "read" ELSE "sweep",
                                 !.again = TRUE])
    /\ UNCHANGED <<runs, edits>>

\* --fix reads and checks the fixed sources again; build goes on to clean
Written(p) ==
    /\ run[p].pc = "write" /\ run[p].queue = << >>
    /\ Private(p, [run[p] EXCEPT !.pc = IF run[p].cmd = "fix" THEN "walk" ELSE "sweep",
                                 !.again = TRUE])
    /\ UNCHANGED <<runs, edits>>

\* what clean_orphans removes: all but the manifest and what was written
Keep(u)    == {OutRel[f] : f \in DOMAIN u}

\* Fault: the sweep is not confined to out.
OrphansAnywhere(u) == {o \in Path \ ({Manifest} \cup Keep(u)) : disk[o] # None}

Orphans(u) == {o \in OutTree \ ({Manifest} \cup Keep(u)) : disk[o] # None}

Sweep(p) ==
    /\ run[p].pc = "sweep"
    /\ \E o \in Orphans(run[p].unit) : Public(p, run[p], o, None)
    /\ UNCHANGED <<runs, edits>>

Swept(p) ==
    /\ run[p].pc = "sweep"
    /\ \/ /\ Orphans(run[p].unit) = {}
          /\ Private(p, [run[p] EXCEPT !.pc = "gate"])
       \/ /\ Orphans(run[p].unit) # {}  \* a file cannot be removed
          /\ Private(p, Ended(run[p], 1))
    /\ UNCHANGED <<runs, edits>>

\* solc accepts what was lowered, or not
Gate(p) ==
    /\ run[p].pc = "gate"
    /\ \E bad \in {run[p].bad, TRUE} : Private(p, Ended(run[p], Verdict(bad)))
    /\ UNCHANGED <<runs, edits>>

-----------------------------------------------------------------------------
(* --frozen                                                                *)

\* frozen_compare reads every file it would have written
Compare(p) ==
    /\ run[p].pc = "compare" /\ run[p].queue # << >>
    /\ LET w == Head(run[p].queue)
       IN Private(p, [run[p] EXCEPT !.queue = Tail(run[p].queue),
                                    !.bad = run[p].bad \/ disk[w.path] # w.text])
    /\ UNCHANGED <<runs, edits>>

\* Fault: files it would not have written are not looked for.
ComparedWritten(p) ==
    /\ run[p].pc = "compare" /\ run[p].queue = << >>
    /\ Private(p, [run[p] EXCEPT !.pc = "gate"])
    /\ UNCHANGED <<runs, edits>>

\* and looks for files it would not have written
Compared(p) ==
    /\ run[p].pc = "compare" /\ run[p].queue = << >>
    /\ Private(p, [run[p] EXCEPT !.pc = "gate",
                                 !.bad = run[p].bad \/ Orphans(run[p].unit) # {}])
    /\ UNCHANGED <<runs, edits>>

-----------------------------------------------------------------------------
(* clean                                                                   *)

\* remove_dir_all, in the order the directory lists
Clean(p) ==
    /\ run[p].pc = "clean" /\ Layout # "same"
    /\ \E o \in OutTree : disk[o] # None /\ Public(p, run[p], o, None)
    /\ UNCHANGED <<runs, edits>>

\* nothing left, or refused, or a file cannot be removed
Cleaned(p) ==
    /\ run[p].pc = "clean"
    /\ Private(p, Ended(run[p], IF Layout # "same" /\ \A o \in OutTree : disk[o] = None
                           THEN 0 ELSE 2))
    /\ UNCHANGED <<runs, edits>>

-----------------------------------------------------------------------------
(* The world around                                                        *)

Die(p) ==
    /\ run[p].pc \notin {"rest", "done"}
    /\ run' = [run EXCEPT ![p] = Resting]
    /\ UNCHANGED <<disk, runs, edits>>

Edit(f, t) ==
    /\ edits < MaxEdits
    /\ disk[f] # t
    /\ disk' = [disk EXCEPT ![f] = t]
    /\ run' = [q \in Proc |-> [run[q] EXCEPT !.calm = FALSE]]
    /\ edits' = edits + 1
    /\ UNCHANGED runs

Step(p) ==
    \/ Walk(p) \/ ReadFile(p) \/ Stages(p)
    \/ OpenFile(p) \/ FillFile(p) \/ WriteFails(p) \/ Written(p)
    \/ Sweep(p) \/ Swept(p) \/ Gate(p)
    \/ Compare(p) \/ Compared(p) \/ Clean(p) \/ Cleaned(p)

Next == \/ \E p \in Proc : Step(p) \/ Die(p)
        \/ \E p \in Proc, c \in Commands : Start(p, c)
        \/ \E f \in Authored, t \in AuthorText : Edit(f, t)

Spec == Init /\ [][Next]_vars

-----------------------------------------------------------------------------
(* Properties                                                              *)

RunOK(r) ==
    /\ r.cmd \in Commands \cup {"none"}
    /\ r.pc \in {"rest", "walk", "read", "write", "fill", "sweep", "gate",
                "compare", "clean", "done"}
    /\ r.unit \in Units /\ r.base \in Units
    /\ r.pc = "read" => \A i \in DOMAIN r.queue : r.queue[i] \in SrcPath
    /\ r.pc \in {"write", "fill", "compare"} =>
          \A i \in DOMAIN r.queue : r.queue[i].path \in Path
    /\ r.pc = "fill" => r.queue # << >> /\ Head(r.queue).text # None
    /\ {r.again, r.bad, r.calm} \subseteq BOOLEAN
    /\ r.code \in {0, 1, 2}

\* The file being filled is the one that was opened, and what is filled in is
\* a text.
TypeOK == /\ disk \in [Path -> {None, Torn} \cup Text]
          /\ \A p \in Proc : RunOK(run[p])
          /\ runs \in 0..MaxRuns /\ edits \in 0..MaxEdits

Now == [f \in {g \in Authored : disk[g] # None} |-> disk[f]]

\* out is what regenerating u writes, and nothing else
Mirror(u) == /\ \A f \in DOMAIN u : disk[OutRel[f]] = Lower(f, u)
             /\ disk[Manifest] = ManifestOf(u)
             /\ Orphans(u) = {}

\* 1:1 mirror (README): whatever was in out before, stale outputs, what a
\* killed run left, half-written files, a build nobody disturbed that reports
\* success leaves exactly the outputs and the manifest of the sources.
BuildFresh ==
    \A p \in Proc : LET r == run[p] IN
        r.calm /\ r.cmd = "build" /\ (r.pc = "gate" \/ (r.pc = "done" /\ r.code = 0))
            => Mirror(Now)

\* --frozen (README: fail if regeneration differs from the committed tree):
\* undisturbed, it finds a difference exactly when building would change out.
FrozenExact ==
    \A p \in Proc : LET r == run[p] IN
        r.calm /\ r.cmd = "frozen" /\ r.pc = "gate" => (r.bad <=> ~Mirror(Now))

\* A build that reports success leaves a tree that --frozen accepts.
BuildThenFrozen ==
    \A p, q \in Proc : LET b == run[p] f == run[q] IN
        /\ b.cmd = "build" /\ b.pc = "done" /\ b.code = 0 /\ b.calm
        /\ f.cmd = "frozen" /\ f.pc = "gate" /\ f.calm
        => ~f.bad

\* --fix changes each source it has a fix for to the fixed text, once, and no
\* other, and its verdict is about the sources as fixed.
FixSound ==
    \A p \in Proc : LET r == run[p] IN
        r.calm /\ r.cmd = "fix" /\ r.again /\ r.pc = "done" /\ r.code # 2 =>
            /\ Now = [f \in DOMAIN r.base |-> IF f \in Fixes(r.base)
                                              THEN Fixed(r.base[f]) ELSE r.base[f]]
            /\ r.code = Verdict(Errors(Now))

\* clean_orphans removes what corresponds to no input, and clean the generated
\* tree: only the author and --fix change the sources, no other command does.
Fixing(p) == run[p].cmd = "fix" /\ run'[p] # run[p]
SourcesKept ==
    [][edits' = edits /\ ~(\E p \in Proc : Fixing(p)) =>
          \A f \in Authored : disk'[f] = disk[f]]_vars
=============================================================================
