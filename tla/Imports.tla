------------------------------- MODULE Imports --------------------------------
(***************************************************************************)
(* What becomes of the import directives of a project: they are bound      *)
(* (crates/fhec-bind/src/binder.rs), rewritten (fhec-lower/src/imports.rs),*)
(* followed to assemble what solc is given (fhec-cli/src/gate.rs), and     *)
(* rewritten back for the self-check (fhec-cli/src/stages.rs).  Three of   *)
(* these four read the parsed directive or the text in ways of their own.  *)
(*                                                                         *)
(* A path is a directory, a stem and an extension.  What a text holds is a *)
(* list of what may be taken for an import: its quotes; whether it is code,*)
(* a directive that is parsed, or text of a comment; whether it is found   *)
(* when the text is read line by line (it is the first quoted text of a    *)
(* line that starts with "import"); and the specifier: the number of       *)
(* directories it climbs plus one, or 0 when it is bare.  solc and the     *)
(* disk are external.                                                      *)
(***************************************************************************)
EXTENDS Integers, Sequences, SequencesExt

CONSTANTS Name,        \* what files and directories may be called
          Paths,       \* sequences of paths: the files of the unit, in order
          Listed(_),   \* the import lists a file of the unit at a path may have
          Disks,       \* functions: library files to the imports they have
          Root         \* the project's directory

FilePath  == [dir : Seq(Name), stem : Name, ext : Name]
Specifier == [up : Nat, dir : Seq(Name), stem : Name, ext : Name]
Directive == [quote : {"double", "single"}, code : BOOLEAN, line : BOOLEAN, spec : Specifier]

\* load.rs takes no other files into a unit
ASSUME ImportsAssumption ==
    /\ {"fsol", "sol", "generated", "node_modules"} \subseteq Name
    /\ \A paths \in Paths : /\ paths \in Seq(FilePath)
                            /\ \A n \in DOMAIN paths :
                                  /\ paths[n].ext \in {"fsol", "sol"}
                                  /\ Listed(paths[n]) \subseteq Seq(Directive)
    /\ \A d \in Disks : /\ DOMAIN d \subseteq FilePath
                        /\ \A p \in DOMAIN d : d[p] \in Seq(Directive)
    /\ Root \in Seq(Name)

VARIABLES unit,     \* the loaded files: path and imports
          disk,     \* the library files on disk
          verify,   \* the solc gate is on
          stage,    \* the stage that runs next, or "end"
          verdict,  \* what was reported, "" if nothing
          outs,     \* the outputs: path and imports
          sources,  \* what solc is given: by name, its imports and where it lies
          queue     \* what the closure still has to find

vars == <<unit, disk, verify, stage, verdict, outs, sources, queue>>

Larger(m, n) == IF m < n THEN n ELSE m

-----------------------------------------------------------------------------
(***************************************************************************)
(* Paths.                                                                  *)
(***************************************************************************)

\* climbing out of the top directory is ignored
Climb(dir, n) == SubSeq(dir, 1, Larger(0, Len(dir) - n))
Resolve(dir, spec) ==
    [dir  |-> (IF spec.up = 0 THEN << >> ELSE Climb(dir, spec.up - 1)) \o spec.dir,
     stem |-> spec.stem, ext |-> spec.ext]

OutDir     == "generated"
Output(p)  == [p EXCEPT !.ext = "sol"]
Virtual(p) == [Output(p) EXCEPT !.dir = <<OutDir>> \o @]
InOutDir(p) == p.dir # << >> /\ p.dir[1] = OutDir

\* node_modules of the directory or of the nearest one above it that has the file
Candidate(dir, p) == [p EXCEPT !.dir = dir \o <<"node_modules">> \o @]
Holders(dir, p) == {n \in 0..Len(dir) : Candidate(SubSeq(dir, 1, n), p) \in DOMAIN disk}
OnDisk(dir, p)  == Holders(dir, p) # {}
ResolveBare(dir, p) ==
    LET n == CHOOSE n \in Holders(dir, p) : \A m \in Holders(dir, p) : m <= n
    IN Candidate(SubSeq(dir, 1, n), p)

-----------------------------------------------------------------------------
(***************************************************************************)
(* One directive.                                                          *)
(***************************************************************************)

Files(u) == {u[n].path : n \in DOMAIN u}
Relative(spec) == spec.up > 0

\* resolve_imports: a relative specifier must name a file of the unit (FHE1003)
Unbound(u) == \E n \in DOMAIN u : \E m \in DOMAIN u[n].imports :
                 LET d == u[n].imports[m]
                 IN d.code /\ Relative(d.spec) /\ Resolve(u[n].path.dir, d.spec) \notin Files(u)

\* Fault: the files that are not of the dialect are left alone.
RewrittenInDialect(path, d) ==
    IF path.ext = "fsol" /\ d.code /\ d.quote = "double" /\ d.spec.ext = "fsol"
    THEN [d EXCEPT !.spec.ext = "sol"] ELSE d

\* rewrite_imports: of the directives, only text that ends in .fsol" is rewritten
Rewritten(path, d) ==
    IF d.code /\ d.quote = "double" /\ d.spec.ext = "fsol"
    THEN [d EXCEPT !.spec.ext = "sol"] ELSE d

\* Fault: specifiers in single quotes are not read.
ReadDouble(imports) == SelectSeq(imports, LAMBDA d : d.line /\ d.quote = "double")

\* import_spec_of_line: a line that starts with import, in a comment or not,
\* and what is quoted on it first
Read(imports) ==
    LET upto[m \in 0..Len(imports)] ==
            IF m = 0 THEN << >>
            ELSE IF imports[m].line THEN Append(upto[m - 1], imports[m])
            ELSE upto[m - 1]
    IN upto[Len(imports)]

\* Fault: the specifier is not resolved against the importer.
UnrewrittenAsWritten(path, d) ==
    IF /\ d.line /\ d.spec.ext = "sol"
       /\ [dir |-> d.spec.dir, stem |-> d.spec.stem, ext |-> "sol"] \in Files(outs)
    THEN [d EXCEPT !.spec.ext = "fsol"] ELSE d

\* unrewrite_imports: what is read so and names an output is given its .fsol
\* back, in a comment too
Unrewritten(path, d) ==
    IF /\ d.line /\ d.spec.ext = "sol"
       /\ Resolve(path.dir, d.spec) \in Files(outs)
    THEN [d EXCEPT !.spec.ext = "fsol"] ELSE d

\* the outputs, as far as their names and imports go
Lowered(u) == [n \in DOMAIN u |->
                 [path    |-> Output(u[n].path),
                  imports |-> [m \in DOMAIN u[n].imports |->
                                 Rewritten(u[n].path, u[n].imports[m])]]]

\* Fault: the imports of a library are looked for from the project.
WantedFromRoot(virtual, dir, imports) ==
    LET read == Read(imports)
    IN [m \in DOMAIN read |-> [name |-> Resolve(virtual.dir, read[m].spec), from |-> Root]]

\* what the imports of a text ask for, when it has this name and lies in this directory
Wanted(virtual, dir, imports) ==
    LET read == Read(imports)
    IN [m \in DOMAIN read |-> [name |-> Resolve(virtual.dir, read[m].spec), from |-> dir]]

-----------------------------------------------------------------------------

Init == /\ \E paths \in Paths : \E lists \in [DOMAIN paths -> UNION {Listed(p) : p \in ToSet(paths)}] :
              /\ \A n \in DOMAIN paths : lists[n] \in Listed(paths[n])
              /\ unit = [n \in DOMAIN paths |-> [path |-> paths[n], imports |-> lists[n]]]
        /\ disk \in Disks
        /\ verify \in BOOLEAN
        /\ stage = "bind" /\ verdict = ""
        /\ outs = << >> /\ sources = << >> /\ queue = << >>

Stop(what) == stage' = "end" /\ verdict' = what

Bind ==
    /\ stage = "bind"
    /\ IF Unbound(unit) THEN Stop("FHE1003")
       ELSE stage' = "lower" /\ UNCHANGED verdict
    /\ UNCHANGED <<unit, disk, verify, outs, sources, queue>>

Lower ==
    /\ stage = "lower"
    /\ outs' = Lowered(unit)
    /\ stage' = IF verify THEN "collect" ELSE "self-check"
    /\ UNCHANGED <<unit, disk, verify, verdict, sources, queue>>

\* closure: the outputs, and what they import
Collect ==
    /\ stage = "collect"
    /\ sources' = [v \in {Virtual(p) : p \in Files(outs)} |->
                     [imports |-> (CHOOSE o \in ToSet(outs) : Virtual(o.path) = v).imports,
                      dir |-> Root]]
    /\ queue' = FlattenSeq([n \in DOMAIN outs |->
                              Wanted(Virtual(outs[n].path), Root, outs[n].imports)])
    /\ stage' = "close"
    /\ UNCHANGED <<unit, disk, verify, verdict, outs>>

\* queue.pop(): already there
Skip ==
    /\ stage = "close" /\ queue # << >>
    /\ Last(queue).name \in DOMAIN sources
    /\ queue' = Front(queue)
    /\ UNCHANGED <<unit, disk, verify, stage, verdict, outs, sources>>

\* "generated file imports ..., which is not part of the project", and a
\* specifier no node_modules above the importer has
Missing ==
    /\ stage = "close" /\ queue # << >>
    /\ LET w == Last(queue)
       IN /\ w.name \notin DOMAIN sources
          /\ InOutDir(w.name) \/ ~OnDisk(w.from, w.name)
    /\ Stop("unresolved")
    /\ UNCHANGED <<unit, disk, verify, outs, sources, queue>>

Fetch ==
    /\ stage = "close" /\ queue # << >>
    /\ LET w == Last(queue)  found == ResolveBare(w.from, w.name)
       IN /\ w.name \notin DOMAIN sources /\ ~InOutDir(w.name) /\ OnDisk(w.from, w.name)
          /\ sources' = [v \in DOMAIN sources \cup {w.name} |->
                           IF v = w.name THEN [imports |-> disk[found], dir |-> found.dir]
                           ELSE sources[v]]
          /\ queue' = Front(queue) \o Wanted(w.name, found.dir, disk[found])
    /\ UNCHANGED <<unit, disk, verify, stage, verdict, outs>>

\* solc: an import that was not given is an error (the names are all it can go by)
Directives(imports) == {m \in DOMAIN imports : imports[m].code}
Imported(v) ==
    {Resolve(v.dir, sources[v].imports[m].spec) : m \in Directives(sources[v].imports)}
Compile ==
    /\ stage = "close" /\ queue = << >>
    /\ IF \E v \in DOMAIN sources : ~(Imported(v) \subseteq DOMAIN sources)
       THEN Stop("source not found")
       ELSE stage' = "self-check" /\ UNCHANGED verdict
    /\ UNCHANGED <<unit, disk, verify, outs, sources, queue>>

\* self_check: the outputs again, under the names of their sources
Again == [n \in DOMAIN outs |->
            [path    |-> unit[n].path,
             imports |-> [m \in DOMAIN outs[n].imports |->
                            Unrewritten(unit[n].path, outs[n].imports[m])]]]
SelfCheck ==
    /\ stage = "self-check"
    /\ Stop(IF Unbound(Again) THEN "self-check: FHE1003"
            ELSE IF Lowered(Again) # outs THEN "self-check: FHE9001" ELSE "")
    /\ UNCHANGED <<unit, disk, verify, outs, sources, queue>>

Next == \/ Bind \/ Lower \/ Collect \/ Skip \/ Missing \/ Fetch \/ Compile \/ SelfCheck

Spec == Init /\ [][Next]_vars

-----------------------------------------------------------------------------
(***************************************************************************)
(* Properties.                                                             *)
(***************************************************************************)

\* A relative import of an output names an output: what was bound to a file of
\* the unit is found in what is written (spec.md 2.6), gate or no gate.
OutputsImportOutputs ==
    \A n \in DOMAIN outs : \A m \in Directives(outs[n].imports) :
        LET spec == outs[n].imports[m].spec
        IN Relative(spec) => Resolve(Virtual(outs[n].path).dir, spec)
                                \in {Virtual(p) : p \in Files(outs)}

\* When the gate reports that an import cannot be resolved, some text it read
\* has a directive of one: no node_modules above that text has the file.
Unresolvable(v, spec) ==
    LET name == Resolve(v.dir, spec)
    IN name \notin DOMAIN sources /\ (InOutDir(name) \/ ~OnDisk(sources[v].dir, name))
ErrorsAreReal ==
    verdict = "unresolved" =>
        \E v \in DOMAIN sources : \E m \in Directives(sources[v].imports) :
            Unresolvable(v, sources[v].imports[m].spec)

\* solc is given every text that one of the texts it is given imports.
NothingMissing == verdict # "source not found"

\* Every library text is the one its importer finds, walking up from where the
\* importer itself lies.
NodeStyle ==
    \A v \in DOMAIN sources : \A name \in Imported(v) \cap DOMAIN sources :
        ~InOutDir(name) /\ stage = "self-check" =>
            /\ OnDisk(sources[v].dir, name)
            /\ sources[name].dir = ResolveBare(sources[v].dir, name).dir

\* A build that reported nothing passes its own self-check: the outputs are
\* accepted and come out as they went in (spec.md 1.4).
SelfCheckAccepts == verdict \notin {"self-check: FHE1003", "self-check: FHE9001"}
=============================================================================
