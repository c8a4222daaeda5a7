-------------------------------- MODULE Watch --------------------------------
(***************************************************************************)
(* `fhec build --watch` and `fhec check --watch` (crates/fhec-cli/src/     *)
(* watch.rs): one run, then a file watcher with a debouncer on a thread of *)
(* its own, and a loop that runs the command again when a batch of events  *)
(* asks for it and looks at the Ctrl-C flag when none comes.               *)
(*                                                                         *)
(* A run reads fhec.toml and then the sources of the src directory it      *)
(* names, and a build without errors then writes to the out directory it   *)
(* names; Build.tla has the rest of it.  A directory's sources are a       *)
(* version number.                                                         *)
(*                                                                         *)
(* Left out: check --watch --fix, which writes sources itself (Build.tla   *)
(* has what --fix does to them); the paths below a directory, the timing   *)
(* of the debouncer (a batch is sent some time after the first of its      *)
(* events), exit codes, a src directory that does not exist when the watch *)
(* starts.                                                                 *)
(***************************************************************************)
EXTENDS Integers, Sequences

CONSTANTS
    Dir,            \* directories
    Under(_, _),    \* is_under: the first is the second or inside it
    Config,         \* what fhec.toml may say: [src, out, opt]
    Initial,        \* what it may say when the watch starts
    Changes,        \* what the author may change it to
    Unsafe(_),      \* the configurations refuse_unsafe_watch refuses
    Broken(_),      \* texts of fhec.toml that do not load
    IsBuild,        \* the command is build (it writes), not check without --fix
    EarlyEdits,     \* the author edits before the watchers are installed too
    MaxSaves,       \* bound: edits
    MaxErrors,      \* bound: watcher errors
    MaxQueue        \* bound: batches waiting in the channel

ASSUME DirAssumption ==
    /\ Config \subseteq [src : Dir, out : Dir, opt : Nat] /\ Initial \cup Changes \subseteq Config
    /\ \A c, d \in Dir : Under(c, d) \in BOOLEAN
    /\ \A d \in Dir : Under(d, d)
    /\ \A c \in Config : Unsafe(c) \in BOOLEAN /\ Broken(c) \in BOOLEAN
ASSUME WatchAssumption ==
    /\ MaxSaves \in Nat /\ MaxErrors \in Nat /\ MaxQueue \in Nat \ {0}
    /\ IsBuild \in BOOLEAN /\ EarlyEdits \in BOOLEAN

\* a file system event: fhec.toml, a dialect source or another file changed
TomlEvent == [what |-> "toml"]
Event     == [what : {"dialect", "other"}, dir : Dir] \cup {TomlEvent}

VARIABLES
    toml,     \* what fhec.toml says
    version,  \* of the sources in each directory
    pc,       \* where the process is
    loaded,   \* the configuration cmd_watch loaded, once
    cfg,      \* the configuration the current run loaded
    read,     \* what the last run that read its sources read
    watched,  \* which of src and fhec.toml are watched
    pending,  \* events the debouncer holds
    queue,    \* batches in the channel
    handler,  \* the Ctrl-C handler is installed
    stop,     \* the flag it sets
    saves, errors  \* counters for the bounds

watchVars == <<toml, version, pc, loaded, cfg, read, watched, pending, queue,
               handler, stop, saves, errors>>

\* discover reads what is under src, except an out directory nested in it
Nested(d, c)  == Under(d, c.out) /\ Under(c.out, c.src) /\ c.out # c.src
Counted(d, c) == Under(d, c.src) /\ ~Nested(d, c)
Nothing       == [d \in Dir |-> -1]
Sources(c)    == IF Broken(c) THEN Nothing
                 ELSE [d \in Dir |-> IF Counted(d, c) THEN version[d] ELSE 0]

\* the last run has seen what is there now
UpToDate == read = [cfg |-> toml, sources |-> Sources(toml)]

Watching == watched = {"src", "toml"}

WatchInit ==
    /\ toml \in Initial
    /\ version = [d \in Dir |-> 0]
    /\ pc = "start"
    /\ loaded = toml
    /\ cfg = toml
    /\ read = [cfg |-> toml, sources |-> [d \in Dir |-> -2]]
    /\ watched = {}
    /\ pending = {}
    /\ queue = << >>
    /\ handler = FALSE
    /\ stop = FALSE
    /\ saves = 0
    /\ errors = 0

-----------------------------------------------------------------------------
(* Events                                                                  *)

\* the watch on src is recursive, the one on fhec.toml of that file
Delivered(e) == \/ e = TomlEvent /\ "toml" \in watched
                \/ e # TomlEvent /\ "src" \in watched /\ Under(e.dir, loaded.src)

Emit(e) == pending' = IF Delivered(e) THEN pending \cup {e} ELSE pending

\* Fault: events from out are not dropped.
RebuildAlways(e) ==
    e = TomlEvent \/ (e.what = "dialect" /\ Under(e.dir, loaded.src))

ShouldRebuild(e) ==
    \/ e = TomlEvent
    \/ /\ e.what = "dialect"
       /\ ~Under(e.dir, loaded.out)
       /\ Under(e.dir, loaded.src)

\* the debouncer's thread sends what it holds as one batch
Fire == /\ pending # {} /\ Len(queue) < MaxQueue
        /\ queue' = Append(queue, pending)
        /\ pending' = {}
        /\ UNCHANGED <<toml, version, pc, loaded, cfg, read, watched, handler, stop,
                       saves, errors>>

\* a watcher error is a message too
WatcherError ==
    /\ errors < MaxErrors /\ watched # {} /\ Len(queue) < MaxQueue
    /\ queue' = Append(queue, {})
    /\ errors' = errors + 1
    /\ UNCHANGED <<toml, version, pc, loaded, cfg, read, watched, pending, handler,
                   stop, saves>>

-----------------------------------------------------------------------------
(* The process                                                             *)

Go(there) == pc' = there

\* load_project and refuse_unsafe_watch; with nothing to load, the command
\* reports that once
Begin ==
    /\ pc = "start"
    /\ loaded' = toml
    /\ Go(IF Broken(toml) \/ Unsafe(toml) THEN "ended" ELSE "run")
    /\ UNCHANGED <<toml, version, cfg, read, watched, pending, queue, handler, stop,
                   saves, errors>>

\* after the first run the watchers, after the others the loop
AfterRun == IF Watching THEN "loop" ELSE "watch src"

\* run(g) loads fhec.toml again; if it cannot it reports that and is done
RunLoad ==
    /\ pc = "run"
    /\ cfg' = toml
    /\ IF Broken(toml) THEN read' = [cfg |-> toml, sources |-> Nothing] /\ Go(AfterRun)
                       ELSE Go("read") /\ UNCHANGED read
    /\ UNCHANGED <<toml, version, loaded, watched, pending, queue, handler, stop,
                   saves, errors>>

RunRead ==
    /\ pc = "read"
    /\ read' = [cfg |-> cfg, sources |-> Sources(cfg)]
    /\ Go("write")
    /\ UNCHANGED <<toml, version, loaded, cfg, watched, pending, queue, handler, stop,
                   saves, errors>>

\* a check without --fix, or a build of sources with errors, writes nothing
RunWrite ==
    /\ pc = "write"
    /\ \/ IsBuild /\ Emit([what |-> "dialect", dir |-> cfg.out])
       \/ UNCHANGED pending
    /\ Go(AfterRun)
    /\ UNCHANGED <<toml, version, loaded, cfg, read, watched, queue, handler, stop,
                   saves, errors>>

\* watch_loop: the watchers, then the handler, if it can be installed
Install ==
    /\ \/ /\ pc = "watch src"
          /\ watched' = {"src"}
          /\ Go("watch toml")
          /\ UNCHANGED handler
       \/ /\ pc = "watch toml"
          /\ watched' = {"src", "toml"}
          /\ Go("handler")
          /\ UNCHANGED handler
       \/ /\ pc = "handler"
          /\ handler' \in BOOLEAN
          /\ Go("loop")
          /\ UNCHANGED watched
    /\ UNCHANGED <<toml, version, loaded, cfg, read, pending, queue, stop, saves, errors>>

\* a watcher cannot be installed
InstallFails ==
    /\ pc \in {"watch src", "watch toml"}
    /\ Go("ended")
    /\ UNCHANGED <<toml, version, loaded, cfg, read, watched, pending, queue, handler,
                   stop, saves, errors>>

\* Fault: a batch asks for a rebuild only when every event in it does.
ReceiveAll ==
    /\ pc = "loop" /\ queue # << >>
    /\ queue' = Tail(queue)
    /\ Go(IF Head(queue) # {} /\ \A e \in Head(queue) : ShouldRebuild(e)
          THEN "run" ELSE "loop")
    /\ UNCHANGED <<toml, version, loaded, cfg, read, watched, pending, handler, stop,
                   saves, errors>>

\* Fault: what has queued up during the run is dropped with the batch.
ReceiveDrain ==
    /\ pc = "loop" /\ queue # << >>
    /\ queue' = << >>
    /\ Go(IF \E e \in Head(queue) : ShouldRebuild(e) THEN "run" ELSE "loop")
    /\ UNCHANGED <<toml, version, loaded, cfg, read, watched, pending, handler, stop,
                   saves, errors>>

Receive ==
    /\ pc = "loop" /\ queue # << >>
    /\ queue' = Tail(queue)
    /\ Go(IF \E e \in Head(queue) : ShouldRebuild(e) THEN "run" ELSE "loop")
    /\ UNCHANGED <<toml, version, loaded, cfg, read, watched, pending, handler, stop,
                   saves, errors>>

\* Fault: the flag is looked at only after a batch.
TimeoutAfterBatch ==
    /\ pc = "loop" /\ queue # << >> /\ stop
    /\ Go("ended")
    /\ UNCHANGED <<toml, version, loaded, cfg, read, watched, pending, queue, handler,
                   stop, saves, errors>>

\* nothing came for a while: only now is the flag looked at
Timeout ==
    /\ pc = "loop" /\ queue = << >> /\ stop
    /\ Go("ended")
    /\ UNCHANGED <<toml, version, loaded, cfg, read, watched, pending, queue, handler,
                   stop, saves, errors>>

\* Ctrl-C: the handler sets the flag; without one the process dies
Interrupt ==
    /\ pc # "ended" /\ ~stop
    /\ IF handler THEN stop' = TRUE /\ UNCHANGED pc
                  ELSE Go("ended") /\ UNCHANGED stop
    /\ UNCHANGED <<toml, version, loaded, cfg, read, watched, pending, queue, handler,
                   saves, errors>>

-----------------------------------------------------------------------------
(* The author                                                              *)

MayEdit == saves < MaxSaves /\ (EarlyEdits \/ Watching)

EditSource(d) ==
    /\ MayEdit
    /\ version' = [version EXCEPT ![d] = version[d] + 1]
    /\ Emit([what |-> "dialect", dir |-> d])
    /\ saves' = saves + 1
    /\ UNCHANGED <<toml, pc, loaded, cfg, read, watched, queue, handler, stop, errors>>

EditToml(c) ==
    /\ MayEdit
    /\ toml' = c
    /\ Emit(TomlEvent)
    /\ saves' = saves + 1
    /\ UNCHANGED <<version, pc, loaded, cfg, read, watched, queue, handler, stop, errors>>

\* an editor's own files, and anything that is not a dialect source
EditOther(d) ==
    /\ MayEdit
    /\ Emit([what |-> "other", dir |-> d])
    /\ saves' = saves + 1
    /\ UNCHANGED <<toml, version, pc, loaded, cfg, read, watched, queue, handler, stop,
                   errors>>

Process == Begin \/ RunLoad \/ RunRead \/ RunWrite \/ Install \/ Receive \/ Timeout

WatchNext ==
    \/ Process \/ InstallFails \/ Fire \/ WatcherError \/ Interrupt
    \/ \E d \in Dir : EditSource(d) \/ EditOther(d)
    \/ \E c \in Changes : EditToml(c)

\* The process and the debouncer's thread are scheduled, and a run ends.
Fairness == WF_watchVars(Process) /\ WF_watchVars(Fire)

WatchSpec == WatchInit /\ [][WatchNext]_watchVars /\ Fairness

-----------------------------------------------------------------------------
(* Properties                                                              *)

Asked == \/ \E e \in pending : ShouldRebuild(e)
         \/ \E i \in DOMAIN queue : \E e \in queue[i] : ShouldRebuild(e)

WatchTypeOK ==
    /\ toml \in Config /\ loaded \in Config /\ cfg \in Config
    /\ version \in [Dir -> Nat]
    /\ pc \in {"start", "run", "read", "write", "watch src", "watch toml", "handler",
               "loop", "ended"}
    /\ read \in [cfg : Config, sources : [Dir -> Nat \cup {-1, -2}]]
    /\ watched \in {{}, {"src"}, {"src", "toml"}}
    /\ pending \subseteq Event /\ queue \in Seq(SUBSET Event)
    /\ handler \in BOOLEAN /\ stop \in BOOLEAN
    /\ saves \in Nat /\ errors \in Nat
    /\ (pc = "loop" \/ handler) => Watching
    /\ stop => handler

\* Once the watchers are there no edit is forgotten: when the last run has not
\* seen what is there now, a run is about to read it, or a batch asks for one.
NothingLost ==
    Watching /\ pc # "ended" /\ ~UpToDate =>
        \/ Asked
        \/ pc = "run"
        \/ pc = "read" /\ cfg = toml

\* Rebuild or recheck when dialect sources or fhec.toml change (README): every
\* change is in the end picked up by a run.
CatchesUp == ~UpToDate ~> (UpToDate \/ pc = "ended")

\* Ctrl-C ends the watch.
StopEnds == stop ~> (pc = "ended")

\* Runs come from edits and not from the output of runs: with nothing to do,
\* the loop waits.
Quiet == <>[](pc \in {"loop", "ended"})
=============================================================================
