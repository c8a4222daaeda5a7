# A verification development of fhec

fhec compiles a dialect of Solidity with encrypted types (`.fsol`) to plain
Solidity that calls the CoFHE library. This directory holds TLA+ models of it,
the TLC configurations that check them on small instances, and TLAPS proofs of
the theorems that hold for every instance. Line numbers are those of the
repository at the commit the models were written from.

`tlc -config X.cfg M` runs a configuration on its module (see the tables
below), `tlapm M.tla` checks the proofs of a module. `PROJECT.json` maps every
definition to the lines it models, every property to a mutation of the code
that breaks it, and every hazard to the properties aimed at it. A definition
whose comment begins with *Fault:* is such a mutation and is used nowhere else.

## 1. Inventory

The compiler is a batch program: `fhec-cli` loads the `.fsol` and `.sol` files
under `src`, runs the stages parse, bind, check, lower, splice over the whole
unit, writes a mirror of the tree under `out` and runs solc over it. State
lives in three places: on disk (sources, the mirror, the manifest, `fhec.toml`),
in the passes (environments, patch lists, name supplies), and in the `--watch`
loop. The only concurrency is between processes and threads around the file
system; the hard part of the passes is that they emit code whose *run* must do
what the source says.

| component | state | operations | what makes it correct |
|---|---|---|---|
| encrypted `if` lowering, `fhec-lower/src/pass_if.rs` | per frame: write set, key table, environment of version temps, pre-values; recursion over nested ifs | scan, alias analysis, render an arm, merge, direct select, append grants | the straight-line text leaves what the branching source leaves; an undecidable alias is rejected; pre-values are read exactly where the specification says; merged storage gets its grants |
| ACL insertion, `pass_acl.rs` | windows of statements, facts about what is granted | rules R1-R5, dedupe | every handle stored, passed or returned is granted before it is used, and once |
| operators, `pass_ops.rs`, `expr.rs` | patch list | rewrite operators, casts and coercions | the call computes the operator at the type the checker gave it |
| policy binding, imports, `policy_bind.rs`, `imports.rs` | patch list | annotations to grants, import rewriting | grants follow the annotation of the location written; an output imports outputs |
| splice, names, guard, `fhec-emit/src/{splice,namer,guard}.rs` | patch set, offset map, name supply | order, overlap test, splice, fresh names, re-parse | text outside the patches is kept byte for byte; names are fresh; offsets map back |
| mirror, manifest, `fhec-emit/src/{mirror,manifest}.rs` | the out tree | write, remove orphans | out is the 1:1 mirror of src |
| binder, `fhec-bind` | scopes, symbols, base lists | imports, name resolution, C3 | a name resolves as solc resolves it, whatever the files nobody sees contain |
| checker, `fhec-check` | types, initialized handles, verdicts on callees, the resolved signatures | typing, definite assignment, branch safety, legality of `in`, shared and preconditions, policies, lints | what is accepted never runs into an uninitialized handle, a leak, or an illegal lowering |
| solc runner, `fhec-verify` | discovered compilers | discovery, standard JSON, runner | the newest compiler that satisfies the requirement; no deadlock on the pipes |
| commands, load, stages, gate, `fhec-cli` | one run: unit, diagnostics, exit code | init, check, check --fix, build, --frozen, clean, config, explain; the gate's import closure and remapping | a success means that out is what the sources say; nothing but `--fix` writes a source; solc is given all it needs |
| watch, `fhec-cli/src/watch.rs` | watchers, batches, Ctrl-C flag | run, install, receive, time out | every edit is picked up; runs do not trigger runs; Ctrl-C ends it |
| targets, IR, syntax | tables and data types | lookups | - |
| Hardhat plugin, npm launcher, `packages/` | configuration of the host tool | run build before compile, remap errors, find the binary | compile sees the current mirror |

How they interact: `commands.rs` calls `load::discover`, hands the unit to
`stages::run`, which calls the other crates in order and returns outputs,
diagnostics and fix-its; it then calls `write_mirror`, `write_manifest`,
`clean_orphans` and the gate. `watch.rs` calls `cmd_build` or `cmd_check` as a
function, between messages from a debouncer's thread. The binder's resolutions
are what the checker types with, and the checker's tables (types of sites,
planned conversions, resolved signatures) are what the passes of `fhec-lower`
render from. These passes share a patch list: pass 1 renders the expressions
pass 2 asks for, pass 3 adds grants to the statements pass 2 left in place, and
the splicer puts the patches of all of them in order. The Hardhat plugin and a
terminal run the binary on the same tree, without a lock.

Hard behaviours: code that must be right in every arm of every nesting although
it always runs both arms; versions and pre-values that go stale; lvalues that
may be the same place at run time; an abstract walk that visits a loop once and
must speak for all its iterations; verdicts that are cached across the contracts
that ask for them; names that a file nobody reads may capture; patches of four
passes that meet at one offset; several readers of one import directive; a
process that dies between two writes or inside one; a source that changes while
it is read; two commands at once; edits that fall before, into or after a run of
the watch; a configuration that changes under the loop that filters by it.
`PROJECT.json` lists these hazards at their lines.

## 2. Plan

Done, in this order (each with its runs; sections 3 to 13):

1. `IfProgram`, `IfControl`, `SourceIf` (abstract), `IfSelect`, `IfLowering`
   (both over the same body), proofs `IfLowering_proofs`.
2. `Build`: the commands against the file system; proofs `Commands_proofs`.
3. `Watch`: the watch loop; proofs in `Commands_proofs` too (the names of the two
   modules are apart, so that one module can extend both).
4. `AclBody`, `AclLedger`, `Acl`: the insertion of grants over bodies, with
   the run of source and output; proofs `Acl_proofs`.
5. `AssignedBody`, `Assigned`: definite assignment against the runs of a body.
6. `Types`, `Plaintext`, `Typing`: typing and rendering of expressions; proofs
   `Typing_proofs`.
7. `Branch`: what may stand in an encrypted branch, with the visit of callees;
   proofs `Branch_proofs`.
8. `Names`: imports, C3, scopes and trust.
9. `Patches`, `Edits` (abstract), `Splice`: the splicer and the way back; proofs
   `Splice_proofs`.
10. `Imports`: import directives from the binder to solc and the self-check;
    proofs `Imports_proofs`.
11. `Guard`, `Boundary`: preconditions, encrypted inputs and shared results, and
    the prologue they are lowered to; proofs `Boundary_proofs`.

Next:

12. `Policy` (what `Acl` takes as the constant `Policied`, struct targets and
    `public if`); `Discovery` and the runner's pipes; `Namer`; `Hardhat`: the
    plugin around `Build`.
13. Theorems: `SlotsKept`, `NothingUnasked` and `SameOutcome` of `Acl`, over the
    correspondence of author's text and output of `Acl_proofs`;
    `SourceIf` implemented by `IfSelect` as a refinement.

## 3. The encrypted if

Both branches of an encrypted `if` run in the emitted code, so an assignment in
a branch goes to a fresh *version* of its location, and after the branches each
location is merged with `FHE.select(cond, then, else)`. The renderer and the
run of what it renders go in the same order, so one machine models both: a step
renders a statement and runs the text rendered for it.

* `IfProgram` has the bodies and the analyses made before rendering: the write
  set of an if (`scan_branch`), when two lvalues are or may be one location
  (`seg_rel`, `may_alias`, the key table of a frame), branch locals
  (`classify`), the shape of the direct select.
* `IfControl` is the walk over a body, with a stack of enclosing ifs (the
  recursion of `render_frame`).
* `SourceIf` is the abstract specification: the arm the condition selects runs.
* `IfSelect` is the pass: `frames` are the locals of `render_frame`, an
  environment maps a location to its current version, `OpenFrame` hoists the
  condition and reads pre-values, `TurnFrame` starts the else-arm from the
  pre-values, `MergeFrame` merges into the outer frame's versions or in place,
  with grants for storage; `Refuse` is a diagnostic that stops the file.
* `IfLowering` runs both over one body from one store; `mem` and `cond` of the
  source never influence the text.

Expressions are `Apply(fn, values)`; keys are fixed for a run, as a plaintext
write in an encrypted branch is rejected (FHE3006), and a *layout* says which
lvalues are one place at run time.

| run | shows |
|---|---|
| `IfAll` | `StoresAgree`, `BranchesRead`: the store agrees with the source at the end, and so does every read in an arm the conditions selected; `BranchesWriteNothing`: no branch writes a place; `FlatPreValuesExact`: an if without another inside declares the pre-values it needs and no others; `MergedStorageGranted`: a merged storage write has its grants |
| `IfReadThrough` | a body on which the pass departs from the specification (section 14) |

Bounds. Three families of bodies: one if with three assignments over two state
variables and two keys `m[i]`, `m[j]` that are one slot or two, with and without
else and in the direct form; an if in each arm, or an if in an if in an if, in
the scope of the proof; branch locals and storage pointers from before the if.
A body has at most three statements beside its ifs (four in the second family)
and every choice of what each writes and reads; two values suffice to tell
versions apart because every condition and every initial store is tried. Three
levels of nesting exercise a merge into a frame that itself merges into a
frame; the proof has no bound.

Specification: safety only; a body ends, so deadlock is not checked.

## 4. The commands and the file system

`Build` has a record per process: the command, where it is, the files it has
read, what it still has to write or compare. `fs::write` is two steps, truncate
and write; `Die` may come between any two steps; `Edit` is the author; two
processes may run at once. What the stages make of a unit is given by the
constant operators `Errors`, `Lower`, `Fixes` and `Fixed`. `Disks` are the trees
a run may start from: never built, built, stale, half-written.

A run is *calm* when nobody else touched the disk since it started. The
properties about results are about calm runs, because the code has no lock and
promises nothing to others; all interleavings are explored, and `SourcesKept`
holds in all of them.

`BuildAll` shows `BuildFresh`: after a build that succeeds out is exactly the
mirror of the author's sources, whatever was there; `FrozenExact`: `--frozen`
finds a difference exactly when there is one; `FixSound`: `--fix` leaves the
fixed sources, applies each fix once and judges what it left; `SourcesKept`: no
other command writes a source. `out` is inside `src`, so that outputs could be
taken for sources. `BuildTwin`, `BuildSame` and `CleanAround` are layouts in
which the code loses an output or the sources (section 14).

Bounds. Two processes and two commands in total give every pair of commands in
sequence and interleaved, with a death in the first; one edit gives a file
that vanishes, appears or changes between any two steps. Two sources, one
dialect and one plain, exercise the order of writes, partial failure and an
orphan beside a kept output. A command ends and nothing need follow: deadlock is
not checked.

## 5. The watch loop

`Watch` has the process (first run, the two watchers, the Ctrl-C handler, the
loop), the debouncer's thread, the channel between them and the author. A
directory's sources are a version number, `fhec.toml` a record of src, out and
another option, or a text that does not load; a run reads the configuration, the
sources, and a build without errors writes to out, which raises an event like
any other write.

`NothingLost` says that while the watchers are there and the last run has not
read what is there now, a batch asks for a run or one is about to read it.
`CatchesUp`: what changed is in the end read, or the watch ends. `StopEnds`:
Ctrl-C ends it. `Quiet`: runs come from edits and not from the output of runs.

Fairness: `WF(Process)`, as the loop is a thread of its own that is scheduled
and a run ends, and `WF(Fire)`, as the debouncer's thread sends what it holds
after its interval. The author, errors, Ctrl-C and failures have none.

`WatchSettled` shows all of it, with out inside src, two edits, a watcher error
and two waiting batches, when edits leave src and out alone; the watch is also
started on a refused and on a broken configuration. Two edits give one before
and one during a run, or both in one batch; two waiting batches are enough for
one to be passed over while another waits. The theorem has no bound.

`check --watch --fix` is accepted by the code (`main.rs`, line 101) and left out:
its runs write sources, which is an edit by the process itself. What `--fix`
does to the sources is in `Build`.

## 6. The grants

An encrypted value is a handle, and the coprocessor keeps per handle who may
use it: the contract's own permission must be stored before the transaction
ends (`allowThis`), a callee and the caller need one for the transaction
(`allowTransient`), readers a lasting one (`allow`). `pass_acl.rs` inserts
these calls beside the statements that need them, and none where the author has
one in the statement's *window*.

* `AclBody` is a function body as the pass sees it: a block has a list of
  statements, or is the lone statement of a branch without braces, or the header
  of a `for`. Expressions are the texts the pass compares. The windows
  (`forward_window`, `backward_window`, `local_grant_window`) and what writes
  what (`writes_to`) are operators on a body and a position.
* `AclLedger` runs a body, statement by statement: storage, locals, handles,
  the ledger, and who was handed what. It is all outside the repository.
* `Acl` is the pass: `due` is the list of facts in the order `run_function`
  takes them, an action per rule (`RuleR1` with R4, `RuleR2`, `RuleR3`,
  `RuleR5`, `RuleReapply`), `plan`, `braced` and `pending` the patches and the
  `AclOutcome`. `Splice` applies the patches. The pass then reads its own output
  as a second body (the self-check of spec 1.4), and `RunSource` and
  `RunOutput` run the author's body and the output from one state.

`AclGrants` shows `SameOutcome`: the author's statements do what they did and
nothing new reverts; `SlotsKept`: every value in storage stays usable; `Served`:
callee, caller and event reader may read what they are handed; `AudienceServed`:
a policy's reader reads the slot in whatever order slot and reader were written;
`NothingUnasked`: no grant beyond what the author asked for or the rules prove;
`Idempotent`: the second pass adds nothing. The bodies of `Stale` and of
`AclStepped` are some on which the pass departs from the specification of the dialect.

Bounds. Fifteen thousand bodies: all sequences of up to three statements of a
menu of twenty and six returns, and branches of each form with a statement
before, in and after. A grant can be missing because of a write, a grant before
or after it, and a use: three statements. One slot of each kind (plain, keyed by
the sender, with a policy, `m[k]`), one parameter, one callee, two readers
besides the zero address; a contract found cold (every handle uninitialized) or
warm. Not among the bodies, as the pass is wrong or promises nothing there: a
transient grant of the author followed by a write of its argument (`Stale`),
keys with side effects (`AclStepped`), readers written by other than plain
assignments, a call with a hoisted argument inside a return, a return in a
branch between a write and the author's grant on it, a key written between them,
and wrapped handles that are read again.

Specification: safety only; a function ends, so deadlock is not checked.

## 7. Definite assignment

CoFHE silently puts a default ciphertext where an uninitialized handle is used,
so the checker must refuse every function in which some path uses one (FHE2007).
`walk.rs` decides that with one abstract walk over the body.

* `AssignedBody` is the walk: `Walk` threads a state record through the
  statements (`a` the slots assigned, `ended` the walker's `terminated`,
  `breaks` and `continues` the snapshots a loop joins, `wrote` and `early` the
  logs of an encrypted branch, `out` the reports). `WalkEncIf` predicts which
  pre-values the lowering will read (`NeedsPre`); `Scan` is the scan of a
  modifier for a path that skips the placeholder.
* `Assigned` is a function the walk has accepted, run along every path: `good`
  are the slots that hold an initialized handle, `arms` the encrypted ifs in
  progress, whose two arms run one after the other from one state and are
  merged by `Merge`. A plaintext condition is a free choice.

`AssignedAll` shows `NothingMisused` (no uninitialized handle is an operand, an
argument, a merge's pre-value, or goes to storage), `NothingLeaks` (nor to the
caller) and `EndIsKnown` (the run comes to the closing brace only where the walk
says it may).

Bounds. 38,000 bodies: all straight code of three statements from a menu of
twenty, encrypted ifs with up to two statements an arm and nested in each
other, plaintext branches, try, short circuits, the three loops with jumps in
and out of branches, and modifiers around a body. A local nobody assigns, a
local and a named return are enough, as slots do not interact but by copies. Two
iterations (`MaxTrips`) tell what the body's end hands to its start. Not among
the bodies, as the walk is wrong there: a `continue` past a write that a `for`'s
trailing expression or a `do`'s condition reads, and a copy at the end of a loop
body of what its start uses (section 14). Assembly never runs: a function that
names a return is refused when it has any.

## 8. Types

`Types` has the encrypted lattice, the targets of operators (`CommonTarget`,
`ShiftTarget`, `ArmTarget`), the conversions (`Plan`) and the signatures of the
pinned library; `Plaintext` has what Solidity makes of a plaintext expression
(exact rationals for literals, widths for the rest). `Typing` is a stack
machine: `type_expr` visits an expression after its operands, so a leaf pushes a
node and an operator replaces its operands' nodes by its own. A node has the
type the checker gives (`ty`), the type the rendered text has for the library
(`lib`), what Solidity makes of it (`sol`), whether evaluating it has an effect
(`acts`) and whether `side_effect_span` sees one (`seen`). `site` is the rewrite
site the checker states, from which pass 1 renders.

`TypingAll` shows `RendersAsTyped` (the text has exactly the type the checker
gave, and the library accepts every site), `ConversionsExact` (no plaintext
operand is encrypted to a type it does not fit in) and `EffectsAsWritten` (no
effect in a place that Solidity skips or the lowering renders twice).

Bounds. Three leaves: a site of sites. Widths 1 and 3 encrypted, and 1, 3, 4
plaintext, give narrower, equal and too wide; literals 1, 2, 9 fit all, some and
none. `Combines = {}` and `Acting = {"operand"}` leave out operators on literals,
bit operators over two widths and effects in receivers and targets, where the
checker departs from the specification (section 14). Safety only.

## 9. What may stand in an encrypted branch

Both arms run, so nothing in one may emit, revert, leave the branch or write a
plaintext location, and a call is allowed only of a function that `branch_safe`
has verified, depth first, with one cache of verdicts for the unit. `Branch` is
that search as a stack machine over the functions of a unit: `frames` are the
calls of `branch_safe` in progress, `cache` the verdicts (an entry is unsafe
while in progress), `Enter`, `Finish`, `Reject`, `Pass` and `Descend` its steps;
`Take`, `Ask` and `Answer` those of the walk. A call statement has the function
the checker finds for it (`f`) and the one Solidity means (`names`), which differ
when the name is overloaded. It is of one of three kinds: by plain name; by
member of a contract or library (`qualified`), which is verified in a branch and
refused in a callee; or of a member of `super`, which is a builtin for
`classify_call`, let through in a branch and refused in a callee. `Runs` says
which function a plain call runs in a deployed contract, overrides included,
`RunsSuper` which one a call of `super`, and `Reached` and `Called` are the least
sets of functions closed under the calls that run and under the calls as the
checker reads them.

`BranchPlain` shows `BranchesClean` (an accepted branch does nothing, itself or
through any call in any contract that inherits it, that shows which way the
condition went), `CacheTransparent` (the answer does not depend on who asked
before).

Bounds. Five functions: two with encrypted branches and three helpers with every
call graph between them, cycles included, in a base contract or in a base and a
derived one; a third helper makes a cycle that is entered in its middle, and a
second branch finds the cache filled. Calls are by name or qualified, and a
callee also calls members of `super`. `Kinds = {}` and the two layouts leave out
a call of `super` in a branch itself, calls of an overload, statements the two
reject lists disagree on, libraries and overrides (section 14). Safety only.
`Branch_proofs` shows both properties for every unit without these (section
15).

## 10. Names

A resolution is a fact, never a guess: the binder does not read files outside
the unit, so an answer must hold in every *world* the unseen files may turn out
to be. `Names` follows one name through `bind` (`ResolveImports` with the plain
closure, `ResolveInheritance` with C3, the scopes of `walk_bodies`) and the scan
of `emit_trust` that refuses a generated call whose library name would be
captured (FHE1022); beside it stands what Solidity resolves the name to in a
world.

`NamesAll` shows `FactsNotGuesses` (what the binder claims holds in every world
solc accepts), `CallsTheProfile` (a generated call that is not refused means the
profile's library) and `LinearizationExact` (C3 orders a hierarchy as Solidity
does, and orders everything that can be ordered).

Bounds. Four families: hierarchies of four contracts with an unseen base and
cycles; the name placed in any of a contract, two bases, an unseen base and the
file; import graphs of three files and two unseen ones; bodies of six tokens.
`Reexports = FALSE` leaves out a name that comes through another file's named
import (section 14). Safety only; the passes end.

## 11. The splicer

`Patches` has the plan of a file: byte ranges and what replaces them. A byte is
its place in the text it comes from, since nothing downstream looks at it.
`Edits` is the abstract specification: the patches are made one at a time in any
order, each at its place in the author's text, and a plan with a patch that does
not fit is refused as a whole. `Splice` is the code: a stable sort, one walk that
copies and replaces, and the record of where each patch came to lie;
`RemapRange` is the way back, used for the errors of solc.

`SpliceAll` shows `Implements` (every behaviour of `Splice`, with the rest of the
source after the cursor appended to its output, is one of `Edits`, liveness
included), `CopiedExactly` (between patches the output is the author's text,
shifted by what the manifest records) and `TracedToSource` (every byte of the
output is traced to where it came from).

Bounds. A text of four bytes with one character of two, and every plan of up to
three patches of a menu of nested, adjacent, crossing, empty and misplaced ones:
three patches give two that meet at an offset and a third that overlaps one of
them. Fairness: `WF(Next)` in both, as the splicer is a function that returns.

## 12. Imports

`Imports` is what becomes of the import directives of a project: bound
(FHE1003), rewritten from `.fsol` to `.sol`, followed by the gate to assemble
what solc is given (`queue` is its worklist, `sources` what it has), and
rewritten back for the self-check. Three of these four read the directive in
ways of their own: the parsed item, the literal's text, a line of the output.
So an entry of a file's list says whether it is `code`, a directive of the parsed
file, or text in a comment, and whether a `line` scan takes it: binding and
`rewrite_imports` go by the first, the closure (`Read`) and `unrewrite_imports`
by the second.

`ImportsAll` shows `OutputsImportOutputs` (a relative import that was bound names
an output), `ErrorsAreReal` (an unresolved import reported is one that a directive asks for),
`NothingMissing` (solc is given every text that one of its texts imports) and `SelfCheckAccepts`.

`Name` is the set of path components; only equality of names matters.

Bounds. Units of one or two files in two directories, over two libraries that
import each other in cycles and lie beside, below or above their importer: the
closure has a text that is asked for twice and one found from its importer's
place only. Comments in sources and libraries hold import lines of libraries, so
the closure fetches what no directive names; none names a file of the unit.
Single quotes are used for libraries only, and no specifier climbs out of the
project or stands on a line of its own (section 14). Safety only.

## 13. The boundary of a function

A function may take encrypted values from its caller (`in eT x`, verified against
a proof that is appended to the parameters or, with `in(p) eT x`, is the parameter
`p`), take a handle another contract shares (`in shared eT x`), and share its
result (`returns (shared(msg.sender) eT)`). What verifies or receives its inputs
goes to the start of the body, or after a `precondition` block the body opens
with: a guard in plaintext, so that a caller without permission sees the
contract's error and not the proof's.

* `Guard` is `precondition.rs`: where a block may stand (`PositionOk`) and the
  whitelist of what it may hold (`Harmless`: what it reads, writes, calls and
  declares). Statements and expressions are trees of at most `Height` below a
  node; `Reach` goes down them through nodes of chosen kinds.
* `Boundary` has the checks of the parameter list and of the result (`InputsOk`,
  `SharedsOk`, `SharedReturnOk`), the expansion (`Prelude`, `MaterializeAfter`,
  `Header`, `Wrapped`) and a machine that runs the emitted function. Its scopes
  say of each declaration whether the source has it, the output or both, so that
  `Means` tells what a name means in either; `refers` is what a reference may lead
  to; `Choosable` are the overloads solc chooses from, whether the checker saw
  them or not. The verifier accepts one proof for the whole list of inputs, as
  an honest caller made it.

`BoundaryAll` shows `GuardHarmless` (before the inputs are verified nothing is
changed but the function's own variables, the function does not return, and the
guard is through), `InputsReady` (every name means what the author meant where he
reads it, an input its verified value, and an honest caller's proof is never
refused) and `SharedOnce` (on every path what a function with a shared result
returns is lowered and shared once, with its caller).

Bounds. Guards of a declaration and two statements, which is what it takes to
alias the proof or a parameter, rebind the alias and write through it, over every
expression of depth two and callees of every kind, with and without an unseen
base; lists of one to three parameters in every form, whose names, modifiers and
bodies use each generated name; eight returned values in seven bodies, five result
lists, with `msg` a parameter, a local or a state variable. No contract of
`BoundaryAll` overloads a function of its base (section 14), and no unseen base
declares `require` or `msg`, which the code takes on trust and says so. A path
that comes to the closing brace returns the zero handle unshared; `SharedOnce` is
about `return`. Safety only: the machine stutters once the function has ended, and
deadlock is checked.

## 14. Findings

Each is a configuration that TLC finds violated. Those marked * are runs of
`PROJECT.json`, with the line each contradicts; the others reproduce with `tlc
-config <name>.cfg <module>`, where a name followed by a constant means that
configuration with that constant changed (the definitions are in the `MC`
module), and the property in brackets is the one it violates.

| configuration | the code |
|---|---|
| `IfReadThrough` * | in a nested if, a read of a location that the arm around it has assigned, and the nested if does not write, yields the value from before the outer if: environments know one frame (`make_subst`) |
| `IfAll`, `Programs <- OuterLocalPrograms` [`StoresAgree`] | a nested if that assigns a local of the arm around it assigns it whatever its condition (`classify`) |
| `IfAll`, `NestedKeyPrograms` [`StoresAgree`] | a write to `m[i]` in a nested if is lost: each frame has its own key table |
| `IfAll`, `PointerPrograms` and the other `Pointer` definitions [`StoresAgree`] | a storage pointer and the variable it points into are held distinct (`may_alias`) |
| `IfAll`, `BranchPointerPrograms` [`StoresAgree`] | a write through a pointer declared in a branch is in place, unconditional and without grants |
| `IfAll`, `BothArmsPrograms` with `INVARIANT PreValuesExact` | an unneeded pre-value is declared when one arm assigns in a nested if |
| `BuildTwin` [`BuildThenFrozen`] | `a.fsol` and `a.sol` have one output; build succeeds, `--frozen` never does |
| `BuildSame` [`SourcesKept`] | out == src is refused by clean and `--watch`, not by build, which removes the sources |
| `CleanAround` [`SourcesKept`] | src inside out is not refused by clean, which removes the sources |
| `WatchSettled`, `EarlyEdits = TRUE` [`NothingLost`] | an edit between the first run and the watchers is not picked up |
| `WatchSettled`, `Changes <- MovedSrc` [`NothingLost`] | a new src is never watched |
| `WatchSettled`, `Initial <- JustSafe`, `Changes <- MovedOut`, without the invariant [`Quiet`] | a new out inside src rebuilds for ever |
| `WatchSettled`, `Initial <- JustInside` [`NothingLost`] | src inside out is not refused and every edit is dropped |
| `AclGrants`, `Inputs <- Stale` [`Served`] | a transient grant on a variable's earlier value suppresses the grant on the value handed over (`backward_window` has no write barrier) |
| `AclStepped` [`SameOutcome`] | `m[k++] = a` steps `k` again for the guard and for each grant, which go to other slots |
| `AclGrants`, `Inputs <- Nested` with `INVARIANT NoOverlap` | a public `return` of a value computed from a call with a hoisted argument is refused with an internal error (FHE9001) |
| `AclGrants`, `Inputs <- Tuples` [`AudienceServed`] | a policy's reader written by a tuple or chained assignment or `delete` is granted nothing |
| `AssignedAll`, `Inputs <- SkippingInputs`, `DoInputs` [`NothingMisused`] | a `continue` before a write: the trailing expression of a `for`, the condition of a `do`, are typed as if the body had run to its end (walk.rs:785, 704; spec.md:489) |
| `AssignedAll`, `Inputs <- RoundInputs` [`NothingMisused`] | a copy of an unassigned slot at the end of a loop body reaches a use at its start in the next iteration (walk.rs:662) |
| `TypingAll`, `Combines = {"widths"}`, `Acting = {}` [`ConversionsExact`] | a bit operator over two plaintext widths has the left one's for the checker, the wider one for Solidity (ops.rs:271, spec.md:371): the conversion truncates |
| `TypingAll`, `Combines = {"literals"}`, `Acting = {}` [`ConversionsExact`] | an operator on a literal and a typed operand has that operand's type, whatever the literal's value |
| `TypingAll`, `Acting = {"operand", "target"}` [`EffectsAsWritten`] | `a[i++] += b` renders its target twice |
| `TypingAll`, `Acting = {"operand", "receiver"}` [`EffectsAsWritten`] | `side_effect_span` does not look into the receiver of a method call |
| `TypingAll`, `Acting = {}`, `INVARIANT TableOnly` | `&&`, `\|\|` are lowered for operands other than `ebool` |
| `BranchPlain`, `Layouts = {"library"}` [`CacheTransparent`] | the verdict for a library's function is that of whoever asked first |
| `BranchPlain`, `Layouts = {"override"}` [`BranchesClean`] | a call is verified through the function it names, and a derived contract runs an override |
| `BranchPlain`, `Layouts = {"base"}`, `Kinds <-` `MCWrites`, `MCTuples`, `MCSteps` or `MCNamed` [`BranchesClean`] | writes through a storage pointer or a tuple, a nested `++` of an outer variable, and a foreign function named like an operation of the library are let through |
| `BranchPlain`, `Layouts = {"derived"}`, `Kinds <- MCSupers` [`BranchesClean`] | a call of a member of `super` is a builtin for `classify_call` (exprs.rs:489), and `call` lets builtins through (line 391): in a branch it is not verified, whatever the base does (spec.md:508) |
| `BranchPlain`, `Layouts = {"derived"}`, `Kinds <- MCSeconds` [`BranchesClean`] | of the overloads of a qualified call only the first of the contract is verified (exprs.rs:445, `function_by_name`) |
| `BranchPlain`, `Layouts = {"derived"}`, `Kinds <- MCHidden` [`BranchesClean`] | of overloads spread over a hierarchy only those of the nearest contract are verified |
| `NamesAll`, `Families = {"files"}`, `Reexports = TRUE` [`CallsTheProfile`] | a name that comes through another file's named import is not chased, and the generated call is captured |
| `NamesAll`, `Families = {"members"}` with `INVARIANT OverloadsWhole` | of overloads spread over a hierarchy the nearest contract's are the answer |
| `SpliceAll` with `INVARIANT SpanTraced` | the end of a span that a patch lies in is shifted by the delta at its start |
| `ImportsAll`, `Listed <- ManyLines`, `Disks <- JustOne` [`NothingMissing`] | the gate reads import directives by the line, and misses one whose specifier stands on another |
| `ImportsAll`, `Listed <- OfSources` [`ErrorsAreReal`] | `import_spec_of_line` (gate.rs:301) takes a line of a block comment that starts with `import`: a source named there is not rewritten, and is reported as not part of the project (gate.rs:246) |
| `ImportsAll`, `Listed <- OfOutputs` [`SelfCheckAccepts`] | such a line that names an output is given its `.fsol` back (stages.rs:329) and not rewritten again: FHE9001 for a correct build |
| `ImportsAll`, `Listed <- Climbing` or `Quoted` [`OutputsImportOutputs`] | a specifier that climbs out of the project is bound and then leads elsewhere; one in single quotes is not rewritten |
| `ImportsAll`, `Listed <- WithPlain`, `Disks <- JustOne` [`SelfCheckAccepts`] | an import of a plain `.sol` source is given a `.fsol` back in the self-check |
| `ImportsAll`, `Disks <- TwoVersions`, `INVARIANT NodeStyle` | of two versions of a library under one name, solc is given the first found for both importers |
| `BoundaryAll`, `Called = {"over"}` [`GuardHarmless`] | a guard may call a function that the contract has as `view` while a base, in the unit or not, adds an overload that changes state: `incomplete_overload_set` looks at the contract's own (precondition.rs:797 says every candidate is judged) |

## 15. Proofs

| theorem | says |
|---|---|
| `IfLowering_proofs!TypeCorrect` | `Spec => []TypeOK`, for all bodies, layouts and values |
| `IfLowering_proofs!BranchesCorrect` | `Spec => []IInv` in scope |
| `IfLowering_proofs!LoweringCorrect` | `Spec => []StoresAgree` in scope |
| `IfLowering_proofs!ReadsCorrect` | `Spec => []BranchesRead` in scope |
| `IfLowering_proofs!BranchesPure` | `Spec => BranchesWriteNothing` in scope |
| `IfLowering_proofs!MergesGranted` | `Spec => []MergedStorageGranted` in the plain scope |
| `IfLowering_proofs!PreValuesAsNeeded` | `Spec => []FlatPreValuesExact` in the plain scope |
| `Commands_proofs!RunsCorrect` | `Separate => (Spec => []IInv)` |
| `Commands_proofs!BuildLeavesMirror` | `Separate /\ Distinct => (Spec => []BuildFresh)` |
| `Commands_proofs!FrozenDecides` | `Separate => (Spec => []FrozenExact)` |
| `Commands_proofs!FixAnswers` | `Separate => (Spec => []FixSound)` |
| `Commands_proofs!SourcesStay` | `Separate => (Spec => SourcesKept)` |
| `Commands_proofs!TypeCorrect` | `Separate => (Spec => []TypeOK)` |
| `Commands_proofs!WatchTypeCorrect` | `WatchSpec => []WatchTypeOK` |
| `Commands_proofs!NoEditLost` | `Settled => (WatchSpec => []NothingLost)` |
| `Acl_proofs!PassIdempotent` | `Spec => []Idempotent`, for all bodies, policies and names |
| `Typing_proofs!NodesAgree` | `Spec => []TInv`, for all widths, literals and expressions |
| `Typing_proofs!TextIsTyped` | `Spec => []RendersAsTyped`, for the same |
| `Typing_proofs!NothingTruncated` | `Spec => []ConversionsExact` when `Combines = {}` |
| `Typing_proofs!EffectsOnce` | `Spec => []EffectsAsWritten` when no effect is in a receiver or a target |
| `Branch_proofs!VerdictsTransparent` | `Hierarchy /\ OwnCallsOnly => (Spec => []CacheTransparent)` |
| `Branch_proofs!BranchesAreClean` | `Hierarchy /\ OwnCallsOnly /\ NothingVirtual /\ NoSuper /\ Recognized => (Spec => []BranchesClean)` |
| `Splice_proofs!SpliceTypeCorrect` | `Spec => []TypeOK`, for every text and every plan |
| `Splice_proofs!SpliceCopies` | `Spec => []CopiedExactly`, for every text and every plan |
| `Splice_proofs!GapsComeBack` | `remap_range` takes every byte between two patches back to the byte it was copied from, unless a mapping claims the position |
| `Splice_proofs!PositionsComeBack` | `DeletionsApart => (Spec => []TracedToSource)` |
| `Splice_proofs!WalkKeepsPromise` | `Spec => E!Safely`: every step of `Splice` is a step of `Edits` or none |
| `Imports_proofs!ClosureIsClosed` | `OnLines => (Spec => []NothingMissing)` |
| `Imports_proofs!MissingIsAsked` | `OneOutput /\ Uncommented => (Spec => []ErrorsAreReal)` |
| `Imports_proofs!OutputsImport` | `Rewritable => (Spec => []OutputsImportOutputs)` |
| `Imports_proofs!SelfCheckPasses` | `OnLines /\ Rewritable /\ Unmistakable => (Spec => []SelfCheckAccepts)` |
| `Boundary_proofs!ReturnsAreShared` | `Spec => []SharedOnce`, for every function the checks accept |
| `Boundary_proofs!GuardIsHarmless` | `NoHiddenOverload => (Spec /\ []Bound => []GuardHarmless)` |
| `Boundary_proofs!InputsAreReady` | `NoHiddenOverload => (Spec /\ []Bound /\ []DeclaredOnce => []InputsReady)` |

Each hypothesis below holds of the inputs that the runs of the same property
start from, and leaving one out gives a finding of section 14 or a layout that
section 4 names, unless the text says otherwise.

Encrypted if. *In scope* (`InScope`) means that every body is `Supported` (a
nested if reads only what it versions or what the outermost if cannot touch, has
no hoisted key among its writes, and no branch declares a local) and every
layout is `AliasSound` (what the analysis holds distinct is distinct): without
each of these the pass is wrong, as the findings show, so the scope is
as wide as the code allows but for branch locals, which are only
model-checked. `StoresAgree` alone is not inductive: while a branch runs, the
store has not moved and the source has. `IInv` adds, for every open frame, that
conditions agree along the path taken (`CondsAgree`), pre-values are what the
frame around held (`PresHold`), the innermost frame that versions a location
holds the source's value if the path is the one selected (`ViewsAgree`), and
holds it for the other arm otherwise (`SkippedAgree`), no two written locations
are one place (`WritesDecided`), and everything unversioned agrees
(`RestAgrees`).

The *plain scope* (`PlainScope`) of the other two theorems has any nesting, any
aliasing and branch locals; it only says that a branch declares no storage
pointer and that a layout puts nothing in storage but what is reached from a
state variable or a storage pointer. The grants follow from what is written: a
store in place is of an outermost merge, which grants, or of an assignment
outside every if. Pre-values are declared when a frame opens and needed when it
closes, so `PreInv` splits the flat ifs of a body by where the walk stands: the
ones ahead have declared none, the one that is open has read exactly what its
merges and the reads so far ask for (`Tracked`), and the ones behind are exact.

Commands. *Separate* means that `src` and `out` share no file the author writes:
either they are apart, or `out` is in `src` and the walk skips it; the code
refuses no other layout. *Distinct* means that no two sources have one output.
`BuildFresh` looks at the end of a run that has read its sources one by one and
written its outputs two steps each, so `IInv` (`Fine`, `Good`) says at each
point of an undisturbed run what it has read (the author's text of every path
walked so far, the rest queued), what it has written (every output is in `out`
or still queued, and nothing else is there once the sweep is over), what it has
compared, and for `--fix` which files hold the fixed text and that the second
reading is of those. What others do only matters through `calm`: a step of
another process or of the author either leaves the disk as it was or ends the
calm, so that the proof of a step is that of its own process and one lemma for
all others. `Shape`, which holds of disturbed runs too, says where a run
may write at all, and gives `SourcesKept` for every interleaving, crashes
included.

Watch. *Settled* means that the author edits once the watchers are there, that
every `fhec.toml` he writes names the same directories, and that a directory in
both src and out is an out inside src. The strengthening (`Lead`) says what
the runs before the watchers have seen, and that a run about to read with a
configuration that has changed meanwhile has a batch waiting behind it. The
findings drop the three conditions one by one.

Grants. That a second pass adds nothing (spec 1.4) is about a text the pass made
itself: each fact has pushed its patches with the author's text before it, and the
text in which its grants are looked for has all patches of all facts in it. The
proof has three parts.

* *The queue.* `FactsOf`: every statement that asks for a rule has its fact, no
  fact is of another, and the R3 of a return comes right after its R1 and R2, so
  that what R1 hands over (`pending`) is never another return's.
* *The first round* (`Working`). Every fact taken so far is dealt with (`Dealt`):
  the text has the grant in the right window, or the plan holds it at a position
  that will be in that window, or, at a return, it is handed over to the R3 that
  waits at the head (`Held`). A step deals with its own fact and, as the plan only
  grows, with no fact less (`PlanGrows`, `DealtKept`).
* *The splice* (`SplicedGrown`). The output is the author's text grown
  (`AllGrown`): every old statement has a home, in the old order, that writes what
  the old one did (`Kin`), and between the homes there are only statements that
  write nothing (`Still`). So a window of the old text is inside the window of the
  home (`BackwardKept`, `ForwardKept`, `LocalKept`), a grant inserted below is
  seen from the home (`InsertedBelow`), and every fact of the new text is one of
  an old statement's home, dealt with and hence quiet (`HomeQuiet`), or of an
  inserted statement that is quiet by itself (`NewQuiet`): the return of a temp,
  the declaration of one.

`Rounds`, the inductive invariant, says that the process is in the first round
and `Working`, or has refused in the first, or is in the second over a quiet text
with an empty plan, or is done with it. `AuthorAssumption`, which TLC evaluates on
the fifteen thousand bodies, says what texts there are: statements of the kinds of
`AclBody` over the author's names, one level of branches, and a supply of temps
that are not the author's and of which there are as many as facts (the namer's
supply has no end). The set of policies is finite. The bodies of the findings of
this pass are no exception: on those too it is idempotent or refuses at once.

Typing. `type_expr` gives a site its types before the renderer has seen the
operands, so the theorems rest on what every node on the stack hands up
(`NodeOK`): the type the text has for the library is the one the checker gave
(`Faithful`); if no effect is in a receiver, `side_effect_span` sees every effect
(`Seen`); and if no bit operator takes two widths and no operator two literals,
what the checker knows of a plaintext operand is true of what Solidity makes of
it (`Sound`). A step states one site from the operands it pops, and each theorem
checks that site against the library's signatures, Solidity's types and the
places Solidity skips. `TextIsTyped` and `NodesAgree` hold whatever
`Combines` and `Acting` are; `EffectsOnce` leaves out exactly what its findings
are about, and `NothingTruncated` a little more: every operator on a literal, of
which only those whose value does not fit beside a typed operand go wrong.

Branches. `Hierarchy` is what C3 gives: a linearization starts with its contract
and holds those of its bases. `OwnCallsOnly` says that a function calls those of
its own contract and its bases and none of a library, `NothingVirtual` that none
is overridden, `NoSuper` that no branch itself calls a member of `super` (a
callee may), and `Recognized` that bodies hold only statements on which the two
reject lists agree with spec 7.1, and that the function verified for a call is
the one it names; the findings drop each of the last four. Each
body, graph of calls, number of functions and order of asking is covered. A
verdict of the cache is not about the function alone: while a function is in
progress its entry says unsafe, and a caller that meets it is rejected for good.
The theorem says that this is never wrong. Each call in progress is reached from
those below it (`Chained`), so an entry met in progress closes a cycle, and
whoever meets it does reach one (`Bad`). The other way round, the set of verified
functions is closed under calls and none of them is refused or reaches itself
(`CacheOK`: the one that finishes was not verified before, and all it calls were,
so it is not reached from them); `FrameOK` has the same of the part of a body
that a visit is past. For `BranchesClean`, `WalkOK` adds that what the walk is
past in an accepted function is allowed and calls only verified functions, and
without overrides what runs is what was verified.

Splicer. `CopiedExactly` is not inductive, since the next copy is shifted by
what the mappings so far add up to. `IInv` adds `Layout`: the mappings lie one
after the other in source and output, the last ends where the cursor and the
output stand, and between two of them the two texts advance by the same amount.
The proof assumes nothing of the patches, as the splicer enforces their
invariants itself. For the way back `Placed` adds that each mapping holds the
text of its patch and begins where the shift so far puts it. `DeletionsApart`
says that a patch without text takes bytes away and touches no other such
patch, which is so because pass 1 makes the only deletions, one per precondition
marker (`pass_ops.rs`, line 250); two mappings of no bytes at one place could
not be told apart by a position of the output. That `Splice` implements
`Edits` rests on `Ordered`: what is ahead is sorted and stands after all that is
past, what is past ends before the cursor and has brought it there, and every
byte of the output is from the source before the cursor or from a patch that is
past. So what is copied next is exactly what stands before the next patch, an
overlap is a conflict with the patch the cursor came from, and a sorted list of
distinct patches leaves none out. Only its liveness is left to the run.

Imports. `OnLines`: every directive starts a line. `OneOutput`: no two files of
a unit have one output. `Uncommented`: every line taken for an import is a
directive. `Rewritable`: a relative directive is in double quotes and does not
climb out of the project. `Unmistakable`: a relative directive of the unit names
files of the dialect only, and neither a bare specifier in single quotes nor a
line of a comment names an output. `ClosureIsClosed`, `OutputsImport` and
`SelfCheckPasses` thus hold with import lines in comments; `Uncommented` is
stronger than the run needs, in which comments name a library that every disk
has. `OneOutput` has no finding of its own here: two such sources have
already overwritten each other's output (`BuildTwin`). The closure's invariant
is that of a worklist: whatever a source that was found asks for has been found
too or waits in the queue, and whatever waits was asked for by a source that was
found; at the end nothing waits. The self-check's is that rewriting and
rewriting back are inverse on the directives of the unit, so that what is bound
again is the unit.

The boundary. That what a function returns is shared needs no hypothesis: no
declaration that a scope can hold is called `msg`, in the header because
`resolves_to_msg_sender` asked, in the body because `body_shadows_msg` did, and
among what the expansion adds because `NameAssumption` says that neither
`x_input` nor `x_shared` spells `msg`; and every return the machine can come to is
one that `collect_returns` found. The other two rest on `Shape`, which says of
what is left to run that before anything still to cross there is nothing but
scope ends and statements of the guard, that scopes are closed as often as they
were opened, and that each managed parameter has been declared in the scope of
the body or is still to cross; on `Unharmed`, that nothing has been touched until
then and that the one verification is of the whole list; and, for the inputs, on
`Undeclared`, that the scope of the body is empty but for inputs until all have
crossed, so that the parameter `p` of `in(p)` is what the verification reads. The
hypotheses: `NoHiddenOverload`, that for a call of the guard solc has no overload
to choose from but those the binder answers with (without it there is the finding
of section 14); `Bound`, that a name which the guard declares is read in the scope
of its declaration (`Guard` knows the guard's variables by their names, where the
code asks the binder which declaration a name resolves to); and `DeclaredOnce`,
that no scope of the output has two declarations of an input, which solc refuses.
All three hold in every state of `BoundaryAll`. `NodeAssumption`,
`CalleeAssumption` and `FunctionAssumption` say what trees, callees and parameter
lists are; that the names of a list are distinct is FHE1020 of the binder.

The library states induction with an operator for the predicate, which no prover
here can instantiate. Where a proof needs it (`OfForm` and `Reach` are functions
on numbers, and so is the way from a binding to the imports of an output) it is
derived from the library's well-founded minimum, over a set: `Least`,
`InductionTo` and `RecursionExists`.

Only model-checked: liveness (`CatchesUp`, `StopEnds`, `Quiet`, and that of
`Implements`), which is out of the prover's reach; what a recursive operator
computes for every input (the walk of `AssignedBody` and its runs, C3 in `Names`),
and with it the properties of `Assigned` and `Names`; `BuildThenFrozen`, which is
refuted. `SameOutcome`, `SlotsKept`,
`Served`, `AudienceServed` and `NothingUnasked` of `Acl`: they are about what a text
does when it runs, statement by statement on a ledger, and a proof relates two
runs of texts of different lengths; they rest on the correspondence of texts that
`PassIdempotent` proves (`AllGrown`) and remain to be done.

## 16. Not modelled

Text and layout of what is emitted, diagnostics' wording, JSON output, temp
names, encrypted types in `IfSelect` (they are those of `Typing`),
`--acl=suggest`, hoisted callees and struct targets in `Acl`, directories,
symlinks and permissions, solc itself, timing of the debouncer, a lossy file
watcher (no property survives one, as the loop rereads nothing on its own), and
these components:

* policies (`policy.rs`, `policy_bind.rs`): `Acl` takes what they resolve to as a
  constant; planned.
* markers of inputs and shared results in events, errors, variables and `try`
  clauses, which are always refused, symbols a selective import leaves out, and
  the layout of a parameter list the proof is appended to.
* discovery of solc and its runner (`fhec-verify`), the name supply and the
  re-parse guard (`namer.rs`, `guard.rs`), the launcher and the Hardhat plugin's
  configuration: planned, small.
* configuration, diagnostics, explain and main: parsing and printing.
* the lints of empty readers and of imports: predicates of one statement.
* `fhec-ir` beside plans and types, and `fhec-syntax`: data types and a front door
  to a parser.
* tests, fixtures and documents.
