# A verification project for m1-typecheck

m1-typecheck is a static checker for the scripts of MoTeC M1 projects. It reads
a project (`.m1prj`, `.m1cfg`, `.m1dbc`) and its scripts (`.m1scr`) and prints
diagnostics `T001` … `T111`. This directory holds TLA+ models of it, from the
loading of the project to the exit status: the symbol table and its loaders, the
resolution of names, the types of expressions and the inference of return types,
the analyses that work by iteration (a fixpoint over all scripts, a memoised
recursion over the call graph, depth-first searches, a two-pass walk), and the
run that filters, prints and counts what they find. They are checked with TLC on
small instances, and the central facts are proved with TLAPS for every instance.

Paths such as `cross_script.rs` are relative to `src/` of the repository.

## The system

The program is a batch pipeline on one thread. `main.rs` loads the project into
a `SymbolTable`, parses every script once, and `project_check::check` runs the
passes one after the other; each pass takes the table and the parsed scripts and
returns diagnostics, which are filtered and printed. Nothing is concurrent and
nothing is written back to disk. What is hard is therefore not scheduling but
*order* and *feedback*: scripts that read each other's channels, functions that
call each other, passes that rely on what another pass has found, and tables
that still hold what an earlier run left in them.

| component | source | state | operations | what makes it correct | status |
|---|---|---|---|---|---|
| Cross-script taint solver | `cross_script.rs` | `writers`, the map channel → (latched, cause), `changed` | `solve` (collect), `fixpoint` (sweeps, `upgrade`), `render` (walk the causes), `read_taint` | ends; computes the least fixpoint whatever the order; causes are acyclic and grounded | partly (all but `explain`), proved |
| Invalid-value walker (T080, T081) | `invalid_value.rs` | `env`, `writes`, diagnostics | `write_summary` (first pass), `check_with_channels` (second pass), `can_skip` | what a tick can feed to a sink is reported; both passes agree | partly (all but the extraction of names and texts), proved |
| Single-assignment counting (T040) | `flow.rs`, `expand.rs` | none (structural recursion) | `channel_counts`, `user_callees`, `single_assignment` | a report has a path that assigns twice, and no such path is missed | partly (all but where the diagnostic points), proved |
| Cross-function assignment (T102) | `schedule.rs` | `memo`, `visiting`, `reported` | `inlined_counts`, `check_cross_fn_assignment` | shared memo exact without call cycles, never high with them; terminates | modelled, proved |
| Dependency and recursion cycles (T088, T097) | `schedule.rs` | stack of paths, `cycles`, `reported` | `find_cycles`, `check` | reports are real cycles; none within the depth limit goes without its report | partly (all but T089), proved |
| Usage and reachability audits (T093, T094, T096, T104, T111) | `schedule.rs` | worklists, written/read sets | `check_usage`, `check_multi_writers`, `check_reachability`, `check_flash_preserve` | T104 and T111 say what follows from what the roots execute | partly (T104, T111), proved |
| Return-type inference | `project.rs` | `return_type` of symbols, the results not written back yet | `infer_return_types`, `check`, `analyze` on a project in memory | inferred types are what the bodies agree on, independent of order; never revised | modelled, proved |
| Types and units, the rules that read types | `typer.rs`, `types.rs`, `units.rs`, `rules/t002` … `t086` | none | `type_of`, `numeric_join`, `collect_locals`, one `check` per rule | a type that is not known silences, no construct is flagged twice or by no rule | partly, proved in part |
| Symbol table and loaders | `symbols/` | `symbols`, `by_path`, `by_filename`, `by_parent`, `by_tag`, the enums; `file_to_group`, `cfg_params` | `push`, the pre-passes, the pass over components, the `.m1cfg` and `.m1dbc` loaders | independent of document order; the indices agree; the project prevails over the calibration but for the output of tables | partly, proved in part |
| Name resolution (T001, T031, T103, T020) | `resolve.rs`, `rules/t001…`, `ambiguous.rs`, `rules/t020…` | none | `resolve` | fixed priority of scopes; more symbols never make a name unknown | modelled, proved |
| Check pipeline | `main.rs`, `project_check.rs`, `filter.rs`, `rules/mod.rs` | filter, loaded inputs, diagnostics, exit status | loading, order of the passes, `@m1:allow`, select/ignore, exit code | what is printed is what the filters leave; the status tells what was printed; what could not be looked for is announced | partly (what a pass finds is an input), proved |
| Model audits | `audit.rs`, `completeness.rs` | counts | `analyze` | what the rules pass over in silence is counted | partly, proved |
| Intrinsics catalogue | `intrinsics.rs` | none | `overload_accepts_args` | | partly |
| CAN DBC checks (T107–T110) | `dbc_init.rs`, `dbc_ref.rs` | initialisation paths | `check` | | not modelled, planned |
| Function inputs and outputs (T098–T101) | `in_out_io.rs` | none | `check` | | not modelled, planned |
| Diagnostics, output, parsing adapter, m1-cfg-export | `diagnostics.rs`, `output.rs`, `parsed.rs`, `bin/` | none | | | not modelled |

How they interact: the walker's first pass gives every script a *write summary*;
the solver joins the summaries of all scripts into a state per channel; that
answer seeds the walker's second pass. T040 counts one body with calls worth
nothing, T102 counts with calls inlined, and T102 leaves to T040 what one
function does alone. T088, T097 and T102 each index the scripts by the function
symbol they back, which the symbol table decides. The types of symbols
and functions come from the loaders and the inference; every rule that reads a
type is silent while it is unknown, and the completeness report counts that
silence. The pipeline runs them all and decides what of it the user sees.

## The modules

### `CrossScript`, implementing `TaintPropagation`

`TaintPropagation` is the abstract specification: a flow graph (channels with an
own source, reads, reads through a stateful function), sets of tainted and
latched channels, and one step per thing learnt, in any order, until nothing is
left. `CrossScript` is `cross_script.rs` with its loops: `Collect` is one turn of
the collection loop of `solve`, `Contribute(k)` one turn of the innermost loops
of `fixpoint` (a writer's own taint, or one channel it reads) together with the
`upgrade` it calls, `SweepAgain` and `EndFixpoint` the test of `changed`,
`StartChain`, `WalkChain` and `Finish` the rendering. Channels are ranked by path
because the BTreeMaps iterate in that order. What is left out is the text of the
chain.

Properties: `SolvedExactly` (the answer is the least fixpoint of the flow graph,
read off the summaries and not off the solver's own tables), `CauseForest` and
`ProvenanceGrounded` (chains are acyclic, follow real writes, end in a source),
`FirstCauseWins` (an action property: nothing is taken back),
`RefinesPropagation` (the refinement, as a PROPERTY), `Terminates`.

### `InvalidValue`

One script, walked for its summary, seeded with *any* solver answer closed under
that summary (the other scripts are left open), walked again for its reports, and
then executed for a tick on real values: finite, NaN or infinite, with a mark for
values that passed the state of a filter. `Walk` is one statement of `process` in
either pass; `Solve`, what `project_check` does between the two; `StartTick`,
`Execute`, `SkipArm` and `EndTick` are the ECU, which is external to the
repository and known from what the walker assumes of it. An expression is the
sequence of its nodes, each behind the nodes it is made of, with the node kinds the
walker tells apart; taints and outcomes are functions over the nodes.

Properties: `SinksReported` (soundness: what reaches a sink was reported at that
sink, as an error when latched), `AnswerCoversTick` (the summary tells the solver
enough for this tick and the next), `PassesAgree` (the second walk derives what
the solver derived from the first), `NoNoise` (a script with no source of its own
that reads nothing tainted is never reported on).

### `Flow`, `CallInlining`, `SingleAssignment`

`Flow` is the counting of `flow.rs`, next to its reference: the set of execution
paths of a body and who writes what on each. A body is the sequence of its nodes in
document order, each in front of its parts, so the structural recursion of the code
is a recursive function over the positions.
`CallInlining` is the recursion `inlined_counts` of T102 as a machine: the stack
of activations, the memo shared by all roots, `Descend` into the next callee,
`Return` with the counts, then one action per reported root. `InlinedTo` is what it
stands for, the counts with calls followed to a depth. `SingleAssignment` sets the
reports against the execution paths, followed to the same depth.

Properties: `StackIsCallPath` (the recursion guard), `MemoExact` (without call
cycles each memo entry is the fully inlined count, in whatever order the memo was
filled), `UnderApproximates` (with cycles no entry is above the counts with calls
followed as deep as the functions are many), `T040Sound` and `T102Sound` (a report
has an execution path that assigns twice), `DoubleAssignmentReported` (completeness
of the two together), `Terminates`. Three premises name what the counts do not reflect: `AllRun` (an
`expand` over an empty literal range is counted as one copy: `expand_binding` returns
none for it and `facts_of` then scales by nothing), `AllEnumerated` (nor is one
unrolled that is wide or has named bounds) and `NoCountWraps` (the additions of
`merge_seq` are unchecked; a count that wraps may miss a double assignment, and makes
more calls count less, but invents no report).

### `Schedule`

`find_cycles` step by step (`NextStart`, `Pop`, `Close`, `Push`, `Pass`), run
first on the same-rate dependency graph and then on the call graph, and the loop
that reports each cycle under its least name. The rate of a function may be
unknown; two scripts may back one function.

Properties: `ReportsReal` (a T088 report is a cycle between scripts of one known
rate; a T097 report a cycle of calls that each lead to the *last* script of the
function called, since of two scripts behind one function the earlier is replaced),
`ShortCyclesReported` (every cycle of up to `MaxDepth`
scripts has a report under the name it would be reported under),
`RecursionFlagged` (a function that calls itself however indirectly is in a
cluster one of whose cycles is reported), `PendingBounded` (the stack stays linear
although the number of paths is exponential).

### `Reachability`

The two worklists, T111 (`check_flash_preserve`) and then T104
(`check_reachability`), in the order in which the pipeline runs them: `Begin`
queues the roots, `Visit` pops a function and opens it unless it is marked,
`Queue(f)` pushes its callees in the order of their paths, `Satisfied` is the
early return of T111, `Warn` and `Flag` are what each audit reports. A function
may be backed by several scripts (the index keeps the last), or by one that does
not parse and then has no calls.

Properties: `OrphansExact` and `WarnedExact` compare the audits with the least
closed set of what the roots execute.

### `Symbols` and `Resolve`

`Symbols` is the table and its three loaders. `Push` is `SymbolTable::push` with
its indices: the *last* symbol of a path is found by it, the *first* function of a
file. `RegisterEnums` is `parse_enums` with the firmware placeholders;
the enums of the project, of the catalogue and of the components go through
`Register`, in this order. `PushComponent` is one turn of the loop of `parse`, which
asks the pre-pass over the document (`ProjectIndex`, through `ClassAt` and
`DeclaredTags`) about components that may stand below it;
`ApplyParameter` and `ApplyTables` are the `.m1cfg`, `EndConfig` the record of
what it declares, `AugmentDbc` one `.m1dbc` file, which is parsed before any of it
is pushed. A path is a sequence of segments; a unit a sequence of tokens.

`Resolve` is `resolve` on that table: locals, then `In`/`Out`/`Parent`/`This`/
`Library`, the firmware library, the path as written, the path under `Root`, each
group from the script's own up, and last a prefix of the path that takes an
accessor. `Unknowns` is T001 and T031 with their templates. `Ambiguous` (T103),
`MemberError` and `CaseWarning` (T020) are translated next to them; no property
is about them yet.

Properties: `OrderFree` (the document order of components decides nothing),
`ScriptsAnchored` (`by_filename` and `file_to_group` name one function for a
script that only one claims), and three action properties of the loaders:
`MissingIsUntouched` (T041 says what the loader did, though both look names up in
their own way, and no DBC changes that), `ProjectPrevails` (what a calibration may
not overrule) and `LoadingOnlyResolves` (no file loaded on top makes a
known name unknown). `ProjectPrevails` is about both kinds of calibration entry. No
cell and no table replaces a known value or a declared enum, and no cell a base unit;
a cell of a primitive type does retype its symbol. A table is what `m1cfg.rs:84` calls
authoritative for the channel it drives, its `Value`: there it replaces the type and,
whenever its body states one, the base unit that the `.m1prj` declares
(`m1cfg.rs:101`). No other symbol loses either to a table.

### `Typing`

The lattice of `types.rs`, `type_of` for every node of a script (`TypesOf`, a
recursive function over the sequence of nodes), the locals with what their
initialisers can see, and the machine: `InferScript` is one turn of
`infer_return_types`, which types bodies against the table as it is; `WriteReturns`
writes the results back; `CheckScript` runs the rules over one script; `Analyze`
is the completeness report; `CheckAgain` and `Edit` are a caller that keeps the
project in memory, as an editor does. Each rule that reads types is an operator
with its number in the comment: T002–T006, T021, T030, T064, T065, T085, T086, and
T070, T082 and T020 on `when`.

Properties: `InferenceSettles` (a run infers what one round over the whole project
gives, all bodies typed under the same table: one link of a chain of calls in a run,
neither fewer nor more, whatever the order of scripts; after as many runs as there are
functions the table is settled. A round keeps the types that are there, as the code
does, so the settled table need not be what the bodies, typed once more under it,
would give: `NeverAGuess` is about that), `NoFindingFromIgnorance` (what is reported while
types are not inferred yet is reported when they are in, a T002 perhaps as T021; a
script that stays broken never gives its type, and no finding is compared with one
that it might have given), `NarrowingReportedOnce` (four
rules share the assignment operators: no gap, no double), `SilenceIsCounted`,
`ReturnsAreKept`.

### `Pipeline`

One run of the program. `PrintRules`, `RefuseArguments` and `ResolveFilter` are
`main` up to the filter; `LoadFails`, `LoadProject`, `WithoutProject` the discovery
and loading of project and calibration, `AugmentDbc`/`EndDbc` the DBC files one by
one; `ReadSource` and `GatherScripts` the requested files and the script set of the
project-wide passes; `Completeness`, `Explain` and `ExplainUnits` the queries;
`RunPass` one pass of `project_check::check`, `RetainAllowed` the filter over its
result; `CheckSource` is `check_script`: broken file, depth cap, opt-in rules,
`@m1:allow`, filter; `EmitProject`, `EmitSource` and `Finish` print and leave. What
a pass or rule would find is an input, with the input file it needs, so that the
codes of the other modules can stand for it. A finding has one of the four
severities: T041 and T089 are hints, which `--no-warnings` does not mute (it drops
warnings and nothing else) and which `--strict` makes fail the run.

Properties: `ShownExact` (for files that can all be read, what is printed is what
the documented rules leave, stated on the flags and files and not on the
program's filter), `StatusExact` (the exit status follows from the severities of what
was printed), `Announced` (whatever was not looked for because the project, the
calibration or a DBC was missing or malformed was said to be; scripts that cannot be
read are no such input). The first two are stated on the flags and severities, without
`Drop` and `Fails`, which translate `finding_disposition`.

## Runs

| run | instance | result |
|---|---|---|
| `cross_script` | 3 channels, 3 scripts; every combination of a source script, a script copying between any two channels (filtered or not) and a script closing a loop or being skipped | all seven properties hold |
| `invalid_value` | 3-statement scripts over 2 float channels, an integer channel, a user function, a local and a second spelling of a channel | all four properties hold |
| `invalid_value_overwrite` | one 3-statement script | `SinksReported` violated, see below |
| `single_assignment` | 3 functions with a body and one without, 2 channels, every body from a set with nested ifs, whens, expands and calls, call cycles included, two orders | all eight properties hold |
| `single_assignment_lone` | the roots that assign on one arm and call twice on the other | `NeverALoneHelper` violated, see below |
| `schedule` | 3 scripts over 3 channels at 2 rates or none, and 5 scripts that all depend on one another; `MaxDepth = 3` for 16 | all five properties hold |
| `reachability` | 3 user functions and a generated one, 4 scripts, every function recursive in some project, zero to two roots | all three properties hold |
| `symbols` | a family of documents for each loader: up to 3 of 13 components that type one another, in every order; up to 3 of 8 claims on a script; up to 3 calibration cells and a table over a project with units, enums and constants; up to 2 DBC files, malformed or shadowing project names, with 29 references | all five properties hold |
| `typing` | one family puts every operator between operands of every type (locals, enums open and closed, literals, library and user calls); the other infers along chains of 3 functions in both orders, with broken and deep scripts, up to 4 runs and an edit in between | all five properties hold |
| `typing_guess` | two functions, one calling `Calculate.Max` with the other | `NeverAGuess` violated, see below |
| `pipeline` | two requested files and nine findings; command lines over filters (flag, `m1-tools.toml`, both), symbol ignores, discovery (flag, environment, search), DBC files, queries, annotations, and files that are broken, too deep or unreadable | all three properties hold |
| `pipeline_unreadable` | one readable file and one that cannot be read | `ReadableFilesReported` violated, see below |

Bounds and why they suffice. Three scripts are the fewest with a feedback loop
that is entered from outside and left again, and three channels the fewest on
which a taint and a latch travel different ways. Three statements are a source, a
carrier and a sink. Three functions give a call cycle with an entry outside it,
a diamond, and a helper shared by two roots. `MaxDepth = 3` with five mutually
dependent scripts makes the depth limit bite on more than half of the paths.
`CounterMax = 3` and `MaxRange = 4` are the `u32` and the 256 of the code, scaled down
so far that counts do wrap in some of the projects: without its premise
`NoCountWraps`, `UnderApproximates` fails there.
`NonFinite` is `{"nan"}`: with infinities the walker's clearing of a guarded
value by `IsNAN` alone is not sound, and its header names NaN only. The assumption
`MostAreFollowed` of `MCInvalidValue` counts the scripts that meet the hypotheses
of the theorems (see Proofs): nine of ten do, so those are no empty class.

Three components are the fewest where one stands between a channel and the
owner that types it, so that all orders differ; the pool mixes owners, channels
of channels, placeholders and names that differ by case only. `MaxRuns = 4` is as
many runs as `Typing`'s projects have functions, so every chain settles within
it, and one edit is enough to leave a stale type behind. `InferenceSettles` and
`NoFindingFromIgnorance` speak of projects in which each function is backed by one
script (`OneBody`); with two bodies a run keeps the type of the last that gave one
and a round takes it only if they agree. `NoFindingFromIgnorance` also asks that no
script mixes calls of user functions and of library methods (`Plain`); for the
others it fails by the guess that `typing_guess` shows. In `Pipeline` two files tell one file's fate from
another's, and nine findings are one for each combination the filters tell apart
(opt-in or not, error, warning or hint, with or without a subject, a line, a needed
input, a partial view).

Deadlock is checked in the runs of the iterative analyses, whose finished pass
stutters in `Done`. `Pipeline`, `Symbols` and `Typing` end where the program ends
(exited, loaded, or checked as often as the bound allows): their configurations
say `CHECK_DEADLOCK FALSE`.

### What the violations show

* `invalid_value_overwrite`: nested blocks share one environment and an assignment
  replaces a taint, so a finite assignment in an arm hides the value the other
  path still carries.
* `single_assignment_lone`: T102 counts writers over the whole closure of a root,
  so it reports a helper that is alone on the doubling path, which the doc says it
  never does.
* `pipeline_unreadable`: once a requested file could not be read, the `||` in
  `main.rs` skips the printing of all other files' findings. The exit status is
  right, the report is empty.
* `typing_guess`: `Calculate.Max(1, F())` takes its type from the argument that is
  known while `F` has no type yet, and an inferred type is never revised.

### Further divergences, without a run of their own

Each was met while modelling, and is in the models as the code has it.

* `ChannelTaint::latched` is documented as "somewhere along the chain". An
  escalation keeps the first cause, so a channel latched later by another write
  is shown with a chain that has no stateful step.
* The initialiser of `local x = A;` is dropped when it is a bare identifier
  (`invalid_value.rs:601`), so a NaN of `A` passes through `x` unreported; a name
  with a dot is a member expression and is looked up. The scripts of `invalid_value`
  keep to initialisers that are expressions or, in one family, a dotted name.
* The edges of a taint are documented as true "when the read flows through a
  latching stateful function" (`invalid_value.rs:67`). A call of a project function
  inserts its own edge with false over whatever its arguments brought
  (`invalid_value.rs:542`), so in `A = f(Filter.FirstOrder(f(x)))` the latched edge
  of `f` is lost: the solver taints `A` without a latch, and the seeded walk of the
  same script finds it latched. `PassesAgree` and `AnswerCoversTick` are proved for
  the scripts in which no call does this (`KeepsLatches`); it was the proof that
  found the others.
* T002 needs one operand only (`t002_float_eq.rs:31`), although `types.rs:13` says
  that a rule fires only when every type it needs is known: `Speed == G()` is a T002
  while `G` has no type yet, and when `G` turns out to be an enum the finding is
  withdrawn for a T021. `NoFindingFromIgnorance` allows this one change, no other.
* A guard with `Calculate.IsNAN` clears its value although an infinity passes it.
* A name declared `@source` anywhere in a script stays a source for every read of
  it, also after an assignment.
* T088 reports one cycle per least name, so of two loops that meet in that
  function only one is shown; the header says every cycle is surfaced.
* A scheduled function whose script has a syntax error keeps its place as a root
  but loses its calls, so T104 reports its helpers as never executed; the doc
  guards against scripts that are missing, not against broken ones.
* When two functions claim one file, `by_filename` keeps the first and
  `file_to_group` the last: the rules take the script to back one function and
  resolve its names in the group of the other. `ScriptsAnchored` is about scripts
  that one function claims.
* A `when` arm whose enumerator cannot be read makes T070 and T020 give up, and
  the completeness report does not count that; `SilenceIsCounted` excepts it.
* `NeverAGuess` fails in two more ways: a script that is edited after its type was
  inferred keeps the old one, and of two scripts behind one function the last one
  decides.
* The `u32` counts of `flow.rs` are multiplied with saturation and then added
  without: 2³²−1 and one more assignment wrap to 0 in a release build. No doc speaks
  of it; `UnderApproximates` and `DoubleAssignmentReported` except it.
* An `expand` whose literal range is empty counts as one copy of its body, so T040
  and T102 may report what no execution does; `AllRun` excepts it.

## Fairness

The program is sequential and each pass runs to completion before the next
begins; nothing can preempt it for ever. The two liveness properties, `Terminates`
of the solver and of the inlining, are about the two loops whose end is not
obvious from their bounds: a fixpoint with feedback, and a recursion over a cyclic
graph. They assume `WF_vars(Next)` and nothing more: some enabled step of the pass
is taken. There is no choice left to be fair about, since every loop goes through
its collection in order and at most one step is enabled in a reachable state of a
pass.

## Proofs

All theorems are about the specifications as the runs check them, for any values
of the constants that satisfy the modules' assumptions.

* `CrossScriptProofs`: `TypeCorrect`; `FirstCauseKept`; `CausesFormForest`;
  `PropagationSound`, `PropagationExact`; `SolverRefines`, `SolverExact`;
  `ProvenanceCorrect`.
  The two theorems about the abstract specification say of any behaviour of it that
  nothing is ever tainted that some closed set excludes (an invariant by
  monotonicity of `TaintReaches` and `LatchReaches`), and that what is settled is
  the least fixpoint.
  The forest is not inductive by itself: a step may taint a channel whose cause is
  a channel of the set in question, and one needs to know that causes point at
  channels tainted *before* (`CauseKnown`).
  That the sweep computes a fixpoint rests on `CollectInv`, which relates `writers`
  to the summaries collected so far, and `SweepInv`: while `changed` is false,
  every contribution no longer pending is satisfied by the state, so that an
  unchanged sweep leaves everything satisfied. From these `SolverRefines` maps each
  step to a step or a stutter of `TaintPropagation`, and `SolverExact` follows from
  `PropagationExact` through the refinement.
  `ProvenanceCorrect` says that a rendered chain follows real writes and ends in a
  source. Every recorded cause is a real write (`CauseReal`, kept because causes
  are never rewritten), and the chain being built follows the causes of channels
  it has not been through (`RenderInv`). That it does not end in a loop is the
  forest again: a chain that came back to a channel would be a set of channels
  whose causes all lie in the set.
* `InvalidValueProofs`: `TypeCorrect`, `QuietWalk`, `WalksAgree`, `SinksAreReported`,
  `AnswerCovers`, for any scripts and any closed answer of the solver.
  `QuietInv`: with no source and nothing tainted to read, every taint of every node
  is clean. `WalkInv` says what the two walks have computed: the environment is the
  one obtained from the statements so far (`EnvAt`), and the summary holds the first
  walk's taint of each statement that writes a symbol.
  `WalksAgree` then compares the taints of the two walks, node by node (`Agrees`):
  the second is invalid if and only if the first is or one of its edges leads to a
  channel the answer taints, and latched likewise; this holds of every node
  operation (`AgreesTaints`), of each environment (`AgreesEnvs`), hence of each write.
  It needs `KeepsLatches`, see the overwritten edge above.
  `SinksAreReported` and `AnswerCovers` come from one invariant of the tick
  (`CoverInv`): every channel is covered by the answer, and every cell by the taint
  of the last statement that wrote it, on the arm taken. The outcomes of a node are
  covered by its taint (`OutcomesCovered`), so what is stored is; a value in a
  channel is then one the summary told the solver of (`WriteCovered`), and
  `ReportInv` has the diagnostics of each sink passed. The hypothesis `Followed`
  names what the walk cannot follow, all of it divergences listed above or limits
  the code accepts: an assignment in an arm that the reader is not in, a channel
  read under another spelling than it was written by, a compound assignment, an
  initialiser that is a bare identifier, a value that `@source` declares after the fact,
  and infinities past a guard. Each is a way in which the walk does go wrong.
  Assumed of the names (`NamesAssumption`): `Out` is no symbol's name, and what
  resolves to no symbol is no symbol's path, and the dotted names are names; of scripts (`ScriptsAssumption`): nodes
  stand behind their arguments and have as many as they need, a local is no symbol.
* `SingleAssignmentProofs`: `TypeCorrect`, `RecursionGuarded`, `InlinedExactly`,
  `InlinedSafely`, `ReportsAlone`, `ReportsAcrossCalls` and `NoSplitMissed`, for any
  number of functions and channels, any bodies and any width of the counters: every
  safety invariant of the run.
  About one body: since each node is made of later ones, its counts and its paths
  exist (`Solved`) and claims about them go backwards (`Backward`). `CountsAttained`
  says that each count is reached by some path if that holds of the callees, wrapped
  or not; `CountsWithin` that whatever relation between a path and a count survives
  addition and copying (`Kept`) holds of all paths of a body, while nothing wraps;
  `CountsBelow` that smaller counts of the callees give smaller counts.
  About the recursion: every callee of an activation is memoised, still to come, or
  right above it on the stack (`NoneMissing`), and each activation reaches those above
  it (`Reaching`). Without call cycles a callee reaches fewer functions than its
  caller (`RankDecreases`), so `ExactAtAnyDepth`, which says that a memo entry is
  `InlinedTo` at every depth from the rank of its function on, is inductive where
  `MemoExact` alone is not. With call cycles there is no such order of the functions;
  `Low` goes by the number of functions finished so far, which bounds how deep any
  finished one can have followed calls.
  About the reports: soundness is `LevelAttained` at the full depth, by
  `CountsAttained`. Completeness uses `CountsWithin` twice, for how often a path
  assigns a channel (`TimesBound`) and for who does (`WriterBound`, which has all
  writers of a path in `WritersOf` its root), and two invariants of the loops: each
  root passed is memoised (`RootsMemoised`), and reported if it is to be
  (`ReportsComplete`).
  Assumed (`CallInliningAssumption`): finitely many functions, the bodies have the
  shape of syntax trees, and each function with a body has a place in the order.
* `ScheduleProofs`: `TypeCorrect`, `OnlyCyclesReported` (whatever is on the stack
  is a path from the current start, and for T088 one of a single known rate),
  `EveryShortCycleReported`, `RecursionReported` and `StackBounded`.
  For the completeness the invariant says that every cycle within the depth limit
  that begins at the current start has been found, or has a prefix on the stack,
  or has the path being explored as a prefix with its next member still to come.
  Every script is a start in turn, so none is left when the last one is done; that
  a cycle has a least name to be filed under rests on `<` being well-founded on
  the naturals.
  `RecursionReported` follows from it: of all the ways by which a function calls
  itself, the shortest repeats no script, is therefore no longer than there are
  scripts, and is found; the cycle that is kept under its name lies in the same
  cluster, since on a cycle everyone calls everyone.
  `StackBounded` needs `Pending`, which bounds the height at which a path waits by
  the length of the path, and the number of scripts still to be pushed by the room
  below the next height. The proof showed the bound wrong for a project without
  scripts, where nothing is ever pushed; `PendingBounded` speaks of a stack that
  is not empty.
* `ReachabilityProofs`: `TypeCorrect`, `OrphansCorrect`, `WarningCorrect`. What is
  marked, queued or about to be queued is executed, and the callees of a marked
  function are one of the three; with nothing queued the marks are therefore
  closed, and equal to what the roots execute.
* `PipelineProofs`: `StatusCorrect`, `FilterRespected`, `AnnouncedCorrect` and
  `ShownCorrect`, for any command line, files and findings. For the first,
  `FailedInv` says that `failed` is set exactly if something printed *so far* fails
  the run, and `PhaseInv` that nothing is printed before the results are emitted
  and which phases a query or a check comes to; `StatusExact` alone says nothing of
  the states before the exit. `FilterInv` follows the findings from the source
  through the filter, and knows that the filter is final once the arguments have
  been read. `LoadInv` says what a run knows of each input at each phase. For
  `ShownCorrect` one invariant per phase gives the exact content of what the phase
  has built (`SetupInv` the filter and scripts, `ReadInv` the sources, `AuditInv`
  the findings of the passes that ran, `ResultInv` the result of each source,
  `EmitInv` what is out so far); `Selection` is the lemma that the filter
  `resolve` builds decides as the documented precedence of flags and tools file.
  Assumed of a run: a list of codes is none only if it was not given, a finding of
  the project comes from some pass, and what a finding needs to be seen is an
  input there can be.
* `TypingProofs`: `ReturnTypesAreKept`, `InferenceCorrect`, `IgnoranceIsSilent`,
  `SilenceCounted`, `NarrowingReported`, for any project, library, edit and number
  of runs. What waits to be written back is only ever for functions that have no
  type (`PendingIsNew`), which is what makes the write-back harmless.
  `InferenceCorrect` rests on `SettleInv`: after k runs the table is what k rounds
  over the whole project give, and what waits is what the bodies typed so far give
  under the table the pass began with, so that the write-back is the next round
  (`RunIsRound`). A round never revises a type (`RoundKeeps`), so each one types one
  more function or changes nothing (`EachRoundTypesOne`), and after as many as
  there are functions nothing changes (`SettledIsFixed`).
  `IgnoranceIsSilent` adds that types are monotone: with less known about the
  functions a type is the same or Unknown (`Weaker`), for each operator
  (`TypeAtWeaker`), hence for each node (`TypesWeaker`), each local (`LocalsWeaker`)
  and each rule (`OperatorWeaker` … `WhenWeaker`). The first attempt at the rule on
  floats failed, which is how the divergence on T002 listed above was found.
  The other theorems relate what a run reported to the script it is about:
  `ReportInv` says that the findings so far are those of the scripts come to,
  *under the return types the run ends with*, and `TallyInv` that the completeness
  report counts those same texts and types. What is left is a comparison of the
  rules on one node, type by type. Assumed of a project (`ProjectAssumption`): it
  has finitely many symbols, its scripts have different names, in a text each node
  stands behind the nodes under it and has as many of those as its operator needs,
  and an assignment has one of the signs of the grammar.
* `ResolveProofs`: `IndicesCorrect`, `ProjectDecides`, `LoadingHelps`,
  `MissingCorrect`, `ScriptsAgree` and `OrderIsFree`, for any documents. `IndexInv` is the
  invariant of the table through every loader: symbols are a sequence, each path of
  `by_path` leads to a symbol of that path, and no symbol is without an entry;
  `ProjectDecides` follows each step of the calibration loader, cell or table, symbol by
  symbol; for a table it takes that only the channel found under its `Value` is
  written to. `PushParts`, `UpdateParts` and `AugmentedGrows` say what each operation does to
  a table of this kind. `LoadingHelps` rests on `Grown`: no file on top removes a
  path or an enum member, so each way to resolve a name that was open stays open.
  `SourceInv` identifies the first symbols with the components of the `.m1prj`, in
  document order, and the others with DBC entries. `MissingCorrect` is about
  components that all stand under `Root` (`OneTree`): a project that keeps two trees
  can have a name found as written and reported as missing under `Root`.
  `ScriptsAgree` adds what each index holds after the first components (`FileInv`,
  `GroupInv`); its premises are that one component claims the file, that it stands
  below `Root`, and that no DBC takes its name, which would hide the function from
  the lookup by path.
  `OrderIsFree` compares the table with the one of the document read backwards.
  The pre-pass answers the same for both (`IndexReversed`: no path stands twice).
  The registered enums do not, since the first of several placeholders that differ
  only by case is the one that is kept; but every name finds an enum of the same
  name up to case, or none in both (`SameAnswers`, `EnumsAgree`), because a
  placeholder is only added under a name no enum answers to. The type of a component depends
  on nothing else (`TypesAlike`), and `HoldsFirst` says that a table, the loader's or
  the backward one, holds the first components typed by its enums.
  Assumed of the documents and of the catalogue are only the types of their parts
  (`DocumentsAssumption`, `CatalogueAssumption`), and of the comparison of names that
  equality up to case is transitive (`CaseAssumption`).

`AugmentDbc` pushes by a recursive function over the components of a DBC, and
`TypesOf`, `Locals` and `Settled` are recursive functions too. What such a function
does for every input can be proved without an induction schema: if the
claim failed for some length there would be a least one (`Least`, from the
well-foundedness of `<`), and one step from the length below it contradicts that.

What stays with TLC:

* liveness (`Terminates`) and everything that needs ENABLED.

Every safety invariant and action property of the passing runs is the conclusion of a
theorem, the last three invariants of `InvalidValue` under the hypotheses named above.

## What is not modelled

* Parsing (the external m1-core) and the reading of the XML and DBC texts.
* The wording of diagnostics, their JSON and SARIF forms, and the texts of
  `--explain` and `--explain-units`.
* T089, which compares two rates, and the rules that look at one syntax node or
  one flag of the catalogue (T042, T060–T063, T083, T084, T091, T105, T106).
* The audits that are single scans (names, tags, display units), and the counts of
  expressions and references in the completeness report.
* Rates, triggers, table axes and CAN layouts, which only describe a symbol; the
  conversion tables of display units.
* The substitution of `$(N)` templates in `expand` bodies: a template is given by
  its expansions.
* T093, T094, T096, T107–T110 and T098–T101: see the plan.
* `m1-cfg-export`, a separate program that formats the parameter list.

## Plan

1. *Usage.* T093, T094 and T096 over the same access sets, next to
   `Reachability`.
2. *DBC initialisation.* The paths of T107 are a search like that of
   `Reachability`; T108–T110 compare sets.
3. *Function inputs and outputs* (T098–T101), over the bodies of `Flow`.
4. *Composition.* `Pipeline` with the codes the other modules produce in the place
   of its findings; `Typing` on a table that `Symbols` has loaded.
5. *Properties of T103 and T020* on the table `Symbols` loads.
