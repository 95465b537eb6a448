# TLA+ verification of SchematicAirlock

SchematicAirlock reads SPICE bundles and verification evidence of untrusted
origin, builds a structural view of them, and answers ALLOW, REVIEW or DENY.
This directory holds a formal model of it: TLA+ modules translated from
`src/src/schematic_airlock/`, TLC configurations that check them on small
instances, and theorems that TLAPS proves for every value of the constants.

Paths below are relative to `src/src/schematic_airlock/` unless they begin with
`src/`.

    tlc -workers 2 -config ReportWriter_races.cfg MCReportWriter.tla
    tlapm ReportWriterProofs.tla

## 1. The system

The command line runs one deterministic pipeline per invocation. Nothing in it
is threaded or asynchronous; the concurrency is that of several invocations and
of other programs on one file system, and the failures are those of system
calls, killed processes and lost power.

    cli.main
      audit ---> bundle.open --> include_graph.load --> parse/lex
                   |                   |
                   |                   v
                   |             circuit_graph.build --> checks.run (solvability, rails, ...)
                   |                                           |
                   |                                     engine: decision, risk score
      verify --> verification: manifest, tool reports, lineage, waivers, decision
      dc ------> dc_netlist --> linear_dc
      voltage -> voltage_rules, voltage --> voltage_constraints
      all -----> report / _output.write_report
    release.yml: build --> distribution_audit --> install, scan --> release_artifacts
                 --> upload --> attest, publish
    other tooling: dco

| component | state it keeps | operations | what is hard | what makes it correct |
|---|---|---|---|---|
| report writer `_output.py` | one temporary file, one destination | `write_report` | races, any call failing, kill, power loss, aliases | a name shows a whole report or what it held; no clobbering without `--force`; inputs untouched; temporaries removed |
| artifact bundle `bundle.py` | cached texts, byte total, entry | `open`, `read_text`, `resolve_reference`, `digests` | files edited while read, budgets at their limit, links out of the root | budgets kept; one text per file; what was judged was digested |
| include graph `include_graph.py` | decks, active path, issues, edges, parameter events | `visit` | cycles, diamonds, partial failure in the middle of a deck | complete when clean; cycles reported; textual order; linear work |
| circuit graph `circuit_graph.py` | scopes, issues, cost, expanded devices | cost walk, expansion walk, net table, parameters | recursion, saturation, budget in mid-walk, renaming of nodes, names spelled alike | both walks agree; budget and depth kept; nets are the connections |
| solvability `solvability.py` | disjoint sets | `find`, `union`, islands, source loops | path halving, order of devices | a partition; islands unreachable; loops independent |
| other checks `checks.py` | findings | about thirty rules, rail shorts, deduplication | order, duplicates, overrides | no finding lost, deterministic order |
| engine `engine.py`, exit codes `cli.py` | report | decision, risk score | overrides against load failures | DENY wins; exit code agrees |
| verification gate `verification.py` | manifest, artifacts, findings, waivers | parsing of four tool reports, lineage, waivers, decision | stale waivers and reports, changes while read | waivers cover only the finding they name, never lineage |
| voltage constraints `voltage_constraints.py` | weighted forest, edges, potentials, cached distances, budgets | constructor, `difference` | path compression, enough rounds, a cache for one root, budget in the middle of a search | accepted means feasible; refused means infeasible; answers cover and are tight; nothing is answered after the budget |
| voltage envelopes `voltage.py`, `voltage_rules.py` | two lists of constraints, notes, planned limits | `_check_bundle` | rules that replace or sweep sources, loops of sources that vary, budget between two checks | a pass covers every combination of sources and every limit; other verdicts are true; no contradiction is hidden |
| linear DC `linear_dc.py`, `dc_netlist.py` | sparse matrix with a column index, counters of work and fill, pivots | `solve_linear_dc` | exact cancellation, networks contradictory and undetermined at once, budgets in mid-elimination | an answer is the operating point; the verdict is that of the network; the audit agrees |
| parser and lexer `parse.py`, `lex.py` | subcircuit nesting | `parse_deck` | continuation, nesting | |
| release artifacts `release_artifacts.py`, workflow `src/.github/workflows/release.yml` | the directory `dist`, an installation, the upload, the GitHub release | build, install, scan, `bind-installed-wheel`, `validate-sbom`, `write-checksums`, `verify-release`, attest, publish | commands killed and run again, temporary files and environments left by an earlier attempt, damaged downloads, faulty wheels and documents | what is published is whole, and its SBOM is true of its wheel; what is right is not refused |
| distribution audit `distribution_audit.py` | the places, files and parents seen so far | `audit_sdist`, `audit_wheel` | names that collide on some platforms, in either order | an accepted archive unpacks whole anywhere; a sound one is accepted |
| DCO check `dco.py` | commits | audit | pages out of order | |
| report, interop, strict JSON, units, policy, domain, fuzzing | none | pure functions of text | | |

`PROJECT.json` lists every component with its status, every mapped source
range, and the hazards the properties are for.

## 2. Modules

| module | models | composes |
|---|---|---|
| `AtomicPublish` | what a caller may rely on when reports are written | |
| `ReportWriter` | `_output.py`, and the paths `cli.py` protects | refines `AtomicPublish` |
| `IncludeLoader` | `bundle.py` and `include_graph.py` | |
| `IncludeReference` | what the load should find, defined from the decks alone | extends `IncludeLoader` |
| `ParameterScopes` | `resolve_declarations` of `circuit_graph.py` on the cards that were loaded and on calls | extends `IncludeReference` |
| `Partition` | disjoint sets as their caller sees them | |
| `UnionFind` | `_Union` of `solvability.py`, `_RailUnion` of `checks.py` | refines `Partition` |
| `Expansion` | the hierarchy and its expansion in `circuit_graph.py` | |
| `Solvability` | islands and source loops of `solvability.py` | extends `Expansion` |
| `AuditGate` | the structural and electrical rules and `run_checks` of `checks.py`, the decision of `engine.py` | extends `Solvability` |
| `VoltageConstraints` | `voltage_constraints.py` | |
| `VoltageEnvelopes` | `_check_bundle` of `voltage.py`, the terminal pairs of `voltage_rules.py` | rests on what `VoltageConstraints` promises |
| `LinearDC` | `linear_dc.py` | compares its verdict with `Solvability` |
| `VerificationGate` | `verify_path`, the manifest's rules, waivers, lineage and decision of `verification.py` | |
| `ToolReports` | the readers of Magic, KLayout and Netgen reports in `verification.py` | supplies the findings of `VerificationGate`'s texts |
| `InstalledWheel` | what `release_artifacts.py` accepts as the installation of a wheel | |
| `ReleaseBill` | the SPDX document: its binding and its validation | extends `InstalledWheel` |
| `DistributionAudit` | what `distribution_audit.py` accepts as the entries of an archive | |
| `ReleasePipeline` | `release.yml` from the build on, checksums and verification, interruptions | extends `ReleaseBill` and `DistributionAudit` |
| `*Proofs` | theorems about the module of the same name; `IncludeLoaderProofs` about `IncludeReference` too, `AuditProofs` about `Expansion`, `Solvability` and `AuditGate` | |
| `MC*` | instances for TLC | |

Operators whose name has a second part after an underscore, such as
`SyncTemporary_NoFsync`, are wrong versions of the operator of the first name.
No specification uses them. Each is a bug someone could write, and replacing the
right operator by it makes a property fail: this is how the properties were
tested.

### ReportWriter

State: `dir` is the output directory as processes see it, `dirDisk` as the disk
has it; `temp` and `tempDisk` the same for the temporary entries; a file has an
owner, a number of pieces written and a number of pieces durable; `pc` is where
each invocation is in `write_report`. One action per system call, in the order
of the code: `CheckAlias` (35), `CheckExists` (37), `MakeTemporary` (42-50),
`WritePiece` (52), `SyncTemporary` (53-54), `ReplaceTarget` (56) or
`LinkTarget`/`LinkRefused` (59-63), `RemoveTemporary` (64) and `CleanUp` (66-68).
`CallFails` is an exception of any of them, `Kill` ends a process anywhere,
`Journal` and `PowerLoss` are the file system: a rename or link reaches the disk
at some later moment, and after a power loss entries are what the disk had and
files what was synced. Other programs create and relink entries.

Abstractions: one directory, whose parents do not change; links lead to entries
and not to links; a report is `Size` pieces. `FoldAssumption` states what
`_identity` is for: two spellings the file system takes for one entry differ
only in case or Unicode normalisation.

`AtomicPublish` has one step per publication: a name that held nothing, or any
name with `--force`, comes to hold a complete report. The refinement mapping
shows the owner of the file behind each name, and `ImplementsAtomicPublish` says
that checking, writing, syncing, failing and cleaning up are all invisible.

### IncludeLoader and IncludeReference

State: `disk` is the directory, `texts`, `total` and `entry` are the fields of
`ArtifactBundle`; `decks`, `active`, `issues`, `edges`, `params` the locals of
`load_include_graph`; `next` the argument of the `visit` about to begin. The
recursion of `visit` is the stack `active`, each frame with the position in its
deck. One action per outcome of a visit (`VisitTooDeep`, `VisitUnreadable`,
`VisitMalformed`, `VisitAgain`, `VisitFirst`), of an item in the loop
(`TakeParam`, `TakeUnresolved`, `TakeCycle`, `TakeInclude`), and `Leave` for the
`active.pop()`. `OpenDirectory` and `OpenFile` are the two ways to open a
bundle, with the manifest read through the same budgets. `Edit` is another
program replacing, linking or removing a file at any moment.

Abstractions: a text is its form, length, manifest entry and items; all names
are in one directory; resolving a path and opening it is one step.

`IncludeReference` defines the answer without the traversal: the flattened
sequence of `.param` cards, whether every reference was followed, and whether the
includes are cyclic: whether some decks each include one of them. A deck that is included again adds no cards,
as in the code; the documents differ about that (see Findings).

### ParameterScopes

State: `scopes`, for the top level and then for each call on one path of the hierarchy,
what was declared there, what was inherited and what `resolve_declarations` returned;
`work` is `parameter_work_remaining`, the one budget of the whole hierarchy, and
`faults` the `GRAPH008` issues, each with the depth of its scope. `ResolveTop` takes the
cards that the traversal of `IncludeLoader` recorded, in its order; `ResolveCall` takes a
definition and a call of it, declarations of the header before those of the body before
those of the call (`child_declarations`). One action is one call of
`resolve_declarations`: the scan with its limit of names (244-270), the hiding of what
is inherited (271-273), the passes over what is pending until one makes no progress
(285-312), and the issues. `Hiding`, `Try`, `Pass` and `Passes` are the steps of it.

`ParametersAreLexical` compares with `Meaning`, which knows no passes, no order and no
budget: the last declaration of a name counts, with the values of its own scope.

Abstractions: a card declares one parameter, as a sum of names and a number;
expressions that do not parse or overflow are of form `bad`, tokens that are no
assignment `malformed`. Values have no width, as a `Decimal` evaluated exactly has none.
Of the issues of one kind in one scope one is kept. The calls of one path
follow one another; calls beside them share the budget only.

### DistributionAudit, InstalledWheel, ReleaseBill, ReleasePipeline

`DistributionAudit` has the two audits of the archives. The sets that `_record_path` fills
as it goes (`observed`, `files`, `parents`) are functions of the entries before, so `Fits`
asks of each entry whether one of those has its place, is a file above it, or, if it is
a file itself, lies below it. Places are compared with `Folded` components.

`InstalledWheel` says which wheels `_wheel_distribution` and which installations
`_installed_distribution` accept, clause by clause: `WheelRow` and `WheelAccepted`;
`UniqueDistribution`, `Leads`, `ClaimHolds`, `RowsAccepted` and `ListsComplete`. A
digest with its size stands for the content that has them. The spelling of a row
leads to a path (`Place`), so that two rows may name one file and one may lead out of
the root. `ReleaseBill` says what `bind_installed_wheel` refuses (`Bindable`) and writes
(`Bound`), and what `validate_spdx` accepts (`Valid`); the verification code is how
many of the files have each content, for it is taken of the sorted list of digests.

`ReleasePipeline` runs them. State: `dist` is what the directory of that name holds under
the names of the four assets, `temporary` the temporary file of the binding that runs, and
`orphaned` whether the directory holds temporary files of bindings that were killed; `install` is `.release-smoke`; `artifact` is what was
uploaded, `here` the directory of a publishing job after its download, `attested` and
`released` what the world sees; `at` is the step that comes next. `Build` empties `dist`;
`Audit` asks both audits and for the files that both archives must have;
`Install` leaves an installation alone, as `pip` does with the same version; `Bind` and
`Replace` are the two halves of `bind_installed_wheel` that a kill can separate,
`OpenSums` and `WriteLines` those of `write_checksums`. The jobs `provenance` and
`github-release` download and verify for themselves (`Attest`, `Create`).
`KilledAndRetried` kills the command at hand and runs it again, from one of its
`FirstSteps`: who is killed after the replacement may bind once more what is bound already.
`NamedTemporaryFile` gives each call a name of its own (`release_artifacts.py:766`), so a
binding that is killed after it has created its file, whether it was written in part or whole,
leaves that in `dist` for good (`OrphanLeft`): the repetition binds into another,
and `write_checksums` then refuses the directory (950), until a new
build empties it. `CallFails` is an `OSError` of the writes, after which the temporary file is
removed and the command may be run again; `Restart` is a new attempt from the build, in the workspace as
it is or in one without the environment, and without what the earlier run uploaded. A download may bring a file damaged, not at
all, or `SHA256SUMS` cut off.

Hosted runners give every attempt a fresh workspace. The interruptions inside the build
job and the environment that stays are those of the same commands run by hand or on a
runner of one's own, which nothing in the commands excludes; `NothingOverwritten` of the
writer does not apply, for these commands do not use it.

Abstractions: the header of the document and the shape and limits of its JSON are
flags; names of the distribution and its two directories are fixed; a digest is the
content; which names are canonical and which components portable is given. The jobs
before the build, `twine check`, the tests of the source distribution, the smoke tests, a tag
that moves between `gh api` and `gh release create`, and runs that were dispatched by hand
(which publish nothing) are left out.

`PublishedIsSound` does not ask whether the commands accepted it: `BillIsTrue`
compares the released document with the files of the installation and of the
released wheel, and `UnpacksWhole` asks of the two archives, whatever the order of their
entries, that no other entry comes to lie on a file or below it where case is ignored. `RefusalsAreReal` is the converse, from independent definitions of an
archive, a wheel, an installation and a document without fault.

### UnionFind, Expansion, Solvability, AuditGate

`UnionFind` takes one step per turn of the loop in `find`, so that halving is
seen half done; `leader` is an auxiliary variable, the representative `find`
would return, and maps the structure to `Partition`. Its variables share no name with
those of the circuit, so that one run drives both.

`Expansion` computes the cost with the recursion of `expansion_cost` (`Cost`, a
function) and then takes one step per element: `TakeLeaf`, `TakeCall` (the call
and the descent into its body) and `Return`. The recursion of `expand_elements`
is the stack `frames`. The name of a local node is a text, `top/x1:n` for `n` in `x1`
(`circuit_graph.py:366`). A name is modelled as the sequence of its parts, separators
included (`Spelled`), so that two names are one exactly when their texts are: a node of the top
level `top/x1:n` is the node `n` of `x1`, and the nodes of `x2` in `x1` are those of an
instance `x1/x2`. `Homonyms` are nets of different calls that are spelled alike.
`NetsAreConnections` says that ports, global nodes and these coincidences join nets and
nothing else does; that the coincidences conflate calls is a finding, and
`SeparatorsSuffice` says that without separators in names there are none. `Bare` is the part after the last
colon, by which `_ground_nodes` knows a ground. Netlists are in lower case (the code keeps
the case of an instance's name in a path, and folds that of nodes). Of two definitions with one name the first counts, as `GRAPH001` says, so
definitions are a function of the name.

`Solvability` defines islands and loops over the expanded devices by folding
them one by one, as the code does, with the groups of nodes as a partition:
`UnionFind` justifies that. `_tree_path` searches the tree; `TreePath` is the
set it finds, the sources whose removal separates the ends.

`AuditGate` takes one step more, `Audit`: every rule reads the same netlist and
expansion, `RunChecks` keeps one finding of each identity, and `Decision` takes the
gravest severity. `report` is the `AuditReport`. The rules about loading, directives
and analyses, and those about one element's own text, are the input `OtherFindings`.
The policy may override severities (`SeverityFor`, `Policies`), and `AllowedIsSound` says
what an override costs: the promise of its own rule, and of those that the rule stands
in for. A policy that turns `SOLVE001` into a remark loses islands and loops in a
circuit without ground, because `_solvability_findings` then stops there
(`checks.py:925`); one that does so with `RAIL001` loses every path of a component that
has a direct short, because that takes their place (`checks.py:867`).

Abstractions: the risk score, statistics and digests are left out, and an override of
`LIM001` stands for one of `GRAPH005` as well. A value is a number, or `None` where it is no plain number. Structural
issues are told apart by their code only, and `GRAPH005` is not told apart from
`LIM001`, whose limit every recursion exceeds. The witness path of `RAIL002` stands
for its component and is identified by it; `SRC001` is placed at some source of its
pair. The rails of `checks.py` compare whole names of nodes, so that only nets of the
top level are rails, while `solvability.py` takes what follows the last colon, so that
a local net with the name of a ground is ground: the model does both as the code does.

### VoltageConstraints

State: `parent`, `weight` and `size` are `_Forest`; `walk` holds the locals of
`find` and on whose behalf it runs, `left` what it returned for the first node of a
join; `placed` is `_nodes`, `edges` and `potential` the fields of that name; `round`
and `changed` the locals of `_feasible_potentials`; `visits`, `queries`, `failed` and
`cache` the counters and caches of a system in service; `search` the locals of
`_distances` for the query at hand. One action per turn of a loop: `Climb`,
`ReachRoot` and `Compress` of `find`; `JoinSame`, `JoinTrees` and `JoinTooLong` of
`join`; `Settle` and `FoundPlace`; `CheckBounds` and `AddEdges`; `Relax`, `EndRound`
and `RoundsDone`; `Pop`, `Visit`, `ForwardDone` and `ReverseDone`. A query enters by
the first early return that applies: `AskFailed`, `AskTooOften`, `AskUnknown`,
`AskTooLong`, `AskSameTree`, `AskCached`, and otherwise `AskNew`. Every
`VoltageBudgetExceeded` of the constructor leads to `exhausted`, every proved
contradiction to `inconsistent`.

Abstractions: rationals are integers after scaling; the bit budget of `_rational` is
the set `Fitting`; constraints come in the order of their labels, and names sort like
numbers. The limits on the numbers of nodes and constraints, checked before anything
else, are left out.

An offset that exceeds the bit budget is refused outside the `try` of `difference`
(`voltage_constraints.py:344`), so `_failed` stays unset, although the docstring at
line 330 says that exhaustion invalidates the object. `AskTooLong` does as the code
does, and `NothingAfterBudget` speaks of the limits on work only.

### VoltageEnvelopes

State: `constraints`, `nominal`, `notes`, `seen`, `used`, `planned` and `checks` are
the locals of `_check_bundle`, `at` the device of its two loops, `status` the report's.
One action per outcome of a device in the first loop (`TakeSource`, `RefuseSource`,
`TakeResistor`, `TakeOther`) and in the second (`Rate`, `LackModel`, `RefuseModel`,
`PassOver`); `ApplyRules` and `RefuseRules` between them, `RatingsDone` after. `Stop`
is every early return, `refused` every exception. Then the two systems are solved
(`Solve`, `FindConflict`), the limits are checked one by one (`Check`), and `Conclude`
takes the verdict. `SpendBudget` is a spent budget at any point of that: when it
happens is the matter of `VoltageConstraints`, and so is how the bounds are found, which
are shortest paths here.

Abstractions: the devices are those of the expansion without calls, of distinct names;
`literal` is the exact value of the original token, or `None`. The reasons for an early
return, ambiguous names among them, are elements of `issues`; notes are told apart by
what they are about. The validation of the rules is left out.

### LinearDC

State: `network` is `checked`; `matrix` holds `_Matrix` and its `_Work`; `column`,
`active`, `pivots` and `todo` are the locals of `solve`, `todo` the rows that its inner
loop still has to clear; `result` is what substitution has found; `flows` and
`residual` are the locals of `_outputs`. One action per turn of a loop: `StampBranch`;
`SkipColumn` or `ChoosePivot` for a column, then `ClearRow` for each row; `Substitute`
for each pivot, the last first; `VerifyBranch`. `EndElimination` takes the verdict,
`Publish` the decision of the internal verification. Every operation of `_Work` counts
where the code counts it, and whatever exceeds the operations, the fill or the size of
a number ends in `exhausted`.

Abstractions: nodes are numbers in the order of their names, branches come in the order
of their labels; a `Fraction` is a pair in lowest terms, and the budget of bits a bound
on numerator and denominator. The checks of `_input`, the limit on unknowns and the
digest are left out. What a step computes before it notices that a budget is spent is
dropped, as the exception drops it.

`GateAgrees` puts the same network before the audit, as `Solvability` models it. Two
differences of the two profiles are excepted there by name: `SOLVE003` passes over a
source across one node (`solvability.py:222`), and takes no resistor of zero ohms for
a source.

### VerificationGate

State: `disk` and `holds` are the directory, `manifest` and `asOf` the input,
`claimed`, `total`, `evidence` and `found` the locals `resolved_files`,
`total_bytes`, the digest records and `adapter_findings` of `verify_path`;
`verdict` is the report. Each file of the manifest goes through `Claim`
(`_safe_file`, `_claim_file`), `Measure` (the `stat` of `_read_and_digest`) and
`Read` (its read, the comparison with what was measured, the total), which
resolve the path anew each time; `Decide` applies the waivers, adds the findings
about lineage and takes the decision. Any input error leads to `refused`, which
is exit code 2 and no report. `Edit` is another program that puts a file at
another path, removes it, or writes into it, between any two of these.

`Valid` collects the rules of `_parse_manifest` about identity and reference;
the loop of `_apply_waivers` is a fold of `Waive` over the list.

Abstractions: a text is its length, whether it is a manifest, a report or other
data, the findings its reader returns, and the output Magic names. That no two
findings of one report are equal is `OneFindingPerLine` of `ToolReports`; the gate does not
rely on it, and `_apply_waivers` refuses a waiver that matches two findings
(`verification.py:1307`), so reports with two findings of one fingerprint are among the inputs. The
fingerprint of a finding is its report and a key; of the other fields of a waiver
`source` stands for all. Names that differ only in case are left out, and so is
the limit on the manifest's own size. What a manifest says is chosen at the start,
whichever file it is then read from.

### ToolReports

State: the locals of the four readers, `at` the line or item at hand, `found` the
findings so far, and how the reader ended. One action per record of the format:
`TakeCell`, `TakeRule`, `TakeBox` and `FinishDrc` of Magic DRC, with `ReadClean` for
the report that says nothing was found; `TakePassed`, `TakeFailed`, `TakeWarning`,
`TakeOutput`, `FinishLvs` and `FinishPex` of Netgen and Magic PEX; `TakeItem`,
`RefuseLines` and `FinishItems` of KLayout. `TakeHeading` passes a line over,
`TakeOther` refuses one.

`ItemLines` are all lines on which the text of an item's tag stands, in a comment
too, and only their number is compared with that of the items
(`verification.py:870-879`): a comment makes up for two items on one line, and their
findings then have lines that differ but are not their own. `OneFindingPerLine` is
about the first.

Abstractions: a line is the record it is recognised as and the one name in it. A
line that raises an error, because it is not recognised or a field of it is not
valid, is of kind `other`; a line that leaves no trace, blank or a count of zero, is
a `heading`. A KLayout database is its names, its items and the lines on which the
text of an item's tag stands; the shape of the XML, tags spread over lines,
coordinates and the limits on lines and characters are left out. Messages are left
out: they are functions of what is kept.

## 3. What TLC checks

| run | instance | shows |
|---|---|---|
| `writer_races` | two invocations, one forced, for one destination in two spellings, a third aimed at its own input; 3 files, 1 meddling | whole reports, nothing overwritten unasked and no input at all, no temporaries left, `AtomicPublish` |
| `include_loads` | every graph of 3 decks with up to 2, 2 and 1 items; manifests, links, escapes, bad texts with one edit at any moment; budgets of 3 files, 2 bytes a file, 4 bytes, depth 2; for acyclic graphs cards that use, repeat and contradict each other, then one call with 45 combinations of header, body and call; 3 names, 7 evaluations | completeness, cycles, order, budgets and linear traversal, digests, values of parameters |
| `solvability` | 2 subcircuits and a top of up to 2 elements; hierarchies two calls deep with separators in the names of nodes and instances; 3 elements out of 11; 4 sources on 4 nodes; 3 elements that tie rails, some in a subcircuit; budget 6; other findings none or one that denies; policies that override nothing or turn two or three rules into remarks; beside them disjoint sets over 4 nodes, every sequence of calls | agreement of the walks, budget and depth, nets, calls kept apart by names without separators, islands, no false accusation, loops, allow only what is sound, rail shorts once each, refinement of `Partition` |
| `solvability_calls` | 2 elements out of 11 | violated: see Findings |
| `solvability_names` | hierarchies with separators in names | violated: see Findings |
| `audit_loops` | 4 sources on 4 nodes | violated: see Findings |
| `voltage` | up to 4 constraints over 4 nodes: trees joined in pairs, chains, triangles of ranges, rings of one-sided bounds; 14 visits, 2 queries | accepted means feasible, conflicts real, answers tight, nothing after the budget, termination |
| `voltage_envelopes` | every circuit of up to 3 of 15 parts over 2 nodes and ground, one a source; 5 envelopes of sources, one of a net, ratings of diodes and transistors, some of the wrong kind | a pass is sound for every combination of sources, other verdicts are true |
| `linear_dc` | every sequence of 3 branches over 3 nodes, across one node included; every network over 4 nodes with a resistor, a source of either kind or nothing on each edge; 170 operations, 16 nonzeros, numbers up to 12 | what is solved is the operating point, verdicts are structural, the audit agrees |
| `gate` | every list of up to two waivers against up to two findings, of one fingerprint or of two; seven sets of views with five hundred combinations of tool runs; three days; two directories with an edit at any moment | evidence consistent, allow exactly on complete evidence, waivers exact, time no milder, no file twice |
| `release` | 2 sound wheels and each fault of one, a file and its twin in capitals in both orders among them; 2 source distributions and one with each of 12 entries at each of 3 places, too large or incomplete; each sound one with every fault of an installation and every sound installation with every fault of a document; 2 interruptions, 1 new start; every download with one file damaged, missing or cut | what is attested and released is whole and true, what is refused deserves it |
| `tool_reports` | every Magic DRC report of up to 5 records, Netgen and PEX of up to 4, KLayout of up to 3 items on 3 lines | no violation lost, clean only when said, one finding per line |

Why the bounds suffice. Two writers give every order of the calls of two
invocations, and one meddling every way to disturb them at one point; two pieces
tell a partial report from a whole one. Three decks hold a cycle of length
three, a diamond and a repeat under a cycle. Budgets of two to four units are
met exactly, exceeded by one, and exceeded by the last of several files. Three cards on
the way make a chain whose order in the text is not that in which it can be evaluated;
a call that declares a fourth name exceeds the names, and a top level that takes three
passes leaves too few evaluations for the call. Faults of wheel, installation and
document come one at a time, because each check refuses on its own; two interruptions
and one new start let a bound document be bound again, a torn checksum file survive,
and a wheel meet the environment of another. Four
nodes allow trees of height two, the least that halving changes. Two definitions
are enough for mutual recursion, a budget of six is spent at top level, one and
two calls deep, exactly and in excess. One separator in a name, of a node or an instance, makes nets at
different depths be spelled alike. Four sources on four nodes make two
independent cycles that share a source. Three ties make a short of one hop beside one
of two, in one component or in two, directly or through a subcircuit. Four
nodes make trees joined from either side and compressed twice, and rings whose edges
come in the worst order need every round; fourteen visits run out in the last round of
a ring, and in the forward or the reverse search of a query; the greatest sum that
fits is exceeded by one step on a chain. Solutions are enumerated within two volts,
which the answers exceed only when they are compared with the shortest paths. Three
devices put two sources in parallel or in series with a tie, or three around a
triangle, fixed and varying ones in every order; voltages up to four volts exceed every
sum. Three
branches make every loop of two and three and a part tied to nothing, so a network can
be contradictory and undetermined at once; on the complete graph over four nodes six
unknowns and more fill in and cancel, and its densest networks spend each of the three
budgets. Two waivers and two findings give every
way to match none, one, the same or two; three days are before, on and after the
expiry. The runs of `gate` use every adapter with the right views, too few and
too many. One edit can come between any two accesses to a file. Five records hold a
cell, a rule without boxes, and a rule with one, in every order; four hold a verdict,
its contradiction and two findings; three lines hold two items on one line and a
comment that makes up for it.

The modules of the program's parts state a type invariant, `TypeOK`. Where TLAPS
proves it, for every value of the constants, no run repeats it. Nor do runs repeat
`SizesCount` and `AnswersCover`, which are proved; `AnswersAreTight` of
the run `voltage` is the stronger of the two about answers.

Deadlock is checked in the run `release`, whose ends are an action of their own. In the
others a behaviour ends in a state where nothing is left to do.

Fairness. Only `WorkEnds` is about what must happen: `VoltageConstraints` assumes weak
fairness of a constructor or a query that was called, and never that a query is made. No run
states that the loader and the expansion end, because no single slip in them makes them run for
ever: of the loader, the test for cycles, that for repeats and the limit on the depth are each enough.
What a slip costs there is repeated work or a deep stack, and `BoundedWork` and `BudgetKept` speak of those.

## 4. What TLAPS proves

| theorem | of | says, for every value of the constants |
|---|---|---|
| `ReportWriterProofs!TypeCorrect` | `TypeOK` | types |
| `!ReportsAreWhole` | `WholeReports` | a name leads to a whole report or none, also after power loss |
| `!OverwritesNothing` | `NothingOverwritten` | without `--force` only an empty entry is taken, and no publication changes the entry of an input |
| `!TemporariesRemoved` | `NoTemporaryLeft` | the temporary is gone unless its removal failed |
| `!OneWinner` | `ExclusiveCreation` | of invocations that race without `--force` one succeeds, and its report stays |
| `!PublishesAtomically` | `ImplementsAtomicPublish` | refinement |
| `IncludeLoaderProofs!TypeCorrect` | `TypeOK` | types |
| `!WorkIsBounded` | `BoundedWork` | the policy's limits on files, bytes and depth, and no item is taken twice |
| `!AllDigested` | `EverythingDigested` | each deck was parsed from a text that was digested, and the bytes digested are those accounted for |
| `!CleanIsComplete` | `CompleteWhenClean` | without an issue every reference was followed, and each deck but the entry is included once |
| `!CyclesFound` | `CyclesReported` | a cycle is reported exactly when there is one |
| `!ParamsReplayed` | `ParamsInOrder` | without an issue the `.param` cards are in the order of the flattened text |
| `UnionFindProofs!TypeCorrect` | `TypeOK` | types |
| `!SizesAreCounts` | `SizesCount` | the size at a root is the size of its group |
| `!Refinement` | `ImplementsPartition` | refinement |
| `AuditProofs!TypeCorrect` | `TypeOK` | types |
| `!BudgetBounds` | `BudgetKept` | at most `max_expanded_instances` devices, and no more calls open than there are definitions, recursive or not |
| `!NothingLeftOut` | `CompleteOrDenied` | the walk of the cost and the walk of the expansion agree: what is within the limit is listed in full |
| `!IslandsFloat` | `IslandsAreUnreachable` | the islands are the nodes without a conducting path to ground, each once |
| `!NoNodeAccused` | `NoFalseAccusation` | a node on an island floats in the flat netlist too |
| `!LoopsIndependent` | `LoopsAreIndependentCycles` | each loop found is one cycle of sources, and there are as many as independent cycles |
| `!RailShorts` | `RailShortsOnce` | every short between a power and a ground rail is reported once, and nothing else |
| `!AllowedSound` | `AllowedIsSound` | what is allowed keeps the promises that the policy enforces |
| `!NetsJoined` | `NetsAreConnections` | pins are on one node exactly when ports, global nodes or names spelled alike connect their nets in the hierarchy |
| `VoltageConstraintsProofs!TypeCorrect` | `TypeOK` | types, and work beyond its limits is noticed |
| `!AcceptedHasSolution` | `AcceptedIsFeasible` | the potentials keep every constraint that was declared |
| `!ConflictsAreReal` | `ConflictIsReal` | no voltages keep the constraints of a system refused as inconsistent |
| `!AnswersHold` | `AnswersCover` | no voltages that keep the constraints differ by more or less than was answered |
| `!AnswersTight` | `AnswersAreTight` | each end of an answer is the tightest that follows from the constraints, and infinite exactly when nothing bounds it |
| `!BudgetIsFinal` | `NothingAfterBudget` | no query is answered once a search ran out of budget |
| `VerificationGateProofs!TypeCorrect` | `TypeOK` | types, and one of three decisions |
| `!JudgesWhatItDigests` | `EvidenceIsConsistent` | sizes, findings and total are those of the texts digested |
| `!AllowedExactly` | `AllowedExactlyWhenComplete` | allow, if and only if the evidence is complete and every finding and every waiver is accounted for |
| `!WaiversExact` | `WaiversAreExact` | a report is made only if each waiver matches one finding at most and each finding one waiver at most; what is waived is named by a waiver in force, and each waiver is used or has a notice |
| `!TimeOnlyHardens` | `LaterIsNoMilder` | the same evidence is judged no more mildly on a later day |
| `!OneFileEach` | `NoFileTwice` | no file serves twice in a directory that stays as it is, whatever its links |
| `ToolReportsProofs!TypeCorrect` | `TypeOK` | types |
| `!NoViolationLost` | `EveryViolationFound` | the findings are the violations a report states |
| `!FindingsToldApart` | `OneFindingPerLine` | no two findings of a report share a line |
| `!PassesOnlyWhenSaid` | `CleanOnlyWhenSaid` | no report passes that was cut off or contradicts itself |
| `ReleaseProofs!ReleaseIsSound` | `PublishedIsSound` | what is attested and released is whole, with true checksums and a true SBOM, and its archives unpack whole |
| `!RefusalsHaveReasons` | `RefusalsAreReal` | a refusal has its reason in an archive, the wheel, the installation, Syft's document, remains of a killed command (a temporary file beside a valid document, or lines cut off), a changed download or an earlier release |

The assumptions are those named in the modules, and TLC evaluates each of them
in the runs.

*ReportWriter.* The invariant adds that what is durable was written, that every
entry of the directory, in memory and on disk, leads to a file that is whole and
durable (`NamesSettled`), that a temporary belongs to its invocation, and that an
invocation past the alias check has a destination that is no input. `WholeReports`
is not inductive without the second: the state that a power loss uncovers was
published at some earlier time. `OneWinner` needs an invariant of its own
(`WinnersInv`): while only invocations without `--force` touch an entry, the disk is
behind by its creation at most, and the entry of the one that won is empty only after a
loss of power, when nobody is running who could take it again.

*IncludeLoader.* `Traversal` says which items the traversal has passed: those
behind the position of an open deck, and any of a loaded deck that is not open.
Every edge and every parameter event is of a passed item, decks on the path are
loaded and different, so an item about to be taken is new. A deck is opened only
when it is not loaded, and then none of its items has been passed. The budgets
need `WholeRead`: a read that is within the budgets is of the whole file, which
rests on the one byte that is read beyond the limit.

On that invariant rest those about `IncludeReference`. `Digested` keeps the total the
sum over the texts that were read, which needs that a sum over a finite set of names
grows by the summand of a new one (`OneMoreSummand`, from an induction over subsets).
`Linked` says what the path is: it begins at the entry, and the item before each
position on it is the include that led to the next deck, or to the visit to come.
`Faultless` says what holds as long as nothing was reported: every target of an edge is
loaded or about to be visited, each deck but the entry has the one edge, and each
reference that was passed has its edge.

A cycle is stated as a set of decks that each include one of them (`Ring`), which for
finitely many decks is the same as a cycle and needs no paths. If one is reported, the
decks from its repeat to the end of the path are such a set (`CycleSeen`). If none is,
the decks that were left lead only to decks that were left before, and an edge of the
path leads down it; so a set like that would have to lie among the decks left, and none
of them was left first (`Sorted`).

For the order of the cards `Replayed` says that there are accounts of what the first
items of each deck come to (`Laid`): a card adds itself, an include what all the items of
its target come to, which is settled because targets on account have been left. What was
collected is the concatenation of the accounts along the path, for the items dealt with:
not the include that led on. Entering a deck adds an empty account, leaving it moves
its whole account to that of the deck that included it, and concatenation is associative.
At the end the accounts solve the equation that `Flattened` chooses a solution of, and two
solutions could only differ on decks that form a ring. `FlattenIs` says what the library's
`FlattenSeq`, a recursive function over the positions, comes to.

*UnionFind.* The invariant says that a parent is in the same group and has a
strictly greater size. Without the sizes the grandparent of a node might be the
node itself, and halving would cut it off.

*Expansion and the audit.* `AuditProofs` extends `AuditGate`, and with it
`Solvability` and `Expansion`. The types and `BudgetKept` are of `Spec`: the open calls
lead to different scopes, so the stack maps into the definitions one to one and is no
longer than they are many, which rests on the test of `stack` before a descent
(`circuit_graph.py:374`) and on the budget's test before every append, and on nothing that
the walk of the cost has found. All else is of `AuditSpec`, over `AuditInv`, which
says what the devices are: elements of the netlist with as many nodes as those have.

The folds come first. `SetRecursion` and `NatRecursion` build what a definition by
recursion describes, so that the library's `FoldSet` and `FoldLeft` can be unfolded by one element
(`PairsFold`, `EndsFold`, `GroupsFold`, `LoopsFold`), and induction runs over
the set of those subsets, or numbers, for which the claim holds. `AreComponents` says
of a set of groups that it partitions the nodes of some edges, that an edge lies in a group,
and that no closed set cuts a group. `Unite` keeps that for one edge more
(`UniteComponents`), so every fold yields the components in whatever order it runs
(`ComponentsUnique`), and the nodes reached from one are its group (`ReachedIsComponent`).
`IslandsFloat` and `NoNodeAccused` follow; the second because whatever an undefined
body may tie is among the pairs that the islands were built from.

For the loops, `Apart` says that a closed set has one node and not the other.
`Forest` says that each accepted source is needed between its own ends. The sources a
tree needs between two joined nodes are then a path: at each inner node two of them
meet, and with the new source they are one cycle (`LoopOfPath`). An edge between two trees
takes one from the number of components or adds a node for the edge (`UniteCounts`);
counting both gives as many loops as independent cycles (`LoopInv`).

For `NothingLeftOut`, `Costs` is the function that the memo of `expansion_cost` tabulates. It
exists because the set of open scopes grows along the recursion (`Rank`), which makes
the definition well founded. `Counted` relates each frame to it: the devices listed since the
frame began are the cost of the cards it has passed, so that the
budget's test never fails when the whole cost is within the limit. `Listed` says which cards
of which path are listed: those before the position of each frame, and
the bodies of all calls behind it. Together they are `WalkInv`; when the last frame is left,
every card of every path is listed, and the devices are as many as the cost (`AllListed`).

`RailShorts` follows a finding through overrides and deduplication (`RunChecksKeeps`): what was
found has a kept finding of its identity, and what was kept has one that was found. A
group of ties with a rail is what is reached from the rail. For `AllowedSound` that means that no
rule has found anything of a code that the policy enforces (`AllowedIsSilent`), and the
silence of each rule is turned into what it promises (`Promised`) by the results above. That the
promise survives in the report is `AllowedInv`.

`NetsJoined` relates two ways to say what is connected: the names of nodes that the
expansion substitutes call by call, and the nets of each instance with ties between a
port and the net it is passed. While the names and port counts are in order
(`WellFormed`), `NetsInv` says that every device has a path and name of its own
(`Distinct`) and lies within a call that is listed (`Within`), and that each pin is on the one
node its net is (`IsNodeOf`, unique by `OneNode`), with ties from that net up to it
(`PinsJoin`, `OneNet`). For the frames that are still open, `FramesNets` says that only
elements a frame has passed are listed under it (`NotYet`) and that its ports are the nodes
its call was given (`PortsFrom`). Pins on one node are then joined by ties;
conversely the nets that are one node are closed under the ties (`TiesAgree`, `PinsMeet`). Names spelled alike are ties of their own (`Homonyms`): they join
the nets that name themselves, one from each call, so the argument needs nothing of how a name is spelled. The
attempt showed that the property had to be stated with more care: a port that is
named `0` is the global node whatever a call passes for it (`circuit_graph.py:362`), so
there is no tie between the two. The netlists of `solvability` have such a port now.

Three assumptions say what the inputs are: `NetlistAssumption`, that a netlist is finite, with
sequences for its bodies, ports and nodes; `PolicyAssumption`, that overrides
are severities there are; `OtherAssumption`, that the rules which are an input have codes
of their own, as those of `checks.py` do.

*VoltageConstraints.* Acceptance rests on the second look: a system is served only
after each constraint was either checked against its tree or became edges
(`Covered`), and after a round that changed nothing (`Respected`), so the forest need
not be trusted for it. The converse needs the forest: all that is derived, weights,
offsets and edges, is true of every solution (`Agrees`), which path compression keeps
because the remainder is the distance from the cursor to the root. For a contradiction
among edges, suppose a solution; the greatest potentials below zero that keep the
edges are then never undercut (`Highest`), and each is zero or supported by an edge
(`Supported`), so every round brings one more root to its final value (`RoundGains`)
and the last possible round changes nothing. That answers hold follows from distances
that bound `Gap`, whether they are fresh or cached. That they are tight needs the
converse too. While a search runs, each edge at a root it has reached was relaxed,
is being looked at, or its near end is still queued (`Pending`), so a search that ends
leaves no edge that could shorten a distance (`Complete`); then one solution has
exactly these distances, and what was not reached lies as far away as one likes
(`DistancesAreLevels`), so each end is met (`Met`). The reference, `Chained`, is a
recursive function: that its equation holds is proved by iteration (`ChainedIs`), and by
induction over the nodes allowed in between it is closed under one more and bounds
every solution (`ChainsLinked`), so it is met by one (`TightestIsMet`). Two bounds that both
hold and are both met are equal (`EndIsTight`). The solutions are those over all
integers, not only within `MaxVolts`. The attempt found a fault of the reference: it
never took node 0 as an intermediate, so it was right for nodes that start at 1 only.

*VerificationGate.* `Judged` and `Measured` relate the findings and the sizes to
the evidence; a step of `Read` appends to both from one text, and the length it
read is the length it measured. The total needs that nothing is digested before
the manifest.

`Applied` is a fold over the waivers. `AppliedInTurn` unfolds it: its value is that of
`Waive` at the last waiver and the result of those before. From there facts about
lists of any length follow by induction over the number of waivers, written as an
induction over a set (`SetOfAllNaturals`: a set of naturals that has 0 and with every
number the next has all), because the library's theorem takes an operator. `AppliedIs` says
what the fold comes to: it refuses unless each waiver matches one finding at most and
no finding is matched twice (`Exact`), and otherwise waives just the pairs of a waiver
in force and the finding it names. `WaiversExact` is that, of the report.
`TimeOnlyHardens` compares the folds of two days: a later day has fewer pairs and more
notices (`LaterWaivesLess`), and whether the list is refused does not depend on the day.

`Gate` is a second inductive invariant, over the first: what was claimed are the places
of the records passed so far and of the manifest (`Claims`); while nobody edits they lead to different files
(`Apart`); the evidence is of the records in turn (`Followed`); and the verdict is
that of all the evidence, zero exactly if nothing is left to review or to deny
(`Decided`). `OneFileEach` is `Apart` at the end. `AllowedExactly` adds what a
manifest that is valid says about tools and views (`ValidManifest`, `ToolsBound`), that
lineage without findings is lineage without a fault (`LineageClean`), and that each
report's findings are those of its own record (`ReportRecords`).

*Release.* `ReleaseInv` follows the document. Once it is bound it fits the wheel and the
installation (`BillFits`): there is an element with the right checksums for every
installed file, the package contains each of them, and the verification code is
that of exactly these files. That is so of the temporary file, of the document in its
place and, since binding what is bound changes nothing that matters, after a kill
between the two as well. Validation counts the elements against the code, so a
document that passes lists no other file; the argument compares two bags of contents and
two finite sets of one cardinality. `Transfers` says that the upload is `dist` as
it was verified, and that what a job goes on with verifies; the lines of the checksums,
each subject once, tie a download to what was uploaded. The archives need only
that an accepted listing unpacks whole, which is about the order of two entries that
collide. `InputsAssumption` says what archives, installations and documents are made
of, whatever is wrong with them.

That every refusal has a reason (`RefusalInv`) takes the converse of each check, from the
independent definitions of what is faithful: a list as long as there are names in it
names each once (`EachOnce`), so a `RECORD` that is complete has no row twice; and the
elements of a faithful document are the installed files one by one, so that the
verification code is the same (`CodesAgree`). `Origins` says which document is bound:
always Syft's, as it is or as binding makes it, for `BoundTwice` shows that binding it
again after a kill changes nothing. `SumsInOrder` says that `SHA256SUMS` is there before
it is created only if a killed call left it without all of its lines. A temporary file left in
`dist` is a reason only after the document was validated, so `Remains` asks for both. Two assumptions
were needed. `SentinelsAssumption`: the values that stand for a file that is missing or
damaged, and for nothing uploaded, are no archive, no document and no lines; it is about
the model and not the code. `RequiredAssumption`: at least one file of the source distribution is
required, as `release.yml` does; if none were, a source distribution without entries
would be without fault and refused for want of a root.

*ToolReports.* `Reading` keeps every finding behind the line at hand, and behind the
rule at hand as long as that has no box: only then is the line of a rule without
boxes free when its finding is added late. For KLayout it says that the finding of
item *i* is on the *i*-th item line. `Verdict` relates each flag to the lines that
set it, and a failure to a finding that denies. `NothingLost` compares what was found
with what the lines behind state; whether a rule stays without a box is only known
when the next one begins, so its set is cut at the rule at hand (`BareAtHand`).

Only model-checked: liveness (`WorkEnds`), which is out of the prover's reach; what compares with
nested data (`ParametersAreLexical`); all of `LinearDC`, whose arithmetic and sums are
recursive; and the verdicts of `VoltageEnvelopes`, which need a range of integer voltages that is
large enough for the system of the run, so they do not hold for every value of its constants.

## 5. Findings

The first changes what is reported and never the decision. Under the second and the third an
audit may miss what the documents say it would find. The fourth is a disagreement of two
documents, one of which the code follows.

1. `src/CHANGELOG.md:138` and `solvability.py:210` promise one finding for each
   independent cycle of voltage sources. The message of `SOLVE003` gives the number of
   sources only, and it has no location; `run_checks` keeps one finding of each
   identity (`checks.py:991`), which is code, location and message. Of two loops with
   equally many sources, anywhere in the circuit, one is lost. Run `audit_loops`.
2. `src/README.md:231` and `solvability.py:26` say a call that could not be
   expanded is treated as connecting all of its pins. Calls that were expanded
   stay in the list of devices (`circuit_graph.py:371`), and `conducting_pairs`
   ties their pins too: a subcircuit that holds only a capacitor hides the
   floating node that is denied in the flat netlist. Run `solvability_calls`.
3. `src/docs/architecture.md:72-75` says that the expansion "namespaces internal nets", so
   that the checks work "without conflating separate calls". The name of an internal net is the
   path of its call, a colon and the node (`circuit_graph.py:366`), and names of nodes and
   instances may hold both separators: a node `top/x1:n` of the top level is the node `n` of
   `x1`, and a node of `x2` in `x1` is that of an instance `x1/x2`. The audit takes the two for
   one net, without a finding that denies the netlist. The voltage checker refuses such names
   (`voltage.py:233-254`), and that is enough (`SeparatorsSuffice`). Run `solvability_names`.
4. `src/README.md:255-256` says that repeating an include "replays its parameter
   assignments". `src/docs/architecture.md:42-45` says that a repeated include is not traversed
   again and that its events "are not replayed", and so does the code: `visit` returns before any
   is recorded (`include_graph.py:84-100`). `BoundedWork` of the run `include_loads` has it as
   the code does: no `.param` card is recorded twice.

## 6. Not modelled

Characters of text (lexing, numbers, expressions, JSON, report layout), the
validation of configuration values, the spelling of archive names and the DCO check. In the
audit: the risk score and the rules listed above as an input. In the writer: parent directories that change while a report is written, links to
links. In the loader: directories below the root, a link put in place between
resolving and opening. In the expansion: the values
of elements after parameters are put in, which recursion is reported when the cost is saturated before it is found, and the
interpreter's stack. In the gate: names that differ only in case. In the
readers: the shape of the XML, coordinates, and the limits on lines.

## 7. Plan

In order of importance:

1. Load failures as findings of `AuditGate`, the exit code of `cli.py`, the risk score.
2. Parameters in the values of elements, and with them `dc_netlist.py`: the statuses of
   its errors on `LinearDC` and `Expansion`.
3. The nesting of `parse_deck`; `Dco`.
4. Proofs: the verdicts of `VoltageEnvelopes`, under an assumption that bounds the voltages
   of a system.

Modules that answer questions about one bundle should share runs: the checks of
a circuit in one, the gate and its readers in another.
